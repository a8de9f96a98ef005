------------------------- MODULE EvmSignatureProofs -------------------------
(***************************************************************************)
(* That recover_evm_signer finds exactly the signer, whatever the prime    *)
(* order of the group is.                                                  *)
(*                                                                         *)
(* Numbers that differ by a multiple of the order are congruent; the       *)
(* lemmas carry the multiple along, so that each step is an equation.  A   *)
(* number below the order has an inverse: the least positive combination   *)
(* of the number and the order divides both, so it is 1.  A point is known *)
(* by its x coordinate and its parity, because the order is odd.           *)
(***************************************************************************)
EXTENDS EvmSignature, NaturalsInduction, WellFoundedInduction, TLAPS

\* x and y differ by a multiple of the order.
Congruent(x, y) == \E k \in Int : x = y + Order * k

-----------------------------------------------------------------------------
(* Numbers modulo the order. *)

LEMMA OrderType == Order \in Nat \ {0} /\ Order > 2
  BY OrderAssumption

LEMMA Division ==
  ASSUME NEW n \in Nat \ {0}, NEW x \in Int
  PROVE  /\ x % n \in 0 .. n - 1
         /\ x \div n \in Int
         /\ x = n * (x \div n) + (x % n)
  OBVIOUS

LEMMA SameResidue ==
  ASSUME NEW n \in Nat \ {0}, NEW x \in 0 .. n - 1, NEW y \in 0 .. n - 1,
         NEW k \in Int, x = y + n * k
  PROVE  x = y
  OBVIOUS

LEMMA CongruentToRemainder ==
  ASSUME NEW x \in Int
  PROVE  x % Order \in 0 .. Order - 1 /\ Congruent(x, x % Order)
<1>1. /\ x % Order \in 0 .. Order - 1
      /\ x \div Order \in Int
      /\ x = Order * (x \div Order) + (x % Order)
  BY OrderType, Division
<1>2. x = (x % Order) + Order * (x \div Order)
  BY <1>1, OrderType
<1> QED
  BY <1>1, <1>2 DEF Congruent

LEMMA CongruentSymmetric ==
  ASSUME NEW x \in Int, NEW y \in Int, Congruent(x, y)
  PROVE  Congruent(y, x)
<1>1. PICK k \in Int : x = y + Order * k
  BY DEF Congruent
<1>2. y = x + Order * (-k) /\ -k \in Int
  BY <1>1, OrderType
<1> QED
  BY <1>2 DEF Congruent

LEMMA CongruentTransitive ==
  ASSUME NEW x \in Int, NEW y \in Int, NEW z \in Int,
         Congruent(x, y), Congruent(y, z)
  PROVE  Congruent(x, z)
<1>1. PICK k \in Int : x = y + Order * k
  BY DEF Congruent
<1>2. PICK j \in Int : y = z + Order * j
  BY DEF Congruent
<1>3. x = z + Order * (k + j) /\ k + j \in Int
  BY <1>1, <1>2, OrderType
<1> QED
  BY <1>3 DEF Congruent

LEMMA CongruentTimes ==
  ASSUME NEW x \in Int, NEW y \in Int, NEW z \in Int, Congruent(x, y)
  PROVE  Congruent(x * z, y * z) /\ Congruent(z * x, z * y)
<1>1. PICK k \in Int : x = y + Order * k
  BY DEF Congruent
<1>2. k * z \in Int /\ z * k \in Int
  BY <1>1
<1>3. x * z = y * z + Order * (k * z)
  BY <1>1, OrderType
<1>4. z * x = z * y + Order * (k * z)
  BY <1>1, OrderType
<1> QED
  BY <1>2, <1>3, <1>4 DEF Congruent

LEMMA CongruentPlus ==
  ASSUME NEW x \in Int, NEW y \in Int, NEW z \in Int, Congruent(x, y)
  PROVE  Congruent(x + z, y + z) /\ Congruent(z + x, z + y)
<1>1. PICK k \in Int : x = y + Order * k
  BY DEF Congruent
<1>2. x + z = (y + z) + Order * k /\ z + x = (z + y) + Order * k
  BY <1>1, OrderType
<1> QED
  BY <1>1, <1>2 DEF Congruent

\* Congruent numbers below the order are equal.
LEMMA CongruentBelowOrder ==
  ASSUME NEW x \in 0 .. Order - 1, NEW y \in 0 .. Order - 1, Congruent(x, y)
  PROVE  x = y
<1>1. PICK k \in Int : x = y + Order * k
  BY DEF Congruent
<1> QED
  BY <1>1, OrderType, SameResidue

\* The remainder of a number is the number below the order it is congruent to.
LEMMA RemainderIs ==
  ASSUME NEW x \in Int, NEW y \in 0 .. Order - 1, Congruent(x, y)
  PROVE  x % Order = y
<1>1. x % Order \in 0 .. Order - 1 /\ Congruent(x, x % Order)
  BY CongruentToRemainder
<1>2. x % Order \in Int /\ y \in Int
  BY <1>1, OrderType
<1>3. Congruent(x % Order, x)
  BY <1>1, <1>2, CongruentSymmetric
<1>4. Congruent(x % Order, y)
  BY <1>2, <1>3, CongruentTransitive
<1> QED
  BY <1>1, <1>4, CongruentBelowOrder

-----------------------------------------------------------------------------
(* Inverses. *)

\* The positive combinations of a number and the order.
Combinations(a) ==
  {m \in Nat \ {0} : \E x, k \in Int : m = a * x + Order * k}

\* A number that the least combination g does not divide would leave a smaller
\* one.
LEMMA LeastCombinationDivides ==
  ASSUME NEW a \in Nat, NEW g \in Combinations(a),
         \A m \in Combinations(a) : g <= m,
         NEW n \in Nat, NEW u \in Int, NEW v \in Int,
         n = a * u + Order * v
  PROVE  n % g = 0
<1>1. PICK x \in Int, k \in Int : g = a * x + Order * k
  BY DEF Combinations
<1>2. g \in Nat \ {0}
  BY DEF Combinations
<1> DEFINE q == n \div g
           r == n % g
<1>3. r \in 0 .. g - 1 /\ q \in Int /\ n = g * q + r
  <2>1. n \in Int
    OBVIOUS
  <2>2. /\ n % g \in 0 .. g - 1
        /\ n \div g \in Int
        /\ n = g * (n \div g) + (n % g)
    BY <1>2, <2>1, Division
  <2> QED
    BY <2>2
<1> HIDE DEF q, r
<1>4. r = a * (u - x * q) + Order * (v - k * q)
  <2>1. g * q = a * (x * q) + Order * (k * q)
    BY <1>1, <1>3, OrderType
  <2>2. x * q \in Int /\ k * q \in Int /\ r \in Int
    BY <1>2, <1>3
  <2> QED
    BY <1>3, <2>1, <2>2, OrderType
<1>5. u - x * q \in Int /\ v - k * q \in Int
  BY <1>3
<1>6. ASSUME r # 0 PROVE FALSE
  <2>1. r \in Nat \ {0}
    BY <1>2, <1>3, <1>6
  <2>2. r \in Combinations(a)
    BY <1>4, <1>5, <2>1 DEF Combinations
  <2>3. g <= r
    BY <2>2
  <2> QED
    BY <1>2, <1>3, <2>3
<1> QED
  BY <1>6 DEF r

\* Only 1 divides both a number below the order and the order.
LEMMA CommonDivisor ==
  ASSUME NEW a \in Keys, NEW g \in Nat \ {0}, a % g = 0, Order % g = 0
  PROVE  g = 1
<1>1. a \in Nat \ {0} /\ a < Order
  BY OrderType DEF Keys
<1> DEFINE p == a \div g
           q == Order \div g
<1>2. p \in Int /\ a = g * p + (a % g)
  BY <1>1, Division
<1>3. q \in Int /\ Order = g * q + (Order % g)
  BY OrderType, Division
<1>4. a = g * p /\ Order = g * q
  BY <1>2, <1>3
<1> HIDE DEF p, q
<1>5. g <= a
  <2>1. p >= 1
    BY <1>1, <1>2, <1>4
  <2> QED
    BY <1>1, <1>2, <1>4, <2>1
<1>6. q >= 2
  <2>1. q # 1 /\ q > 0
    BY <1>1, <1>3, <1>4, <1>5, OrderType
  <2> QED
    BY <1>3, <2>1
<1>7. ASSUME g # 1 PROVE FALSE
  <2>1. g \in 2 .. Order - 1
    BY <1>1, <1>5, <1>7, OrderType
  <2>2. q < Order
    BY <1>3, <1>4, <1>6, <2>1, OrderType
  <2>3. q \in 2 .. Order - 1
    BY <1>3, <1>6, <2>2, OrderType
  <2> QED
    BY <1>4, <2>1, <2>3, OrderAssumption
<1> QED
  BY <1>7

\* Every number between 0 and the order has an inverse.
LEMMA InverseExists ==
  ASSUME NEW a \in Keys
  PROVE  \E b \in Keys : (a * b) % Order = 1
<1>1. a \in Nat /\ a > 0 /\ a < Order
  BY OrderType DEF Keys
<1> DEFINE C == Combinations(a)
<1>2. C \subseteq Nat
  BY DEF Combinations
<1>3. a \in C
  <2>1. a = a * 1 + Order * 0
    BY <1>1, OrderType
  <2> QED
    BY <1>1, <2>1 DEF Combinations
<1>4. PICK g \in C : \A m \in C : ~ (<<m, g>> \in OpToRel(<, Nat))
  <2> HIDE DEF C
  <2> QED
    BY <1>2, <1>3, NatLessThanWellFounded, WFMin
<1>5. \A m \in C : g <= m
  <2> SUFFICES ASSUME NEW m \in C, ~ (g <= m) PROVE FALSE
    OBVIOUS
  <2>1. m \in Nat /\ g \in Nat /\ m < g
    BY <1>2
  <2> QED
    BY <1>4, <2>1 DEF OpToRel
<1>6. g \in Nat \ {0}
  BY DEF Combinations
<1>7. a % g = 0
  <2>1. a = a * 1 + Order * 0
    BY <1>1, OrderType
  <2>2. 0 \in Int /\ 1 \in Int
    OBVIOUS
  <2> HIDE DEF C
  <2> QED
    BY <1>1, <1>5, <2>1, <2>2, LeastCombinationDivides DEF C
<1>8. Order % g = 0
  <2>1. Order = a * 0 + Order * 1
    BY <1>1, OrderType
  <2>2. Order \in Nat /\ 0 \in Int /\ 1 \in Int
    BY OrderType
  <2> QED
    BY <1>1, <1>5, <2>1, <2>2, LeastCombinationDivides
<1>9. g = 1
  BY <1>6, <1>7, <1>8, CommonDivisor
<1>10. PICK x \in Int, k \in Int : 1 = a * x + Order * k
  BY <1>9 DEF Combinations
<1> DEFINE b == x % Order
<1>11. b \in 0 .. Order - 1 /\ Congruent(x, b)
  BY CongruentToRemainder
<1> HIDE DEF b
<1>12. b \in Int /\ a \in Int /\ a * x \in Int /\ a * b \in Int
  BY <1>1, <1>11, OrderType
<1>13. Congruent(1, a * x)
  BY <1>10, <1>12 DEF Congruent
<1>14. Congruent(a * x, a * b)
  BY <1>11, <1>12, CongruentTimes
<1>15. Congruent(1, a * b)
  BY <1>12, <1>13, <1>14, CongruentTransitive
<1>16. Congruent(a * b, 1)
  BY <1>12, <1>15, CongruentSymmetric
<1>17. (a * b) % Order = 1
  BY <1>12, <1>16, RemainderIs, OrderType
<1>18. b # 0
  <2> SUFFICES ASSUME b = 0 PROVE FALSE
    OBVIOUS
  <2>1. Congruent(1, 0)
    <3>1. a * b = 0
      BY <1>1
    <3> QED
      BY <1>15, <3>1
  <2>2. 1 \in 0 .. Order - 1 /\ 0 \in 0 .. Order - 1
    BY OrderType
  <2>3. 1 = 0
    BY <2>1, <2>2, CongruentBelowOrder
  <2> QED
    BY <2>3
<1> QED
  BY <1>11, <1>17, <1>18, OrderType DEF Keys

\* What InverseOf returns, and that it cancels.
LEMMA InverseCancels ==
  ASSUME NEW a \in Keys, NEW x \in Int
  PROVE  /\ InverseOf(a) \in Keys
         /\ Congruent(InverseOf(a) * (a * x), x)
         /\ Congruent(a * (InverseOf(a) * x), x)
<1> DEFINE b == InverseOf(a)
<1>1. b \in Keys /\ (a * b) % Order = 1
  BY InverseExists DEF InverseOf
<1> HIDE DEF b
<1>2. a \in Int /\ b \in Int /\ a * b \in Int /\ (a * b) * x \in Int
  BY <1>1, OrderType DEF Keys
<1>3. Congruent(a * b, 1)
  BY <1>1, <1>2, CongruentToRemainder
<1>4. Congruent((a * b) * x, 1 * x)
  <2>1. 1 \in Int
    OBVIOUS
  <2> QED
    BY <1>2, <1>3, <2>1, CongruentTimes
<1>5. (a * b) * x = b * (a * x) /\ (a * b) * x = a * (b * x) /\ 1 * x = x
  BY <1>2
<1> QED
  BY <1>1, <1>4, <1>5 DEF b

-----------------------------------------------------------------------------
(* Points. *)

LEMMA OrderIsOdd ==
  ASSUME NEW p \in Int
  PROVE  2 * p # Order
<1> SUFFICES ASSUME 2 * p = Order PROVE FALSE
  OBVIOUS
<1>1. (2 \in 2 .. Order - 1 /\ p \in 2 .. Order - 1) \/ p = 1
  BY OrderType
<1> QED
  BY <1>1, OrderType, OrderAssumption

\* An x coordinate is a number between 0 and the order; a point and its
\* opposite share it and differ in parity.
LEMMA Points ==
  ASSUME NEW p \in Keys
  PROVE  /\ XCoordinate(p) \in Keys
         /\ Parity(p) \in {0, 1}
         /\ Order - p \in Keys
         /\ XCoordinate(Order - p) = XCoordinate(p)
         /\ Parity(Order - p) = Flipped(Parity(p))
<1>1. p \in Int /\ 1 <= p /\ p < Order /\ 2 * p # Order
  BY OrderType, OrderIsOdd DEF Keys
<1>2. Order - p \in Keys
  BY <1>1, OrderType DEF Keys
<1>3. CASE 2 * p < Order
  <2>1. ~ (2 * (Order - p) < Order) /\ Order - (Order - p) = p
    BY <1>1, <1>3, OrderType
  <2>2. XCoordinate(p) = 2 * p /\ XCoordinate(Order - p) = 2 * p
    BY <1>3, <2>1 DEF XCoordinate
  <2>3. Parity(p) = 0 /\ Parity(Order - p) = 1
    BY <1>3, <2>1 DEF Parity
  <2>4. 2 * p \in Keys
    BY <1>1, <1>3, OrderType DEF Keys
  <2> QED
    BY <1>2, <2>2, <2>3, <2>4 DEF Flipped
<1>4. CASE ~ (2 * p < Order)
  <2>1. 2 * (Order - p) < Order
    BY <1>1, <1>4, OrderType
  <2>2. /\ XCoordinate(p) = 2 * (Order - p)
        /\ XCoordinate(Order - p) = 2 * (Order - p)
    BY <1>4, <2>1 DEF XCoordinate
  <2>3. Parity(p) = 1 /\ Parity(Order - p) = 0
    BY <1>4, <2>1 DEF Parity
  <2>4. 2 * (Order - p) \in Keys
    BY <1>1, <2>1, OrderType DEF Keys
  <2> QED
    BY <1>2, <2>2, <2>3, <2>4 DEF Flipped
<1> QED
  BY <1>3, <1>4

\* The x coordinate and the parity tell which point it is.
LEMMA PointIsKnown ==
  ASSUME NEW p \in Keys, NEW q \in Keys,
         XCoordinate(p) = XCoordinate(q), Parity(p) = Parity(q)
  PROVE  p = q
<1>1. p \in Int /\ q \in Int
  BY OrderType DEF Keys
<1>2. (2 * p < Order) <=> (2 * q < Order)
  BY DEF Parity
<1>3. CASE 2 * p < Order
  <2>1. 2 * p = 2 * q
    BY <1>2, <1>3 DEF XCoordinate
  <2> QED
    BY <1>1, <2>1
<1>4. CASE ~ (2 * p < Order)
  <2>1. 2 * (Order - p) = 2 * (Order - q)
    BY <1>2, <1>4 DEF XCoordinate
  <2> QED
    BY <1>1, <2>1, OrderType
<1> QED
  BY <1>3, <1>4

\* Recovery works with the one point that has the signature's coordinate and
\* parity.
LEMMA RecoveredFromPoint ==
  ASSUME NEW h, NEW sig, NEW p \in Keys, sig.r = XCoordinate(p), sig.s # 0
  PROVE  Recovered(h, Parity(p), sig)
           = (InverseOf(sig.r) * (sig.s * p - h)) % Order
<1> DEFINE points == {q \in Keys : XCoordinate(q) = sig.r
                                     /\ Parity(q) = Parity(p)}
<1>1. points = {p}
  BY PointIsKnown
<1>2. (CHOOSE q \in points : TRUE) = p
  BY <1>1
<1>3. points # {}
  BY <1>1
<1> QED
  BY <1>2, <1>3 DEF Recovered

-----------------------------------------------------------------------------
(* Signing and recovering. *)

\* From s = (h + r key) / point follows key = (s point - h) / r.
LEMMA KeyFromSignature ==
  ASSUME NEW h \in Nat, NEW r \in Keys, NEW key \in Keys, NEW p \in Keys,
         NEW s \in Nat, Congruent(s * p, h + r * key)
  PROVE  (InverseOf(r) * (s * p - h)) % Order = key
<1> DEFINE i == InverseOf(r)
<1>1. /\ r \in Int /\ key \in 0 .. Order - 1 /\ p \in Int /\ key \in Int
      /\ i \in Keys /\ i \in Int
  BY OrderType, InverseCancels DEF Keys
<1>2. Congruent(i * (r * key), key)
  BY <1>1, InverseCancels
<1> HIDE DEF i
<1>3. Congruent(s * p + (-h), (h + r * key) + (-h))
  <2>1. s * p \in Int /\ h + r * key \in Int /\ -h \in Int
    BY <1>1
  <2> QED
    BY <2>1, CongruentPlus
<1>4. /\ s * p - h \in Int /\ r * key \in Int
      /\ s * p + (-h) = s * p - h /\ (h + r * key) + (-h) = r * key
  BY <1>1
<1>5. Congruent(s * p - h, r * key)
  BY <1>3, <1>4
<1>6. Congruent(i * (s * p - h), i * (r * key))
  BY <1>1, <1>4, <1>5, CongruentTimes
<1>7. i * (s * p - h) \in Int /\ i * (r * key) \in Int
  BY <1>1, <1>4
<1>8. Congruent(i * (s * p - h), key)
  BY <1>1, <1>2, <1>6, <1>7, CongruentTransitive
<1> QED
  BY <1>1, <1>7, <1>8, RemainderIs DEF i

\* And back.
LEMMA SignatureFromKey ==
  ASSUME NEW h \in Nat, NEW r \in Keys, NEW p \in Keys,
         NEW s \in 0 .. Order - 1, NEW key \in Int,
         key = (InverseOf(r) * (s * p - h)) % Order
  PROVE  (InverseOf(p) * (h + r * key)) % Order = s
<1> DEFINE i == InverseOf(r)
           j == InverseOf(p)
<1>1. r \in Int /\ p \in Int /\ s \in Int /\ s * p \in Int
  BY OrderType DEF Keys
<1>2. i \in Keys /\ Congruent(r * (i * (s * p - h)), s * p - h)
  BY <1>1, InverseCancels
<1>3. j \in Keys /\ Congruent(j * (p * s), s)
  BY <1>1, InverseCancels
<1>4. i \in Int /\ j \in Int
  BY <1>2, <1>3, OrderType DEF Keys
<1> DEFINE d == s * p - h
<1>5. d \in Int /\ i * d \in Int /\ r * (i * d) \in Int /\ r * key \in Int
  BY <1>1, <1>4
<1>6. Congruent(i * d, key)
  BY <1>5, CongruentToRemainder
<1>7. Congruent(r * (i * d), d)
  BY <1>2
<1> HIDE DEF i, j, d
<1>8. Congruent(key, i * d)
  BY <1>5, <1>6, CongruentSymmetric
<1>9. Congruent(r * key, r * (i * d))
  BY <1>1, <1>5, <1>8, CongruentTimes
<1>10. Congruent(r * key, d)
  BY <1>5, <1>7, <1>9, CongruentTransitive
<1>11. Congruent(h + r * key, h + d)
  BY <1>5, <1>10, CongruentPlus
<1>12. h + d = p * s
  BY <1>1 DEF d
<1>13. h + r * key \in Int /\ p * s \in Int
  BY <1>1, <1>5
<1>14. Congruent(j * (h + r * key), j * (p * s))
  BY <1>4, <1>11, <1>12, <1>13, CongruentTimes
<1>15. j * (h + r * key) \in Int /\ j * (p * s) \in Int
  BY <1>4, <1>13
<1>16. Congruent(j * (h + r * key), s)
  BY <1>1, <1>3, <1>14, <1>15, CongruentTransitive DEF j
<1> QED
  BY <1>15, <1>16, RemainderIs DEF j

Signatures == [length : Nat, r : Nat, s : Nat, recovery_id : Nat]

\* Whose signature is recovered has made it: with the nonce that is the point.
LEMMA RecoveredHasSigned ==
  ASSUME NEW hash \in [length : Nat, value : Nat], NEW sig \in Signatures,
         NEW key, key = recover_evm_signer(hash, sig), key # Nobody
  PROVE  /\ hash.length = 32
         /\ sig.s # 0
         /\ \E nonce \in Keys : sig = LowSignature(key, hash.value, nonce)
<1> DEFINE parity == sig.recovery_id - 27
           points == {p \in Keys : XCoordinate(p) = sig.r /\ Parity(p) = parity}
           h == hash.value
<1>1. /\ hash.length = 32 /\ sig.length = SIGNATURE_LENGTH
      /\ sig.recovery_id \in {27, 28}
      /\ IsStandard(sig) /\ NotMalleable(sig)
      /\ key = Recovered(h, parity, sig)
  BY DEF recover_evm_signer
<1>2. /\ h \in Nat /\ sig.r \in Nat /\ sig.s \in Nat /\ sig.recovery_id \in Nat
      /\ sig.s \in 0 .. Order - 1
  BY <1>1, OrderType DEF Signatures, IsStandard
<1>3. points # {} /\ sig.s # 0
  BY <1>1 DEF Recovered
<1>4. PICK p \in points : TRUE
  BY <1>3
<1>5. p \in Keys /\ XCoordinate(p) = sig.r /\ Parity(p) = parity
  BY <1>4
<1>6. sig.r \in Keys
  BY <1>5, Points
<1> HIDE DEF h, parity, points
<1>7. key = (InverseOf(sig.r) * (sig.s * p - h)) % Order
  BY <1>1, <1>3, <1>5, RecoveredFromPoint
<1>8. key \in Int
  <2>1. InverseOf(sig.r) \in Keys
    BY <1>6, <1>2, InverseCancels
  <2>2. InverseOf(sig.r) * (sig.s * p - h) \in Int
    BY <1>2, <1>5, <2>1, OrderType DEF Keys
  <2>3. key \in 0 .. Order - 1
    BY <1>7, <2>2, CongruentToRemainder
  <2> QED
    BY <2>3, OrderType
<1>9. (InverseOf(p) * (h + sig.r * key)) % Order = sig.s
  BY <1>2, <1>5, <1>6, <1>7, <1>8, SignatureFromKey
<1>10. ~ IsHigh(sig.s)
  BY <1>1 DEF NotMalleable
<1>11. LowSignature(key, h, p)
         = [length |-> SIGNATURE_LENGTH, r |-> sig.r, s |-> sig.s,
            recovery_id |-> 27 + Parity(p)]
  BY <1>5, <1>9, <1>10 DEF LowSignature
<1>12. 27 + Parity(p) = sig.recovery_id
  BY <1>2, <1>5 DEF parity
<1>13. sig = LowSignature(key, h, p)
  BY <1>1, <1>11, <1>12 DEF Signatures
<1> QED
  BY <1>1, <1>3, <1>5, <1>13 DEF h

\* What a key has signed is recovered as its own: with the nonce's point, or,
\* where the signature is the other of the two, with the opposite one.
LEMMA SignedIsRecovered ==
  ASSUME NEW hash \in [length : Nat, value : Nat], NEW sig,
         NEW key \in Keys, NEW nonce \in Keys,
         hash.length = 32, sig = LowSignature(key, hash.value, nonce),
         sig.s # 0
  PROVE  recover_evm_signer(hash, sig) = key
<1> DEFINE h == hash.value
           r == XCoordinate(nonce)
           full == (InverseOf(nonce) * (h + r * key)) % Order
           point == IF IsHigh(full) THEN Order - nonce ELSE nonce
<1>1. /\ h \in Nat /\ r \in Keys /\ Parity(nonce) \in {0, 1}
      /\ key \in Int /\ nonce \in Int /\ r \in Int
  BY Points, OrderType DEF Keys
<1>2. h + r * key \in Int
  BY <1>1
<1>3. InverseOf(nonce) \in Keys /\ InverseOf(nonce) \in Int
  BY <1>2, InverseCancels, OrderType DEF Keys
<1>4. /\ full \in 0 .. Order - 1
      /\ Congruent(InverseOf(nonce) * (h + r * key), full)
  <2>1. InverseOf(nonce) * (h + r * key) \in Int
    BY <1>2, <1>3
  <2> QED
    BY <2>1, CongruentToRemainder
<1>5. /\ sig.length = SIGNATURE_LENGTH /\ sig.r = r
      /\ sig.s = (IF IsHigh(full) THEN Order - full ELSE full)
      /\ sig.recovery_id = 27 + IF IsHigh(full) THEN Flipped(Parity(nonce))
                                                ELSE Parity(nonce)
  BY DEF LowSignature
<1> HIDE DEF h, r, full
<1>6. /\ point \in Keys /\ XCoordinate(point) = sig.r
      /\ Parity(point) \in {0, 1}
      /\ sig.recovery_id = 27 + Parity(point)
  <2>1. CASE IsHigh(full)
    <3>1. point = Order - nonce
      BY <2>1
    <3> QED
      BY <1>5, <2>1, <3>1, Points DEF r
  <2>2. CASE ~ IsHigh(full)
    <3>1. point = nonce
      BY <2>2
    <3> QED
      BY <1>5, <2>2, <3>1, Points DEF r
  <2> QED
    BY <2>1, <2>2
<1>7. sig.s \in Nat /\ sig.s < Order /\ ~ IsHigh(sig.s)
  BY <1>4, <1>5, OrderType DEF IsHigh
<1>8. Congruent(full * nonce, h + r * key)
  <2>1. Congruent(nonce * (InverseOf(nonce) * (h + r * key)), h + r * key)
    BY <1>2, InverseCancels
  <2> DEFINE w == InverseOf(nonce) * (h + r * key)
  <2>2. w \in Int
    BY <1>2, <1>3
  <2>3. full \in Int
    BY <1>4, OrderType
  <2> HIDE DEF w
  <2>4. Congruent(full, w)
    BY <1>4, <2>2, <2>3, CongruentSymmetric DEF w
  <2>5. Congruent(full * nonce, w * nonce)
    BY <1>1, <2>2, <2>3, <2>4, CongruentTimes
  <2>6. w * nonce = nonce * w
    BY <1>1, <2>2
  <2>7. Congruent(w * nonce, h + r * key)
    BY <2>1, <2>6 DEF w
  <2>8. full * nonce \in Int /\ w * nonce \in Int
    BY <1>1, <2>2, <2>3
  <2> QED
    BY <1>2, <2>5, <2>7, <2>8, CongruentTransitive
<1>9. Congruent(sig.s * point, h + r * key)
  <2>1. CASE IsHigh(full)
    <3>1. sig.s = Order - full /\ point = Order - nonce /\ full \in Int
      BY <1>4, <1>5, <2>1, OrderType
    <3>2. (Order - full) * (Order - nonce)
            = full * nonce + Order * (Order - full - nonce)
      BY <1>1, <3>1, OrderType
    <3>3. Order - full - nonce \in Int
      BY <1>1, <3>1, OrderType
    <3>4. Congruent(sig.s * point, full * nonce)
      BY <3>1, <3>2, <3>3 DEF Congruent
    <3>5. sig.s * point \in Int /\ full * nonce \in Int
      BY <1>1, <3>1, OrderType
    <3> QED
      BY <1>2, <1>8, <3>4, <3>5, CongruentTransitive
  <2>2. CASE ~ IsHigh(full)
    BY <1>5, <1>8, <2>2
  <2> QED
    BY <2>1, <2>2
<1> HIDE DEF point
<1>10. Recovered(h, Parity(point), sig)
         = (InverseOf(r) * (sig.s * point - h)) % Order
  <2>1. /\ Recovered(h, Parity(point), sig)
             = (InverseOf(sig.r) * (sig.s * point - h)) % Order
        /\ sig.r = r
    BY <1>5, <1>6, RecoveredFromPoint
  <2> QED
    BY <2>1
<1>11. (InverseOf(r) * (sig.s * point - h)) % Order = key
  <2> DEFINE s == sig.s
  <2>1. s \in Nat /\ Congruent(s * point, h + r * key)
    BY <1>7, <1>9
  <2>2. h \in Nat /\ r \in Keys /\ point \in Keys
    BY <1>1, <1>6
  <2> HIDE DEF s
  <2>3. (InverseOf(r) * (s * point - h)) % Order = key
    BY <2>1, <2>2, KeyFromSignature
  <2> QED
    BY <2>3 DEF s
<1>12. sig.recovery_id \in {27, 28} /\ sig.recovery_id - 27 = Parity(point)
  BY <1>6
<1>13. IsStandard(sig) /\ NotMalleable(sig)
  <2>1. sig.r < Order
    BY <1>1, <1>5, OrderType DEF Keys
  <2> QED
    BY <1>7, <2>1 DEF IsStandard, NotMalleable
<1> QED
  BY <1>5, <1>10, <1>11, <1>12, <1>13 DEF recover_evm_signer, h

-----------------------------------------------------------------------------
(* The verification. *)

\* The one who has been found to have signed is the one the signature gives,
\* and enabled.
FoundBySignature ==
  /\ message_hash \in [length : Nat, value : Nat]
  /\ signature \in Signatures
  /\ signer # Nobody => /\ signer = recover_evm_signer(message_hash, signature)
                        /\ signer \in Enabled

LEMMA FoundInductive == Spec => []FoundBySignature
<1>1. Init => FoundBySignature
  BY OrderAssumption DEF Init, FoundBySignature, Signatures
<1>2. FoundBySignature /\ [Next]_vars => FoundBySignature'
  <2> SUFFICES ASSUME FoundBySignature, [Next]_vars
               PROVE  FoundBySignature'
    OBVIOUS
  <2>1. CASE Verify
    BY <2>1 DEF Verify, FoundBySignature
  <2>2. CASE UNCHANGED vars
    BY <2>2 DEF vars, FoundBySignature
  <2> QED
    BY <2>1, <2>2 DEF Next
<1> QED
  BY <1>1, <1>2, PTL DEF Spec

\* A signature gets through for a signer exactly if it is one that this signer,
\* enabled, makes of the 32-byte hash (recover_evm_signer,
\* verify_burn_signature, verify_attestation_signature), in a group of any
\* prime order and for any numbers in a signature.
THEOREM AcceptedAreSigned == Spec => []AcceptedAreTheSigners
<1>1. ASSUME FoundBySignature PROVE AcceptedAreTheSigners
  <2>1. ASSUME signer # Nobody
        PROVE  /\ message_hash.length = 32
               /\ \E nonce \in Keys :
                    signature = LowSignature(signer, message_hash.value, nonce)
               /\ signature.s # 0
               /\ signer \in Enabled
    BY <1>1, <2>1, RecoveredHasSigned DEF FoundBySignature
  <2>2. ASSUME NEW key \in Enabled \cap Keys, NEW nonce \in Keys,
               message_hash.length = 32, signature.s # 0,
               signature = LowSignature(key, message_hash.value, nonce)
        PROVE  recover_evm_signer(message_hash, signature) = key
    BY <1>1, <2>2, SignedIsRecovered DEF FoundBySignature
  <2> QED
    BY <2>1, <2>2 DEF AcceptedAreTheSigners
<1> QED
  BY <1>1, FoundInductive, PTL
=============================================================================
