-------------------------- MODULE CollectionLemmas --------------------------
(***************************************************************************)
(* Facts about the two kinds of collections the programs keep their books  *)
(* in, for the proofs about them.                                          *)
(*                                                                         *)
(* SumFunctionOnSet(f, S) is the sum of the values f[x] over the finite set*)
(* S (community module Functions): what the sum of the empty set is, that  *)
(* the sum of natural numbers is a natural number no smaller than any of   *)
(* its terms or the sum of a part, how the sum moves when one term moves,  *)
(* that any term can be taken out.  It is a fold: a function on SUBSET S   *)
(* defined by recursion along Pick.  That such a function exists is proved *)
(* first, by induction on the cardinality.                                 *)
(*                                                                         *)
(* The lists are those of module PubkeyLists: what its operators return.   *)
(***************************************************************************)
EXTENDS Integers, FiniteSets, Functions, PubkeyLists, FiniteSetTheorems,
        SequenceTheorems, NaturalsInduction, WellFoundedInduction, TLAPS

\* The element the fold takes out of a nonempty set.
Pick(T) == CHOOSE x \in T : TRUE

\* P is the fold's recursion for the values f, on the family C of sets.
Unfolds(P, f, C) ==
  P = [T \in C |-> IF T = {} THEN 0 ELSE f[Pick(T)] + P[T \ {Pick(T)}]]

Small(S, n) == {T \in SUBSET S : Cardinality(T) <= n}

-----------------------------------------------------------------------------
(* Induction principles over a set of "good" elements. *)

\* A set of numbers that holds 0 and the successor of each member is Nat.
LEMMA NatSetInduction ==
  ASSUME NEW G, 0 \in G, \A n \in Nat : n \in G => n + 1 \in G
  PROVE  \A n \in Nat : n \in G
<1> DEFINE Bad == {n \in Nat : n \notin G}
<1> SUFFICES ASSUME Bad # {} PROVE FALSE
  OBVIOUS
<1>1. PICK m \in Bad : \A k \in Bad : ~ (<<k, m>> \in OpToRel(<, Nat))
  <2> HIDE DEF Bad
  <2>1. Bad \subseteq Nat
    BY DEF Bad
  <2> QED
    BY <2>1, NatLessThanWellFounded, WFMin
<1>2. m # 0 /\ m - 1 \in Nat
  OBVIOUS
<1>3. m - 1 \in Bad
  BY <1>2
<1>4. <<m - 1, m>> \in OpToRel(<, Nat)
  BY <1>2 DEF OpToRel
<1> QED
  BY <1>1, <1>3, <1>4

\* A family that holds {} and every nonempty T all of whose T \ {x} it holds
\* contains every subset of the finite set S.
LEMMA SubsetInduction ==
  ASSUME NEW S, IsFiniteSet(S), NEW G, {} \in G,
         \A T \in SUBSET S : T # {} /\ (\A x \in T : T \ {x} \in G) => T \in G
  PROVE  \A T \in SUBSET S : T \in G
<1> DEFINE N == {n \in Nat : \A T \in SUBSET S : Cardinality(T) <= n => T \in G}
<1>1. \A T \in SUBSET S : IsFiniteSet(T) /\ Cardinality(T) \in Nat
  BY FS_Subset, FS_CardinalityType
<1>2. 0 \in N
  <2>1. ASSUME NEW T \in SUBSET S, Cardinality(T) <= 0 PROVE T \in G
    <3>1. IsFiniteSet(T) /\ Cardinality(T) = 0
      BY <1>1, <2>1
    <3>2. T = {}
      BY <3>1, FS_EmptySet
    <3> QED
      BY <3>2
  <2> QED
    BY <2>1
<1>3. ASSUME NEW n \in Nat, n \in N PROVE n + 1 \in N
  <2> SUFFICES ASSUME NEW T \in SUBSET S, Cardinality(T) <= n + 1
               PROVE  T \in G
    OBVIOUS
  <2>1. \A x \in T : T \ {x} \in G
    <3> SUFFICES ASSUME NEW x \in T PROVE T \ {x} \in G
      OBVIOUS
    <3>1. Cardinality(T \ {x}) = Cardinality(T) - 1
      BY <1>1, FS_RemoveElement
    <3> QED
      BY <1>1, <1>3, <3>1
  <2>2. CASE T = {}
    BY <2>2
  <2>3. CASE T # {}
    BY <2>1, <2>3
  <2> QED
    BY <2>2, <2>3
<1>4. \A n \in Nat : n \in N
  <2> HIDE DEF N
  <2> QED
    BY <1>2, <1>3, NatSetInduction
<1> QED
  BY <1>1, <1>4

-----------------------------------------------------------------------------
(* The recursion behind the sum. *)

\* The fold's recursive definition has a solution.
LEMMA UnfoldingExists ==
  ASSUME NEW S, IsFiniteSet(S), NEW f
  PROVE  \E P : Unfolds(P, f, SUBSET S)
<1> DEFINE G == {n \in Nat : \E P : Unfolds(P, f, Small(S, n))}
<1>1. \A T \in SUBSET S : IsFiniteSet(T) /\ Cardinality(T) \in Nat
  BY FS_Subset, FS_CardinalityType
<1>2. 0 \in G
  <2> DEFINE P == [T \in Small(S, 0) |-> 0]
  <2>1. \A T \in Small(S, 0) : T = {}
    BY <1>1, FS_EmptySet DEF Small
  <2>2. Unfolds(P, f, Small(S, 0))
    BY <2>1 DEF Unfolds
  <2> QED
    BY <2>2
<1>3. ASSUME NEW n \in Nat, n \in G PROVE n + 1 \in G
  <2>1. PICK P : Unfolds(P, f, Small(S, n))
    BY <1>3
  <2> DEFINE Val(T) == IF T = {} THEN 0 ELSE f[Pick(T)] + P[T \ {Pick(T)}]
             Q == [T \in Small(S, n + 1) |-> Val(T)]
  <2>2. \A T \in Small(S, n) : T \in Small(S, n + 1) /\ P[T] = Val(T)
    <3> SUFFICES ASSUME NEW T \in Small(S, n)
                 PROVE  T \in Small(S, n + 1) /\ P[T] = Val(T)
      OBVIOUS
    <3>1. T \in Small(S, n + 1)
      BY <1>1 DEF Small
    <3>2. P[T] = Val(T)
      <4>1. P = [U \in Small(S, n) |->
                   IF U = {} THEN 0 ELSE f[Pick(U)] + P[U \ {Pick(U)}]]
        BY <2>1 DEF Unfolds
      <4> DEFINE R == P
      <4> HIDE DEF R
      <4>2. R = [U \in Small(S, n) |-> Val(U)]
        BY <4>1 DEF R
      <4> HIDE DEF Val
      <4>3. R[T] = Val(T)
        BY <4>2
      <4> QED
        BY <4>3 DEF R
    <3> QED
      BY <3>1, <3>2
  <2>3. ASSUME NEW T \in Small(S, n + 1), T # {}
        PROVE  T \ {Pick(T)} \in Small(S, n)
    <3>1. Pick(T) \in T
      BY <2>3 DEF Pick
    <3>2. T \in SUBSET S /\ Cardinality(T) <= n + 1
      BY DEF Small
    <3>3. Cardinality(T \ {Pick(T)}) = Cardinality(T) - 1
      BY <1>1, <3>1, <3>2, FS_RemoveElement
    <3> QED
      BY <1>1, <3>2, <3>3 DEF Small
  <2>4. \A T \in Small(S, n) : Q[T] = P[T]
    BY <2>2
  <2>5. Q = [T \in Small(S, n + 1) |->
               IF T = {} THEN 0 ELSE f[Pick(T)] + Q[T \ {Pick(T)}]]
    <3> HIDE DEF Q
    <3>1. \A T \in Small(S, n + 1) : T # {} =>
             Q[T \ {Pick(T)}] = P[T \ {Pick(T)}]
      BY <2>3, <2>4
    <3> QED
      BY <3>1 DEF Q
  <2>6. Unfolds(Q, f, Small(S, n + 1))
    BY <2>5 DEF Unfolds
  <2> QED
    BY <2>6
<1>4. \A n \in Nat : n \in G
  <2> HIDE DEF G
  <2> QED
    BY <1>2, <1>3, NatSetInduction
<1>5. Small(S, Cardinality(S)) = SUBSET S
  BY <1>1, FS_Subset DEF Small
<1>6. Cardinality(S) \in Nat
  BY <1>1
<1>7. Cardinality(S) \in G
  <2> HIDE DEF G
  <2> QED
    BY <1>4, <1>6
<1>8. \E P : Unfolds(P, f, Small(S, Cardinality(S)))
  <2> HIDE DEF Small, Unfolds
  <2> QED
    BY <1>7
<1> QED
  BY <1>5, <1>8

\* What the fold computes: 0 on the empty set, otherwise the picked element's
\* value added to the sum of the rest.
LEMMA SumUnfolds ==
  ASSUME NEW S, IsFiniteSet(S), NEW f
  PROVE  \E P : /\ SumFunctionOnSet(f, S) = P[S]
                /\ Unfolds(P, f, SUBSET S)
<1> DEFINE P == CHOOSE P : Unfolds(P, f, SUBSET S)
<1>1. SumFunctionOnSet(f, S) = P[S]
  BY DEF SumFunctionOnSet, FoldFunctionOnSet, MapThenFoldSet, Unfolds, Pick
<1>2. Unfolds(P, f, SUBSET S)
  BY UnfoldingExists
<1> QED
  BY <1>1, <1>2

-----------------------------------------------------------------------------
(* The sum over a finite set. *)

\* A sum of natural numbers is a natural number, and no term exceeds it.
LEMMA SumOfNaturals ==
  ASSUME NEW S, IsFiniteSet(S), NEW f, \A x \in S : f[x] \in Nat
  PROVE  /\ SumFunctionOnSet(f, S) \in Nat
         /\ \A x \in S : f[x] <= SumFunctionOnSet(f, S)
<1>1. PICK P : SumFunctionOnSet(f, S) = P[S] /\ Unfolds(P, f, SUBSET S)
  BY SumUnfolds
<1> DEFINE G == {T \in SUBSET S : P[T] \in Nat /\ \A x \in T : f[x] <= P[T]}
<1>2. {} \in G
  BY <1>1 DEF Unfolds
<1>3. ASSUME NEW T \in SUBSET S, T # {}, \A x \in T : T \ {x} \in G
      PROVE  T \in G
  <2>1. Pick(T) \in T
    BY <1>3 DEF Pick
  <2>2. P[T] = f[Pick(T)] + P[T \ {Pick(T)}]
    BY <1>1, <1>3 DEF Unfolds
  <2>3. /\ P[T \ {Pick(T)}] \in Nat
        /\ \A x \in T \ {Pick(T)} : f[x] <= P[T \ {Pick(T)}]
    BY <1>3, <2>1
  <2>4. f[Pick(T)] \in Nat /\ \A x \in T : f[x] \in Nat
    BY <2>1
  <2>5. \A x \in T : f[x] <= P[T]
    <3> SUFFICES ASSUME NEW x \in T PROVE f[x] <= P[T]
      OBVIOUS
    <3>1. CASE x = Pick(T)
      BY <2>2, <2>3, <2>4, <3>1
    <3>2. CASE x # Pick(T)
      BY <2>2, <2>3, <2>4, <3>2
    <3> QED
      BY <3>1, <3>2
  <2>6. P[T] \in Nat
    BY <2>2, <2>3, <2>4, <2>1
  <2> QED
    BY <2>5, <2>6
<1>4. S \in G
  <2> HIDE DEF G
  <2>1. \A T \in SUBSET S : T # {} /\ (\A x \in T : T \ {x} \in G) => T \in G
    BY <1>3
  <2>2. \A T \in SUBSET S : T \in G
    BY <1>2, <2>1, SubsetInduction
  <2> QED
    BY <2>2
<1> QED
  BY <1>1, <1>4

\* Moving one term by d moves the sum by d.
LEMMA SumMoves ==
  ASSUME NEW S, IsFiniteSet(S), NEW f, NEW g, NEW k \in S, NEW d \in Int,
         \A x \in S : f[x] \in Int,
         \A x \in S : x # k => g[x] = f[x],
         g[k] = f[k] + d
  PROVE  SumFunctionOnSet(g, S) = SumFunctionOnSet(f, S) + d
<1>1. PICK P : SumFunctionOnSet(f, S) = P[S] /\ Unfolds(P, f, SUBSET S)
  BY SumUnfolds
<1>2. PICK Q : SumFunctionOnSet(g, S) = Q[S] /\ Unfolds(Q, g, SUBSET S)
  BY SumUnfolds
<1> DEFINE G == {T \in SUBSET S :
                   /\ P[T] \in Int
                   /\ Q[T] = IF k \in T THEN P[T] + d ELSE P[T]}
<1>3. {} \in G
  BY <1>1, <1>2 DEF Unfolds
<1>4. ASSUME NEW T \in SUBSET S, T # {}, \A x \in T : T \ {x} \in G
      PROVE  T \in G
  <2>1. Pick(T) \in T
    BY <1>4 DEF Pick
  <2>2. P[T] = f[Pick(T)] + P[T \ {Pick(T)}]
    BY <1>1, <1>4 DEF Unfolds
  <2>3. Q[T] = g[Pick(T)] + Q[T \ {Pick(T)}]
    BY <1>2, <1>4 DEF Unfolds
  <2>4. T \ {Pick(T)} \in G
    BY <1>4, <2>1
  <2>5. f[Pick(T)] \in Int /\ P[T \ {Pick(T)}] \in Int
    BY <2>1, <2>4
  <2>6. CASE k = Pick(T)
    BY <2>1, <2>2, <2>3, <2>4, <2>5, <2>6
  <2>7. CASE k # Pick(T)
    <3>1. g[Pick(T)] = f[Pick(T)]
      BY <2>1, <2>7
    <3>2. k \in T <=> k \in T \ {Pick(T)}
      BY <2>7
    <3> QED
      BY <2>1, <2>2, <2>3, <2>4, <2>5, <3>1, <3>2
  <2> QED
    BY <2>6, <2>7
<1>5. S \in G
  <2> HIDE DEF G
  <2>1. \A T \in SUBSET S : T # {} /\ (\A x \in T : T \ {x} \in G) => T \in G
    BY <1>4
  <2>2. \A T \in SUBSET S : T \in G
    BY <1>3, <2>1, SubsetInduction
  <2> QED
    BY <2>2
<1> QED
  BY <1>1, <1>2, <1>5

\* The sum over the empty set is 0, whatever is summed.
LEMMA SumOfNothing ==
  ASSUME NEW f
  PROVE  SumFunctionOnSet(f, {}) = 0
<1>1. IsFiniteSet({})
  BY FS_EmptySet
<1>2. PICK P : SumFunctionOnSet(f, {}) = P[{}] /\ Unfolds(P, f, SUBSET {})
  BY <1>1, SumUnfolds
<1> QED
  BY <1>2 DEF Unfolds

\* The sum depends only on the values on the set.
LEMMA SumSame ==
  ASSUME NEW S, IsFiniteSet(S), NEW f, NEW g,
         \A x \in S : f[x] \in Nat /\ g[x] = f[x]
  PROVE  SumFunctionOnSet(g, S) = SumFunctionOnSet(f, S)
<1>1. CASE S = {}
  BY <1>1, SumOfNothing
<1>2. CASE S # {}
  <2>1. PICK k \in S : TRUE
    BY <1>2
  <2>2. /\ g[k] = f[k] + 0
        /\ \A x \in S : f[x] \in Int
        /\ \A x \in S : x # k => g[x] = f[x]
    OBVIOUS
  <2>3. SumFunctionOnSet(g, S) = SumFunctionOnSet(f, S) + 0
    BY <2>2, 0 \in Int, SumMoves
  <2>4. SumFunctionOnSet(f, S) \in Nat
    BY SumOfNaturals
  <2> QED
    BY <2>3, <2>4
<1> QED
  BY <1>1, <1>2

\* A sum of zeros is zero.
LEMMA SumOfZeros ==
  ASSUME NEW S, IsFiniteSet(S), NEW f, \A x \in S : f[x] = 0
  PROVE  SumFunctionOnSet(f, S) = 0
<1>1. PICK P : SumFunctionOnSet(f, S) = P[S] /\ Unfolds(P, f, SUBSET S)
  BY SumUnfolds
<1> DEFINE G == {T \in SUBSET S : P[T] = 0}
<1>2. {} \in G
  BY <1>1 DEF Unfolds
<1>3. ASSUME NEW T \in SUBSET S, T # {}, \A x \in T : T \ {x} \in G
      PROVE  T \in G
  <2>1. Pick(T) \in T
    BY <1>3 DEF Pick
  <2>2. P[T] = f[Pick(T)] + P[T \ {Pick(T)}]
    BY <1>1, <1>3 DEF Unfolds
  <2> QED
    BY <1>3, <2>1, <2>2
<1>4. S \in G
  <2> HIDE DEF G
  <2>1. \A T \in SUBSET S : T # {} /\ (\A x \in T : T \ {x} \in G) => T \in G
    BY <1>3
  <2>2. \A T \in SUBSET S : T \in G
    BY <1>2, <2>1, SubsetInduction
  <2> QED
    BY <2>2
<1> QED
  BY <1>1, <1>4

\* Two terms together do not exceed a sum of natural numbers.
LEMMA SumOfTwo ==
  ASSUME NEW S, IsFiniteSet(S), NEW f, \A x \in S : f[x] \in Nat,
         NEW a \in S, NEW b \in S, a # b
  PROVE  f[a] + f[b] <= SumFunctionOnSet(f, S)
<1> DEFINE g == [x \in S |-> IF x = b THEN 0 ELSE f[x]]
           h == [x \in S |-> IF x = a THEN f[a] + f[b] ELSE g[x]]
<1>1. /\ \A x \in S : g[x] \in Nat /\ h[x] \in Nat
      /\ g[a] = f[a] /\ h[a] = f[a] + f[b]
  OBVIOUS
<1>2. SumFunctionOnSet(g, S) = SumFunctionOnSet(f, S) + (- f[b])
  <2>1. /\ \A x \in S : f[x] \in Int
        /\ \A x \in S : x # b => g[x] = f[x]
        /\ g[b] = f[b] + (- f[b])
        /\ - f[b] \in Int
    OBVIOUS
  <2> HIDE DEF g
  <2> QED
    BY <2>1, SumMoves
<1>3. SumFunctionOnSet(h, S) = SumFunctionOnSet(g, S) + f[b]
  <2>1. /\ \A x \in S : g[x] \in Int
        /\ \A x \in S : x # a => h[x] = g[x]
        /\ h[a] = g[a] + f[b]
        /\ f[b] \in Int
    BY <1>1
  <2> HIDE DEF g, h
  <2> QED
    BY <2>1, SumMoves
<1> HIDE DEF g, h
<1>4. h[a] <= SumFunctionOnSet(h, S)
  BY <1>1, SumOfNaturals
<1>5. SumFunctionOnSet(f, S) \in Nat
  BY SumOfNaturals
<1> QED
  BY <1>1, <1>2, <1>3, <1>4, <1>5

\* The order of summation is immaterial: any element can be taken out first.
LEMMA SumRemoves ==
  ASSUME NEW S, IsFiniteSet(S), NEW f, \A x \in S : f[x] \in Int, NEW k \in S
  PROVE  SumFunctionOnSet(f, S) = f[k] + SumFunctionOnSet(f, S \ {k})
<1>0. IsFiniteSet(S \ {k})
  BY FS_Subset
<1>1. PICK P : SumFunctionOnSet(f, S) = P[S] /\ Unfolds(P, f, SUBSET S)
  BY SumUnfolds
<1>2. PICK Q : /\ SumFunctionOnSet(f, S \ {k}) = Q[S \ {k}]
               /\ Unfolds(Q, f, SUBSET (S \ {k}))
  BY <1>0, SumUnfolds
<1> DEFINE Ints == {T \in SUBSET S : P[T] \in Int}
           Free == {T \in SUBSET S : \A x \in T : P[T] = f[x] + P[T \ {x}]}
           Same == {T \in SUBSET (S \ {k}) : P[T] = Q[T]}
<1>3. \A T \in SUBSET S : P[T] \in Int
  <2>1. {} \in Ints
    BY <1>1 DEF Unfolds
  <2>2. ASSUME NEW T \in SUBSET S, T # {}, \A x \in T : T \ {x} \in Ints
        PROVE  T \in Ints
    <3>1. Pick(T) \in T
      BY <2>2 DEF Pick
    <3>2. P[T] = f[Pick(T)] + P[T \ {Pick(T)}]
      BY <1>1, <2>2 DEF Unfolds
    <3>3. f[Pick(T)] \in Int /\ P[T \ {Pick(T)}] \in Int
      BY <2>2, <3>1
    <3> QED
      BY <3>2, <3>3
  <2>3. \A T \in SUBSET S : T \in Ints
    <3> HIDE DEF Ints
    <3> QED
      BY <2>1, <2>2, SubsetInduction
  <2> QED
    BY <2>3
<1>4. S \in Free
  <2>1. {} \in Free
    OBVIOUS
  <2>2. ASSUME NEW T \in SUBSET S, T # {}, \A x \in T : T \ {x} \in Free
        PROVE  T \in Free
    <3> DEFINE p == Pick(T)
    <3>1. p \in T
      BY <2>2 DEF Pick
    <3>2. P[T] = f[p] + P[T \ {p}]
      BY <1>1, <2>2 DEF Unfolds
    <3> HIDE DEF p
    <3>3. ASSUME NEW x \in T, x # p PROVE P[T] = f[x] + P[T \ {x}]
      <4>1. P[T \ {p}] = f[x] + P[(T \ {p}) \ {x}]
        BY <2>2, <3>1, <3>3
      <4>2. P[T \ {x}] = f[p] + P[(T \ {x}) \ {p}]
        BY <2>2, <3>1, <3>3
      <4>3. P[(T \ {x}) \ {p}] = P[(T \ {p}) \ {x}]
        <5>1. (T \ {x}) \ {p} = (T \ {p}) \ {x}
          OBVIOUS
        <5> QED
          BY <5>1
      <4>4. P[(T \ {p}) \ {x}] \in Int /\ f[x] \in Int /\ f[p] \in Int
        BY <1>3, <3>1
      <4>5. P[T] = f[p] + (f[x] + P[(T \ {p}) \ {x}])
        BY <3>2, <4>1
      <4>6. P[T \ {x}] = f[p] + P[(T \ {p}) \ {x}]
        BY <4>2, <4>3
      <4> QED
        BY <4>4, <4>5, <4>6
    <3> QED
      BY <3>2, <3>3
  <2>3. \A T \in SUBSET S : T \in Free
    <3> HIDE DEF Free
    <3> QED
      BY <2>1, <2>2, SubsetInduction
  <2> QED
    BY <2>3
<1>5. P[S] = f[k] + P[S \ {k}]
  BY <1>4
<1>6. S \ {k} \in Same
  <2>1. {} \in Same
    BY <1>1, <1>2 DEF Unfolds
  <2>2. ASSUME NEW T \in SUBSET (S \ {k}), T # {},
               \A x \in T : T \ {x} \in Same
        PROVE  T \in Same
    <3>1. Pick(T) \in T
      BY <2>2 DEF Pick
    <3>2. /\ P[T] = f[Pick(T)] + P[T \ {Pick(T)}]
          /\ Q[T] = f[Pick(T)] + Q[T \ {Pick(T)}]
      BY <1>1, <1>2, <2>2 DEF Unfolds
    <3> QED
      BY <2>2, <3>1, <3>2
  <2>3. \A T \in SUBSET (S \ {k}) : T \in Same
    <3> HIDE DEF Same
    <3> QED
      BY <1>0, <2>1, <2>2, SubsetInduction
  <2> QED
    BY <2>3
<1> QED
  BY <1>1, <1>2, <1>5, <1>6

\* A part of a sum of natural numbers does not exceed the whole.
LEMMA SumOfPart ==
  ASSUME NEW S, IsFiniteSet(S), NEW f, \A x \in S : f[x] \in Nat,
         NEW T \in SUBSET S
  PROVE  SumFunctionOnSet(f, T) <= SumFunctionOnSet(f, S)
<1> DEFINE G == {R \in SUBSET S : \A U \in SUBSET R :
                  SumFunctionOnSet(f, U) <= SumFunctionOnSet(f, R)}
<1>1. \A R \in SUBSET S : IsFiniteSet(R) /\ SumFunctionOnSet(f, R) \in Nat
  BY FS_Subset, SumOfNaturals
<1>2. {} \in G
  BY <1>1
<1>3. ASSUME NEW R \in SUBSET S, R # {}, \A x \in R : R \ {x} \in G
      PROVE  R \in G
  <2>1. SUFFICES ASSUME NEW U \in SUBSET R
                 PROVE  SumFunctionOnSet(f, U) <= SumFunctionOnSet(f, R)
    OBVIOUS
  <2>2. CASE U = R
    BY <1>1, <2>2
  <2>3. ASSUME NEW x \in R, x \notin U
        PROVE  SumFunctionOnSet(f, U) <= SumFunctionOnSet(f, R)
    <3>1. SumFunctionOnSet(f, U) <= SumFunctionOnSet(f, R \ {x})
      BY <1>3, <2>3
    <3>2. IsFiniteSet(R) /\ \A y \in R : f[y] \in Int
      BY <1>1
    <3>3. SumFunctionOnSet(f, R) = f[x] + SumFunctionOnSet(f, R \ {x})
      BY <3>2, SumRemoves
    <3>4. /\ SumFunctionOnSet(f, U) \in Nat /\ f[x] \in Nat
          /\ SumFunctionOnSet(f, R) \in Nat
          /\ SumFunctionOnSet(f, R \ {x}) \in Nat
      BY <1>1
    <3> QED
      BY <3>1, <3>3, <3>4
  <2> QED
    BY <2>2, <2>3
<1>4. \A R \in SUBSET S : R \in G
  <2>1. \A R \in SUBSET S :
          R # {} /\ (\A x \in R : R \ {x} \in G) => R \in G
    BY <1>3
  <2> HIDE DEF G
  <2> QED
    BY <1>2, <2>1, SubsetInduction
<1> QED
  BY <1>4

-----------------------------------------------------------------------------
(* Lists. *)

\* A list that holds x has a first position of x.
LEMMA FirstIndexType ==
  ASSUME NEW S, NEW s \in Seq(S), NEW x \in Range(s)
  PROVE  /\ FirstIndex(s, x) \in 1 .. Len(s)
         /\ s[FirstIndex(s, x)] = x
         /\ \A j \in 1 .. FirstIndex(s, x) - 1 : s[j] # x
<1> DEFINE At == {i \in DOMAIN s : s[i] = x}
<1>1. DOMAIN s = 1 .. Len(s) /\ Len(s) \in Nat
  OBVIOUS
<1>2. At # {} /\ At \subseteq Nat
  BY <1>1 DEF Range
<1>3. PICK m \in At : \A k \in At : ~ (<<k, m>> \in OpToRel(<, Nat))
  <2> HIDE DEF At
  <2> QED
    BY <1>2, NatLessThanWellFounded, WFMin
<1>4. \A j \in 1 .. m - 1 : s[j] # x
  <2> SUFFICES ASSUME NEW j \in 1 .. m - 1, s[j] = x PROVE FALSE
    OBVIOUS
  <2>1. m \in 1 .. Len(s)
    BY <1>1
  <2>2. j \in At /\ j < m /\ j \in Nat /\ m \in Nat
    BY <1>1, <2>1
  <2> QED
    BY <1>3, <2>2 DEF OpToRel
<1>5. m \in DOMAIN s /\ s[m] = x /\ \A j \in 1 .. m - 1 : s[j] # x
  BY <1>4
<1>6. LET i == FirstIndex(s, x)
      IN  i \in DOMAIN s /\ s[i] = x /\ \A j \in 1 .. i - 1 : s[j] # x
  BY <1>5 DEF FirstIndex
<1> QED
  BY <1>1, <1>6

\* Removing an element of a list leaves a list of the same elements.
LEMMA WithoutFirstType ==
  ASSUME NEW S, NEW s \in Seq(S), NEW x \in Range(s)
  PROVE  WithoutFirst(s, x) \in Seq(S)
<1> DEFINE i == FirstIndex(s, x)
<1>1. i \in 1 .. Len(s) /\ Len(s) \in Nat
  BY FirstIndexType
<1> HIDE DEF i
<1>2. SubSeq(s, 1, i - 1) \in Seq(S) /\ SubSeq(s, i + 1, Len(s)) \in Seq(S)
  BY <1>1
<1>3. SubSeq(s, 1, i - 1) \o SubSeq(s, i + 1, Len(s)) \in Seq(S)
  BY <1>2
<1> QED
  BY <1>3 DEF WithoutFirst, i

\* The first position of a list's only x, if it is there once.
LEMMA FirstIndexIs ==
  ASSUME NEW S, NEW s \in Seq(S), NEW i \in 1 .. Len(s),
         \A j \in 1 .. i - 1 : s[j] # s[i]
  PROVE  FirstIndex(s, s[i]) = i
<1> DEFINE m == FirstIndex(s, s[i])
<1>1. s[i] \in Range(s) /\ i \in Nat
  BY DEF Range
<1>2. m \in 1 .. Len(s) /\ s[m] = s[i] /\ \A j \in 1 .. m - 1 : s[j] # s[i]
  BY <1>1, FirstIndexType
<1>3. m \in Nat /\ Len(s) \in Nat
  BY <1>2
<1> HIDE DEF m
<1>4. ~ (i < m)
  BY <1>1, <1>2, <1>3
<1>5. ~ (m < i)
  BY <1>1, <1>2, <1>3
<1> QED
  BY <1>1, <1>3, <1>4, <1>5 DEF m

\* Removing an element of a list without duplicates removes it for good, keeps
\* the others, and brings no duplicates.
LEMMA WithoutFirstRemoves ==
  ASSUME NEW S, NEW s \in Seq(S), NEW x \in Range(s),
         \A i, j \in DOMAIN s : s[i] = s[j] => i = j
  PROVE  LET r == WithoutFirst(s, x) IN
         /\ Len(r) = Len(s) - 1
         /\ Range(r) = Range(s) \ {x}
         /\ \A i, j \in DOMAIN r : r[i] = r[j] => i = j
<1> DEFINE m == FirstIndex(s, x)
           r == WithoutFirst(s, x)
<1>1. m \in 1 .. Len(s) /\ Len(s) \in Nat /\ s[m] = x
  BY FirstIndexType
<1> HIDE DEF m
<1>2. /\ SubSeq(s, 1, m - 1) \in Seq(S) /\ Len(SubSeq(s, 1, m - 1)) = m - 1
      /\ SubSeq(s, m + 1, Len(s)) \in Seq(S)
      /\ Len(SubSeq(s, m + 1, Len(s))) = Len(s) - m
      /\ \A i \in 1 .. m - 1 : SubSeq(s, 1, m - 1)[i] = s[i]
      /\ \A i \in 1 .. Len(s) - m : SubSeq(s, m + 1, Len(s))[i] = s[m + i]
  BY <1>1
<1>3. r = SubSeq(s, 1, m - 1) \o SubSeq(s, m + 1, Len(s))
  BY DEF WithoutFirst, m
<1> HIDE DEF r
<1>4. /\ r \in Seq(S)
      /\ Len(r) = Len(s) - 1
      /\ \A i \in 1 .. Len(r) : r[i] = IF i < m THEN s[i] ELSE s[i + 1]
  <2> DEFINE a == SubSeq(s, 1, m - 1)
             b == SubSeq(s, m + 1, Len(s))
  <2>1. /\ a \in Seq(S) /\ Len(a) = m - 1
        /\ b \in Seq(S) /\ Len(b) = Len(s) - m
        /\ \A i \in 1 .. m - 1 : a[i] = s[i]
        /\ \A i \in 1 .. Len(s) - m : b[i] = s[m + i]
    BY <1>2
  <2> HIDE DEF a, b
  <2>2. /\ a \o b \in Seq(S) /\ Len(a \o b) = Len(a) + Len(b)
        /\ \A i \in 1 .. Len(a) + Len(b) :
             (a \o b)[i] = IF i <= Len(a) THEN a[i] ELSE b[i - Len(a)]
    BY <2>1, ConcatProperties
  <2>3. r = a \o b
    BY <1>3 DEF a, b
  <2>4. r \in Seq(S) /\ Len(r) = Len(s) - 1
    BY <1>1, <2>1, <2>2, <2>3
  <2>5. ASSUME NEW i \in 1 .. Len(r), i < m PROVE r[i] = s[i]
    <3>1. i \in 1 .. m - 1 /\ i \in 1 .. Len(a) + Len(b) /\ i <= Len(a)
      BY <1>1, <2>1, <2>4, <2>5
    <3> QED
      BY <2>1, <2>2, <2>3, <3>1
  <2>6. ASSUME NEW i \in 1 .. Len(r), ~ (i < m) PROVE r[i] = s[i + 1]
    <3>1. /\ i - Len(a) \in 1 .. Len(s) - m /\ i \in 1 .. Len(a) + Len(b)
          /\ ~ (i <= Len(a)) /\ m + (i - Len(a)) = i + 1
      BY <1>1, <2>1, <2>4, <2>6
    <3> QED
      BY <2>1, <2>2, <2>3, <3>1
  <2> QED
    BY <2>4, <2>5, <2>6
<1>5. DOMAIN r = 1 .. Len(s) - 1 /\ DOMAIN s = 1 .. Len(s)
  BY <1>4
<1>6. \A i, j \in DOMAIN r : r[i] = r[j] => i = j
  <2> SUFFICES ASSUME NEW i \in DOMAIN r, NEW j \in DOMAIN r, r[i] = r[j]
               PROVE  i = j
    OBVIOUS
  <2> DEFINE p(k) == IF k < m THEN k ELSE k + 1
  <2>1. p(i) \in DOMAIN s /\ p(j) \in DOMAIN s
    BY <1>1, <1>5
  <2>2. s[p(i)] = s[p(j)]
    BY <1>1, <1>4, <1>5
  <2>3. p(i) = p(j)
    BY <2>1, <2>2
  <2> QED
    BY <1>1, <1>5, <2>3
<1>7. Range(r) \subseteq Range(s) \ {x}
  <2> SUFFICES ASSUME NEW i \in DOMAIN r PROVE r[i] \in Range(s) \ {x}
    BY DEF Range
  <2> DEFINE k == IF i < m THEN i ELSE i + 1
  <2>1. k \in DOMAIN s /\ k # m /\ r[i] = s[k]
    BY <1>1, <1>4, <1>5
  <2>2. m \in DOMAIN s
    BY <1>1, <1>5
  <2> HIDE DEF k
  <2> QED
    BY <1>1, <2>1, <2>2 DEF Range
<1>8. Range(s) \ {x} \subseteq Range(r)
  <2> SUFFICES ASSUME NEW k \in DOMAIN s, s[k] # x PROVE s[k] \in Range(r)
    BY DEF Range
  <2> DEFINE i == IF k < m THEN k ELSE k - 1
  <2>1. k # m
    BY <1>1
  <2>2. i \in DOMAIN r /\ r[i] = s[k]
    BY <1>1, <1>4, <1>5, <2>1
  <2> HIDE DEF i
  <2> QED
    BY <2>2 DEF Range
<1> QED
  BY <1>4, <1>6, <1>7, <1>8 DEF r

\* Appending adds one element.
LEMMA AppendRange ==
  ASSUME NEW S, NEW s \in Seq(S), NEW x \in S
  PROVE  Range(Append(s, x)) = Range(s) \cup {x}
<1> DEFINE r == Append(s, x)
<1>1. /\ r \in Seq(S) /\ Len(r) = Len(s) + 1 /\ Len(s) \in Nat
      /\ r[Len(s) + 1] = x
      /\ \A i \in 1 .. Len(s) : r[i] = s[i]
      /\ DOMAIN r = 1 .. Len(s) + 1 /\ DOMAIN s = 1 .. Len(s)
  OBVIOUS
<1> HIDE DEF r
<1>2. \A i \in DOMAIN r : r[i] \in Range(s) \cup {x}
  BY <1>1 DEF Range
<1>3. \A i \in DOMAIN s : s[i] \in Range(r)
  BY <1>1 DEF Range
<1>4. x \in Range(r)
  BY <1>1 DEF Range
<1>5. Range(r) = Range(s) \cup {x}
  BY <1>2, <1>3, <1>4 DEF Range
<1> QED
  BY <1>5 DEF r

\* Appending a new element brings no duplicates.
LEMMA AppendNew ==
  ASSUME NEW S, NEW s \in Seq(S), NEW x \in S, x \notin Range(s),
         \A i, j \in DOMAIN s : s[i] = s[j] => i = j,
         NEW r, r = Append(s, x)
  PROVE  \A i, j \in DOMAIN r : r[i] = r[j] => i = j
<1>1. \A i \in DOMAIN s : s[i] # x
  BY DEF Range
<1> QED
  BY <1>1

\* A new element is found where it was appended.
LEMMA AppendedIsLast ==
  ASSUME NEW S, NEW s \in Seq(S), NEW x \in S, x \notin Range(s)
  PROVE  FirstIndex(Append(s, x), x) = Len(s) + 1
<1>1. /\ Append(s, x) \in Seq(S) /\ Len(s) + 1 \in 1 .. Len(Append(s, x))
      /\ Append(s, x)[Len(s) + 1] = x
      /\ \A j \in 1 .. (Len(s) + 1) - 1 :
           Append(s, x)[j] # Append(s, x)[Len(s) + 1]
  BY DEF Range
<1>2. FirstIndex(Append(s, x), Append(s, x)[Len(s) + 1]) = Len(s) + 1
  BY <1>1, FirstIndexIs
<1> QED
  BY <1>1, <1>2

\* Appending leaves the position of every other element.
LEMMA AppendKeepsPositions ==
  ASSUME NEW S, NEW s \in Seq(S), NEW x \in S, NEW y \in Range(s)
  PROVE  FirstIndex(Append(s, x), y) = FirstIndex(s, y)
<1> DEFINE i == FirstIndex(s, y)
           r == Append(s, x)
<1>1. i \in 1 .. Len(s) /\ s[i] = y /\ \A j \in 1 .. i - 1 : s[j] # y
  BY FirstIndexType
<1> HIDE DEF i
<1>2. /\ r \in Seq(S) /\ i \in 1 .. Len(r) /\ r[i] = y
      /\ \A j \in 1 .. i - 1 : r[j] # r[i]
  BY <1>1
<1> HIDE DEF r
<1>3. FirstIndex(r, r[i]) = i
  BY <1>2, FirstIndexIs
<1> QED
  BY <1>2, <1>3 DEF i, r

\* Two lists that AddToken keeps in step: a position of the one is a position
\* of the other, nothing is listed twice, and a token's position leads to its
\* own bump.
InStep(T, tokens, bumps, bump) ==
  /\ tokens \in Seq(T) /\ bumps \in Seq(Nat)
  /\ Len(bumps) = Len(tokens)
  /\ \A i, j \in DOMAIN tokens : tokens[i] = tokens[j] => i = j
  /\ \A u \in Range(tokens) : bumps[FirstIndex(tokens, u)] = bump[u]

\* A new token that is appended with its bump leaves them so.
LEMMA AppendInStep ==
  ASSUME NEW T, NEW bump \in [T -> Nat], NEW tokens, NEW bumps,
         InStep(T, tokens, bumps, bump), NEW t \in T, t \notin Range(tokens),
         NEW more, more = Append(tokens, t),
         NEW moreBumps, moreBumps = Append(bumps, bump[t])
  PROVE  /\ InStep(T, more, moreBumps, bump)
         /\ Len(more) = Len(tokens) + 1
<1>0. /\ tokens \in Seq(T) /\ bumps \in Seq(Nat) /\ Len(bumps) = Len(tokens)
      /\ \A i, j \in DOMAIN tokens : tokens[i] = tokens[j] => i = j
      /\ \A u \in Range(tokens) : bumps[FirstIndex(tokens, u)] = bump[u]
  BY DEF InStep
<1>1. /\ more \in Seq(T) /\ Len(more) = Len(tokens) + 1
      /\ moreBumps \in Seq(Nat) /\ Len(moreBumps) = Len(bumps) + 1
      /\ moreBumps[Len(bumps) + 1] = bump[t]
      /\ \A i \in 1 .. Len(bumps) : moreBumps[i] = bumps[i]
  BY <1>0
<1>2. Range(more) = Range(tokens) \cup {t}
  BY <1>0, AppendRange
<1>3. \A i, j \in DOMAIN more : more[i] = more[j] => i = j
  <2>1. \A i \in DOMAIN tokens : tokens[i] # t
    BY DEF Range
  <2> QED
    BY <1>0, <2>1
<1>4. FirstIndex(more, t) = Len(tokens) + 1
  BY <1>0, AppendedIsLast
<1>5. ASSUME NEW u \in Range(tokens)
      PROVE  /\ FirstIndex(more, u) = FirstIndex(tokens, u)
             /\ FirstIndex(tokens, u) \in 1 .. Len(tokens)
  BY <1>0, AppendKeepsPositions, FirstIndexType
<1>6. ASSUME NEW u \in Range(more)
      PROVE  moreBumps[FirstIndex(more, u)] = bump[u]
  <2>1. CASE u \in Range(tokens)
    BY <1>0, <1>1, <1>5, <2>1
  <2>2. CASE u = t
    BY <1>0, <1>1, <1>4, <2>2
  <2> QED
    BY <1>2, <1>6, <2>1, <2>2
<1>7. Len(moreBumps) = Len(more)
  BY <1>0, <1>1
<1> QED
  BY <1>1, <1>3, <1>6, <1>7 DEF InStep
=============================================================================
