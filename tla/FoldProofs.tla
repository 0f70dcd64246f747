----------------------------- MODULE FoldProofs -----------------------------
(***************************************************************************)
(* What FoldLeft of the community modules computes, as the commands use it *)
(* to model the loops that gather something over the servers: the chain of *)
(* the accumulator's values.  The library's induction theorems take an     *)
(* operator; the induction here is on a set, from the well-foundedness of  *)
(* the subset order on finite sets.                                        *)
(***************************************************************************)
EXTENDS Integers, SequencesExt, FiniteSetTheorems, TLAPS

\* Induction over the natural numbers, for a set.
LEMMA NatSets ==
  ASSUME NEW S, 0 \in S, \A n \in Nat : n \in S => n + 1 \in S
  PROVE  \A n \in Nat : n \in S
<1> DEFINE T == {n \in Nat : n \notin S}
           U == {1..n : n \in T}
<1> SUFFICES ASSUME T # {} PROVE FALSE
  OBVIOUS
<1>1. PICK X \in U : \A Y \in U : ~(<<Y, X>> \in StrictSubsetOrdering(Nat))
  <2>1. U \subseteq FiniteSubsetsOf(Nat) /\ U # {}
    <3> SUFFICES ASSUME NEW n \in T PROVE 1..n \in FiniteSubsetsOf(Nat)
      OBVIOUS
    <3> QED
      BY FS_Interval DEF FiniteSubsetsOf
  <2> HIDE DEF U
  <2>2. QED
    BY <2>1, FS_StrictSubsetOrderingWellFounded, WFMin
<1>2. PICK x \in T : X = 1..x
  OBVIOUS
<1>3. x # 0 /\ x - 1 \in Nat
  OBVIOUS
<1>4. x - 1 \notin S
  BY <1>3
<1>5. <<1..(x - 1), X>> \in StrictSubsetOrdering(Nat)
  BY <1>2, <1>3 DEF StrictSubsetOrdering
<1>6. QED
  BY <1>1, <1>3, <1>4, <1>5

\* The sets that a fold from left to right goes through.
LEMMA Prefix ==
  ASSUME NEW i \in Nat
  PROVE  /\ 1..(i + 1) # {} /\ (1..(i + 1)) \ {i + 1} = 1..i /\ Max(1..(i + 1)) = i + 1
         /\ \A s : s \subseteq 1..(i + 1) /\ i + 1 \in s => Max(s) = i + 1
<1>1. 1..(i + 1) # {} /\ (1..(i + 1)) \ {i + 1} = 1..i /\ i + 1 \in 1..(i + 1)
  OBVIOUS
<1>2. ASSUME NEW s, s \subseteq 1..(i + 1), i + 1 \in s PROVE Max(s) = i + 1
  <2>1. \A x \in s : (\A y \in s : x >= y) <=> x = i + 1
    BY <1>2
  <2>2. QED
    BY <1>2, <2>1 DEF Max
<1>3. QED
  BY <1>1, <1>2, Zenon

\* The greatest of some positions is one of them.
LEMMA MaxOf ==
  ASSUME NEW N \in Nat
  PROVE  \A s \in SUBSET (1..N) : s # {} => Max(s) \in s
<1> DEFINE S == {n \in Nat : \A s \in SUBSET (1..n) : s # {} => Max(s) \in s}
<1>1. 0 \in S
  <2>1. SUBSET (1..0) = {{}}
    OBVIOUS
  <2>2. QED
    BY <2>1
<1>2. ASSUME NEW n \in Nat, n \in S, NEW s \in SUBSET (1..(n + 1)), s # {}
      PROVE  Max(s) \in s
  <2>1. CASE n + 1 \in s
    BY <2>1, Prefix
  <2>2. CASE n + 1 \notin s
    <3>1. s \in SUBSET (1..n)
      BY <2>2
    <3>2. QED
      BY <1>2, <3>1
  <2>3. QED
    BY <2>1, <2>2
<1>3. ASSUME NEW n \in Nat, n \in S PROVE n + 1 \in S
  <2>1. n + 1 \in Nat
    OBVIOUS
  <2>2. QED
    BY <1>2, <1>3, <2>1, Zenon
<1> HIDE DEF S
<1>4. N \in S
  BY <1>1, <1>3, NatSets
<1>5. QED
  BY <1>4 DEF S

LEMMA MaxIn ==
  ASSUME NEW N \in Nat
  PROVE  \A s \in SUBSET (1..N) : s # {} => Max(s) \in 1..N
BY MaxOf

\* g is the recursive function of such a fold, over the sets of positions.
FoldsBy(g, n, base, H) ==
  \A s \in SUBSET (1..n) : g[s] = IF s = {} THEN base ELSE H[Max(s)][g[s \ {Max(s)}]]

\* It exists, so that the CHOOSE that stands for it in FoldLeft chooses one.
LEMMA FoldExists ==
  ASSUME NEW N \in Nat, NEW A, NEW base \in A, NEW H \in [1..N -> [A -> A]]
  PROVE  \E g \in [SUBSET (1..N) -> A] : FoldsBy(g, N, base, H)
<1> DEFINE S == {n \in Nat : n <= N => \E g \in [SUBSET (1..n) -> A] : FoldsBy(g, n, base, H)}
<1>1. 0 \in S
  <2>1. SUBSET (1..0) = {{}}
    OBVIOUS
  <2> DEFINE f == [s \in {{}} |-> base]
  <2>2. f \in [SUBSET (1..0) -> A] /\ FoldsBy(f, 0, base, H)
    BY <2>1 DEF FoldsBy
  <2>3. QED
    BY <2>2
<1>2. ASSUME NEW n \in Nat, n \in S PROVE n + 1 \in S
  <2>0. n + 1 \in Nat
    OBVIOUS
  <2> SUFFICES ASSUME n + 1 <= N
               PROVE  \E g \in [SUBSET (1..(n + 1)) -> A] : FoldsBy(g, n + 1, base, H)
    BY <2>0, Zenon
  <2>1. PICK f \in [SUBSET (1..n) -> A] : FoldsBy(f, n, base, H)
    <3>1. n <= N
      BY <1>2
    <3>2. QED
      BY <1>2, <3>1, Zenon
  <2> DEFINE m == n + 1
             g == [s \in SUBSET (1..m) |-> IF m \in s THEN H[m][f[s \ {m}]] ELSE f[s]]
  <2>2. m \in 1..N /\ (1..m) \ {m} = 1..n
    OBVIOUS
  <2>3. ASSUME NEW s \in SUBSET (1..m), m \in s
        PROVE  /\ s \ {m} \in SUBSET (1..n) /\ g[s] = H[m][f[s \ {m}]] /\ g[s] \in A
               /\ Max(s) = m /\ s # {} /\ g[s \ {m}] = f[s \ {m}]
    <3>1. s \ {m} \in SUBSET (1..n) /\ Max(s) = m /\ s \ {m} \in SUBSET (1..m) /\ m \notin s \ {m}
      BY <2>2, <2>3, Prefix
    <3>2. H[m][f[s \ {m}]] \in A
      BY <2>2, <3>1
    <3>3. QED
      BY <2>3, <3>1, <3>2
  <2>4. ASSUME NEW s \in SUBSET (1..m), m \notin s
        PROVE  /\ s \in SUBSET (1..n) /\ g[s] = f[s] /\ g[s] \in A
               /\ s # {} => g[s \ {Max(s)}] = f[s \ {Max(s)}]
    <3>1. s \in SUBSET (1..n) /\ s \ {Max(s)} \in SUBSET (1..m) /\ m \notin s \ {Max(s)}
      BY <2>2, <2>4
    <3>2. QED
      BY <2>4, <3>1
  <2>5. g \in [SUBSET (1..m) -> A]
    BY <2>3, <2>4
  <2>6. FoldsBy(g, m, base, H)
    <3> SUFFICES ASSUME NEW s \in SUBSET (1..m)
                 PROVE  g[s] = IF s = {} THEN base ELSE H[Max(s)][g[s \ {Max(s)}]]
      BY DEF FoldsBy
    <3>1. CASE m \in s
      BY <2>3, <3>1
    <3>2. CASE m \notin s
      <4> HIDE DEF g
      <4>1. QED
        BY <2>1, <2>4, <3>2 DEF FoldsBy
    <3>3. QED
      BY <3>1, <3>2
  <2> HIDE DEF g
  <2>7. QED
    BY <2>5, <2>6
<1> HIDE DEF S
<1>4. N \in S
  BY <1>1, <1>2, NatSets
<1>5. QED
  <2>1. N <= N
    OBVIOUS
  <2>2. QED
    BY <1>4, <2>1, Zenon DEF S

\* What satisfies its equation, where the argument has the right type, goes
\* through a chain of accumulators, from the base to the result.
IsFold(it, N, A, base, H) ==
  /\ it[{}] = base
  /\ \A s \in SUBSET (1..N) : s # {} /\ it[s \ {Max(s)}] \in A =>
                             it[s] = H[Max(s)][it[s \ {Max(s)}]]

IsChain(a, N, A, base, H) ==
  a \in [0..N -> A] /\ a[0] = base /\ \A i \in 1..N : a[i] = H[i][a[i - 1]]

LEMMA FoldChain ==
  ASSUME NEW N \in Nat, NEW A, NEW base \in A, NEW H \in [1..N -> [A -> A]],
         NEW it, IsFold(it, N, A, base, H)
  PROVE  \E a : IsChain(a, N, A, base, H) /\ a[N] = it[1..N]
<1> USE DEF IsFold
<1> DEFINE S == {n \in Nat : n <= N => it[1..n] \in A}
<1>1. 1..0 = {}
  OBVIOUS
<1>2. ASSUME NEW n \in Nat, n + 1 <= N, it[1..n] \in A
      PROVE  it[1..(n + 1)] = H[n + 1][it[1..n]] /\ it[1..(n + 1)] \in A
  <2>1. 1..(n + 1) \in SUBSET (1..N) /\ n + 1 \in 1..N
    BY <1>2
  <2>2. 1..(n + 1) # {} /\ (1..(n + 1)) \ {Max(1..(n + 1))} = 1..n /\ Max(1..(n + 1)) = n + 1
    BY Prefix, Zenon
  <2>3. it[1..(n + 1)] = H[n + 1][it[1..n]]
    BY <1>2, <2>1, <2>2, Zenon
  <2>4. QED
    BY <1>2, <2>1, <2>3
<1>3. \A n \in Nat : n \in S
  <2>1. 0 \in S
    BY <1>1
  <2>2. ASSUME NEW n \in Nat, n \in S PROVE n + 1 \in S
    BY <1>2, <2>2
  <2> HIDE DEF S
  <2>3. QED
    BY <2>1, <2>2, NatSets
<1> DEFINE a == [i \in 0..N |-> it[1..i]]
<1>4. a \in [0..N -> A] /\ a[0] = base /\ a[N] = it[1..N]
  BY <1>1, <1>3
<1>5. ASSUME NEW i \in 1..N PROVE a[i] = H[i][a[i - 1]]
  <2>1. PICK n \in Nat : n = i - 1
    OBVIOUS
  <2>2. i = n + 1 /\ n + 1 <= N /\ it[1..n] \in A /\ n \in 0..N /\ i \in 0..N
    BY <1>3, <2>1
  <2>3. QED
    BY <1>2, <2>1, <2>2
<1> HIDE DEF a
<1>6. QED
  BY <1>4, <1>5 DEF IsChain

(***************************************************************************)
(* SumFunction of the community modules adds up over sets of positions as  *)
(* well, but takes an element with CHOOSE where FoldLeft takes the         *)
(* greatest: that it comes to the same is that the order does not matter.  *)
(***************************************************************************)
\* it adds up f over sets of positions, choice[s] the last one of s.
Adds(it, n, f, choice) ==
  \A s \in SUBSET (1..n) :
    it[s] = IF s = {} THEN 0 ELSE f[choice[s]] + it[s \ {choice[s]}]

Orders(n) == {c \in [SUBSET (1..n) -> 1..n \cup {0}] : \A s \in SUBSET (1..n) : s # {} => c[s] \in s}

\* The sizes of sets of positions.
LEMMA SizeOf ==
  ASSUME NEW n \in Nat, NEW s \in SUBSET (1..n)
  PROVE  /\ Cardinality(s) \in Nat /\ (Cardinality(s) = 0 <=> s = {})
         /\ \A x \in s : Cardinality(s \ {x}) = Cardinality(s) - 1
<1>1. IsFiniteSet(s)
  <2>1. IsFiniteSet(1..n)
    BY FS_Interval
  <2>2. QED
    BY <2>1, FS_Subset
<1>2. Cardinality(s) \in Nat /\ (Cardinality(s) = 0 <=> s = {})
  BY <1>1, FS_CardinalityType, FS_EmptySet
<1>3. \A x \in s : Cardinality(s \ {x}) = Cardinality(s) - 1
  BY <1>1, FS_RemoveElement
<1>4. QED
  BY <1>2, <1>3

LEMMA Swap == ASSUME NEW a \in Nat, NEW b \in Nat, NEW c \in Nat PROVE a + (b + c) = b + (a + c)
OBVIOUS

\* Whatever the order, any element may be added last.
Sums(it, n, f) ==
  \A s \in SUBSET (1..n) : it[s] \in Nat /\ \A x \in s : it[s] = f[x] + it[s \ {x}]

LEMMA AnyOrder ==
  ASSUME NEW n \in Nat, NEW f \in [1..n -> Nat], NEW c, c \in Orders(n), NEW it, Adds(it, n, f, c)
  PROVE  Sums(it, n, f)
<1> DEFINE Free(s) == it[s] \in Nat /\ \A x \in s : it[s] = f[x] + it[s \ {x}]
           S == {k \in Nat : \A s \in SUBSET (1..n) : Cardinality(s) <= k => Free(s)}
<1>0. \A s \in SUBSET (1..n) :
        /\ Cardinality(s) \in Nat /\ (Cardinality(s) = 0 <=> s = {})
        /\ \A x \in s : Cardinality(s \ {x}) = Cardinality(s) - 1
  BY SizeOf
<1>1. 0 \in S
  <2>1. it[{}] = 0
    <3>1. {} \in SUBSET (1..n)
      OBVIOUS
    <3>2. QED
      BY <3>1, Zenon DEF Adds
  <2>2. Free({})
    BY <2>1
  <2> HIDE DEF Free
  <2>3. ASSUME NEW s \in SUBSET (1..n), Cardinality(s) <= 0 PROVE s = {}
    BY <1>0, <2>3
  <2>4. QED
    BY <2>2, <2>3
<1>2. ASSUME NEW k \in Nat, k \in S, NEW s \in SUBSET (1..n), Cardinality(s) = k + 1
      PROVE  Free(s)
  <2>1. s # {} /\ c[s] \in s
    <3>1. s # {}
      BY <1>0, <1>2
    <3>2. \A t \in SUBSET (1..n) : t # {} => c[t] \in t
      BY DEF Orders
    <3>3. QED
      BY <3>1, <3>2
  <2>2. ASSUME NEW x \in s
        PROVE  s \ {x} \in SUBSET (1..n) /\ f[x] \in Nat /\ Free(s \ {x})
    <3>1. s \ {x} \in SUBSET (1..n) /\ f[x] \in Nat
      OBVIOUS
    <3>2. Cardinality(s \ {x}) <= k
      BY <1>0, <1>2
    <3> HIDE DEF Free
    <3>3. QED
      BY <1>2, <3>1, <3>2
  <2> DEFINE y == c[s]
  <2>3. it[s] = f[y] + it[s \ {y}] /\ f[y] \in Nat /\ it[s \ {y}] \in Nat
    BY <2>1, <2>2 DEF Adds
  <2> HIDE DEF y
  <2>4. ASSUME NEW x \in s, x # y, y \in s PROVE it[s] = f[x] + it[s \ {x}]
    <3> DEFINE r == (s \ {y}) \ {x}
    <3>1. r = (s \ {x}) \ {y} /\ x \in s \ {y} /\ y \in s \ {x}
      BY <2>4
    <3>2. it[s \ {y}] = f[x] + it[r] /\ it[s \ {x}] = f[y] + it[r]
      BY <2>2, <2>4, <3>1, Zenon
    <3>3. it[r] \in Nat
      <4>1. r \in SUBSET (1..n) /\ Cardinality(r) <= k
        <5>1. s \ {y} \in SUBSET (1..n) /\ Cardinality(s \ {y}) = k
          BY <1>0, <1>2, <2>4
        <5>2. r \in SUBSET (1..n) /\ Cardinality(r) = k - 1
          BY <1>0, <3>1, <5>1
        <5>3. QED
          BY <5>2
      <4> HIDE DEF r
      <4>2. Free(r)
        <5> HIDE DEF Free
        <5>1. QED
          BY <1>2, <4>1
      <4>3. QED
        BY <4>2
    <3>4. f[x] \in Nat /\ f[y] \in Nat
      BY <2>2, <2>4
    <3> HIDE DEF r
    <3>5. f[y] + (f[x] + it[r]) = f[x] + (f[y] + it[r])
      BY <3>3, <3>4, Swap, Zenon
    <3>6. QED
      BY <2>3, <3>2, <3>5, Zenon
  <2>5. it[s] \in Nat /\ y \in s
    BY <2>1, <2>3 DEF y
  <2>6. QED
    BY <2>3, <2>4, <2>5
<1> HIDE DEF Free
<1>3. ASSUME NEW k \in Nat, k \in S PROVE k + 1 \in S
  <2>1. k + 1 \in Nat /\ \A s \in SUBSET (1..n) :
          Cardinality(s) <= k + 1 => Cardinality(s) <= k \/ Cardinality(s) = k + 1
    BY <1>0
  <2>2. QED
    BY <1>2, <1>3, <2>1, Zenon
<1>4. \A k \in Nat : k \in S
  <2> HIDE DEF S
  <2>1. QED
    BY <1>1, <1>3, NatSets
<1>5. \A s \in SUBSET (1..n) : Free(s)
  BY <1>0, <1>4
<1>6. QED
  BY <1>5, Zenon DEF Free, Sums

\* Adding up from left to right comes to the same as the library's sum.
LEMMA SumOfSeq ==
  ASSUME NEW n \in Nat, NEW f \in [1..n -> Nat],
         NEW v \in [0..n -> Nat], v[0] = 0, \A i \in 1..n : v[i] = f[i] + v[i - 1]
  PROVE  SumFunction(f) = v[n]
<1> DEFINE P == SUBSET (1..n)
           Eq(g) == g = [s \in P |-> IF s = {} THEN 0
                                     ELSE LET x == CHOOSE x \in s : TRUE IN f[x] + g[s \ {x}]]
           it == CHOOSE g : Eq(g)
           any == [s \in P |-> IF s = {} THEN 0 ELSE CHOOSE x \in s : TRUE]
           last == [s \in P |-> IF s = {} THEN 0 ELSE Max(s)]
<1>1. any \in Orders(n)
  BY DEF Orders
<1>2. last \in Orders(n) /\ \A s \in P : s # {} => Max(s) \in 1..n
  <2>1. \A s \in SUBSET (1..n) : s # {} => Max(s) \in s
    BY MaxOf
  <2>2. QED
    BY <2>1 DEF Orders
<1>3. \E g : Eq(g)
  <2> DEFINE H == [i \in 1..n |-> [k \in Nat |-> f[i] + k]]
  <2>1. PICK g \in [P -> Nat] : FoldsBy(g, n, 0, H)
    <3>1. H \in [1..n -> [Nat -> Nat]] /\ 0 \in Nat
      OBVIOUS
    <3> HIDE DEF H
    <3>2. QED
      BY <3>1, FoldExists
  <2>2. Adds(g, n, f, last)
    BY <1>2, <2>1 DEF Adds, FoldsBy
  <2> HIDE DEF last
  <2>3. last \in Orders(n)
    BY <1>2
  <2>4. Sums(g, n, f)
    <3> HIDE DEF Eq, it, any, H
    <3>1. QED
      BY <2>2, <2>3, AnyOrder, Zenon
  <2>5. \A s \in SUBSET (1..n) : g[s] \in Nat /\ \A x \in s : g[s] = f[x] + g[s \ {x}]
    BY <2>4 DEF Sums
  <2>6. ASSUME NEW s \in P
        PROVE  g[s] = IF s = {} THEN 0 ELSE LET x == CHOOSE x \in s : TRUE IN f[x] + g[s \ {x}]
    <3>1. s = {} => g[s] = 0
      BY <2>1, <2>6 DEF FoldsBy
    <3>2. s # {} => (CHOOSE x \in s : TRUE) \in s
      OBVIOUS
    <3>3. s # {} => g[s] = f[CHOOSE x \in s : TRUE] + g[s \ {CHOOSE x \in s : TRUE}]
      BY <2>5, <2>6, <3>2, Zenon
    <3>4. QED
      BY <3>1, <3>3
  <2>7. Eq(g)
    BY <2>1, <2>6
  <2> HIDE DEF Eq
  <2>8. QED
    BY <2>7
<1>4. Eq(it)
  <2> HIDE DEF Eq
  <2>1. QED
    BY <1>3, Zenon
<1>5. \A s \in P : /\ it[s] \in Nat
                   /\ \A x \in s : it[s] = f[x] + it[s \ {x}]
  <2>1. Adds(it, n, f, any)
    <3> HIDE DEF it
    <3>1. QED
      BY <1>4 DEF Adds
  <2>2. any \in Orders(n)
    BY <1>1
  <2> HIDE DEF it, any
  <2>3. Sums(it, n, f)
    BY <2>1, <2>2, AnyOrder, Zenon
  <2>4. QED
    BY <2>3 DEF Sums
<1>6. it[{}] = 0
  <2> HIDE DEF it
  <2>1. QED
    BY <1>4
<1>7. SumFunction(f) = it[1..n]
  BY DEF SumFunction, SumFunctionOnSet, FoldFunctionOnSet, MapThenFoldSet
<1> HIDE DEF it
<1> DEFINE S == {k \in Nat : k <= n => it[1..k] = v[k]}
<1>8. 0 \in S
  BY <1>6
<1>9. ASSUME NEW k \in Nat, k \in S PROVE k + 1 \in S
  <2>1. k + 1 \in Nat /\ (1..(k + 1)) \ {k + 1} = 1..k
    OBVIOUS
  <2>2. ASSUME k + 1 <= n PROVE it[1..(k + 1)] = v[k + 1]
    <3>1. 1..(k + 1) \in P /\ k + 1 \in 1..(k + 1) /\ k + 1 \in 1..n /\ (k + 1) - 1 = k /\ k <= n
      BY <2>2
    <3>2. it[1..(k + 1)] = f[k + 1] + it[1..k]
      BY <1>5, <2>1, <3>1
    <3>3. v[k + 1] = f[k + 1] + v[k]
      <4>1. v[k + 1] = f[k + 1] + v[(k + 1) - 1]
        BY <3>1, Zenon
      <4>2. QED
        BY <3>1, <4>1, Zenon
    <3>4. it[1..k] = v[k]
      BY <1>9, <3>1
    <3>5. QED
      BY <3>2, <3>3, <3>4
  <2>3. QED
    BY <2>1, <2>2
<1> HIDE DEF S
<1>10. n \in S
  BY <1>8, <1>9, NatSets
<1>11. QED
  <2>1. n <= n
    OBVIOUS
  <2>2. QED
    BY <1>7, <1>10, <2>1, Zenon DEF S
=============================================================================
