------------------------ MODULE DecodeBalancer_proofs ------------------------
(***************************************************************************)
(* Proofs about DecodeBalancer, for any engines, requests, conversations   *)
(* and sizes: what an engine has booked is exactly what it serves, the     *)
(* eviction is least recently used, and a request that came after a fence  *)
(* does not land behind it.  For the eviction the invariant says that the  *)
(* order lists the conversations that have an engine by age, and that the  *)
(* ones evicted are older than all of them.                                *)
(***************************************************************************)
EXTENDS DecodeBalancer, FiniteSetTheorems, SequenceTheorems, WellFoundedInduction,
        TLAPS

-----------------------------------------------------------------------------
(* Sums.                                                                   *)

\* What the requests in S have claimed, as AccountsExact adds it up.
Total(w, S) == MapThenSumSet(LAMBDA r : w[r].tok, S)
\* The element a fold takes next.
One(s) == CHOOSE x \in s : TRUE
\* g has the sum of every subset of S: the recursion of the fold.
Adds(w, S, g) ==
  g = [s \in SUBSET S |-> IF s = {} THEN 0 ELSE w[One(s)].tok + g[s \ {One(s)}]]

\* The sum, as the recursion's value on the whole set.
LEMMA TotalIs == ASSUME NEW w, NEW S PROVE Total(w,S) = (CHOOSE g : Adds(w,S,g))[S]
  BY DEF Total, MapThenSumSet, MapThenFoldSet, Adds, One

\* The element taken next is one of the set.
LEMMA OneIn == ASSUME NEW s, s # {} PROVE One(s) \in s
  BY DEF One

\* A set of subsets of a finite set has a minimal element: this is the induction.
LEMMA MinimalSet ==
  ASSUME NEW S, IsFiniteSet(S), NEW B \in SUBSET (SUBSET S), B # {}
  PROVE  \E T \in B : \A U \in B : U \subseteq T => U = T
<1>1. IsWellFoundedOn(StrictSubsetOrdering(S), SUBSET S)
  BY FS_StrictSubsetOrderingWellFounded, FS_FiniteSubsetsOfFinite, Zenon
<1>2. PICK T \in B : \A U \in B : ~(<<U, T>> \in StrictSubsetOrdering(S))
  BY <1>1, WFMin, Zenon
<1>3. ASSUME NEW U \in B, U \subseteq T, U # T PROVE FALSE
  <2>1. <<U, T>> \in StrictSubsetOrdering(S)
    BY <1>3 DEF StrictSubsetOrdering
  <2> QED BY <1>2, <2>1, Zenon
<1> QED BY <1>3

\* The recursion has one solution,
LEMMA AddsUnique ==
  ASSUME NEW w, NEW S, IsFiniteSet(S), NEW g, NEW h, Adds(w, S, g), Adds(w, S, h)
  PROVE  g = h
<1>d. DOMAIN g = SUBSET S /\ DOMAIN h = SUBSET S
  BY DEF Adds
<1>1. SUFFICES ASSUME NEW B, B = {s \in SUBSET S : g[s] # h[s]}, B # {} PROVE FALSE
  BY DEF Adds
<1>0. B \in SUBSET (SUBSET S)
  BY <1>1
<1>2. PICK T \in B : \A U \in B : U \subseteq T => U = T
  BY <1>0, <1>1, MinimalSet
<1>3. CASE T = {}
  BY <1>1, <1>2, <1>3 DEF Adds
<1>4. CASE T # {}
  <2>1. One(T) \in T /\ T \ {One(T)} \in SUBSET S /\ T \in SUBSET S /\ T \ {One(T)} # T
    BY <1>1, <1>2, <1>4, OneIn
  <2>2. g[T \ {One(T)}] = h[T \ {One(T)}]
    BY <1>1, <1>2, <2>1
  <2>3. g[T] = w[One(T)].tok + g[T \ {One(T)}] /\ h[T] = w[One(T)].tok + h[T \ {One(T)}]
    BY <1>4, <2>1 DEF Adds
  <2> QED BY <2>2, <2>3, <1>1, <1>2
<1> QED BY <1>3, <1>4

\* A solution for a set is one for its subsets,
LEMMA AddsRestricts ==
  ASSUME NEW w, NEW S, NEW U \in SUBSET S, NEW g, Adds(w, S, g)
  PROVE  Adds(w, U, [s \in SUBSET U |-> g[s]])
<1> DEFINE h == [s \in SUBSET U |-> g[s]]
<1>1. ASSUME NEW s \in SUBSET U
      PROVE  h[s] = IF s = {} THEN 0 ELSE w[One(s)].tok + h[s \ {One(s)}]
  <2>1. s \in SUBSET S /\ s \ {One(s)} \in SUBSET U
    OBVIOUS
  <2>2. g[s] = IF s = {} THEN 0 ELSE w[One(s)].tok + g[s \ {One(s)}]
    BY <2>1 DEF Adds
  <2> QED BY <2>1, <2>2
<1>2. h = [s \in SUBSET U |-> h[s]]
  OBVIOUS
<1> HIDE DEF h
<1>3. Adds(w, U, h)
  BY <1>1, <1>2 DEF Adds
<1> QED BY <1>3 DEF h

\* whose values are the sums.
LEMMA AddsTotal ==
  ASSUME NEW w, NEW S, IsFiniteSet(S), NEW U \in SUBSET S, NEW g, Adds(w, S, g)
  PROVE  g[U] = Total(w, U)
<1> DEFINE h == [s \in SUBSET U |-> g[s]]
<1>1. Adds(w, U, h) /\ h[U] = g[U]
  BY AddsRestricts
<1> HIDE DEF h
<1>2. Adds(w, U, CHOOSE k : Adds(w, U, k))
  BY <1>1
<1>3. IsFiniteSet(U)
  BY FS_Subset
<1>4. h = CHOOSE k : Adds(w, U, k)
  BY <1>1, <1>2, <1>3, AddsUnique
<1> QED BY <1>1, <1>4, TotalIs

\* and it has one: the sums of the smaller sets, put together.
LEMMA AddsExists ==
  ASSUME NEW w, NEW S, IsFiniteSet(S)
  PROVE  \E g : Adds(w, S, g)
<1>1. SUFFICES ASSUME NEW B, B = {s \in SUBSET S : ~ \E g : Adds(w, s, g)}, B # {} PROVE FALSE
  OBVIOUS
<1>0. B \in SUBSET (SUBSET S) /\ B # {}
  BY <1>1
<1>2. PICK T \in B : \A U \in B : U \subseteq T => U = T
  BY <1>0, MinimalSet
<1>3. T \in SUBSET S /\ ~ \E g : Adds(w, T, g)
  BY <1>1, <1>2
<1>4. ASSUME NEW U \in SUBSET T, U # T, U # {}
      PROVE  Total(w, U) = w[One(U)].tok + Total(w, U \ {One(U)})
  <2>1. PICK g : Adds(w, U, g)
    BY <1>1, <1>2, <1>3, <1>4
  <2>2. IsFiniteSet(U) /\ U \in SUBSET U /\ U \ {One(U)} \in SUBSET U
    BY <1>3, FS_Subset
  <2>3. g[U] = w[One(U)].tok + g[U \ {One(U)}]
    BY <2>1, <2>2, <1>4 DEF Adds
  <2> QED BY <2>1, <2>2, <2>3, AddsTotal
<1>5. T # {} => Total(w, {}) = 0
  <2> SUFFICES ASSUME T # {} PROVE Total(w, {}) = 0
    OBVIOUS
  <2>1. PICK g : Adds(w, {}, g)
    BY <1>1, <1>2, <1>3
  <2>2. g[{}] = 0 /\ IsFiniteSet({})
    BY <2>1, FS_EmptySet DEF Adds
  <2> QED BY <2>1, <2>2, AddsTotal
<1> DEFINE h == [s \in SUBSET T |->
                   IF s # T THEN Total(w, s)
                   ELSE IF T = {} THEN 0 ELSE w[One(T)].tok + Total(w, T \ {One(T)})]
<1>6. ASSUME NEW s \in SUBSET T
      PROVE  h[s] = IF s = {} THEN 0 ELSE w[One(s)].tok + h[s \ {One(s)}]
  <2>1. s # {} => One(s) \in s /\ s \ {One(s)} \in SUBSET T /\ s \ {One(s)} # T
    BY OneIn
  <2>2. CASE s = T
    BY <2>1, <2>2
  <2>3. CASE s # T
    BY <2>1, <2>3, <1>4, <1>5
  <2> QED BY <2>2, <2>3
<1>7. h = [s \in SUBSET T |-> h[s]]
  OBVIOUS
<1> HIDE DEF h
<1>8. Adds(w, T, h)
  BY <1>6, <1>7 DEF Adds
<1> QED BY <1>3, <1>8

\* The sum's own recursion.
LEMMA TotalRec ==
  ASSUME NEW w, NEW S, IsFiniteSet(S)
  PROVE  Total(w, S) = IF S = {} THEN 0 ELSE w[One(S)].tok + Total(w, S \ {One(S)})
<1>1. PICK g : Adds(w, S, g)
  BY AddsExists
<1>2. S \in SUBSET S /\ S \ {One(S)} \in SUBSET S
  OBVIOUS
<1>3. g[S] = IF S = {} THEN 0 ELSE w[One(S)].tok + g[S \ {One(S)}]
  BY <1>1, <1>2 DEF Adds
<1> QED BY <1>1, <1>2, <1>3, AddsTotal

\* Nothing sums to zero.
LEMMA TotalEmpty == \A w : Total(w, {}) = 0
  BY TotalRec, FS_EmptySet

\* A sum of naturals is a natural.
LEMMA TotalType ==
  ASSUME NEW w, NEW S, IsFiniteSet(S), \A x \in S : w[x].tok \in Nat
  PROVE  Total(w, S) \in Nat
<1>1. SUFFICES ASSUME NEW B, B = {s \in SUBSET S : Total(w, s) \notin Nat}, B # {} PROVE FALSE
  OBVIOUS
<1>0. B \in SUBSET (SUBSET S)
  BY <1>1
<1>2. PICK T \in B : \A U \in B : U \subseteq T => U = T
  BY <1>0, <1>1, MinimalSet
<1>3. T \in SUBSET S /\ IsFiniteSet(T) /\ Total(w, T) \notin Nat
  BY <1>1, <1>2, FS_Subset
<1>4. T # {}
  BY <1>3, TotalEmpty
<1>5. One(T) \in T /\ T \ {One(T)} \in SUBSET S /\ T \ {One(T)} # T /\ T \ {One(T)} \subseteq T
  BY <1>3, <1>4, OneIn
<1>6. Total(w, T \ {One(T)}) \in Nat /\ w[One(T)].tok \in Nat
  BY <1>1, <1>2, <1>3, <1>5
<1> QED BY <1>3, <1>4, <1>6, TotalRec

Splits(w, s) == \A y \in s : Total(w, s) = Total(w, s \ {y}) + w[y].tok

\* The sum does not depend on the order: any element may be taken out first.
LEMMA TotalRemoves ==
  ASSUME NEW w, NEW S, IsFiniteSet(S), \A y \in S : w[y].tok \in Nat, NEW x \in S
  PROVE  Total(w, S) = Total(w, S \ {x}) + w[x].tok
<1>s. SUFFICES Splits(w, S)
  BY DEF Splits
<1>1. SUFFICES ASSUME NEW B, B = {s \in SUBSET S : ~Splits(w, s)}, B # {} PROVE FALSE
  OBVIOUS
<1>0. B \in SUBSET (SUBSET S)
  BY <1>1
<1>2. PICK T \in B : \A U \in B : U \subseteq T => U = T
  BY <1>0, <1>1, MinimalSet
<1>3. T \in SUBSET S /\ IsFiniteSet(T) /\ ~Splits(w, T)
  BY <1>1, <1>2, FS_Subset
<1>4. PICK y \in T : Total(w, T) # Total(w, T \ {y}) + w[y].tok
  BY <1>3 DEF Splits
<1> DEFINE c == One(T)
<1>5. c \in T /\ Total(w, T) = w[c].tok + Total(w, T \ {c})
  BY <1>3, <1>4, TotalRec, OneIn
<1> HIDE DEF c
<1>6. /\ IsFiniteSet(T \ {c}) /\ IsFiniteSet(T \ {y}) /\ IsFiniteSet((T \ {c}) \ {y})
      /\ \A z \in T : w[z].tok \in Nat
  BY <1>3, FS_Subset
<1>7. Total(w, T \ {c}) \in Nat /\ Total(w, T \ {y}) \in Nat /\ Total(w, (T \ {c}) \ {y}) \in Nat
  BY <1>6, TotalType
<1>8. y # c
  BY <1>4, <1>5, <1>6, <1>7
<1>9. Splits(w, T \ {c}) /\ Splits(w, T \ {y})
  BY <1>1, <1>2, <1>3, <1>5
<1>10. Total(w, T \ {c}) = Total(w, (T \ {c}) \ {y}) + w[y].tok
  BY <1>8, <1>9 DEF Splits
<1>11. Total(w, T \ {y}) = Total(w, (T \ {y}) \ {c}) + w[c].tok
  BY <1>5, <1>8, <1>9 DEF Splits
<1>12. (T \ {y}) \ {c} = (T \ {c}) \ {y}
  OBVIOUS
<1>13. w[c].tok \in Nat /\ w[y].tok \in Nat
  BY <1>5, <1>6
<1> QED BY <1>4, <1>5, <1>7, <1>10, <1>11, <1>12, <1>13

\* The sum depends on the sizes of the elements only.
LEMMA TotalSame ==
  ASSUME NEW w, NEW v, NEW S, IsFiniteSet(S), \A y \in S : w[y].tok = v[y].tok
  PROVE  Total(w, S) = Total(v, S)
<1>1. SUFFICES ASSUME NEW B, B = {s \in SUBSET S : Total(w, s) # Total(v, s)}, B # {} PROVE FALSE
  OBVIOUS
<1>0. B \in SUBSET (SUBSET S)
  BY <1>1
<1>2. PICK T \in B : \A U \in B : U \subseteq T => U = T
  BY <1>0, <1>1, MinimalSet
<1>3. T \in SUBSET S /\ IsFiniteSet(T) /\ Total(w, T) # Total(v, T)
  BY <1>1, <1>2, FS_Subset
<1>4. T # {}
  BY <1>3, TotalEmpty
<1>5. One(T) \in T /\ T \ {One(T)} \in SUBSET S /\ T \ {One(T)} # T /\ T \ {One(T)} \subseteq T
  BY <1>3, <1>4, OneIn
<1>6. Total(w, T \ {One(T)}) = Total(v, T \ {One(T)}) /\ w[One(T)].tok = v[One(T)].tok
  BY <1>1, <1>2, <1>3, <1>5
<1> QED BY <1>3, <1>4, <1>6, TotalRec

-----------------------------------------------------------------------------
(* Least elements, and the i-th element of a set of engines.               *)

\* Naturals have a least element.
LEMMA LeastIn ==
  ASSUME NEW S \in SUBSET Nat, S # {}
  PROVE  \E x \in S : \A y \in S : x <= y
<1>1. OpToRel(<, Nat) = {ss \in Nat \X Nat : ss[1] < ss[2]}
  BY DEF OpToRel
<1>2. PICK x \in S : \A y \in S : ~(<<y, x>> \in OpToRel(<, Nat))
  BY NatLessThanWellFounded, WFMin, Zenon
<1>3. ASSUME NEW y \in S, y < x PROVE FALSE
  <2>1. <<y, x>> \in OpToRel(<, Nat)
    BY <1>1, <1>3
  <2> QED BY <1>2, <2>1, Zenon
<1>4. \A y \in S : x <= y
  BY <1>3
<1> QED BY <1>4

\* Engines are numbered.
LEMMA NodesNat == N \in Nat /\ \A n \in Nodes : n \in Nat /\ n <= N
  BY BalancerAssumption DEF Nodes

\* A set of engines has a last one.
LEMMA GreatestIn ==
  ASSUME NEW S \in SUBSET Nodes, S # {}
  PROVE  \E x \in S : \A y \in S : y <= x
<1>1. {N - y : y \in S} \in SUBSET Nat /\ {N - y : y \in S} # {}
  <2>1. \A y \in S : N - y \in Nat
    BY NodesNat
  <2> QED BY <2>1
<1>2. PICK z \in {N - y : y \in S} : \A t \in {N - y : y \in S} : z <= t
  BY <1>1, LeastIn
<1>3. PICK x \in S : z = N - x
  BY <1>2
<1>4. \A y \in S : N - x <= N - y
  BY <1>2, <1>3
<1>5. \A y \in S : y \in Int /\ x \in Int /\ N \in Int
  BY <1>3, BalancerAssumption DEF Nodes
<1>6. \A y \in S : y <= x
  BY <1>4, <1>5
<1> QED BY <1>6

Below(A, n) == {m \in A : m < n}

\* The engines before one are finitely many.
LEMMA BelowCard ==
  ASSUME NEW A \in SUBSET Nodes, NEW n \in A
  PROVE  IsFiniteSet(Below(A, n)) /\ Cardinality(Below(A, n)) \in Nat /\ IsFiniteSet(A)
<1>1. IsFiniteSet(Nodes)
  BY FS_Interval, BalancerAssumption DEF Nodes
<1>2. Below(A, n) \subseteq Nodes
  BY DEF Below
<1> QED BY <1>1, <1>2, FS_Subset, FS_CardinalityType

\* Every rank below the size of a set of engines is the rank of one of them.
LEMMA RankExists ==
  ASSUME NEW A \in SUBSET Nodes, NEW i \in Nat, i < Cardinality(A)
  PROVE  \E n \in A : Cardinality(Below(A, n)) = i
<1>1. IsFiniteSet(A) /\ Cardinality(A) \in Nat
  <2>1. IsFiniteSet(Nodes)
    BY FS_Interval, BalancerAssumption DEF Nodes
  <2> QED BY <2>1, FS_Subset, FS_CardinalityType
<1>2. A # {}
  BY <1>1, FS_EmptySet
<1> DEFINE S == {n \in A : Cardinality(Below(A, n)) >= i}
<1>3. S # {}
  <2>1. PICK x \in A : \A y \in A : y <= x
    BY <1>2, GreatestIn
  <2>2. Below(A, x) = A \ {x}
    <3>1. \A y \in A : y \in Nat
      BY NodesNat
    <3>2. \A y \in A : y < x <=> y # x
      BY <2>1, <3>1
    <3> QED BY <3>2 DEF Below
  <2>3. Cardinality(A \ {x}) = Cardinality(A) - 1
    BY <1>1, FS_RemoveElement
  <2>4. Cardinality(Below(A, x)) >= i
    BY <1>1, <2>2, <2>3
  <2> QED BY <2>4
<1>4. PICK n \in S : \A y \in S : n <= y
  <2>1. S \in SUBSET Nat
    BY NodesNat
  <2> QED BY <1>3, <2>1, LeastIn
<1>5. n \in A /\ Cardinality(Below(A, n)) >= i /\ Cardinality(Below(A, n)) \in Nat
  BY <1>4, BelowCard
<1>6. CASE Cardinality(Below(A, n)) = i
  BY <1>5, <1>6
<1>7. CASE Cardinality(Below(A, n)) > i
  <2>1. Below(A, n) # {} /\ Below(A, n) \in SUBSET Nodes /\ IsFiniteSet(Below(A, n))
    <3>1. Below(A, n) = {} => Cardinality(Below(A, n)) = 0
      BY FS_EmptySet
    <3> QED BY <1>5, <1>7, <3>1, BelowCard DEF Below
  <2>2. PICK p \in Below(A, n) : \A y \in Below(A, n) : y <= p
    BY <2>1, GreatestIn
  <2>3. p \in A /\ p < n /\ p \in Nat /\ n \in Nat
    BY <1>5, <2>2, NodesNat DEF Below
  <2>4. Below(A, p) = Below(A, n) \ {p}
    <3>1. \A y \in A : y \in Nat
      BY NodesNat
    <3>2. \A y \in A : y < p <=> y < n /\ y # p
      <4> TAKE y \in A
      <4>1. y < n => y <= p
        BY <2>2 DEF Below
      <4> QED BY <2>3, <3>1, <4>1
    <3> QED BY <3>2 DEF Below
  <2>5. Cardinality(Below(A, p)) = Cardinality(Below(A, n)) - 1
    <3>1. Cardinality(Below(A, n) \ {p}) = Cardinality(Below(A, n)) - 1
      BY <2>1, <2>2, FS_RemoveElement
    <3> QED BY <2>4, <3>1
  <2>6. p \in S
    BY <1>5, <1>7, <2>3, <2>5
  <2> QED BY <1>4, <2>3, <2>6
<1> QED BY <1>5, <1>6, <1>7

-----------------------------------------------------------------------------
(* Sequences without repetition.                                           *)

\* RemoveAt closes the gap.
LEMMA RemoveAtIs ==
  ASSUME NEW K, NEW s \in Seq(K), NEW i \in 1..Len(s)
  PROVE  /\ RemoveAt(s, i) \in Seq(K)
         /\ Len(RemoveAt(s, i)) = Len(s) - 1
         /\ \A j \in 1..(Len(s) - 1) : RemoveAt(s, i)[j] = IF j < i THEN s[j] ELSE s[j + 1]
<1> DEFINE a == SubSeq(s, 1, i - 1)
           b == SubSeq(s, i + 1, Len(s))
<1>1. /\ a \in Seq(K) /\ Len(a) = i - 1 /\ \A j \in 1..(i - 1) : a[j] = s[j]
      /\ i \in Nat /\ Len(s) \in Nat /\ 1 <= i /\ i <= Len(s)
  OBVIOUS
<1>2. /\ b \in Seq(K) /\ Len(b) = Len(s) - i
      /\ \A j \in 1..(Len(s) - i) : b[j] = s[i + j]
  OBVIOUS
<1>3. RemoveAt(s, i) = a \o b
  BY DEF RemoveAt
<1> HIDE DEF a, b
<1>4. /\ a \o b \in Seq(K) /\ Len(a \o b) = Len(a) + Len(b)
      /\ \A j \in 1..(Len(a) + Len(b)) : (a \o b)[j] = IF j <= Len(a) THEN a[j] ELSE b[j - Len(a)]
  BY <1>1, <1>2, ConcatProperties
<1>5. Len(a) + Len(b) = Len(s) - 1
  BY <1>1, <1>2
<1>6. ASSUME NEW j \in 1..(Len(s) - 1) PROVE (a \o b)[j] = IF j < i THEN s[j] ELSE s[j + 1]
  <2>1. CASE j < i
    <3>1. j <= Len(a) /\ j \in 1..(i - 1)
      BY <1>1, <2>1
    <3> QED BY <1>1, <1>4, <1>5, <2>1, <3>1
  <2>2. CASE ~(j < i)
    <3>1. ~(j <= Len(a)) /\ j - Len(a) \in 1..(Len(s) - i) /\ i + (j - Len(a)) = j + 1
      BY <1>1, <2>2
    <3>2. (a \o b)[j] = b[j - Len(a)]
      BY <1>4, <1>5, <3>1
    <3> QED BY <1>2, <2>2, <3>1, <3>2
  <2> QED BY <2>1, <2>2
<1> QED BY <1>3, <1>4, <1>5, <1>6

\* RemoveFirst takes the key out of the order, and only the key.
LEMMA RemoveFirstIs ==
  ASSUME NEW K, NEW s \in Seq(K), IsInjective(s), NEW k
  PROVE  LET t == RemoveFirst(s, k) IN
         /\ t \in Seq(K)
         /\ IsInjective(t)
         /\ ToSet(t) = ToSet(s) \ {k}
         /\ Len(t) = IF k \in ToSet(s) THEN Len(s) - 1 ELSE Len(s)
<1>1. CASE ~ \E i \in 1..Len(s) : s[i] = k
  BY <1>1 DEF RemoveFirst, ToSet
<1>2. CASE \E i \in 1..Len(s) : s[i] = k
  <2> DEFINE I == {i \in 1..Len(s) : s[i] = k}
  <2>1. PICK z \in I : \A y \in I : z <= y
    <3>1. I \in SUBSET Nat /\ I # {}
      BY <1>2
    <3> QED BY <3>1, LeastIn
  <2>2. Min(I) \in I
    BY <2>1 DEF Min
  <2>3. RemoveFirst(s, k) = RemoveAt(s, Min(I))
    BY <1>2, <2>2 DEF RemoveFirst, SelectInSeq
  <2> DEFINE m == Min(I)
             t == RemoveAt(s, m)
  <2>4. m \in 1..Len(s) /\ s[m] = k
    BY <2>2
  <2> HIDE DEF I, m
  <2>5. /\ t \in Seq(K) /\ Len(t) = Len(s) - 1
        /\ \A j \in 1..(Len(s) - 1) : t[j] = IF j < m THEN s[j] ELSE s[j + 1]
    BY <2>4, RemoveAtIs
  <2>6. \A j \in 1..Len(s) : s[j] = k => j = m
    BY <2>4 DEF IsInjective
  <2> HIDE DEF t
  <2>i. \A j, l \in 1..Len(s) : s[j] = s[l] => j = l
    BY DEF IsInjective
  <2>7. IsInjective(t)
    <3>1. SUFFICES ASSUME NEW j \in 1..Len(t), NEW l \in 1..Len(t), t[j] = t[l] PROVE j = l
      BY <2>5 DEF IsInjective
    <3> QED BY <2>4, <2>5, <2>i, <3>1
  <2>8. ASSUME NEW x \in ToSet(t) PROVE x \in ToSet(s) \ {k}
    <3>1. PICK j \in 1..Len(t) : x = t[j]
      BY <2>5, <2>8 DEF ToSet
    <3>2. x = IF j < m THEN s[j] ELSE s[j + 1]
      BY <3>1, <2>5
    <3>3. PICK l \in 1..Len(s) : l # m /\ x = s[l]
      <4>1. CASE j < m
        BY <4>1, <3>1, <3>2, <2>4, <2>5
      <4>2. CASE ~(j < m)
        <5>1. j + 1 \in 1..Len(s) /\ j + 1 # m
          BY <4>2, <3>1, <2>4, <2>5
        <5> QED BY <4>2, <5>1, <3>2
      <4> QED BY <4>1, <4>2
    <3>4. x # k /\ l \in DOMAIN s
      BY <3>3, <2>6
    <3> QED BY <3>3, <3>4 DEF ToSet
  <2>9. ASSUME NEW x \in ToSet(s) \ {k} PROVE x \in ToSet(t)
    <3>1. PICK j \in 1..Len(s) : x = s[j]
      BY <2>9 DEF ToSet
    <3>2. j # m
      BY <3>1, <2>4, <2>9
    <3>3. CASE j < m
      <4>1. j \in 1..Len(t) /\ t[j] = x
        BY <3>1, <3>3, <2>4, <2>5
      <4> QED BY <4>1, <2>5 DEF ToSet
    <3>4. CASE j > m
      <4>1. j - 1 \in 1..Len(t) /\ t[j - 1] = x
        BY <3>1, <3>4, <2>4, <2>5
      <4> QED BY <4>1, <2>5 DEF ToSet
    <3> QED BY <3>1, <3>2, <3>3, <3>4, <2>4
  <2>10. k \in ToSet(s)
    BY <2>4 DEF ToSet
  <2> QED BY <2>3, <2>5, <2>7, <2>8, <2>9, <2>10 DEF t, m
<1> QED BY <1>1, <1>2

\* touchLocked makes k the youngest and keeps the rest.
LEMMA TouchIs ==
  ASSUME NEW K, NEW s \in Seq(K), IsInjective(s), NEW k \in K
  PROVE  /\ Touch(s, k) \in Seq(K)
         /\ IsInjective(Touch(s, k))
         /\ ToSet(Touch(s, k)) = ToSet(s) \cup {k}
         /\ Len(Touch(s, k)) = IF k \in ToSet(s) THEN Len(s) ELSE Len(s) + 1
<1> DEFINE t == RemoveFirst(s, k)
<1>1. /\ t \in Seq(K) /\ IsInjective(t) /\ ToSet(t) = ToSet(s) \ {k}
      /\ Len(t) = IF k \in ToSet(s) THEN Len(s) - 1 ELSE Len(s)
  BY RemoveFirstIs
<1>2. Touch(s, k) = Append(t, k)
  BY DEF Touch
<1> HIDE DEF t
<1> DEFINE u == Append(t, k)
<1>3. /\ u \in Seq(K) /\ Len(u) = Len(t) + 1 /\ u[Len(t) + 1] = k
      /\ \A j \in 1..Len(t) : u[j] = t[j]
  BY <1>1
<1> HIDE DEF u
<1>4. \A j \in 1..Len(t) : t[j] # k
  <2>1. \A j \in DOMAIN t : t[j] \in ToSet(t)
    BY DEF ToSet
  <2> QED BY <1>1, <2>1
<1>5. IsInjective(u)
  <2>1. SUFFICES ASSUME NEW j \in 1..(Len(t) + 1), NEW l \in 1..(Len(t) + 1), u[j] = u[l]
                 PROVE  j = l
    BY <1>3 DEF IsInjective
  <2>2. \A a, b \in 1..Len(t) : t[a] = t[b] => a = b
    BY <1>1 DEF IsInjective
  <2> QED BY <1>1, <1>3, <1>4, <2>1, <2>2
<1>6. ToSet(u) = ToSet(t) \cup {k}
  <2>1. DOMAIN u = 1..(Len(t) + 1) /\ DOMAIN t = 1..Len(t) /\ Len(t) \in Nat
    BY <1>1, <1>3
  <2>2. ASSUME NEW x \in ToSet(u) PROVE x \in ToSet(t) \cup {k}
    BY <2>1, <2>2, <1>3 DEF ToSet
  <2>3. ASSUME NEW x \in ToSet(t) PROVE x \in ToSet(u)
    BY <2>1, <2>3, <1>3 DEF ToSet
  <2>4. k \in ToSet(u)
    BY <2>1, <1>3 DEF ToSet
  <2> QED BY <2>2, <2>3, <2>4
<1>7. Len(s) \in Nat /\ Len(u) = IF k \in ToSet(s) THEN Len(s) ELSE Len(s) + 1
  BY <1>1, <1>3
<1> QED BY <1>1, <1>2, <1>3, <1>5, <1>6, <1>7 DEF u

\* Where RemoveFirst closes the gap.
LEMMA RemoveFirstAt ==
  ASSUME NEW K, NEW s \in Seq(K), IsInjective(s), NEW k
  PROVE  LET t == RemoveFirst(s, k) IN
         \/ k \notin ToSet(s) /\ t = s
         \/ \E m \in 1..Len(s) :
              /\ s[m] = k /\ Len(t) = Len(s) - 1
              /\ \A j \in 1..(Len(s) - 1) : t[j] = IF j < m THEN s[j] ELSE s[j + 1]
<1>1. CASE ~ \E i \in 1..Len(s) : s[i] = k
  BY <1>1 DEF RemoveFirst, ToSet
<1>2. CASE \E i \in 1..Len(s) : s[i] = k
  <2> DEFINE I == {i \in 1..Len(s) : s[i] = k}
  <2>1. PICK z \in I : \A y \in I : z <= y
    <3>1. I \in SUBSET Nat /\ I # {}
      BY <1>2
    <3> QED BY <3>1, LeastIn
  <2>2. Min(I) \in I
    BY <2>1 DEF Min
  <2>3. RemoveFirst(s, k) = RemoveAt(s, Min(I))
    BY <1>2, <2>2 DEF RemoveFirst, SelectInSeq
  <2> QED BY <2>2, <2>3, RemoveAtIs
<1> QED BY <1>1, <1>2

\* A sequence lists conversations by age, oldest first: the ones after a place are
\* the ones used since.
Ranked(s, a) ==
  \A i \in 1..Len(s) : \A x : x \in a[s[i]] <=> \E j \in 1..Len(s) : i < j /\ x = s[j]

\* Touching a conversation, when it is used, keeps them by age;
LEMMA RankedTouch ==
  ASSUME NEW K, NEW s \in Seq(K), IsInjective(s), NEW k \in K, NEW a, Ranked(s, a)
  PROVE  Ranked(Touch(s, k), [m \in K |-> IF m = k THEN {} ELSE a[m] \cup {k}])
<1> DEFINE t == RemoveFirst(s, k)
           u == Append(t, k)
           b == [m \in K |-> IF m = k THEN {} ELSE a[m] \cup {k}]
<1>1. /\ t \in Seq(K) /\ IsInjective(t) /\ ToSet(t) = ToSet(s) \ {k}
  BY RemoveFirstIs
<1>2. \/ k \notin ToSet(s) /\ t = s
      \/ \E m \in 1..Len(s) :
           /\ s[m] = k /\ Len(t) = Len(s) - 1
           /\ \A j \in 1..(Len(s) - 1) : t[j] = IF j < m THEN s[j] ELSE s[j + 1]
  BY RemoveFirstAt
<1> HIDE DEF t
<1>3. Len(s) \in Nat /\ Len(t) \in Nat
  BY <1>1
<1>4. ASSUME NEW i \in 1..Len(t), NEW x, x # k
      PROVE  x \in a[t[i]] <=> \E j \in 1..Len(t) : i < j /\ x = t[j]
  <2>1. CASE t = s
    BY <2>1, <1>4 DEF Ranked
  <2>2. ASSUME NEW m \in 1..Len(s), s[m] = k, Len(t) = Len(s) - 1,
               \A j \in 1..(Len(s) - 1) : t[j] = IF j < m THEN s[j] ELSE s[j + 1]
        PROVE  x \in a[t[i]] <=> \E j \in 1..Len(t) : i < j /\ x = t[j]
    <3> DEFINE o == IF i < m THEN i ELSE i + 1
    <3>1. o \in 1..Len(s) /\ t[i] = s[o] /\ o # m /\ i <= o
      BY <1>3, <2>2
    <3>2. x \in a[t[i]] <=> \E l \in 1..Len(s) : o < l /\ x = s[l]
      BY <3>1 DEF Ranked
    <3>3. ASSUME NEW l \in 1..Len(s), o < l, x = s[l]
          PROVE  \E j \in 1..Len(t) : i < j /\ x = t[j]
      <4>1. l # m
        BY <1>4, <2>2, <3>3
      <4>2. CASE l < m
        <5>1. l \in 1..Len(t) /\ i < l /\ t[l] = x
          BY <1>3, <2>2, <3>3, <4>2
        <5> QED BY <5>1
      <4>3. CASE l > m
        <5>1. l - 1 \in 1..Len(t) /\ i < l - 1 /\ t[l - 1] = s[(l - 1) + 1] /\ (l - 1) + 1 = l
          BY <1>3, <2>2, <3>3, <4>3
        <5> QED BY <3>3, <5>1
      <4> QED BY <4>1, <4>2, <4>3
    <3>4. ASSUME NEW j \in 1..Len(t), i < j, x = t[j]
          PROVE  \E l \in 1..Len(s) : o < l /\ x = s[l]
      <4>1. CASE j < m
        BY <1>3, <2>2, <3>4, <4>1
      <4>2. CASE ~(j < m)
        <5>1. j + 1 \in 1..Len(s) /\ o < j + 1 /\ t[j] = s[j + 1]
          BY <1>3, <2>2, <3>4, <4>2
        <5> QED BY <3>4, <5>1
      <4> QED BY <4>1, <4>2
    <3> QED BY <3>2, <3>3, <3>4
  <2> QED BY <1>2, <2>1, <2>2
<1>5. \A j \in 1..Len(t) : t[j] # k /\ t[j] \in K
  <2>1. \A j \in 1..Len(t) : t[j] \in ToSet(t)
    BY <1>1 DEF ToSet
  <2> QED BY <1>1, <2>1
<1>6. /\ u \in Seq(K) /\ Len(u) = Len(t) + 1 /\ u[Len(t) + 1] = k
      /\ \A j \in 1..Len(t) : u[j] = t[j]
  BY <1>1
<1> HIDE DEF u
<1>7. b[k] = {} /\ \A y \in K : y # k => b[y] = a[y] \cup {k}
  OBVIOUS
<1> HIDE DEF b
<1>8. ASSUME NEW i \in 1..Len(u), NEW x
      PROVE  x \in b[u[i]] <=> \E j \in 1..Len(u) : i < j /\ x = u[j]
  <2>1. CASE i = Len(t) + 1
    <3>1. u[i] = k /\ ~ \E j \in 1..Len(u) : i < j
      BY <1>3, <1>6, <2>1
    <3> QED BY <1>7, <3>1
  <2>2. CASE i # Len(t) + 1
    <3>1. i \in 1..Len(t) /\ u[i] = t[i]
      BY <1>3, <1>6, <2>2
    <3>2. b[u[i]] = a[t[i]] \cup {k}
      BY <1>5, <1>7, <3>1
    <3>3. CASE x = k
      <4>1. Len(t) + 1 \in 1..Len(u) /\ i < Len(t) + 1 /\ x = u[Len(t) + 1]
        BY <1>3, <1>6, <3>1, <3>3
      <4> QED BY <3>2, <3>3, <4>1
    <3>4. CASE x # k
      <4>1. x \in b[u[i]] <=> \E j \in 1..Len(t) : i < j /\ x = t[j]
        BY <1>4, <3>1, <3>2, <3>4
      <4>2. ASSUME NEW j \in 1..Len(t), i < j, x = t[j]
            PROVE  \E l \in 1..Len(u) : i < l /\ x = u[l]
        <5>1. j \in 1..Len(u) /\ u[j] = x
          BY <1>3, <1>6, <4>2
        <5> QED BY <4>2, <5>1
      <4>3. ASSUME NEW j \in 1..Len(u), i < j, x = u[j]
            PROVE  \E l \in 1..Len(t) : i < l /\ x = t[l]
        <5>1. j # Len(t) + 1
          BY <1>6, <3>4, <4>3
        <5>2. j \in 1..Len(t) /\ t[j] = x
          BY <1>3, <1>6, <4>3, <5>1
        <5> QED BY <4>3, <5>2
      <4> QED BY <4>1, <4>2, <4>3
    <3> QED BY <3>3, <3>4
  <2> QED BY <2>1, <2>2
<1>9. Touch(s, k) = u
  BY DEF Touch, t, u
<1>10. Ranked(u, b)
  BY <1>8 DEF Ranked
<1>11. Ranked(Touch(s, k), b)
  BY <1>9, <1>10
<1> QED BY <1>11 DEF b

\* the oldest one is out of them all, and without it they still are by age.
LEMMA RankedTail ==
  ASSUME NEW K, NEW s \in Seq(K), s # <<>>, NEW a, Ranked(s, a)
  PROVE  Ranked(Tail(s), a) /\ \A j \in 1..Len(Tail(s)) : Tail(s)[j] \in a[Head(s)]
<1> DEFINE t == Tail(s)
<1>1. /\ t \in Seq(K) /\ Len(t) = Len(s) - 1 /\ Head(s) = s[1] /\ Len(s) \in Nat \ {0}
      /\ \A j \in 1..(Len(s) - 1) : t[j] = s[j + 1]
  OBVIOUS
<1> HIDE DEF t
<1>2. ASSUME NEW i \in 1..Len(t), NEW x
      PROVE  x \in a[t[i]] <=> \E j \in 1..Len(t) : i < j /\ x = t[j]
  <2>1. i + 1 \in 1..Len(s) /\ t[i] = s[i + 1]
    BY <1>1
  <2>2. x \in a[t[i]] <=> \E l \in 1..Len(s) : i + 1 < l /\ x = s[l]
    BY <2>1 DEF Ranked
  <2>3. ASSUME NEW l \in 1..Len(s), i + 1 < l, x = s[l]
        PROVE  \E j \in 1..Len(t) : i < j /\ x = t[j]
    <3>1. l - 1 \in 1..Len(t) /\ i < l - 1 /\ t[l - 1] = s[(l - 1) + 1] /\ (l - 1) + 1 = l
      BY <1>1, <2>3
    <3> QED BY <2>3, <3>1
  <2>4. ASSUME NEW j \in 1..Len(t), i < j, x = t[j]
        PROVE  \E l \in 1..Len(s) : i + 1 < l /\ x = s[l]
    <3>1. j + 1 \in 1..Len(s) /\ i + 1 < j + 1 /\ t[j] = s[j + 1]
      BY <1>1, <2>4
    <3> QED BY <2>4, <3>1
  <2> QED BY <2>2, <2>3, <2>4
<1>3. ASSUME NEW j \in 1..Len(t) PROVE t[j] \in a[Head(s)]
  <2>1. j + 1 \in 1..Len(s) /\ 1 \in 1..Len(s) /\ 1 < j + 1 /\ t[j] = s[j + 1] /\ Head(s) = s[1]
    BY <1>1
  <2> QED BY <2>1 DEF Ranked
<1> QED BY <1>2, <1>3 DEF Ranked, t

\* A sequence without repetition has as many elements as places.
LEMMA InjectiveCard ==
  ASSUME NEW K, NEW s \in Seq(K), IsInjective(s)
  PROVE  IsFiniteSet(ToSet(s)) /\ Cardinality(ToSet(s)) = Len(s)
<1>1. DOMAIN s = 1..Len(s) /\ Len(s) \in Nat /\ s \in [1..Len(s) -> K]
  OBVIOUS
<1>2. s \in [1..Len(s) -> ToSet(s)]
  BY <1>1 DEF ToSet
<1>3. s \in Bijection(1..Len(s), ToSet(s))
  BY <1>1, <1>2 DEF Bijection, Injection, Surjection, ToSet
<1>4. ExistsBijection(1..Len(s), ToSet(s))
  BY <1>3 DEF ExistsBijection
<1>5. Cardinality(ToSet(s)) = Len(s)
  BY <1>1, <1>4, FS_CountingElements
<1>6. IsFiniteSet(ToSet(s))
  <2>1. IsFiniteSet(1..Len(s))
    BY <1>1, FS_Interval
  <2>2. s \in Surjection(1..Len(s), ToSet(s))
    BY <1>3 DEF Bijection
  <2> QED BY <2>1, <2>2, FS_Surjection DEF ExistsSurjection
<1> QED BY <1>5, <1>6

\* The eviction takes the oldest conversation off, and no other.
LEMMA TailIs ==
  ASSUME NEW K, NEW s \in Seq(K), IsInjective(s), s # <<>>
  PROVE  /\ Tail(s) \in Seq(K) /\ IsInjective(Tail(s)) /\ Len(Tail(s)) = Len(s) - 1
         /\ Head(s) \in K /\ ToSet(Tail(s)) = ToSet(s) \ {Head(s)}
<1> DEFINE t == Tail(s)
<1>1. /\ t \in Seq(K) /\ Len(t) = Len(s) - 1 /\ Head(s) = s[1] /\ Len(s) \in Nat \ {0}
      /\ \A j \in 1..(Len(s) - 1) : t[j] = s[j + 1]
  OBVIOUS
<1> HIDE DEF t
<1>2. \A a, b \in 1..Len(s) : s[a] = s[b] => a = b
  BY DEF IsInjective
<1>3. IsInjective(t)
  <2>1. SUFFICES ASSUME NEW j \in 1..(Len(s) - 1), NEW l \in 1..(Len(s) - 1), t[j] = t[l]
                 PROVE  j = l
    BY <1>1 DEF IsInjective
  <2> QED BY <1>1, <1>2, <2>1
<1>4. DOMAIN t = 1..(Len(s) - 1) /\ DOMAIN s = 1..Len(s)
  BY <1>1
<1>5. ASSUME NEW x \in ToSet(t) PROVE x \in ToSet(s) \ {Head(s)}
  <2>1. PICK j \in 1..(Len(s) - 1) : x = t[j]
    BY <1>4, <1>5 DEF ToSet
  <2>2. x = s[j + 1] /\ j + 1 \in 1..Len(s) /\ j + 1 # 1 /\ 1 \in 1..Len(s)
    BY <1>1, <2>1
  <2> QED BY <1>1, <1>2, <1>4, <2>2 DEF ToSet
<1>6. ASSUME NEW x \in ToSet(s) \ {Head(s)} PROVE x \in ToSet(t)
  <2>1. PICK j \in 1..Len(s) : x = s[j]
    BY <1>4, <1>6 DEF ToSet
  <2>2. j - 1 \in 1..(Len(s) - 1) /\ t[j - 1] = x
    BY <1>1, <1>6, <2>1
  <2> QED BY <1>4, <2>2 DEF ToSet
<1>7. Head(s) \in K
  BY <1>1
<1> QED BY <1>1, <1>3, <1>5, <1>6, <1>7 DEF t

-----------------------------------------------------------------------------
(* The sticky map.                                                         *)

StickyType ==
  /\ sticky \in [Keys -> Nodes \cup {0}]
  /\ order \in Seq(Keys)
  /\ since \in [Keys -> SUBSET Keys]

\* The order lists exactly the conversations that have an engine, each once.
Listed ==
  /\ IsInjective(order)
  /\ ToSet(order) = {k \in Keys : sticky[k] # 0}
  /\ Len(order) <= StickyCap

\* It lists them by age, and whatever was evicted is older than all of them.
Aged ==
  /\ Ranked(order, since)
  /\ \A k \in Keys : IsFiniteSet(since[k])
  /\ \A k \in Keys : sticky[k] = 0 /\ k \notin since[k] =>
       Len(order) = StickyCap /\ ToSet(order) \subseteq since[k]

StickyOK == Listed /\ Aged

\* What the use of a conversation does to the ages.
LEMMA UseIs ==
  ASSUME StickyType, Aged, NEW k \in Keys, Use(k)
  PROVE  /\ since' = [m \in Keys |-> IF m = k THEN {} ELSE since[m] \cup {k}]
         /\ since' \in [Keys -> SUBSET Keys]
         /\ since'[k] = {} /\ \A m \in Keys : m # k => since'[m] = since[m] \cup {k}
         /\ \A m \in Keys : IsFiniteSet(since'[m])
<1>1. since' = [m \in Keys |-> IF m = k THEN {} ELSE since[m] \cup {k}]
  BY DEF Use
<1>2. since'[k] = {} /\ \A m \in Keys : m # k => since'[m] = since[m] \cup {k}
  BY <1>1
<1>3. since' \in [Keys -> SUBSET Keys]
  BY <1>1 DEF StickyType
<1>4. ASSUME NEW m \in Keys PROVE IsFiniteSet(since'[m])
  <2>1. IsFiniteSet(since[m])
    BY DEF Aged
  <2>2. IsFiniteSet(since[m] \cup {k})
    BY <2>1, FS_AddElement
  <2> QED BY <1>2, <2>2, FS_EmptySet
<1> QED BY <1>1, <1>2, <1>3, <1>4

\* touchLocked keeps the order,
LEMMA TouchKept ==
  ASSUME StickyType, StickyOK, NEW k \in Keys, sticky[k] # 0, Use(k),
         order' = Touch(order, k), sticky' = sticky
  PROVE  StickyType' /\ StickyOK'
<1>1. /\ order \in Seq(Keys) /\ IsInjective(order) /\ k \in ToSet(order)
      /\ ToSet(order) = {x \in Keys : sticky[x] # 0} /\ Len(order) <= StickyCap
      /\ Ranked(order, since)
  BY DEF StickyType, StickyOK, Listed, Aged
<1>2. /\ Touch(order, k) \in Seq(Keys) /\ IsInjective(Touch(order, k))
      /\ ToSet(Touch(order, k)) = ToSet(order) /\ Len(Touch(order, k)) = Len(order)
  <2>1. /\ Touch(order, k) \in Seq(Keys) /\ IsInjective(Touch(order, k))
        /\ ToSet(Touch(order, k)) = ToSet(order) \cup {k}
        /\ Len(Touch(order, k)) = IF k \in ToSet(order) THEN Len(order) ELSE Len(order) + 1
    BY <1>1, TouchIs
  <2>2. ToSet(order) \cup {k} = ToSet(order)
    BY <1>1
  <2> QED BY <1>1, <2>1, <2>2
<1>3. /\ since' = [m \in Keys |-> IF m = k THEN {} ELSE since[m] \cup {k}]
      /\ since' \in [Keys -> SUBSET Keys]
      /\ since'[k] = {} /\ \A m \in Keys : m # k => since'[m] = since[m] \cup {k}
      /\ \A m \in Keys : IsFiniteSet(since'[m])
  BY UseIs DEF StickyOK
<1>4. Ranked(order', since')
  BY <1>1, <1>3, RankedTouch
<1>5. StickyType'
  BY <1>2, <1>3 DEF StickyType
<1>6. Listed'
  BY <1>1, <1>2 DEF Listed
<1>7. ASSUME NEW m \in Keys, sticky'[m] = 0, m \notin since'[m]
      PROVE  Len(order') = StickyCap /\ ToSet(order') \subseteq since'[m]
  <2>1. m # k /\ since'[m] = since[m] \cup {k} /\ m \notin since[m] /\ sticky[m] = 0
    BY <1>3, <1>7
  <2>2. Len(order) = StickyCap /\ ToSet(order) \subseteq since[m]
    BY <2>1 DEF StickyOK, Aged
  <2> QED BY <1>2, <2>1, <2>2
<1>8. Aged'
  BY <1>3, <1>4, <1>7 DEF Aged
<1> QED BY <1>5, <1>6, <1>8 DEF StickyOK

\* and so does a new binding, the eviction included.
LEMMA SetKept ==
  ASSUME StickyType, StickyOK, NEW k \in Keys, NEW n \in Nodes, Set(k, n)
  PROVE  StickyType' /\ StickyOK'
<1>0. n # 0 /\ StickyCap \in Nat \ {0}
  BY BalancerAssumption DEF Nodes
<1>1. /\ order \in Seq(Keys) /\ IsInjective(order) /\ sticky \in [Keys -> Nodes \cup {0}]
      /\ ToSet(order) = {x \in Keys : sticky[x] # 0} /\ Len(order) <= StickyCap
      /\ Len(order) \in Nat /\ Ranked(order, since)
  BY DEF StickyType, StickyOK, Listed, Aged
<1>u. /\ since' = [m \in Keys |-> IF m = k THEN {} ELSE since[m] \cup {k}]
      /\ since' \in [Keys -> SUBSET Keys]
      /\ since'[k] = {} /\ \A m \in Keys : m # k => since'[m] = since[m] \cup {k}
      /\ \A m \in Keys : IsFiniteSet(since'[m])
  BY UseIs DEF StickyOK, Set
<1>a. \A m \in Keys : sticky[m] = 0 /\ m \notin since[m] =>
        Len(order) = StickyCap /\ ToSet(order) \subseteq since[m]
  BY DEF StickyOK, Aged
<1>2. CASE sticky[k] = 0 /\ Len(order) >= StickyCap
  <2> DEFINE h == Head(order)
             t == Tail(order)
  <2>1. order # <<>>
    BY <1>0, <1>1, <1>2
  <2>2. /\ t \in Seq(Keys) /\ IsInjective(t) /\ Len(t) = Len(order) - 1
        /\ h \in Keys /\ ToSet(t) = ToSet(order) \ {h}
    BY <1>1, <2>1, TailIs
  <2>3. sticky' = [sticky EXCEPT ![h] = 0, ![k] = n] /\ order' = Touch(t, k)
    BY <1>2 DEF Set
  <2>r. Ranked(t, since) /\ \A j \in 1..Len(t) : t[j] \in since[h]
    BY <1>1, <2>1, RankedTail
  <2> HIDE DEF h, t
  <2>4. k \notin ToSet(t)
    BY <1>1, <1>2, <2>2
  <2>5. /\ Touch(t, k) \in Seq(Keys) /\ IsInjective(Touch(t, k))
        /\ ToSet(Touch(t, k)) = ToSet(t) \cup {k} /\ Len(Touch(t, k)) = Len(t) + 1
    BY <2>2, <2>4, TouchIs
  <2>6. /\ sticky' \in [Keys -> Nodes \cup {0}]
        /\ \A x \in Keys : sticky'[x] = IF x = k THEN n ELSE IF x = h THEN 0 ELSE sticky[x]
    BY <1>1, <2>2, <2>3
  <2>7. {x \in Keys : sticky'[x] # 0} = ToSet(t) \cup {k}
    BY <1>0, <1>1, <2>2, <2>6
  <2>8. StickyType'
    BY <1>u, <2>3, <2>5, <2>6 DEF StickyType
  <2>9. Len(order') <= StickyCap /\ Len(order') = StickyCap
    BY <1>0, <1>1, <1>2, <2>2, <2>3, <2>5
  <2>10. Listed'
    BY <2>3, <2>5, <2>7, <2>9 DEF Listed
  <2>11. Ranked(order', since')
    BY <1>u, <2>2, <2>3, <2>r, RankedTouch
  <2>12. ToSet(t) \subseteq since[h]
    BY <2>2, <2>r DEF ToSet
  <2>13. ASSUME NEW m \in Keys, sticky'[m] = 0, m \notin since'[m]
         PROVE  ToSet(order') \subseteq since'[m]
    <3>1. m # k /\ since'[m] = since[m] \cup {k} /\ m \notin since[m]
      BY <1>0, <1>u, <2>6, <2>13
    <3>2. ToSet(t) \subseteq since[m]
      <4>1. CASE m = h
        BY <2>12, <4>1
      <4>2. CASE m # h
        <5>1. sticky[m] = 0
          BY <2>6, <2>13, <3>1, <4>2
        <5> QED BY <1>a, <2>2, <3>1, <5>1
      <4> QED BY <4>1, <4>2
    <3> QED BY <2>3, <2>5, <3>1, <3>2
  <2>14. Aged'
    BY <1>u, <2>9, <2>11, <2>13 DEF Aged
  <2> QED BY <2>8, <2>10, <2>14 DEF StickyOK
<1>3. CASE ~(sticky[k] = 0 /\ Len(order) >= StickyCap)
  <2>1. sticky' = [sticky EXCEPT ![k] = n] /\ order' = Touch(order, k)
    BY <1>3 DEF Set
  <2>2. /\ Touch(order, k) \in Seq(Keys) /\ IsInjective(Touch(order, k))
        /\ ToSet(Touch(order, k)) = ToSet(order) \cup {k}
        /\ Len(Touch(order, k)) = IF k \in ToSet(order) THEN Len(order) ELSE Len(order) + 1
    BY <1>1, TouchIs
  <2>3. /\ sticky' \in [Keys -> Nodes \cup {0}]
        /\ \A x \in Keys : sticky'[x] = IF x = k THEN n ELSE sticky[x]
    BY <1>1, <2>1
  <2>4. {x \in Keys : sticky'[x] # 0} = ToSet(order) \cup {k}
    BY <1>0, <1>1, <2>3
  <2>5. k \in ToSet(order) <=> sticky[k] # 0
    BY <1>1
  <2>6. Len(order') <= StickyCap
    BY <1>0, <1>1, <1>3, <2>1, <2>2, <2>5
  <2>7. StickyType'
    BY <1>u, <2>1, <2>2, <2>3 DEF StickyType
  <2>8. Listed'
    BY <2>1, <2>2, <2>4, <2>6 DEF Listed
  <2>9. Ranked(order', since')
    BY <1>1, <1>u, <2>1, RankedTouch
  <2>10. ASSUME NEW m \in Keys, sticky'[m] = 0, m \notin since'[m]
         PROVE  Len(order') = StickyCap /\ ToSet(order') \subseteq since'[m]
    <3>1. m # k /\ since'[m] = since[m] \cup {k} /\ m \notin since[m] /\ sticky[m] = 0
      BY <1>0, <1>u, <2>3, <2>10
    <3>2. Len(order) = StickyCap /\ ToSet(order) \subseteq since[m]
      BY <1>a, <3>1
    <3>3. sticky[k] # 0
      BY <1>0, <1>3, <3>2
    <3> QED BY <2>1, <2>2, <2>5, <3>1, <3>2, <3>3
  <2>11. Aged'
    BY <1>u, <2>9, <2>10 DEF Aged
  <2> QED BY <2>7, <2>8, <2>11 DEF StickyOK
<1> QED BY <1>2, <1>3

\* An order by age, and nothing evicted that is younger, make the least recently
\* used ones the ones that have no engine.
LEMMA AgedIsLRU == StickyType /\ StickyOK => StickyIsLRU
<1> SUFFICES ASSUME StickyType, StickyOK, NEW k \in Keys
             PROVE  sticky[k] # 0 <=> k \notin since[k] /\ Cardinality(since[k]) < StickyCap
  BY DEF StickyIsLRU
<1>1. /\ order \in Seq(Keys) /\ IsInjective(order) /\ Len(order) \in Nat
      /\ ToSet(order) = {x \in Keys : sticky[x] # 0} /\ Len(order) <= StickyCap
      /\ StickyCap \in Nat /\ IsFiniteSet(since[k]) /\ Ranked(order, since)
  BY BalancerAssumption DEF StickyType, StickyOK, Listed, Aged
<1>2. /\ IsFiniteSet(ToSet(order)) /\ Cardinality(ToSet(order)) = Len(order)
      /\ Cardinality(since[k]) \in Nat
  BY <1>1, InjectiveCard, FS_CardinalityType
<1>3. CASE sticky[k] # 0
  <2>1. PICK i \in 1..Len(order) : k = order[i]
    <3>1. k \in ToSet(order)
      BY <1>1, <1>3
    <3> QED BY <1>1, <3>1 DEF ToSet
  <2>2. \A x : x \in since[k] <=> \E j \in 1..Len(order) : i < j /\ x = order[j]
    BY <1>1, <2>1 DEF Ranked
  <2>3. k \notin since[k]
    <3>1. \A j \in 1..Len(order) : order[j] = order[i] => j = i
      BY <1>1 DEF IsInjective
    <3> QED BY <2>1, <2>2, <3>1
  <2>4. since[k] \in SUBSET ToSet(order) /\ since[k] # ToSet(order)
    <3>1. \A j \in 1..Len(order) : order[j] \in ToSet(order)
      BY <1>1 DEF ToSet
    <3> QED BY <2>1, <2>2, <2>3, <3>1
  <2>5. /\ Cardinality(since[k]) <= Cardinality(ToSet(order))
        /\ Cardinality(ToSet(order)) # Cardinality(since[k])
    BY <1>2, <2>4, FS_Subset
  <2> QED BY <1>1, <1>2, <1>3, <2>3, <2>5
<1>4. CASE sticky[k] = 0
  <2>1. SUFFICES ASSUME k \notin since[k] PROVE ~(Cardinality(since[k]) < StickyCap)
    BY <1>4
  <2>2. Len(order) = StickyCap /\ ToSet(order) \in SUBSET since[k]
    BY <1>4, <2>1 DEF StickyOK, Aged
  <2>3. Cardinality(ToSet(order)) <= Cardinality(since[k])
    BY <1>1, <2>2, FS_Subset
  <2> QED BY <1>1, <1>2, <2>2, <2>3
<1> QED BY <1>3, <1>4

-----------------------------------------------------------------------------
(* The choice of an engine.                                                *)

\* There is a least loaded engine, and chooseNode takes one that is not fenced.
LEMMA BestIsAvailable ==
  ASSUME TypeOK, Available # {}
  PROVE  Best \in Available
<1>1. /\ Available \in SUBSET Nodes /\ \A n \in Available : n \in Nat
      /\ \A n \in Available : tokens[n] \in Nat /\ inflight[n] \in Nat
  BY NodesNat DEF Available, TypeOK
<1>2. PICK t \in {tokens[n] : n \in Available} : \A u \in {tokens[n] : n \in Available} : t <= u
  <2>1. {tokens[n] : n \in Available} \in SUBSET Nat /\ {tokens[n] : n \in Available} # {}
    BY <1>1
  <2> QED BY <2>1, LeastIn
<1> DEFINE A == {n \in Available : tokens[n] = t}
<1>3. PICK c \in {inflight[n] : n \in A} : \A u \in {inflight[n] : n \in A} : c <= u
  <2>1. {inflight[n] : n \in A} \in SUBSET Nat /\ {inflight[n] : n \in A} # {}
    BY <1>1, <1>2
  <2> QED BY <2>1, LeastIn
<1> DEFINE B == {n \in A : inflight[n] = c}
<1>4. PICK n \in B : \A m \in B : n <= m
  <2>1. B \in SUBSET Nat /\ B # {}
    BY <1>1, <1>3
  <2> QED BY <2>1, LeastIn
<1>5. ASSUME NEW m \in Available PROVE LessLoaded(n, m)
  <2>1. n \in Available /\ tokens[n] = t /\ inflight[n] = c
    BY <1>4
  <2>2. t <= tokens[m]
    BY <1>2
  <2>3. tokens[m] = t => c <= inflight[m]
    BY <1>3
  <2>4. tokens[m] = t /\ inflight[m] = c => n <= m
    BY <1>4
  <2>5. t \in Nat /\ c \in Nat /\ tokens[m] \in Nat /\ inflight[m] \in Nat
    BY <1>1, <2>1
  <2> QED BY <2>1, <2>2, <2>3, <2>4, <2>5 DEF LessLoaded
<1>6. n \in Available
  BY <1>4
<1> QED BY <1>5, <1>6 DEF Best

\* The round robin lands on an engine that is available.
LEMMA AvailableAtIsAvailable ==
  ASSUME NEW i \in Nat, i < Cardinality(Available)
  PROVE  AvailableAt(i) \in Available
<1>1. Available \in SUBSET Nodes
  BY DEF Available
<1>2. \E n \in Available : Cardinality({m \in Available : m < n}) = i
  BY <1>1, RankExists DEF Below
<1> QED BY <1>2 DEF AvailableAt

\* So does chooseNode, sticky or not, and the LRU stays exact.
LEMMA ChooseNodeIs ==
  ASSUME TypeOK, StickyOK, NEW k \in Keys, NEW n \in Nodes, ChooseNode(k, n)
  PROVE  n \in Available /\ StickyType' /\ StickyOK' /\ rr' \in 0..(RRPeriod - 1)
<1>t. StickyType /\ rr \in 0..(RRPeriod - 1) /\ RRPeriod \in Nat \ {0}
  BY BalancerAssumption DEF TypeOK, StickyType
<1>1. CASE sticky[k] \in Available
  <2>1. /\ n \in Available /\ sticky' = sticky /\ order' = Touch(order, k) /\ rr' = rr
        /\ Use(k)
    BY <1>1 DEF ChooseNode
  <2>2. sticky[k] # 0
    BY <1>1, BalancerAssumption DEF Available, Nodes
  <2> QED BY <1>t, <2>1, <2>2, TouchKept
<1>2. CASE sticky[k] \notin Available
  <2>1. /\ Available # {} /\ Set(k, n)
        /\ n = IF AllIdle THEN AvailableAt(rr % Cardinality(Available)) ELSE Best
        /\ rr' = IF AllIdle THEN (rr + 1) % RRPeriod ELSE rr
    BY <1>2 DEF ChooseNode
  <2>2. StickyType' /\ StickyOK'
    BY <1>t, <2>1, SetKept
  <2>3. rr' \in 0..(RRPeriod - 1)
    BY <1>t, <2>1
  <2>4. CASE AllIdle
    <3>1. IsFiniteSet(Available)
      <4>1. IsFiniteSet(Nodes)
        BY FS_Interval, BalancerAssumption DEF Nodes
      <4> QED BY <4>1, FS_Subset DEF Available
    <3>2. Cardinality(Available) \in Nat /\ Cardinality(Available) > 1
      BY <2>4, <3>1, FS_CardinalityType DEF AllIdle
    <3>3. /\ rr % Cardinality(Available) \in Nat
          /\ rr % Cardinality(Available) < Cardinality(Available)
      BY <3>2, <1>t
    <3> QED BY <2>1, <2>2, <2>3, <2>4, <3>3, AvailableAtIsAvailable
  <2>5. CASE ~AllIdle
    BY <2>1, <2>2, <2>3, <2>5, BestIsAvailable
  <2> QED BY <2>4, <2>5
<1> QED BY <1>1, <1>2

-----------------------------------------------------------------------------
(* The requests.                                                           *)

Chosen == {"loop", "final", "claim", "hclaim", "served"}

\* A request has the fences it found and that still stand, and no engine of these.
Requested ==
  /\ pc \in [Requests -> Places]
  /\ req \in [Requests -> Request]
  /\ shut \in [Requests -> SUBSET Nodes]
  /\ \A r \in Requests : /\ shut[r] \subseteq excluded
                         /\ pc[r] \in Chosen => req[r].node \in Nodes \ shut[r]

EngineType ==
  /\ usable \in [Nodes -> Nat]
  /\ excluded \subseteq Nodes
  /\ inflight \in [Nodes -> Nat]
  /\ tokens \in [Nodes -> Nat]
  /\ rr \in 0..(RRPeriod - 1)

Booked ==
  \A n \in Nodes : /\ inflight[n] = Cardinality(Served(n))
                   /\ tokens[n] = Total(req, Served(n))

BalancerInv == EngineType /\ StickyType /\ StickyOK /\ Requested /\ Booked

\* The typed parts of the invariant make the type invariant.
LEMMA InvTypeOK == EngineType /\ StickyType /\ Requested => TypeOK
  BY DEF EngineType, StickyType, Requested, TypeOK, Chosen

\* What a request knows: when it leaves,
LEMMA LeaveRequested ==
  ASSUME Requested, NEW r \in Requests, Leave(r), excluded' = excluded
  PROVE  Requested'
<1>1. NoRequest \in Request
  BY BalancerAssumption DEF NoRequest, Request
<1>2. "idle" \in Places /\ "idle" \notin Chosen
  BY DEF Places, Chosen
<1> HIDE DEF NoRequest
<1> QED BY <1>1, <1>2 DEF Leave, Requested

\* when it moves on,
LEMMA GoToRequested ==
  ASSUME Requested, NEW r \in Requests, NEW place \in Places, GoTo(r, place),
         place \in Chosen => pc[r] \in Chosen, excluded' = excluded
  PROVE  Requested'
  BY DEF GoTo, Requested

\* when it comes,
LEMMA ArriveRequested ==
  ASSUME Requested, EngineType, NEW r \in Requests, NEW k \in Keys, NEW t \in Sizes,
         NEW n \in Nodes \cup {0}, NEW place \in Places, place \in Chosen => n \in Available,
         req' = [req EXCEPT ![r] = [key |-> k, tok |-> t, node |-> n]],
         pc' = [pc EXCEPT ![r] = place], shut' = [shut EXCEPT ![r] = excluded],
         excluded' = excluded
  PROVE  Requested'
<1> DEFINE new == [key |-> k, tok |-> t, node |-> n]
<1>1. new \in Request /\ new.node = n
  BY DEF Request
<1>2. req' = [req EXCEPT ![r] = new]
  OBVIOUS
<1> HIDE DEF new
<1> QED BY <1>1, <1>2 DEF Requested, EngineType, Available

\* when it is given another engine.
LEMMA NodeRequested ==
  ASSUME Requested, NEW r \in Requests, NEW n \in Available, NEW place \in Places,
         req' = [req EXCEPT ![r].node = n], pc' = [pc EXCEPT ![r] = place],
         UNCHANGED <<shut, excluded>>
  PROVE  Requested'
<1>1. n \in Nodes /\ n \notin excluded
  BY DEF Available
<1>2. req' \in [Requests -> Request] /\ req'[r].node = n
      /\ \A q \in Requests : q # r => req'[q] = req[q]
  BY <1>1 DEF Requested, Request
<1> QED BY <1>1, <1>2 DEF Requested

\* What an engine serves can be counted.
LEMMA ServedFinite ==
  ASSUME NEW n
  PROVE  IsFiniteSet(Served(n)) /\ Cardinality(Served(n)) \in Nat
<1>1. Served(n) \subseteq Requests
  BY DEF Served
<1> QED BY <1>1, BalancerAssumption, FS_Subset, FS_CardinalityType

\* Sizes are naturals.
LEMMA TokNat ==
  ASSUME Requested
  PROVE  \A r \in Requests : req[r].tok \in Nat
<1>1. \A r \in Requests : req[r].tok \in Sizes \cup {0}
  BY DEF Requested, Request
<1>2. Sizes \cup {0} \subseteq Nat
  BY BalancerAssumption
<1> QED BY <1>1, <1>2

\* A step that serves nobody and lets nobody go leaves the books alone.
LEMMA BookedFrame ==
  ASSUME Booked, Requested, UNCHANGED <<inflight, tokens>>,
         \A q \in Requests : pc'[q] = "served" <=> pc[q] = "served",
         \A q \in Requests : pc[q] = "served" => req'[q] = req[q]
  PROVE  Booked'
<1> SUFFICES ASSUME NEW n \in Nodes
             PROVE  /\ inflight[n] = Cardinality(Served(n)')
                    /\ tokens[n] = Total(req', Served(n)')
  BY DEF Booked, Total, MapThenSumSet, MapThenFoldSet
<1>1. Served(n)' = Served(n)
  BY DEF Served
<1>2. \A q \in Served(n) : req[q].tok = req'[q].tok
  BY DEF Served
<1>3. Total(req, Served(n)) = Total(req', Served(n))
  BY <1>2, ServedFinite, TotalSame
<1> QED BY <1>1, <1>3 DEF Booked

\* claimNode books what the request brings,
LEMMA ClaimBooked ==
  ASSUME Booked, Requested, EngineType, NEW r \in Requests, pc[r] \in {"claim", "hclaim"},
         ClaimNode(req[r].node, req[r].tok), GoTo(r, "served")
  PROVE  Booked' /\ inflight' \in [Nodes -> Nat] /\ tokens' \in [Nodes -> Nat]
<1> DEFINE m == req[r].node
           t == req[r].tok
<1>1. m \in Nodes /\ t \in Nat
  BY TokNat DEF Requested, Chosen
<1>2. /\ inflight' = [inflight EXCEPT ![m] = @ + 1]
      /\ tokens' = [tokens EXCEPT ![m] = @ + t]
  BY DEF ClaimNode
<1>3. /\ inflight' \in [Nodes -> Nat] /\ tokens' \in [Nodes -> Nat]
      /\ inflight'[m] = inflight[m] + 1 /\ tokens'[m] = tokens[m] + t
      /\ \A n \in Nodes : n # m => inflight'[n] = inflight[n] /\ tokens'[n] = tokens[n]
  BY <1>1, <1>2 DEF EngineType
<1>4. req' = req
  BY DEF GoTo
<1>5. ASSUME NEW n \in Nodes
      PROVE  Served(n)' = IF n = m THEN Served(n) \cup {r} ELSE Served(n)
  BY DEF Served, GoTo, Requested
<1>6. r \notin Served(m)
  BY DEF Served
<1>7. ASSUME NEW n \in Nodes
      PROVE  /\ inflight'[n] = Cardinality(Served(n)')
             /\ tokens'[n] = Total(req, Served(n)')
  <2>1. CASE n # m
    BY <1>3, <1>5, <2>1 DEF Booked
  <2>2. CASE n = m
    <3> DEFINE S == Served(m) \cup {r}
    <3>1. Served(n)' = S
      BY <1>5, <2>2
    <3>2. IsFiniteSet(Served(m)) /\ Cardinality(Served(m)) \in Nat
      BY ServedFinite
    <3>3. IsFiniteSet(S) /\ Cardinality(S) = Cardinality(Served(m)) + 1
      BY <1>6, <3>2, FS_AddElement
    <3>4. S \ {r} = Served(m) /\ r \in S /\ \A q \in S : req[q].tok \in Nat
      BY <1>6, TokNat DEF Served
    <3> HIDE DEF S
    <3>5. Total(req, S) = Total(req, Served(m)) + t
      BY <3>3, <3>4, TotalRemoves
    <3> QED BY <1>1, <1>3, <2>2, <3>1, <3>3, <3>5 DEF Booked
  <2> QED BY <2>1, <2>2
<1>8. Booked'
  <2>1. \A n \in Nodes : /\ inflight'[n] = Cardinality(Served(n)')
                         /\ tokens'[n] = Total(req', Served(n)')
    BY <1>4, <1>7
  <2> QED BY <2>1 DEF Booked, Total, MapThenSumSet, MapThenFoldSet
<1> QED BY <1>3, <1>8

\* and doneNode exactly that back.
LEMMA ReleaseBooked ==
  ASSUME Booked, Requested, EngineType, NEW r \in Requests, Release(r)
  PROVE  Booked' /\ inflight' \in [Nodes -> Nat] /\ tokens' \in [Nodes -> Nat]
<1> DEFINE m == req[r].node
           t == req[r].tok
           S == Served(m) \ {r}
<1>1. m \in Nodes /\ t \in Nat
  BY TokNat DEF Requested, Chosen, Release
<1>2. r \in Served(m)
  BY DEF Served, Release
<1>3. IsFiniteSet(Served(m)) /\ Cardinality(Served(m)) \in Nat
  BY ServedFinite
<1>4. IsFiniteSet(S) /\ Cardinality(S) = Cardinality(Served(m)) - 1 /\ Cardinality(S) \in Nat
  BY <1>2, <1>3, FS_RemoveElement, FS_CardinalityType
<1>5. Total(req, Served(m)) = Total(req, S) + t /\ Total(req, S) \in Nat
  <2>1. \A q \in Served(m) : req[q].tok \in Nat
    BY TokNat DEF Served
  <2> QED BY <1>2, <1>3, <1>4, <2>1, TotalRemoves, TotalType
<1>6. inflight[m] = Cardinality(Served(m)) /\ tokens[m] = Total(req, Served(m))
  BY <1>1 DEF Booked
<1>7. /\ inflight' = [inflight EXCEPT ![m] = IF @ < 1 THEN 0 ELSE @ - 1]
      /\ tokens' = [tokens EXCEPT ![m] = IF @ < t THEN 0 ELSE @ - t]
  BY DEF Release, ReleaseNode
<1>s. /\ \A n \in Nodes : Served(n)' = Served(n) \ {r}
      /\ \A q \in Requests : q # r => req'[q] = req[q]
  BY DEF Release, Leave, Served, Requested
<1>o. \A n \in Nodes : n # m => r \notin Served(n)
  BY DEF Served
<1> HIDE DEF m, t, S
<1>8. /\ inflight'[m] = Cardinality(S) /\ tokens'[m] = Total(req, S)
      /\ inflight' \in [Nodes -> Nat] /\ tokens' \in [Nodes -> Nat]
      /\ \A n \in Nodes : n # m => inflight'[n] = inflight[n] /\ tokens'[n] = tokens[n]
  <2>1. inflight \in [Nodes -> Nat] /\ tokens \in [Nodes -> Nat]
    BY DEF EngineType
  <2>2. inflight[m] >= 1 /\ inflight[m] - 1 = Cardinality(S)
    BY <1>3, <1>4, <1>6
  <2>3. tokens[m] >= t /\ tokens[m] - t = Total(req, S)
    BY <1>1, <1>5, <1>6
  <2> QED BY <1>1, <1>4, <1>5, <1>7, <2>1, <2>2, <2>3
<1>9. ASSUME NEW n \in Nodes
      PROVE  /\ inflight'[n] = Cardinality(Served(n)')
             /\ tokens'[n] = Total(req', Served(n)')
  <2> DEFINE T == Served(n) \ {r}
  <2>1. Served(n)' = T /\ IsFiniteSet(T)
    BY <1>s, ServedFinite, FS_RemoveElement, FS_Subset
  <2>2. \A q \in T : req[q].tok = req'[q].tok
    BY <1>s DEF Served
  <2>3. Total(req', T) = Total(req, T)
    BY <2>1, <2>2, TotalSame
  <2>4. CASE n = m
    BY <1>8, <2>1, <2>3, <2>4 DEF S
  <2>5. CASE n # m
    <3>1. T = Served(n)
      BY <1>o, <2>5
    <3> QED BY <1>8, <2>1, <2>3, <2>5, <3>1 DEF Booked
  <2> QED BY <2>4, <2>5
<1>10. Booked'
  BY <1>9 DEF Booked, Total, MapThenSumSet, MapThenFoldSet
<1> QED BY <1>8, <1>10

-----------------------------------------------------------------------------
(* The steps.                                                              *)

\* A step between two looks: only the requests change, and none is served or let go.
LEMMA LookInv ==
  ASSUME BalancerInv, Requested', UNCHANGED <<usable, excluded, inflight, tokens, sticky, order, rr, since>>,
         \A q \in Requests : pc'[q] = "served" <=> pc[q] = "served",
         \A q \in Requests : pc[q] = "served" => req'[q] = req[q]
  PROVE  BalancerInv'
<1>1. Booked'
  BY BookedFrame DEF BalancerInv
<1> QED BY <1>1 DEF BalancerInv, EngineType, StickyType, StickyOK, Listed, Aged

\* A request refused before it was served leaves the books as they are.
LEMMA LeaveInv ==
  ASSUME BalancerInv, NEW r \in Requests, pc[r] # "served", Leave(r),
         UNCHANGED <<usable, excluded, inflight, tokens, sticky, order, rr, since>>
  PROVE  BalancerInv'
<1>1. Requested'
  BY LeaveRequested DEF BalancerInv
<1>2. /\ \A q \in Requests : pc'[q] = "served" <=> pc[q] = "served"
      /\ \A q \in Requests : pc[q] = "served" => req'[q] = req[q]
  BY DEF Leave, BalancerInv, Requested
<1> QED BY <1>1, <1>2, LookInv

\* A move that books nothing keeps the invariant.
LEMMA GoToInv ==
  ASSUME BalancerInv, NEW r \in Requests, NEW place \in Places,
         pc[r] # "served", place # "served", place \in Chosen => pc[r] \in Chosen,
         GoTo(r, place), UNCHANGED <<usable, excluded, inflight, tokens, sticky, order, rr, since>>
  PROVE  BalancerInv'
<1>1. Requested'
  BY GoToRequested DEF BalancerInv
<1>2. /\ \A q \in Requests : pc'[q] = "served" <=> pc[q] = "served"
      /\ \A q \in Requests : pc[q] = "served" => req'[q] = req[q]
  BY DEF GoTo, BalancerInv, Requested
<1> QED BY <1>1, <1>2, LookInv

\* A request comes, by pick or by the handoff.
LEMMA ArriveInv ==
  ASSUME BalancerInv, NEW r \in Requests, NEW k \in Keys, NEW t \in Sizes,
         Arrive(r, k, t) \/ (\E n \in Nodes : HandoffPick(r, k, t, n))
  PROVE  BalancerInv'
<1>1. \E n \in Nodes \cup {0}, place \in {"arrived", "hclaim"} :
        /\ place = "hclaim" => n \in Available
        /\ req' = [req EXCEPT ![r] = [key |-> k, tok |-> t, node |-> n]]
        /\ pc' = [pc EXCEPT ![r] = place] /\ shut' = [shut EXCEPT ![r] = excluded]
  BY DEF Arrive, HandoffPick, Available
<1>2. pc[r] = "idle" /\ UNCHANGED <<usable, excluded, inflight, tokens, sticky, order, rr, since>>
  BY DEF Arrive, HandoffPick
<1>3. PICK n \in Nodes \cup {0}, place \in {"arrived", "hclaim"} :
        /\ place = "hclaim" => n \in Available
        /\ req' = [req EXCEPT ![r] = [key |-> k, tok |-> t, node |-> n]]
        /\ pc' = [pc EXCEPT ![r] = place] /\ shut' = [shut EXCEPT ![r] = excluded]
  BY <1>1
<1>4. place \in Places /\ (place \in Chosen => n \in Available) /\ place # "served"
  BY <1>3 DEF Places, Chosen
<1>5. Requested'
  BY <1>2, <1>3, <1>4, ArriveRequested DEF BalancerInv
<1>6. /\ \A q \in Requests : pc'[q] = "served" <=> pc[q] = "served"
      /\ \A q \in Requests : pc[q] = "served" => req'[q] = req[q]
  BY <1>2, <1>3, <1>4 DEF BalancerInv, Requested
<1> QED BY <1>2, <1>5, <1>6, LookInv

\* A request gets an engine: the choice, or the move.
LEMMA NodeInv ==
  ASSUME BalancerInv, NEW r \in Requests, NEW n \in Available, NEW place \in {"loop", "final"},
         pc[r] \in {"choose", "loop"},
         req' = [req EXCEPT ![r].node = n], pc' = [pc EXCEPT ![r] = place],
         StickyType', StickyOK', rr' \in 0..(RRPeriod - 1),
         UNCHANGED <<usable, excluded, inflight, tokens, shut>>
  PROVE  BalancerInv'
<1>1. place \in Places /\ place # "served"
  BY DEF Places
<1>2. Requested'
  BY <1>1, NodeRequested DEF BalancerInv
<1>3. /\ \A q \in Requests : pc'[q] = "served" <=> pc[q] = "served"
      /\ \A q \in Requests : pc[q] = "served" => req'[q] = req[q]
  BY <1>1 DEF BalancerInv, Requested
<1>4. Booked'
  BY <1>3, BookedFrame DEF BalancerInv
<1>5. EngineType'
  BY DEF BalancerInv, EngineType
<1> QED BY <1>2, <1>4, <1>5 DEF BalancerInv

\* The first choice keeps it,
LEMMA ChooseInv ==
  ASSUME BalancerInv, NEW r \in Requests, Choose(r)
  PROVE  BalancerInv'
<1>k. req[r].key \in Keys /\ TypeOK
  BY InvTypeOK DEF BalancerInv, Requested, Request
<1>1. CASE Available = {} /\ Leave(r) /\ UNCHANGED <<sticky, order, rr, since>>
  BY <1>1, LeaveInv DEF Choose
<1>2. ASSUME NEW n \in Nodes, ChooseNode(req[r].key, n), req' = [req EXCEPT ![r].node = n],
             pc' = [pc EXCEPT ![r] = "loop"], UNCHANGED shut
      PROVE  BalancerInv'
  <2>1. n \in Available /\ StickyType' /\ StickyOK' /\ rr' \in 0..(RRPeriod - 1)
    BY <1>k, <1>2, ChooseNodeIs DEF BalancerInv
  <2>2. pc[r] \in {"choose", "loop"} /\ UNCHANGED <<usable, excluded, inflight, tokens>>
    BY DEF Choose
  <2> QED BY <1>2, <2>1, <2>2, NodeInv
<1> QED BY <1>1, <1>2 DEF Choose

\* every turn of pick's loop does,
LEMMA LoopMoveInv ==
  ASSUME BalancerInv, NEW r \in Requests, NEW held, LoopMove(r, held)
  PROVE  BalancerInv'
<1>1. PICK n \in Nodes \ {req[r].node} : /\ FreeNode(n, req[r].tok, held)
                                         /\ Set(req[r].key, n)
                                         /\ req' = [req EXCEPT ![r].node = n]
  BY DEF LoopMove
<1>2. n \in Available /\ req[r].key \in Keys
  BY <1>1 DEF FreeNode, BalancerInv, Requested, Request
<1>3. StickyType' /\ StickyOK'
  BY <1>1, <1>2, SetKept DEF BalancerInv
<1>4. /\ pc[r] \in {"choose", "loop"} /\ pc' = [pc EXCEPT ![r] = "final"]
      /\ UNCHANGED <<usable, excluded, inflight, tokens, rr, shut>>
  BY DEF LoopMove
<1>5. rr' \in 0..(RRPeriod - 1)
  BY <1>4 DEF BalancerInv, EngineType
<1> QED BY <1>1, <1>2, <1>3, <1>4, <1>5, NodeInv

\* A request is claimed, by pick or by the handoff.
LEMMA ClaimInv ==
  ASSUME BalancerInv, NEW r \in Requests, Claim(r) \/ HandoffClaim(r)
  PROVE  BalancerInv'
<1>1. /\ pc[r] \in {"claim", "hclaim"} /\ ClaimNode(req[r].node, req[r].tok)
      /\ GoTo(r, "served") /\ UNCHANGED <<usable, excluded, rr>>
  BY DEF Claim, HandoffClaim
<1>2. Booked' /\ inflight' \in [Nodes -> Nat] /\ tokens' \in [Nodes -> Nat]
  BY <1>1, ClaimBooked DEF BalancerInv
<1>3. Requested'
  BY <1>1, GoToRequested DEF BalancerInv, Places, Chosen
<1>4. EngineType'
  BY <1>1, <1>2 DEF BalancerInv, EngineType
<1>5. StickyType' /\ StickyOK'
  <2>1. CASE Claim(r)
    BY <2>1 DEF Claim, BalancerInv, StickyType, StickyOK, Listed, Aged
  <2>2. CASE HandoffClaim(r)
    <3>1. req[r].key \in Keys /\ req[r].node \in Nodes
      BY <1>1 DEF BalancerInv, Requested, Request, Chosen
    <3> QED BY <2>2, <3>1, SetKept DEF HandoffClaim, BalancerInv
  <2> QED BY <2>1, <2>2
<1> QED BY <1>2, <1>3, <1>4, <1>5 DEF BalancerInv

\* the end of a request does,
LEMMA ReleaseInv ==
  ASSUME BalancerInv, NEW r \in Requests, Release(r)
  PROVE  BalancerInv'
<1>1. Booked' /\ inflight' \in [Nodes -> Nat] /\ tokens' \in [Nodes -> Nat]
  BY ReleaseBooked DEF BalancerInv
<1>2. Leave(r) /\ UNCHANGED <<usable, excluded, sticky, order, rr, since>>
  BY DEF Release
<1>3. Requested'
  BY <1>2, LeaveRequested DEF BalancerInv
<1> QED BY <1>1, <1>2, <1>3 DEF BalancerInv, EngineType, StickyType, StickyOK, Listed, Aged

\* so every step of pick does.
LEMMA PickInv ==
  ASSUME BalancerInv, NEW r \in Requests, Pick(r)
  PROVE  BalancerInv'
<1> USE DEF Places, Chosen
<1>1. CASE CheckSize(r)
  BY <1>1, LeaveInv, GoToInv DEF CheckSize
<1>2. ASSUME NEW held, LoopFits(r, held) \/ GiveUp(r, held) PROVE BalancerInv'
  BY <1>2, GoToInv DEF LoopFits, GiveUp
<1>3. ASSUME NEW held, FinalCheck(r, held) PROVE BalancerInv'
  BY <1>3, LeaveInv, GoToInv DEF FinalCheck
<1> QED BY <1>1, <1>2, <1>3, ChooseInv, LoopMoveInv, ClaimInv DEF Pick

\* A look at the sticky table from outside keeps it,
LEMMA StickyNodeInv ==
  ASSUME BalancerInv, NEW k \in Keys, StickyNode(k)
  PROVE  BalancerInv'
<1>1. PICK n \in Nodes : ChooseNode(k, n)
  BY DEF StickyNode
<1>2. StickyType' /\ StickyOK' /\ rr' \in 0..(RRPeriod - 1)
  BY <1>1, InvTypeOK, ChooseNodeIs DEF BalancerInv
<1>3. UNCHANGED <<usable, excluded, inflight, tokens, pc, req, shut>>
  BY DEF StickyNode
<1>4. Booked'
  BY <1>3, BookedFrame DEF BalancerInv
<1>5. EngineType' /\ Requested'
  BY <1>2, <1>3 DEF BalancerInv, EngineType, Requested
<1> QED BY <1>2, <1>4, <1>5 DEF BalancerInv

\* and so do fences and probes.
LEMMA OthersInv ==
  ASSUME BalancerInv, NEW n \in Nodes,
         SetExcluded(n, TRUE) \/ SetExcluded(n, FALSE) \/ ProbeBudget(n)
  PROVE  BalancerInv'
<1>1. UNCHANGED <<inflight, tokens, sticky, order, rr, pc, req, since>>
  BY DEF SetExcluded, ProbeBudget
<1>2. Booked'
  BY <1>1, BookedFrame DEF BalancerInv
<1>3. EngineType'
  BY <1>1, BalancerAssumption DEF SetExcluded, ProbeBudget, BalancerInv, EngineType, Nodes
<1>4. Requested'
  <2>1. CASE SetExcluded(n, TRUE)
    BY <1>1, <2>1 DEF SetExcluded, BalancerInv, Requested
  <2>2. CASE SetExcluded(n, FALSE)
    BY <1>1, <2>2 DEF SetExcluded, BalancerInv, Requested
  <2>3. CASE ProbeBudget(n)
    BY <1>1, <2>3 DEF ProbeBudget, BalancerInv, Requested
  <2> QED BY <2>1, <2>2, <2>3
<1> QED BY <1>1, <1>2, <1>3, <1>4 DEF BalancerInv, StickyType, StickyOK, Listed, Aged

-----------------------------------------------------------------------------
(* The theorems.                                                           *)

\* The invariant holds at the start.
LEMMA InitInv == Init => BalancerInv
<1> SUFFICES ASSUME Init PROVE BalancerInv
  OBVIOUS
<1>1. EngineType
  BY BalancerAssumption DEF Init, EngineType
<1>2. StickyType
  BY DEF Init, StickyType
<1>3. StickyOK
  <2>1. order = <<>> /\ Len(order) = 0 /\ DOMAIN order = {}
    BY DEF Init
  <2>2. ToSet(order) = {} /\ IsInjective(order)
    BY <2>1 DEF ToSet, IsInjective
  <2>3. \A k \in Keys : sticky[k] = 0 /\ since[k] = {k}
    BY DEF Init
  <2>4. Listed
    BY <2>1, <2>2, <2>3, BalancerAssumption DEF Listed
  <2>5. \A k \in Keys : IsFiniteSet(since[k])
    BY <2>3, FS_Singleton
  <2>6. Aged
    BY <2>1, <2>3, <2>5 DEF Aged, Ranked
  <2> QED BY <2>4, <2>6 DEF StickyOK
<1>4. Requested
  <2>1. NoRequest \in Request
    BY BalancerAssumption DEF NoRequest, Request
  <2> HIDE DEF NoRequest
  <2> QED BY <2>1 DEF Init, Requested, Places, Chosen
<1>5. Booked
  <2>1. \A n \in Nodes : Served(n) = {} /\ inflight[n] = 0 /\ tokens[n] = 0
    BY DEF Init, Served
  <2> QED BY <2>1, FS_EmptySet, TotalEmpty DEF Booked
<1> QED BY <1>1, <1>2, <1>3, <1>4, <1>5 DEF BalancerInv

\* The inductive invariant of the balancer holds in every behaviour of pick,
\* pickDecode, release, stickyNode, setExcluded and probeBudgets.
THEOREM BalancerInvariant == Spec => []BalancerInv
<1>1. BalancerInv /\ [Next]_vars => BalancerInv'
  <2> SUFFICES ASSUME BalancerInv, [Next]_vars PROVE BalancerInv'
    OBVIOUS
  <2>1. CASE UNCHANGED vars
    <3>1. UNCHANGED <<usable, excluded, inflight, tokens, sticky, order, rr, pc, req, shut, since>>
      BY <2>1 DEF vars
    <3>2. Requested'
      BY <3>1 DEF BalancerInv, Requested
    <3> QED BY <3>1, <3>2, LookInv
  <2>2. CASE Next
    BY <2>2, ArriveInv, PickInv, ReleaseInv, StickyNodeInv, OthersInv DEF Next
  <2> QED BY <2>1, <2>2
<1> QED BY <1>1, InitInv, PTL DEF Spec

\* Every variable of the balancer keeps its type, and a request past the choice has
\* an engine: chooseNode finds one whenever one is not fenced.
THEOREM BalancerTypeOK == Spec => []TypeOK
<1>1. BalancerInv => TypeOK
  BY InvTypeOK DEF BalancerInv
<1> QED BY <1>1, BalancerInvariant, PTL

\* inflight and the claimed tokens of an engine are the number and the sum of what it
\* serves, after any interleaving of claims and releases; release never clamps.
THEOREM BalancerAccounts == Spec => []AccountsExact
<1>1. BalancerInv => AccountsExact
  BY DEF BalancerInv, Booked, AccountsExact, Total
<1> QED BY <1>1, BalancerInvariant, PTL

\* A conversation keeps its engine exactly while fewer than stickyCap others were
\* used since, whatever touches, moves, handoffs and evictions came before: setLocked
\* evicts the least recently used one and touchLocked keeps the order by age.
THEOREM BalancerLRU == Spec => []StickyIsLRU
<1>1. BalancerInv => StickyIsLRU
  BY AgedIsLRU DEF BalancerInv
<1> QED BY <1>1, BalancerInvariant, PTL

\* A request does not get an engine that was fenced when it came and has been since,
\* by the sticky entry, the spread, the move or the handoff.
THEOREM BalancerFences == Spec => []FencedBeforePickNeverServes
<1>1. BalancerInv => FencedBeforePickNeverServes
  BY DEF BalancerInv, Requested, FencedBeforePickNeverServes, Chosen
<1> QED BY <1>1, BalancerInvariant, PTL

=============================================================================
