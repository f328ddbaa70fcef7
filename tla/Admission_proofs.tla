--------------------------- MODULE Admission_proofs ---------------------------
(***************************************************************************)
(* Proofs about the gateway's admission, for any requests, conversations,  *)
(* prompts and capacities: the ordered registries stay exact within their  *)
(* capacity, and a residency credit that proved wrong is not given again   *)
(* on the same slot, but to turns that the one that had it found waiting.  *)
(*                                                                         *)
(* The second rests on the first only through the types.  Its inductive    *)
(* invariant says where a disproved slot may not be: neither in convSlots  *)
(* nor in the hands of a turn under way.  A turn that disproves a slot     *)
(* leaves neither, unless another turn that came before has read the slot  *)
(* too: its own entry is forgotten.                                        *)
(***************************************************************************)
EXTENDS Admission, FiniteSetTheorems, SequenceTheorems, WellFoundedInduction, TLAPS

-----------------------------------------------------------------------------
(* Orders without repetitions.                                             *)

\* A set of numbers has a least one.
LEMMA LeastIn ==
  ASSUME NEW S \in SUBSET Nat, S # {}
  PROVE  \E x \in S : \A y \in S : x <= y
<1>1. OpToRel(<, Nat) = {ss \in Nat \X Nat : ss[1] < ss[2]}
  BY DEF OpToRel
<1>2. PICK x \in S : \A y \in S : ~(<<y, x>> \in OpToRel(<, Nat))
  BY NatLessThanWellFounded, WFMin, Zenon
<1>3. ASSUME NEW y \in S, y < x PROVE FALSE
  <2>1. <<y, x>> \in OpToRel(<, Nat)
    BY <1>1, <1>3
  <2> QED BY <1>2, <2>1, Zenon
<1>4. \A y \in S : x <= y
  BY <1>3
<1> QED BY <1>4

\* RemoveAt closes the gap.
LEMMA RemoveAtIs ==
  ASSUME NEW K, NEW s \in Seq(K), NEW i \in 1..Len(s)
  PROVE  /\ RemoveAt(s, i) \in Seq(K)
         /\ Len(RemoveAt(s, i)) = Len(s) - 1
         /\ \A j \in 1..(Len(s) - 1) : RemoveAt(s, i)[j] = IF j < i THEN s[j] ELSE s[j + 1]
<1> DEFINE a == SubSeq(s, 1, i - 1)
           b == SubSeq(s, i + 1, Len(s))
<1>1. /\ a \in Seq(K) /\ Len(a) = i - 1 /\ \A j \in 1..(i - 1) : a[j] = s[j]
      /\ i \in Nat /\ Len(s) \in Nat /\ 1 <= i /\ i <= Len(s)
  OBVIOUS
<1>2. /\ b \in Seq(K) /\ Len(b) = Len(s) - i
      /\ \A j \in 1..(Len(s) - i) : b[j] = s[i + j]
  OBVIOUS
<1>3. RemoveAt(s, i) = a \o b
  BY DEF RemoveAt
<1> HIDE DEF a, b
<1>4. /\ a \o b \in Seq(K) /\ Len(a \o b) = Len(a) + Len(b)
      /\ \A j \in 1..(Len(a) + Len(b)) : (a \o b)[j] = IF j <= Len(a) THEN a[j] ELSE b[j - Len(a)]
  BY <1>1, <1>2, ConcatProperties
<1>5. Len(a) + Len(b) = Len(s) - 1
  BY <1>1, <1>2
<1>6. ASSUME NEW j \in 1..(Len(s) - 1) PROVE (a \o b)[j] = IF j < i THEN s[j] ELSE s[j + 1]
  <2>1. CASE j < i
    <3>1. j <= Len(a) /\ j \in 1..(i - 1)
      BY <1>1, <2>1
    <3> QED BY <1>1, <1>4, <1>5, <2>1, <3>1
  <2>2. CASE ~(j < i)
    <3>1. ~(j <= Len(a)) /\ j - Len(a) \in 1..(Len(s) - i) /\ i + (j - Len(a)) = j + 1
      BY <1>1, <2>2
    <3>2. (a \o b)[j] = b[j - Len(a)]
      BY <1>4, <1>5, <3>1
    <3> QED BY <1>2, <2>2, <3>1, <3>2
  <2> QED BY <2>1, <2>2
<1> QED BY <1>3, <1>4, <1>5, <1>6

\* RemoveFirst takes the key out of the order, and only the key.
LEMMA RemoveFirstIs ==
  ASSUME NEW K, NEW s \in Seq(K), IsInjective(s), NEW k
  PROVE  LET t == RemoveFirst(s, k) IN
         /\ t \in Seq(K)
         /\ IsInjective(t)
         /\ ToSet(t) = ToSet(s) \ {k}
         /\ Len(t) = IF k \in ToSet(s) THEN Len(s) - 1 ELSE Len(s)
<1>1. CASE ~ \E i \in 1..Len(s) : s[i] = k
  BY <1>1 DEF RemoveFirst, ToSet
<1>2. CASE \E i \in 1..Len(s) : s[i] = k
  <2> DEFINE I == {i \in 1..Len(s) : s[i] = k}
  <2>1. PICK z \in I : \A y \in I : z <= y
    <3>1. I \in SUBSET Nat /\ I # {}
      BY <1>2
    <3> QED BY <3>1, LeastIn
  <2>2. Min(I) \in I
    BY <2>1 DEF Min
  <2>3. RemoveFirst(s, k) = RemoveAt(s, Min(I))
    BY <1>2, <2>2 DEF RemoveFirst, SelectInSeq
  <2> DEFINE m == Min(I)
             t == RemoveAt(s, m)
  <2>4. m \in 1..Len(s) /\ s[m] = k
    BY <2>2
  <2> HIDE DEF I, m
  <2>5. /\ t \in Seq(K) /\ Len(t) = Len(s) - 1
        /\ \A j \in 1..(Len(s) - 1) : t[j] = IF j < m THEN s[j] ELSE s[j + 1]
    BY <2>4, RemoveAtIs
  <2>6. \A j \in 1..Len(s) : s[j] = k => j = m
    BY <2>4 DEF IsInjective
  <2> HIDE DEF t
  <2>i. \A j, l \in 1..Len(s) : s[j] = s[l] => j = l
    BY DEF IsInjective
  <2>7. IsInjective(t)
    <3>1. SUFFICES ASSUME NEW j \in 1..Len(t), NEW l \in 1..Len(t), t[j] = t[l] PROVE j = l
      BY <2>5 DEF IsInjective
    <3> QED BY <2>4, <2>5, <2>i, <3>1
  <2>8. ASSUME NEW x \in ToSet(t) PROVE x \in ToSet(s) \ {k}
    <3>1. PICK j \in 1..Len(t) : x = t[j]
      BY <2>5, <2>8 DEF ToSet
    <3>2. x = IF j < m THEN s[j] ELSE s[j + 1]
      BY <3>1, <2>5
    <3>3. PICK l \in 1..Len(s) : l # m /\ x = s[l]
      <4>1. CASE j < m
        BY <4>1, <3>1, <3>2, <2>4, <2>5
      <4>2. CASE ~(j < m)
        <5>1. j + 1 \in 1..Len(s) /\ j + 1 # m
          BY <4>2, <3>1, <2>4, <2>5
        <5> QED BY <4>2, <5>1, <3>2
      <4> QED BY <4>1, <4>2
    <3>4. x # k /\ l \in DOMAIN s
      BY <3>3, <2>6
    <3> QED BY <3>3, <3>4 DEF ToSet
  <2>9. ASSUME NEW x \in ToSet(s) \ {k} PROVE x \in ToSet(t)
    <3>1. PICK j \in 1..Len(s) : x = s[j]
      BY <2>9 DEF ToSet
    <3>2. j # m
      BY <3>1, <2>4, <2>9
    <3>3. CASE j < m
      <4>1. j \in 1..Len(t) /\ t[j] = x
        BY <3>1, <3>3, <2>4, <2>5
      <4> QED BY <4>1, <2>5 DEF ToSet
    <3>4. CASE j > m
      <4>1. j - 1 \in 1..Len(t) /\ t[j - 1] = x
        BY <3>1, <3>4, <2>4, <2>5
      <4> QED BY <4>1, <2>5 DEF ToSet
    <3> QED BY <3>1, <3>2, <3>3, <3>4, <2>4
  <2>10. k \in ToSet(s)
    BY <2>4 DEF ToSet
  <2> QED BY <2>3, <2>5, <2>7, <2>8, <2>9, <2>10 DEF t, m
<1> QED BY <1>1, <1>2

\* touch makes k the youngest and keeps the rest.
LEMMA YoungestIs ==
  ASSUME NEW K, NEW s \in Seq(K), IsInjective(s), NEW k \in K
  PROVE  LET u == Append(RemoveFirst(s, k), k) IN
         /\ u \in Seq(K)
         /\ IsInjective(u)
         /\ ToSet(u) = ToSet(s) \cup {k}
         /\ Len(u) = IF k \in ToSet(s) THEN Len(s) ELSE Len(s) + 1
<1> DEFINE t == RemoveFirst(s, k)
<1>1. /\ t \in Seq(K) /\ IsInjective(t) /\ ToSet(t) = ToSet(s) \ {k}
      /\ Len(t) = IF k \in ToSet(s) THEN Len(s) - 1 ELSE Len(s)
  BY RemoveFirstIs
<1> HIDE DEF t
<1> DEFINE u == Append(t, k)
<1>3. /\ u \in Seq(K) /\ Len(u) = Len(t) + 1 /\ u[Len(t) + 1] = k
      /\ \A j \in 1..Len(t) : u[j] = t[j]
  BY <1>1
<1> HIDE DEF u
<1>4. \A j \in 1..Len(t) : t[j] # k
  <2>1. \A j \in DOMAIN t : t[j] \in ToSet(t)
    BY DEF ToSet
  <2> QED BY <1>1, <2>1
<1>5. IsInjective(u)
  <2>1. SUFFICES ASSUME NEW j \in 1..(Len(t) + 1), NEW l \in 1..(Len(t) + 1), u[j] = u[l]
                 PROVE  j = l
    BY <1>3 DEF IsInjective
  <2>2. \A a, b \in 1..Len(t) : t[a] = t[b] => a = b
    BY <1>1 DEF IsInjective
  <2> QED BY <1>1, <1>3, <1>4, <2>1, <2>2
<1>6. ToSet(u) = ToSet(t) \cup {k}
  <2>1. DOMAIN u = 1..(Len(t) + 1) /\ DOMAIN t = 1..Len(t) /\ Len(t) \in Nat
    BY <1>1, <1>3
  <2>2. ASSUME NEW x \in ToSet(u) PROVE x \in ToSet(t) \cup {k}
    BY <2>1, <2>2, <1>3 DEF ToSet
  <2>3. ASSUME NEW x \in ToSet(t) PROVE x \in ToSet(u)
    BY <2>1, <2>3, <1>3 DEF ToSet
  <2>4. k \in ToSet(u)
    BY <2>1, <1>3 DEF ToSet
  <2> QED BY <2>2, <2>3, <2>4
<1>7. Len(s) \in Nat /\ Len(u) = IF k \in ToSet(s) THEN Len(s) ELSE Len(s) + 1
  BY <1>1, <1>3
<1> QED BY <1>1, <1>3, <1>5, <1>6, <1>7 DEF u, t

\* The eviction takes the oldest key off, and no other.
LEMMA TailIs ==
  ASSUME NEW K, NEW s \in Seq(K), IsInjective(s), s # <<>>
  PROVE  /\ Tail(s) \in Seq(K) /\ IsInjective(Tail(s)) /\ Len(Tail(s)) = Len(s) - 1
         /\ Head(s) \in K /\ ToSet(Tail(s)) = ToSet(s) \ {Head(s)}
<1> DEFINE t == Tail(s)
<1>1. /\ t \in Seq(K) /\ Len(t) = Len(s) - 1 /\ Head(s) = s[1] /\ Len(s) \in Nat \ {0}
      /\ \A j \in 1..(Len(s) - 1) : t[j] = s[j + 1]
  OBVIOUS
<1> HIDE DEF t
<1>2. \A a, b \in 1..Len(s) : s[a] = s[b] => a = b
  BY DEF IsInjective
<1>3. IsInjective(t)
  <2>1. SUFFICES ASSUME NEW j \in 1..(Len(s) - 1), NEW l \in 1..(Len(s) - 1), t[j] = t[l]
                 PROVE  j = l
    BY <1>1 DEF IsInjective
  <2> QED BY <1>1, <1>2, <2>1
<1>4. DOMAIN t = 1..(Len(s) - 1) /\ DOMAIN s = 1..Len(s)
  BY <1>1
<1>5. ASSUME NEW x \in ToSet(t) PROVE x \in ToSet(s) \ {Head(s)}
  <2>1. PICK j \in 1..(Len(s) - 1) : x = t[j]
    BY <1>4, <1>5 DEF ToSet
  <2>2. x = s[j + 1] /\ j + 1 \in 1..Len(s) /\ j + 1 # 1 /\ 1 \in 1..Len(s)
    BY <1>1, <2>1
  <2> QED BY <1>1, <1>2, <1>4, <2>2 DEF ToSet
<1>6. ASSUME NEW x \in ToSet(s) \ {Head(s)} PROVE x \in ToSet(t)
  <2>1. PICK j \in 1..Len(s) : x = s[j]
    BY <1>4, <1>6 DEF ToSet
  <2>2. j - 1 \in 1..(Len(s) - 1) /\ t[j - 1] = x
    BY <1>1, <1>6, <2>1
  <2> QED BY <1>4, <2>2 DEF ToSet
<1>7. Head(s) \in K
  BY <1>1
<1> QED BY <1>1, <1>3, <1>5, <1>6, <1>7 DEF t

\* An order without repetitions is as long as the set of its keys is large.
LEMMA CountIs ==
  ASSUME NEW K, NEW s \in Seq(K), IsInjective(s)
  PROVE  Cardinality(ToSet(s)) = Len(s)
<1>1. Len(s) \in Nat /\ DOMAIN s = 1..Len(s)
  OBVIOUS
<1>2. ToSet(s) = {s[i] : i \in 1..Len(s)}
  BY <1>1 DEF ToSet
<1>3. s \in Bijection(1..Len(s), ToSet(s))
  <2>1. s \in [1..Len(s) -> ToSet(s)]
    BY <1>1, <1>2
  <2>2. s \in Injection(1..Len(s), ToSet(s))
    BY <2>1 DEF Injection
  <2>3. \A t \in ToSet(s) : \E a \in 1..Len(s) : s[a] = t
    BY <1>2
  <2>4. s \in Surjection(1..Len(s), ToSet(s))
    BY <2>1, <2>3 DEF Surjection
  <2> QED BY <2>2, <2>4 DEF Bijection
<1>4. ExistsBijection(1..Len(s), ToSet(s))
  BY <1>3 DEF ExistsBijection
<1> QED BY <1>1, <1>4, FS_CountingElements

-----------------------------------------------------------------------------
(* The registries.                                                         *)

\* A registry as it should be: typed, its order exact and within the capacity.
Exact(reg, K, V) == IsRegistry(reg, K, V) /\ Ordered(reg)

\* What Exact says of the parts.
LEMMA ExactParts ==
  ASSUME NEW K, NEW V, NEW reg, Exact(reg, K, V)
  PROVE  /\ reg = [m |-> reg.m, ord |-> reg.ord]
         /\ DOMAIN reg.m \subseteq K /\ reg.m \in [DOMAIN reg.m -> V]
         /\ reg.ord \in Seq(K) /\ IsInjective(reg.ord) /\ ToSet(reg.ord) = DOMAIN reg.m
         /\ Len(reg.ord) \in Nat /\ Len(reg.ord) <= Cap
<1>1. IsMap(reg.m, K, V) /\ reg.ord \in Seq(K) /\ reg = [m |-> reg.m, ord |-> reg.ord]
  BY DEF Exact, IsRegistry
<1>2. DOMAIN reg.m \subseteq K /\ reg.m \in [DOMAIN reg.m -> V]
  BY <1>1 DEF IsMap
<1>3. Len(reg.ord) \in Nat
  BY <1>1
<1>4. IsInjective(reg.ord) /\ ToSet(reg.ord) = DOMAIN reg.m /\ Len(reg.ord) <= Cap
  BY DEF Exact, Ordered
<1> QED BY <1>1, <1>2, <1>3, <1>4

\* The parts make it Exact.
LEMMA ExactFrom ==
  ASSUME NEW K, NEW V, NEW m, NEW ord,
         DOMAIN m \subseteq K, m \in [DOMAIN m -> V],
         ord \in Seq(K), IsInjective(ord), ToSet(ord) = DOMAIN m, Len(ord) <= Cap
  PROVE  Exact([m |-> m, ord |-> ord], K, V)
<1> DEFINE reg == [m |-> m, ord |-> ord]
<1>2. reg.m = m /\ reg.ord = ord
  OBVIOUS
<1>3. reg = [m |-> reg.m, ord |-> reg.ord]
  OBVIOUS
<1> HIDE DEF reg
<1>4. IsRegistry(reg, K, V)
  BY <1>2, <1>3 DEF IsRegistry, IsMap
<1>5. Ordered(reg)
  BY <1>2 DEF Ordered
<1>6. Exact(reg, K, V)
  BY <1>4, <1>5 DEF Exact
<1> QED BY <1>6 DEF reg

\* touch of a key that is there.
LEMMA TouchExact ==
  ASSUME NEW K, NEW V, NEW reg, Exact(reg, K, V), NEW k \in DOMAIN reg.m
  PROVE  Exact([m |-> reg.m, ord |-> Touch(reg.ord, k)], K, V)
<1> DEFINE u == Append(RemoveFirst(reg.ord, k), k)
<1>1. /\ reg = [m |-> reg.m, ord |-> reg.ord]
      /\ DOMAIN reg.m \subseteq K /\ reg.m \in [DOMAIN reg.m -> V]
      /\ reg.ord \in Seq(K) /\ IsInjective(reg.ord) /\ ToSet(reg.ord) = DOMAIN reg.m
      /\ Len(reg.ord) \in Nat /\ Len(reg.ord) <= Cap /\ k \in K
  BY ExactParts
<1>3. /\ u \in Seq(K) /\ IsInjective(u) /\ ToSet(u) = ToSet(reg.ord) \cup {k}
      /\ Len(u) = IF k \in ToSet(reg.ord) THEN Len(reg.ord) ELSE Len(reg.ord) + 1
  BY <1>1, YoungestIs
<1>4. Touch(reg.ord, k) = u
  BY DEF Touch
<1> HIDE DEF u
<1>5. ToSet(u) = DOMAIN reg.m /\ Len(u) <= Cap
  BY <1>1, <1>3
<1> QED BY <1>1, <1>3, <1>4, <1>5, ExactFrom

\* A key that comes as the youngest of an exact registry with room for it.
LEMMA PutExact ==
  ASSUME NEW K, NEW V, NEW reg, Exact(reg, K, V), NEW k \in K, NEW v \in V,
         k \in DOMAIN reg.m \/ Len(reg.ord) + 1 <= Cap
  PROVE  /\ Exact([m |-> With(reg.m, k, v), ord |-> Touch(reg.ord, k)], K, V)
         /\ Exact([m |-> With(reg.m, k, v), ord |-> Append(RemoveFirst(reg.ord, k), k)], K, V)
<1> DEFINE u == Append(RemoveFirst(reg.ord, k), k)
           w == With(reg.m, k, v)
<1>1. /\ reg = [m |-> reg.m, ord |-> reg.ord]
      /\ DOMAIN reg.m \subseteq K /\ reg.m \in [DOMAIN reg.m -> V]
      /\ reg.ord \in Seq(K) /\ IsInjective(reg.ord) /\ ToSet(reg.ord) = DOMAIN reg.m
      /\ Len(reg.ord) \in Nat /\ Len(reg.ord) <= Cap
  BY ExactParts
<1>2. /\ DOMAIN w = DOMAIN reg.m \cup {k} /\ DOMAIN w \subseteq K
      /\ w \in [DOMAIN w -> V]
  BY <1>1 DEF With
<1>3. /\ u \in Seq(K) /\ IsInjective(u) /\ ToSet(u) = ToSet(reg.ord) \cup {k}
      /\ Len(u) = IF k \in ToSet(reg.ord) THEN Len(reg.ord) ELSE Len(reg.ord) + 1
  BY <1>1, YoungestIs
<1>4. Touch(reg.ord, k) = u
  BY DEF Touch
<1> HIDE DEF u, w
<1>5. ToSet(u) = DOMAIN w /\ Len(u) <= Cap
  BY <1>1, <1>2, <1>3
<1>6. Exact([m |-> w, ord |-> u], K, V)
  BY <1>2, <1>3, <1>5, ExactFrom
<1> QED BY <1>4, <1>6 DEF u, w

\* The oldest of a full registry goes, and leaves room.
LEMMA EvictExact ==
  ASSUME NEW K, NEW V, NEW reg, Exact(reg, K, V), reg.ord # <<>>
  PROVE  LET rest == [m |-> Without(reg.m, Head(reg.ord)), ord |-> Tail(reg.ord)] IN
         Exact(rest, K, V) /\ Len(rest.ord) + 1 <= Cap
<1> DEFINE h == Head(reg.ord)
           w == Without(reg.m, h)
           t == Tail(reg.ord)
<1>1. /\ DOMAIN reg.m \subseteq K /\ reg.m \in [DOMAIN reg.m -> V]
      /\ reg.ord \in Seq(K) /\ IsInjective(reg.ord) /\ ToSet(reg.ord) = DOMAIN reg.m
      /\ Len(reg.ord) \in Nat /\ Len(reg.ord) <= Cap
  BY ExactParts
<1>2. /\ DOMAIN w = DOMAIN reg.m \ {h} /\ DOMAIN w \subseteq K
      /\ w \in [DOMAIN w -> V]
  BY <1>1 DEF Without
<1>3. /\ t \in Seq(K) /\ IsInjective(t) /\ Len(t) = Len(reg.ord) - 1
      /\ ToSet(t) = ToSet(reg.ord) \ {h}
  BY <1>1, TailIs
<1>c. Cap \in Nat
  BY AdmissionAssumption
<1> HIDE DEF h, w, t
<1>4. ToSet(t) = DOMAIN w /\ Len(t) <= Cap /\ Len(t) + 1 <= Cap
  BY <1>1, <1>2, <1>3, <1>c
<1>5. Exact([m |-> w, ord |-> t], K, V)
  BY <1>2, <1>3, <1>4, ExactFrom
<1>6. [m |-> w, ord |-> t].ord = t
  OBVIOUS
<1> QED BY <1>4, <1>5, <1>6 DEF w, t, h

\* A registry at its capacity has an oldest key.
LEMMA FullHasOldest ==
  ASSUME NEW K, NEW V, NEW reg, Exact(reg, K, V)
  PROVE  /\ Cardinality(DOMAIN reg.m) = Len(reg.ord)
         /\ Len(reg.ord) >= Cap => reg.ord # <<>>
         /\ ~(Len(reg.ord) >= Cap) => Len(reg.ord) + 1 <= Cap
<1>1. reg.ord \in Seq(K) /\ IsInjective(reg.ord) /\ ToSet(reg.ord) = DOMAIN reg.m
      /\ Len(reg.ord) \in Nat
  BY ExactParts
<1>2. Cardinality(DOMAIN reg.m) = Len(reg.ord)
  BY <1>1, CountIs
<1>3. Cap \in Nat \ {0}
  BY AdmissionAssumption
<1> QED BY <1>1, <1>2, <1>3

\* Record and remember keep a registry exact: what they evict is there.
LEMMA RememberExact ==
  ASSUME NEW K, NEW V, NEW reg, Exact(reg, K, V), NEW k \in K, NEW v \in V
  PROVE  Exact(Remember(reg, k, v), K, V)
<1> DEFINE full == k \notin DOMAIN reg.m /\ Cardinality(DOMAIN reg.m) >= Cap
           out == [m |-> Without(reg.m, Head(reg.ord)), ord |-> Tail(reg.ord)]
<1>1. /\ Cardinality(DOMAIN reg.m) = Len(reg.ord)
      /\ Len(reg.ord) >= Cap => reg.ord # <<>>
      /\ ~(Len(reg.ord) >= Cap) => Len(reg.ord) + 1 <= Cap
  BY FullHasOldest
<1>2. CASE full
  <2>1. Exact(out, K, V) /\ Len(out.ord) + 1 <= Cap
    BY <1>1, <1>2, EvictExact
  <2>2. Remember(reg, k, v) = [m |-> With(out.m, k, v), ord |-> Touch(out.ord, k)]
    BY <1>2 DEF Remember
  <2> HIDE DEF out
  <2> QED BY <2>1, <2>2, PutExact
<1>3. CASE ~full
  <2>1. k \in DOMAIN reg.m \/ Len(reg.ord) + 1 <= Cap
    BY <1>1, <1>3
  <2>2. Remember(reg, k, v) = [m |-> With(reg.m, k, v), ord |-> Touch(reg.ord, k)]
    BY <1>3 DEF Remember
  <2> QED BY <2>1, <2>2, PutExact
<1> QED BY <1>2, <1>3

\* RemoveFirst of a key that is not there.
LEMMA RemoveAbsent ==
  ASSUME NEW K, NEW s \in Seq(K), NEW k, k \notin ToSet(s)
  PROVE  RemoveFirst(s, k) = s
<1>1. \A i \in 1..Len(s) : s[i] \in ToSet(s)
  BY DEF ToSet
<1> QED BY <1>1 DEF RemoveFirst

\* convSlots.set keeps it exact, gives the key its slot and no other another one.
LEMMA SetSlotExact ==
  ASSUME NEW K, NEW V, NEW reg, Exact(reg, K, V), NEW k \in K, NEW v \in V
  PROVE  LET new == SetSlot(reg, k, v) IN
         /\ Exact(new, K, V)
         /\ \A x \in DOMAIN new.m : IF x = k THEN new.m[x] = v
                                    ELSE x \in DOMAIN reg.m /\ new.m[x] = reg.m[x]
<1> DEFINE h == Head(reg.ord)
           out == [m |-> Without(reg.m, h), ord |-> Tail(reg.ord)]
           new == SetSlot(reg, k, v)
<1>1. /\ reg = [m |-> reg.m, ord |-> reg.ord]
      /\ DOMAIN reg.m \subseteq K /\ reg.m \in [DOMAIN reg.m -> V]
      /\ reg.ord \in Seq(K) /\ IsInjective(reg.ord) /\ ToSet(reg.ord) = DOMAIN reg.m
      /\ Len(reg.ord) \in Nat /\ Len(reg.ord) <= Cap
  BY ExactParts
<1>2. CASE k \in DOMAIN reg.m
  <2> DEFINE w == With(reg.m, k, v)
  <2>1. /\ DOMAIN w = DOMAIN reg.m \cup {k} /\ DOMAIN w \subseteq K
        /\ w \in [DOMAIN w -> V]
        /\ w[k] = v /\ \A x \in DOMAIN w : x # k => x \in DOMAIN reg.m /\ w[x] = reg.m[x]
    BY <1>1 DEF With
  <2>2. new = [m |-> w, ord |-> reg.ord]
    BY <1>1, <1>2 DEF SetSlot
  <2>3. DOMAIN w = DOMAIN reg.m
    BY <1>2, <2>1
  <2>4. new.m = w
    BY <2>2
  <2> HIDE DEF w, new
  <2>5. Exact(new, K, V)
    BY <1>1, <2>1, <2>2, <2>3, ExactFrom
  <2>6. \A x \in DOMAIN new.m : IF x = k THEN new.m[x] = v
                                ELSE x \in DOMAIN reg.m /\ new.m[x] = reg.m[x]
    BY <2>1, <2>4
  <2> QED BY <2>5, <2>6 DEF new
<1>3. ASSUME k \notin DOMAIN reg.m,
             NEW r, Exact(r, K, V), k \notin DOMAIN r.m, Len(r.ord) + 1 <= Cap,
             DOMAIN r.m \subseteq DOMAIN reg.m, \A x \in DOMAIN r.m : r.m[x] = reg.m[x],
             new = [m |-> With(r.m, k, v), ord |-> Append(r.ord, k)]
      PROVE  /\ Exact(new, K, V)
             /\ \A x \in DOMAIN new.m : IF x = k THEN new.m[x] = v
                                        ELSE x \in DOMAIN reg.m /\ new.m[x] = reg.m[x]
  <2> DEFINE w == With(r.m, k, v)
  <2>1. /\ r.ord \in Seq(K) /\ ToSet(r.ord) = DOMAIN r.m
        /\ DOMAIN r.m \subseteq K /\ r.m \in [DOMAIN r.m -> V]
    BY <1>3, ExactParts
  <2>2. RemoveFirst(r.ord, k) = r.ord
    BY <1>3, <2>1, RemoveAbsent
  <2>3. Exact([m |-> w, ord |-> Append(RemoveFirst(r.ord, k), k)], K, V)
    BY <1>3, PutExact
  <2>4. /\ w[k] = v
        /\ \A x \in DOMAIN w : x # k => x \in DOMAIN r.m /\ w[x] = r.m[x]
    BY <2>1 DEF With
  <2>5. new.m = w
    BY <1>3
  <2>6. Exact(new, K, V)
    BY <1>3, <2>2, <2>3
  <2> HIDE DEF w, new
  <2> QED BY <1>3, <2>4, <2>5, <2>6
<1>4. CASE k \notin DOMAIN reg.m /\ Len(reg.ord) >= Cap
  <2>1. reg.ord # <<>>
    BY <1>4, FullHasOldest
  <2>2. Exact(out, K, V) /\ Len(out.ord) + 1 <= Cap
    BY <2>1, EvictExact
  <2>3. /\ DOMAIN out.m = DOMAIN reg.m \ {h}
        /\ \A x \in DOMAIN out.m : out.m[x] = reg.m[x]
    BY <1>1 DEF Without
  <2>4. new = [m |-> With(out.m, k, v), ord |-> Append(out.ord, k)]
    BY <1>4 DEF SetSlot
  <2> HIDE DEF out, new
  <2>5. k \notin DOMAIN out.m /\ DOMAIN out.m \subseteq DOMAIN reg.m
    BY <1>4, <2>3
  <2>6. /\ Exact(new, K, V)
        /\ \A x \in DOMAIN new.m : IF x = k THEN new.m[x] = v
                                   ELSE x \in DOMAIN reg.m /\ new.m[x] = reg.m[x]
    BY <1>3, <1>4, <2>2, <2>3, <2>4, <2>5
  <2> QED BY <2>6 DEF new
<1>5. CASE k \notin DOMAIN reg.m /\ ~(Len(reg.ord) >= Cap)
  <2>1. Len(reg.ord) + 1 <= Cap
    BY <1>5, FullHasOldest
  <2>2. new = [m |-> With(reg.m, k, v), ord |-> Append(reg.ord, k)]
    BY <1>5 DEF SetSlot
  <2> HIDE DEF new
  <2>3. /\ Exact(new, K, V)
        /\ \A x \in DOMAIN new.m : IF x = k THEN new.m[x] = v
                                   ELSE x \in DOMAIN reg.m /\ new.m[x] = reg.m[x]
    BY <1>3, <1>5, <2>1, <2>2
  <2> QED BY <2>3 DEF new
<1> QED BY <1>2, <1>4, <1>5

\* Forget and forget keep a registry exact, and the key is not in it any more.
LEMMA ForgetExact ==
  ASSUME NEW K, NEW V, NEW reg, Exact(reg, K, V), NEW k
  PROVE  LET new == Forget(reg, k) IN
         /\ Exact(new, K, V)
         /\ DOMAIN new.m = DOMAIN reg.m \ {k}
         /\ \A x \in DOMAIN new.m : new.m[x] = reg.m[x]
<1>1. CASE k \notin DOMAIN reg.m
  BY <1>1 DEF Forget
<1>2. CASE k \in DOMAIN reg.m
  <2> DEFINE w == Without(reg.m, k)
             t == RemoveFirst(reg.ord, k)
             new == Forget(reg, k)
  <2>1. /\ DOMAIN reg.m \subseteq K /\ reg.m \in [DOMAIN reg.m -> V]
        /\ reg.ord \in Seq(K) /\ IsInjective(reg.ord) /\ ToSet(reg.ord) = DOMAIN reg.m
        /\ Len(reg.ord) \in Nat /\ Len(reg.ord) <= Cap
    BY ExactParts
  <2>2. /\ DOMAIN w = DOMAIN reg.m \ {k} /\ DOMAIN w \subseteq K
        /\ w \in [DOMAIN w -> V]
        /\ \A x \in DOMAIN w : w[x] = reg.m[x]
    BY <2>1 DEF Without
  <2>3. /\ t \in Seq(K) /\ IsInjective(t) /\ ToSet(t) = ToSet(reg.ord) \ {k}
        /\ Len(t) = IF k \in ToSet(reg.ord) THEN Len(reg.ord) - 1 ELSE Len(reg.ord)
    BY <2>1, RemoveFirstIs
  <2>4. new = [m |-> w, ord |-> t]
    BY <1>2 DEF Forget
  <2>c. Cap \in Nat
    BY AdmissionAssumption
  <2> HIDE DEF w, t, new
  <2>5. ToSet(t) = DOMAIN w /\ Len(t) <= Cap
    BY <2>1, <2>2, <2>3, <2>c
  <2>6. Exact(new, K, V) /\ new.m = w
    BY <2>2, <2>3, <2>4, <2>5, ExactFrom
  <2> QED BY <2>2, <2>6 DEF new
<1> QED BY <1>1, <1>2

\* An empty registry.
LEMMA NothingExact == ASSUME NEW K, NEW V PROVE Exact(Nothing, K, V)
<1>1. Cap \in Nat
  BY AdmissionAssumption
<1>2. DOMAIN <<>> = {} /\ <<>> \in [DOMAIN <<>> -> V]
  OBVIOUS
<1>3. <<>> \in Seq(K) /\ Len(<<>>) <= Cap
  BY <1>1
<1>4. IsInjective(<<>>) /\ ToSet(<<>>) = {}
  BY <1>2 DEF IsInjective, ToSet
<1> QED BY <1>2, <1>3, <1>4, ExactFrom DEF Nothing

\* convTurns.set, wiped or not, gives the conversation its last turn.
LEMMA SetTurnMap ==
  ASSUME NEW K, NEW V, NEW m, IsMap(m, K, V), NEW k \in K, NEW v \in V
  PROVE  IsMap(SetTurn(m, k, v), K, V)
<1>1. DOMAIN m \subseteq K /\ m \in [DOMAIN m -> V]
  BY DEF IsMap
<1>2. DOMAIN <<>> \subseteq K /\ <<>> \in [DOMAIN <<>> -> V]
  OBVIOUS
<1> DEFINE b == IF Cardinality(DOMAIN m) >= Cap THEN <<>> ELSE m
           w == With(b, k, v)
<1>3. DOMAIN b \subseteq K /\ b \in [DOMAIN b -> V]
  BY <1>1, <1>2
<1> HIDE DEF b
<1>4. DOMAIN w \subseteq K /\ w \in [DOMAIN w -> V]
  BY <1>3 DEF With
<1>5. SetTurn(m, k, v) = w
  BY DEF SetTurn, b
<1> HIDE DEF w
<1> QED BY <1>4, <1>5 DEF IsMap

-----------------------------------------------------------------------------
(* The invariant.                                                          *)

\* The slots on which a conversation must not be credited.
Disproved(c) == spoilt[c] \ (carried[c] \cup {RingSlot[Prefix[c]]})

\* A request that is under way has its conversation and a slot.
Placed ==
  \A r \in Reqs : IF req[r].at = "idle" THEN req[r].conv = None
                  ELSE req[r].conv \in Convs /\ req[r].slot \in Slots

\* A disproved slot is in nobody's hands: no turn under way has it, and convSlots does
\* not give it to the next.
NobodysSlot ==
  \A c \in Convs :
    /\ \A r \in InFlight(c) : req[r].slot \notin Disproved(c)
    /\ c \in DOMAIN convSlot.m => convSlot.m[c] \notin Disproved(c)

TurnFacts == Placed /\ NobodysSlot

\* The registries, and everything else.
Registries ==
  /\ Exact(known, PKeys, Nat) /\ Exact(convSlot, Convs, Slots) /\ Exact(last, Keys, Prompt)
  /\ IsMap(convLast, Convs, [tail : Nat, total : Nat])

Rest ==
  /\ held \in [Slots -> SUBSET Prompt]
  /\ \A s \in Slots : \A p, q \in held[s] : p = q
  /\ down \in BOOLEAN
  /\ talk \in [Convs -> [era : 0..MaxSlides, tail : Nat]]
  /\ spoilt \in [Convs -> SUBSET Slots] /\ carried \in [Convs -> SUBSET Slots]
  /\ events \in 0..MaxEvents /\ turns \in 0..MaxTurns

ReqType == req \in [Reqs -> Request]

AdmissionInv == Registries /\ Rest /\ ReqType /\ TurnFacts

\* The invariant has the types and the orders in it.
LEMMA InvGives == AdmissionInv => TypeOK /\ RegistriesOrdered
  BY DEF AdmissionInv, Registries, Rest, ReqType, TypeOK, RegistriesOrdered, Exact

-----------------------------------------------------------------------------
(* What the engine tells.                                                  *)

\* The larger of nothing and one number.
LEMMA MaxOfOne ==
  ASSUME NEW T \in SUBSET Nat, \A a, b \in T : a = b
  PROVE  Max({0} \cup T) \in Nat
<1>1. CASE T = {}
  <2>1. \E x \in {0} \cup T : \A y \in {0} \cup T : x >= y
    BY <1>1
  <2>2. {0} \cup T \subseteq Nat
    OBVIOUS
  <2> QED BY <2>1, <2>2 DEF Max
<1>2. CASE T # {}
  <2>1. PICK t \in T : TRUE
    BY <1>2
  <2>2. \A y \in {0} \cup T : y \in Nat /\ t >= y
    BY <2>1
  <2>3. \E x \in {0} \cup T : \A y \in {0} \cup T : x >= y
    BY <2>1, <2>2
  <2> QED BY <2>2, <2>3 DEF Max
<1> QED BY <1>1, <1>2

\* The smaller of two numbers.
LEMMA MinOfTwo ==
  ASSUME NEW a \in Nat, NEW b \in Nat
  PROVE  Min({a, b}) \in Nat
<1>1. \E x \in {a, b} : \A y \in {a, b} : x <= y
  OBVIOUS
<1> QED BY <1>1 DEF Min

\* The parts of a prompt.
LEMMA PromptParts ==
  ASSUME NEW p \in Prompt
  PROVE  p.conv \in Convs /\ p.era \in 0..MaxSlides /\ p.toks \in Nat
  BY DEF Prompt

\* What two prompts have in common is a number of tokens.
LEMMA CommonType ==
  ASSUME NEW p \in Prompt, NEW q \in Prompt
  PROVE  Common(p, q) \in Nat
<1>1. p.toks \in Nat /\ q.toks \in Nat
  BY PromptParts
<1>2. Min({p.toks, q.toks}) \in Nat /\ PrefixToks \in Nat
  BY <1>1, MinOfTwo, AdmissionAssumption
<1> QED BY <1>2 DEF Common

\* So is what a slot has of a prompt.
LEMMA ReuseType ==
  ASSUME Rest, NEW s \in Slots, NEW q \in Prompt
  PROVE  Reuse(s, q) \in Nat
<1> DEFINE T == {Common(p, q) : p \in held[s]}
<1>1. held[s] \subseteq Prompt /\ \A p, o \in held[s] : p = o
  BY DEF Rest
<1>2. T \in SUBSET Nat
  BY <1>1, CommonType
<1>3. \A a, b \in T : a = b
  BY <1>1
<1> HIDE DEF T
<1>4. Max({0} \cup T) \in Nat
  BY <1>2, <1>3, MaxOfOne
<1> QED BY <1>4 DEF Reuse, T

\* A request under way has a prompt.
LEMMA PromptOfType ==
  ASSUME ReqType, Placed, NEW r \in Reqs, req[r].at # "idle"
  PROVE  PromptOf(r) \in Prompt /\ [PromptOf(r) EXCEPT !.toks = @ + 1] \in Prompt
<1>1. /\ req[r].conv \in Convs /\ req[r].era \in 0..MaxSlides /\ req[r].tail \in Nat
  BY DEF ReqType, Placed, Request
<1>2. PrefixToks \in Nat
  BY AdmissionAssumption
<1>3. PrefixToks + req[r].tail \in Nat /\ PrefixToks + req[r].tail + 1 \in Nat
  BY <1>1, <1>2
<1>4. [PromptOf(r) EXCEPT !.toks = @ + 1]
      = [conv |-> req[r].conv, era |-> req[r].era, toks |-> PrefixToks + req[r].tail + 1]
  BY DEF PromptOf
<1> QED BY <1>1, <1>3, <1>4 DEF PromptOf, Prompt

\* A credit is a number of tokens.
LEMMA CreditType ==
  ASSUME Registries, NEW r \in Reqs, NEW blind \in BOOLEAN
  PROVE  Max({0} \cup Credit(r, blind)) \in Nat
<1>1. \A c \in DOMAIN convLast : convLast[c].total \in Nat
  BY DEF Registries, IsMap
<1>2. Credit(r, blind) \subseteq {convLast[c].total : c \in {req[r].conv} \cap DOMAIN convLast}
  BY DEF Credit
<1>3. Credit(r, blind) \in SUBSET Nat /\ \A a, b \in Credit(r, blind) : a = b
  BY <1>1, <1>2
<1> QED BY <1>3, MaxOfOne

\* So is the estimate of what is new.
LEMMA EstNewType ==
  ASSUME NEW tail \in Nat, NEW hot \in Nat, NEW credit \in Nat
  PROVE  EstNew(tail, hot, credit) \in Nat
<1>1. PrefixToks \in Nat
  BY AdmissionAssumption
<1>2. \A a, b \in Nat : Less(a, b) \in Nat
  BY DEF Less
<1>3. PrefixToks + tail \in Nat /\ \A a \in Nat : a + tail \in Nat
  BY <1>1
<1> QED BY <1>1, <1>2, <1>3 DEF EstNew

\* The hot tokens of a prefix.
LEMMA HotType ==
  ASSUME Registries, NEW p, NEW T, T \subseteq Lookup(known, p)
  PROVE  Max({0} \cup T) \in Nat
<1>1. \A x \in DOMAIN known.m : known.m[x] \in Nat
  BY ExactParts DEF Registries
<1>2. T \in SUBSET Nat /\ \A a, b \in T : a = b
  BY <1>1 DEF Lookup
<1> QED BY <1>2, MaxOfOne

-----------------------------------------------------------------------------
(* The turns.                                                              *)

\* A step of one request.
Moves(r) == req' \in [Reqs -> Request] /\ \A q \in Reqs : q # r => req'[q] = req[q]

\* A step of a request that stays under way.
Stays(r) ==
  /\ Moves(r)
  /\ req[r].at # "idle" /\ req'[r].at # "idle"
  /\ req'[r].conv = req[r].conv

\* An idle request.
LEMMA IdleIs == Idle \in Request /\ Idle.at = "idle" /\ Idle.conv = None
<1>1. 0 \in 0..MaxSlides
  BY AdmissionAssumption
<1> QED BY <1>1 DEF Idle, Request, Places

\* The conversations and slots that convSlots names exist, and so does the ring's slot.
LEMMA SlotsExist ==
  ASSUME Registries
  PROVE  /\ DOMAIN convSlot.m \subseteq Convs /\ \A c \in DOMAIN convSlot.m : convSlot.m[c] \in Slots
         /\ \A c \in Convs : Prefix[c] \in PKeys /\ RingSlot[Prefix[c]] \in Slots
<1>1. DOMAIN convSlot.m \subseteq Convs /\ \A c \in DOMAIN convSlot.m : convSlot.m[c] \in Slots
  BY ExactParts DEF Registries
<1>2. \A c \in Convs : Prefix[c] \in PKeys /\ RingSlot[Prefix[c]] \in Slots
  BY AdmissionAssumption DEF PKeys
<1> QED BY <1>1, <1>2

\* A turn goes on with a slot that is not disproved, and tells nobody of another.
LEMMA StaysFacts ==
  ASSUME TurnFacts, NEW r \in Reqs, NEW c \in Convs, req[r].conv = c,
         Stays(r), UNCHANGED carried, \A d \in Convs : spoilt'[d] \subseteq spoilt[d],
         req'[r].slot \in Slots, req'[r].slot \notin Disproved(c)',
         \A d \in DOMAIN convSlot'.m :
           \/ d = c /\ convSlot'.m[d] = req'[r].slot
           \/ d \in DOMAIN convSlot.m /\ convSlot'.m[d] = convSlot.m[d]
  PROVE  TurnFacts'
<1>1. Placed'
  BY DEF TurnFacts, Placed, Stays, Moves
<1>2. \A d \in Convs : InFlight(d)' = InFlight(d)
  BY DEF InFlight, Stays, Moves
<1>4. \A d \in Convs : Disproved(d)' \subseteq Disproved(d)
  BY DEF Disproved
<1>5. ASSUME NEW d \in Convs, NEW q \in InFlight(d)' PROVE req'[q].slot \notin Disproved(d)'
  <2>1. q \in Reqs /\ q \in InFlight(d) /\ req[q].conv = d
    BY <1>2, <1>5 DEF InFlight
  <2>2. CASE q = r
    BY <2>1, <2>2
  <2>3. CASE q # r
    <3>1. req'[q] = req[q]
      BY <2>1, <2>3 DEF Stays, Moves
    <3>2. req[q].slot \notin Disproved(d)
      BY <2>1 DEF TurnFacts, NobodysSlot
    <3> QED BY <3>1, <3>2, <1>4
  <2> QED BY <2>2, <2>3
<1>6. ASSUME NEW d \in Convs, d \in DOMAIN convSlot'.m PROVE convSlot'.m[d] \notin Disproved(d)'
  <2>1. d \in DOMAIN convSlot.m => convSlot.m[d] \notin Disproved(d)
    BY DEF TurnFacts, NobodysSlot
  <2> QED BY <2>1, <1>4, <1>6
<1>7. NobodysSlot'
  BY <1>5, <1>6 DEF NobodysSlot
<1> QED BY <1>1, <1>7 DEF TurnFacts

\* A turn ends.  What it disproves, no other turn has in hand.
LEMMA EndsFacts ==
  ASSUME ReqType, TurnFacts, NEW r \in Reqs, NEW c \in Convs, req[r].conv = c,
         req' = [req EXCEPT ![r] = Idle],
         \A d \in Convs : d # c => spoilt'[d] = spoilt[d] /\ carried'[d] = carried[d],
         \A q \in InFlight(c) : q # r => req[q].slot \notin Disproved(c)',
         \A d \in DOMAIN convSlot'.m :
           \/ d # c /\ d \in DOMAIN convSlot.m /\ convSlot'.m[d] = convSlot.m[d]
           \/ d = c /\ convSlot'.m[d] \notin Disproved(c)'
  PROVE  TurnFacts' /\ ReqType'
<1>1. c # None
  BY AdmissionAssumption
<1>2. /\ req' \in [Reqs -> Request] /\ req'[r].at = "idle" /\ req'[r].conv = None
      /\ \A q \in Reqs : q # r => req'[q] = req[q]
  BY IdleIs DEF ReqType
<1>3. ReqType'
  BY <1>2 DEF ReqType
<1>4. Placed'
  BY <1>2 DEF TurnFacts, Placed
<1>5. \A d \in Convs : d # c => Disproved(d)' = Disproved(d)
  BY DEF Disproved
<1>6. ASSUME NEW d \in Convs, NEW q \in InFlight(d)' PROVE req'[q].slot \notin Disproved(d)'
  <2>1. q \in Reqs /\ q # r /\ q \in InFlight(d) /\ req'[q] = req[q]
    <3>1. q \in Reqs /\ req'[q].conv = d /\ d # None
      BY <1>6, AdmissionAssumption DEF InFlight
    <3>2. q # r
      BY <3>1, <1>2
    <3> QED BY <3>1, <3>2, <1>2 DEF InFlight
  <2>2. req[q].slot \notin Disproved(d)
    BY <2>1 DEF TurnFacts, NobodysSlot
  <2>3. CASE d # c
    BY <2>1, <2>2, <2>3, <1>5
  <2>4. CASE d = c
    BY <2>1, <2>4
  <2> QED BY <2>3, <2>4
<1>7. ASSUME NEW d \in Convs, d \in DOMAIN convSlot'.m PROVE convSlot'.m[d] \notin Disproved(d)'
  <2>1. d \in DOMAIN convSlot.m => convSlot.m[d] \notin Disproved(d)
    BY DEF TurnFacts, NobodysSlot
  <2> QED BY <2>1, <1>5, <1>7
<1>8. NobodysSlot'
  BY <1>6, <1>7 DEF NobodysSlot
<1> QED BY <1>3, <1>4, <1>8 DEF TurnFacts

\* What does not touch the turns.
LEMMA SameFacts ==
  ASSUME TurnFacts, UNCHANGED <<req, spoilt, carried, convSlot>>
  PROVE  TurnFacts'
  BY DEF TurnFacts, Placed, NobodysSlot, Disproved, InFlight

-----------------------------------------------------------------------------
(* The actions.                                                            *)

\* A request under way, and what it works with.
LEMMA UnderWay ==
  ASSUME AdmissionInv, NEW r \in Reqs, req[r].at # "idle"
  PROVE  /\ req[r] \in Request /\ req[r].conv \in Convs /\ req[r].slot \in Slots
         /\ req[r].slot \notin Disproved(req[r].conv)
         /\ PromptOf(r) \in Prompt /\ [PromptOf(r) EXCEPT !.toks = @ + 1] \in Prompt
         /\ Prefix[req[r].conv] \in PKeys /\ req[r].conv \in Keys /\ Prefix[req[r].conv] \in Keys
         /\ PrefixToks \in Nat /\ req[r].tail \in Nat
<1>1. req[r] \in Request /\ req[r].conv \in Convs /\ req[r].slot \in Slots
  BY DEF AdmissionInv, ReqType, TurnFacts, Placed
<1>2. r \in InFlight(req[r].conv)
  BY DEF InFlight
<1>3. req[r].slot \notin Disproved(req[r].conv)
  BY <1>1, <1>2 DEF AdmissionInv, TurnFacts, NobodysSlot
<1>4. PromptOf(r) \in Prompt /\ [PromptOf(r) EXCEPT !.toks = @ + 1] \in Prompt
  BY PromptOfType DEF AdmissionInv, TurnFacts
<1>5. /\ Prefix[req[r].conv] \in PKeys /\ req[r].conv \in Keys /\ Prefix[req[r].conv] \in Keys
  BY <1>1 DEF PKeys, Keys
<1>6. PrefixToks \in Nat
  BY AdmissionAssumption
<1>7. req[r].tail \in Nat
  BY <1>1 DEF Request
<1> QED BY <1>1, <1>3, <1>4, <1>5, <1>6, <1>7

\* A turn comes with the slot convSlots gives it, or the ring's.
LEMMA ArriveInv ==
  ASSUME AdmissionInv, NEW r \in Reqs, NEW c \in Convs, Arrive(r, c)
  PROVE  AdmissionInv'
<1> DEFINE s == IF c \in DOMAIN convSlot.m THEN convSlot.m[c] ELSE RingSlot[Prefix[c]]
           new == [Idle EXCEPT !.at = "gate", !.conv = c, !.era = talk[c].era,
                               !.tail = talk[c].tail, !.slot = s]
<1>1. s \in Slots
  BY SlotsExist DEF AdmissionInv
<1>2. s \notin Disproved(c)
  BY DEF AdmissionInv, TurnFacts, NobodysSlot, Disproved
<1>3. talk[c].era \in 0..MaxSlides /\ talk[c].tail \in Nat
  BY DEF AdmissionInv, Rest
<1>4. req' = [req EXCEPT ![r] = new] /\ req[r].at = "idle"
  BY DEF Arrive
<1> HIDE DEF s
<1>5. new \in Request /\ new.at = "gate" /\ new.conv = c /\ new.slot = s
  BY <1>1, <1>3 DEF Idle, Request, Places
<1> HIDE DEF new
<1>6. ReqType' /\ req'[r] = new /\ \A q \in Reqs : q # r => req'[q] = req[q]
  BY <1>4, <1>5 DEF AdmissionInv, ReqType
<1>7. UNCHANGED <<held, known, convSlot, convLast, last, down, talk, spoilt, carried, events>>
  BY DEF Arrive, registries
<1>8. Registries'
  BY <1>7 DEF AdmissionInv, Registries
<1>9. turns' \in 0..MaxTurns
  <2>1. turns \in 0..MaxTurns /\ turns < MaxTurns /\ turns' = turns + 1 /\ MaxTurns \in Nat
    BY AdmissionAssumption DEF AdmissionInv, Rest, Arrive
  <2> QED BY <2>1
<1>11. Rest'
  BY <1>7, <1>9 DEF AdmissionInv, Rest
<1>12. req[r].conv = None /\ c # None
  BY <1>4, AdmissionAssumption DEF AdmissionInv, TurnFacts, Placed
<1>15. Placed'
  BY <1>1, <1>5, <1>6 DEF AdmissionInv, TurnFacts, Placed
<1>17. \A d \in Convs : Disproved(d)' = Disproved(d)
  BY <1>7 DEF Disproved
<1>18. ASSUME NEW d \in Convs, NEW q \in InFlight(d)' PROVE req'[q].slot \notin Disproved(d)'
  <2>1. CASE q = r
    <3>1. d = c
      BY <1>5, <1>6, <1>18, <2>1 DEF InFlight
    <3> QED BY <3>1, <2>1, <1>2, <1>5, <1>6, <1>17
  <2>2. CASE q # r
    <3>1. q \in InFlight(d) /\ q \in Reqs /\ req'[q] = req[q]
      BY <1>18, <2>2, <1>6 DEF InFlight
    <3>2. req[q].slot \notin Disproved(d)
      BY <3>1 DEF AdmissionInv, TurnFacts, NobodysSlot
    <3> QED BY <3>1, <3>2, <1>17
  <2> QED BY <2>1, <2>2
<1>19. NobodysSlot'
  BY <1>7, <1>17, <1>18 DEF AdmissionInv, TurnFacts, NobodysSlot
<1> QED BY <1>6, <1>8, <1>11, <1>15, <1>19 DEF AdmissionInv, TurnFacts

\* A step of a turn under way that keeps its slot and the memory of the slots.
LEMMA StaysInv ==
  ASSUME AdmissionInv, NEW r \in Reqs, Stays(r), req'[r].slot = req[r].slot,
         UNCHANGED <<convSlot, spoilt, carried>>, Registries', Rest'
  PROVE  AdmissionInv'
<1>1. /\ req[r].conv \in Convs /\ req[r].slot \in Slots
      /\ req[r].slot \notin Disproved(req[r].conv)
  BY UnderWay DEF Stays
<1>2. PICK c \in Convs : req[r].conv = c
  BY <1>1
<1>3. req'[r].slot \notin Disproved(c)'
  BY <1>1, <1>2 DEF Disproved
<1>4. TurnFacts'
  BY <1>1, <1>2, <1>3, StaysFacts DEF AdmissionInv
<1>5. ReqType'
  BY DEF Stays, Moves, ReqType
<1> QED BY <1>4, <1>5 DEF AdmissionInv

\* Registries that nobody writes, and the rest.
LEMMA SameRegistries ==
  ASSUME Registries, UNCHANGED registries
  PROVE  Registries'
  BY DEF Registries, registries

\* An event within the bound.
LEMMA EventBounded ==
  ASSUME Rest, Event
  PROVE  events' \in 0..MaxEvents
<1>1. MaxEvents \in Nat /\ events \in 0..MaxEvents /\ events < MaxEvents /\ events' = events + 1
  BY AdmissionAssumption DEF Rest, Event
<1> QED BY <1>1

\* A turn under way becomes another record of the same conversation.
LEMMA Replaces ==
  ASSUME ReqType, NEW r \in Reqs, req[r].at # "idle", NEW new \in Request,
         req' = [req EXCEPT ![r] = new], new.at # "idle", new.conv = req[r].conv
  PROVE  Stays(r) /\ req'[r] = new /\ ReqType'
<1>1. req \in [Reqs -> Request]
  BY DEF ReqType
<1>2. /\ req' \in [Reqs -> Request] /\ req'[r] = new
      /\ \A q \in Reqs : q # r => req'[q] = req[q]
  BY <1>1
<1> QED BY <1>2 DEF Stays, Moves, ReqType

\* Admit: the estimate is a number, and the prefix, if known, is touched.
LEMMA AdmitInv ==
  ASSUME AdmissionInv, NEW r \in Reqs, NEW blind \in BOOLEAN, Admit(r, blind)
  PROVE  AdmissionInv'
<1> DEFINE p == Prefix[req[r].conv]
           T == {h \in Lookup(known, p) : Resident(req[r].slot, h, blind)}
           hot == Max({0} \cup T)
           credit == Max({0} \cup Credit(r, blind))
           est == EstNew(req[r].tail, hot, credit)
           at == IF est >= Threshold THEN "route" ELSE "plan"
<1>1. /\ req[r].at = "admit"
      /\ req' = [req EXCEPT ![r] = [@ EXCEPT !.at = at, !.credit = credit, !.est = est]]
      /\ known' = IF p \in DOMAIN known.m THEN [m |-> known.m, ord |-> Touch(known.ord, p)]
                  ELSE known
      /\ UNCHANGED <<held, convSlot, convLast, last, down, talk, spoilt, carried, turns, events>>
  BY DEF Admit, client
<1>2. req[r] \in Request /\ req[r].tail \in Nat
  BY <1>1, UnderWay
<1>3. T \subseteq Lookup(known, p)
  OBVIOUS
<1> HIDE DEF T
<1>4. hot \in Nat
  BY <1>3, HotType DEF AdmissionInv
<1>5. credit \in Nat
  BY CreditType DEF AdmissionInv
<1> HIDE DEF hot, credit
<1>6. est \in Nat
  BY <1>2, <1>4, <1>5, EstNewType
<1>7. at \in {"route", "plan"}
  OBVIOUS
<1> HIDE DEF est, at
<1>8. Stays(r) /\ req'[r].slot = req[r].slot
  <2> DEFINE new == [req[r] EXCEPT !.at = at, !.credit = credit, !.est = est]
  <2>1. new \in Request
    BY <1>2, <1>5, <1>6, <1>7 DEF Request, Places
  <2>2. new.at = at /\ new.conv = req[r].conv /\ new.slot = req[r].slot
    BY <1>2 DEF Request
  <2>3. req' = [req EXCEPT ![r] = new]
    BY <1>1
  <2> HIDE DEF new
  <2> QED BY <1>1, <1>7, <2>1, <2>2, <2>3, Replaces DEF AdmissionInv
<1>9. Registries'
  <2>1. Exact(known', PKeys, Nat)
    BY <1>1, TouchExact DEF AdmissionInv, Registries
  <2> QED BY <1>1, <2>1 DEF AdmissionInv, Registries
<1>10. Rest'
  BY <1>1 DEF AdmissionInv, Rest
<1> QED BY <1>1, <1>8, <1>9, <1>10, StaysInv

\* A request that moves on, and nothing else but the breaker and the events.
LEMMA GoesOn ==
  ASSUME AdmissionInv, NEW r \in Reqs, req[r].at # "idle",
         NEW at \in Places \ {"idle"}, NEW ids \in BOOLEAN,
         req' = [req EXCEPT ![r] = [@ EXCEPT !.at = at, !.ids = ids]],
         UNCHANGED <<held, registries, client>>,
         down' \in BOOLEAN, events' \in 0..MaxEvents
  PROVE  AdmissionInv'
<1> DEFINE new == [req[r] EXCEPT !.at = at, !.ids = ids]
<1>1. req[r] \in Request
  BY DEF AdmissionInv, ReqType
<1>2. new \in Request
  BY <1>1 DEF Request
<1>3. new.at = at /\ new.conv = req[r].conv /\ new.slot = req[r].slot
  BY <1>1 DEF Request
<1>r. req' = [req EXCEPT ![r] = new]
  OBVIOUS
<1> HIDE DEF new
<1>4. Stays(r) /\ req'[r].slot = req[r].slot
  BY <1>2, <1>3, <1>r, Replaces DEF AdmissionInv
<1>5. UNCHANGED <<convSlot, spoilt, carried>>
  BY DEF registries, client
<1>6. Registries'
  BY SameRegistries DEF AdmissionInv
<1>7. Rest'
  BY DEF AdmissionInv, Rest, client
<1> QED BY <1>4, <1>5, <1>6, <1>7, StaysInv

\* The same with the tokenizer's answer kept.
LEMMA GoesOnWithout ==
  ASSUME AdmissionInv, NEW r \in Reqs, req[r].at # "idle",
         NEW at \in Places \ {"idle"}, req' = [req EXCEPT ![r].at = at],
         UNCHANGED <<held, registries, client>>,
         down' \in BOOLEAN, events' \in 0..MaxEvents
  PROVE  AdmissionInv'
<1> DEFINE new == [req[r] EXCEPT !.at = at]
<1>1. req[r] \in Request
  BY DEF AdmissionInv, ReqType
<1>2. new \in Request
  BY <1>1 DEF Request
<1>3. new.at = at /\ new.conv = req[r].conv /\ new.slot = req[r].slot
  BY <1>1 DEF Request
<1>r. req' = [req EXCEPT ![r] = new]
  OBVIOUS
<1> HIDE DEF new
<1>4. Stays(r) /\ req'[r].slot = req[r].slot
  BY <1>2, <1>3, <1>r, Replaces DEF AdmissionInv
<1>5. UNCHANGED <<convSlot, spoilt, carried>>
  BY DEF registries, client
<1>6. Registries'
  BY SameRegistries DEF AdmissionInv
<1>7. Rest'
  BY DEF AdmissionInv, Rest, client
<1> QED BY <1>4, <1>5, <1>6, <1>7, StaysInv

\* The steps before the plan that touch no registry and no slot.
LEMMA RoutesInv ==
  ASSUME AdmissionInv, NEW r \in Reqs,
         Enter(r) \/ RouteToPrefill(r) \/ RouteToDecode(r) \/ SideFails(r) \/ SideSkips(r)
         \/ PrefillOk(r)
  PROVE  AdmissionInv'
<1>1. down \in BOOLEAN /\ events \in 0..MaxEvents
  BY DEF AdmissionInv, Rest
<1>p. \A at \in {"admit", "plan", "prefill", "handoff"} : at \in Places \ {"idle"}
  BY DEF Places
<1>2. CASE RouteToPrefill(r)
  <2>1. req[r].at # "idle" /\ req' = [req EXCEPT ![r] = [@ EXCEPT !.at = "prefill", !.ids = TRUE]]
        /\ UNCHANGED <<held, registries, client>> /\ down' \in BOOLEAN /\ events' \in 0..MaxEvents
    BY <1>1, <1>2 DEF RouteToPrefill
  <2> QED BY <2>1, <1>p, GoesOn
<1>3. CASE RouteToDecode(r)
  <2>1. PICK ids \in BOOLEAN : req' = [req EXCEPT ![r] = [@ EXCEPT !.at = "plan", !.ids = ids]]
    BY <1>3 DEF RouteToDecode
  <2>2. req[r].at # "idle"
        /\ UNCHANGED <<held, registries, client>> /\ down' \in BOOLEAN /\ events' \in 0..MaxEvents
    BY <1>1, <1>3 DEF RouteToDecode
  <2> QED BY <2>1, <2>2, <1>p, GoesOn
<1>4. CASE SideFails(r)
  <2>1. req[r].at # "idle" /\ req' = [req EXCEPT ![r].at = "plan"]
        /\ UNCHANGED <<held, registries, client>> /\ down' \in BOOLEAN /\ Event
    BY <1>4 DEF SideFails, TripBreaker
  <2>2. events' \in 0..MaxEvents
    BY <2>1, EventBounded DEF AdmissionInv
  <2> QED BY <2>1, <2>2, <1>p, GoesOnWithout
<1>5. CASE SideSkips(r)
  <2>1. req[r].at # "idle" /\ req' = [req EXCEPT ![r].at = "plan"]
        /\ UNCHANGED <<held, registries, client>> /\ down' \in BOOLEAN /\ events' \in 0..MaxEvents
    BY <1>1, <1>5 DEF SideSkips
  <2> QED BY <2>1, <1>p, GoesOnWithout
<1>6. CASE PrefillOk(r)
  <2>1. req[r].at # "idle" /\ req' = [req EXCEPT ![r].at = "handoff"]
        /\ UNCHANGED <<held, registries, client>> /\ down' \in BOOLEAN /\ events' \in 0..MaxEvents
    BY <1>1, <1>6 DEF PrefillOk
  <2> QED BY <2>1, <1>p, GoesOnWithout
<1>7. CASE Enter(r)
  <2>1. req[r].at # "idle" /\ req' = [req EXCEPT ![r].at = "admit"]
        /\ UNCHANGED <<held, registries, client>> /\ down' \in BOOLEAN
        /\ (UNCHANGED events \/ Event)
    BY <1>1, <1>7 DEF Enter
  <2>2. events' \in 0..MaxEvents
    BY <1>1, <2>1, EventBounded DEF AdmissionInv
  <2> QED BY <2>1, <2>2, <1>p, GoesOnWithout
<1> QED BY <1>2, <1>3, <1>4, <1>5, <1>6, <1>7

\* A slot that holds another prompt.
LEMMA HeldPut ==
  ASSUME Rest, NEW s \in Slots, NEW p \in Prompt, held' = [held EXCEPT ![s] = {p}]
  PROVE  /\ held' \in [Slots -> SUBSET Prompt]
         /\ \A t \in Slots : \A a, b \in held'[t] : a = b
<1>1. held \in [Slots -> SUBSET Prompt] /\ \A t \in Slots : \A a, b \in held[t] : a = b
  BY DEF Rest
<1> QED BY <1>1

\* The restored slot is the turn's from now on, and no longer disproved.
LEMMA HandoffInv ==
  ASSUME AdmissionInv, NEW r \in Reqs, NEW s \in Slots, HandoffOk(r, s)
  PROVE  AdmissionInv'
<1>1. /\ req[r].at = "handoff" /\ held' = [held EXCEPT ![s] = {PromptOf(r)}]
      /\ req' = [req EXCEPT ![r] = [@ EXCEPT !.at = "plan", !.slot = s, !.pin = s, !.restored = s]]
      /\ spoilt' = [spoilt EXCEPT ![req[r].conv] = @ \ {s}]
      /\ UNCHANGED <<known, convSlot, convLast, last, down, talk, carried, turns, events>>
  BY DEF HandoffOk, registries
<1>2. req[r] \in Request /\ req[r].conv \in Convs /\ PromptOf(r) \in Prompt
  BY <1>1, UnderWay
<1>3. PICK c \in Convs : req[r].conv = c
  BY <1>2
<1>4. spoilt \in [Convs -> SUBSET Slots]
  BY DEF AdmissionInv, Rest
<1> DEFINE new == [req[r] EXCEPT !.at = "plan", !.slot = s, !.pin = s, !.restored = s]
<1>5. new \in Request
  BY <1>2 DEF Request, Places
<1>6. new.at = "plan" /\ new.conv = req[r].conv /\ new.slot = s
  BY <1>2 DEF Request
<1>r. req' = [req EXCEPT ![r] = new]
  BY <1>1
<1> HIDE DEF new
<1>7. Stays(r) /\ ReqType' /\ req'[r].slot = s
  BY <1>1, <1>5, <1>6, <1>r, Replaces DEF AdmissionInv
<1>8. /\ spoilt' \in [Convs -> SUBSET Slots] /\ \A d \in Convs : spoilt'[d] \subseteq spoilt[d]
      /\ s \notin spoilt'[c]
  BY <1>1, <1>3, <1>4
<1>9. s \notin Disproved(c)'
  BY <1>8 DEF Disproved
<1>10. TurnFacts'
  BY <1>1, <1>3, <1>7, <1>8, <1>9, StaysFacts DEF AdmissionInv
<1>11. Registries'
  BY <1>1, SameRegistries DEF AdmissionInv, registries
<1>12. held' \in [Slots -> SUBSET Prompt] /\ \A t \in Slots : \A a, b \in held'[t] : a = b
  BY <1>1, <1>2, HeldPut DEF AdmissionInv
<1>13. Rest'
  BY <1>1, <1>8, <1>12 DEF AdmissionInv, Rest
<1> QED BY <1>7, <1>10, <1>11, <1>13 DEF AdmissionInv

\* The plan remembers the prompt, and gives the conversation the slot it has.
LEMMA PlanInv ==
  ASSUME AdmissionInv, NEW r \in Reqs, Plan(r)
  PROVE  AdmissionInv'
<1> DEFINE c == req[r].conv
           one == Remember(last, c, PromptOf(r))
           two == Remember(one, Prefix[c], PromptOf(r))
<1>1. /\ req[r].at = "plan" /\ req' = [req EXCEPT ![r].at = "decode"]
      /\ last' = IF req[r].ids THEN two ELSE last
      /\ convSlot' = SetSlot(convSlot, c, req[r].slot)
      /\ UNCHANGED <<held, known, convLast, down, talk, spoilt, carried, turns, events>>
  BY DEF Plan, client
<1>2. /\ c \in Convs /\ req[r].slot \in Slots /\ PromptOf(r) \in Prompt
      /\ c \in Keys /\ Prefix[c] \in Keys /\ req[r].slot \notin Disproved(c)
  BY <1>1, UnderWay
<1>3. Exact(one, Keys, Prompt)
  BY <1>2, RememberExact DEF AdmissionInv, Registries
<1> HIDE DEF one
<1>4. Exact(two, Keys, Prompt)
  BY <1>2, <1>3, RememberExact
<1> HIDE DEF two
<1>5. /\ Exact(convSlot', Convs, Slots)
      /\ \A x \in DOMAIN convSlot'.m : IF x = c THEN convSlot'.m[x] = req[r].slot
                                       ELSE x \in DOMAIN convSlot.m /\ convSlot'.m[x] = convSlot.m[x]
  BY <1>1, <1>2, SetSlotExact DEF AdmissionInv, Registries
<1>6. Registries'
  BY <1>1, <1>4, <1>5 DEF AdmissionInv, Registries
<1>7. Rest'
  BY <1>1 DEF AdmissionInv, Rest
<1>8. req \in [Reqs -> Request]
  BY DEF AdmissionInv, ReqType
<1>9. req' \in [Reqs -> Request]
  BY <1>1, <1>8 DEF Request, Places
<1>10. /\ req'[r].at = "decode" /\ req'[r].conv = req[r].conv /\ req'[r].slot = req[r].slot
       /\ \A q \in Reqs : q # r => req'[q] = req[q]
  BY <1>1, <1>8 DEF Request
<1>11. Stays(r)
  BY <1>1, <1>9, <1>10 DEF Stays, Moves
<1>12. PICK d \in Convs : req[r].conv = d
  BY <1>2
<1>13. req'[r].slot \notin Disproved(d)'
  BY <1>1, <1>2, <1>10, <1>12 DEF Disproved
<1>14. TurnFacts'
  BY <1>1, <1>2, <1>5, <1>10, <1>11, <1>12, <1>13, StaysFacts DEF AdmissionInv
<1> QED BY <1>6, <1>7, <1>9, <1>14 DEF AdmissionInv, ReqType

\* The engine serves.
LEMMA ServeInv ==
  ASSUME AdmissionInv, NEW r \in Reqs, NEW s \in Slots, Serve(r, s)
  PROVE  AdmissionInv'
<1> DEFINE q == PromptOf(r)
           n == Reuse(s, q)
           p == [q EXCEPT !.toks = @ + 1]
<1>1. /\ req[r].at = "decode" /\ held' = [held EXCEPT ![s] = {p}]
      /\ req' = [req EXCEPT ![r] = [@ EXCEPT !.at = "finish", !.cache = n]]
      /\ UNCHANGED <<known, convSlot, convLast, last, down, talk, spoilt, carried, turns, events>>
  BY DEF Serve, registries, client
<1>2. q \in Prompt /\ p \in Prompt
  BY <1>1, UnderWay
<1> HIDE DEF q
<1>3. n \in Nat
  BY <1>2, ReuseType DEF AdmissionInv
<1> HIDE DEF n, p
<1>4. req[r] \in Request
  BY DEF AdmissionInv, ReqType
<1> DEFINE new == [req[r] EXCEPT !.at = "finish", !.cache = n]
<1>5. new \in Request
  BY <1>3, <1>4 DEF Request, Places
<1>6. new.at = "finish" /\ new.conv = req[r].conv /\ new.slot = req[r].slot
  BY <1>4 DEF Request
<1>r. req' = [req EXCEPT ![r] = new]
  BY <1>1
<1> HIDE DEF new
<1>7. Stays(r) /\ req'[r].slot = req[r].slot
  BY <1>1, <1>5, <1>6, <1>r, Replaces DEF AdmissionInv
<1>8. Registries'
  BY <1>1, SameRegistries DEF AdmissionInv, registries
<1>9. held' \in [Slots -> SUBSET Prompt] /\ \A t \in Slots : \A a, b \in held'[t] : a = b
  BY <1>1, <1>2, HeldPut DEF AdmissionInv
<1>10. Rest'
  BY <1>1, <1>9 DEF AdmissionInv, Rest
<1> QED BY <1>1, <1>7, <1>8, <1>10, StaysInv

\* The shortest tail.
LEMMA LeastTail == Min(Tails) \in Nat
<1>1. Tails \in SUBSET Nat /\ Tails # {}
  BY AdmissionAssumption
<1>2. \E x \in Tails : \A y \in Tails : x <= y
  BY <1>1, LeastIn
<1> QED BY <1>1, <1>2 DEF Min

\* An engine that fails ends the turn; the streaming half puts the prefix on record.
LEMMA ServeFailsInv ==
  ASSUME AdmissionInv, NEW r \in Reqs, ServeFails(r)
  PROVE  AdmissionInv'
<1> DEFINE warm == Remember(known, Prefix[req[r].conv], PrefixToks)
           more == Remember(last, req[r].conv, PromptOf(r))
<1>1. /\ req[r].at = "decode" /\ Event /\ req' = [req EXCEPT ![r] = Idle]
      /\ known' \in {known, warm} /\ last' \in {last, more}
      /\ UNCHANGED <<held, convSlot, convLast, down, talk, spoilt, carried, turns>>
  BY DEF ServeFails, client
<1>2. /\ req[r].conv \in Convs /\ PromptOf(r) \in Prompt /\ req[r].conv \in Keys
      /\ Prefix[req[r].conv] \in PKeys /\ PrefixToks \in Nat
  BY <1>1, UnderWay
<1>3. PICK c \in Convs : req[r].conv = c
  BY <1>2
<1>4. Exact(warm, PKeys, Nat) /\ Exact(more, Keys, Prompt)
  BY <1>2, RememberExact DEF AdmissionInv, Registries
<1> HIDE DEF warm, more
<1>5. Registries'
  BY <1>1, <1>4 DEF AdmissionInv, Registries
<1>6. DOMAIN convSlot.m \subseteq Convs
  BY SlotsExist DEF AdmissionInv
<1>7. /\ c \in DOMAIN convSlot'.m => convSlot'.m[c] \notin Disproved(c)'
      /\ \A q \in InFlight(c) : q # r => req[q].slot \notin Disproved(c)'
  BY <1>1 DEF AdmissionInv, TurnFacts, NobodysSlot, Disproved
<1>8. TurnFacts' /\ ReqType'
  BY <1>1, <1>3, <1>7, EndsFacts DEF AdmissionInv
<1>9. events' \in 0..MaxEvents
  BY <1>1, EventBounded DEF AdmissionInv
<1>10. Rest'
  BY <1>1, <1>8, <1>9 DEF AdmissionInv, Rest
<1> QED BY <1>5, <1>8, <1>10 DEF AdmissionInv

\* Finish's word on the conversation's slot: disproved and forgotten, or seen.
SlotWord(r, c, S) ==
  /\ convSlot' = IF S = {} THEN WithoutWrong(r)
                 ELSE SetSlot(WithoutWrong(r), c, CHOOSE s \in S : TRUE)
  /\ spoilt' = [spoilt EXCEPT ![c] = (@ \cup InVain(r)) \ S]
  /\ carried' = [carried EXCEPT ![c] = (@ \ InVain(r)) \cup CarriedBy(InFlight(c) \ {r}, r)]

\* It says nothing of other conversations and leaves nothing disproved in place.
LEMMA FinishSlot ==
  ASSUME AdmissionInv, NEW r \in Reqs, NEW c \in Convs, req[r].conv = c,
         req[r].slot \in Slots, NEW n, NEW S \in SlotsOf(n), SlotWord(r, c, S)
  PROVE  /\ Exact(convSlot', Convs, Slots)
         /\ spoilt' \in [Convs -> SUBSET Slots] /\ carried' \in [Convs -> SUBSET Slots]
         /\ \A d \in Convs : d # c => spoilt'[d] = spoilt[d] /\ carried'[d] = carried[d]
         /\ \A q \in InFlight(c) : q # r => req[q].slot \notin Disproved(c)'
         /\ \A d \in DOMAIN convSlot'.m :
              \/ d # c /\ d \in DOMAIN convSlot.m /\ convSlot'.m[d] = convSlot.m[d]
              \/ d = c /\ convSlot'.m[d] \notin Disproved(c)'
<1>w. /\ convSlot' = IF S = {} THEN WithoutWrong(r)
                     ELSE SetSlot(WithoutWrong(r), c, CHOOSE s \in S : TRUE)
      /\ spoilt' = [spoilt EXCEPT ![c] = (@ \cup InVain(r)) \ S]
      /\ carried' = [carried EXCEPT ![c] = (@ \ InVain(r)) \cup CarriedBy(InFlight(c) \ {r}, r)]
  BY DEF SlotWord
<1> DEFINE u == WithoutWrong(r)
<1>1. /\ spoilt \in [Convs -> SUBSET Slots] /\ carried \in [Convs -> SUBSET Slots]
      /\ InVain(r) \subseteq Slots /\ CarriedBy(InFlight(c) \ {r}, r) \subseteq InVain(r)
  BY DEF AdmissionInv, Rest, InVain, CarriedBy
<1>2. /\ spoilt' \in [Convs -> SUBSET Slots] /\ carried' \in [Convs -> SUBSET Slots]
      /\ \A d \in Convs : d # c => spoilt'[d] = spoilt[d] /\ carried'[d] = carried[d]
      /\ spoilt'[c] = (spoilt[c] \cup InVain(r)) \ S
      /\ carried'[c] = (carried[c] \ InVain(r)) \cup CarriedBy(InFlight(c) \ {r}, r)
  BY <1>1, <1>w
<1>3. ASSUME NEW q \in InFlight(c), q # r PROVE req[q].slot \notin Disproved(c)'
  <2>1. req[q].slot \notin Disproved(c)
    BY DEF AdmissionInv, TurnFacts, NobodysSlot
  <2>2. CASE req[q].slot \in InVain(r)
    <3>1. req[q].slot \in CarriedBy(InFlight(c) \ {r}, r)
      BY <1>3, <2>2 DEF CarriedBy
    <3> QED BY <1>2, <3>1 DEF Disproved
  <2>3. CASE req[q].slot \notin InVain(r)
    BY <1>2, <2>1, <2>3 DEF Disproved
  <2> QED BY <2>2, <2>3
<1>4. /\ Exact(u, Convs, Slots) /\ DOMAIN u.m \subseteq DOMAIN convSlot.m
      /\ \A x \in DOMAIN u.m : u.m[x] = convSlot.m[x]
      /\ Wrong(r) => c \notin DOMAIN u.m
  <2>1. Exact(convSlot, Convs, Slots)
    BY DEF AdmissionInv, Registries
  <2>2. CASE Wrong(r)
    <3>1. u = Forget(convSlot, c)
      BY <2>2 DEF WithoutWrong
    <3> QED BY <2>1, <3>1, ForgetExact
  <2>3. CASE ~Wrong(r)
    <3>1. u = convSlot
      BY <2>3 DEF WithoutWrong
    <3> QED BY <2>1, <2>3, <3>1
  <2> QED BY <2>2, <2>3
<1> HIDE DEF u
<1>5. CASE S # {}
  <2> DEFINE s == CHOOSE s \in S : TRUE
  <2>1. S \subseteq Slots
    BY DEF SlotsOf
  <2>2. s \in Slots /\ s \in S
    <3>1. \E x : x \in S
      BY <1>5
    <3>2. s \in S
      BY <3>1, Zenon
    <3> QED BY <2>1, <3>2
  <2>3. convSlot' = SetSlot(u, c, s)
    BY <1>5, <1>w DEF u
  <2> HIDE DEF s
  <2>4. /\ Exact(convSlot', Convs, Slots)
        /\ \A x \in DOMAIN convSlot'.m : IF x = c THEN convSlot'.m[x] = s
                                         ELSE x \in DOMAIN u.m /\ convSlot'.m[x] = u.m[x]
    <3> DEFINE new == SetSlot(u, c, s)
    <3>1. Exact(u, Convs, Slots)
      BY <1>4
    <3>2. /\ Exact(new, Convs, Slots)
          /\ \A x \in DOMAIN new.m : IF x = c THEN new.m[x] = s
                                     ELSE x \in DOMAIN u.m /\ new.m[x] = u.m[x]
      BY ONLY <3>1, <2>2, c \in Convs, SetSlotExact
    <3> HIDE DEF new
    <3>3. convSlot' = new
      BY <2>3 DEF new
    <3> QED BY <3>2, <3>3
  <2>5. s \notin Disproved(c)'
    BY <1>2, <2>2 DEF Disproved
  <2>6. ASSUME NEW d \in DOMAIN convSlot'.m
        PROVE  \/ d # c /\ d \in DOMAIN convSlot.m /\ convSlot'.m[d] = convSlot.m[d]
               \/ d = c /\ convSlot'.m[d] \notin Disproved(c)'
    BY <1>4, <2>4, <2>5
  <2> QED BY <1>2, <1>3, <2>4, <2>6
<1>6. CASE S = {}
  <2>1. convSlot' = u
    BY <1>6, <1>w DEF u
  <2>2. ~Wrong(r) => Disproved(c)' = Disproved(c)
    BY <1>1, <1>2, <1>6 DEF Disproved, InVain
  <2>3. c \in DOMAIN convSlot.m => convSlot.m[c] \notin Disproved(c)
    BY DEF AdmissionInv, TurnFacts, NobodysSlot
  <2>4. ASSUME NEW d \in DOMAIN convSlot'.m
        PROVE  \/ d # c /\ d \in DOMAIN convSlot.m /\ convSlot'.m[d] = convSlot.m[d]
               \/ d = c /\ convSlot'.m[d] \notin Disproved(c)'
    BY <1>4, <2>1, <2>2, <2>3
  <2> QED BY <1>2, <1>3, <1>4, <2>1, <2>4
<1> QED BY <1>5, <1>6

\* The conversation's next turn is longer.
LEMMA NextTurnType ==
  ASSUME Rest, NEW c \in Convs, NEW tail \in Nat
  PROVE  NextTurn(c, tail) \in [Convs -> [era : 0..MaxSlides, tail : Nat]]
<1>1. talk \in [Convs -> [era : 0..MaxSlides, tail : Nat]]
  BY DEF Rest
<1>2. tail + 2 \in Nat
  OBVIOUS
<1>3. [talk EXCEPT ![c].tail = tail + 2] \in [Convs -> [era : 0..MaxSlides, tail : Nat]]
  BY <1>1, <1>2
<1> QED BY <1>1, <1>3 DEF NextTurn

\* Finish keeps all of it.
LEMMA FinishInv ==
  ASSUME AdmissionInv, NEW r \in Reqs, Finish(r)
  PROVE  AdmissionInv'
<1> DEFINE p == Prefix[req[r].conv]
           n == PrefixToks + req[r].tail + 1
           warm == Remember(known, p, PrefixToks)
           cold == Forget(warm, p)
           fresh == IF Cold(r) THEN Forget(last, p) ELSE last
           more == Remember(fresh, req[r].conv, PromptOf(r))
           t == [tail |-> req[r].tail, total |-> n]
<1>1. /\ req[r].at = "finish" /\ convLast' = SetTurn(convLast, req[r].conv, t)
      /\ known' \in {warm, cold} /\ last' \in {fresh, more}
      /\ req' = [req EXCEPT ![r] = Idle] /\ talk' = NextTurn(req[r].conv, req[r].tail)
      /\ UNCHANGED <<held, down, turns, events>>
  BY DEF Finish
<1>2. PICK S \in SlotsOf(n) : SlotWord(r, req[r].conv, S)
  BY DEF Finish, SlotWord
<1>3. /\ req[r].conv \in Convs /\ req[r].slot \in Slots /\ PromptOf(r) \in Prompt
      /\ req[r].conv \in Keys /\ p \in PKeys /\ PrefixToks \in Nat /\ req[r].tail \in Nat
  BY <1>1, UnderWay
<1>4. PICK c \in Convs : req[r].conv = c
  BY <1>3
<1>5. n \in Nat /\ t \in [tail : Nat, total : Nat]
  BY <1>3
<1>6. Exact(warm, PKeys, Nat)
  BY <1>3, RememberExact DEF AdmissionInv, Registries
<1> HIDE DEF warm
<1>7. Exact(cold, PKeys, Nat)
  BY <1>6, ForgetExact
<1>8. Exact(fresh, Keys, Prompt)
  BY ForgetExact DEF AdmissionInv, Registries
<1> HIDE DEF fresh
<1>9. Exact(more, Keys, Prompt)
  BY <1>3, <1>8, RememberExact
<1> HIDE DEF cold, more, t, n
<1>10. IsMap(convLast', Convs, [tail : Nat, total : Nat])
  BY <1>1, <1>3, <1>5, SetTurnMap DEF AdmissionInv, Registries
<1>s. SlotWord(r, c, S) /\ S \in SlotsOf(n)
  BY <1>2, <1>4
<1>11. /\ Exact(convSlot', Convs, Slots)
       /\ spoilt' \in [Convs -> SUBSET Slots] /\ carried' \in [Convs -> SUBSET Slots]
       /\ \A d \in Convs : d # c => spoilt'[d] = spoilt[d] /\ carried'[d] = carried[d]
       /\ \A q \in InFlight(c) : q # r => req[q].slot \notin Disproved(c)'
       /\ \A d \in DOMAIN convSlot'.m :
            \/ d # c /\ d \in DOMAIN convSlot.m /\ convSlot'.m[d] = convSlot.m[d]
            \/ d = c /\ convSlot'.m[d] \notin Disproved(c)'
  BY <1>s, <1>3, <1>4, FinishSlot
<1>12. TurnFacts' /\ ReqType'
  BY <1>1, <1>4, <1>11, EndsFacts DEF AdmissionInv
<1>13. talk' \in [Convs -> [era : 0..MaxSlides, tail : Nat]]
  BY <1>1, <1>3, NextTurnType DEF AdmissionInv
<1>14. Registries'
  BY <1>1, <1>6, <1>7, <1>8, <1>9, <1>10, <1>11 DEF Registries
<1>15. Rest'
  BY <1>1, <1>11, <1>12, <1>13 DEF AdmissionInv, Rest
<1> QED BY <1>12, <1>14, <1>15 DEF AdmissionInv

\* The breaker, the engine on its own and the client.
LEMMA OthersInv ==
  ASSUME AdmissionInv,
         BreakerCloses \/ (\E s \in Slots : Evict(s)) \/ (\E c \in Convs : Slide(c))
  PROVE  AdmissionInv'
<1>1. UNCHANGED <<known, convSlot, convLast, last, req, spoilt, carried, turns>>
  BY DEF BreakerCloses, Evict, Slide, registries, client
<1>2. Registries' /\ ReqType' /\ TurnFacts'
  BY <1>1, SameFacts DEF AdmissionInv, Registries, ReqType
<1>3. CASE BreakerCloses
  BY <1>1, <1>2, <1>3 DEF BreakerCloses, AdmissionInv, Rest, client
<1>4. ASSUME NEW s \in Slots, Evict(s) PROVE AdmissionInv'
  <2>1. held' \in [Slots -> SUBSET Prompt] /\ \A x \in Slots : \A p, q \in held'[x] : p = q
    BY <1>4 DEF Evict, AdmissionInv, Rest
  <2>2. events' \in 0..MaxEvents
    BY <1>4, EventBounded DEF Evict, AdmissionInv
  <2> QED BY <1>1, <1>2, <1>4, <2>1, <2>2 DEF Evict, AdmissionInv, Rest, client
<1>5. ASSUME NEW c \in Convs, Slide(c) PROVE AdmissionInv'
  <2>1. talk \in [Convs -> [era : 0..MaxSlides, tail : Nat]]
    BY DEF AdmissionInv, Rest
  <2>2. talk[c].era + 1 \in 0..MaxSlides
    <3>1. MaxSlides \in Nat /\ talk[c].era \in 0..MaxSlides /\ talk[c].era < MaxSlides
      BY <1>5, <2>1, AdmissionAssumption DEF Slide
    <3> QED BY <3>1
  <2>3. Min(Tails) \in Nat
    BY LeastTail
  <2>4. talk' \in [Convs -> [era : 0..MaxSlides, tail : Nat]]
    BY <1>5, <2>1, <2>2, <2>3 DEF Slide
  <2> QED BY <1>1, <1>2, <1>5, <2>4 DEF Slide, AdmissionInv, Rest
<1> QED BY <1>3, <1>4, <1>5

-----------------------------------------------------------------------------

\* At first the registries are empty and no turn is under way.
LEMMA InitAdmissionInv == Init => AdmissionInv
<1> SUFFICES ASSUME Init PROVE AdmissionInv
  OBVIOUS
<1>1. Registries
  <2>1. known = Nothing /\ convSlot = Nothing /\ last = Nothing /\ convLast = <<>>
    BY DEF Init
  <2>2. IsMap(<<>>, Convs, [tail : Nat, total : Nat])
    BY DEF IsMap
  <2> QED BY <2>1, <2>2, NothingExact DEF Registries
<1>2. /\ req \in [Reqs -> Request]
      /\ \A r \in Reqs : req[r].at = "idle" /\ req[r].conv = None
  BY IdleIs DEF Init
<1>3. \A c \in Convs : InFlight(c) = {}
  BY <1>2, AdmissionAssumption DEF InFlight
<1>4. Rest
  <2>1. 0 \in 0..MaxSlides /\ 0 \in 0..MaxEvents /\ 0 \in 0..MaxTurns
    BY AdmissionAssumption
  <2>2. Min(Tails) \in Nat
    BY LeastTail
  <2>3. talk \in [Convs -> [era : 0..MaxSlides, tail : Nat]]
    BY <2>1, <2>2 DEF Init
  <2> QED BY <2>1, <2>3 DEF Init, Rest
<1>5. NobodysSlot
  <2>1. \A c \in Convs : Disproved(c) = {}
    BY DEF Init, Disproved
  <2> QED BY <2>1 DEF NobodysSlot
<1>6. TurnFacts
  BY <1>2, <1>3, <1>5 DEF TurnFacts, Placed
<1> QED BY <1>1, <1>2, <1>4, <1>6 DEF AdmissionInv, ReqType

\* Every step preserves the invariant.
LEMMA NextAdmissionInv == AdmissionInv /\ [Next]_vars => AdmissionInv'
<1> SUFFICES ASSUME AdmissionInv, [Next]_vars PROVE AdmissionInv'
  OBVIOUS
<1>1. ASSUME NEW r \in Reqs, Prepares(r) PROVE AdmissionInv'
  BY <1>1, AdmitInv, RoutesInv, HandoffInv, PlanInv DEF Prepares
<1>2. ASSUME NEW r \in Reqs, Decodes(r) PROVE AdmissionInv'
  BY <1>2, ServeInv, ServeFailsInv, FinishInv DEF Decodes
<1>3. CASE UNCHANGED vars
  <2>1. Registries' /\ Rest' /\ ReqType'
    BY <1>3 DEF vars, AdmissionInv, Registries, Rest, ReqType
  <2>2. TurnFacts'
    BY <1>3, SameFacts DEF vars, AdmissionInv
  <2> QED BY <2>1, <2>2 DEF AdmissionInv
<1>4. CASE Next
  BY <1>4, <1>1, <1>2, ArriveInv, OthersInv DEF Next
<1> QED BY <1>3, <1>4

\* AdmissionInv holds in every reachable state.
THEOREM AdmissionInvariant == Spec => []AdmissionInv
<1> QED BY InitAdmissionInv, NextAdmissionInv, PTL DEF Spec

\* Type correctness: a request under way always works on a slot, a conversation and a
\* prompt that exist, and a slot holds one prompt at most.
THEOREM AdmissionTypeOK == Spec => []TypeOK
<1>1. AdmissionInv => TypeOK
  BY InvGives
<1> QED BY <1>1, AdmissionInvariant, PTL

\* KnownPrefixes, convSlots and lastPrompts stay within their capacity, and their order
\* names each of their keys once, however records, evictions and forgettings mix.
THEOREM AdmissionRegistries == Spec => []RegistriesOrdered
<1>1. AdmissionInv => RegistriesOrdered
  BY InvGives
<1> QED BY <1>1, AdmissionInvariant, PTL

\* A slot on which a turn was credited in vain is not given credit again, whatever turns
\* of its conversation follow, wait or overlap, unless the engine was seen to use it, a
\* handoff was restored there, the ring seeds it, or a turn that had come before the
\* disproof had read it (Prepare reads convSlots ahead of the gate).
THEOREM AdmissionDropsWrongCredit == Spec => []WrongCreditIsDropped
<1>1. AdmissionInv => WrongCreditIsDropped
  <2> SUFFICES ASSUME AdmissionInv, NEW r \in Reqs, req[r].at \in {"route", "plan"}
               PROVE  req[r].slot \notin
                        spoilt[req[r].conv] \ (carried[req[r].conv]
                                                \cup {RingSlot[Prefix[req[r].conv]]})
    BY DEF WrongCreditIsDropped
  <2>1. req[r].slot \notin Disproved(req[r].conv)
    BY UnderWay
  <2> QED BY <2>1 DEF Disproved
<1> QED BY <1>1, AdmissionInvariant, PTL

=============================================================================
