-------------------------- MODULE PrefillPool_proofs --------------------------
(***************************************************************************)
(* Proofs about PrefillPool, for any jobs, engines, slots, sizes, contexts *)
(* and faults: slots and bookings balance, what is ingested together fits  *)
(* its share, the room makeDecodeRoom accounts for is there, and a split   *)
(* engine's other caches are left alone.                                   *)
(***************************************************************************)
EXTENDS PrefillPool, FiniteSetTheorems, SequenceTheorems, WellFoundedInduction, TLAPS

-----------------------------------------------------------------------------
(* Sums.                                                                   *)

Total(w, S) == SumFunctionOnSet(w, S)
\* The element a fold takes next.
One(s) == CHOOSE x \in s : TRUE
\* g has the sum of every subset of S: the recursion of the fold.
Adds(w, S, g) ==
  g = [s \in SUBSET S |-> IF s = {} THEN 0 ELSE w[One(s)] + g[s \ {One(s)}]]

\* The sum, as the recursion's value on the whole set.
LEMMA TotalIs == ASSUME NEW w, NEW S PROVE Total(w, S) = (CHOOSE g : Adds(w, S, g))[S]
  BY DEF Total, SumFunctionOnSet, FoldFunctionOnSet, MapThenFoldSet, Adds, One

\* The element taken next is one of the set.
LEMMA OneIn == ASSUME NEW s, s # {} PROVE One(s) \in s
  BY DEF One

\* A set of subsets of a finite set has a minimal element: this is the induction.
LEMMA MinimalSet ==
  ASSUME NEW S, IsFiniteSet(S), NEW B \in SUBSET (SUBSET S), B # {}
  PROVE  \E T \in B : \A U \in B : U \subseteq T => U = T
<1>1. IsWellFoundedOn(StrictSubsetOrdering(S), SUBSET S)
  BY FS_StrictSubsetOrderingWellFounded, FS_FiniteSubsetsOfFinite, Zenon
<1>2. PICK T \in B : \A U \in B : ~(<<U, T>> \in StrictSubsetOrdering(S))
  BY <1>1, WFMin, Zenon
<1>3. ASSUME NEW U \in B, U \subseteq T, U # T PROVE FALSE
  <2>1. <<U, T>> \in StrictSubsetOrdering(S)
    BY <1>3 DEF StrictSubsetOrdering
  <2> QED BY <1>2, <2>1, Zenon
<1> QED BY <1>3

\* The recursion has one solution,
LEMMA AddsUnique ==
  ASSUME NEW w, NEW S, IsFiniteSet(S), NEW g, NEW h, Adds(w, S, g), Adds(w, S, h)
  PROVE  g = h
<1>d. DOMAIN g = SUBSET S /\ DOMAIN h = SUBSET S
  BY DEF Adds
<1>1. SUFFICES ASSUME NEW B, B = {s \in SUBSET S : g[s] # h[s]}, B # {} PROVE FALSE
  BY DEF Adds
<1>0. B \in SUBSET (SUBSET S)
  BY <1>1
<1>2. PICK T \in B : \A U \in B : U \subseteq T => U = T
  BY <1>0, <1>1, MinimalSet
<1>3. CASE T = {}
  BY <1>1, <1>2, <1>3 DEF Adds
<1>4. CASE T # {}
  <2>1. One(T) \in T /\ T \ {One(T)} \in SUBSET S /\ T \in SUBSET S /\ T \ {One(T)} # T
    BY <1>1, <1>2, <1>4, OneIn
  <2>2. g[T \ {One(T)}] = h[T \ {One(T)}]
    BY <1>1, <1>2, <2>1
  <2>3. g[T] = w[One(T)] + g[T \ {One(T)}] /\ h[T] = w[One(T)] + h[T \ {One(T)}]
    BY <1>4, <2>1 DEF Adds
  <2> QED BY <2>2, <2>3, <1>1, <1>2
<1> QED BY <1>3, <1>4

\* A solution for a set is one for its subsets,
LEMMA AddsRestricts ==
  ASSUME NEW w, NEW S, NEW U \in SUBSET S, NEW g, Adds(w, S, g)
  PROVE  Adds(w, U, [s \in SUBSET U |-> g[s]])
<1> DEFINE h == [s \in SUBSET U |-> g[s]]
<1>1. ASSUME NEW s \in SUBSET U
      PROVE  h[s] = IF s = {} THEN 0 ELSE w[One(s)] + h[s \ {One(s)}]
  <2>1. s \in SUBSET S /\ s \ {One(s)} \in SUBSET U
    OBVIOUS
  <2>2. g[s] = IF s = {} THEN 0 ELSE w[One(s)] + g[s \ {One(s)}]
    BY <2>1 DEF Adds
  <2> QED BY <2>1, <2>2
<1>2. h = [s \in SUBSET U |-> h[s]]
  OBVIOUS
<1> HIDE DEF h
<1>3. Adds(w, U, h)
  BY <1>1, <1>2 DEF Adds
<1> QED BY <1>3 DEF h

\* whose values are the sums.
LEMMA AddsTotal ==
  ASSUME NEW w, NEW S, IsFiniteSet(S), NEW U \in SUBSET S, NEW g, Adds(w, S, g)
  PROVE  g[U] = Total(w, U)
<1> DEFINE h == [s \in SUBSET U |-> g[s]]
<1>1. Adds(w, U, h) /\ h[U] = g[U]
  BY AddsRestricts
<1> HIDE DEF h
<1>2. Adds(w, U, CHOOSE k : Adds(w, U, k))
  BY <1>1
<1>3. IsFiniteSet(U)
  BY FS_Subset
<1>4. h = CHOOSE k : Adds(w, U, k)
  BY <1>1, <1>2, <1>3, AddsUnique
<1> QED BY <1>1, <1>4, TotalIs

\* and it has one: the sums of the smaller sets, put together.
LEMMA AddsExists ==
  ASSUME NEW w, NEW S, IsFiniteSet(S)
  PROVE  \E g : Adds(w, S, g)
<1>1. SUFFICES ASSUME NEW B, B = {s \in SUBSET S : ~ \E g : Adds(w, s, g)}, B # {} PROVE FALSE
  OBVIOUS
<1>0. B \in SUBSET (SUBSET S) /\ B # {}
  BY <1>1
<1>2. PICK T \in B : \A U \in B : U \subseteq T => U = T
  BY <1>0, MinimalSet
<1>3. T \in SUBSET S /\ ~ \E g : Adds(w, T, g)
  BY <1>1, <1>2
<1>4. ASSUME NEW U \in SUBSET T, U # T, U # {}
      PROVE  Total(w, U) = w[One(U)] + Total(w, U \ {One(U)})
  <2>1. PICK g : Adds(w, U, g)
    BY <1>1, <1>2, <1>3, <1>4
  <2>2. IsFiniteSet(U) /\ U \in SUBSET U /\ U \ {One(U)} \in SUBSET U
    BY <1>3, FS_Subset
  <2>3. g[U] = w[One(U)] + g[U \ {One(U)}]
    BY <2>1, <2>2, <1>4 DEF Adds
  <2> QED BY <2>1, <2>2, <2>3, AddsTotal
<1>5. T # {} => Total(w, {}) = 0
  <2> SUFFICES ASSUME T # {} PROVE Total(w, {}) = 0
    OBVIOUS
  <2>1. PICK g : Adds(w, {}, g)
    BY <1>1, <1>2, <1>3
  <2>2. g[{}] = 0 /\ IsFiniteSet({})
    BY <2>1, FS_EmptySet DEF Adds
  <2> QED BY <2>1, <2>2, AddsTotal
<1> DEFINE h == [s \in SUBSET T |->
                   IF s # T THEN Total(w, s)
                   ELSE IF T = {} THEN 0 ELSE w[One(T)] + Total(w, T \ {One(T)})]
<1>6. ASSUME NEW s \in SUBSET T
      PROVE  h[s] = IF s = {} THEN 0 ELSE w[One(s)] + h[s \ {One(s)}]
  <2>1. s # {} => One(s) \in s /\ s \ {One(s)} \in SUBSET T /\ s \ {One(s)} # T
    BY OneIn
  <2>2. CASE s = T
    BY <2>1, <2>2
  <2>3. CASE s # T
    BY <2>1, <2>3, <1>4, <1>5
  <2> QED BY <2>2, <2>3
<1>7. h = [s \in SUBSET T |-> h[s]]
  OBVIOUS
<1> HIDE DEF h
<1>8. Adds(w, T, h)
  BY <1>6, <1>7 DEF Adds
<1> QED BY <1>3, <1>8

\* The sum's own recursion.
LEMMA TotalRec ==
  ASSUME NEW w, NEW S, IsFiniteSet(S)
  PROVE  Total(w, S) = IF S = {} THEN 0 ELSE w[One(S)] + Total(w, S \ {One(S)})
<1>1. PICK g : Adds(w, S, g)
  BY AddsExists
<1>2. S \in SUBSET S /\ S \ {One(S)} \in SUBSET S
  OBVIOUS
<1>3. g[S] = IF S = {} THEN 0 ELSE w[One(S)] + g[S \ {One(S)}]
  BY <1>1, <1>2 DEF Adds
<1> QED BY <1>1, <1>2, <1>3, AddsTotal

\* Nothing sums to zero.
LEMMA TotalEmpty == \A w : Total(w, {}) = 0
  BY TotalRec, FS_EmptySet

\* A sum of naturals is a natural.
LEMMA TotalType ==
  ASSUME NEW w, NEW S, IsFiniteSet(S), \A x \in S : w[x] \in Nat
  PROVE  Total(w, S) \in Nat
<1>1. SUFFICES ASSUME NEW B, B = {s \in SUBSET S : Total(w, s) \notin Nat}, B # {} PROVE FALSE
  OBVIOUS
<1>0. B \in SUBSET (SUBSET S)
  BY <1>1
<1>2. PICK T \in B : \A U \in B : U \subseteq T => U = T
  BY <1>0, <1>1, MinimalSet
<1>3. T \in SUBSET S /\ IsFiniteSet(T) /\ Total(w, T) \notin Nat
  BY <1>1, <1>2, FS_Subset
<1>4. T # {}
  BY <1>3, TotalEmpty
<1>5. One(T) \in T /\ T \ {One(T)} \in SUBSET S /\ T \ {One(T)} # T /\ T \ {One(T)} \subseteq T
  BY <1>3, <1>4, OneIn
<1>6. Total(w, T \ {One(T)}) \in Nat /\ w[One(T)] \in Nat
  BY <1>1, <1>2, <1>3, <1>5
<1> QED BY <1>3, <1>4, <1>6, TotalRec

Splits(w, s) == \A y \in s : Total(w, s) = Total(w, s \ {y}) + w[y]

\* The sum does not depend on the order: any element may be taken out first.
LEMMA TotalRemoves ==
  ASSUME NEW w, NEW S, IsFiniteSet(S), \A y \in S : w[y] \in Nat, NEW x \in S
  PROVE  Total(w, S) = Total(w, S \ {x}) + w[x]
<1>s. SUFFICES Splits(w, S)
  BY DEF Splits
<1>1. SUFFICES ASSUME NEW B, B = {s \in SUBSET S : ~Splits(w, s)}, B # {} PROVE FALSE
  OBVIOUS
<1>0. B \in SUBSET (SUBSET S)
  BY <1>1
<1>2. PICK T \in B : \A U \in B : U \subseteq T => U = T
  BY <1>0, <1>1, MinimalSet
<1>3. T \in SUBSET S /\ IsFiniteSet(T) /\ ~Splits(w, T)
  BY <1>1, <1>2, FS_Subset
<1>4. PICK y \in T : Total(w, T) # Total(w, T \ {y}) + w[y]
  BY <1>3 DEF Splits
<1> DEFINE c == One(T)
<1>5. c \in T /\ Total(w, T) = w[c] + Total(w, T \ {c})
  BY <1>3, <1>4, TotalRec, OneIn
<1> HIDE DEF c
<1>6. /\ IsFiniteSet(T \ {c}) /\ IsFiniteSet(T \ {y}) /\ IsFiniteSet((T \ {c}) \ {y})
      /\ \A z \in T : w[z] \in Nat
  BY <1>3, FS_Subset
<1>7. Total(w, T \ {c}) \in Nat /\ Total(w, T \ {y}) \in Nat /\ Total(w, (T \ {c}) \ {y}) \in Nat
  BY <1>6, TotalType
<1>8. y # c
  BY <1>4, <1>5, <1>6, <1>7
<1>9. Splits(w, T \ {c}) /\ Splits(w, T \ {y})
  BY <1>1, <1>2, <1>3, <1>5
<1>10. Total(w, T \ {c}) = Total(w, (T \ {c}) \ {y}) + w[y]
  BY <1>8, <1>9 DEF Splits
<1>11. Total(w, T \ {y}) = Total(w, (T \ {y}) \ {c}) + w[c]
  BY <1>5, <1>8, <1>9 DEF Splits
<1>12. (T \ {y}) \ {c} = (T \ {c}) \ {y}
  OBVIOUS
<1>13. w[c] \in Nat /\ w[y] \in Nat
  BY <1>5, <1>6
<1> QED BY <1>4, <1>5, <1>7, <1>10, <1>11, <1>12, <1>13

\* The sum depends on the values of the function only.
LEMMA TotalSame ==
  ASSUME NEW w, NEW v, NEW S, IsFiniteSet(S), \A y \in S : w[y] = v[y]
  PROVE  Total(w, S) = Total(v, S)
<1>1. SUFFICES ASSUME NEW B, B = {s \in SUBSET S : Total(w, s) # Total(v, s)}, B # {} PROVE FALSE
  OBVIOUS
<1>0. B \in SUBSET (SUBSET S)
  BY <1>1
<1>2. PICK T \in B : \A U \in B : U \subseteq T => U = T
  BY <1>0, <1>1, MinimalSet
<1>3. T \in SUBSET S /\ IsFiniteSet(T) /\ Total(w, T) # Total(v, T)
  BY <1>1, <1>2, FS_Subset
<1>4. T # {}
  BY <1>3, TotalEmpty
<1>5. One(T) \in T /\ T \ {One(T)} \in SUBSET S /\ T \ {One(T)} # T /\ T \ {One(T)} \subseteq T
  BY <1>3, <1>4, OneIn
<1>6. Total(w, T \ {One(T)}) = Total(v, T \ {One(T)}) /\ w[One(T)] = v[One(T)]
  BY <1>1, <1>2, <1>3, <1>5
<1> QED BY <1>3, <1>4, <1>6, TotalRec

\* One value changes.
LEMMA TotalPut ==
  ASSUME NEW S, IsFiniteSet(S), NEW w \in [S -> Nat], NEW v \in [S -> Nat], NEW x \in S,
         \A y \in S \ {x} : v[y] = w[y]
  PROVE  Total(w, S) \in Nat /\ Total(v, S) = Total(w, S) - w[x] + v[x]
<1>2. IsFiniteSet(S \ {x})
  BY FS_Subset
<1>3. Total(v, S \ {x}) = Total(w, S \ {x})
  BY <1>2, TotalSame
<1>4. Total(w, S \ {x}) \in Nat /\ Total(w, S) \in Nat
  BY <1>2, TotalType
<1>5. Total(w, S) = Total(w, S \ {x}) + w[x] /\ Total(v, S) = Total(v, S \ {x}) + v[x]
  BY TotalRemoves
<1>6. w[x] \in Nat /\ v[x] \in Nat
  OBVIOUS
<1> QED BY <1>3, <1>4, <1>5, <1>6

Topped(T) == \E x \in T : \A y \in T : x >= y

\* A finite set of naturals has a greatest element.
LEMMA MaxIn ==
  ASSUME NEW S, IsFiniteSet(S), S # {}, \A x \in S : x \in Nat
  PROVE  Max(S) \in S /\ \A y \in S : y <= Max(S)
<1>1. Topped(S)
  <2>1. SUFFICES ASSUME NEW B, B = {T \in SUBSET S : T # {} /\ ~Topped(T)}, B # {} PROVE FALSE
    OBVIOUS
  <2>2. B \in SUBSET (SUBSET S)
    BY <2>1
  <2>3. PICK T \in B : \A U \in B : U \subseteq T => U = T
    <3>1. IsFiniteSet(S) /\ B # {}
      BY <2>1
    <3> QED BY <2>2, <3>1, MinimalSet
  <2>4. T \in SUBSET S /\ T # {} /\ ~Topped(T)
    BY <2>1, <2>3
  <2>5. PICK c \in T : TRUE
    BY <2>4
  <2>6. T \ {c} = {} \/ Topped(T \ {c})
    BY <2>1, <2>3, <2>4, <2>5
  <2>7. CASE T \ {c} = {}
    BY <2>4, <2>5, <2>7 DEF Topped
  <2>8. CASE Topped(T \ {c})
    <3>1. PICK m \in T \ {c} : \A y \in T \ {c} : m >= y
      BY <2>8 DEF Topped
    <3>2. m \in Nat /\ c \in Nat /\ \A y \in T : y \in Nat
      BY <2>4, <2>5
    <3>3. CASE m >= c
      BY <2>4, <3>1, <3>2, <3>3 DEF Topped
    <3>4. CASE c >= m
      BY <2>4, <2>5, <3>1, <3>2, <3>4 DEF Topped
    <3> QED BY <3>2, <3>3, <3>4
  <2> QED BY <2>6, <2>7, <2>8
<1>2. Max(S) \in S /\ \A y \in S : Max(S) >= y
  BY <1>1 DEF Max, Topped
<1> QED BY <1>2

-----------------------------------------------------------------------------
(* The invariant.                                                          *)

\* Jobs that know what they want.
Sized == {"wait", "try", "away"} \cup Ingesting \cup Making

\* What a job knows of itself.
JobFacts(j) ==
  /\ job[j].at \in Sized => job[j].size \in Sizes
  /\ job[j].at \in Ingesting \cup Making => job[j].slot \in Slots

\* By its account the state fits.
FitsByAccount(j) ==
  job[j].need + (IF job[j].dec \in Split THEN 0 ELSE job[j].account) <= job[j].cap

\* What a job knows of the engine it makes room in, while nobody else has touched it.
RoomFacts(j) ==
  job[j].at \in Making /\ j \notin changed =>
    /\ job[j].view = Loads(job[j].dec)
    /\ job[j].account = Held(job[j].dec)
    /\ job[j].cap = budget[job[j].dec]
    /\ job[j].at = "restore" => FitsByAccount(j)

BudgetKnown == \A e \in Engines : budget[e] \in {DefaultCtx, Context[e]}

PoolInv ==
  /\ TypeOK
  /\ \A j \in Jobs : JobFacts(j) /\ RoomFacts(j)
  /\ BudgetKnown
  /\ PoolBalances
  /\ IngestsWithinBudget

Facts(j) == JobFacts(j) /\ RoomFacts(j)

-----------------------------------------------------------------------------
(* What a step of one job leaves alone.                                    *)

\* The constants.
LEMMA Sets ==
  /\ IsFiniteSet(Slots) /\ Cardinality(Slots) = SlotCount
  /\ \A n \in Sizes : n \in Nat /\ n # 0 /\ n - 1 \in Nat
  /\ \A e \in Engines : Context[e] \in Nat
  /\ DefaultCtx \in Nat
<1>1. IsFiniteSet(Slots) /\ Cardinality(Slots) = SlotCount
  <2>1. SlotCount \in Nat
    BY PoolAssumption
  <2>2. IsFiniteSet(0..SlotCount - 1)
    BY <2>1, FS_Interval
  <2>3. Cardinality(0..SlotCount - 1) = SlotCount
    BY <2>1, FS_Interval
  <2> QED BY <2>2, <2>3 DEF Slots
<1> QED BY <1>1, PoolAssumption

\* A job that has not begun, and one that is over.
LEMMA NotYetType ==
  /\ NotYet \in Job /\ NotYet.at = "idle" /\ NotYet.size = 0
  /\ \A o \in {"skipped", "failed", "restored"} : Ended(o) \in Job /\ Ended(o).at = o
<1>1. /\ "idle" \in Places /\ "skipped" \in Places /\ "failed" \in Places /\ "restored" \in Places
      /\ 0 \in Sizes \cup {0} /\ (CHOOSE e \in Engines : TRUE) \in Engines
      /\ NoSlot \in Slots \cup {NoSlot} /\ [s \in Slots |-> 0] \in [Slots -> Nat]
      /\ {} \in SUBSET Slots /\ 0 \in Int /\ 0 \in Nat
  BY PoolAssumption DEF Places
<1>2. NotYet \in Job /\ NotYet.at = "idle" /\ NotYet.size = 0
  BY <1>1 DEF NotYet, Job
<1>3. ASSUME NEW o \in {"skipped", "failed", "restored"}
      PROVE  Ended(o) \in Job /\ Ended(o).at = o
  <2>1. o \in Places
    BY <1>1
  <2> QED BY <1>2, <2>1 DEF Ended, Job
<1> QED BY <1>2, <1>3

\* Job i need not look again: nobody has touched its engine, or it is marked.
Calm(i) ==
  job[i].at \in Making /\ i \notin changed' =>
    /\ i \notin changed
    /\ [s \in Slots |-> cell'[job[i].dec][s].held] = Loads(job[i].dec)
    /\ budget'[job[i].dec] = budget[job[i].dec]

\* The rest of the state after a step of job j.
Rest(j) ==
  /\ cell' \in [Engines -> [Slots -> Cell]]
  /\ pHeld' \in [Engines -> Int] /\ routes' \subseteq Jobs
  /\ pend' \in [Jobs -> SUBSET Sizes]
  /\ changed' \subseteq Jobs
  /\ faults' \in 0..MaxFaults
  /\ chats' \in 0..MaxChats
  /\ budget' = budget
  /\ \A i \in Jobs : i # j => Calm(i)

\* A fault within the bound.
LEMMA FaultType ==
  ASSUME TypeOK, NEW j, Fault(j) \/ faults' = faults
  PROVE  faults' \in 0..MaxFaults
<1>1. MaxFaults \in Nat
  BY PoolAssumption
<1>2. faults \in 0..MaxFaults
  BY DEF TypeOK
<1>3. CASE Fault(j)
  BY <1>1, <1>2, <1>3 DEF Fault
<1>4. CASE faults' = faults
  BY <1>2, <1>4
<1>5. QED
  BY <1>3, <1>4

\* A step that touches no engine.
LEMMA RestSame ==
  ASSUME TypeOK, NEW j, UNCHANGED <<cell, budget, pHeld, routes, pend, changed, chats>>,
         faults' \in 0..MaxFaults
  PROVE  Rest(j)
  BY DEF Rest, Calm, Loads, TypeOK

\* A step that changes a slot marks the jobs that counted on it.
LEMMA RestPut ==
  ASSUME TypeOK, NEW j, NEW e \in Engines, NEW s \in Slots, NEW n \in Nat,
         Put(e, s, n), Disturb(e, j), UNCHANGED <<budget, pHeld, routes, pend, chats>>,
         faults' \in 0..MaxFaults
  PROVE  /\ Rest(j)
         /\ [t \in Slots |-> cell'[e][t].held] = [Loads(e) EXCEPT ![s] = n]
<1> DEFINE c == [cell[e][s] EXCEPT !.held = n]
<1>1. cell[e] \in [Slots -> Cell] /\ cell[e][s] \in Cell
  BY DEF TypeOK
<1>2. c \in Cell /\ c.held = n
  BY <1>1 DEF Cell
<1>3. cell' = [cell EXCEPT ![e] = [cell[e] EXCEPT ![s] = c]]
  <2>1. cell \in [Engines -> [Slots -> Cell]]
    BY DEF TypeOK
  <2> QED BY <1>1, <2>1, Zenon DEF Put
<1> HIDE DEF c
<1>4. /\ cell' \in [Engines -> [Slots -> Cell]]
      /\ \A d \in Engines : d # e => cell'[d] = cell[d]
      /\ cell'[e] = [cell[e] EXCEPT ![s] = c]
  BY <1>1, <1>2, <1>3 DEF TypeOK
<1>5. [t \in Slots |-> cell'[e][t].held] = [Loads(e) EXCEPT ![s] = n]
  BY <1>1, <1>2, <1>4 DEF Loads
<1>6. changed' \subseteq Jobs /\ changed \subseteq changed'
  BY DEF Disturb, Watching, TypeOK
<1>7. ASSUME NEW i \in Jobs, i # j
      PROVE  Calm(i)
  <2> SUFFICES ASSUME job[i].at \in Making, i \notin changed'
               PROVE  /\ i \notin changed
                      /\ [t \in Slots |-> cell'[job[i].dec][t].held] = Loads(job[i].dec)
                      /\ budget'[job[i].dec] = budget[job[i].dec]
    BY DEF Calm
  <2>1. job[i].dec # e
    BY <1>7 DEF Disturb, Watching
  <2>2. job[i].dec \in Engines
    BY DEF TypeOK, Job
  <2> QED BY <1>4, <1>6, <2>1, <2>2 DEF Loads
<1>8. /\ pHeld' \in [Engines -> Int] /\ routes' \subseteq Jobs
      /\ pend' \in [Jobs -> SUBSET Sizes] /\ chats' \in 0..MaxChats /\ budget' = budget
  BY DEF TypeOK
<1> QED BY <1>4, <1>5, <1>6, <1>7, <1>8 DEF Rest

\* A job nobody disturbs knows what it knew.
LEMMA FactsFrame ==
  ASSUME NEW i \in Jobs, Facts(i), job'[i] = job[i], Calm(i)
  PROVE  Facts(i)'
<1>1. JobFacts(i)'
  BY DEF Facts, JobFacts
<1>2. RoomFacts(i)'
  <2> SUFFICES ASSUME job[i].at \in Making, i \notin changed'
               PROVE  RoomFacts(i)'
    BY DEF RoomFacts
  <2> DEFINE e == job[i].dec
  <2>1. /\ i \notin changed /\ [s \in Slots |-> cell'[e][s].held] = Loads(e)
        /\ budget'[e] = budget[e]
    BY DEF Calm
  <2>2. Loads(e)' = Loads(e) /\ Held(e)' = Held(e) /\ e' = e
    BY <2>1 DEF Loads, Held
  <2>3. /\ job[i].view = Loads(e) /\ job[i].account = Held(e) /\ job[i].cap = budget[e]
        /\ job[i].at = "restore" => FitsByAccount(i)
    BY <2>1 DEF Facts, RoomFacts
  <2> QED BY <2>1, <2>2, <2>3 DEF RoomFacts, FitsByAccount
<1> QED BY <1>1, <1>2 DEF Facts

\* What PoolBalances and IngestsWithinBudget say of one engine.
Balanced(e) ==
  /\ IsInjective(free[e])
  /\ \A j \in Holders(e) : ~Contains(free[e], job[j].slot)
  /\ \A i, j \in Holders(e) : i # j => job[i].slot # job[j].slot
  /\ Len(free[e]) + Cardinality(Holders(e)) = Cardinality(Slots)
  /\ inflight[e] = SumFunctionOnSet([j \in Jobs |-> job[j].size], Holders(e))
InShare(e) ==
  \/ inflight[e] <= Room(Max({DefaultCtx, Context[e]}))
  \/ Cardinality(Holders(e)) = 1

\* A pool whose holders and bookings stay.
LEMMA SamePool ==
  ASSUME NEW e \in Engines, Balanced(e), e \in Split \/ InShare(e), Holders(e)' = Holders(e),
         \A i \in Holders(e) : job'[i].slot = job[i].slot /\ job'[i].size = job[i].size,
         free'[e] = free[e], inflight'[e] = inflight[e]
  PROVE  Balanced(e)' /\ (e \in Split \/ InShare(e)')
<1>1. SumFunctionOnSet([i \in Jobs |-> job'[i].size], Holders(e))
        = SumFunctionOnSet([i \in Jobs |-> job[i].size], Holders(e))
  <2> DEFINE w == [i \in Jobs |-> job'[i].size]
             v == [i \in Jobs |-> job[i].size]
  <2>1. IsFiniteSet(Holders(e)) /\ \A i \in Holders(e) : w[i] = v[i]
    BY PoolAssumption, FS_Subset DEF Holders
  <2> HIDE DEF w, v
  <2>2. Total(w, Holders(e)) = Total(v, Holders(e))
    BY <2>1, TotalSame
  <2> QED BY <2>2 DEF Total, w, v
<1>2. /\ \A i \in Holders(e) : ~Contains(free[e], job'[i].slot)
      /\ \A i, h \in Holders(e) : i # h => job'[i].slot # job'[h].slot
  BY DEF Balanced
<1>3. Balanced(e)'
  BY <1>1, <1>2 DEF Balanced
<1> QED BY <1>3 DEF InShare

\* The pools do not move when no booking does.
LEMMA PoolFrame ==
  ASSUME TypeOK, PoolBalances, IngestsWithinBudget, NEW j \in Jobs, NEW k \in Job,
         job' = [job EXCEPT ![j] = k], UNCHANGED <<free, inflight>>,
         (k.at \in Ingesting) <=> (job[j].at \in Ingesting),
         k.at \in Ingesting =>
           k.pre = job[j].pre /\ k.slot = job[j].slot /\ k.size = job[j].size
  PROVE  PoolBalances' /\ IngestsWithinBudget'
<1>1. job'[j] = k /\ \A i \in Jobs : i # j => job'[i] = job[i]
  BY DEF TypeOK
<1>2. ASSUME NEW e \in Engines
      PROVE  /\ Holders(e)' = Holders(e)
             /\ \A i \in Holders(e) : job'[i].slot = job[i].slot /\ job'[i].size = job[i].size
  BY <1>1 DEF Holders
<1>3. ASSUME NEW e \in Engines
      PROVE  Balanced(e)' /\ (e \in Split \/ InShare(e)')
  <2>1. Balanced(e) /\ (e \in Split \/ InShare(e))
    BY DEF PoolBalances, Balanced, IngestsWithinBudget, InShare
  <2> QED BY <1>2, <2>1, SamePool
<1> QED BY <1>3 DEF PoolBalances, Balanced, IngestsWithinBudget, InShare

\* A step of one job that books nothing keeps the invariant if the job's own facts hold.
LEMMA StepInv ==
  ASSUME PoolInv, NEW j \in Jobs, NEW k \in Job, job' = [job EXCEPT ![j] = k],
         UNCHANGED <<free, inflight>>, Rest(j),
         (k.at \in Ingesting) <=> (job[j].at \in Ingesting),
         k.at \in Ingesting =>
           k.pre = job[j].pre /\ k.slot = job[j].slot /\ k.size = job[j].size,
         Facts(j)'
  PROVE  PoolInv'
<1>1. TypeOK /\ BudgetKnown /\ PoolBalances /\ IngestsWithinBudget /\ \A i \in Jobs : Facts(i)
  BY DEF PoolInv, Facts
<1>2. job' \in [Jobs -> Job] /\ \A i \in Jobs : i # j => job'[i] = job[i]
  BY <1>1 DEF TypeOK
<1>3. TypeOK'
  BY <1>1, <1>2 DEF TypeOK, Rest
<1>4. \A i \in Jobs : Facts(i)'
  <2> SUFFICES ASSUME NEW i \in Jobs, i # j
               PROVE  Facts(i)'
    OBVIOUS
  <2> QED BY <1>1, <1>2, FactsFrame DEF Rest
<1>5. PoolBalances' /\ IngestsWithinBudget'
  BY <1>1, PoolFrame
<1>6. BudgetKnown'
  BY <1>1 DEF BudgetKnown, Rest
<1> QED BY <1>3, <1>4, <1>5, <1>6 DEF PoolInv, Facts

\* The end of a job that has no slot of the pool.
LEMMA EndsInv ==
  ASSUME PoolInv, NEW j \in Jobs, NEW o \in {"skipped", "failed", "restored"},
         job' = [job EXCEPT ![j] = Ended(o)], job[j].at \notin Ingesting,
         UNCHANGED <<free, inflight>>, Rest(j)
  PROVE  PoolInv'
<1>1. PICK k \in Job : k = Ended(o) /\ k.at = o
  BY NotYetType
<1>2. job' = [job EXCEPT ![j] = k] /\ job'[j] = k /\ k.at \notin Ingesting
  BY <1>1 DEF PoolInv, TypeOK, Ingesting
<1>3. Facts(j)'
  BY <1>1, <1>2 DEF Facts, JobFacts, RoomFacts, Sized, Ingesting, Making
<1> QED BY <1>2, <1>3, StepInv

-----------------------------------------------------------------------------
(* The prefill.                                                            *)

\* What an engine holds is a natural,
LEMMA HeldIs ==
  ASSUME TypeOK, NEW e \in Engines
  PROVE  /\ Loads(e) \in [Slots -> Nat] /\ Held(e) = Total(Loads(e), Slots) /\ Held(e) \in Nat
         /\ \A s \in Slots : Loads(e)[s] = cell[e][s].held
<1>1. Loads(e) \in [Slots -> Nat] /\ \A s \in Slots : Loads(e)[s] = cell[e][s].held
  BY DEF TypeOK, Loads, Cell
<1>2. Held(e) = Total(Loads(e), Slots)
  <2>1. DOMAIN Loads(e) = Slots
    BY <1>1
  <2> QED BY <2>1 DEF Held, SumFunction, Total
<1>3. Total(Loads(e), Slots) \in Nat
  <2>1. \A s \in Slots : Loads(e)[s] \in Nat
    BY <1>1
  <2> QED BY <2>1, Sets, TotalType
<1> QED BY <1>1, <1>2, <1>3

\* and what it cannot give away an integer.
LEMMA CommittedInt ==
  ASSUME TypeOK, NEW e \in Engines
  PROVE  CommittedKV(e) \in Int
<1> DEFINE S == {0} \cup {cell[e][s].held : s \in Idle(e)}
<1>1. IsFiniteSet(S)
  <2>1. IsFiniteSet(Idle(e))
    <3>1. Idle(e) \subseteq Slots
      BY DEF Idle
    <3> QED BY <3>1, Sets, FS_Subset
  <2>2. IsFiniteSet({cell[e][s].held : s \in Idle(e)})
    <3> DEFINE T == {cell[e][s].held : s \in Idle(e)}
    <3>1. [s \in Idle(e) |-> cell[e][s].held] \in Surjection(Idle(e), T)
      BY DEF Surjection
    <3> HIDE DEF T
    <3>2. PICK f : f \in Surjection(Idle(e), T)
      BY <3>1
    <3>3. IsFiniteSet(T)
      BY <2>1, <3>2, FS_Surjection
    <3> QED BY <3>3 DEF T
  <2>3. IsFiniteSet({0})
    BY FS_Singleton
  <2> QED BY <2>2, <2>3, FS_Union
<1>2. S # {} /\ \A x \in S : x \in Nat
  BY DEF TypeOK, Cell, Idle
<1>3. Max(S) \in S
  <2> HIDE DEF S
  <2> QED BY <1>1, <1>2, MaxIn
<1>4. Max(S) \in Nat
  BY <1>2, <1>3
<1> HIDE DEF S
<1>5. CommittedKV(e) = Held(e) - Max(S)
  BY DEF CommittedKV, S
<1> QED BY <1>4, <1>5, HeldIs

\* Prefill begins,
LEMMA BeginInv ==
  ASSUME PoolInv, NEW j \in Jobs, NEW n \in Sizes, NEW pre \in Engines, NEW dec \in Engines,
         Begin(j, n, pre, dec)
  PROVE  PoolInv'
<1>1. /\ job[j].at = "idle"
      /\ UNCHANGED <<cell, free, inflight, budget, pHeld, routes, pend, changed, chats>>
      /\ Fault(j) \/ faults' = faults
  BY DEF Begin
<1>2. TypeOK /\ Facts(j) /\ job[j] \in Job
  BY DEF PoolInv, Facts, TypeOK
<1>3. Rest(j)
  <2>1. faults' \in 0..MaxFaults
    BY <1>1, <1>2, FaultType
  <2> QED BY <1>1, <1>2, <2>1, RestSame
<1>4. CASE job' = [job EXCEPT ![j] = [@ EXCEPT !.at = "wait", !.size = n, !.pre = pre, !.dec = dec]]
  <2> DEFINE k == [job[j] EXCEPT !.at = "wait", !.size = n, !.pre = pre, !.dec = dec]
  <2>1. k \in Job /\ k.at = "wait" /\ k.size = n
    <3>1. "wait" \in Places /\ n \in Sizes \cup {0}
      BY DEF Places
    <3> QED BY <1>2, <3>1 DEF Job
  <2>2. job' = [job EXCEPT ![j] = k]
    BY <1>2, <1>4 DEF TypeOK
  <2> HIDE DEF k
  <2>3. job'[j] = k
    BY <1>2, <2>2 DEF TypeOK
  <2>4. Facts(j)'
    BY <2>1, <2>3 DEF Facts, JobFacts, RoomFacts, Ingesting, Making
  <2> QED BY <1>1, <1>3, <2>1, <2>2, <2>4, StepInv DEF Ingesting
<1>5. CASE job' = [job EXCEPT ![j] = Ended("skipped")]
  BY <1>1, <1>3, <1>5, EndsInv DEF Ingesting
<1> QED BY <1>4, <1>5 DEF Begin

\* or ends at once.
LEMMA BeginFailsInv ==
  ASSUME PoolInv, NEW j \in Jobs, BeginFails(j)
  PROVE  PoolInv'
<1>1. /\ job[j].at = "idle" /\ UNCHANGED <<cell, free, inflight, budget, pHeld, routes, pend, changed, chats>>
      /\ job' = [job EXCEPT ![j] = Ended("failed")] /\ Fault(j)
  BY DEF BeginFails
<1>2. Rest(j)
  BY <1>1, RestSame, FaultType DEF PoolInv
<1> QED BY <1>1, <1>2, EndsInv DEF Ingesting

\* A reading of the engine,
LEMMA LookInv ==
  ASSUME PoolInv, NEW j \in Jobs, Look(j)
  PROVE  PoolInv'
<1>1. /\ job[j].at = "wait"
      /\ UNCHANGED <<cell, free, inflight, budget, routes, pend, changed, faults, chats>>
  BY DEF Look
<1>2. TypeOK /\ Facts(j) /\ job[j] \in Job /\ job[j].pre \in Engines
  BY DEF PoolInv, Facts, TypeOK, Job
<1>4. PICK c \in Int :
        /\ pHeld' = [pHeld EXCEPT ![job[j].pre] = c]
        /\ job' = [job EXCEPT ![j].at = "try", ![j].look = c]
  <2>1. CommittedKV(job[j].pre) \in Int
    BY <1>2, CommittedInt
  <2>2. pHeld[job[j].pre] \in Int
    BY <1>2 DEF TypeOK
  <2> QED BY <2>1, <2>2 DEF Look
<1>3. Rest(j)
  BY <1>1, <1>2, <1>4 DEF Rest, Calm, Loads, TypeOK
<1> DEFINE k == [job[j] EXCEPT !.at = "try", !.look = c]
<1>5. job' = [job EXCEPT ![j] = k]
  <2>1. job' = [job EXCEPT ![j].at = "try", ![j].look = c]
    BY <1>4
  <2>2. job \in [Jobs -> Job]
    BY <1>2 DEF TypeOK
  <2> QED BY <2>1, <2>2, Zenon
<1>6. k \in Job /\ k.at = "try" /\ k.size = job[j].size
  <2>1. "try" \in Places
    BY DEF Places
  <2> QED BY <1>2, <2>1 DEF Job
<1> HIDE DEF k
<1>7. job'[j] = k
  BY <1>2, <1>5 DEF TypeOK
<1>8. Facts(j)'
  BY <1>1, <1>2, <1>6, <1>7 DEF Facts, JobFacts, RoomFacts, Sized, Ingesting, Making
<1> QED BY <1>1, <1>3, <1>5, <1>6, <1>8, StepInv DEF Ingesting

\* that leaves no room,
LEMMA RefusedInv ==
  ASSUME PoolInv, NEW j \in Jobs, Refused(j)
  PROVE  PoolInv'
<1>1. /\ job[j].at = "try"
      /\ UNCHANGED <<cell, free, inflight, budget, pHeld, routes, pend, changed, faults, chats>>
  BY DEF Refused
<1>2. TypeOK /\ Facts(j) /\ job[j] \in Job
  BY DEF PoolInv, Facts, TypeOK
<1>3. Rest(j)
  <2>1. faults' \in 0..MaxFaults
    BY <1>1, <1>2 DEF TypeOK
  <2> QED BY <1>1, <1>2, <2>1, RestSame
<1> DEFINE k == [job[j] EXCEPT !.at = "wait", !.look = 0]
<1>4. job' = [job EXCEPT ![j] = k]
  BY <1>2 DEF Refused, TypeOK
<1>5. k \in Job /\ k.at = "wait" /\ k.size = job[j].size
  <2>1. "wait" \in Places /\ 0 \in Int
    BY DEF Places
  <2> QED BY <1>2, <2>1 DEF Job
<1> HIDE DEF k
<1>6. job'[j] = k
  BY <1>2, <1>4 DEF TypeOK
<1>7. Facts(j)'
  BY <1>1, <1>2, <1>5, <1>6 DEF Facts, JobFacts, RoomFacts, Sized, Ingesting, Making
<1> QED BY <1>1, <1>3, <1>4, <1>5, <1>7, StepInv DEF Ingesting

\* in the end for good.
LEMMA GiveUpInv ==
  ASSUME PoolInv, NEW j \in Jobs, GiveUp(j)
  PROVE  PoolInv'
<1>1. /\ job[j].at = "try" /\ job' = [job EXCEPT ![j] = Ended("skipped")]
      /\ UNCHANGED <<cell, free, inflight, budget, pHeld, routes, pend, changed, faults, chats>>
  BY DEF GiveUp
<1>2. Rest(j)
  BY <1>1, RestSame, FaultType DEF PoolInv
<1> QED BY <1>1, <1>2, EndsInv DEF Ingesting

\* A prefill that moves on and keeps its slot and its booking.
LEMMA MovesInv ==
  ASSUME PoolInv, NEW j \in Jobs, NEW k \in Job, job' = [job EXCEPT ![j] = k],
         UNCHANGED <<free, inflight>>, Rest(j), k.at \in Ingesting, job[j].at \in Ingesting,
         k.pre = job[j].pre, k.slot = job[j].slot, k.size = job[j].size
  PROVE  PoolInv'
<1>1. job'[j] = k
  BY DEF PoolInv, TypeOK
<1>2. JobFacts(j)
  BY DEF PoolInv
<1>3. Facts(j)'
  BY <1>1, <1>2 DEF Facts, JobFacts, RoomFacts, Sized, Ingesting, Making
<1> QED BY <1>3, StepInv

\* The prompt goes into its slot,
LEMMA IngestOkInv ==
  ASSUME PoolInv, NEW j \in Jobs, IngestOk(j)
  PROVE  PoolInv'
<1>1. TypeOK /\ JobFacts(j) /\ job[j] \in Job /\ job[j].at = "ingest"
  BY DEF PoolInv, TypeOK, IngestOk
<1>2. /\ UNCHANGED <<free, inflight, budget, pHeld, routes, pend, faults, chats>>
      /\ Put(job[j].pre, job[j].slot, job[j].size - 1) /\ Disturb(job[j].pre, j)
  BY DEF IngestOk
<1>3. job[j].pre \in Engines /\ job[j].slot \in Slots /\ job[j].size - 1 \in Nat
  BY <1>1, Sets DEF Job, JobFacts, Sized, Ingesting
<1>4. Rest(j)
  <2>1. faults' \in 0..MaxFaults
    BY <1>1, <1>2 DEF TypeOK
  <2>2. PICK e \in Engines, s \in Slots, n \in Nat :
          e = job[j].pre /\ s = job[j].slot /\ n = job[j].size - 1
    BY <1>3
  <2>3. Put(e, s, n) /\ Disturb(e, j)
    BY <1>2, <2>2
  <2> QED BY <1>1, <1>2, <2>1, <2>3, RestPut
<1> DEFINE k == [job[j] EXCEPT !.at = "save"]
<1>5. job' = [job EXCEPT ![j] = k]
  <2>1. job' = [job EXCEPT ![j].at = "save"] /\ job \in [Jobs -> Job]
    BY <1>1 DEF IngestOk, TypeOK
  <2> QED BY <2>1, Zenon
<1>6. /\ k \in Job /\ k.at = "save" /\ k.pre = job[j].pre /\ k.slot = job[j].slot
      /\ k.size = job[j].size
  <2>1. "save" \in Places
    BY DEF Places
  <2> QED BY <1>1, <2>1 DEF Job
<1> HIDE DEF k
<1> QED BY <1>1, <1>2, <1>4, <1>5, <1>6, MovesInv DEF Ingesting

\* or fails to, with part of it left in the slot or nothing.
LEMMA IngestFailsInv ==
  ASSUME PoolInv, NEW j \in Jobs, IngestFails(j)
  PROVE  PoolInv'
<1>1. TypeOK /\ JobFacts(j) /\ job[j] \in Job /\ job[j].at = "ingest"
  BY DEF PoolInv, TypeOK, IngestFails
<1>2. UNCHANGED <<free, inflight, budget, pHeld, routes, pend, chats>> /\ faults' \in 0..MaxFaults
  BY <1>1, FaultType DEF IngestFails
<1>3. Rest(j)
  <2>1. ASSUME NEW n \in 0..job[j].size - 1, Put(job[j].pre, job[j].slot, n), Disturb(job[j].pre, j)
        PROVE  Rest(j)
    <3>1. PICK e \in Engines, s \in Slots : e = job[j].pre /\ s = job[j].slot
      BY <1>1 DEF Job, JobFacts, Ingesting
    <3>2. Put(e, s, n) /\ Disturb(e, j) /\ n \in Nat
      BY <2>1, <3>1
    <3> QED BY <1>1, <1>2, <3>2, RestPut
  <2>2. CASE UNCHANGED <<cell, changed>>
    BY <1>1, <1>2, <2>2, RestSame
  <2> QED BY <2>1, <2>2 DEF IngestFails
<1> DEFINE k == [job[j] EXCEPT !.at = "done"]
<1>4. job' = [job EXCEPT ![j] = k]
  <2>1. job' = [job EXCEPT ![j].at = "done"] /\ job \in [Jobs -> Job]
    BY <1>1 DEF IngestFails, TypeOK
  <2> QED BY <2>1, Zenon
<1>5. /\ k \in Job /\ k.at = "done" /\ k.pre = job[j].pre /\ k.slot = job[j].slot
      /\ k.size = job[j].size
  <2>1. "done" \in Places
    BY DEF Places
  <2> QED BY <1>1, <2>1 DEF Job
<1> HIDE DEF k
<1> QED BY <1>1, <1>2, <1>3, <1>4, <1>5, MovesInv DEF Ingesting

\* The save notes the size, and may forget those of others.
LEMMA SaveOkInv ==
  ASSUME PoolInv, NEW j \in Jobs, SaveOk(j)
  PROVE  PoolInv'
<1>1. TypeOK /\ JobFacts(j) /\ job[j] \in Job /\ job[j].at = "save" /\ job[j].size \in Sizes
  BY DEF PoolInv, TypeOK, SaveOk, JobFacts, Sized, Ingesting
<1>2. UNCHANGED <<cell, free, inflight, budget, pHeld, changed, faults, chats>> /\ NoteRoute(j)
  BY DEF SaveOk
<1>3. /\ pend' \in [Jobs -> SUBSET Sizes] /\ routes' \subseteq Jobs
  BY <1>1, <1>2 DEF NoteRoute, TypeOK
<1>4. Rest(j)
  BY <1>1, <1>2, <1>3 DEF Rest, Calm, Loads, TypeOK
<1>8. PICK held \in Nat : held = cell[job[j].pre][job[j].slot].held
  BY <1>1 DEF TypeOK, Job, JobFacts, Ingesting, Cell
<1> DEFINE k == [job[j] EXCEPT !.at = "done", !.ok = TRUE, !.state = held]
<1>5. job' = [job EXCEPT ![j] = k]
  <2>1. job' = [job EXCEPT ![j].at = "done", ![j].ok = TRUE, ![j].state = held] /\ job \in [Jobs -> Job]
    BY <1>1, <1>8 DEF SaveOk, TypeOK
  <2> QED BY <2>1, Zenon
<1>6. /\ k \in Job /\ k.at = "done" /\ k.pre = job[j].pre /\ k.slot = job[j].slot
      /\ k.size = job[j].size
  <2>1. "done" \in Places
    BY DEF Places
  <2> QED BY <1>1, <2>1 DEF Job
<1> HIDE DEF k
<1> QED BY <1>1, <1>2, <1>4, <1>5, <1>6, MovesInv DEF Ingesting

\* A save that fails notes nothing.
LEMMA SaveFailsInv ==
  ASSUME PoolInv, NEW j \in Jobs, SaveFails(j)
  PROVE  PoolInv'
<1>1. TypeOK /\ JobFacts(j) /\ job[j] \in Job /\ job[j].at = "save"
  BY DEF PoolInv, TypeOK, SaveFails
<1>2. UNCHANGED <<cell, free, inflight, budget, pHeld, routes, pend, changed, chats>> /\ faults' \in 0..MaxFaults
  BY <1>1, FaultType DEF SaveFails
<1>3. Rest(j)
  BY <1>1, <1>2, RestSame
<1> DEFINE k == [job[j] EXCEPT !.at = "done"]
<1>4. job' = [job EXCEPT ![j] = k]
  <2>1. job' = [job EXCEPT ![j].at = "done"] /\ job \in [Jobs -> Job]
    BY <1>1 DEF SaveFails, TypeOK
  <2> QED BY <2>1, Zenon
<1>5. /\ k \in Job /\ k.at = "done" /\ k.pre = job[j].pre /\ k.slot = job[j].slot
      /\ k.size = job[j].size
  <2>1. "done" \in Places
    BY DEF Places
  <2> QED BY <1>1, <2>1 DEF Job
<1> HIDE DEF k
<1> QED BY <1>1, <1>2, <1>3, <1>4, <1>5, MovesInv DEF Ingesting

-----------------------------------------------------------------------------
(* The handoff.                                                            *)

\* A transfer that fails,
LEMMA FetchFailsInv ==
  ASSUME PoolInv, NEW j \in Jobs, FetchFails(j)
  PROVE  PoolInv'
<1>1. /\ job[j].at = "away"
      /\ UNCHANGED <<cell, free, inflight, budget, pHeld, routes, pend, changed, chats>>
      /\ job' = [job EXCEPT ![j] = Ended("failed")] /\ (Fault(j) \/ faults' = faults)
  BY DEF FetchFails
<1>2. Rest(j)
  BY <1>1, RestSame, FaultType DEF PoolInv
<1> QED BY <1>1, <1>2, EndsInv DEF Ingesting

\* What takePending finds is a size, or nothing; the route is one of the engines.
LEMMA TakesPending ==
  ASSUME TypeOK, NEW j \in Jobs
  PROVE  TakePending(j) \in Nat /\ RouteOf(j).dec \in Engines
<1>1. pend[j] \in SUBSET Sizes /\ job[j].dec \in Engines
  BY DEF TypeOK, Job
<1>2. TakePending(j) \in Nat
  BY <1>1, Sets DEF TakePending
<1>3. RouteOf(j).dec \in Engines
  BY <1>1, PoolAssumption DEF RouteOf
<1> QED BY <1>2, <1>3

\* The survey: from here on the job's view is the engine's, until someone comes.
LEMMA SurveyInv ==
  ASSUME PoolInv, NEW j \in Jobs, NEW want \in Slots, Survey(j, want)
  PROVE  PoolInv'
<1>1. TypeOK /\ JobFacts(j) /\ job[j] \in Job /\ job[j].at = "away"
  BY DEF PoolInv, TypeOK, Survey
<1>2. /\ UNCHANGED <<cell, free, inflight, budget, pHeld, routes, faults, chats>>
      /\ pend' = [pend EXCEPT ![j] = {}] /\ changed' = changed \ {j}
  BY DEF Survey
<1>3. Rest(j)
  BY <1>1, <1>2 DEF Rest, Calm, Loads, TypeOK
<1>4. CASE job' = [job EXCEPT ![j] = Ended("skipped")]
  BY <1>1, <1>2, <1>3, <1>4, EndsInv DEF Ingesting
<1>5. ASSUME NEW e \in Engines, e = RouteOf(j).dec, NEW target \in Slots,
             job' = [job EXCEPT ![j].at = "clear", ![j].dec = e, ![j].slot = target,
                       ![j].need = TakePending(j), ![j].view = Loads(e),
                       ![j].left = Idle(e) \ {target}, ![j].account = Held(e),
                       ![j].cap = budget[e]]
      PROVE  PoolInv'
  <2>2. PICK view \in [Slots -> Nat], left \in SUBSET Slots, account \in Int, need \in Nat,
             cap \in Nat :
          /\ view = Loads(e) /\ left = Idle(e) \ {target} /\ account = Held(e)
          /\ need = TakePending(j) /\ cap = budget[e]
    <3>1. Idle(e) \ {target} \in SUBSET Slots
      BY DEF Idle
    <3>2. Held(e) \in Int /\ Loads(e) \in [Slots -> Nat]
      BY <1>1, HeldIs
    <3>3. TakePending(j) \in Nat /\ budget[e] \in Nat
      BY <1>1, TakesPending DEF TypeOK
    <3> QED BY <3>1, <3>2, <3>3
  <2> DEFINE k == [job[j] EXCEPT !.at = "clear", !.dec = e, !.slot = target, !.need = need,
                     !.view = view, !.left = left, !.account = account, !.cap = cap]
  <2>3. job' = [job EXCEPT ![j] = k]
    <3>1. job' = [job EXCEPT ![j].at = "clear", ![j].dec = e, ![j].slot = target,
                    ![j].need = need, ![j].view = view, ![j].left = left,
                    ![j].account = account, ![j].cap = cap]
      BY <1>5, <2>2
    <3>2. job \in [Jobs -> Job]
      BY <1>1 DEF TypeOK
    <3> QED BY ONLY <3>1, <3>2, Zenon
  <2>4. /\ k \in Job /\ k.at = "clear" /\ k.size = job[j].size /\ k.slot = target
        /\ k.dec = e /\ k.view = view /\ k.account = account /\ k.cap = cap
    <3>1. "clear" \in Places /\ target \in Slots \cup {NoSlot}
      BY DEF Places
    <3> QED BY <1>1, <3>1 DEF Job
  <2> HIDE DEF k
  <2>5. job'[j] = k
    BY <1>1, <2>3 DEF TypeOK
  <2>6. JobFacts(j)'
    BY <1>1, <2>4, <2>5 DEF JobFacts, Sized, Ingesting, Making
  <2>7. Loads(job[j].dec)' = Loads(e) /\ Held(job[j].dec)' = Held(e)
    <3>1. Loads(job[j].dec)' = Loads(e)
      BY <1>2, <2>4, <2>5 DEF Loads
    <3> QED BY <3>1 DEF Held
  <2>8. RoomFacts(j)'
    BY <1>2, <2>2, <2>4, <2>5, <2>7 DEF RoomFacts
  <2> QED BY <1>1, <1>2, <1>3, <2>3, <2>4, <2>6, <2>8, StepInv DEF Ingesting, Facts
<1>6. QED
  <2>1. PICK e \in Engines : e = RouteOf(j).dec
    BY <1>1, TakesPending
  <2>2. Idle(e) \subseteq Slots
    BY DEF Idle
  <2> QED BY <1>4, <1>5, <2>1, <2>2 DEF Survey

\* An engine nobody touches holds what it held.
LEMMA SameEngine ==
  ASSUME NEW j \in Jobs, cell' = cell, job'[j].dec = job[j].dec
  PROVE  Loads(job[j].dec)' = Loads(job[j].dec) /\ Held(job[j].dec)' = Held(job[j].dec)
<1>1. Loads(job[j].dec)' = Loads(job[j].dec)
  BY DEF Loads
<1> QED BY <1>1 DEF Held

\* Without a survey the job is marked from the start.
LEMMA SurveyFailsInv ==
  ASSUME PoolInv, NEW j \in Jobs, NEW want \in Slots, SurveyFails(j, want)
  PROVE  PoolInv'
<1>1. TypeOK /\ JobFacts(j) /\ job[j] \in Job /\ job[j].at = "away"
  BY DEF PoolInv, TypeOK, SurveyFails
<1>2. /\ UNCHANGED <<cell, free, inflight, budget, pHeld, routes, chats>> /\ faults' \in 0..MaxFaults
      /\ pend' = [pend EXCEPT ![j] = {}] /\ changed' = changed \cup {j}
  BY <1>1, FaultType DEF SurveyFails
<1>3. Rest(j)
  BY <1>1, <1>2 DEF Rest, Calm, Loads, TypeOK
<1>4. PICK need \in Nat, e \in Engines : need = TakePending(j) /\ e = RouteOf(j).dec
  BY <1>1, TakesPending
<1> DEFINE k == [job[j] EXCEPT !.at = "restore", !.dec = e, !.slot = want, !.need = need]
<1>5. job' = [job EXCEPT ![j] = k]
  <2>1. job' = [job EXCEPT ![j].at = "restore", ![j].dec = e, ![j].slot = want,
                           ![j].need = need]
    BY <1>4 DEF SurveyFails
  <2>2. job \in [Jobs -> Job]
    BY <1>1 DEF TypeOK
  <2> QED BY ONLY <2>1, <2>2, Zenon
<1>6. k \in Job /\ k.at = "restore" /\ k.size = job[j].size /\ k.slot = want
  <2>1. "restore" \in Places /\ want \in Slots \cup {NoSlot}
    BY DEF Places
  <2> QED BY <1>1, <2>1 DEF Job
<1> HIDE DEF k
<1>7. job'[j] = k
  BY <1>1, <1>5 DEF TypeOK
<1>8. Facts(j)'
  BY <1>1, <1>2, <1>6, <1>7
     DEF Facts, JobFacts, RoomFacts, Sized, Ingesting, Making
<1> QED BY <1>1, <1>2, <1>3, <1>5, <1>6, <1>8, StepInv DEF Ingesting

\* What an engine holds when one of its slots has changed.
LEMMA SlotPut ==
  ASSUME NEW w \in [Slots -> Nat], NEW s \in Slots, NEW n \in Nat
  PROVE  /\ Total(w, Slots) \in Nat
         /\ Total([w EXCEPT ![s] = n], Slots) = Total(w, Slots) - w[s] + n
<1>1. PICK v \in [Slots -> Nat] : v = [w EXCEPT ![s] = n]
  OBVIOUS
<1>2. v[s] = n /\ \A y \in Slots \ {s} : v[y] = w[y]
  BY <1>1
<1>3. IsFiniteSet(Slots)
  BY Sets
<1>4. Total(w, Slots) \in Nat /\ Total(v, Slots) = Total(w, Slots) - w[s] + v[s]
  BY <1>2, <1>3, TotalPut
<1> QED BY <1>1, <1>2, <1>4

\* What an erase leaves in the job.
LEMMA EraseShape ==
  ASSUME job \in [Jobs -> Job], NEW j \in Jobs, NEW s,
         job' = [job EXCEPT ![j].at = "room", ![j].left = @ \ {s},
                            ![j].account = @ - job[j].view[s], ![j].view[s] = 0]
  PROVE  job' = [job EXCEPT ![j] = [job[j] EXCEPT !.at = "room", !.left = job[j].left \ {s},
                   !.account = job[j].account - job[j].view[s],
                   !.view = [job[j].view EXCEPT ![s] = 0]]]
  BY Zenon

\* An erase that works takes as much off the account as off the engine.
LEMMA EraseInv ==
  ASSUME PoolInv, NEW j \in Jobs, NEW s \in Slots, job[j].at \in {"clear", "room"},
         Erase(j, s), UNCHANGED <<free, inflight, budget, pHeld, routes, pend, faults, chats>>
  PROVE  PoolInv'
<1>1. TypeOK /\ JobFacts(j) /\ RoomFacts(j) /\ job[j] \in Job /\ faults' \in 0..MaxFaults
  BY DEF PoolInv, TypeOK
<1>2. PICK e \in Engines : e = job[j].dec
  BY <1>1 DEF Job
<1>3. CASE /\ Put(e, s, 0) /\ Disturb(e, j)
           /\ job' = [job EXCEPT ![j].at = "room", ![j].left = @ \ {s},
                        ![j].account = @ - job[j].view[s], ![j].view[s] = 0]
  <2>1. Rest(j) /\ [t \in Slots |-> cell'[e][t].held] = [Loads(e) EXCEPT ![s] = 0]
    BY <1>1, <1>3, RestPut
  <2>2. PICK left \in SUBSET Slots, account \in Int, view \in [Slots -> Nat] :
          /\ left = job[j].left \ {s} /\ account = job[j].account - job[j].view[s]
          /\ view = [job[j].view EXCEPT ![s] = 0]
    <3>1. job[j].left \in SUBSET Slots /\ job[j].account \in Int /\ job[j].view \in [Slots -> Nat]
      BY <1>1 DEF Job
    <3>2. job[j].left \ {s} \in SUBSET Slots
      BY <3>1
    <3>3. job[j].account - job[j].view[s] \in Int
      BY <3>1
    <3>4. [job[j].view EXCEPT ![s] = 0] \in [Slots -> Nat]
      BY <3>1
    <3> QED BY <3>2, <3>3, <3>4
  <2> DEFINE k == [job[j] EXCEPT !.at = "room", !.left = left, !.account = account,
                                 !.view = view]
  <2>3. job' = [job EXCEPT ![j] = k]
    <3>1. job \in [Jobs -> Job]
      BY <1>1 DEF TypeOK
    <3> QED BY <1>3, <2>2, <3>1, EraseShape
  <2>4. /\ k \in Job /\ k.at = "room" /\ k.size = job[j].size /\ k.slot = job[j].slot
        /\ k.dec = job[j].dec /\ k.view = view /\ k.account = account /\ k.need = job[j].need
        /\ k.cap = job[j].cap
    <3>1. "room" \in Places
      BY DEF Places
    <3> QED BY <1>1, <3>1 DEF Job
  <2> HIDE DEF k
  <2>5. job'[j] = k
    BY <1>1, <2>3 DEF TypeOK
  <2>6. JobFacts(j)'
    BY <1>1, <2>4, <2>5 DEF JobFacts, Sized, Ingesting, Making
  <2>7. RoomFacts(j)'
    <3> SUFFICES ASSUME j \notin changed'
                 PROVE  /\ view = Loads(job[j].dec)'
                        /\ account = Held(job[j].dec)'
                        /\ job[j].cap = budget[e]
      BY <1>2, <2>4, <2>5 DEF RoomFacts
    <3>1. job[j].view = Loads(e) /\ job[j].account = Held(e) /\ job[j].cap = budget[e]
      BY <1>1, <1>2, <1>3 DEF RoomFacts, Making, Disturb
    <3>2. Loads(job[j].dec)' = [Loads(e) EXCEPT ![s] = 0]
      BY <1>2, <2>1, <2>4, <2>5 DEF Loads
    <3>3. /\ Loads(e) \in [Slots -> Nat] /\ Held(e) = Total(Loads(e), Slots)
      BY <1>1, HeldIs
    <3>4. Held(job[j].dec)' = Total([Loads(e) EXCEPT ![s] = 0], Slots)
      <4>1. DOMAIN [Loads(e) EXCEPT ![s] = 0] = Slots
        BY <3>3
      <4> QED BY <3>2, <4>1 DEF Held, SumFunction, Total
    <3>5. /\ Total([Loads(e) EXCEPT ![s] = 0], Slots) = Total(Loads(e), Slots) - Loads(e)[s] + 0
          /\ Total(Loads(e), Slots) \in Nat /\ Loads(e)[s] \in Nat
      <4>1. PICK w \in [Slots -> Nat], n \in Nat : w = Loads(e) /\ n = 0
        BY <3>3
      <4>3. /\ Total(w, Slots) \in Nat
            /\ Total([w EXCEPT ![s] = n], Slots) = Total(w, Slots) - w[s] + n
        BY SlotPut
      <4>4. w[s] \in Nat
        BY <4>1
      <4> QED BY <4>1, <4>3, <4>4
    <3> QED BY <2>2, <3>1, <3>2, <3>3, <3>4, <3>5
  <2> QED BY <1>1, <2>1, <2>3, <2>4, <2>6, <2>7, StepInv DEF Ingesting, Facts
<1>4. CASE /\ job' = [job EXCEPT ![j].at = "room", ![j].left = @ \ {s}]
           /\ UNCHANGED <<cell, changed>>
  <2>1. Rest(j)
    BY <1>1, <1>4, RestSame
  <2>2. PICK left \in SUBSET Slots : left = job[j].left \ {s}
    BY <1>1 DEF Job
  <2> DEFINE k == [job[j] EXCEPT !.at = "room", !.left = left]
  <2>3. job' = [job EXCEPT ![j] = k]
    <3>1. job \in [Jobs -> Job]
      BY <1>1 DEF TypeOK
    <3>2. job' = [job EXCEPT ![j] = [job[j] EXCEPT !.at = "room", !.left = job[j].left \ {s}]]
      BY <1>4, <3>1, Zenon
    <3> QED BY <2>2, <3>2
  <2>4. /\ k \in Job /\ k.at = "room" /\ k.size = job[j].size /\ k.slot = job[j].slot
        /\ k.dec = job[j].dec /\ k.view = job[j].view /\ k.account = job[j].account
        /\ k.need = job[j].need /\ k.cap = job[j].cap
    <3>1. "room" \in Places
      BY DEF Places
    <3> QED BY <1>1, <3>1 DEF Job
  <2> HIDE DEF k
  <2>5. job'[j] = k
    BY <1>1, <2>3 DEF TypeOK
  <2>6. JobFacts(j)'
    BY <1>1, <2>4, <2>5 DEF JobFacts, Sized, Ingesting, Making
  <2>7. Loads(job[j].dec)' = Loads(job[j].dec) /\ Held(job[j].dec)' = Held(job[j].dec)
    BY <1>4, <2>4, <2>5, SameEngine
  <2>8. RoomFacts(j)'
    BY <1>1, <1>4, <2>4, <2>5, <2>7 DEF RoomFacts, Making
  <2> QED BY <1>1, <2>1, <2>3, <2>4, <2>6, <2>8, StepInv DEF Ingesting, Facts
<1> QED BY <1>2, <1>3, <1>4 DEF Erase


\* The target is emptied,
LEMMA EraseTargetInv ==
  ASSUME PoolInv, NEW j \in Jobs, EraseTarget(j)
  PROVE  PoolInv'
<1>1. job[j].at = "clear" /\ job[j].at \in {"clear", "room"} /\ Erase(j, job[j].slot)
  BY DEF EraseTarget
<1>2. UNCHANGED <<free, inflight, budget, pHeld, routes, pend, faults, chats>>
  BY DEF EraseTarget
<1>3. PICK s \in Slots : s = job[j].slot
  BY <1>1 DEF PoolInv, JobFacts, Making
<1>4. Erase(j, s)
  BY <1>1, <1>3
<1> QED BY <1>1, <1>2, <1>4, EraseInv

\* then the others; one that is seen empty is passed over.
LEMMA EraseNextInv ==
  ASSUME PoolInv, NEW j \in Jobs, EraseNext(j)
  PROVE  PoolInv'
<1>1. TypeOK /\ JobFacts(j) /\ RoomFacts(j) /\ job[j] \in Job /\ job[j].at = "room"
  BY DEF PoolInv, TypeOK, EraseNext
<1>2. UNCHANGED <<free, inflight, budget, pHeld, routes, pend, faults, chats>>
  BY DEF EraseNext
<1>3. PICK s \in Cheapest(j, job[j].left) :
        \/ Erase(j, s)
        \/ job' = [job EXCEPT ![j].left = @ \ {s}] /\ UNCHANGED <<cell, changed>>
  BY DEF EraseNext
<1>4. s \in Slots
  BY <1>1, <1>3 DEF Cheapest, Job
<1>5. CASE Erase(j, s)
  <2>1. job[j].at \in {"clear", "room"}
    BY <1>1
  <2> QED BY <1>2, <1>4, <1>5, <2>1, EraseInv
<1>6. CASE job' = [job EXCEPT ![j].left = @ \ {s}] /\ UNCHANGED <<cell, changed>>
  <2>1. Rest(j)
    <3>1. faults' \in 0..MaxFaults
      BY <1>1, <1>2 DEF TypeOK
    <3> QED BY <1>1, <1>2, <1>6, <3>1, RestSame
  <2>2. PICK left \in SUBSET Slots : left = job[j].left \ {s}
    BY <1>1 DEF Job
  <2> DEFINE k == [job[j] EXCEPT !.left = left]
  <2>3. job' = [job EXCEPT ![j] = k]
    <3>1. job \in [Jobs -> Job]
      BY <1>1 DEF TypeOK
    <3>2. job' = [job EXCEPT ![j] = [job[j] EXCEPT !.left = job[j].left \ {s}]]
      BY <1>6, <3>1, Zenon
    <3> QED BY <2>2, <3>2
  <2>4. /\ k \in Job /\ k.at = "room" /\ k.size = job[j].size /\ k.slot = job[j].slot
        /\ k.dec = job[j].dec /\ k.view = job[j].view /\ k.account = job[j].account
        /\ k.need = job[j].need /\ k.cap = job[j].cap
    BY <1>1 DEF Job
  <2> HIDE DEF k
  <2>5. job'[j] = k
    BY <1>1, <2>3 DEF TypeOK
  <2>6. JobFacts(j)'
    BY <1>1, <2>4, <2>5 DEF JobFacts, Sized, Ingesting, Making
  <2>7. Loads(job[j].dec)' = Loads(job[j].dec) /\ Held(job[j].dec)' = Held(job[j].dec)
    BY <1>6, <2>4, <2>5, SameEngine
  <2>8. RoomFacts(j)'
    BY <1>1, <1>2, <1>6, <2>4, <2>5, <2>7 DEF RoomFacts, Making
  <2> QED BY <1>1, <1>2, <2>1, <2>3, <2>4, <2>6, <2>8, StepInv DEF Ingesting, Facts
<1> QED BY <1>3, <1>5, <1>6

\* makeDecodeRoom decides to restore only when its account says it fits.
LEMMA RoomDoneInv ==
  ASSUME PoolInv, NEW j \in Jobs, RoomDone(j)
  PROVE  PoolInv'
<1>1. TypeOK /\ JobFacts(j) /\ RoomFacts(j) /\ job[j] \in Job /\ job[j].at = "room"
  BY DEF PoolInv, TypeOK, RoomDone
<1>2. UNCHANGED <<cell, free, inflight, budget, pHeld, routes, pend, changed, faults, chats>>
  BY DEF RoomDone
<1>3. Rest(j)
  <2>1. faults' \in 0..MaxFaults
    BY <1>1, <1>2 DEF TypeOK
  <2> QED BY <1>1, <1>2, <2>1, RestSame
<1>4. CASE job' = [job EXCEPT ![j] = Ended("skipped")]
  BY <1>1, <1>2, <1>3, <1>4, EndsInv DEF Ingesting
<1>5. CASE /\ ~Crowded(j)
           /\ job[j].dec \in Split => job[j].need <= job[j].cap
           /\ job' = [job EXCEPT ![j].at = "restore"]
  <2> DEFINE k == [job[j] EXCEPT !.at = "restore"]
  <2>1. job' = [job EXCEPT ![j] = k]
    <3>1. job' = [job EXCEPT ![j].at = "restore"] /\ job \in [Jobs -> Job]
      BY <1>1, <1>5 DEF TypeOK
    <3> QED BY <3>1, Zenon
  <2>2. /\ k \in Job /\ k.at = "restore" /\ k.size = job[j].size /\ k.slot = job[j].slot
        /\ k.dec = job[j].dec /\ k.view = job[j].view /\ k.account = job[j].account
        /\ k.need = job[j].need /\ k.cap = job[j].cap
    <3>1. "restore" \in Places
      BY DEF Places
    <3> QED BY <1>1, <3>1 DEF Job
  <2> HIDE DEF k
  <2>3. job'[j] = k
    BY <1>1, <2>1 DEF TypeOK
  <2>4. JobFacts(j)'
    BY <1>1, <1>2, <2>2, <2>3 DEF JobFacts, Sized, Ingesting, Making
  <2>5. Loads(job[j].dec)' = Loads(job[j].dec) /\ Held(job[j].dec)' = Held(job[j].dec)
    BY <1>2, <2>2, <2>3, SameEngine
  <2>6. FitsByAccount(j)'
    <3>1. /\ job[j].account \in Int /\ job[j].need \in Nat /\ job[j].cap \in Nat
      BY <1>1 DEF TypeOK, Job
    <3>2. FitsByAccount(j)
      BY <1>5, <3>1 DEF FitsByAccount, Crowded
    <3> QED BY <1>2, <2>2, <2>3, <3>2 DEF FitsByAccount
  <2>7. RoomFacts(j)'
    BY <1>1, <1>2, <2>2, <2>3, <2>5, <2>6 DEF RoomFacts, Making
  <2> QED BY <1>1, <1>2, <1>3, <2>1, <2>2, <2>4, <2>7, StepInv DEF Ingesting, Facts
<1> QED BY <1>4, <1>5 DEF RoomDone

\* The restore works,
LEMMA RestoreOkInv ==
  ASSUME PoolInv, NEW j \in Jobs, RestoreOk(j)
  PROVE  PoolInv'
<1>1. TypeOK /\ JobFacts(j) /\ job[j] \in Job /\ job[j].at = "restore"
  BY DEF PoolInv, TypeOK, RestoreOk
<1>2. /\ UNCHANGED <<free, inflight, budget, pHeld, routes, pend, faults, chats>>
      /\ job' = [job EXCEPT ![j] = Ended("restored")]
  BY DEF RestoreOk
<1>3. PICK e \in Engines, s \in Slots, n \in Nat :
        e = job[j].dec /\ s = job[j].slot /\ n = job[j].state
  BY <1>1 DEF Job, JobFacts, Making
<1>4. Put(e, s, n) /\ Disturb(e, j)
  BY <1>3 DEF RestoreOk
<1>5. faults' \in 0..MaxFaults
  BY <1>1, <1>2 DEF TypeOK
<1>6. Rest(j)
  BY <1>1, <1>2, <1>4, <1>5, RestPut
<1> QED BY <1>1, <1>2, <1>6, EndsInv DEF Ingesting

\* is refused for want of room,
LEMMA RestoreRefusedInv ==
  ASSUME PoolInv, NEW j \in Jobs, RestoreRefused(j)
  PROVE  PoolInv'
<1>1. /\ job[j].at = "restore" /\ job' = [job EXCEPT ![j] = Ended("skipped")]
      /\ UNCHANGED <<cell, free, inflight, budget, pHeld, routes, pend, changed, faults, chats>>
  BY DEF RestoreRefused
<1>2. Rest(j)
  BY <1>1, RestSame, FaultType DEF PoolInv
<1> QED BY <1>1, <1>2, EndsInv DEF Ingesting

\* or fails.
LEMMA RestoreFailsInv ==
  ASSUME PoolInv, NEW j \in Jobs, RestoreFails(j)
  PROVE  PoolInv'
<1>1. /\ job[j].at = "restore" /\ job' = [job EXCEPT ![j] = Ended("failed")]
      /\ UNCHANGED <<cell, free, inflight, budget, pHeld, routes, pend, changed, chats>>
      /\ Fault(j) \/ faults' = faults
  BY DEF RestoreFails
<1>2. Rest(j)
  BY <1>1, RestSame, FaultType DEF PoolInv
<1> QED BY <1>1, <1>2, EndsInv DEF Ingesting

-----------------------------------------------------------------------------
(* The engines.                                                            *)

\* A step of an engine books nothing: it is enough that it marks whom it disturbs.
LEMMA EngineStepInv ==
  ASSUME PoolInv, UNCHANGED <<job, free, inflight, pHeld, routes, pend, faults>>,
         cell' \in [Engines -> [Slots -> Cell]], changed' \subseteq Jobs,
         chats' \in 0..MaxChats, budget' \in [Engines -> Nat], BudgetKnown',
         \A i \in Jobs : Calm(i)
  PROVE  PoolInv'
<1>1. TypeOK /\ PoolBalances /\ IngestsWithinBudget /\ \A i \in Jobs : Facts(i)
  BY DEF PoolInv, Facts
<1>2. TypeOK'
  BY <1>1 DEF TypeOK
<1>3. \A i \in Jobs : Facts(i)'
  BY <1>1, FactsFrame
<1>4. PoolBalances' /\ IngestsWithinBudget'
  <2>1. \A e \in Engines : Holders(e)' = Holders(e)
    BY DEF Holders
  <2> QED BY <1>1, <2>1 DEF PoolBalances, IngestsWithinBudget
<1> QED BY <1>2, <1>3, <1>4 DEF PoolInv, Facts

\* A chat turn changes what its engine holds, and marks who counted on it.
LEMMA ChatStartsInv ==
  ASSUME PoolInv, NEW e \in Engines, NEW s \in Slots, ChatStarts(e, s, ChatSize)
  PROVE  PoolInv'
<1>1. TypeOK /\ BudgetKnown
  BY DEF PoolInv
<1>2. /\ UNCHANGED <<free, inflight, budget, pHeld, routes, pend, job, faults>>
      /\ changed' = changed \cup Watching(e) /\ chats' \in 0..MaxChats
  BY <1>1, PoolAssumption DEF ChatStarts, TypeOK
<1>3. PICK gone \in SUBSET Slots :
        cell' = [cell EXCEPT ![e] = [t \in Slots |->
                   IF t = s THEN [held |-> ChatSize, busy |-> TRUE]
                   ELSE IF t \in gone THEN [held |-> 0, busy |-> FALSE] ELSE cell[e][t]]]
  BY DEF ChatStarts, Idle
<1> DEFINE after == [t \in Slots |-> IF t = s THEN [held |-> ChatSize, busy |-> TRUE]
                       ELSE IF t \in gone THEN [held |-> 0, busy |-> FALSE] ELSE cell[e][t]]
<1>4. after \in [Slots -> Cell]
  <2>1. [held |-> ChatSize, busy |-> TRUE] \in Cell /\ [held |-> 0, busy |-> FALSE] \in Cell
    BY PoolAssumption DEF Cell
  <2>2. \A t \in Slots : cell[e][t] \in Cell
    BY <1>1 DEF TypeOK
  <2> QED BY <2>1, <2>2
<1>5. cell' = [cell EXCEPT ![e] = after]
  BY <1>3
<1> HIDE DEF after
<1>6. /\ cell' \in [Engines -> [Slots -> Cell]]
      /\ \A d \in Engines : d # e => cell'[d] = cell[d]
  BY <1>1, <1>4, <1>5 DEF TypeOK
<1>7. ASSUME NEW i \in Jobs PROVE Calm(i)
  <2> SUFFICES ASSUME job[i].at \in Making, i \notin changed'
               PROVE  /\ i \notin changed
                      /\ [t \in Slots |-> cell'[job[i].dec][t].held] = Loads(job[i].dec)
                      /\ budget'[job[i].dec] = budget[job[i].dec]
    BY DEF Calm
  <2>1. job[i].dec # e
    BY <1>2 DEF Watching
  <2>2. job[i].dec \in Engines
    BY <1>1 DEF TypeOK, Job
  <2> QED BY <1>2, <1>6, <2>1, <2>2 DEF Loads
<1>8. changed' \subseteq Jobs /\ budget' \in [Engines -> Nat] /\ BudgetKnown'
  BY <1>1, <1>2 DEF TypeOK, Watching, BudgetKnown
<1> QED BY <1>2, <1>6, <1>7, <1>8, EngineStepInv

\* Its end does not.
LEMMA ChatEndsInv ==
  ASSUME PoolInv, NEW e \in Engines, NEW s \in Slots, ChatEnds(e, s)
  PROVE  PoolInv'
<1>1. TypeOK /\ BudgetKnown
  BY DEF PoolInv
<1>2. UNCHANGED <<free, inflight, budget, pHeld, routes, pend, job, changed, faults, chats>>
  BY DEF ChatEnds
<1> DEFINE c == [cell[e][s] EXCEPT !.busy = FALSE]
<1>3. cell[e] \in [Slots -> Cell] /\ cell[e][s] \in Cell
  BY <1>1 DEF TypeOK
<1>4. c \in Cell /\ c.held = cell[e][s].held
  BY <1>3 DEF Cell
<1>5. cell' = [cell EXCEPT ![e] = [cell[e] EXCEPT ![s] = c]]
  <2>1. cell \in [Engines -> [Slots -> Cell]]
    BY <1>1 DEF TypeOK
  <2> QED BY <1>3, <2>1, Zenon DEF ChatEnds
<1> HIDE DEF c
<1>6. cell' \in [Engines -> [Slots -> Cell]]
  BY <1>1, <1>3, <1>4, <1>5 DEF TypeOK
<1>7. \A d \in Engines : [t \in Slots |-> cell'[d][t].held] = Loads(d)
  BY <1>1, <1>3, <1>4, <1>5 DEF TypeOK, Loads
<1>8. \A i \in Jobs : Calm(i)
  <2>1. \A i \in Jobs : job[i].dec \in Engines
    BY <1>1 DEF TypeOK, Job
  <2> QED BY <1>2, <1>7, <2>1 DEF Calm
<1>9. /\ changed' \subseteq Jobs /\ budget' \in [Engines -> Nat] /\ BudgetKnown'
      /\ chats' \in 0..MaxChats
  BY <1>1, <1>2 DEF TypeOK, BudgetKnown
<1> QED BY <1>2, <1>6, <1>8, <1>9, EngineStepInv

\* The budget becomes the real one, which disturbs those who reckon with it.
LEMMA ProbeInv ==
  ASSUME PoolInv, NEW e \in Engines, Probe(e)
  PROVE  PoolInv'
<1>1. TypeOK /\ BudgetKnown
  BY DEF PoolInv
<1>2. /\ UNCHANGED <<cell, free, inflight, pHeld, routes, pend, job, faults, chats>>
      /\ changed' = changed \cup Watching(e) /\ budget' = [budget EXCEPT ![e] = Context[e]]
  BY DEF Probe
<1>3. budget' \in [Engines -> Nat] /\ BudgetKnown'
  BY <1>1, <1>2, Sets DEF TypeOK, BudgetKnown
<1>4. ASSUME NEW i \in Jobs PROVE Calm(i)
  <2> SUFFICES ASSUME job[i].at \in Making, i \notin changed'
               PROVE  /\ i \notin changed
                      /\ [t \in Slots |-> cell'[job[i].dec][t].held] = Loads(job[i].dec)
                      /\ budget'[job[i].dec] = budget[job[i].dec]
    BY DEF Calm
  <2>1. job[i].dec # e
    BY <1>2 DEF Watching
  <2>2. job[i].dec \in Engines
    BY <1>1 DEF TypeOK, Job
  <2> QED BY <1>1, <1>2, <2>1, <2>2 DEF Loads, TypeOK
<1>5. /\ cell' \in [Engines -> [Slots -> Cell]] /\ changed' \subseteq Jobs
      /\ chats' \in 0..MaxChats
  BY <1>1, <1>2 DEF TypeOK, Watching
<1> QED BY <1>2, <1>3, <1>4, <1>5, EngineStepInv

-----------------------------------------------------------------------------
(* The pools.                                                              *)

\* The first free slot comes out of the queue,
LEMMA TakesFirst ==
  ASSUME NEW T, NEW q \in Seq(T), q # <<>>, IsInjective(q)
  PROVE  /\ Head(q) \in T /\ Tail(q) \in Seq(T) /\ Len(Tail(q)) = Len(q) - 1
         /\ IsInjective(Tail(q)) /\ ~Contains(Tail(q), Head(q)) /\ Contains(q, Head(q))
         /\ \A x : Contains(Tail(q), x) => Contains(q, x)
<1>1. Len(q) \in Nat \ {0} /\ DOMAIN q = 1..Len(q) /\ Head(q) = q[1] /\ Head(q) \in T
  OBVIOUS
<1>2. /\ Tail(q) \in Seq(T) /\ Len(Tail(q)) = Len(q) - 1
      /\ \A i \in 1..Len(Tail(q)) : Tail(q)[i] = q[i + 1]
  OBVIOUS
<1>3. DOMAIN Tail(q) = 1..Len(Tail(q))
  BY <1>2
<1>4. \A a, b \in 1..Len(q) : q[a] = q[b] => a = b
  BY <1>1 DEF IsInjective
<1>5. \A i \in 1..Len(Tail(q)) : i + 1 \in 1..Len(q) /\ i + 1 # 1 /\ i \in Int
  BY <1>1, <1>2
<1>6. IsInjective(Tail(q))
  BY <1>2, <1>3, <1>4, <1>5 DEF IsInjective
<1>7. ~Contains(Tail(q), Head(q))
  BY <1>1, <1>2, <1>4, <1>5 DEF Contains
<1>8. Contains(q, Head(q))
  BY <1>1 DEF Contains
<1>9. \A x : Contains(Tail(q), x) => Contains(q, x)
  BY <1>2, <1>5 DEF Contains
<1> QED BY <1>1, <1>2, <1>6, <1>7, <1>8, <1>9

\* and a slot given back goes to its end.
LEMMA GivesBack ==
  ASSUME NEW T, NEW q \in Seq(T), NEW x \in T, IsInjective(q), ~Contains(q, x)
  PROVE  /\ Append(q, x) \in Seq(T) /\ Len(Append(q, x)) = Len(q) + 1
         /\ IsInjective(Append(q, x))
         /\ \A y : Contains(Append(q, x), y) => y = x \/ Contains(q, y)
<1> DEFINE p == Append(q, x)
<1>1. /\ Len(q) \in Nat /\ DOMAIN q = 1..Len(q) /\ p \in Seq(T) /\ Len(p) = Len(q) + 1
      /\ DOMAIN p = 1..Len(q) + 1
      /\ \A i \in 1..Len(q) : p[i] = q[i]
      /\ p[Len(q) + 1] = x
  OBVIOUS
<1> HIDE DEF p
<1>2. \A i \in 1..Len(q) + 1 : i = Len(q) + 1 \/ i \in 1..Len(q)
  BY <1>1
<1>3. \A i \in 1..Len(q) : q[i] # x
  BY DEF Contains
<1>4. \A a, b \in 1..Len(q) : q[a] = q[b] => a = b
  BY <1>1 DEF IsInjective
<1>5. IsInjective(p)
  BY <1>1, <1>2, <1>3, <1>4 DEF IsInjective
<1>6. \A y : Contains(p, y) => y = x \/ Contains(q, y)
  BY <1>1, <1>2 DEF Contains
<1> QED BY <1>1, <1>5, <1>6 DEF p

\* A step of job j that moves the pool of one engine only.
LEMMA BookInv ==
  ASSUME PoolInv, NEW j \in Jobs, NEW k \in Job, job' = [job EXCEPT ![j] = k], Rest(j),
         NEW e \in Engines, NEW q \in Seq(Slots), NEW n \in Nat,
         free' = [free EXCEPT ![e] = q], inflight' = [inflight EXCEPT ![e] = n],
         job[j].pre = e, k.at \in Ingesting => k.pre = e,
         Balanced(e)', e \in Split \/ InShare(e)', Facts(j)'
  PROVE  PoolInv'
<1>1. TypeOK /\ BudgetKnown /\ PoolBalances /\ IngestsWithinBudget /\ \A i \in Jobs : Facts(i)
  BY DEF PoolInv, Facts
<1>2. job' \in [Jobs -> Job] /\ job'[j] = k /\ \A i \in Jobs : i # j => job'[i] = job[i]
  BY <1>1 DEF TypeOK
<1>3. /\ free' \in [Engines -> Seq(Slots)] /\ inflight' \in [Engines -> Nat]
      /\ \A d \in Engines : d # e => free'[d] = free[d] /\ inflight'[d] = inflight[d]
  BY <1>1 DEF TypeOK
<1>4. TypeOK'
  BY <1>1, <1>2, <1>3 DEF TypeOK, Rest
<1>5. \A i \in Jobs : Facts(i)'
  <2> SUFFICES ASSUME NEW i \in Jobs, i # j
               PROVE  Facts(i)'
    OBVIOUS
  <2> QED BY <1>1, <1>2, FactsFrame DEF Rest
<1>6. ASSUME NEW d \in Engines
      PROVE  Balanced(d)' /\ (d \in Split \/ InShare(d)')
  <2>1. CASE d = e
    BY <2>1
  <2>2. CASE d # e
    <3>1. Holders(d)' = Holders(d) /\ j \notin Holders(d) /\ Holders(d) \subseteq Jobs
      BY <1>2, <2>2 DEF Holders
    <3>2. \A i \in Holders(d) : job'[i].slot = job[i].slot /\ job'[i].size = job[i].size
      BY <1>2, <3>1
    <3>3. Balanced(d) /\ (d \in Split \/ InShare(d))
      BY <1>1 DEF PoolBalances, Balanced, IngestsWithinBudget, InShare
    <3> QED BY <1>3, <2>2, <3>1, <3>2, <3>3, SamePool
  <2> QED BY <2>1, <2>2
<1>7. PoolBalances' /\ IngestsWithinBudget'
  BY <1>6 DEF PoolBalances, Balanced, IngestsWithinBudget, InShare
<1>8. BudgetKnown'
  BY <1>1 DEF BudgetKnown, Rest
<1> QED BY <1>4, <1>5, <1>7, <1>8 DEF PoolInv, Facts

\* The prefills of an engine: finitely many, each of some size.
LEMMA HoldersAre ==
  ASSUME PoolInv, NEW e \in Engines
  PROVE  /\ IsFiniteSet(Holders(e)) /\ Holders(e) \subseteq Jobs
         /\ \A j \in Holders(e) : job[j].size \in Nat /\ job[j].size # 0
<1>1. Holders(e) \subseteq Jobs
  BY DEF Holders
<1>2. IsFiniteSet(Holders(e))
  BY <1>1, PoolAssumption, FS_Subset
<1>3. ASSUME NEW j \in Holders(e) PROVE job[j].size \in Nat /\ job[j].size # 0
  <2>1. j \in Jobs /\ JobFacts(j) /\ job[j].at \in Sized
    BY DEF PoolInv, Holders, Sized
  <2> QED BY <2>1, Sets DEF JobFacts
<1> QED BY <1>1, <1>2, <1>3

\* Nothing booked means nobody is there.
LEMMA NobodyThere ==
  ASSUME PoolInv, NEW e \in Engines, inflight[e] = 0
  PROVE  Holders(e) = {}
<1> SUFFICES ASSUME NEW j \in Holders(e) PROVE FALSE
  OBVIOUS
<1> DEFINE w == [i \in Jobs |-> job[i].size]
           S == Holders(e)
<1>1. IsFiniteSet(S) /\ S \subseteq Jobs /\ \A i \in S : w[i] \in Nat /\ w[i] # 0
  BY HoldersAre
<1>2. Total(w, S) = 0
  BY DEF PoolInv, PoolBalances, Total
<1>3. j \in S
  OBVIOUS
<1> HIDE DEF w, S
<1>4. Total(w, S) = Total(w, S \ {j}) + w[j]
  BY <1>1, <1>3, TotalRemoves
<1>5. Total(w, S \ {j}) \in Nat
  <2>1. IsFiniteSet(S \ {j}) /\ \A i \in S \ {j} : w[i] \in Nat
    BY <1>1, FS_Subset
  <2> QED BY <2>1, TotalType
<1> QED BY <1>1, <1>2, <1>3, <1>4, <1>5

\* The share of a budget, which grows with it.
LEMMA ShareGrows ==
  ASSUME TypeOK, BudgetKnown, NEW e \in Engines
  PROVE  /\ Room(budget[e]) \in Nat /\ Room(Max({DefaultCtx, Context[e]})) \in Nat
         /\ Room(budget[e]) <= Room(Max({DefaultCtx, Context[e]}))
<1> DEFINE S == {DefaultCtx, Context[e]}
<1>1. IsFiniteSet(S) /\ S # {} /\ \A x \in S : x \in Nat
  <2>1. IsFiniteSet({DefaultCtx}) /\ IsFiniteSet({Context[e]}) /\ S = {DefaultCtx} \cup {Context[e]}
    BY FS_Singleton
  <2>2. IsFiniteSet(S)
    BY <2>1, FS_Union
  <2> QED BY <2>2, Sets
<1>2. budget[e] \in S /\ budget[e] \in Nat
  BY DEF BudgetKnown, TypeOK
<1> HIDE DEF S
<1>3. Max(S) \in Nat /\ budget[e] <= Max(S)
  BY <1>1, <1>2, MaxIn
<1>4. \A x, y \in Nat : x <= y => (x * 4) \div 5 <= (y * 4) \div 5 /\ (x * 4) \div 5 \in Nat
  OBVIOUS
<1>5. Room(budget[e]) <= Room(Max(S)) /\ Room(budget[e]) \in Nat /\ Room(Max(S)) \in Nat
  BY <1>2, <1>3, <1>4 DEF Room
<1> QED BY <1>5 DEF S

\* acquireSlot: what is booked fits the share, or the engine was empty.
LEMMA ReserveInv ==
  ASSUME PoolInv, NEW j \in Jobs, Reserve(j)
  PROVE  PoolInv'
<1>1. /\ TypeOK /\ BudgetKnown /\ JobFacts(j) /\ job[j] \in Job /\ job[j].at = "try"
      /\ UNCHANGED <<cell, budget, pHeld, routes, pend, changed, faults, chats>>
  BY DEF PoolInv, TypeOK, Reserve
<1>2. PICK e \in Engines, m \in Sizes : e = job[j].pre /\ m = job[j].size
  BY <1>1 DEF Job, JobFacts, Sized
<1>3. m \in Nat /\ m # 0
  BY Sets
<1>4. /\ Balanced(e) /\ (e \in Split \/ InShare(e))
      /\ free[e] \in Seq(Slots) /\ free[e] # <<>> /\ inflight[e] \in Nat
  BY <1>1, <1>2 DEF PoolInv, PoolBalances, Balanced, IngestsWithinBudget, InShare, TypeOK,
                    Reserve, MayReserve
<1>5. /\ Head(free[e]) \in Slots /\ Tail(free[e]) \in Seq(Slots)
      /\ Len(Tail(free[e])) = Len(free[e]) - 1
      /\ IsInjective(Tail(free[e])) /\ ~Contains(Tail(free[e]), Head(free[e]))
      /\ Contains(free[e], Head(free[e]))
      /\ \A x : Contains(Tail(free[e]), x) => Contains(free[e], x)
  BY <1>4, TakesFirst DEF Balanced
<1>6. PICK q \in Seq(Slots), s \in Slots, n \in Nat :
        q = Tail(free[e]) /\ s = Head(free[e]) /\ n = inflight[e] + m
  <2>1. inflight[e] + m \in Nat
    BY <1>3, <1>4
  <2> QED BY <1>5, <2>1
<1>7. free' = [free EXCEPT ![e] = q] /\ inflight' = [inflight EXCEPT ![e] = n]
  BY <1>1, <1>2, <1>6 DEF Reserve, TypeOK
<1>8. free'[e] = q /\ inflight'[e] = n
  BY <1>1, <1>7 DEF TypeOK
<1>9. Rest(j)
  <2>1. faults' \in 0..MaxFaults
    BY <1>1 DEF TypeOK
  <2> QED BY <1>1, <2>1, RestSame
<1> DEFINE k == [job[j] EXCEPT !.at = "ingest", !.slot = s, !.look = 0]
<1>10. job' = [job EXCEPT ![j] = k]
  <2>1. job' = [job EXCEPT ![j].at = "ingest", ![j].slot = s, ![j].look = 0]
    BY <1>2, <1>6 DEF Reserve
  <2>2. job \in [Jobs -> Job]
    BY <1>1 DEF TypeOK
  <2> QED BY <2>1, <2>2, Zenon
<1>11. /\ k \in Job /\ k.at = "ingest" /\ k.slot = s /\ k.size = m /\ k.pre = e
  <2>1. "ingest" \in Places /\ s \in Slots \cup {NoSlot} /\ 0 \in Int
    BY DEF Places
  <2> QED BY <1>1, <1>2, <2>1 DEF Job
<1> HIDE DEF k
<1>12. job'[j] = k /\ \A i \in Jobs : i # j => job'[i] = job[i]
  BY <1>1, <1>10 DEF TypeOK
<1>13. Facts(j)'
  BY <1>1, <1>2, <1>11, <1>12 DEF Facts, JobFacts, RoomFacts, Sized, Ingesting, Making
<1> DEFINE S == Holders(e)
<1>14. S \subseteq Jobs /\ j \notin S /\ Holders(e)' = S \cup {j}
  BY <1>1, <1>11, <1>12 DEF Holders, Ingesting
<1>15. IsFiniteSet(S) /\ \A i \in S : job[i].size \in Nat
  BY HoldersAre
<1>16. Cardinality(S) \in Nat /\ Cardinality(S \cup {j}) = Cardinality(S) + 1
  BY <1>14, <1>15, FS_AddElement, FS_CardinalityType
<1>17. inflight'[e] = SumFunctionOnSet([i \in Jobs |-> job'[i].size], S \cup {j})
  <2> DEFINE w == [i \in Jobs |-> job[i].size]
             v == [i \in Jobs |-> job'[i].size]
             U == S \cup {j}
  <2>1. v[j] = m /\ \A i \in S : v[i] = w[i] /\ v[i] \in Nat
    BY <1>11, <1>12, <1>14, <1>15
  <2>2. IsFiniteSet(U) /\ U \ {j} = S /\ j \in U
    BY <1>14, <1>15, FS_AddElement
  <2>3. inflight[e] = Total(w, S)
    BY <1>4 DEF Balanced, Total
  <2> HIDE DEF w, v, U, S
  <2>4. Total(v, U) = Total(v, U \ {j}) + v[j]
    <3>1. \A i \in U : v[i] \in Nat
      BY <1>3, <2>1, <2>2
    <3> QED BY <2>2, <3>1, TotalRemoves
  <2>5. Total(v, S) = Total(w, S)
    BY <1>15, <2>1, TotalSame
  <2>6. inflight'[e] = Total(v, U)
    BY <1>6, <1>8, <2>1, <2>2, <2>3, <2>4, <2>5
  <2> QED BY <2>6 DEF Total, v, U, S
<1>18. Balanced(e)'
  <2>1. \A i \in S \cup {j} : ~Contains(q, job'[i].slot)
    BY <1>4, <1>5, <1>6, <1>11, <1>12, <1>14 DEF Balanced
  <2>2. \A i, h \in S \cup {j} : i # h => job'[i].slot # job'[h].slot
    <3>1. \A i \in S : job'[i].slot = job[i].slot /\ job[i].slot # s
      BY <1>4, <1>5, <1>6, <1>12, <1>14 DEF Balanced
    <3>2. \A i, h \in S : i # h => job[i].slot # job[h].slot
      BY <1>4 DEF Balanced
    <3>3. job'[j].slot = s
      BY <1>11, <1>12
    <3> QED BY <3>1, <3>2, <3>3
  <2>3. Len(q) + Cardinality(S \cup {j}) = Cardinality(Slots)
    <3>1. Len(free[e]) + Cardinality(S) = Cardinality(Slots) /\ Len(free[e]) \in Nat
      BY <1>4 DEF Balanced
    <3> QED BY <1>5, <1>6, <1>16, <3>1
  <2> QED BY <1>5, <1>6, <1>8, <1>14, <1>17, <2>1, <2>2, <2>3 DEF Balanced
<1>19. e \in Split \/ InShare(e)'
  <2> SUFFICES ASSUME e \notin Split PROVE InShare(e)'
    OBVIOUS
  <2>1. PICK l \in Int : l = job[j].look
    BY <1>1 DEF Job
  <2>2. Used(e, l) + m <= Room(budget[e]) \/ Used(e, l) = 0
    BY <1>2, <2>1 DEF Reserve, MayReserve
  <2>3. Used(e, l) = IF l > inflight[e] THEN l ELSE inflight[e]
    BY DEF Used
  <2>4. CASE Used(e, l) + m <= Room(budget[e])
    <3>1. n <= Room(budget[e])
      <4>1. Room(budget[e]) \in Nat
        BY <1>1, ShareGrows
      <4> QED BY <1>3, <1>4, <1>6, <2>3, <2>4, <4>1
    <3>2. n <= Room(Max({DefaultCtx, Context[e]}))
      BY <1>1, <3>1, ShareGrows
    <3> QED BY <1>8, <3>2 DEF InShare
  <2>5. CASE Used(e, l) = 0
    <3>1. inflight[e] = 0
      BY <1>4, <2>3, <2>5
    <3>2. S = {}
      BY <3>1, NobodyThere
    <3>3. Cardinality(S \cup {j}) = 1
      BY <1>16, <3>2, FS_EmptySet
    <3> QED BY <1>14, <3>3 DEF InShare
  <2> QED BY <2>2, <2>4, <2>5
<1> QED BY <1>2, <1>7, <1>9, <1>10, <1>11, <1>13, <1>18, <1>19, BookInv

\* The deferred calls of Prefill give back the slot and what was booked with it.
LEMMA ReturnSlotInv ==
  ASSUME PoolInv, NEW j \in Jobs, ReturnSlot(j)
  PROVE  PoolInv'
<1>1. /\ TypeOK /\ BudgetKnown /\ JobFacts(j) /\ job[j] \in Job /\ job[j].at = "done"
      /\ UNCHANGED <<budget, pHeld, routes, pend, faults, chats>> /\ faults' \in 0..MaxFaults
  BY DEF PoolInv, TypeOK, ReturnSlot
<1>2. PICK e \in Engines, m \in Sizes, s \in Slots :
        e = job[j].pre /\ m = job[j].size /\ s = job[j].slot
  BY <1>1 DEF Job, JobFacts, Sized, Ingesting
<1>3. m \in Nat /\ m # 0
  BY Sets
<1>4. /\ Balanced(e) /\ (e \in Split \/ InShare(e))
      /\ free[e] \in Seq(Slots) /\ inflight[e] \in Nat
  BY <1>1 DEF PoolInv, PoolBalances, Balanced, IngestsWithinBudget, InShare, TypeOK
<1> DEFINE S == Holders(e)
<1>5. S \subseteq Jobs /\ j \in S
  BY <1>1, <1>2 DEF Holders, Ingesting
<1>6. IsFiniteSet(S) /\ \A i \in S : job[i].size \in Nat
  BY HoldersAre
<1>7. /\ Append(free[e], s) \in Seq(Slots) /\ Len(Append(free[e], s)) = Len(free[e]) + 1
      /\ IsInjective(Append(free[e], s))
      /\ \A y : Contains(Append(free[e], s), y) => y = s \/ Contains(free[e], y)
  <2>1. IsInjective(free[e]) /\ ~Contains(free[e], s)
    BY <1>2, <1>4, <1>5 DEF Balanced
  <2> QED BY <1>4, <2>1, GivesBack
<1>8. Rest(j)
  <2>1. CASE Put(e, s, 0) /\ Disturb(e, j)
    BY <1>1, <2>1, RestPut
  <2>2. CASE UNCHANGED <<cell, changed>>
    BY <1>1, <2>2, RestSame
  <2> QED BY <1>2, <2>1, <2>2 DEF ReturnSlot
<1>9. PICK k \in Job :
        /\ job' = [job EXCEPT ![j] = k] /\ k.at \notin Ingesting
        /\ \/ k.at = "away" /\ k.size = m
           \/ k.at = "failed"
  <2>1. CASE job[j].ok
    <3> DEFINE k == [job[j] EXCEPT !.at = "away", !.slot = NoSlot]
    <3>1. "away" \in Places /\ NoSlot \in Slots \cup {NoSlot} /\ "away" \notin Ingesting
      BY DEF Places, Ingesting
    <3>2. k \in Job /\ k.at = "away" /\ k.size = m
      BY <1>1, <1>2, <3>1 DEF Job
    <3>3. job' = [job EXCEPT ![j] = k]
      BY <1>1, <2>1 DEF ReturnSlot, TypeOK
    <3> HIDE DEF k
    <3> QED BY <3>1, <3>2, <3>3
  <2>2. CASE ~job[j].ok
    <3>1. job' = [job EXCEPT ![j] = Ended("failed")]
      BY <1>1, <2>2 DEF ReturnSlot, TypeOK
    <3>2. Ended("failed") \in Job /\ Ended("failed").at = "failed" /\ "failed" \notin Ingesting
      BY NotYetType DEF Ingesting
    <3> QED BY <3>1, <3>2
  <2> QED BY <2>1, <2>2
<1>10. job'[j] = k /\ \A i \in Jobs : i # j => job'[i] = job[i]
  BY <1>1, <1>9 DEF TypeOK
<1>11. Facts(j)'
  BY <1>1, <1>2, <1>9, <1>10 DEF Facts, JobFacts, RoomFacts, Sized, Ingesting, Making
<1>12. Holders(e)' = S \ {j}
  BY <1>9, <1>10 DEF Holders
<1>13. /\ Cardinality(S) \in Nat /\ Cardinality(S \ {j}) = Cardinality(S) - 1
       /\ IsFiniteSet(S \ {j})
  BY <1>5, <1>6, FS_RemoveElement, FS_CardinalityType
<1> DEFINE w == [i \in Jobs |-> job[i].size]
           v == [i \in Jobs |-> job'[i].size]
<1>14. /\ Total(w, S \ {j}) \in Nat /\ inflight[e] = Total(w, S \ {j}) + m
       /\ Total(v, S \ {j}) = Total(w, S \ {j})
  <2>1. /\ \A i \in S : w[i] \in Nat
        /\ \A i \in S \ {j} : v[i] = w[i]
        /\ w[j] = m
    BY <1>2, <1>5, <1>6, <1>10
  <2>2. inflight[e] = Total(w, S)
    BY <1>4 DEF Balanced, Total
  <2> HIDE DEF w, v, S
  <2>3. Total(w, S) = Total(w, S \ {j}) + w[j]
    BY <1>5, <1>6, <2>1, TotalRemoves
  <2>4. Total(v, S \ {j}) = Total(w, S \ {j})
    BY <1>13, <2>1, TotalSame
  <2>5. Total(w, S \ {j}) \in Nat
    <3>1. \A i \in S \ {j} : w[i] \in Nat
      BY <2>1
    <3> QED BY <1>13, <3>1, TotalType
  <2> QED BY <2>1, <2>2, <2>3, <2>4, <2>5
<1>15. PICK q \in Seq(Slots), n \in Nat : q = Append(free[e], s) /\ n = Total(w, S \ {j})
  BY <1>7, <1>14
<1>16. Max({0, inflight[e] - m}) = n
  <2>1. inflight[e] - m = n
    BY <1>3, <1>14, <1>15
  <2> QED BY <2>1 DEF Max
<1>17. free' = [free EXCEPT ![e] = q] /\ inflight' = [inflight EXCEPT ![e] = n]
  BY <1>1, <1>2, <1>15, <1>16 DEF ReturnSlot, TypeOK
<1>18. free'[e] = q /\ inflight'[e] = n
  BY <1>1, <1>17 DEF TypeOK
<1>19. Balanced(e)'
  <2>1. \A i \in S \ {j} : ~Contains(q, job'[i].slot)
    <3>1. \A i \in S \ {j} :
            job'[i].slot = job[i].slot /\ job[i].slot # s /\ ~Contains(free[e], job[i].slot)
      BY <1>2, <1>4, <1>5, <1>10 DEF Balanced
    <3> QED BY <1>7, <1>15, <3>1
  <2>2. \A i, h \in S \ {j} : i # h => job'[i].slot # job'[h].slot
    BY <1>4, <1>5, <1>10 DEF Balanced
  <2>3. Len(q) + Cardinality(S \ {j}) = Cardinality(Slots)
    <3>1. Len(free[e]) + Cardinality(S) = Cardinality(Slots) /\ Len(free[e]) \in Nat
      BY <1>4 DEF Balanced
    <3> QED BY <1>7, <1>13, <1>15, <3>1
  <2>4. inflight'[e] = SumFunctionOnSet([i \in Jobs |-> job'[i].size], S \ {j})
    BY <1>14, <1>15, <1>18 DEF Total
  <2> QED BY <1>7, <1>12, <1>15, <1>18, <2>1, <2>2, <2>3, <2>4 DEF Balanced
<1>20. e \in Split \/ InShare(e)'
  <2> SUFFICES ASSUME InShare(e) PROVE InShare(e)'
    BY <1>4
  <2>1. Room(Max({DefaultCtx, Context[e]})) \in Nat
    BY <1>1, ShareGrows
  <2>2. n <= inflight[e]
    BY <1>3, <1>14, <1>15
  <2>3. CASE inflight[e] <= Room(Max({DefaultCtx, Context[e]}))
    BY <1>4, <1>18, <2>1, <2>2, <2>3 DEF InShare
  <2>4. CASE Cardinality(S) = 1
    <3>1. S \ {j} = {}
      <4>1. PICK U : U = S \ {j} /\ IsFiniteSet(U) /\ Cardinality(U) = 0
        BY <1>13, <2>4
      <4> QED BY <4>1, FS_EmptySet
    <3>2. n = 0
      BY <1>15, <3>1, TotalEmpty
    <3> QED BY <1>18, <2>1, <3>2 DEF InShare
  <2> QED BY <2>3, <2>4 DEF InShare
<1> QED BY <1>2, <1>8, <1>9, <1>11, <1>17, <1>19, <1>20, BookInv

-----------------------------------------------------------------------------
(* The theorems.                                                           *)

\* At the start every slot is free and nothing is booked.
LEMMA PoolInit ==
  ASSUME Init
  PROVE  PoolInv
<1>1. TypeOK
  <2>1. [held |-> 0, busy |-> FALSE] \in Cell
    BY DEF Cell
  <2>2. [i \in 1..SlotCount |-> i - 1] \in Seq(Slots)
    <3>1. SlotCount \in Nat /\ \A i \in 1..SlotCount : i - 1 \in Slots
      BY PoolAssumption DEF Slots
    <3> QED BY <3>1
  <2>3. 0 \in 0..MaxFaults /\ 0 \in 0..MaxChats
    BY PoolAssumption
  <2>4. cell \in [Engines -> [Slots -> Cell]] /\ free \in [Engines -> Seq(Slots)]
    BY <2>1, <2>2 DEF Init
  <2>5. job \in [Jobs -> Job]
    BY NotYetType DEF Init
  <2>6. /\ inflight \in [Engines -> Nat] /\ budget \in [Engines -> Nat]
        /\ pHeld \in [Engines -> Int] /\ pend \in [Jobs -> SUBSET Sizes]
        /\ routes \subseteq Jobs /\ changed \subseteq Jobs
        /\ faults \in 0..MaxFaults /\ chats \in 0..MaxChats
    BY <2>3, Sets DEF Init
  <2> QED BY <2>4, <2>5, <2>6 DEF TypeOK
<1>2. \A j \in Jobs : JobFacts(j) /\ RoomFacts(j)
  <2>1. \A j \in Jobs : job[j].at = "idle"
    BY NotYetType DEF Init
  <2> QED BY <2>1 DEF JobFacts, RoomFacts, Sized, Ingesting, Making
<1>3. BudgetKnown
  BY DEF Init, BudgetKnown
<1>4. ASSUME NEW e \in Engines
      PROVE  Balanced(e) /\ InShare(e)
  <2>1. Holders(e) = {} /\ Cardinality({}) = 0
    BY NotYetType, FS_EmptySet DEF Init, Holders, Ingesting
  <2>2. /\ SlotCount \in Nat /\ free[e] = [i \in 1..SlotCount |-> i - 1]
        /\ DOMAIN free[e] = 1..SlotCount /\ Len(free[e]) = SlotCount
    <3>1. SlotCount \in Nat /\ free[e] = [i \in 1..SlotCount |-> i - 1]
      BY PoolAssumption DEF Init
    <3> QED BY <3>1
  <2>3. IsInjective(free[e])
    BY <2>2 DEF IsInjective
  <2>4. inflight[e] = 0 /\ SumFunctionOnSet([j \in Jobs |-> job[j].size], {}) = 0
    BY TotalEmpty DEF Init, Total
  <2>5. Room(Max({DefaultCtx, Context[e]})) \in Nat
    BY <1>1, <1>3, ShareGrows
  <2>6. Len(free[e]) + Cardinality(Holders(e)) = Cardinality(Slots)
    BY <2>1, <2>2, Sets
  <2>7. Balanced(e)
    BY <2>1, <2>3, <2>4, <2>6 DEF Balanced
  <2> QED BY <2>4, <2>5, <2>7 DEF InShare
<1>5. PoolBalances /\ IngestsWithinBudget
  BY <1>4 DEF PoolBalances, Balanced, IngestsWithinBudget, InShare
<1> QED BY <1>1, <1>2, <1>3, <1>5 DEF PoolInv

\* Every step keeps the invariant.
LEMMA PoolStep ==
  ASSUME PoolInv, [Next]_vars
  PROVE  PoolInv'
<1>1. ASSUME NEW j \in Jobs, NEW n \in Sizes, NEW pre \in Engines, NEW dec \in Engines,
             Begin(j, n, pre, dec)
      PROVE  PoolInv'
  BY <1>1, BeginInv
<1>2. ASSUME NEW j \in Jobs, BeginFails(j) \/ Waits(j) \/ Ingests(j)
      PROVE  PoolInv'
  <2>1. CASE BeginFails(j)
    BY <2>1, BeginFailsInv
  <2>2. CASE Waits(j)
    BY <2>2, LookInv, ReserveInv, RefusedInv, GiveUpInv DEF Waits
  <2>3. CASE Ingests(j)
    BY <2>3, IngestOkInv, IngestFailsInv, SaveOkInv, SaveFailsInv, ReturnSlotInv DEF Ingests
  <2> QED BY <1>2, <2>1, <2>2, <2>3
<1>3. ASSUME NEW j \in Jobs, HandsOff(j)
      PROVE  PoolInv'
  <2>1. CASE FetchFails(j)
    BY <2>1, FetchFailsInv
  <2>2. CASE \E want \in Slots : Survey(j, want) \/ SurveyFails(j, want)
    BY <2>2, SurveyInv, SurveyFailsInv
  <2>3. CASE EraseTarget(j) \/ EraseNext(j) \/ RoomDone(j)
    BY <2>3, EraseTargetInv, EraseNextInv, RoomDoneInv
  <2>4. CASE RestoreOk(j) \/ RestoreRefused(j) \/ RestoreFails(j)
    BY <2>4, RestoreOkInv, RestoreRefusedInv, RestoreFailsInv
  <2> QED BY <1>3, <2>1, <2>2, <2>3, <2>4 DEF HandsOff
<1>4. ASSUME NEW e \in Engines, NEW s \in Slots, ChatEnds(e, s) \/ ChatStarts(e, s, ChatSize)
      PROVE  PoolInv'
  BY <1>4, ChatEndsInv, ChatStartsInv
<1>5. ASSUME NEW e \in Engines, Probe(e)
      PROVE  PoolInv'
  BY <1>5, ProbeInv
<1>6. ASSUME UNCHANGED vars
      PROVE  PoolInv'
  <2>1. \A i \in Jobs : Calm(i)
    BY <1>6 DEF Calm, Loads, vars
  <2> QED BY <1>6, <2>1, EngineStepInv DEF vars, PoolInv, TypeOK, BudgetKnown
<1> QED BY <1>1, <1>2, <1>3, <1>4, <1>5, <1>6 DEF Next

\* The invariant holds for any jobs, engines, slots, sizes and faults: pools
\* balance, ingests stay within their share, and the account of a job that
\* nobody has disturbed is what its engine holds.
THEOREM PoolInvariant == Spec => []PoolInv
<1>1. Init => PoolInv
  BY PoolInit
<1>2. PoolInv /\ [Next]_vars => PoolInv'
  BY PoolStep
<1> QED BY <1>1, <1>2, PTL DEF Spec

\* Every variable keeps its type.
THEOREM PoolTypeOK == Spec => []TypeOK
<1>1. PoolInv => TypeOK
  BY DEF PoolInv
<1> QED BY <1>1, PoolInvariant, PTL

\* acquireSlot and the deferred calls of Prefill lose no slot and no token, however
\* an ingest ends.
THEOREM PoolBalancesAlways == Spec => []PoolBalances
<1>1. PoolInv => PoolBalances
  BY DEF PoolInv
<1> QED BY <1>1, PoolInvariant, PTL

\* The prompts acquireSlot lets in together fit their share of the budget, though
\* the reading it went by is old and the budget is learnt in between.
THEOREM PoolWithinBudget == Spec => []IngestsWithinBudget
<1>1. PoolInv => IngestsWithinBudget
  BY DEF PoolInv
<1> QED BY <1>1, PoolInvariant, PTL

\* An account that says a state fits is right: the engine takes it.
LEMMA AccountIsRight ==
  ASSUME PoolInv
  PROVE  RoomIsReal
<1> SUFFICES ASSUME NEW j \in Jobs, job[j].at = "restore", j \notin changed,
                    budget[job[j].dec] = Context[job[j].dec], job[j].state <= job[j].need
             PROVE  Restorable(j)
  BY DEF RoomIsReal
<1>1. TypeOK /\ JobFacts(j) /\ RoomFacts(j) /\ job[j] \in Job
  BY DEF PoolInv, TypeOK
<1>2. PICK e \in Engines, s \in Slots : e = job[j].dec /\ s = job[j].slot
  BY <1>1 DEF Job, JobFacts, Making
<1>3. job[j].state \in Nat /\ job[j].need \in Nat /\ job[j].cap \in Nat
  BY <1>1 DEF Job
<1>4. job[j].account = Held(e) /\ job[j].cap = Context[e] /\ FitsByAccount(j)
  BY <1>1, <1>2 DEF RoomFacts, Making
<1>5. Held(e) \in Nat /\ cell[e][s].held \in Nat /\ Context[e] \in Nat
  BY <1>1, HeldIs, Sets DEF TypeOK, Cell
<1> QED BY <1>2, <1>3, <1>4, <1>5 DEF Restorable, EngineTakes, FitsByAccount

\* makeDecodeRoom restores only what fits, as long as nobody else has touched the
\* engine since it was surveyed.
THEOREM PoolRoomIsReal == Spec => []RoomIsReal
<1>1. PoolInv => RoomIsReal
  BY AccountIsRight
<1> QED BY <1>1, PoolInvariant, PTL

\* makeDecodeRoom erases nobody's cache but the target's on an engine that keeps
\* one per slot.
THEOREM PoolSparesNeighbours == Spec => NeighboursKept
<1>1. ASSUME NEW j \in Jobs, job[j].at = "room", job[j].dec \in Split, HandsOff(j),
             NEW s \in Slots
      PROVE  cell'[job[j].dec][s] = cell[job[j].dec][s]
  <2>1. ~Crowded(j)
    BY <1>1 DEF Crowded
  <2>2. RoomDone(j)
    BY <1>1, <2>1 DEF HandsOff, FetchFails, Survey, SurveyFails, EraseTarget, EraseNext,
                      RestoreOk, RestoreRefused, RestoreFails
  <2> QED BY <2>2 DEF RoomDone
<1>2. [Next]_vars =>
        [\A j \in Jobs : job[j].at = "room" /\ job[j].dec \in Split /\ HandsOff(j)
           => \A s \in Slots : cell'[job[j].dec][s] = cell[job[j].dec][s]]_vars
  BY <1>1
<1> QED BY <1>2, PTL DEF Spec, NeighboursKept
=============
