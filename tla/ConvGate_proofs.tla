---------------------------- MODULE ConvGate_proofs ----------------------------
(***************************************************************************)
(* Proofs about the conversation gate, for every finite set of requests    *)
(* and every set of conversations.  The inductive invariant is GateInv:    *)
(* the loose types, the exact accounting of the entries, the serialisation *)
(* and the absence of lost wake-ups.  The accounting carries the rest: a   *)
(* request goes through uncapped only where the entry says nobody is in    *)
(* flight, and the channel is closed exactly when the accounting reaches   *)
(* zero.  With one more fact, that only a request out of time joins past   *)
(* the cap, it gives the refinement of TurnGate, step by step.             *)
(***************************************************************************)
EXTENDS ConvGate, FiniteSetTheorems, TLAPS

\* The types without the bound on the counts, which follows from the accounting.
GateTypes ==
  /\ entries \subseteq Keys
  /\ count \in [Keys -> Nat]
  /\ pc \in [Requests -> Places]
  /\ key \in [Requests -> Keys]
  /\ woken \in [Requests -> BOOLEAN]
  /\ expired \in [Requests -> BOOLEAN]
  /\ capped \in [Requests -> BOOLEAN]

GateInv ==
  /\ GateTypes
  /\ GateCountsHolders
  /\ SerialUnlessCapped
  /\ NoLostWakeup

-----------------------------------------------------------------------------

\* The holders of a conversation are a finite set, empty iff their number is 0.
LEMMA HoldersFinite ==
  ASSUME NEW k
  PROVE  /\ IsFiniteSet(Holders(k))
         /\ Cardinality(Holders(k)) \in Nat
         /\ Cardinality(Holders(k)) <= Cardinality(Requests)
         /\ Cardinality(Holders(k)) = 0 <=> Holders(k) = {}
  <1>1. Holders(k) \in SUBSET Requests
    BY DEF Holders
  <1>2. IsFiniteSet(Holders(k)) /\ Cardinality(Holders(k)) <= Cardinality(Requests)
    BY <1>1, FS_Subset, GateAssumption
  <1>3. QED
    BY <1>2, FS_CardinalityType, FS_EmptySet

\* A step that leaves who holds what alone leaves the holders alone.
LEMMA HoldersSame ==
  ASSUME \A r \in Requests : Holding(r)' = Holding(r),
         \A r \in Requests : Holding(r) => key'[r] = key[r]
  PROVE  \A k \in Keys : Holders(k)' = Holders(k)
  BY DEF Holders

\* A request that starts to hold adds itself to its conversation's holders.
LEMMA HoldersJoin ==
  ASSUME GateTypes, NEW r \in Requests, ~Holding(r), key' = key,
         pc' = [pc EXCEPT ![r] = "preparing"]
  PROVE  \A k \in Keys : Holders(k)' =
           IF k = key[r] THEN Holders(k) \cup {r} ELSE Holders(k)
  BY DEF GateTypes, Holders, Holding

\* A request that stops holding takes itself out of them.
LEMMA HoldersLeave ==
  ASSUME GateTypes, NEW r \in Requests, Holding(r), key' = key,
         pc' = [pc EXCEPT ![r] = "idle"]
  PROVE  \A k \in Keys : Holders(k)' =
           IF k = key[r] THEN Holders(k) \ {r} ELSE Holders(k)
  BY DEF GateTypes, Holders, Holding

\* Joining an entry keeps the accounting exact.
LEMMA JoinKeepsCount ==
  ASSUME GateTypes, GateCountsHolders, NEW r \in Requests, ~Holding(r),
         Join(key[r]), key' = key, pc' = [pc EXCEPT ![r] = "preparing"]
  PROVE  GateCountsHolders'
  <1> SUFFICES ASSUME NEW k \in Keys
               PROVE  /\ count'[k] = Cardinality(Holders(k)')
                      /\ k \in entries' <=> Holders(k)' # {}
    BY DEF GateCountsHolders
  <1>1. key[r] \in Keys
    BY DEF GateTypes
  <1>2. CASE k = key[r]
    <2>1. Holders(k)' = Holders(k) \cup {r} /\ r \notin Holders(k)
      BY <1>2, HoldersJoin DEF Holders
    <2>2. Cardinality(Holders(k)') = Cardinality(Holders(k)) + 1
      BY <2>1, HoldersFinite, FS_AddElement
    <2>3. QED
      BY <1>1, <1>2, <2>1, <2>2 DEF Join, GateCountsHolders, GateTypes
  <1>3. CASE k # key[r]
    <2>1. Holders(k)' = Holders(k)
      BY <1>3, HoldersJoin
    <2>2. QED
      BY <1>1, <1>3, <2>1 DEF Join, GateCountsHolders, GateTypes
  <1>4. QED
    BY <1>2, <1>3

\* Releasing an entry keeps the accounting exact.
LEMMA ReleaseKeepsCount ==
  ASSUME GateTypes, GateCountsHolders, NEW r \in Requests, Holding(r),
         Release(r), key' = key, pc' = [pc EXCEPT ![r] = "idle"]
  PROVE  GateCountsHolders'
  <1> SUFFICES ASSUME NEW k \in Keys
               PROVE  /\ count'[k] = Cardinality(Holders(k)')
                      /\ k \in entries' <=> Holders(k)' # {}
    BY DEF GateCountsHolders
  <1>1. key[r] \in Keys /\ r \in Holders(key[r]) /\ key[r] \in entries
    BY DEF GateTypes, Holders, GateCountsHolders
  <1>2. CASE k = key[r]
    <2>1. Holders(k)' = Holders(k) \ {r}
      BY <1>2, HoldersLeave
    <2>2. /\ Cardinality(Holders(k)') = Cardinality(Holders(k)) - 1
          /\ IsFiniteSet(Holders(k)')
      BY <1>1, <1>2, <2>1, HoldersFinite, FS_RemoveElement
    <2>3. /\ Cardinality(Holders(k)') \in Nat
          /\ Cardinality(Holders(k)') = 0 <=> Holders(k)' = {}
      BY <2>2, FS_CardinalityType, FS_EmptySet
    <2>4. /\ count[k] = Cardinality(Holders(k))
          /\ count[k] \in Nat
      BY DEF GateCountsHolders, GateTypes
    <2>5. QED
      BY <1>1, <1>2, <2>2, <2>3, <2>4 DEF Release, GateTypes
  <1>3. CASE k # key[r]
    <2>1. Holders(k)' = Holders(k)
      BY <1>3, HoldersLeave
    <2>2. count'[k] = count[k] /\ (k \in entries' <=> k \in entries)
      BY <1>1, <1>3 DEF Release, GateTypes
    <2>3. QED
      BY <2>1, <2>2 DEF GateCountsHolders
  <1>4. QED
    BY <1>2, <1>3

-----------------------------------------------------------------------------

\* Init establishes the invariant: nobody holds and no entry exists.
LEMMA InitGateInv == Init => GateInv
  <1> SUFFICES ASSUME Init PROVE GateInv
    OBVIOUS
  <1>1. GateTypes
    BY DEF Init, GateTypes, Places
  <1>2. \A k \in Keys : Holders(k) = {}
    BY DEF Init, Holders, Holding
  <1>3. GateCountsHolders
    BY <1>2, FS_EmptySet DEF Init, GateCountsHolders
  <1>4. SerialUnlessCapped /\ NoLostWakeup
    BY DEF Init, SerialUnlessCapped, NoLostWakeup, Holding
  <1>5. QED
    BY <1>1, <1>3, <1>4 DEF GateInv

\* Any action by which a request joins its conversation preserves the
\* invariant, provided nobody is in flight or the join is reported as capped.
LEMMA JoinStep ==
  ASSUME GateInv, NEW r \in Requests, ~Holding(r), Join(key[r]),
         pc' = [pc EXCEPT ![r] = "preparing"],
         UNCHANGED <<key, woken, expired>>,
         capped' \in [Requests -> BOOLEAN],
         \A q \in Requests : capped[q] => capped'[q],
         capped'[r] \/ Holders(key[r]) = {} \/ ~Waits
  PROVE  GateInv'
  <1> USE DEF GateInv
  <1>1. GateTypes'
    <2>1. pc' \in [Requests -> Places]
      BY DEF GateTypes, Places
    <2>2. entries' \subseteq Keys /\ count' \in [Keys -> Nat]
      BY DEF GateTypes, Join
    <2>3. QED
      BY <2>1, <2>2 DEF GateTypes
  <1>2. GateCountsHolders'
    BY JoinKeepsCount
  <1>3. SerialUnlessCapped'
    <2> SUFFICES ASSUME Waits, NEW p \in Requests, NEW q \in Requests, p # q,
                        Holding(p)', Holding(q)', key[p] = key[q]
                 PROVE  capped'[p] \/ capped'[q]
      BY DEF SerialUnlessCapped
    <2>1. CASE p # r /\ q # r
      BY <2>1 DEF SerialUnlessCapped, Holding, GateTypes
    <2>2. CASE p = r
      <3>1. q \in Holders(key[r])
        BY <2>2 DEF Holders, Holding, GateTypes
      <3>2. QED
        BY <2>2, <3>1
    <2>3. CASE q = r
      <3>1. p \in Holders(key[r])
        BY <2>3 DEF Holders, Holding, GateTypes
      <3>2. QED
        BY <2>3, <3>1
    <2>4. QED
      BY <2>1, <2>2, <2>3
  <1>4. NoLostWakeup'
    <2> SUFFICES ASSUME NEW q \in Requests, pc'[q] = "waiting", ~woken'[q]
                 PROVE  Holders(key[q])' # {}
      BY DEF NoLostWakeup
    <2>1. pc[q] = "waiting" /\ ~woken[q] /\ key[q] \in Keys
      BY DEF GateTypes
    <2>2. Holders(key[q]) # {}
      BY <2>1 DEF NoLostWakeup
    <2>3. QED
      BY <2>1, <2>2, HoldersJoin
  <1>5. QED
    BY <1>1, <1>2, <1>3, <1>4

\* Any action by which a request gives the gate back preserves the invariant.
LEMMA LeaveStep ==
  ASSUME GateInv, NEW r \in Requests, Holding(r), Release(r),
         pc' = [pc EXCEPT ![r] = "idle"],
         UNCHANGED <<key, expired, capped>>
  PROVE  GateInv'
  <1> USE DEF GateInv
  <1>1. key[r] \in Keys /\ r \in Holders(key[r]) /\ key[r] \in entries
    BY DEF GateTypes, Holders, GateCountsHolders
  <1>2. GateTypes'
    <2>1. pc' \in [Requests -> Places] /\ entries' \subseteq Keys
      BY DEF GateTypes, Release, Places
    <2>2. count' \in [Keys -> Nat]
      BY <1>1 DEF GateTypes, Release
    <2>3. woken' \in [Requests -> BOOLEAN]
      BY DEF GateTypes, Release
    <2>4. QED
      BY <2>1, <2>2, <2>3 DEF GateTypes
  <1>3. GateCountsHolders'
    BY ReleaseKeepsCount
  <1>4. SerialUnlessCapped'
    BY DEF SerialUnlessCapped, Holding, GateTypes
  <1>5. NoLostWakeup'
    <2> SUFFICES ASSUME NEW q \in Requests, pc'[q] = "waiting", ~woken'[q]
                 PROVE  Holders(key[q])' # {}
      BY DEF NoLostWakeup
    <2>1. pc[q] = "waiting" /\ key[q] \in Keys
      BY DEF GateTypes
    <2>2. ~woken[q]
      BY <2>1 DEF Release, GateTypes
    <2>3. Holders(key[q]) # {}
      BY <2>1, <2>2 DEF NoLostWakeup
    <2>4. CASE key[q] # key[r]
      BY <2>1, <2>3, <2>4, HoldersLeave
    <2>5. CASE key[q] = key[r]
      <3>1. ~(count[key[r]] - 1 <= 0)
        BY <1>1, <2>1, <2>5 DEF Release
      <3>2. key[r] \in entries'
        BY <1>1, <3>1 DEF Release
      <3>3. QED
        BY <1>1, <1>3, <2>5, <3>2 DEF GateCountsHolders
    <2>6. QED
      BY <2>4, <2>5
  <1>6. QED
    BY <1>2, <1>3, <1>4, <1>5

\* An action that leaves the entries and the holders alone preserves the
\* invariant, provided a request that starts to wait finds somebody in flight.
LEMMA QuietStep ==
  ASSUME GateInv, GateTypes', UNCHANGED <<entries, count>>,
         \A q \in Requests : Holding(q)' = Holding(q),
         \A q \in Requests : Holding(q) => key'[q] = key[q] /\ capped'[q] = capped[q],
         \A q \in Requests : pc'[q] = "waiting" /\ ~woken'[q] =>
             key'[q] = key[q] /\ Holders(key[q]) # {}
  PROVE  GateInv'
  <1> USE DEF GateInv
  <1>1. \A k \in Keys : Holders(k)' = Holders(k)
    BY HoldersSame
  <1>2. GateCountsHolders'
    BY <1>1 DEF GateCountsHolders
  <1>3. SerialUnlessCapped'
    BY DEF SerialUnlessCapped
  <1>4. NoLostWakeup'
    BY <1>1 DEF NoLostWakeup, GateTypes
  <1>5. QED
    BY <1>2, <1>3, <1>4

\* Every step preserves the invariant: one case per action.
LEMMA NextGateInv == GateInv /\ [Next]_vars => GateInv'
  <1> SUFFICES ASSUME GateInv, [Next]_vars PROVE GateInv'
    OBVIOUS
  <1> USE DEF GateInv
  <1>1. ASSUME NEW r \in Requests, NEW k \in Keys, Arrive(r, k) PROVE GateInv'
    <2>1. GateTypes'
      BY <1>1 DEF Arrive, GateTypes, Places
    <2>2. \A q \in Requests : Holding(q)' = Holding(q)
      BY <1>1 DEF Arrive, GateTypes, Holding
    <2>3. \A q \in Requests :
            Holding(q) => key'[q] = key[q] /\ capped'[q] = capped[q]
      BY <1>1 DEF Arrive, GateTypes, Holding
    <2>4. \A q \in Requests : pc'[q] = "waiting" /\ ~woken'[q] =>
            key'[q] = key[q] /\ pc[q] = "waiting" /\ ~woken[q]
      BY <1>1 DEF Arrive, GateTypes
    <2>5. UNCHANGED <<entries, count>>
      BY <1>1 DEF Arrive
    <2>6. QED
      BY <2>1, <2>2, <2>3, <2>4, <2>5, QuietStep DEF NoLostWakeup
  <1>2. ASSUME NEW r \in Requests, Enter(r) PROVE GateInv'
    <2>1. key[r] \in Keys
      BY DEF GateTypes
    <2>2. Holders(key[r]) = {} \/ ~Waits
      BY <1>2, <2>1, HoldersFinite DEF Enter, GateCountsHolders
    <2>3. QED
      BY <1>2, <2>2, JoinStep DEF Enter, Holding, GateTypes
  <1>3. ASSUME NEW r \in Requests, Block(r) PROVE GateInv'
    <2>1. GateTypes'
      BY <1>3 DEF Block, GateTypes, Places
    <2>2. Holders(key[r]) # {}
      BY <1>3 DEF Block, GateCountsHolders, GateTypes
    <2>3. QED
      BY <1>3, <2>1, <2>2, QuietStep DEF Block, GateTypes, Holding, NoLostWakeup
  <1>4. ASSUME NEW r \in Requests, Wake(r) PROVE GateInv'
    <2>1. GateTypes'
      BY <1>4 DEF Wake, GateTypes, Places
    <2>2. QED
      BY <1>4, <2>1, QuietStep DEF Wake, GateTypes, Holding, NoLostWakeup
  <1>5. ASSUME NEW r \in Requests, CapJoin(r) PROVE GateInv'
    BY <1>5, JoinStep DEF CapJoin, Holding, GateTypes
  <1>6. ASSUME NEW r \in Requests, Expire(r) PROVE GateInv'
    <2>1. GateTypes'
      BY <1>6 DEF Expire, GateTypes, Places
    <2>2. QED
      BY <1>6, <2>1, QuietStep DEF Expire, GateTypes, Holding, NoLostWakeup
  <1>7. ASSUME NEW r \in Requests, Plan(r) PROVE GateInv'
    <2>1. GateTypes'
      BY <1>7 DEF Plan, GateTypes, Places
    <2>2. QED
      BY <1>7, <2>1, QuietStep DEF Plan, GateTypes, Holding, NoLostWakeup
  <1>8. ASSUME NEW r \in Requests, Abort(r) PROVE GateInv'
    BY <1>8, LeaveStep DEF Abort, Holding
  <1>9. ASSUME NEW r \in Requests, Finish(r) PROVE GateInv'
    BY <1>9, LeaveStep DEF Finish, Holding
  <1>10. CASE UNCHANGED vars
    <2>1. GateTypes'
      BY <1>10 DEF vars, GateTypes
    <2>2. QED
      BY <1>10, <2>1, QuietStep DEF vars, Holding, NoLostWakeup
  <1>11. QED
    BY <1>1, <1>2, <1>3, <1>4, <1>5, <1>6, <1>7, <1>8, <1>9, <1>10
       DEF Next, Acquire

\* GateInv holds in every reachable state of the gate.
THEOREM GateInvariant == Spec => []GateInv
  <1>1. QED
    BY InitGateInv, NextGateInv, PTL DEF Spec

\* Type correctness: no entry ever counts more requests than there are.
THEOREM GateTypeOK == Spec => []TypeOK
  <1>1. GateInv => TypeOK
    <2> SUFFICES ASSUME GateInv PROVE TypeOK
      OBVIOUS
    <2>1. \A k \in Keys : count[k] \in 0..Cardinality(Requests)
      BY HoldersFinite, FS_CardinalityType, GateAssumption
         DEF GateInv, GateCountsHolders
    <2>2. QED
      BY <2>1 DEF GateInv, GateTypes, TypeOK
  <1>2. QED
    BY <1>1, GateInvariant, PTL

\* The entries of the gate count exactly the requests in flight.
THEOREM GateAccounting == Spec => []GateCountsHolders
  <1>1. GateInv => GateCountsHolders
    BY DEF GateInv
  <1>2. QED
    BY <1>1, GateInvariant, PTL

\* One request of a conversation at a time, unless one reports it was capped.
THEOREM GateSerialises == Spec => []SerialUnlessCapped
  <1>1. GateInv => SerialUnlessCapped
    BY DEF GateInv
  <1>2. QED
    BY <1>1, GateInvariant, PTL

\* A waiting request whose channel is open has somebody in flight to close it.
THEOREM GateWakesUp == Spec => []NoLostWakeup
  <1>1. GateInv => NoLostWakeup
    BY DEF GateInv
  <1>2. QED
    BY <1>1, GateInvariant, PTL

-----------------------------------------------------------------------------

\* What the refinement needs beyond GateInv: a request is about to join past
\* the cap only when its deadline has passed, because the loop of acquire looks
\* at the time left before it leaves.
LateOnly ==
  \A r \in Requests : pc[r] = "capjoin" => expired[r]

\* LateOnly holds at first.
LEMMA InitLateOnly == Init => LateOnly
  BY DEF Init, LateOnly

\* Every step keeps LateOnly: only Block goes to capjoin, and it looks at the time.
LEMMA NextLateOnly == GateTypes /\ LateOnly /\ [Next]_vars => LateOnly'
  <1> SUFFICES ASSUME GateTypes, LateOnly, [Next]_vars PROVE LateOnly'
    OBVIOUS
  <1> USE DEF GateTypes, LateOnly
  <1>1. ASSUME NEW r \in Requests, NEW k \in Keys, Arrive(r, k) PROVE LateOnly'
    BY <1>1 DEF Arrive
  <1>2. ASSUME NEW r \in Requests, Acquire(r) PROVE LateOnly'
    BY <1>2 DEF Acquire, Enter, Block, Wake, CapJoin
  <1>3. ASSUME NEW r \in Requests, Expire(r) PROVE LateOnly'
    BY <1>3 DEF Expire
  <1>4. ASSUME NEW r \in Requests, Plan(r) \/ Abort(r) \/ Finish(r) PROVE LateOnly'
    BY <1>4 DEF Plan, Abort, Finish
  <1>5. CASE UNCHANGED vars
    BY <1>5 DEF vars
  <1>6. QED
    BY <1>1, <1>2, <1>3, <1>4, <1>5 DEF Next

\* The initial states of the gate are initial states of the turns.
LEMMA InitTurns == Init => Turns!Init
  BY DEF Init, Turns!Init

\* Each step of the gate is a turn or leaves the turns alone.
LEMMA NextTurns ==
  GateInv /\ LateOnly /\ [Next]_vars => [Turns!Next]_(Turns!vars)
  <1> SUFFICES ASSUME GateInv, LateOnly, [Next]_vars
               PROVE  [Turns!Next]_(Turns!vars)
    OBVIOUS
  <1> USE DEF GateInv, GateTypes
  <1>1. ASSUME NEW r \in Requests, NEW k \in Keys, Arrive(r, k)
        PROVE  Turns!Ask(r, k)
    BY <1>1 DEF Arrive, Turns!Ask
  <1>2. ASSUME NEW r \in Requests, Enter(r) PROVE Turns!Enter(r)
    <2>1. key[r] \in Keys
      OBVIOUS
    <2>2. Holders(key[r]) = {} \/ ~Waits
      BY <1>2, <2>1, HoldersFinite DEF Enter, GateCountsHolders
    <2>3. ASSUME Holders(key[r]) = {} PROVE Turns!Alone(r)
      BY <2>3 DEF Turns!Alone, Holders, Holding, Places
    <2>4. QED
      BY <1>2, <2>2, <2>3 DEF Enter, Turns!Enter
  <1>3. ASSUME NEW r \in Requests, Block(r) \/ Wake(r) \/ Plan(r)
        PROVE  UNCHANGED Turns!vars
    BY <1>3 DEF Block, Wake, Plan, Turns!vars
  <1>4. ASSUME NEW r \in Requests, CapJoin(r) PROVE Turns!Overtake(r)
    BY <1>4 DEF CapJoin, Turns!Overtake, LateOnly
  <1>5. ASSUME NEW r \in Requests, Expire(r) PROVE Turns!RunOut(r)
    BY <1>5 DEF Expire, Turns!RunOut
  <1>6. ASSUME NEW r \in Requests, Abort(r) \/ Finish(r) PROVE Turns!Leave(r)
    BY <1>6 DEF Abort, Finish, Turns!Leave
  <1>7. CASE UNCHANGED vars
    BY <1>7 DEF vars, Turns!vars
  <1>8. QED
    BY <1>1, <1>2, <1>3, <1>4, <1>5, <1>6, <1>7
       DEF Next, Acquire, Turns!Next, Turns!GoesIn

\* The gate implements the turns: whatever the entries, the channels and the
\* two locked sections of acquire do, a request goes through only when it is
\* alone in its conversation or its own deadline has passed, and only then is
\* it marked capped.  This is the safety half of ImplementsTurns.
THEOREM GateImplementsTurns == Spec => Turns!Safety
  <1>1. Spec => []LateOnly
    <2>1. GateInv => GateTypes
      BY DEF GateInv
    <2>2. QED
      BY <2>1, GateInvariant, InitLateOnly, NextLateOnly, PTL DEF Spec
  <1>2. QED
    BY <1>1, GateInvariant, InitTurns, NextTurns, PTL DEF Spec, Turns!Safety

=============================================================================
