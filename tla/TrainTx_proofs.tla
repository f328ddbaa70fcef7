---------------------------- MODULE TrainTx_proofs ----------------------------
(***************************************************************************)
(* Proofs about the training transactions, for any jobs, instances,        *)
(* handlers and number of faults.  The inductive invariant adds to the     *)
(* checked ones that the file, too, holds disjoint transactions (a restart *)
(* takes it for the map), and says what a call that is toggling fences     *)
(* knows: unless the instance is raced, one that is being fenced is in a   *)
(* transaction and one that is being unfenced is in none.  Whichever call  *)
(* toggles a fence last then leaves it as the transactions of the          *)
(* instances that share it want it, or has it noted as lifted.             *)
(***************************************************************************)
EXTENDS TrainTx, TLAPS

\* No instance is in two transactions of a map from jobs to transactions.
Apart(m) == \A i, j \in Jobs : i # j => KeysIn(m[i]) \cap KeysIn(m[j]) = {}

\* What holds of an instance that is not raced.
Settled(k) ==
  /\ k \in Pending("fencing") => k \in Training
  /\ k \in Pending("unfencing") => k \notin Training

\* No call is working on an instance that has the fence, or has raced over it.
Untouched(f) ==
  \A k \in Instances : f \in FenceOf[k] =>
    k \notin raced /\ k \notin Pending("fencing") /\ k \notin Pending("unfencing")

\* What holds of a fence that was not lifted.
Exactly(f) ==
  Untouched(f) => (f \in fenced <=> \E k \in Instances : f \in FenceOf[k] /\ k \in Training)

FencesOK ==
  /\ \A k \in Instances \ raced : Settled(k)
  /\ \A f \in Fences \ lifted : Exactly(f)

TrainInv ==
  /\ TypeOK
  /\ Apart(txs)
  /\ Apart(disk)
  /\ DiskTracksMemory
  /\ FencesOK

-----------------------------------------------------------------------------
(* Transactions.                                                           *)

\* What KeysIn collects.
LEMMA KeysInDef == \A T, k : k \in KeysIn(T) <=> \E t \in T : k \in t.keys
  BY DEF KeysIn

\* Marking the transactions of a job, as reloading or as reported, leaves its
\* instances, and whether it has a transaction, alone.
LEMMA Marked ==
  ASSUME NEW T \in SUBSET Tx, \A s, t \in T : s = t
  PROVE  /\ {[t EXCEPT !.reload = TRUE] : t \in T} \in SUBSET Tx
         /\ {[t EXCEPT !.alerted = TRUE] : t \in T} \in SUBSET Tx
         /\ \A s, t \in {[t EXCEPT !.reload = TRUE] : t \in T} : s = t
         /\ \A s, t \in {[t EXCEPT !.alerted = TRUE] : t \in T} : s = t
         /\ KeysIn({[t EXCEPT !.reload = TRUE] : t \in T}) = KeysIn(T)
         /\ KeysIn({[t EXCEPT !.alerted = TRUE] : t \in T}) = KeysIn(T)
  <1> DEFINE R == {[t EXCEPT !.reload = TRUE] : t \in T}
             A == {[t EXCEPT !.alerted = TRUE] : t \in T}
  <1>1. \A t \in T : /\ [t EXCEPT !.reload = TRUE] \in Tx
                     /\ [t EXCEPT !.alerted = TRUE] \in Tx
    BY DEF Tx
  <1>2. \A t \in T : /\ [t EXCEPT !.reload = TRUE].keys = t.keys
                     /\ [t EXCEPT !.alerted = TRUE].keys = t.keys
    BY DEF Tx
  <1>3. R \in SUBSET Tx /\ A \in SUBSET Tx
    BY <1>1
  <1>4. (\A s, t \in R : s = t) /\ (\A s, t \in A : s = t)
    OBVIOUS
  <1>5. KeysIn(R) = KeysIn(T)
    <2>1. ASSUME NEW k \in KeysIn(R) PROVE k \in KeysIn(T)
      <3>1. PICK s \in R : k \in s.keys
        BY <2>1, KeysInDef
      <3>2. PICK t \in T : s = [t EXCEPT !.reload = TRUE]
        OBVIOUS
      <3>3. QED
        BY <3>1, <3>2, <1>2, KeysInDef
    <2>2. ASSUME NEW k \in KeysIn(T) PROVE k \in KeysIn(R)
      <3>1. PICK t \in T : k \in t.keys
        BY <2>2, KeysInDef
      <3>2. [t EXCEPT !.reload = TRUE] \in R
        OBVIOUS
      <3>3. QED
        BY <3>1, <3>2, <1>2, KeysInDef
    <2>3. QED
      BY <2>1, <2>2 DEF KeysIn
  <1>6. KeysIn(A) = KeysIn(T)
    <2>1. ASSUME NEW k \in KeysIn(A) PROVE k \in KeysIn(T)
      <3>1. PICK s \in A : k \in s.keys
        BY <2>1, KeysInDef
      <3>2. PICK t \in T : s = [t EXCEPT !.alerted = TRUE]
        OBVIOUS
      <3>3. QED
        BY <3>1, <3>2, <1>2, KeysInDef
    <2>2. ASSUME NEW k \in KeysIn(T) PROVE k \in KeysIn(A)
      <3>1. PICK t \in T : k \in t.keys
        BY <2>2, KeysInDef
      <3>2. [t EXCEPT !.alerted = TRUE] \in A
        OBVIOUS
      <3>3. QED
        BY <3>1, <3>2, <1>2, KeysInDef
    <2>3. QED
      BY <2>1, <2>2 DEF KeysIn
  <1>7. QED
    BY <1>3, <1>4, <1>5, <1>6

\* The instances of the transactions of a job are configured ones.
LEMMA KeysInType ==
  ASSUME NEW T \in SUBSET Tx
  PROVE  KeysIn(T) \subseteq Instances
  BY DEF KeysIn, Tx

\* The instances of one transaction, and of none.
LEMMA KeysInOne ==
  /\ KeysIn({}) = {}
  /\ \A I : KeysIn({[keys |-> I, reload |-> FALSE, alerted |-> FALSE]}) = I
  BY DEF KeysIn

\* A step that leaves the instances of every job alone leaves what is in
\* training alone.
LEMMA TrainingSame ==
  ASSUME \A j \in Jobs : KeysIn(txs'[j]) = KeysIn(txs[j])
  PROVE  Training' = Training
  BY DEF Training, KeysOf

-----------------------------------------------------------------------------
(* Processes.                                                              *)

\* A process that does nothing is a process.
LEMMA IdleType == Idle \in Process
  BY DEF Idle, Process, Places

\* A process that toggles no fence before or after its step leaves them alone.
LEMMA PendingSame ==
  ASSUME NEW p \in Procs, NEW x, proc \in [Procs -> Process],
         proc' = [proc EXCEPT ![p] = x],
         proc[p].at \notin {"fencing", "unfencing"},
         x.at \notin {"fencing", "unfencing"}
  PROVE  /\ Pending("fencing")' = Pending("fencing")
         /\ Pending("unfencing")' = Pending("unfencing")
  <1>1. \A k : k \in Pending("fencing")' <=> k \in Pending("fencing")
    BY DEF Pending
  <1>2. \A k : k \in Pending("unfencing")' <=> k \in Pending("unfencing")
    BY DEF Pending
  <1>3. QED
    BY <1>1, <1>2

\* A step that changes nothing the fences depend on keeps them in order.
LEMMA FencesSame ==
  ASSUME FencesOK, Training' = Training, fenced' = fenced, raced' = raced, lifted' = lifted,
         Pending("fencing")' = Pending("fencing"),
         Pending("unfencing")' = Pending("unfencing")
  PROVE  FencesOK'
  BY DEF FencesOK, Settled, Exactly, Untouched

-----------------------------------------------------------------------------
(* The map and the file.                                                   *)

\* A map of transactions as the map and the file hold them.
TxsOK(m) ==
  /\ m \in [Jobs -> SUBSET Tx]
  /\ \A j \in Jobs : \A s, t \in m[j] : s = t
  /\ Apart(m)

StoreOK == TxsOK(txs) /\ TxsOK(disk) /\ DiskTracksMemory

\* A write that succeeds or fails leaves the map and the file in order.
LEMMA SaveStore ==
  ASSUME StoreOK, Save, TxsOK(txs')
  PROVE  StoreOK'
  BY DEF StoreOK, Save, TxsOK, Apart, DiskTracksMemory

\* Replacing the transactions of one job by one that has none of the instances of
\* the other jobs keeps a map in order.
LEMMA TxsSet ==
  ASSUME TxsOK(txs), NEW j \in Jobs, NEW T \in SUBSET Tx, \A s, t \in T : s = t,
         \A i \in Jobs \ {j} : KeysIn(T) \cap KeysIn(txs[i]) = {},
         txs' = [txs EXCEPT ![j] = T]
  PROVE  TxsOK(txs')
  BY DEF TxsOK, Apart

\* The same when the new transactions have no instance the old ones had not.
LEMMA TxsKeep ==
  ASSUME TxsOK(txs), NEW j \in Jobs, NEW T \in SUBSET Tx, \A s, t \in T : s = t,
         KeysIn(T) \subseteq KeysIn(txs[j]),
         txs' = [txs EXCEPT ![j] = T]
  PROVE  TxsOK(txs')
  <1>1. \A i \in Jobs \ {j} : KeysIn(T) \cap KeysIn(txs[i]) = {}
    BY DEF TxsOK, Apart
  <1>2. QED
    BY <1>1, TxsSet

\* Every step leaves the map and the file in order.
LEMMA StoreStep ==
  ASSUME TypeOK, StoreOK, [Next]_vars
  PROVE  StoreOK'
  <1>1. ASSUME UNCHANGED <<txs, disk, dirty>> PROVE StoreOK'
    BY <1>1 DEF StoreOK, TxsOK, Apart, DiskTracksMemory
  <1>2. ASSUME NEW p \in Handlers, NEW j \in Jobs, NEW I \in SUBSET Instances, Begin(p, j, I)
        PROVE  StoreOK'
    <2> DEFINE T == {[keys |-> I, reload |-> FALSE, alerted |-> FALSE]}
    <2>1. T \in SUBSET Tx
      <3>1. I # {}
        BY <1>2 DEF Begin
      <3>2. [keys |-> I, reload |-> FALSE, alerted |-> FALSE] \in Tx
        BY <3>1 DEF Tx
      <3>3. QED
        BY <3>2
    <2>2. KeysIn(T) = I
      BY KeysInOne
    <2>3. \A i \in Jobs \ {j} : KeysIn(T) \cap KeysIn(txs[i]) = {}
      BY <1>2, <2>2 DEF Begin, Training, KeysOf
    <2>4. TxsOK(txs')
      BY <1>2, <2>1, <2>3, TxsSet DEF Begin, StoreOK
    <2>5. QED
      BY <1>2, <2>4, SaveStore DEF Begin
  <1>3. ASSUME NEW p \in Handlers, EndDecides(p) PROVE StoreOK'
    <2> DEFINE j == proc[p].job
    <2>1. CASE UNCHANGED <<txs, disk, dirty>>
      BY <1>1, <2>1
    <2>2. CASE /\ txs' = [txs EXCEPT ![j] = {[t EXCEPT !.reload = TRUE] : t \in txs[j]}]
               /\ IF Open(j) THEN Save ELSE UNCHANGED <<disk, dirty, faults>>
      <3>1. CASE j \in Jobs /\ Open(j)
        <4>1. TxsOK(txs')
          <5> DEFINE T == {[t EXCEPT !.reload = TRUE] : t \in txs[j]}
          <5>1. txs[j] \in SUBSET Tx /\ \A s, t \in txs[j] : s = t
            BY <3>1 DEF StoreOK, TxsOK
          <5>2. T \in SUBSET Tx /\ (\A s, t \in T : s = t) /\ KeysIn(T) = KeysIn(txs[j])
            BY <5>1, Marked
          <5>3. txs' = [txs EXCEPT ![j] = T]
            BY <2>2
          <5> HIDE DEF T
          <5>4. QED
            BY <3>1, <5>2, <5>3, TxsKeep DEF StoreOK
        <4>2. QED
          BY <2>2, <3>1, <4>1, SaveStore
      <3>2. CASE j \in Jobs /\ ~Open(j)
        <4>1. txs' = txs
          BY <2>2, <3>2 DEF Open, StoreOK, TxsOK
        <4>2. QED
          BY <1>1, <2>2, <3>2, <4>1
      <3>3. CASE j \notin Jobs
        <4>1. txs' = txs
          BY <2>2, <3>3 DEF StoreOK, TxsOK
        <4>2. QED
          BY <2>2, <4>1, <1>1, SaveStore DEF StoreOK
      <3>4. QED
        BY <3>1, <3>2, <3>3
    <2>3. QED
      BY <1>3, <2>1, <2>2 DEF EndDecides
  <1>4. ASSUME NEW p \in Procs, Close(p) PROVE StoreOK'
    <2> DEFINE j == proc[p].job
    <2>1. CASE UNCHANGED <<txs, disk, dirty>>
      BY <1>1, <2>1
    <2>2. CASE txs' = [txs EXCEPT ![j] = {}] /\ Save
      <3>1. CASE j \in Jobs
        <4>1. TxsOK(txs')
          BY <2>2, <3>1, KeysInOne, TxsKeep DEF StoreOK
        <4>2. QED
          BY <2>2, <4>1, SaveStore
      <3>2. CASE j \notin Jobs
        <4>1. txs' = txs
          BY <2>2, <3>2 DEF StoreOK, TxsOK
        <4>2. QED
          BY <2>2, <4>1, SaveStore DEF StoreOK
      <3>3. QED
        BY <3>1, <3>2
    <2>3. QED
      BY <1>4, <2>1, <2>2 DEF Close
  <1>5. ASSUME CheckRaised PROVE StoreOK'
    <2> DEFINE j == proc[Watchdog].job
    <2>1. CASE UNCHANGED <<txs, disk, dirty>>
      BY <1>1, <2>1
    <2>2. CASE /\ txs' = [txs EXCEPT ![j] = {[t EXCEPT !.alerted = TRUE] : t \in txs[j]}]
               /\ Save
      <3>1. CASE j \in Jobs
        <4>1. TxsOK(txs')
          <5> DEFINE T == {[t EXCEPT !.alerted = TRUE] : t \in txs[j]}
          <5>1. txs[j] \in SUBSET Tx /\ \A s, t \in txs[j] : s = t
            BY <3>1 DEF StoreOK, TxsOK
          <5>2. T \in SUBSET Tx /\ (\A s, t \in T : s = t) /\ KeysIn(T) = KeysIn(txs[j])
            BY <5>1, Marked
          <5>3. txs' = [txs EXCEPT ![j] = T]
            BY <2>2
          <5> HIDE DEF T
          <5>4. QED
            BY <3>1, <5>2, <5>3, TxsKeep DEF StoreOK
        <4>2. QED
          BY <2>2, <4>1, SaveStore
      <3>2. CASE j \notin Jobs
        <4>1. txs' = txs
          BY <2>2, <3>2 DEF StoreOK, TxsOK
        <4>2. QED
          BY <2>2, <4>1, SaveStore DEF StoreOK
      <3>3. QED
        BY <3>1, <3>2
    <2>3. QED
      BY <1>5, <2>1, <2>2 DEF CheckRaised
  <1>6. ASSUME Restart PROVE StoreOK'
    <2>1. CASE txs' = disk
      BY <1>6, <2>1 DEF Restart, LoadTrain, StoreOK, TxsOK, Apart, DiskTracksMemory
    <2>2. CASE txs' = [j \in Jobs |-> {}] /\ dirty' = TRUE
      <3>1. TxsOK(txs')
        BY <2>2, KeysInOne DEF TxsOK, Apart
      <3>2. QED
        BY <1>6, <2>2, <3>1 DEF Restart, StoreOK, TxsOK, Apart, DiskTracksMemory
    <2>3. QED
      BY <1>6, <2>1, <2>2 DEF Restart, LoadTrain
  <1>7. ASSUME NEW p \in Handlers,
               Drained(p) \/ \E j \in Jobs, force \in BOOLEAN : End(p, j, force)
        PROVE  StoreOK'
    BY <1>1, <1>7 DEF End, Drained
  <1>8. ASSUME NEW p \in Procs, NEW k \in Instances, FenceOn(p, k) \/ FenceOff(p, k)
        PROVE  StoreOK'
    BY <1>1, <1>8 DEF FenceOn, FenceOff, Fence
  <1>9. ASSUME CheckStarts \/ CheckNext \/ CheckDecides PROVE StoreOK'
    BY <1>1, <1>9 DEF CheckStarts, CheckNext, CheckDecides
  <1>10. ASSUME \/ \E k \in Instances : InstanceUp(k) \/ InstanceDown(k)
                \/ \E j \in Jobs : DeadlinePasses(j)
         PROVE  StoreOK'
    BY <1>1, <1>10 DEF InstanceUp, InstanceDown, DeadlinePasses
  <1>11. CASE UNCHANGED vars
    BY <1>1, <1>11 DEF vars
  <1>12. QED
    BY <1>2, <1>3, <1>4, <1>5, <1>6, <1>7, <1>8, <1>9, <1>10, <1>11
    DEF Next, Handle, Loop, Check, World

-----------------------------------------------------------------------------
(* Types of what is not the map or the file.                               *)

\* A process, one that decides about a transaction knowing its job.
ProcOK(x) == x \in Process /\ (x.at \in {"probing", "raising", "closing"} => x.job \in Jobs)

ProcsOK(f) == f \in [Procs -> Process] /\ \A p \in Procs : ProcOK(f[p])

OtherTypes ==
  /\ dirty \in BOOLEAN
  /\ fenced \subseteq Fences
  /\ up \subseteq Instances
  /\ late \subseteq Jobs
  /\ ProcsOK(proc)
  /\ batch \subseteq Snapshot
  /\ raced \subseteq Instances
  /\ lifted \subseteq Fences
  /\ faults \in 0..MaxFaults

\* The types of a write of the file.
LEMMA SaveTypes ==
  ASSUME OtherTypes, Save \/ UNCHANGED <<disk, dirty, faults>>
  PROVE  dirty' \in BOOLEAN /\ faults' \in 0..MaxFaults
  <1>1. dirty' \in BOOLEAN
    BY Zenon DEF OtherTypes, Save
  <1>2. faults' \in 0..MaxFaults
    BY TrainAssumption, SMT DEF OtherTypes, Save
  <1>3. QED
    BY <1>1, <1>2

\* Every process record the actions build is a process.
LEMMA Built ==
  /\ ProcOK(Idle)
  /\ \A p : ProcOK(Resume(p))
  /\ \A j \in Jobs, K \in SUBSET Instances :
       ProcOK([Idle EXCEPT !.at = "fencing", !.job = j, !.keys = K, !.todo = K])
  /\ \A K \in SUBSET Instances : ProcOK([Idle EXCEPT !.at = "draining", !.keys = K])
  /\ \A j \in Jobs, K \in SUBSET Instances, b \in BOOLEAN :
       ProcOK([Idle EXCEPT !.at = "probing", !.job = j, !.keys = K, !.force = b])
  /\ \A j \in Jobs : ProcOK([Idle EXCEPT !.at = "closing", !.job = j])
  /\ \A K \in SUBSET Instances : ProcOK([Idle EXCEPT !.at = "unfencing", !.todo = K])
  /\ \A b \in Snapshot :
       ProcOK([Idle EXCEPT !.at = "probing", !.job = b.job, !.keys = b.keys,
                           !.reload = b.reload, !.alerted = b.alerted, !.late = b.late])
  BY DEF Resume, Idle, Process, Places, ProcOK, Snapshot

\* And so is one whose place, instances or loop has been changed.
LEMMA Changed ==
  /\ \A w, K : ProcOK(w) /\ K \in SUBSET Instances => ProcOK([w EXCEPT !.todo = K])
  /\ \A w, K : ProcOK(w) /\ w.job \in Jobs /\ K \in SUBSET Instances =>
              ProcOK([w EXCEPT !.at = "raising", !.keys = K])
  /\ \A w : ProcOK(w) => ProcOK([w EXCEPT !.at = "next"])
  BY DEF Process, Places, ProcOK

\* One process moves on.
LEMMA OneMoves ==
  ASSUME ProcsOK(proc), NEW p \in Procs, NEW x, ProcOK(x), proc' = [proc EXCEPT ![p] = x]
  PROVE  ProcsOK(proc)'
  BY DEF ProcsOK, ProcOK

\* The watchdog is a process, and so is every handler.
LEMMA ProcsDef == Watchdog \in Procs /\ Handlers \subseteq Procs
  BY DEF Procs

\* What is in training, before and after a step.
LEMMA TrainingDef ==
  /\ \A k : k \in Training <=> \E j \in Jobs : k \in KeysIn(txs[j])
  /\ \A k : k \in Training' <=> \E j \in Jobs : k \in KeysIn(txs'[j])
  BY DEF Training, KeysOf

\* After a restart only what the file holds is in training.
LEMMA LoadedKeys ==
  ASSUME Restart
  PROVE  \A k : k \in Training' => \E j \in Jobs : k \in KeysIn(disk[j])
  BY KeysInOne, TrainingDef DEF Restart, LoadTrain

\* Every step keeps the types.
LEMMA TypesStep ==
  ASSUME TypeOK, [Next]_vars
  PROVE  OtherTypes'
  <1>0. OtherTypes /\ txs \in [Jobs -> SUBSET Tx]
    BY DEF TypeOK, OtherTypes, ProcsOK, ProcOK
  <1>a. \A j \in Jobs : KeysOf(j) \in SUBSET Instances
    BY <1>0, KeysInType DEF KeysOf
  <1>b. \A p \in Procs : ProcOK(proc[p]) /\ ProcsOK(proc)
    BY <1>0 DEF OtherTypes, ProcsOK
  <1>c. \A p \in Procs : /\ proc[p].keys \in SUBSET Instances
                         /\ proc[p].todo \in SUBSET Instances
                         /\ proc[p].at \in {"probing", "raising", "closing"} =>
                              proc[p].job \in Jobs
    BY <1>b DEF Process, ProcOK
  <1>d. \A k \in Instances : FenceOf[k] \subseteq Fences
    BY DEF Fences
  <1>1. ASSUME NEW p \in Handlers, NEW j \in Jobs, NEW I \in SUBSET Instances, Begin(p, j, I)
        PROVE  OtherTypes'
    <2>1. ProcsOK(proc)'
      BY <1>b, <1>1, Built, OneMoves, ProcsDef DEF Begin
    <2>2. raced' \subseteq Instances /\ late' \subseteq Jobs
      BY <1>0, <1>1 DEF Begin, OtherTypes
    <2>3. QED
      BY <1>0, <1>1, <2>1, <2>2, SaveTypes DEF Begin, OtherTypes
  <1>2. ASSUME NEW p \in Handlers, NEW j \in Jobs, NEW force \in BOOLEAN, End(p, j, force)
        PROVE  OtherTypes'
    <2>1. ProcsOK(proc)'
      BY <1>a, <1>b, <1>2, Built, OneMoves, ProcsDef DEF End
    <2>2. QED
      BY <1>0, <1>2, <2>1 DEF End, OtherTypes
  <1>3. ASSUME NEW p \in Handlers, Drained(p) PROVE OtherTypes'
    <2>1. ProcsOK(proc)'
      BY <1>b, <1>3, Built, OneMoves, ProcsDef DEF Drained
    <2>2. up' \subseteq Instances
      BY <1>0, <1>3 DEF Drained, OtherTypes
    <2>3. QED
      BY <1>0, <1>3, <2>1, <2>2 DEF Drained, OtherTypes
  <1>4. ASSUME NEW p \in Handlers, EndDecides(p) PROVE OtherTypes'
    <2>1. ProcsOK(proc)'
      <3>1. \/ proc' = [proc EXCEPT ![p] = Idle]
            \/ proc' = [proc EXCEPT ![p] = [Idle EXCEPT !.at = "closing", !.job = proc[p].job]]
        BY <1>4 DEF EndDecides
      <3>2. ProcOK([Idle EXCEPT !.at = "closing", !.job = proc[p].job])
        BY <1>c, <1>4, Built, ProcsDef DEF EndDecides
      <3>3. QED
        BY <1>b, <3>1, <3>2, Built, OneMoves, ProcsDef
    <2>2. Save \/ UNCHANGED <<disk, dirty, faults>>
      BY <1>4 DEF EndDecides
    <2>3. QED
      BY <1>0, <1>4, <2>1, <2>2, SaveTypes DEF EndDecides, OtherTypes
  <1>5. ASSUME NEW p \in Procs, NEW k \in Instances, FenceOn(p, k) PROVE OtherTypes'
    <2>1. ProcsOK(proc)'
      <3>1. CASE proc[p].todo = {k}
        <4>1. proc' = [proc EXCEPT ![p] = [Idle EXCEPT !.at = "draining", !.keys = proc[p].keys]]
          BY <1>5, <3>1 DEF FenceOn, Fence
        <4>2. ProcOK([Idle EXCEPT !.at = "draining", !.keys = proc[p].keys])
          BY <1>c, Built
        <4>3. QED
          BY <1>b, <4>1, <4>2, OneMoves
      <3>2. CASE proc[p].todo # {k}
        <4>1. proc' = [proc EXCEPT ![p] = [proc[p] EXCEPT !.todo = proc[p].todo \ {k}]]
          BY <1>5, <3>2 DEF FenceOn, Fence
        <4>2. proc[p].todo \ {k} \in SUBSET Instances
          BY <1>c
        <4>3. ProcOK([proc[p] EXCEPT !.todo = proc[p].todo \ {k}])
          BY <1>b, <4>2, Changed
        <4>4. QED
          BY <1>b, <4>1, <4>3, OneMoves
      <3>3. QED
        BY <3>1, <3>2
    <2>2. fenced' \subseteq Fences
      BY <1>0, <1>d, <1>5 DEF FenceOn, Fence, OtherTypes
    <2>3. QED
      BY <1>0, <1>5, <2>1, <2>2 DEF FenceOn, Fence, OtherTypes
  <1>6. ASSUME NEW p \in Procs, NEW k \in Instances, FenceOff(p, k) PROVE OtherTypes'
    <2>1. ProcsOK(proc)'
      <3>1. CASE proc[p].todo = {k}
        <4>1. proc' = [proc EXCEPT ![p] = Resume(p)]
          BY <1>6, <3>1 DEF FenceOff, Fence
        <4>2. ProcOK(Resume(p))
          BY <1>c, Built
        <4>3. QED
          BY <1>b, <4>1, <4>2, OneMoves
      <3>2. CASE proc[p].todo # {k}
        <4>1. proc' = [proc EXCEPT ![p] = [proc[p] EXCEPT !.todo = proc[p].todo \ {k}]]
          BY <1>6, <3>2 DEF FenceOff, Fence
        <4>2. proc[p].todo \ {k} \in SUBSET Instances
          BY <1>c
        <4>3. ProcOK([proc[p] EXCEPT !.todo = proc[p].todo \ {k}])
          BY <1>b, <4>2, Changed
        <4>4. QED
          BY <1>b, <4>1, <4>3, OneMoves
      <3>3. QED
        BY <3>1, <3>2
    <2>2. fenced' \subseteq Fences /\ lifted' \subseteq Fences
      BY <1>0, <1>d, <1>6 DEF FenceOff, Fence, OtherTypes
    <2>3. QED
      BY <1>0, <1>6, <2>1, <2>2 DEF FenceOff, Fence, OtherTypes
  <1>7. ASSUME NEW p \in Procs, Close(p) PROVE OtherTypes'
    <2> DEFINE j == proc[p].job
    <2>1. j \in Jobs /\ KeysOf(j) \in SUBSET Instances
      BY <1>a, <1>c, <1>7 DEF Close
    <2>2. CASE ~Open(j)
      <3>1. ProcsOK(proc)'
        BY <1>b, <1>7, <2>2, Built, OneMoves DEF Close
      <3>2. QED
        BY <1>0, <1>7, <2>2, <3>1 DEF Close, OtherTypes
    <2>3. CASE Open(j)
      <3>1. ProcsOK(proc)'
        BY <1>b, <1>7, <2>1, <2>3, Built, OneMoves DEF Close
      <3>2. raced' \subseteq Instances /\ late' \subseteq Jobs
        BY <1>0, <1>7, <2>1, <2>3 DEF Close, OtherTypes
      <3>3. QED
        BY <1>0, <1>7, <2>3, <3>1, <3>2, SaveTypes DEF Close, OtherTypes
    <2>4. QED
      BY <2>2, <2>3
  <1>8. ASSUME CheckStarts PROVE OtherTypes'
    <2>1. ProcsOK(proc)'
      <3>1. proc' = [proc EXCEPT ![Watchdog] = [proc[Watchdog] EXCEPT !.at = "next"]]
        BY <1>b, <1>8, ProcsDef DEF CheckStarts, ProcsOK
      <3>2. QED
        BY <1>b, <3>1, Changed, OneMoves, ProcsDef
    <2>2. batch' \subseteq Snapshot
      <3>1. ASSUME NEW j \in Jobs, NEW t \in txs[j]
            PROVE  [job |-> j, keys |-> t.keys, reload |-> t.reload,
                    alerted |-> t.alerted, late |-> j \in late] \in Snapshot
        <4>1. t \in Tx
          BY <1>0
        <4>2. (j \in late) \in BOOLEAN
          OBVIOUS
        <4>3. QED
          BY <4>1, <4>2 DEF Tx, Snapshot
      <3>2. QED
        BY <1>8, <3>1 DEF CheckStarts
    <2>3. QED
      BY <1>0, <1>8, <2>1, <2>2 DEF CheckStarts, OtherTypes
  <1>9. ASSUME CheckNext PROVE OtherTypes'
    <2>1. ProcsOK(proc)'
      <3>1. CASE proc' = [proc EXCEPT ![Watchdog] = Idle]
        BY <1>b, <3>1, Built, OneMoves, ProcsDef
      <3>2. ASSUME NEW b \in batch,
                   proc' = [proc EXCEPT ![Watchdog] =
                        [Idle EXCEPT !.at = "probing", !.job = b.job, !.keys = b.keys,
                                     !.reload = b.reload, !.alerted = b.alerted,
                                     !.late = b.late]]
            PROVE ProcsOK(proc)'
        <4>1. b \in Snapshot
          BY <1>0 DEF OtherTypes
        <4>2. QED
          BY <1>b, <3>2, <4>1, Built, OneMoves, ProcsDef
      <3>3. QED
        BY <1>9, <3>1, <3>2 DEF CheckNext
    <2>2. batch' \subseteq Snapshot
      BY <1>0, <1>9 DEF CheckNext, OtherTypes
    <2>3. QED
      BY <1>0, <1>9, <2>1, <2>2 DEF CheckNext, OtherTypes
  <1>10. ASSUME CheckDecides PROVE OtherTypes'
    <2> DEFINE w == proc[Watchdog]
    <2>1. ProcsOK(proc)'
      <3>1. PICK down \in FoundDown(w.keys) :
               \/ proc' = [proc EXCEPT ![Watchdog] = [Idle EXCEPT !.at = "closing", !.job = w.job]]
               \/ proc' = [proc EXCEPT ![Watchdog] = Resume(Watchdog)]
               \/ proc' = [proc EXCEPT ![Watchdog] = [w EXCEPT !.at = "raising", !.keys = down]]
        BY <1>10 DEF CheckDecides
      <3>2. w.job \in Jobs /\ down \in SUBSET Instances
        BY <1>c, <1>10, ProcsDef DEF CheckDecides, FoundDown
      <3>3. ProcOK([Idle EXCEPT !.at = "closing", !.job = w.job]) /\ ProcOK(Resume(Watchdog))
        BY <3>2, Built
      <3>4. ProcOK([w EXCEPT !.at = "raising", !.keys = down])
        BY <1>b, <3>2, Changed, ProcsDef
      <3>5. QED
        BY <1>b, <3>1, <3>3, <3>4, OneMoves, ProcsDef
    <2>2. QED
      BY <1>0, <1>10, <2>1 DEF CheckDecides, OtherTypes
  <1>11. ASSUME CheckRaised PROVE OtherTypes'
    <2> DEFINE w == proc[Watchdog]
    <2>1. ProcsOK(proc)'
      <3>1. PICK x \in {[Idle EXCEPT !.at = "closing", !.job = w.job], Resume(Watchdog)} :
               proc' = [proc EXCEPT ![Watchdog] = x]
        BY <1>11 DEF CheckRaised
      <3>2. w.job \in Jobs
        BY <1>c, <1>11, ProcsDef DEF CheckRaised
      <3>3. ProcOK(x)
        BY <3>2, Built
      <3>4. QED
        BY <1>b, <3>1, <3>3, OneMoves, ProcsDef
    <2>2. Save \/ UNCHANGED <<disk, dirty, faults>>
      BY <1>11 DEF CheckRaised
    <2>3. QED
      BY <1>0, <1>11, <2>1, <2>2, SaveTypes DEF CheckRaised, OtherTypes
  <1>12. ASSUME \/ \E k \in Instances : InstanceUp(k) \/ InstanceDown(k)
                \/ \E j \in Jobs : DeadlinePasses(j)
         PROVE  OtherTypes'
    <2>1. proc' = proc
      BY <1>12 DEF InstanceUp, InstanceDown, DeadlinePasses
    <2>2. ProcsOK(proc)'
      BY <1>b, <2>1, ProcsDef DEF ProcsOK, ProcOK
    <2>3. QED
      BY <1>0, <1>12, <2>2 DEF InstanceUp, InstanceDown, DeadlinePasses, OtherTypes
  <1>13. ASSUME Restart PROVE OtherTypes'
    <2>1. fenced' \subseteq Fences
      <3>1. \A j \in Jobs : KeysIn(disk[j]) \subseteq Instances
        BY KeysInType DEF TypeOK
      <3>2. \A k \in Training' : k \in Instances
        BY <1>13, <3>1, LoadedKeys
      <3>3. QED
        BY <1>d, <1>13, <3>2 DEF Restart, RestoredFences
    <2>2. ProcsOK(proc)'
      BY <1>13, Built DEF Restart, ProcsOK, ProcOK
    <2>3. faults' \in 0..MaxFaults
      BY <1>0, <1>13, TrainAssumption DEF Restart, OtherTypes
    <2>4. dirty' \in BOOLEAN
      BY <1>13, Zenon DEF Restart, LoadTrain
    <2>5. QED
      BY <1>0, <1>13, <2>1, <2>2, <2>3, <2>4 DEF Restart, OtherTypes
  <1>14. CASE UNCHANGED vars
    <2>1. ProcsOK(proc)'
      BY <1>b, <1>14, ProcsDef DEF vars, ProcsOK, ProcOK
    <2>2. QED
      BY <1>0, <1>14, <2>1 DEF vars, OtherTypes
  <1>15. QED
    BY <1>1, <1>2, <1>3, <1>4, <1>5, <1>6, <1>7, <1>8, <1>9, <1>10, <1>11, <1>12,
       <1>13, <1>14
    DEF Next, Handle, Loop, Check, World

-----------------------------------------------------------------------------
(* The fences.                                                             *)

\* Which instances a loop over the fences has yet to reach, before and after a step.
LEMMA PendingDef ==
  /\ \A k : k \in Pending("fencing") <=>
              \E q \in Procs : proc[q].at = "fencing" /\ k \in proc[q].todo
  /\ \A k : k \in Pending("unfencing") <=>
              \E q \in Procs : proc[q].at = "unfencing" /\ k \in proc[q].todo
  /\ \A k : k \in Pending("fencing")' <=>
              \E q \in Procs : proc'[q].at = "fencing" /\ k \in proc'[q].todo
  /\ \A k : k \in Pending("unfencing")' <=>
              \E q \in Procs : proc'[q].at = "unfencing" /\ k \in proc'[q].todo
  BY DEF Pending

\* The places of the records the actions build.
LEMMA PlacesBuilt ==
  /\ Idle.at = "idle"
  /\ \A p : Resume(p).at \in {"next", "idle"}
  /\ \A K : [Idle EXCEPT !.at = "draining", !.keys = K].at = "draining"
  /\ \A j : [Idle EXCEPT !.at = "closing", !.job = j].at = "closing"
  /\ \A j, K, b : [Idle EXCEPT !.at = "probing", !.job = j, !.keys = K, !.force = b].at = "probing"
  /\ \A j, K, r, a, l :
       [Idle EXCEPT !.at = "probing", !.job = j, !.keys = K, !.reload = r, !.alerted = a,
                    !.late = l].at = "probing"
  /\ \A w \in Process : \A K : [w EXCEPT !.at = "raising", !.keys = K].at = "raising"
  /\ \A w \in Process : [w EXCEPT !.at = "next"].at = "next"
  /\ \A j, K : /\ [Idle EXCEPT !.at = "fencing", !.job = j, !.keys = K, !.todo = K].at = "fencing"
               /\ [Idle EXCEPT !.at = "fencing", !.job = j, !.keys = K, !.todo = K].todo = K
  /\ \A K : /\ [Idle EXCEPT !.at = "unfencing", !.todo = K].at = "unfencing"
            /\ [Idle EXCEPT !.at = "unfencing", !.todo = K].todo = K
  /\ \A w \in Process : \A K : /\ [w EXCEPT !.todo = K].at = w.at
                               /\ [w EXCEPT !.todo = K].todo = K
  BY DEF Idle, Resume, Process, Places

\* A step of a loop over the fences takes one instance off what is pending.
LEMMA LoopStep ==
  ASSUME NEW p \in Procs, NEW k \in Instances, NEW after, proc \in [Procs -> Process],
         k \in proc[p].todo, after.at \notin {"fencing", "unfencing"},
         proc' = [proc EXCEPT ![p] =
                    IF proc[p].todo = {k} THEN after
                    ELSE [proc[p] EXCEPT !.todo = proc[p].todo \ {k}]]
  PROVE  /\ \A m : m # k => (m \in Pending("fencing")' <=> m \in Pending("fencing"))
         /\ \A m : m # k => (m \in Pending("unfencing")' <=> m \in Pending("unfencing"))
         /\ k \in Pending("fencing")' => k \in Pending("fencing")
         /\ k \in Pending("unfencing")' => k \in Pending("unfencing")
  <1> DEFINE x == IF proc[p].todo = {k} THEN after
                  ELSE [proc[p] EXCEPT !.todo = proc[p].todo \ {k}]
  <1>1. proc'[p] = x /\ \A q \in Procs \ {p} : proc'[q] = proc[q]
    OBVIOUS
  <1>2. CASE proc[p].todo = {k}
    <2>1. x.at \notin {"fencing", "unfencing"}
      BY <1>2
    <2> HIDE DEF x
    <2>2. QED
      BY <1>1, <1>2, <2>1, PendingDef
  <1>3. CASE proc[p].todo # {k}
    <2>1. x.at = proc[p].at /\ x.todo = proc[p].todo \ {k}
      BY <1>3, PlacesBuilt
    <2> HIDE DEF x
    <2>2. QED
      BY <1>1, <2>1, PendingDef
  <1>4. QED
    BY <1>2, <1>3

\* Every step keeps the fences in order.
LEMMA FencesStep ==
  ASSUME TrainInv, [Next]_vars
  PROVE  FencesOK'
  <1>0. /\ proc \in [Procs -> Process]
        /\ txs \in [Jobs -> SUBSET Tx]
        /\ disk \in [Jobs -> SUBSET Tx]
        /\ \A p \in Procs : proc[p].at \in {"probing", "raising", "closing"} => proc[p].job \in Jobs
        /\ \A j \in Jobs : \A s, t \in txs[j] : s = t
    BY DEF TrainInv, TypeOK
  <1>a. FencesOK
    BY DEF TrainInv
  \* Steps that leave the fences and what they depend on alone.
  <1>b. ASSUME raced' = raced, lifted' = lifted, fenced' = fenced, Training' = Training,
               Pending("fencing")' = Pending("fencing"),
               Pending("unfencing")' = Pending("unfencing")
        PROVE  FencesOK'
    BY <1>a, <1>b, FencesSame
  <1>c. ASSUME NEW p \in Procs, NEW x, proc' = [proc EXCEPT ![p] = x],
               proc[p].at \notin {"fencing", "unfencing"},
               x.at \notin {"fencing", "unfencing"},
               raced' = raced, lifted' = lifted, fenced' = fenced, Training' = Training
        PROVE  FencesOK'
    <2>1. /\ Pending("fencing")' = Pending("fencing")
          /\ Pending("unfencing")' = Pending("unfencing")
      BY <1>0, <1>c, PendingSame
    <2>2. QED
      BY <1>b, <1>c, <2>1
  <1>d. ASSUME UNCHANGED txs PROVE Training' = Training
    BY <1>d, TrainingSame
  <1>1. ASSUME NEW p \in Handlers, NEW j \in Jobs, NEW I \in SUBSET Instances, Begin(p, j, I)
        PROVE  FencesOK'
    <2> DEFINE x == [Idle EXCEPT !.at = "fencing", !.job = j, !.keys = I, !.todo = I]
    <2>1. /\ p \in Procs /\ proc[p].at = "idle"
          /\ x.at = "fencing" /\ x.todo = I
          /\ proc' = [proc EXCEPT ![p] = x]
          /\ fenced' = fenced
          /\ raced' = (raced \ I) \cup (I \cap Pending("unfencing"))
          /\ lifted' = lifted
      BY <1>1, ProcsDef, PlacesBuilt DEF Begin
    <2> HIDE DEF x
    <2>2. \A k : k \in Pending("fencing")' <=> k \in Pending("fencing") \/ k \in I
      BY <1>0, <2>1, PendingDef
    <2>3. \A k : k \in Pending("unfencing")' <=> k \in Pending("unfencing")
      BY <1>0, <2>1, PendingDef
    <2>4. \A k : k \in Training' <=> k \in Training \/ k \in I
      <3> DEFINE T == {[keys |-> I, reload |-> FALSE, alerted |-> FALSE]}
      <3>1. KeysIn(T) = I /\ KeysIn({}) = {}
        BY KeysInOne
      <3>2. txs' = [txs EXCEPT ![j] = T] /\ txs[j] = {}
        BY <1>1 DEF Begin, Open
      <3> HIDE DEF T
      <3>3. QED
        BY <1>0, <3>1, <3>2, TrainingDef
    <2>5. ASSUME NEW k \in Instances \ raced' PROVE Settled(k)'
      <3>1. CASE k \in I
        BY <2>1, <2>2, <2>3, <2>4, <2>5, <3>1 DEF Settled
      <3>2. CASE k \notin I
        <4>1. Settled(k)
          BY <1>a, <2>1, <2>5, <3>2 DEF FencesOK
        <4>2. QED
          BY <2>1, <2>2, <2>3, <2>4, <3>2, <4>1 DEF Settled
      <3>3. QED
        BY <3>1, <3>2
    <2>6. ASSUME NEW f \in Fences \ lifted', Untouched(f)' PROVE Untouched(f) /\ Exactly(f)'
      <3>1. \A k \in Instances : f \in FenceOf[k] => k \notin I
        BY <2>2, <2>6 DEF Untouched
      <3>2. Untouched(f)
        BY <2>1, <2>2, <2>3, <2>6, <3>1 DEF Untouched
      <3>3. Exactly(f)
        BY <1>a, <2>1, <2>6 DEF FencesOK
      <3>4. QED
        BY <2>1, <2>4, <3>1, <3>2, <3>3 DEF Exactly
    <2>7. QED
      BY <2>5, <2>6 DEF FencesOK, Exactly
  <1>2. ASSUME NEW p \in Handlers, NEW j \in Jobs, NEW force \in BOOLEAN, End(p, j, force)
        PROVE  FencesOK'
    <2> DEFINE x == [Idle EXCEPT !.at = "probing", !.job = j, !.keys = KeysOf(j), !.force = force]
    <2>1. x.at = "probing"
      BY PlacesBuilt
    <2>2. proc' = [proc EXCEPT ![p] = x] /\ UNCHANGED <<raced, lifted, fenced, txs>>
      BY <1>2 DEF End
    <2>3. proc[p].at = "idle"
      BY <1>2, PlacesBuilt DEF End
    <2> HIDE DEF x
    <2>4. QED
      BY <1>c, <1>d, <2>1, <2>2, <2>3, ProcsDef
  <1>3. ASSUME NEW p \in Handlers, Drained(p)
        PROVE  FencesOK'
    BY <1>3, <1>c, <1>d, ProcsDef, PlacesBuilt DEF Drained
  <1>4. ASSUME NEW p \in Handlers, EndDecides(p)
        PROVE  FencesOK'
    <2> DEFINE j == proc[p].job
    <2>1. p \in Procs /\ proc[p].at = "probing" /\ j \in Jobs /\ UNCHANGED <<raced, lifted, fenced>>
      BY <1>0, <1>4, ProcsDef DEF EndDecides
    <2>2. CASE /\ proc' = [proc EXCEPT ![p] = [Idle EXCEPT !.at = "closing", !.job = j]]
               /\ UNCHANGED txs
      <3>1. [Idle EXCEPT !.at = "closing", !.job = j].at = "closing"
        BY PlacesBuilt
      <3>2. QED
        BY <1>c, <1>d, <2>1, <2>2, <3>1
    <2>3. CASE /\ proc' = [proc EXCEPT ![p] = Idle]
               /\ txs' = [txs EXCEPT ![j] = {[t EXCEPT !.reload = TRUE] : t \in txs[j]}]
      <3>1. KeysIn({[t EXCEPT !.reload = TRUE] : t \in txs[j]}) = KeysIn(txs[j])
        BY <1>0, <2>1, Marked
      <3>2. Training' = Training
        BY <1>0, <2>3, <3>1, TrainingSame
      <3>3. QED
        BY <1>c, <2>1, <2>3, <3>2, PlacesBuilt
    <2>4. QED
      BY <1>4, <2>2, <2>3 DEF EndDecides
  <1>5. ASSUME NEW p \in Procs, NEW k \in Instances, FenceOn(p, k)
        PROVE  FencesOK'
    <2> DEFINE after == [Idle EXCEPT !.at = "draining", !.keys = proc[p].keys]
    <2>1. /\ k \in proc[p].todo
          /\ fenced' = fenced \cup FenceOf[k]
          /\ proc' = [proc EXCEPT ![p] = IF proc[p].todo = {k} THEN after
                                         ELSE [proc[p] EXCEPT !.todo = proc[p].todo \ {k}]]
          /\ raced' = raced
          /\ lifted' = lifted \ FenceOf[k]
          /\ UNCHANGED txs
          /\ k \in Pending("fencing")
      BY <1>5, PendingDef DEF FenceOn, Fence
    <2>2. after.at \notin {"fencing", "unfencing"}
      BY PlacesBuilt
    <2> HIDE DEF after
    <2>3. /\ \A m : m # k => (m \in Pending("fencing")' <=> m \in Pending("fencing"))
          /\ \A m : m # k => (m \in Pending("unfencing")' <=> m \in Pending("unfencing"))
          /\ k \in Pending("fencing")' => k \in Pending("fencing")
          /\ k \in Pending("unfencing")' => k \in Pending("unfencing")
      BY <1>0, <2>1, <2>2, LoopStep
    <2>4. Training' = Training
      BY <1>d, <2>1
    <2>5. ASSUME NEW m \in Instances \ raced' PROVE Settled(m)'
      <3>1. Settled(m)
        BY <1>a, <2>1 DEF FencesOK
      <3>2. QED
        BY <2>3, <2>4, <3>1 DEF Settled
    <2>6. ASSUME NEW f \in Fences \ lifted', Untouched(f)' PROVE Exactly(f)'
      <3>1. CASE f \in FenceOf[k]
        <4>1. k \in Training
          BY <1>a, <2>1, <2>6, <3>1 DEF FencesOK, Settled, Untouched
        <4>2. QED
          BY <2>1, <2>4, <3>1, <4>1 DEF Exactly
      <3>2. CASE f \notin FenceOf[k]
        <4>1. Untouched(f) /\ Exactly(f)
          BY <1>a, <2>1, <2>3, <2>6, <3>2 DEF FencesOK, Untouched
        <4>2. QED
          BY <2>1, <2>4, <3>2, <4>1 DEF Exactly
      <3>3. QED
        BY <3>1, <3>2
    <2>7. QED
      BY <2>5, <2>6 DEF FencesOK, Exactly
  <1>6. ASSUME NEW p \in Procs, NEW k \in Instances, FenceOff(p, k)
        PROVE  FencesOK'
    <2>1. /\ k \in proc[p].todo
          /\ fenced' = fenced \ FenceOf[k]
          /\ proc' = [proc EXCEPT ![p] = IF proc[p].todo = {k} THEN Resume(p)
                                         ELSE [proc[p] EXCEPT !.todo = proc[p].todo \ {k}]]
          /\ raced' = raced
          /\ lifted' = (lifted \ FenceOf[k]) \cup (FenceOf[k] \cap SharedFences(k))
          /\ UNCHANGED txs
          /\ k \in Pending("unfencing")
      BY <1>6, PendingDef DEF FenceOff, Fence
    <2>2. Resume(p).at \notin {"fencing", "unfencing"}
      BY PlacesBuilt
    <2>3. /\ \A m : m # k => (m \in Pending("fencing")' <=> m \in Pending("fencing"))
          /\ \A m : m # k => (m \in Pending("unfencing")' <=> m \in Pending("unfencing"))
          /\ k \in Pending("fencing")' => k \in Pending("fencing")
          /\ k \in Pending("unfencing")' => k \in Pending("unfencing")
      BY <1>0, <2>1, <2>2, LoopStep
    <2>4. Training' = Training
      BY <1>d, <2>1
    <2>5. ASSUME NEW m \in Instances \ raced' PROVE Settled(m)'
      <3>1. Settled(m)
        BY <1>a, <2>1 DEF FencesOK
      <3>2. QED
        BY <2>3, <2>4, <3>1 DEF Settled
    <2>6. ASSUME NEW f \in Fences \ lifted', Untouched(f)' PROVE Exactly(f)'
      <3>1. CASE f \in FenceOf[k]
        <4>1. k \notin Training
          BY <1>a, <2>1, <2>6, <3>1 DEF FencesOK, Settled, Untouched
        <4>2. f \notin SharedFences(k)
          BY <2>1, <2>6, <3>1
        <4>3. \A m \in Training \ {k} : f \notin FenceOf[m]
          BY <4>2 DEF SharedFences
        <4>4. QED
          BY <2>1, <2>4, <3>1, <4>1, <4>3 DEF Exactly
      <3>2. CASE f \notin FenceOf[k]
        <4>1. Untouched(f) /\ Exactly(f)
          BY <1>a, <2>1, <2>3, <2>6, <3>2 DEF FencesOK, Untouched
        <4>2. QED
          BY <2>1, <2>4, <3>2, <4>1 DEF Exactly
      <3>3. QED
        BY <3>1, <3>2
    <2>7. QED
      BY <2>5, <2>6 DEF FencesOK, Exactly
  <1>7. ASSUME NEW p \in Procs, Close(p)
        PROVE  FencesOK'
    <2> DEFINE j == proc[p].job
    <2>1. proc[p].at = "closing" /\ j \in Jobs /\ fenced' = fenced /\ lifted' = lifted
      BY <1>0, <1>7 DEF Close
    <2>2. CASE ~Open(j)
      BY <1>7, <1>c, <1>d, <2>1, <2>2, PlacesBuilt DEF Close
    <2>3. CASE Open(j)
      <3> DEFINE x == [Idle EXCEPT !.at = "unfencing", !.todo = KeysOf(j)]
      <3>1. /\ x.at = "unfencing" /\ x.todo = KeysOf(j)
            /\ proc' = [proc EXCEPT ![p] = x]
            /\ raced' = (raced \ KeysOf(j)) \cup (KeysOf(j) \cap Pending("fencing"))
            /\ txs' = [txs EXCEPT ![j] = {}]
        BY <1>7, <2>3, PlacesBuilt DEF Close
      <3> HIDE DEF x
      <3>2. \A k : k \in Pending("fencing")' <=> k \in Pending("fencing")
        BY <1>0, <2>1, <3>1, PendingDef
      <3>3. \A k : k \in Pending("unfencing")' <=>
                     k \in Pending("unfencing") \/ k \in KeysOf(j)
        BY <1>0, <2>1, <3>1, PendingDef
      <3>4. \A k : k \in Training' <=> k \in Training /\ k \notin KeysOf(j)
        <4>1. Apart(txs)
          BY DEF TrainInv
        <4>2. KeysIn({}) = {}
          BY KeysInOne
        <4>3. \A i \in Jobs : KeysIn(txs'[i]) = IF i = j THEN {} ELSE KeysIn(txs[i])
          BY <1>0, <3>1, <4>2
        <4>4. QED
          BY <2>1, <4>1, <4>3, TrainingDef DEF Apart, KeysOf
      <3>5. ASSUME NEW k \in Instances \ raced' PROVE Settled(k)'
        <4>1. CASE k \in KeysOf(j)
          BY <3>1, <3>2, <3>3, <3>4, <3>5, <4>1 DEF Settled
        <4>2. CASE k \notin KeysOf(j)
          <5>1. Settled(k)
            BY <1>a, <3>1, <3>5, <4>2 DEF FencesOK
          <5>2. QED
            BY <2>1, <3>2, <3>3, <3>4, <4>2, <5>1 DEF Settled
        <4>3. QED
          BY <4>1, <4>2
      <3>6. ASSUME NEW f \in Fences \ lifted', Untouched(f)' PROVE Exactly(f)'
        <4>1. \A k \in Instances : f \in FenceOf[k] => k \notin KeysOf(j)
          BY <3>3, <3>6 DEF Untouched
        <4>2. Untouched(f)
          BY <3>1, <3>2, <3>3, <3>6, <4>1 DEF Untouched
        <4>3. Exactly(f)
          BY <1>a, <2>1, <3>6 DEF FencesOK
        <4>4. QED
          BY <2>1, <3>4, <4>1, <4>2, <4>3 DEF Exactly
      <3>7. QED
        BY <3>5, <3>6 DEF FencesOK, Exactly
    <2>4. QED
      BY <2>2, <2>3
  <1>8. ASSUME CheckStarts PROVE FencesOK'
    <2>1. proc' = [proc EXCEPT ![Watchdog] = [proc[Watchdog] EXCEPT !.at = "next"]]
      BY <1>8 DEF CheckStarts
    <2>2. proc[Watchdog].at = "idle" /\ proc[Watchdog] \in Process
      BY <1>0, <1>8, ProcsDef, PlacesBuilt DEF CheckStarts
    <2>3. [proc[Watchdog] EXCEPT !.at = "next"].at = "next"
      BY <2>2, PlacesBuilt
    <2>4. UNCHANGED <<raced, lifted, fenced, txs>>
      BY <1>8 DEF CheckStarts
    <2>5. QED
      BY <1>c, <1>d, <2>1, <2>2, <2>3, <2>4, ProcsDef
  <1>9. ASSUME CheckNext PROVE FencesOK'
    <2>1. proc[Watchdog].at = "next" /\ UNCHANGED <<raced, lifted, fenced, txs>>
      BY <1>9 DEF CheckNext
    <2>2. CASE proc' = [proc EXCEPT ![Watchdog] = Idle]
      BY <1>c, <1>d, <2>1, <2>2, ProcsDef, PlacesBuilt
    <2>3. ASSUME NEW b \in batch,
                 proc' = [proc EXCEPT ![Watchdog] =
                        [Idle EXCEPT !.at = "probing", !.job = b.job, !.keys = b.keys,
                                     !.reload = b.reload, !.alerted = b.alerted,
                                     !.late = b.late]]
          PROVE  FencesOK'
      <3> DEFINE x == [Idle EXCEPT !.at = "probing", !.job = b.job, !.keys = b.keys,
                                   !.reload = b.reload, !.alerted = b.alerted,
                                   !.late = b.late]
      <3>1. x.at = "probing"
        BY PlacesBuilt
      <3>2. proc' = [proc EXCEPT ![Watchdog] = x]
        BY <2>3
      <3> HIDE DEF x
      <3>3. QED
        BY <1>c, <1>d, <2>1, <3>1, <3>2, ProcsDef
    <2>4. QED
      BY <1>9, <2>2, <2>3 DEF CheckNext
  <1>10. ASSUME CheckDecides PROVE FencesOK'
    <2> DEFINE w == proc[Watchdog]
    <2>1. w.at = "probing" /\ w \in Process /\ UNCHANGED <<raced, lifted, fenced, txs>>
      BY <1>0, <1>10, ProcsDef DEF CheckDecides
    <2>2. PICK down \in FoundDown(w.keys) :
             \/ proc' = [proc EXCEPT ![Watchdog] = [Idle EXCEPT !.at = "closing", !.job = w.job]]
             \/ proc' = [proc EXCEPT ![Watchdog] = Resume(Watchdog)]
             \/ proc' = [proc EXCEPT ![Watchdog] = [w EXCEPT !.at = "raising", !.keys = down]]
      BY <1>10 DEF CheckDecides
    <2>3. /\ [Idle EXCEPT !.at = "closing", !.job = w.job].at = "closing"
          /\ Resume(Watchdog).at \in {"next", "idle"}
          /\ [w EXCEPT !.at = "raising", !.keys = down].at = "raising"
      BY <2>1, PlacesBuilt
    <2>4. QED
      BY <1>c, <1>d, <2>1, <2>2, <2>3, ProcsDef
  <1>11. ASSUME CheckRaised PROVE FencesOK'
    <2> DEFINE w == proc[Watchdog]
               j == w.job
    <2>1. w.at = "raising" /\ j \in Jobs /\ UNCHANGED <<raced, lifted, fenced>>
      BY <1>0, <1>11, ProcsDef DEF CheckRaised
    <2>2. \/ proc' = [proc EXCEPT ![Watchdog] = [Idle EXCEPT !.at = "closing", !.job = j]]
          \/ proc' = [proc EXCEPT ![Watchdog] = Resume(Watchdog)]
      BY <1>11 DEF CheckRaised
    <2>3. Training' = Training
      <3>1. CASE UNCHANGED txs
        BY <1>d, <3>1
      <3>2. CASE txs' = [txs EXCEPT ![j] = {[t EXCEPT !.alerted = TRUE] : t \in txs[j]}]
        <4>1. KeysIn({[t EXCEPT !.alerted = TRUE] : t \in txs[j]}) = KeysIn(txs[j])
          BY <1>0, <2>1, Marked
        <4>2. QED
          BY <1>0, <3>2, <4>1, TrainingSame
      <3>3. QED
        BY <1>11, <3>1, <3>2 DEF CheckRaised
    <2>4. /\ [Idle EXCEPT !.at = "closing", !.job = j].at = "closing"
          /\ Resume(Watchdog).at \in {"next", "idle"}
      BY PlacesBuilt
    <2>5. QED
      BY <1>c, <2>1, <2>2, <2>3, <2>4, ProcsDef
  <1>12. ASSUME \/ \E k \in Instances : InstanceUp(k) \/ InstanceDown(k)
                \/ \E j \in Jobs : DeadlinePasses(j)
                \/ UNCHANGED vars
         PROVE  FencesOK'
    <2>1. UNCHANGED <<txs, fenced, proc, raced, lifted>>
      BY <1>12 DEF InstanceUp, InstanceDown, DeadlinePasses, vars
    <2>2. /\ Pending("fencing")' = Pending("fencing")
          /\ Pending("unfencing")' = Pending("unfencing")
      BY <2>1 DEF Pending
    <2>3. QED
      BY <1>b, <1>d, <2>1, <2>2
  <1>13. ASSUME Restart PROVE FencesOK'
    <2>1. \A q \in Procs : proc'[q].at = "idle"
      BY <1>13, PlacesBuilt DEF Restart
    <2>2. \A k : k \notin Pending("fencing")' /\ k \notin Pending("unfencing")'
      BY <2>1, PendingDef
    <2>3. \A k : k \in Training' => k \in Instances
      BY <1>0, <1>13, KeysInType, LoadedKeys
    <2>4. \A f : f \in fenced' <=> \E m : m \in Training' /\ f \in FenceOf[m]
      BY <1>13 DEF Restart, RestoredFences
    <2>5. QED
      BY <2>2, <2>3, <2>4 DEF FencesOK, Settled, Exactly
  <1>14. QED
    BY <1>1, <1>2, <1>3, <1>4, <1>5, <1>6, <1>7, <1>8, <1>9, <1>10, <1>11, <1>12, <1>13
    DEF Next, Handle, Loop, Check, World

-----------------------------------------------------------------------------
(* The theorems.                                                           *)

\* TypeOK is made of the types of the map and the file and those of the rest.
LEMMA TypeParts ==
  TypeOK <=> /\ txs \in [Jobs -> SUBSET Tx] /\ \A j \in Jobs : \A s, t \in txs[j] : s = t
             /\ disk \in [Jobs -> SUBSET Tx] /\ \A j \in Jobs : \A s, t \in disk[j] : s = t
             /\ OtherTypes
  BY DEF TypeOK, OtherTypes, ProcsOK, ProcOK

\* The invariant holds when the coordinator starts without a file.
LEMMA TrainInit == Init => TrainInv
  <1> SUFFICES ASSUME Init PROVE TrainInv
    OBVIOUS
  <1>1. TypeOK
    <2>1. OtherTypes
      <3>1. ProcsOK(proc)
        BY Built DEF Init, ProcsOK, ProcOK
      <3>2. dirty \in BOOLEAN
        BY Zenon DEF Init
      <3>3. faults \in 0..MaxFaults
        BY TrainAssumption DEF Init
      <3>4. up \subseteq Instances /\ batch = {} /\ fenced = {} /\ late = {}
          /\ raced = {} /\ lifted = {}
        BY DEF Init
      <3>5. QED
        BY <3>1, <3>2, <3>3, <3>4 DEF OtherTypes
    <2>2. QED
      BY <2>1, TypeParts DEF Init
  <1>2. Apart(txs) /\ Apart(disk) /\ DiskTracksMemory
    BY KeysInOne DEF Init, Apart, DiskTracksMemory
  <1>3. FencesOK
    <2>1. \A k : k \notin Pending("fencing") /\ k \notin Pending("unfencing")
      BY PendingDef, PlacesBuilt DEF Init
    <2>2. \A k : k \notin Training
      BY KeysInOne, TrainingDef DEF Init
    <2>3. QED
      BY <2>1, <2>2 DEF FencesOK, Settled, Exactly, Init
  <1>4. QED
    BY <1>1, <1>2, <1>3 DEF TrainInv

\* Every step keeps it.
LEMMA TrainStep == TrainInv /\ [Next]_vars => TrainInv'
  <1> SUFFICES ASSUME TrainInv, [Next]_vars PROVE TrainInv'
    OBVIOUS
  <1>1. TypeOK /\ StoreOK
    BY DEF TrainInv, TypeOK, StoreOK, TxsOK
  <1>2. StoreOK'
    BY <1>1, StoreStep
  <1>3. OtherTypes'
    BY <1>1, TypesStep
  <1>4. TypeOK'
    BY <1>2, <1>3 DEF StoreOK, TxsOK, TypeOK, OtherTypes, ProcsOK, ProcOK
  <1>5. FencesOK'
    BY FencesStep
  <1>6. Apart(txs)' /\ Apart(disk)' /\ DiskTracksMemory'
    BY <1>2 DEF StoreOK, TxsOK, Apart
  <1>7. QED
    BY <1>4, <1>5, <1>6 DEF TrainInv

\* The inductive invariant holds in every reachable state of train.go's model.
THEOREM TrainInvariant == Spec => []TrainInv
  BY TrainInit, TrainStep, PTL DEF Spec

\* Every variable keeps its type: begin, end, the watchdog and a restart never
\* leave a job with two transactions or an empty one.
THEOREM TrainTypeOK == Spec => []TypeOK
  <1>1. TrainInv => TypeOK
    BY DEF TrainInv
  <1>2. QED
    BY TrainInvariant, <1>1, PTL

\* trainBegin's check under the lock keeps the open transactions disjoint, also
\* across restarts that load what the file holds.
THEOREM TrainDisjoint == Spec => []DisjointTransactions
  <1>1. TrainInv => DisjointTransactions
    BY DEF TrainInv, Apart, DisjointTransactions, KeysOf
  <1>2. QED
    BY TrainInvariant, <1>1, PTL

\* Unless saveTrainLocked's last write failed, the file is the map.
THEOREM TrainDisk == Spec => []DiskTracksMemory
  <1>1. TrainInv => DiskTracksMemory
    BY DEF TrainInv
  <1>2. QED
    BY TrainInvariant, <1>1, PTL

\* Whatever the sharing of fences, a fence and the transactions part only where a
\* begin and a close of an instance overlapped, or where closeTrain took a shared
\* fence off under an instance in training: the loops of trainBegin and closeTrain,
\* and applyTrainingFences after a restart, otherwise leave it on exactly while a
\* transaction holds an instance that has it.
THEOREM TrainFences == Spec => []FenceExact
  <1>1. TrainInv => FenceExact
    <2> SUFFICES ASSUME FencesOK, NEW f \in Fences \ lifted,
                        Sharers(f) \cap (raced \cup Pending("fencing") \cup Pending("unfencing")) = {}
                 PROVE  f \in fenced <=> Sharers(f) \cap Training # {}
      BY DEF TrainInv, FenceExact
    <2>1. Untouched(f)
      BY DEF Untouched, Sharers
    <2>2. Exactly(f)
      BY DEF FencesOK
    <2>3. QED
      BY <2>1, <2>2 DEF Exactly, Sharers
  <1>2. QED
    BY TrainInvariant, <1>1, PTL

=============================================================================
