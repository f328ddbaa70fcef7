-------------------------------- MODULE TrainTx --------------------------------
(***************************************************************************)
(* Training transactions (internal/coordinator/train.go): a runner fences  *)
(* instances out of the routing with begin, and closes the transaction     *)
(* with end; a watchdog closes or reports what end left open; the open     *)
(* transactions are persisted so that a restart keeps the fences.          *)
(*                                                                         *)
(* trainState.mu covers the map and the file, never the fences: a handler  *)
(* toggles them key by key after it has unlocked.  Handlers, the watchdog  *)
(* and a crash interleave at every such point.                             *)
(***************************************************************************)
EXTENDS Naturals, FiniteSets

CONSTANTS
  Jobs,         \* job names; a job may open a transaction again later
  Instances,    \* keys of instances[] of the configuration
  FenceOf,      \* the routing fences of each instance: its engine in the
                \*   balancer, the KV handoff (one switch for every prefill), or
                \*   none (other roles)
  Handlers,     \* concurrent HTTP handlers of /api/train
  Watchdog,     \* the trainWatchdog goroutine
  NoJob,        \* the job of a process that is idle
  MaxFaults     \* bound: restarts of the coordinator and failed writes of the file

Fences == UNION {FenceOf[k] : k \in Instances}

ASSUME TrainAssumption ==
  /\ Watchdog \notin Handlers
  /\ NoJob \notin Jobs
  /\ MaxFaults \in Nat

Procs == Handlers \cup {Watchdog}

VARIABLES
  txs,        \* trainState.txs: job -> the set of open transactions it has (0 or 1)
  disk,       \* train.local.json
  dirty,      \* the last attempt to write or read it failed
  fenced,     \* the fences that are on: excluded engines, the disabled handoff
  up,         \* the instances that answer /health
  late,       \* the jobs whose reload deadline has passed
  proc,       \* what each handler and the watchdog is doing
  batch,      \* the snapshots the watchdog still has to look at
  raced,      \* history: instances whose last begin or close came while the
              \*   opposite call was still toggling their fences
  lifted,     \* history: fences a close took off although another instance
              \*   that has them was in training
  faults      \* restarts and failed writes so far

vars == <<txs, disk, dirty, fenced, up, late, proc, batch, raced, lifted, faults>>

\* A transaction: the instances it fences, its phase, whether it was reported.
Tx == [keys : (SUBSET Instances) \ {{}}, reload : BOOLEAN, alerted : BOOLEAN]

\* What the watchdog copies of a transaction before it looks at it.
Snapshot == [job : Jobs, keys : SUBSET Instances,
             reload : BOOLEAN, alerted : BOOLEAN, late : BOOLEAN]

Places == {"idle", "fencing", "draining", "probing", "raising",
           "closing", "unfencing", "next"}

\* keys: the instances of the transaction as the process copied it; todo: those
\* its loop over the fences has not reached; reload, alerted, late: the rest of
\* the watchdog's copy.
Process == [at : Places, job : Jobs \cup {NoJob}, keys : SUBSET Instances,
            todo : SUBSET Instances, force : BOOLEAN, reload : BOOLEAN,
            alerted : BOOLEAN, late : BOOLEAN]

Idle == [at |-> "idle", job |-> NoJob, keys |-> {}, todo |-> {}, force |-> FALSE,
         reload |-> FALSE, alerted |-> FALSE, late |-> FALSE]

Open(j) == txs[j] # {}
KeysIn(T) == UNION {t.keys : t \in T}
KeysOf(j) == KeysIn(txs[j])
Training == UNION {KeysOf(j) : j \in Jobs}

Init ==
  /\ txs = [j \in Jobs |-> {}]
  /\ disk = [j \in Jobs |-> {}]
  /\ dirty = FALSE
  /\ fenced = {}
  /\ up \in SUBSET Instances
  /\ late = {}
  /\ proc = [p \in Procs |-> Idle]
  /\ batch = {}
  /\ raced = {}
  /\ lifted = {}
  /\ faults = 0

-----------------------------------------------------------------------------

\* saveTrainLocked, under the lock: temp file and rename, a failure is logged.
Save ==
  \/ /\ disk' = txs'
     /\ dirty' = FALSE
     /\ UNCHANGED faults
  \/ /\ faults < MaxFaults
     /\ faults' = faults + 1
     /\ disk' = disk
     /\ dirty' = TRUE

\* What a round of /health probes may find down, one probe after the other while
\* instances come and go: an instance that is up is found up, one that is down
\* may have answered a moment ago.  (An answer that is stale the other way only
\* delays the watchdog; trainEnd and the raise, which write, allow for it.)
FoundDown(keys) == SUBSET (keys \ up)

\* The instances some other call has yet to reach in a loop over the fences.
Pending(place) == UNION {proc[q].todo : q \in {q \in Procs : proc[q].at = place}}

\* The fences that instances in training have, other than this one.
SharedFences(k) == UNION {FenceOf[m] : m \in Training \ {k}}

\* fence(k, on) for one key of the process's loop; then the loop goes on.
Fence(p, k, on, after) ==
  /\ k \in proc[p].todo
  /\ fenced' = IF on THEN fenced \cup FenceOf[k] ELSE fenced \ FenceOf[k]
  /\ lifted' = (lifted \ FenceOf[k]) \cup IF on THEN {} ELSE FenceOf[k] \cap SharedFences(k)
  /\ proc' = [proc EXCEPT ![p] =
                IF proc[p].todo = {k} THEN after
                ELSE [proc[p] EXCEPT !.todo = proc[p].todo \ {k}]]
  /\ UNCHANGED <<txs, disk, dirty, up, late, batch, raced, faults>>

-----------------------------------------------------------------------------
(* POST /api/train/begin                                                   *)

\* trainBegin that takes an empty list of instances.
BeginEmpty(p, j, I) ==
  /\ proc[p] = Idle
  /\ ~Open(j)
  /\ I \cap Training = {}
  /\ txs' = [txs EXCEPT ![j] = {[keys |-> I, reload |-> FALSE, alerted |-> FALSE]}]
  /\ Save
  /\ late' = late \ {j}
  /\ raced' = (raced \ I) \cup (I \cap Pending("unfencing"))
  /\ proc' = [proc EXCEPT ![p] = [Idle EXCEPT !.at = "fencing", !.job = j,
                                          !.keys = I, !.todo = I]]
  /\ UNCHANGED <<fenced, up, batch, lifted>>

\* trainBegin that checks only the job, not the instances of other jobs.
BeginUnchecked(p, j, I) ==
  /\ proc[p] = Idle
  /\ ~Open(j)
  /\ txs' = [txs EXCEPT ![j] = {[keys |-> I, reload |-> FALSE, alerted |-> FALSE]}]
  /\ Save
  /\ late' = late \ {j}
  /\ raced' = (raced \ I) \cup (I \cap Pending("unfencing"))
  /\ proc' = [proc EXCEPT ![p] = [Idle EXCEPT !.at = "fencing", !.job = j,
                                          !.keys = I, !.todo = I]]
  /\ UNCHANGED <<fenced, up, batch, lifted>>

\* trainBegin that answers the runner without persisting the transaction.
BeginUnsaved(p, j, I) ==
  /\ proc[p] = Idle
  /\ ~Open(j)
  /\ I \cap Training = {}
  /\ txs' = [txs EXCEPT ![j] = {[keys |-> I, reload |-> FALSE, alerted |-> FALSE]}]
  /\ late' = late \ {j}
  /\ raced' = (raced \ I) \cup (I \cap Pending("unfencing"))
  /\ proc' = [proc EXCEPT ![p] = [Idle EXCEPT !.at = "fencing", !.job = j,
                                          !.keys = I, !.todo = I]]
  /\ UNCHANGED <<disk, dirty, fenced, up, batch, lifted, faults>>

\* trainBegin up to the unlock: refused if it names no instance, the job is open
\* or one of the instances is already in a transaction; else it is recorded.
Begin(p, j, I) ==
  /\ proc[p] = Idle
  /\ I # {}
  /\ ~Open(j)
  /\ I \cap Training = {}
  /\ txs' = [txs EXCEPT ![j] = {[keys |-> I, reload |-> FALSE, alerted |-> FALSE]}]
  /\ Save
  /\ late' = late \ {j}
  /\ raced' = (raced \ I) \cup (I \cap Pending("unfencing"))
  /\ proc' = [proc EXCEPT ![p] = [Idle EXCEPT !.at = "fencing", !.job = j,
                                          !.keys = I, !.todo = I]]
  /\ UNCHANGED <<fenced, up, batch, lifted>>

\* trainBegin after the unlock, key by key.
FenceOn(p, k) ==
  /\ proc[p].at = "fencing"
  /\ Fence(p, k, TRUE, [Idle EXCEPT !.at = "draining", !.keys = proc[p].keys])

\* trainBegin waits for the drain or its budget, ejects what it was asked to
\* stop and can reach, and answers.
Drained(p) ==
  /\ proc[p].at = "draining"
  /\ \E S \in SUBSET proc[p].keys : up' = up \ S
  /\ proc' = [proc EXCEPT ![p] = Idle]
  /\ UNCHANGED <<txs, disk, dirty, fenced, late, batch, raced, lifted, faults>>

-----------------------------------------------------------------------------
(* POST /api/train/end                                                     *)

\* trainEnd copies the transaction; a job without one is answered 404.
End(p, j, force) ==
  /\ proc[p] = Idle
  /\ Open(j)
  /\ proc' = [proc EXCEPT ![p] = [Idle EXCEPT !.at = "probing", !.job = j,
                                  !.keys = KeysOf(j), !.force = force]]
  /\ UNCHANGED <<txs, disk, dirty, fenced, up, late, batch, raced, lifted, faults>>

\* trainEnd after waitUp's last round, whose answers may be old by now: all up
\* or forced, the transaction is to be closed; otherwise it stays open, if it
\* still is, in phase "remontando".
EndDecides(p) ==
  /\ p \in Handlers
  /\ proc[p].at = "probing"
  /\ LET j == proc[p].job IN
       \E down \in SUBSET proc[p].keys :
         IF down = {} \/ proc[p].force
           THEN /\ proc' = [proc EXCEPT ![p] = [Idle EXCEPT !.at = "closing", !.job = j]]
                /\ UNCHANGED <<txs, disk, dirty, faults>>
           ELSE /\ proc' = [proc EXCEPT ![p] = Idle]
                /\ txs' = [txs EXCEPT ![j] = {[t EXCEPT !.reload = TRUE] : t \in @}]
                /\ IF Open(j) THEN Save ELSE UNCHANGED <<disk, dirty, faults>>
  /\ UNCHANGED <<fenced, up, late, batch, raced, lifted>>

\* What the process does once its transaction is dealt with.
Resume(p) == [Idle EXCEPT !.at = IF p = Watchdog THEN "next" ELSE "idle"]

\* closeTrain under the lock: whatever transaction the job has NOW is
\* forgotten, and its keys are to be unfenced; none, nothing is done.
Close(p) ==
  /\ proc[p].at = "closing"
  /\ LET j == proc[p].job IN
       IF ~Open(j)
         THEN /\ proc' = [proc EXCEPT ![p] = Resume(p)]
              /\ UNCHANGED <<txs, disk, dirty, late, raced, faults>>
         ELSE /\ txs' = [txs EXCEPT ![j] = {}]
              /\ Save
              /\ late' = late \ {j}
              /\ raced' = (raced \ KeysOf(j)) \cup (KeysOf(j) \cap Pending("fencing"))
              /\ proc' = [proc EXCEPT ![p] =
                            [Idle EXCEPT !.at = "unfencing", !.todo = KeysOf(j)]]
  /\ UNCHANGED <<fenced, up, batch, lifted>>

\* closeTrain after the unlock, key by key.
FenceOff(p, k) ==
  /\ proc[p].at = "unfencing"
  /\ Fence(p, k, FALSE, Resume(p))

-----------------------------------------------------------------------------
(* The watchdog                                                            *)

\* trainCheck starts from a copy of every open transaction; now is fixed.
CheckStarts ==
  /\ proc[Watchdog] = Idle
  /\ batch' = UNION {{[job |-> j, keys |-> t.keys, reload |-> t.reload,
                       alerted |-> t.alerted, late |-> j \in late] : t \in txs[j]} :
                     j \in Jobs}
  /\ proc' = [proc EXCEPT ![Watchdog].at = "next"]
  /\ UNCHANGED <<txs, disk, dirty, fenced, up, late, raced, lifted, faults>>

\* trainCheck takes the next copy, or is over.  (The code goes by age; here
\* the order is left open.)
CheckNext ==
  /\ proc[Watchdog].at = "next"
  /\ \/ /\ batch = {}
        /\ proc' = [proc EXCEPT ![Watchdog] = Idle]
        /\ UNCHANGED batch
     \/ \E b \in batch :
          /\ batch' = batch \ {b}
          /\ proc' = [proc EXCEPT ![Watchdog] =
                        [Idle EXCEPT !.at = "probing", !.job = b.job, !.keys = b.keys,
                                     !.reload = b.reload, !.alerted = b.alerted,
                                     !.late = b.late]]
  /\ UNCHANGED <<txs, disk, dirty, fenced, up, late, raced, lifted, faults>>

\* trainCheck that closes only past the deadline, never a reload.
CheckDecidesLateOnly ==
  LET w == proc[Watchdog] IN
  /\ w.at = "probing"
  /\ \E down \in FoundDown(w.keys) :
       proc' = [proc EXCEPT ![Watchdog] =
         IF w.late THEN IF down = {} THEN [Idle EXCEPT !.at = "closing", !.job = w.job]
                                     ELSE [w EXCEPT !.at = "raising", !.keys = down]
                   ELSE Resume(Watchdog)]
  /\ UNCHANGED <<txs, disk, dirty, fenced, up, late, batch, raced, lifted, faults>>

\* trainCheck, all instances probed: close what is back (phase remontando or
\* past the deadline), leave what is not due, raise what is overdue.
CheckDecides ==
  LET w == proc[Watchdog] IN
  /\ w.at = "probing"
  /\ \E down \in FoundDown(w.keys) :
       proc' = [proc EXCEPT ![Watchdog] =
         IF down = {} /\ (w.reload \/ w.late)
           THEN [Idle EXCEPT !.at = "closing", !.job = w.job]
         ELSE IF ~w.late THEN Resume(Watchdog)
         ELSE [w EXCEPT !.at = "raising", !.keys = down]]
  /\ UNCHANGED <<txs, disk, dirty, fenced, up, late, batch, raced, lifted, faults>>

\* trainCheck has raised what was down and waited for it: close if every raise
\* succeeded and its instance answered, else report once what counts as still
\* down (an instance this coordinator cannot raise does, even if it is back).
CheckRaised ==
  LET w == proc[Watchdog]
      j == w.job IN
  /\ w.at = "raising"
  /\ \E stillDown \in SUBSET w.keys :
       IF stillDown = {}
         THEN /\ proc' = [proc EXCEPT ![Watchdog] = [Idle EXCEPT !.at = "closing", !.job = j]]
              /\ UNCHANGED <<txs, disk, dirty, faults>>
         ELSE /\ proc' = [proc EXCEPT ![Watchdog] = Resume(Watchdog)]
              /\ IF w.alerted \/ ~Open(j)
                   THEN UNCHANGED <<txs, disk, dirty, faults>>
                   ELSE /\ txs' = [txs EXCEPT ![j] = {[t EXCEPT !.alerted = TRUE] : t \in @}]
                        /\ Save
  /\ UNCHANGED <<fenced, up, late, batch, raced, lifted>>

-----------------------------------------------------------------------------
(* The world: the runner and systemd stop and start instances, so does     *)
(* raiseInstance; deadlines pass; the coordinator dies and comes back.     *)

InstanceUp(k) ==
  /\ k \notin up
  /\ up' = up \cup {k}
  /\ UNCHANGED <<txs, disk, dirty, fenced, late, proc, batch, raced, lifted, faults>>

InstanceDown(k) ==
  /\ k \in up
  /\ up' = up \ {k}
  /\ UNCHANGED <<txs, disk, dirty, fenced, late, proc, batch, raced, lifted, faults>>

DeadlinePasses(j) ==
  /\ Open(j) /\ j \notin late
  /\ late' = late \cup {j}
  /\ UNCHANGED <<txs, disk, dirty, fenced, up, proc, batch, raced, lifted, faults>>

\* loadTrain: the transactions of the file; a file that cannot be read or decoded
\* is ignored and left where it is.
LoadTrain ==
  \/ txs' = disk /\ dirty' = FALSE
  \/ txs' = [j \in Jobs |-> {}] /\ dirty' = TRUE

\* applyTrainingFences: what the transactions loaded from the file fence.
RestoredFences == UNION {FenceOf[k] : k \in Training}

\* A restart that loads the transactions and forgets applyTrainingFences.
RestartUnfenced ==
  /\ faults < MaxFaults
  /\ faults' = faults + 1
  /\ LoadTrain
  /\ fenced' = {}
  /\ proc' = [p \in Procs |-> Idle]
  /\ batch' = {}
  /\ raced' = {}
  /\ lifted' = {}
  /\ UNCHANGED <<disk, up, late>>

\* loadTrain and applyTrainingFences run before the server accepts requests.
Restart ==
  /\ faults < MaxFaults
  /\ faults' = faults + 1
  /\ LoadTrain
  /\ fenced' = RestoredFences'
  /\ proc' = [p \in Procs |-> Idle]
  /\ batch' = {}
  /\ raced' = {}
  /\ lifted' = {}
  /\ UNCHANGED <<disk, up, late>>

Handle(p) ==
  \/ \E j \in Jobs, I \in SUBSET Instances : Begin(p, j, I)
  \/ \E j \in Jobs, force \in BOOLEAN : End(p, j, force)
  \/ Drained(p)
  \/ EndDecides(p)

Loop(p) ==
  \/ \E k \in Instances : FenceOn(p, k) \/ FenceOff(p, k)
  \/ Close(p)

Check ==
  \/ CheckStarts
  \/ CheckNext
  \/ CheckDecides
  \/ CheckRaised

World ==
  \/ \E k \in Instances : InstanceUp(k) \/ InstanceDown(k)
  \/ \E j \in Jobs : DeadlinePasses(j)
  \/ Restart

Next ==
  \/ \E p \in Handlers : Handle(p)
  \/ \E p \in Procs : Loop(p)
  \/ Check
  \/ World

Spec == Init /\ [][Next]_vars

\* The watchdog's goroutine keeps running: it sleeps trainTick and recovers
\* from a panic.  Nothing is assumed of the handlers or the instances.
FairSpec == Spec /\ WF_vars(Check \/ Loop(Watchdog))

-----------------------------------------------------------------------------

\* Every variable has its type: a job has at most one transaction, none is
\* empty, and who decides about a transaction knows its job.
TypeOK ==
  /\ txs \in [Jobs -> SUBSET Tx] /\ \A j \in Jobs : \A s, t \in txs[j] : s = t
  /\ disk \in [Jobs -> SUBSET Tx] /\ \A j \in Jobs : \A s, t \in disk[j] : s = t
  /\ dirty \in BOOLEAN
  /\ fenced \subseteq Fences
  /\ up \subseteq Instances
  /\ late \subseteq Jobs
  /\ proc \in [Procs -> Process]
  /\ batch \subseteq Snapshot
  /\ raced \subseteq Instances
  /\ lifted \subseteq Fences
  /\ faults \in 0..MaxFaults
  /\ \A p \in Procs : proc[p].at \in {"probing", "raising", "closing"} => proc[p].job \in Jobs

\* No instance is in two open transactions: the first one to close would put
\* an engine the other one has stopped back into service.
DisjointTransactions ==
  \A i, j \in Jobs : i # j => KeysOf(i) \cap KeysOf(j) = {}

\* The file holds what the memory holds whenever the last write succeeded, so
\* a restart neither drops an open transaction nor revives a closed one.
DiskTracksMemory == ~dirty => disk = txs

\* The instances that have a fence.
Sharers(f) == {k \in Instances : f \in FenceOf[k]}

\* A fence and the transactions part in two ways only.  One is two calls at once:
\* a begin and a close of an instance that toggle the fence in one another's way.
\* The other needs no overlap: instances that share the fence, as every prefill
\* shares the KV handoff, and a close that takes it off for one while another is
\* in training; it stays off until that one ends or another begins.  In every
\* other case, restarts included, the fence is on exactly while a transaction
\* holds an instance that has it.
FenceExact ==
  \A f \in Fences \ lifted :
    Sharers(f) \cap (raced \cup Pending("fencing") \cup Pending("unfencing")) = {} =>
      (f \in fenced <=> Sharers(f) \cap Training # {})

\* A transaction left in phase "remontando" closes by itself once its
\* instances answer: none stays open, reloading and healthy for ever.
ReloadCloses ==
  \A j \in Jobs :
    ~<>[](Open(j) /\ (\A t \in txs[j] : t.reload) /\ KeysOf(j) \subseteq up)

\* The contract in the header: while a transaction is open its instances are
\* out of the routing, from the moment begin has reached them.
FencedWhileOpen ==
  \A j \in Jobs : \A k \in KeysOf(j) :
    FenceOf[k] \subseteq fenced \/ k \in Pending("fencing")

=============================================================================
