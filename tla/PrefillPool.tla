------------------------------ MODULE PrefillPool ------------------------------
(***************************************************************************)
(* Room for a disaggregated prompt (internal/coordinator/kvpipe.go): the   *)
(* slots and the KV budget of the engine that ingests it (acquireSlot),    *)
(* and the room made in the engine its state is restored into              *)
(* (decodeRoom, makeDecodeRoom).                                           *)
(*                                                                         *)
(* Every engine both ingests and generates, and its slots keep the cache   *)
(* of what they last served.  The coordinator learns what they hold by     *)
(* asking, and acts on the answer seconds or minutes later.                *)
(*                                                                         *)
(* What travels between the two engines is KvHandoff's subject; here the   *)
(* transfer is one step that works or does not.                            *)
(***************************************************************************)
EXTENDS Integers, Sequences, FiniteSets, FiniteSetsExt, SequencesExt

CONSTANTS
  Jobs,        \* requests that want a handoff, each comes once
  Engines,     \* the llama-servers
  SlotCount,   \* slots of an engine; the pool hands out the same ones
  Sizes,       \* prompt sizes, in tokens
  ChatSize,    \* what a turn of other traffic leaves in its slot
  Context,     \* per engine: its real context
  Split,       \* the engines whose KV is per slot (--no-kv-unified)
  DefaultCtx,  \* the context assumed until /props has been read
  DefaultRoute,\* the configured pair of engines, for a state whose route is forgotten
  RouteCap,    \* noteRoute forgets all it has noted past this many routes
  NoSlot,      \* no slot
  MaxFaults,   \* bound: failures of a node or an engine
  MaxChats     \* bound: turns of other traffic on the engines

ASSUME PoolAssumption ==
  /\ IsFiniteSet(Jobs) /\ Engines # {} /\ SlotCount \in Nat
  /\ Sizes \subseteq Nat \ {0, 1} /\ ChatSize \in Nat \ {0}
  /\ Context \in [Engines -> Nat \ {0}]
  /\ Split \subseteq Engines
  /\ DefaultRoute \in [pre : Engines, dec : Engines]
  /\ DefaultCtx \in Nat \ {0} /\ RouteCap \in Nat /\ MaxFaults \in Nat /\ MaxChats \in Nat
  /\ NoSlot \notin 0..SlotCount - 1

\* Slots are numbered from 0.
Slots == 0..SlotCount - 1

VARIABLES
  cell,      \* engine, slot -> the tokens it holds and whether it is generating
  free,      \* enginePool.free
  inflight,  \* enginePool.inflight
  budget,    \* enginePool.budget
  pHeld,     \* kvPipe.pHeld: the last reading of an engine
  routes,    \* kvPipe.routes: jobs whose route is remembered
  pend,      \* kvPipe.pend: per job {its size}, or {} when not remembered
  job,       \* where each job is, and what it knows
  changed,   \* history: jobs whose decode engine someone else touched since
             \*   they surveyed it, or that could not survey it
  faults,    \* faults so far
  chats      \* chat turns so far

vars == <<cell, free, inflight, budget, pHeld, routes, pend, job, changed, faults, chats>>

Places == {"idle", "wait", "try", "ingest", "save", "done", "away",
           "clear", "room", "restore", "restored", "skipped", "failed"}
Ingesting == {"ingest", "save", "done"}
Making == {"clear", "room", "restore"}

Cell == [held : Nat, busy : BOOLEAN]

\* A job: what it wants, the slot it has been given, the reading it waits on,
\* the size of the state it saved, the size noted with it, the decode's slots as
\* it saw them, the ones it has yet to look at, the tokens it believes held there,
\* the budget it reckons with.
Job == [at : Places, size : Sizes \cup {0}, pre : Engines, dec : Engines,
        slot : Slots \cup {NoSlot}, look : Int, state : Nat, need : Nat,
        view : [Slots -> Nat], left : SUBSET Slots, account : Int, cap : Nat,
        ok : BOOLEAN]

NotYet == [at |-> "idle", size |-> 0, pre |-> CHOOSE e \in Engines : TRUE,
           dec |-> CHOOSE e \in Engines : TRUE, slot |-> NoSlot, look |-> 0, state |-> 0, need |-> 0,
           view |-> [s \in Slots |-> 0], left |-> {}, account |-> 0, cap |-> 0,
           ok |-> FALSE]

\* The end of a job: only its outcome is left.
Ended(outcome) == [NotYet EXCEPT !.at = outcome]

Init ==
  /\ cell = [e \in Engines |-> [s \in Slots |-> [held |-> 0, busy |-> FALSE]]]
  /\ free = [e \in Engines |-> [i \in 1..SlotCount |-> i - 1]]
  /\ inflight = [e \in Engines |-> 0]
  /\ budget = [e \in Engines |-> DefaultCtx]
  /\ pHeld = [e \in Engines |-> 0]
  /\ routes = {}
  /\ pend = [j \in Jobs |-> {}]
  /\ job = [j \in Jobs |-> NotYet]
  /\ changed = {}
  /\ faults = 0
  /\ chats = 0

-----------------------------------------------------------------------------
(* What an engine holds.                                                   *)

Idle(e) == {s \in Slots : ~cell[e][s].busy}
Loads(e) == [s \in Slots |-> cell[e][s].held]
Held(e) == SumFunction(Loads(e))
HeldBusy(e) == SumFunctionOnSet(Loads(e), Slots \ Idle(e))

\* committedKV: everything held, less the biggest idle slot.
CommittedKV(e) == Held(e) - Max({0} \cup {cell[e][s].held : s \in Idle(e)})

\* decodeRoom: what a restore could have once the idle slots are erased.
DecodeRoom(e) ==
  IF Idle(e) = {} THEN 0
  ELSE IF e \in Split THEN budget[e] ELSE budget[e] - HeldBusy(e)

\* Whether the engine itself can hold n tokens in slot s.
EngineTakes(e, s, n) ==
  IF e \in Split THEN n <= Context[e] ELSE Held(e) - cell[e][s].held + n <= Context[e]

Put(e, s, n) == cell' = [cell EXCEPT ![e][s].held = n]

\* Jobs for which engine e is no longer what they saw.
Watching(e) == {j \in Jobs : job[j].at \in Making /\ job[j].dec = e}

\* The slots of e change by the hand of job j.
Disturb(e, j) == changed' = changed \cup (Watching(e) \ {j})

Fault(j) ==
  /\ faults < MaxFaults
  /\ faults' = faults + 1

-----------------------------------------------------------------------------
(* Prefill: before the slot.                                               *)

\* routeFor says no route (none is configured, or setDisabled has closed the
\* prefill), or decodeRoom that the state would not fit; otherwise, also when the
\* slots of the decode cannot be read, the job waits for a slot of the prefill.
Begin(j, n, pre, dec) ==
  /\ job[j].at = "idle"
  /\ \/ /\ pre # dec
        /\ (DecodeRoom(dec) >= n /\ UNCHANGED faults) \/ Fault(j)
        /\ job' = [job EXCEPT ![j] = [@ EXCEPT !.at = "wait", !.size = n,
                                              !.pre = pre, !.dec = dec]]
     \/ job' = [job EXCEPT ![j] = Ended("skipped")] /\ UNCHANGED faults
  /\ UNCHANGED <<cell, free, inflight, budget, pHeld, routes, pend, changed, chats>>

\* A soflink does not answer, or the prompt cannot be tokenized.
BeginFails(j) ==
  /\ job[j].at = "idle"
  /\ Fault(j)
  /\ job' = [job EXCEPT ![j] = Ended("failed")]
  /\ UNCHANGED <<cell, free, inflight, budget, pHeld, routes, pend, changed, chats>>

\* engineHeld: what the engine cannot give away; the last reading again if it is
\* less than a second old or the engine does not answer.  The answer is used
\* whenever the goroutine gets to it.
Look(j) ==
  LET e == job[j].pre IN
  /\ job[j].at = "wait"
  /\ \E held \in {CommittedKV(e), pHeld[e]} :
       /\ pHeld' = [pHeld EXCEPT ![e] = held]
       /\ job' = [job EXCEPT ![j].at = "try", ![j].look = held]
  /\ UNCHANGED <<cell, free, inflight, budget, routes, pend, changed, faults, chats>>

\* prefillBudgetUse: four fifths of the budget.
Room(b) == (b * 4) \div 5

\* What counts against the prompt: on a split engine nothing does.
Used(e, look) ==
  IF e \in Split THEN 0 ELSE IF look > inflight[e] THEN look ELSE inflight[e]

\* acquireSlot that looks at the reading and forgets what is in flight.
MayReserveByReading(j) ==
  LET e == job[j].pre IN
  /\ free[e] # <<>>
  /\ \/ job[j].look + job[j].size <= Room(budget[e])
     \/ job[j].look = 0

\* A prompt too big for the room goes in when nothing is there.
MayReserve(j) ==
  LET e == job[j].pre IN
  /\ free[e] # <<>>
  /\ \/ Used(e, job[j].look) + job[j].size <= Room(budget[e])
     \/ Used(e, job[j].look) = 0

\* acquireSlot takes the first free slot and books the tokens, in one critical
\* section.
Reserve(j) ==
  LET e == job[j].pre IN
  /\ job[j].at = "try"
  /\ MayReserve(j)
  /\ free' = [free EXCEPT ![e] = Tail(@)]
  /\ inflight' = [inflight EXCEPT ![e] = @ + job[j].size]
  /\ job' = [job EXCEPT ![j].at = "ingest", ![j].slot = Head(free[e]), ![j].look = 0]
  /\ UNCHANGED <<cell, budget, pHeld, routes, pend, changed, faults, chats>>

\* No room: once more after a quarter of a second,
Refused(j) ==
  /\ job[j].at = "try"
  /\ ~MayReserve(j)
  /\ job' = [job EXCEPT ![j] = [@ EXCEPT !.at = "wait", !.look = 0]]
  /\ UNCHANGED <<cell, free, inflight, budget, pHeld, routes, pend, changed, faults, chats>>

\* or decode-direct when prefillWaitFor is over.
GiveUp(j) ==
  /\ job[j].at = "try"
  /\ ~MayReserve(j)
  /\ job' = [job EXCEPT ![j] = Ended("skipped")]
  /\ UNCHANGED <<cell, free, inflight, budget, pHeld, routes, pend, changed, faults, chats>>

-----------------------------------------------------------------------------
(* Prefill: with the slot.                                                 *)

\* The slot is emptied (best effort), then the passes over the prompt, up to its
\* last token but one.
IngestOk(j) ==
  LET e == job[j].pre s == job[j].slot n == job[j].size - 1 IN
  /\ job[j].at = "ingest"
  /\ ~cell[e][s].busy
  /\ EngineTakes(e, s, n)
  /\ Put(e, s, n)
  /\ Disturb(e, j)
  /\ job' = [job EXCEPT ![j].at = "save"]
  /\ UNCHANGED <<free, inflight, budget, pHeld, routes, pend, faults, chats>>

\* The completion fails: the engine is full ("Context size has been exceeded"),
\* or broken, or the slot is taken.  The answer does not tell the gateway which.
\* What earlier passes ingested stays in the slot.
IngestFails(j) ==
  LET e == job[j].pre s == job[j].slot IN
  /\ job[j].at = "ingest"
  /\ \/ (~EngineTakes(e, s, job[j].size - 1) \/ cell[e][s].busy) /\ UNCHANGED faults
     \/ Fault(j)
  /\ \/ /\ ~cell[e][s].busy
        /\ \E n \in 0..job[j].size - 1 : EngineTakes(e, s, n) /\ Put(e, s, n)
        /\ Disturb(e, j)
     \/ UNCHANGED <<cell, changed>>
  /\ job' = [job EXCEPT ![j].at = "done"]
  /\ UNCHANGED <<free, inflight, budget, pHeld, routes, pend, chats>>

\* noteRoute: everything noted is dropped when there is too much of it.
NoteRoute(j) ==
  LET full == Cardinality(routes) > RouteCap IN
  /\ routes' = {j} \cup IF full THEN {} ELSE routes
  /\ pend' = [i \in Jobs |-> IF i = j THEN {job[j].size} ELSE IF full THEN {} ELSE pend[i]]

\* A save of held tokens is one of about the prompt's size.
Plausible(j, held) == held > 0 /\ held >= (job[j].size - 1) \div 2

\* The save answers with a state of about the prompt's size: of what the slot holds
\* by then.
SaveOk(j) ==
  LET slot == cell[job[j].pre][job[j].slot] IN
  /\ job[j].at = "save"
  /\ ~slot.busy
  /\ Plausible(j, slot.held)
  /\ NoteRoute(j)
  /\ job' = [job EXCEPT ![j].at = "done", ![j].ok = TRUE, ![j].state = slot.held]
  /\ UNCHANGED <<cell, free, inflight, budget, pHeld, changed, faults, chats>>

\* The save fails or waits too long behind a stream, or the slot no longer holds
\* the prompt.
SaveFails(j) ==
  LET slot == cell[job[j].pre][job[j].slot] IN
  /\ job[j].at = "save"
  /\ ((slot.busy \/ ~Plausible(j, slot.held)) /\ UNCHANGED faults) \/ Fault(j)
  /\ job' = [job EXCEPT ![j].at = "done"]
  /\ UNCHANGED <<cell, free, inflight, budget, pHeld, routes, pend, changed, chats>>

\* Prefill that books nothing back when the ingest failed.
ReturnSlotOnSuccess(j) ==
  LET e == job[j].pre s == job[j].slot IN
  /\ job[j].at = "done"
  /\ UNCHANGED <<cell, changed>>
  /\ free' = [free EXCEPT ![e] = Append(@, s)]
  /\ inflight' = [inflight EXCEPT ![e] = IF job[j].ok THEN @ - job[j].size ELSE @]
  /\ job' = [job EXCEPT ![j] = IF job[j].ok THEN [@ EXCEPT !.at = "away", !.slot = NoSlot]
                               ELSE Ended("failed")]
  /\ UNCHANGED <<budget, pHeld, routes, pend, faults, chats>>

\* The deferred calls of Prefill: the slot is erased (best effort) and given back.
ReturnSlot(j) ==
  LET e == job[j].pre s == job[j].slot IN
  /\ job[j].at = "done"
  /\ \/ ~cell[e][s].busy /\ Put(e, s, 0) /\ Disturb(e, j)
     \/ UNCHANGED <<cell, changed>>
  /\ free' = [free EXCEPT ![e] = Append(@, s)]
  /\ inflight' = [inflight EXCEPT ![e] = Max({0, @ - job[j].size})]
  /\ job' = [job EXCEPT ![j] = IF job[j].ok THEN [@ EXCEPT !.at = "away", !.slot = NoSlot]
                               ELSE Ended("failed")]
  /\ UNCHANGED <<budget, pHeld, routes, pend, faults, chats>>

-----------------------------------------------------------------------------
(* Handoff: the state has to fit where it is restored.                     *)

\* takePending: the size noted with the route, 0 if it was dropped.
TakePending(j) == IF pend[j] = {} THEN 0 ELSE CHOOSE n \in pend[j] : TRUE

\* The pair the state travels between: the one noted, or the configured one.
RouteOf(j) ==
  IF j \in routes THEN [pre |-> job[j].pre, dec |-> job[j].dec] ELSE DefaultRoute

\* The transfer fails, which it must when the state is sought where it is not.
FetchFails(j) ==
  /\ job[j].at = "away"
  /\ (RouteOf(j).pre # job[j].pre /\ UNCHANGED faults) \/ Fault(j)
  /\ job' = [job EXCEPT ![j] = Ended("failed")]
  /\ UNCHANGED <<cell, free, inflight, budget, pHeld, routes, pend, changed, chats>>

Cheapest(j, S) == {s \in S : \A t \in S : job[j].view[s] <= job[j].view[t]}

\* The transfer is over and makeDecodeRoom reads the slots.  want is what
\* pickIdleSlot made of an earlier reading.
Survey(j, want) ==
  LET e == RouteOf(j).dec
      view == Loads(e)
      cheapest == {s \in Idle(e) : \A t \in Idle(e) : view[s] <= view[t]}
  IN
  /\ job[j].at = "away"
  /\ RouteOf(j).pre = job[j].pre
  /\ \/ /\ Idle(e) = {}
        /\ job' = [job EXCEPT ![j] = Ended("skipped")]
     \/ \E target \in IF want \in Idle(e) THEN {want} ELSE cheapest :
          job' = [job EXCEPT ![j].at = "clear", ![j].dec = e, ![j].slot = target,
                             ![j].need = TakePending(j), ![j].view = view,
                             ![j].left = Idle(e) \ {target}, ![j].account = Held(e),
                             ![j].cap = budget[e]]
  /\ pend' = [pend EXCEPT ![j] = {}]
  /\ changed' = changed \ {j}
  /\ UNCHANGED <<cell, free, inflight, budget, pHeld, routes, faults, chats>>

\* The slots cannot be read: straight to the restore, as before there was a survey.
SurveyFails(j, want) ==
  /\ job[j].at = "away"
  /\ RouteOf(j).pre = job[j].pre
  /\ Fault(j)
  /\ job' = [job EXCEPT ![j].at = "restore", ![j].dec = RouteOf(j).dec, ![j].slot = want,
                        ![j].need = TakePending(j)]
  /\ pend' = [pend EXCEPT ![j] = {}]
  /\ changed' = changed \cup {j}
  /\ UNCHANGED <<cell, free, inflight, budget, pHeld, routes, chats>>

\* Erase that counts a slot as free whatever the engine answered.
EraseBlind(j, s) ==
  LET e == job[j].dec IN
  /\ \/ ~cell[e][s].busy /\ Put(e, s, 0) /\ Disturb(e, j)
     \/ UNCHANGED <<cell, changed>>
  /\ job' = [job EXCEPT ![j].at = "room", ![j].left = @ \ {s},
                        ![j].account = @ - job[j].view[s], ![j].view[s] = 0]

\* An erase: the engine does it when the slot is idle; one that fails or times
\* out is logged, and the account keeps what the slot was seen to hold.
Erase(j, s) ==
  LET e == job[j].dec IN
  \/ /\ ~cell[e][s].busy
     /\ Put(e, s, 0)
     /\ Disturb(e, j)
     /\ job' = [job EXCEPT ![j].at = "room", ![j].left = @ \ {s},
                           ![j].account = @ - job[j].view[s], ![j].view[s] = 0]
  \/ /\ job' = [job EXCEPT ![j].at = "room", ![j].left = @ \ {s}]
     /\ UNCHANGED <<cell, changed>>

\* The target is always emptied.
EraseTarget(j) ==
  /\ job[j].at = "clear"
  /\ Erase(j, job[j].slot)
  /\ UNCHANGED <<free, inflight, budget, pHeld, routes, pend, faults, chats>>

\* makeDecodeRoom that adds up the slots of a split engine too.
CrowdedAnyway(j) == job[j].account + job[j].need > job[j].cap

\* By the account, and unless the KV is per slot, the state does not fit yet.
Crowded(j) ==
  /\ job[j].dec \notin Split
  /\ job[j].account + job[j].need > job[j].cap

\* The other idle slots go, cheapest first, until the account says it fits.
EraseNext(j) ==
  /\ job[j].at = "room"
  /\ Crowded(j)
  /\ \E s \in Cheapest(j, job[j].left) :
       \/ job[j].view[s] # 0 /\ Erase(j, s)
       \/ /\ job[j].view[s] = 0
          /\ job' = [job EXCEPT ![j].left = @ \ {s}]
          /\ UNCHANGED <<cell, changed>>
  /\ UNCHANGED <<free, inflight, budget, pHeld, routes, pend, faults, chats>>

\* The end of makeDecodeRoom: restore, or a clean skip.
RoomDone(j) ==
  /\ job[j].at = "room"
  /\ \/ /\ Crowded(j) /\ job[j].left = {}
        /\ job' = [job EXCEPT ![j] = Ended("skipped")]
     \/ /\ job[j].dec \in Split /\ job[j].need > job[j].cap
        /\ job' = [job EXCEPT ![j] = Ended("skipped")]
     \/ /\ ~Crowded(j)
        /\ job[j].dec \in Split => job[j].need <= job[j].cap
        /\ job' = [job EXCEPT ![j].at = "restore"]
  /\ UNCHANGED <<cell, free, inflight, budget, pHeld, routes, pend, changed, faults, chats>>

Restorable(j) == EngineTakes(job[j].dec, job[j].slot, job[j].state)

RestoreOk(j) ==
  /\ job[j].at = "restore"
  /\ ~cell[job[j].dec][job[j].slot].busy
  /\ Restorable(j)
  /\ Put(job[j].dec, job[j].slot, job[j].state)
  /\ Disturb(job[j].dec, j)
  /\ job' = [job EXCEPT ![j] = Ended("restored")]
  /\ UNCHANGED <<free, inflight, budget, pHeld, routes, pend, faults, chats>>

\* engineOutOfRoom: the engine has filled up since; the request is served direct.
RestoreRefused(j) ==
  /\ job[j].at = "restore"
  /\ ~cell[job[j].dec][job[j].slot].busy
  /\ ~Restorable(j)
  /\ job' = [job EXCEPT ![j] = Ended("skipped")]
  /\ UNCHANGED <<cell, free, inflight, budget, pHeld, routes, pend, changed, faults, chats>>

\* The restore fails for another reason, or waits too long behind a stream.
RestoreFails(j) ==
  /\ job[j].at = "restore"
  /\ \/ cell[job[j].dec][job[j].slot].busy /\ UNCHANGED faults
     \/ Fault(j)
  /\ job' = [job EXCEPT ![j] = Ended("failed")]
  /\ UNCHANGED <<cell, free, inflight, budget, pHeld, routes, pend, changed, chats>>

-----------------------------------------------------------------------------
(* The engines and their other traffic.                                    *)

\* A chat turn takes an idle slot; a new task may clear the other idle ones.
ChatStarts(e, s, n) ==
  /\ chats < MaxChats
  /\ chats' = chats + 1
  /\ ~cell[e][s].busy
  /\ \E gone \in {{}, Idle(e) \ {s}} :
       LET after == [t \in Slots |-> IF t = s THEN [held |-> n, busy |-> TRUE]
                                     ELSE IF t \in gone THEN [held |-> 0, busy |-> FALSE]
                                     ELSE cell[e][t]]
       IN /\ IF e \in Split THEN n <= Context[e]
             ELSE SumFunction([t \in Slots |-> after[t].held]) <= Context[e]
          /\ cell' = [cell EXCEPT ![e] = after]
  /\ changed' = changed \cup Watching(e)
  /\ UNCHANGED <<free, inflight, budget, pHeld, routes, pend, job, faults>>

\* The turn ends and its cache stays.
ChatEnds(e, s) ==
  /\ cell[e][s].busy
  /\ cell' = [cell EXCEPT ![e][s].busy = FALSE]
  /\ UNCHANGED <<free, inflight, budget, pHeld, routes, pend, job, changed, faults, chats>>

\* The one look at /props at startup; an engine that does not answer keeps the
\* default for good.
Probe(e) ==
  /\ budget[e] # Context[e]
  /\ budget' = [budget EXCEPT ![e] = Context[e]]
  /\ changed' = changed \cup Watching(e)
  /\ UNCHANGED <<cell, free, inflight, pHeld, routes, pend, job, faults, chats>>

Waits(j) == Look(j) \/ Reserve(j) \/ Refused(j) \/ GiveUp(j)

Ingests(j) ==
  IngestOk(j) \/ IngestFails(j) \/ SaveOk(j) \/ SaveFails(j) \/ ReturnSlot(j)

HandsOff(j) ==
  \/ FetchFails(j)
  \/ \E want \in Slots : Survey(j, want) \/ SurveyFails(j, want)
  \/ EraseTarget(j) \/ EraseNext(j) \/ RoomDone(j)
  \/ RestoreOk(j) \/ RestoreRefused(j) \/ RestoreFails(j)

Next ==
  \/ \E j \in Jobs :
       \/ \E n \in Sizes, pre, dec \in Engines : Begin(j, n, pre, dec)
       \/ BeginFails(j) \/ Waits(j) \/ Ingests(j) \/ HandsOff(j)
  \/ \E e \in Engines :
       \/ \E s \in Slots : ChatEnds(e, s) \/ ChatStarts(e, s, ChatSize)
       \/ Probe(e)

Spec == Init /\ [][Next]_vars

-----------------------------------------------------------------------------

Holders(e) == {j \in Jobs : job[j].at \in Ingesting /\ job[j].pre = e}

\* Every variable has its type.
TypeOK ==
  /\ cell \in [Engines -> [Slots -> Cell]]
  /\ free \in [Engines -> Seq(Slots)]
  /\ inflight \in [Engines -> Nat]
  /\ budget \in [Engines -> Nat]
  /\ pHeld \in [Engines -> Int]
  /\ routes \subseteq Jobs
  /\ pend \in [Jobs -> SUBSET Sizes]
  /\ job \in [Jobs -> Job]
  /\ changed \subseteq Jobs
  /\ faults \in 0..MaxFaults
  /\ chats \in 0..MaxChats

\* Slots and tokens balance whatever fails: a slot of the pool is free or in the
\* hands of one prefill, and what is booked is what those prefills are ingesting.
PoolBalances ==
  \A e \in Engines :
    /\ IsInjective(free[e])
    /\ \A j \in Holders(e) : ~Contains(free[e], job[j].slot)
    /\ \A i, j \in Holders(e) : i # j => job[i].slot # job[j].slot
    /\ Len(free[e]) + Cardinality(Holders(e)) = Cardinality(Slots)
    /\ inflight[e] = SumFunctionOnSet([j \in Jobs |-> job[j].size], Holders(e))

\* The prompts an engine ingests together fit the share of its budget set aside
\* for them, though the budget may be learnt in between; one that does not fit is
\* alone.  (On a split engine each has a slot to itself.)
IngestsWithinBudget ==
  \A e \in Engines \ Split :
    \/ inflight[e] <= Room(Max({DefaultCtx, Context[e]}))
    \/ Cardinality(Holders(e)) = 1

\* makeDecodeRoom's account is right: when nobody has touched the engine since it
\* was surveyed, the budget is the real one and the state is no bigger than what
\* was noted of it, a state it decided to restore does fit.
RoomIsReal ==
  \A j \in Jobs :
    /\ job[j].at = "restore" /\ j \notin changed
    /\ budget[job[j].dec] = Context[job[j].dec]
    /\ job[j].state <= job[j].need
    => Restorable(j)

\* On an engine with a cache per slot nobody's cache but the target's is erased.
NeighboursKept ==
  [][\A j \in Jobs : job[j].at = "room" /\ job[j].dec \in Split /\ HandsOff(j)
       => \A s \in Slots : cell'[job[j].dec][s] = cell[job[j].dec][s]]_vars

=============================================================================
