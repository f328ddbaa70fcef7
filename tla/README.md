# A verification project for sofmat

sofmat runs large language models on a handful of machines: a coordinator in
front of several llama-server engines decides which engine answers a chat
request, has long prompts processed by a separate prefill engine whose KV state
is then shipped to the decode engine, and lets engines be taken out of service
for training. Every node updates itself and starts and stops its engines. This
directory holds TLA+ models of the parts where concurrency, failure and ordering
matter, the TLC runs that check them on small instances, and TLAPS proofs of the
main results for every instance.

`PROJECT.json` is the index: components, runs, the source lines behind every
definition (`map`), the hazards of the code and the properties that cover them,
the mutants that show each property can fail, the findings, the theorems.

To check: `tlc -config <run>.cfg <module>` and `tlapm <module>_proofs.tla`.

## 1. The system

Paths are under `src/internal/` unless they begin with `cmd/`.

| Part | State it keeps | Operations | Hard part |
|---|---|---|---|
| Conversation gate (`gateway/gateway.go`, `convGate`) | per conversation: requests in flight, a channel | acquire with a cap, release | lost wake-ups, the cap racing the last release, a gate never given back |
| Gateway admission (`gateway.go`, `admission.go`, `cachecost.go`) | known prefixes, slot of each conversation, prefill breaker | Plan, Prepare, Finish | decisions on probes that are old when used |
| Decode balancer (`coordinator/balancer.go`, `pickDecode` in `serve.go`) | claims per engine, sticky map with LRU order, fences, budgets | pick, release, stickyNode, setExcluded, probeBudgets | no lock spans the choice, the look at the room and the claim |
| Training transactions (`coordinator/train.go`) | open transactions in memory and in a file, fences | begin, end, watchdog, load at start | fences toggled outside the lock; restarts; failed writes |
| KV handoff and janitor (`kvpipe.go`, `kvjanitor.go`, `kvstate.go`) | route per state, deletion list in memory and in a file, files on nodes | Prefill, Handoff, cleanup, sweep | timeouts whose write still lands, nodes down, restarts, the list's own file |
| Prefill pool, decode room (`kvpipe.go`) | free slots and tokens per engine | acquireSlot, release, makeDecodeRoom | room measured before minutes of work |
| Self-updater (`cmd/sofmat/update.go`, `updateguard.go`) | attempts per version, refused digests, binaries on disk | check, download, admit, swap, re-exec | a crash between two renames, writes that fail in silence |
| Renames (`coordinator/renames.go`) | name of each node on each coordinator | rename, propagate, reconcile | lost and reordered messages |
| Process control (`control.go`), model load (`modelload.go`) | launched and dead pids | load, eject, kill | a pid that dies or is reused meanwhile, a kill that fails |
| Chat handlers (`serve.go`, `userckpt.go`) | what each request holds: gate, claim, slot | chat, chatStream, the turn checkpoint | a dozen returns, each with its own clean-up; clients that leave or stop reading |
| Partitioner (`partitioner/solver.go`) | none | Solve, SolveReplicas, SolveRoles | whole layers, caps and shares at their limits |
| Framing, transport, policy | none or little | pure algorithms | boundaries, rounding |
| Panel, discovery, agents, configuration, GGUF, leak guard | views, tables, files | probes and parsing | I/O, little protocol |

How they interact. A chat request takes its conversation's gate in `Prepare`,
which may run `kvPipe.Prefill` and `Handoff`; the resolver of the handoff asks
the balancer where the conversation lives (`stickyNode`). The request then goes
to `pickDecode`, by `pick` or, if its state was restored somewhere, straight to
that engine. A training transaction fences engines in the balancer
(`setExcluded`) and the handoff (`setDisabled`). The request's record, written
once, gives the gate back.

What makes each part correct:

* gate: the count is the number of requests in flight; two at once only after a
  cap; nobody sleeps for ever;
* balancer: claims add up to what is being served; a full sticky map gives up
  its least recently used conversation; a fence that stands is respected; every pick ends;
* training: transactions are disjoint, persisted, and an engine is out of the
  routing exactly while a transaction holds it, the handoff while one holds a
  prefill; a reload closes by itself;
* handoff: a state of a gigabyte is never forgotten on a disk, nor deleted
  while it is needed; the deletion list drains;
* prefill pool: slots and bookings balance on every error path; what is ingested
  together fits; the room made in a decode is there, and costs no neighbour
  its cache for nothing;
* admission: the registries keep their order at their cap; a wrong belief about a
  slot is not acted on twice;
* chat handlers: what a request takes it gives back once, by whichever return; a
  client that waits is told how it ended;
* updater: there is always a binary to start, the record of what is installed is
  true, a bad release costs a bounded number of downloads, no swap goes back;
* process control: what is killed is ours, and what is ours can be killed;
* partitioner: the plan is the best of all the plans its objective allows.

## 2. Modules

| Module | Models | Extended by |
|---|---|---|
| `ConvGate` | the gate and the part of a request's life that holds it; implements `TurnGate` | `MCConvGate`, `ConvGate_proofs` |
| `TurnGate` | what the gate promises, without entries, counts and channels | instantiated in `ConvGate` |
| `DecodeBalancer` | the balancer and both routes of `pickDecode` | `MCDecodeBalancer`, `DecodeBalancer_proofs` |
| `TrainTx` | the training transactions | `MCTrainTx`, `TrainTx_proofs` |
| `KvHandoff` | a state file's life and the janitor | `MCKvHandoff`, `KvHandoff_proofs` |
| `PrefillPool` | slots and budget of the prefill, room in the decode | `MCPrefillPool`, `PrefillPool_proofs` |
| `Admission` | the decision of `Prepare`, the registries, what `Finish` learns | `MCAdmission`, `Admission_proofs` |
| `ChatStream` | a request through `chat` and `chatStream` | `MCChatStream`, `ChatStream_proofs` |
| `Updater` | the self-updater and its state file | `MCUpdater`, `Node_proofs` |
| `Engines` | processes by pid, loaded models by port | `MCEngines`, `Node_proofs` |
| `Partitioner` | the solver, as operators, with its reference | `MCPartitioner` |

An `MC` module only gives constants their values. Operators whose comment
describes a defect ("Release that deletes the entry without closing its
channel") are mutants: no specification uses them; each is a plausible mistake
that the property named in `PROJECT.json` must catch.

### ConvGate

`entries` and `count` are `convGate.entries` and its counters; `woken[r]` says
that the channel request `r` got hold of has been closed, `expired[r]` that its
deadline has passed. One action per critical section of `acquire`: `Enter`,
`Block` (the entry's channel is kept and the lock released), `Wake` (the select),
`CapJoin`; `Release` closes the channel of the entry and deletes it. `Abort` is
the deferred function of `Prepare`, `Finish` is `finishRecord`. Requests are
reused, so behaviours are unbounded while the state space is finite. A
conversation always has a key: with an empty one the code returns at once.

`TurnGate` says the same in four variables: a request is out, asking or in; it
goes in when it is alone in its conversation, or when it has waited its cap, and
is then marked. `ConvGate` reads itself as turns (`Turns`): asking is being
anywhere inside `acquire`, being in is holding the gate. The refinement covers
`TurnGate`'s fairness too.

### DecodeBalancer

`inflight`, `tokens`, `excluded`, `usable` are the fields of `decodeNode`
(`usable` is the budget times `budgetUse`), `sticky` and `order` those of the
balancer; `rr` is kept modulo `RRPeriod`, a common multiple of the numbers it is
reduced by. A request goes through `arrived` (is it too big for everyone),
`choose`, `loop` (room here, room elsewhere, out of time), `final` (the last look)
and `claim`; the handoff route is `HandoffPick`, `HandoffClaim`. `Calls` are the
requests that may come, by route, conversation and claim. What an engine's slots
report is any element of `Readings` at every look, which covers the one-second
cache and failed probes. `chooseNode` is one step: its loop holds the balancer's
lock, and reads the engines' loads one after the other. Two history variables:
`shut`, the engines fenced without a break since the request came, and `since`,
for each conversation those the balancer was asked about since it was.
`StickyIsLRU` is stated in terms of `since`, with no mention of `order`: a
conversation has its engine exactly while fewer than `StickyCap` others have been
used after it.

### TrainTx

`txs` is `trainState.txs`, `disk` the file, `dirty` whether its last write
failed. Handlers and the watchdog are processes; a loop over the fences is one
step per instance (`FenceOn`, `FenceOff`), since nothing is locked there.
`batch` is what `openTrainTxs` returned and `trainCheck` has not looked at; `late`
is the set of jobs whose deadline has passed. `FenceOf` gives the fences of an
instance: its engine in the balancer, the handoff if it is the prefill, none
otherwise; several prefills share one. A restart loads the file, or nothing if it
cannot be read. A round of `/health` probes may return an
answer that is no longer true. What the drain waits for is left out: it delays
the answer and decides nothing. Two history variables: `raced`, the instances whose
last begin or close came while the opposite call was still toggling their fences,
and `lifted`, the fences a close took off although another instance that has them
was in training. `FenceExact` is about every fence, shared or not, and excuses these
two cases; both are behaviours of the code (see Findings).

### KvHandoff

`hand` is where each handoff is, with its route; `routes` the table of
`noteRoute`; `gc` and `disk` the deletion list and its file; `file` the copies on
the nodes; `landing` the writes nobody waits for any more; `purge` the purges
under way, one per cleanup and the janitor's; `queue` what the current sweep has
not reached. A name stands for the state and its draft sidecar, which are fetched
and deleted together. A node that is `down` does not confirm a delete, whether it
is silent or answers with an error. `lost` is a history variable with the two
documented ways for a copy to leave the list: a write that lands after its
delete was confirmed, and a restart after a failed write of the list.

Two assumptions about time. The first prompt after a start is saved only after
the startup sweep has read the list: the sweep starts with the process, a prompt
takes seconds at least. A state is an hour old only when its handoff is over:
every call that follows `track` has a deadline of minutes (120 s for the save,
300 s and 120 s for the fetches, 120 s for the restore).

### PrefillPool

`free`, `inflight` and `budget` are the fields of `enginePool`, per engine;
`pHeld` is the last reading of an engine, `routes` and `pend` what `noteRoute`
remembers; `cell` is what the engine's slots really hold, which the coordinator
learns by asking. A job is a request that wants a handoff: it waits for a reading
(fresh, or the last one again) and a slot (`acquireSlot`, whose reading is older
than its lock), erases, ingests all but the last token, saves what the slot holds
by then, gives its booking back, surveys the decode's slots (of the configured
route if its own has been forgotten), erases one after the other until by its
account the state fits the budget it read, and restores. Each erase is a step and
may fail, and a chat may use an engine between any two. `Split` engines have a
cache per slot. The history variable `changed` has the jobs whose decode engine
somebody touched after they surveyed it, or whose budget was learnt after.

### Admission

`known`, `convSlot`, `convLast` and `last` are the registries of the gateway;
three of them have an order and a cap. Slots of the engine hold a prompt, of which
the gateway sees the size. `Arrive` reads the conversation's slot and comes to the
gate, `Enter` is the way through it (nobody is inside, or the wait was capped),
`Admit` classifies (`ClassifyAdmission`) with what the probes credit as resident,
the exact count may close the prefill route again, the prefill side may fail (the
breaker opens) or skip (it does not), and `Finish` compares what was credited with
what the engine reused. A client may slide its window of history, which keeps a
prompt's size and changes its content, and the engine may empty a slot. Token
counts are small numbers with the code's integer divisions. `spoilt` and `carried`
are history: the slots on which a turn of a conversation was credited in vain,
until the engine is seen to use them or a state is restored there, and those of
them that another turn of the conversation had read by then.
`WrongCreditIsDropped` excuses the slots in `carried`: that turn, and through its
plan the ones after it, are credited there again, against the comment of `forget`
(see Findings).

### ChatStream

The local variables of the two handlers, `wire` what the client has seen. The
returns of `chatStream` are `Bail` (before the engine answered) and `Close`,
`Report`, `Done`, `Over`, `Return`: its deferred functions, in their order. The
checkpoint of a user turn is two calls to the engine and pins the request to the
slot it ran in. A client may leave, and it may keep its connection and take in
nothing (`deaf`): a write to it may then wait (`"write"`), and ends only when the
client reads again or leaves, as the server has no `WriteTimeout`. Gate and claim
are counts here; `ConvGate` and `DecodeBalancer` say what they do.

### Updater

A binary is a sha that prints a version when it is run; a release is a tag with
a binary and, or not, its digest, and may be published again under the same tag.
`self`, `new`, `old` are the files, `running` the process, `state` the state file:
attempts per version, refused digests and tags, what is installed. Three callers
(at start, timer, button) go through ask, spend, get, admit, the two renames, the
note and the re-exec; the process may die between any two. Every write of the state
file may fail in silence (`Save`), and so may the rename that rolls a failed swap
back. History: `rounds`, `execFails`, and what the properties excuse: `torn` (died
between the renames), `stranded` (the roll back failed), `lost` (a state file was),
`missed` (attempts whose write failed), `unnoted` (the last write of what is
installed failed).

### Engines

`live` and `dead` are `procReg`, `loaded` is `loadedReg`, `proc` what really runs
under each pid. A pid is free again once its launcher's wait has returned, which
is before the reaper has taken it off `live`. Kills and their notes are two steps,
and a kill of a running process may fail: `ejectOwnLlama` then keeps the pid,
`killLlamaByPort` marks it dead. A load's port is its caller's or the next free one.
Other programs start engines too. `former` (pids our processes have given back),
`hurt` (others' processes killed) and `escaped` (pids the kill by port failed on)
are history. No property is about `loaded` alone: it decides which port the next
load takes.

### Partitioner

A call is one step: `pool` and `ask` are its input, `answer` what it returns. The
solver's loops are folds and set expressions with the code's tie-breaks; sizes
are whole GB, times whole milliseconds and shares are compared by
cross-multiplication, so rounding is not modelled. The reference (`Splits`) is
every function from hosts to layers. One thing of the code is part of it: of the
splits over one set of hosts only the fastest is held against the network budget
(`FastestOfHosts`; see Findings). `RolesAreBest` enumerates every reservation a
demand allows, with the best decode split of the nodes it leaves, and compares by
all three keys of the objective. Each property also says when the answer is a
refusal. The backends wired from a role plan are an operator with no property.

## 3. Runs

| Run | Configuration | Shows |
|---|---|---|
| `conv_gate` | 3 requests, 2 conversations | exact counts, serial unless capped, no lost wake-up, every acquire returns, the turns of `TurnGate` implemented |
| `balancer` | 2 engines, 2 requests, 3 conversations (a pick of size 3, a handoff of size 1, a lookup), budgets of 3 and 2, cap 2 | exact claims, the least recently used assignment goes, standing fences, every pick returns |
| `train` | 2 jobs, 2 handlers, watchdog, 1 decode, 1 fault | disjoint, persisted, its fence exact unless raced, a reload closes |
| `train_fence` | the same without fault | see Findings |
| `kv_handoff` | 2 handoffs, 2 nodes, late writes, 1 fault | listed until gone, no purge of a state in use |
| `kv_drain` | 1 handoff, 2 nodes, late writes, 3 faults | the list drains |
| `prefill_pool` | 2 jobs, a unified and a split engine of 2 slots, sizes below and above a share of the budget, 1 chat, 1 fault | balance, budget, real room, neighbours kept |
| `admission` | 2 requests at once, 3 conversations of one prefix, 2 slots, registries of 2, 3 turns, 1 slide, 1 event | ordered registries, wrong credit dropped |
| `chat_stream` | 2 requests of one conversation, 1 engine of 1 slot and the prefill, 1 chunk before the last | given back once, client told, every chat ends unless its client stays and reads nothing |
| `updater` | 3 callers, 2 versions, a rebuilt and a spoilt binary, 2 publications, 1 fault, 2 attempts of 2 tries | binary in place, true record, bounded rounds, swaps climb, a proper release lands |
| `engines` | 2 pids, 2 ports, 2 loads, 1 eject, 3 processes | only own killed, ejects reach |
| `partitioner` | every pool of 3 nodes over 9 profiles, 4 layers, 2 overheads, 3 floors, all role demands | best plan, fallbacks, replicas and roles |

The bounds. Two requests meet in every pair of critical sections; a third one in
`conv_gate` lets a second waiter be overtaken by a newcomer. In `balancer` two
places in the sticky map under three conversations make it matter which one is
evicted; a request that fills an engine beside one that takes part of it makes
picks wait, move and, once the smaller budget is learnt and the larger engine
fenced, be refused. Two jobs, two handlers and the watchdog put three calls on one
instance. Two prefills with one fence (`PrefillFences`) were checked too and are
not kept as a run: with one handler, the watchdog and one fault `FenceExact` holds
in all of 4.9 million states (up to symmetry), and `TrainFences` proves it for any
sharing. One fault is enough for each of: a failed write, a restart, an outage;
`kv_drain` allows combinations of three. `RouteCap` is 0 where the code has 64, so
that the second route wipes the first. Two sizes, one of which does not fit twice,
and a budget learnt late make prompts wait, go alone or overflow in
`prefill_pool`. Registries of two places under three conversations evict, each of
them. Three processes over two pids make a pid come twice. A fault in `updater` is
a crash, a failed rename, roll back, write or re-exec, or a damaged state file;
with two attempts allowed one fault leaves one. The profiles of `partitioner` have
a node too small for a layer, one of unknown speed, one that is absent and one
known by its bandwidth. Named bounds in the guards: `MaxFaults`, `MaxChats`,
`MaxTurns`, `MaxSlides`, `MaxEvents`, `MaxChunks`, `MaxPublished`, `MaxStarts`.
The runs that use symmetry (`train_fence`, `kv_handoff`, `prefill_pool`,
`admission`, `engines`) check no liveness.

Fairness. `conv_gate`: the goroutine inside `acquire` is scheduled and its timer
fires, nothing of the holders. `balancer`: the goroutine inside `pick` is
scheduled and its 240 s pass, nothing of engines, fences or other requests.
`train`: the watchdog's loop goes on (it sleeps `trainTick` and recovers from a
panic), nothing of handlers or instances. `kv_drain`: the janitor's loop goes on, an
hour passes, a node that went down comes back; nothing of handoffs or cleanups.

`updater`: a node that died is started again, a call under way goes on, and the
timer and the button come again and again: what is enabled infinitely often (a
query, a download, an admission) succeeds in the end. `chat_stream`: handlers
are scheduled, and every call to an engine ends, because the client of each has
a deadline or the stream an end. Nothing is assumed of clients, so a handler may
wait for ever in a write to one that stays connected and stops reading; `EveryChatEnds` says
that every chat ends unless its client is one of those for good.

Deadlock is checked in the runs of the gate, the balancer, the training and the
handoff.
In the others the instance ends: its jobs, turns, chats, publications, processes
or calls are used up.

## 4. Proofs

For every value of the constants, under the assumptions named in the modules:
requests, jobs and the like are finite sets where something counts them
(`GateAssumption`, `BalancerAssumption`, `ChatAssumption`, `PoolAssumption`,
`AdmissionAssumption`), the placeholders
("no job", "no engine") are not members, bounds are naturals. `Keys # {}` in
`BalancerAssumption` says that there is a conversation at all. TLC evaluates each
of them on its module's run.

Every module of proofs has the same shape: the inductive invariant in named
parts, lemmas on what one operation changes, one lemma per action, the theorems.

`ConvGate_proofs`: `GateTypeOK`, `GateAccounting`, `GateSerialises`,
`GateWakesUp`, from one inductive invariant. Serialisation is not inductive by
itself: that a request enters only when nobody is in flight rests on the count
being the number of holders, which rests on the entry existing exactly while
there are some. `GateImplementsTurns` is the refinement of `TurnGate` without its
fairness (`Turns!Safety`): initial states map to initial states, each step to a
step of the turns or a stutter. The exact counts are what makes it go through: a
request enters uncapped only if its conversation has nobody in.

`TrainTx_proofs`: `TrainTypeOK`, `TrainDisjoint`, `TrainDisk`, `TrainFences`. The
invariant `TrainInv` adds to the checked properties that the *file* holds
disjoint transactions (a restart takes it for the map, also when a failed write
left it behind), and `FencesOK`, in two parts. Of instances (`Settled`): one that is
not raced is in a transaction while it is being fenced and in none while it is being
unfenced. Of fences (`Exactly`): one that is not lifted, and on none of whose
instances a call is at work, is on exactly if one of them is in training. So the call
that toggles a fence last leaves it as all the instances that share it want it, or
has it noted as lifted. The argument goes by parts: `StoreStep` for map and file,
`TypesStep` for the rest of the types, `FencesStep` for the fences, each with one
step per action.

`DecodeBalancer_proofs`: `BalancerTypeOK`, `BalancerAccounts`, `BalancerLRU`,
`BalancerFences`. `AccountsExact` is an equation between a counter and a sum over
a set, so the module begins with a theory of such sums: the fold's recursion has
exactly one solution (by a minimal counterexample among the subsets), so the sum
without an element is the sum less that element. The LRU part says how the order
stands to the history `since`: of two conversations in it the younger one was used
since the older (`Ranked`), and whatever has been evicted is older than all of a
full order (`Aged`). From that `AgedIsLRU` counts the uses since. The fences need
that an engine once chosen was not fenced at that moment (`Requested`).

`KvHandoff_proofs`: `HandoffSparesLive` from `Quiet` (a purge under way or queued
is of a state whose handoff is past, the file is the list unless its last write
failed), with no hypothesis. `HandoffListed` proves `ListedUntilGone` from
`Tracked`, `Listed` and `Confirmed`, under `RoutesApart`: either the route table
is never wiped (no more states than its cap), or no route but the default one
starts at the default's prefill node. The hypothesis is needed; see Findings.

`ChatStream_proofs`: `ChatGivesBackOnce`, `ChatTellsClient`, `ChatTypeOK`. `Local`
says what a handler holds and has sent by where it is; every action of a request
is then a `Step` that changes only its own handler and wire and moves each count
with its holder, and `GateCounts` and `ClaimsCount` turn that into the exact
cardinalities.

`PrefillPool_proofs`: `PoolTypeOK`, `PoolBalancesAlways`, `PoolWithinBudget`,
`PoolRoomIsReal` and the action property `PoolSparesNeighbours`. Bookings and what
an engine holds are sums, with the same theory as in the balancer. `PoolInv` adds
`RoomFacts`: while nobody has touched the engine a job surveyed, its view is what
the slots hold, its account their sum and its budget the engine's, so an erase
takes as much off the account as off the engine. `BudgetKnown` (the budget is the
assumed or the real one) bounds the share for which an ingest was let in; that a
prompt too big for it is alone needs that nothing booked means nobody there. A
step of a job is cut in three: `Rest` (what it does to others), `StepInv` (a step
that books nothing), `BookInv` (one that moves a single pool).

`Admission_proofs`: `AdmissionTypeOK`, `AdmissionRegistries`,
`AdmissionDropsWrongCredit`. The first half is a theory of the registries: a
registry is `Exact` when map and order agree, the order repeats nothing and the
capacity holds; `RemoveFirst`, `Touch`, `Remember`, `SetSlot` and `Forget` each
keep that, so an eviction always finds its key in the map. The second half is
`TurnFacts`, with which the wrong credits become inductive. `Placed`: a request
under way is of a conversation and has a slot. `NobodysSlot`: a disproved slot
(spoilt, and neither carried nor the ring's) is not the conversation's in `convSlot`
nor that of any turn of it under way, so no path leads back to it. `Finish` keeps
that without a hypothesis on who else is there: it forgets the slot, and whatever
turn of the conversation holds it at that moment makes it carried. One lemma per
action; those that only move a request share `Stays`.

`Node_proofs`: what a daemon does to its own host.
The updater's part: `UpdaterTypeOK`, `UpdaterKeepsBinary`, `UpdaterNamesBinary`,
`UpdaterRoundsBounded` and the action property `UpdaterClimbs`. The bound on the
rounds rests on `Belt`: each download in vain is an attempt on record, or one whose
write failed (`missed`), or one that the call under way is about to refund, or the
release is settled (installed or refused) and costs no more. `SelfIsThere` and
`NamedIsTrue` are the same for the binary and its record: a running node has a binary
at its path but between the renames or after a roll back that failed (`stranded`),
and the record names it unless its last write failed (`unnoted`).

The engines' part: `EnginesTypeOK`, `EnginesSpareOthers`, `EnginesWithinReach`. The
strengthening is in `PidFacts`: what a kill about to be made knows of its pid, that
what an eject is about to mark dead has ended or is one the kill by port failed on
(`escaped`), and that a late reaper is of a pid already given back. `Node_proofs`
extends both modules, so the names they would share begin with `Host` in `Engines`
(`HostInit`, `HostNext`, `HostSpec`).

Only model-checked: the liveness properties and the refinement's fairness
(fairness is out of the prover's reach), and the partitioner, which is an induction
over data, which the prover does not do.

## 5. Findings

The run `train_fence` expects a violation: it states what a comment of the code
says and shows a behaviour that contradicts it. `closeTrain` lifts the fences
after it has unlocked; a begin on the same instance that comes in between loses
its fence.

Other places where the models showed the code to do something else than its
comments say. No run is kept for them, and the properties above name them as
exceptions where they touch them.

* `train.go:185`: every instance of role prefill has the one switch of the handoff
  for its fence, and `closeTrain` (532) sets it with no look at the other open
  transactions. Two prefills are put into training one after the other; the end of
  the first switches the handoff on, and prompts go to the second, against
  `train.go:16`: "a fenced PREFILL leaves the KV handoff". No two calls overlap. With
  `PrefillFences` over two prefills, one handler and no fault TLC finds it in ten
  steps. `TrainFences` proves that this (`lifted`) and the overlap (`raced`) are the
  only ways for a fence to be wrong.
* `train.go:97`: a file of transactions that cannot be read is ignored at the start.
  The fences are gone, and the next begin writes over what was there.
* `balancer.go:374`: two picks look at the room of an engine, then both claim it:
  the budget the header promises to guard is exceeded. The accounts stay exact.
* `balancer.go:383`: a pick that waits for room claims an engine fenced
  meanwhile. One that came after the fence never does
  (`FencedBeforePickNeverServes`).
* `train.go:583`: the watchdog closes by job name on the strength of an old copy;
  a job that ended and began again in between loses its new transaction.
* `kvjanitor.go:116`: a save or fetch that lands after the delete was answered 404
  leaves a file no list names. `ListedUntilGone` shows that, with a restart after
  a failed write, it is the only way.
* `kvpipe.go:238`: past 64 remembered routes all of them are dropped, those of
  handoffs in progress included; a restored request then goes to the default
  engine. The proof of `ListedUntilGone` found a second effect. A handoff whose
  route was dropped falls back on the default route (`kvpipe.go:1116`) and
  fetches the state to the default's decode, while `track` (`kvpipe.go:1073`)
  listed the true one. If both start at the same prefill node the fetch works,
  and the copy is on no list, against `kvjanitor.go:10`: "every state is written
  down BEFORE it can exist". With three nodes, routes from one of them to the two
  others and `RouteCap` 0, TLC finds it in eight states. With two engines
  (`otherThan`) it cannot happen, and `HandoffListed` says so for every
  configuration whose routes are apart.
* `kvpipe.go:1091`: the save is checked against half the prompt's size from below
  only. A turn of other traffic that takes the slot between the ingest and the
  save leaves its own cache there, which is saved under the prompt's name; if it
  is bigger, the room made for the noted size is too small. `RoomIsReal` is about
  states no bigger than noted; with `need # 0` in place of that and `ChatSize` 5
  TLC finds the restore that does not fit.
* `gateway.go:750`: `Prepare` reads the conversation's slot, then waits at the gate
  (773). If the turn ahead is proved wrong and forgets the slot, the one that waited
  is credited on it all the same, and the `set` of its plan puts it back for the
  turns after it, against `gateway.go:372`: "the next turn must not be credited on
  that slot". No wait was capped. `WrongCreditIsDropped` excuses the slots a turn
  had read by then (`carried`); without that excuse TLC finds the behaviour in the
  instance of `admission`.
* `serve.go:1187`: the server has no `WriteTimeout` (`coordinator.go:28`). A client
  that stays connected and reads nothing keeps its handler in a write for good, and
  with it the conversation's gate and the engine's claim. `EveryChatEnds` excepts it.
* `serve.go:1152`: a stream that breaks after some bytes ends with no error event;
  only a 200 that brought nothing gets one. `ClientIsTold` accepts it.
* `serve.go:1042`: the early returns of `chatStream` (refused, client gone, engine
  unreachable) call `Finish` with an empty body, which puts the prefix on record
  as hot (`gateway.go`: "the slot now holds this prefix's KV") though no engine
  has seen it. The JSON half writes its record and learns nothing.
* `updateguard.go`: the number of rounds is not finite ("numero de vueltas es
  finito") while the re-exec of an installed binary fails: `noteInstalled` has
  cleared the attempts, and the old process finds the release newer than itself
  again. `RoundsBounded` excludes that case (`execFails`). A crash between
  spending an attempt and refunding it loses the attempt, and a digest refused
  under a wrong tag stays refused under the right one: `ProperReleaseLands`
  assumes neither.
* `updateguard.go:141`: a state file that cannot be written or renamed is dropped in
  silence. Each attempt lost that way allows one more round, so a bad release on a
  node with a full disk is downloaded without bound: the bound of `RoundsBounded`
  grows with `missed`. A record of what is installed that is lost so names another
  binary (`unnoted` in `InstalledIsTrue`).
* `update.go:378`: the roll back of a failed swap ignores its own error. The path is
  then empty with the process alive (`stranded`), and the next round removes `.old`
  (372), the last good binary, before its first rename fails. `BinaryInPlace`
  excepts it.
* `control.go:225`: `killLlamaByPort` marks a pid dead whether its kill worked or not
  (`ejectOwnLlama`, 178, looks). An engine it failed on runs on, and no eject
  reaches it (`escaped` in `EjectReaches`).
* `control.go:56`: the guard is there so that a kill by port "never touches an
  externally-run llama-server", but pids are not told apart from their next owners.
  A pid of ours that has exited, but whose reaper has not come to take it off, may
  be another program's when the kill comes: `OnlyOwnKilled` excepts pids that were
  ours (`former`).
* `renames.go:13`: "renaming on ANY node's panel shows on EVERY panel". A rename is
  pushed once; a node that misses it keeps the label it has, as `reconcileRenames`
  (117) only adds what a node lacks.
* `control.go:64`: `/control/alive` is "false only once it has exited", but a pid
  that comes back for a new engine is still in `dead`, which `recordLaunched` does
  not clear.
* `modelload.go:335`: two loads at once take the same port; the second engine
  fails to bind, or the first one's record is overwritten.
* `solver.go:301`: Solve errs "when every fitting map violates the network KPI".
  It tries only the fastest split of each set of hosts, which is the one with the
  largest network share: nodes of 1 and 4 ms per layer that hold 2 and 3 of 4
  layers are refused at 2 ms per boundary and 15 %, though one layer on the fast
  node and three on the other would do.

## 6. Plan

An abstract ledger ("a copy exists, is listed, is gone") that `KvHandoff`
implements by refinement.

## 7. Not modelled

The bytes of replies, HTTP parsing, the panel, discovery beacons, machine
statistics, GGUF and configuration parsing, the leak guard: I/O or data without a
protocol. The renames are display labels, which nothing but the panel reads; that
they do not spread as promised is under Findings. The stream framing of
`kvhandoff` and `transport` is a byte codec that the service's handoffs do not
use. Downloads of models are files written under a temporary name and renamed.
Token estimates, the speculative-decoding policy and the hash ring use floating
point or hashes; only their outcomes matter to the parts above and are arbitrary
there. The engines themselves (llama-server) are external: they hold slots, save
and restore files, and answer or not.
