------------------------------- MODULE KvHandoff -------------------------------
(***************************************************************************)
(* The KV handoff and the janitor of its state files                       *)
(* (internal/coordinator/kvpipe.go, kvjanitor.go, kvstate.go).             *)
(*                                                                         *)
(* A handoff saves the state of a prompt on the prefill node, has the      *)
(* decode node fetch it, restores it there and deletes both copies in a    *)
(* goroutine.  What may still exist is on a list (gc) kept in a file; the  *)
(* janitor retries what no node has confirmed.  Nodes go down, a node may  *)
(* finish a write whose caller has given up, the coordinator restarts.     *)
(*                                                                         *)
(* A name stands for the state file and its draft sidecar, which are       *)
(* fetched and deleted together.                                           *)
(***************************************************************************)
EXTENDS Naturals, FiniteSets

CONSTANTS
  Names,         \* state names, one per handoff (body hash and time)
  Nodes,         \* the nodes with an engine and a soflink
  Routes,        \* the [pre, dec] pairs the resolver may choose
  Default,       \* the configured pair, used when the route is not known
  RouteCap,      \* noteRoute wipes the table when it holds more than this
  LateLandings,  \* whether a node may finish a write its caller gave up on
  Janitor,       \* the janitor goroutine, as opposed to a cleanup
  NoName,        \* the name of a purger that is not running
  MaxFaults      \* bound: outages, restarts and failed writes of the list

\* kvRoute: where the prompt is processed and where its state is restored.
Route == {r \in [pre : Nodes, dec : Nodes] : r.pre # r.dec}

ASSUME HandoffAssumption ==
  /\ Routes \subseteq Route
  /\ Default \in Route
  /\ RouteCap \in Nat /\ MaxFaults \in Nat
  /\ LateLandings \in BOOLEAN
  /\ Janitor \notin Names /\ NoName \notin Names

Purgers == Names \cup {Janitor}
Ends(r) == {r.pre, r.dec}

VARIABLES
  hand,      \* per name: where its handoff is, and its route while it runs
  routes,    \* kvPipe.routes: per name {its route}, or {} when not remembered
  file,      \* the copies on the nodes' disks, <<name, node>>
  landing,   \* writes that nobody waits for and that may still end
  gc,        \* kvPipe.gc: per name the nodes that may hold it, {} = not listed
  disk,      \* kvpending.local.json
  dirty,     \* the last write of it failed
  purge,     \* the running purges: a cleanup per name, and the janitor's
  queue,     \* the names the current sweep has not reached
  fresh,     \* the startup sweep has not begun
  old,       \* the names tracked more than kvOrphanAge ago
  down,      \* nodes that do not answer, or answer with an error
  lost,      \* history: copies that came to be after their delete was confirmed,
             \*   or were listed only in memory when the coordinator died
  faults     \* faults so far

vars == <<hand, routes, file, landing, gc, disk, dirty, purge, queue, fresh, old,
          down, lost, faults>>

Places == {"idle", "saving", "saved", "fetching", "fetched", "restored", "over"}
InProgress == {"saving", "saved", "fetching", "fetched"}

Hand == [at : Places, route : Route]
Before == [at |-> "idle", route |-> Default]
Over == [at |-> "over", route |-> Default]
Purge == [name : Names \cup {NoName}, todo : SUBSET Nodes, ok : BOOLEAN]
NotPurging == [name |-> NoName, todo |-> {}, ok |-> TRUE]

Init ==
  /\ hand = [n \in Names |-> Before]
  /\ routes = [n \in Names |-> {}]
  /\ file = {}
  /\ landing = {}
  /\ gc = [n \in Names |-> {}]
  /\ disk = gc
  /\ dirty = FALSE
  /\ purge = [p \in Purgers |-> NotPurging]
  /\ queue = {}
  /\ fresh = TRUE
  /\ old = {}
  /\ down = {}
  /\ lost = {}
  /\ faults = 0

-----------------------------------------------------------------------------
(* The list and its file.                                                  *)

\* saveGCLocked: temp file and rename; a failure is not even logged.
SaveGC ==
  \/ /\ disk' = gc'
     /\ dirty' = FALSE
     /\ UNCHANGED faults
  \/ /\ faults < MaxFaults
     /\ faults' = faults + 1
     /\ dirty' = TRUE
     /\ UNCHANGED disk

\* ctlsOf: where the state may live; the configured pair if it is not listed.
CtlsOf(n) == IF gc[n] # {} THEN gc[n] ELSE Ends(Default)

\* cleanup: go purge(n).
Cleanup(n) ==
  purge' = [purge EXCEPT ![n] = [name |-> n, todo |-> CtlsOf(n), ok |-> TRUE]]

GoTo(n, place) == hand' = [hand EXCEPT ![n].at = place]
Finish(n) == hand' = [hand EXCEPT ![n] = Over]

-----------------------------------------------------------------------------
(* Prefill.                                                                *)

\* Prefill up to the save: the prompt is in the slot, the state is written down
\* and the save is sent.  The first prompt is processed long after the startup
\* sweep has read the list.
Track(n, r) ==
  /\ hand[n].at = "idle"
  /\ ~fresh
  /\ hand' = [hand EXCEPT ![n] = [at |-> "saving", route |-> r]]
  /\ gc' = [gc EXCEPT ![n] = Ends(r)]
  /\ SaveGC
  /\ UNCHANGED <<routes, file, landing, purge, queue, fresh, old, down, lost>>

Remembered == {n \in Names : routes[n] # {}}

\* noteRoute: the whole table is dropped when it has grown past its cap.
NoteRoute(n, r) ==
  routes' = [m \in Names |->
               IF m = n THEN {r}
               ELSE IF Cardinality(Remembered) > RouteCap THEN {} ELSE routes[m]]

\* The save answers with a state of the right size.
SaveOk(n) ==
  /\ hand[n].at = "saving"
  /\ file' = file \cup {<<n, hand[n].route.pre>>}
  /\ NoteRoute(n, hand[n].route)
  /\ GoTo(n, "saved")
  /\ UNCHANGED <<landing, gc, disk, dirty, purge, queue, fresh, old, down, lost, faults>>

\* The save fails, answers with an empty state, or times out: the node then has
\* a file, has none, or will have one.
SaveFails(n) ==
  /\ hand[n].at = "saving"
  /\ \/ file' = file \cup {<<n, hand[n].route.pre>>} /\ UNCHANGED landing
     \/ UNCHANGED <<file, landing>>
     \/ LateLandings /\ landing' = landing \cup {<<n, hand[n].route.pre>>} /\ UNCHANGED file
  /\ Cleanup(n)
  /\ Finish(n)
  /\ UNCHANGED <<routes, gc, disk, dirty, queue, fresh, old, down, lost, faults>>

-----------------------------------------------------------------------------
(* Handoff.                                                                *)

\* routeOf, or the configured pair.
RouteOf(n) == IF routes[n] = {} THEN Default ELSE CHOOSE r \in routes[n] : TRUE

\* Handoff reads the route and asks the decode node to fetch the state.
HandoffStarts(n) ==
  /\ hand[n].at = "saved"
  /\ hand' = [hand EXCEPT ![n].at = "fetching", ![n].route = RouteOf(n)]
  /\ UNCHANGED <<routes, file, landing, gc, disk, dirty, purge, queue, fresh, old,
                 down, lost, faults>>

\* controlKVFetch: the state is streamed to a temp file and renamed.
FetchOk(n) ==
  /\ hand[n].at = "fetching"
  /\ <<n, hand[n].route.pre>> \in file
  /\ Ends(hand[n].route) \cap down = {}
  /\ file' = file \cup {<<n, hand[n].route.dec>>}
  /\ GoTo(n, "fetched")
  /\ UNCHANGED <<routes, landing, gc, disk, dirty, purge, queue, fresh, old, down,
                 lost, faults>>

\* The fetch fails or times out; the decode node may be streaming still.
FetchFails(n) ==
  /\ hand[n].at = "fetching"
  /\ \/ UNCHANGED landing
     \/ /\ LateLandings
        /\ <<n, hand[n].route.pre>> \in file
        /\ landing' = landing \cup {<<n, hand[n].route.dec>>}
  /\ Cleanup(n)
  /\ Finish(n)
  /\ UNCHANGED <<routes, file, gc, disk, dirty, queue, fresh, old, down, lost, faults>>

\* makeDecodeRoom finds no room or the restore fails, and the request is served
\* direct; or the restore succeeds.  Either way both copies are cleaned up.
Restore(n) ==
  /\ hand[n].at = "fetched"
  /\ \/ Finish(n)
     \/ <<n, hand[n].route.dec>> \in file /\ GoTo(n, "restored")
  /\ Cleanup(n)
  /\ UNCHANGED <<routes, file, landing, gc, disk, dirty, queue, fresh, old, down,
                 lost, faults>>

\* DecodeURLFor: where a handed-off request goes.
DecodeFor(n) == RouteOf(n).dec

\* pickDecode sends the request to DecodeFor(n).
Serve(n) ==
  /\ hand[n].at = "restored"
  /\ Finish(n)
  /\ UNCHANGED <<routes, file, landing, gc, disk, dirty, purge, queue, fresh, old,
                 down, lost, faults>>

-----------------------------------------------------------------------------
(* Purges: the cleanup of one handoff, or the janitor going through a      *)
(* sweep.                                                                  *)

\* deleteState: 2xx and 404 confirm; no answer does not, though the node may
\* have deleted the file.
Delete(p, c) ==
  LET n == purge[p].name IN
  /\ n # NoName
  /\ c \in purge[p].todo
  /\ \/ /\ c \notin down
        /\ file' = file \ {<<n, c>>}
        /\ purge' = [purge EXCEPT ![p].todo = @ \ {c}]
     \/ /\ c \in down
        /\ file' \in {file, file \ {<<n, c>>}}
        /\ purge' = [purge EXCEPT ![p].todo = @ \ {c}, ![p].ok = FALSE]
  /\ UNCHANGED <<hand, routes, landing, gc, disk, dirty, queue, fresh, old, down,
                 lost, faults>>

\* purge that forgets the state whatever the nodes answered.
PurgeForgets(p) ==
  LET n == purge[p].name IN
  /\ n # NoName
  /\ purge[p].todo = {}
  /\ purge' = [purge EXCEPT ![p] = NotPurging]
  /\ gc' = [gc EXCEPT ![n] = {}]
  /\ old' = old \ {n}
  /\ IF gc[n] # {} THEN SaveGC ELSE UNCHANGED <<disk, dirty, faults>>
  /\ UNCHANGED <<hand, routes, file, landing, queue, fresh, down, lost>>

\* purge, all nodes asked: the state is forgotten only if all confirmed.
PurgeEnds(p) ==
  LET n == purge[p].name IN
  /\ n # NoName
  /\ purge[p].todo = {}
  /\ purge' = [purge EXCEPT ![p] = NotPurging]
  /\ IF purge[p].ok /\ gc[n] # {}
       THEN gc' = [gc EXCEPT ![n] = {}] /\ SaveGC /\ old' = old \ {n}
       ELSE UNCHANGED <<gc, disk, dirty, old, faults>>
  /\ UNCHANGED <<hand, routes, file, landing, queue, fresh, down, lost>>

\* sweep that ignores the age of what it finds.
SweepStartsAll ==
  /\ purge[Janitor] = NotPurging
  /\ queue = {}
  /\ queue' = {n \in Names : gc[n] # {}}
  /\ fresh' = FALSE
  /\ UNCHANGED <<hand, routes, file, landing, gc, disk, dirty, purge, old, down,
                 lost, faults>>

\* sweep reads the list: all of it at startup, then what is old enough.
SweepStarts ==
  /\ purge[Janitor] = NotPurging
  /\ queue = {}
  /\ queue' = {n \in Names : gc[n] # {} /\ (fresh \/ n \in old)}
  /\ fresh' = FALSE
  /\ UNCHANGED <<hand, routes, file, landing, gc, disk, dirty, purge, old, down,
                 lost, faults>>

\* sweep that takes a name off its queue and never gets to purge it.
SweepSkips(n) ==
  /\ purge[Janitor] = NotPurging
  /\ n \in queue
  /\ queue' = queue \ {n}
  /\ UNCHANGED <<hand, routes, file, landing, gc, disk, dirty, purge, fresh, old,
                 down, lost, faults>>

\* sweep purges the next name.
SweepNext(n) ==
  /\ purge[Janitor] = NotPurging
  /\ n \in queue
  /\ queue' = queue \ {n}
  /\ purge' = [purge EXCEPT ![Janitor] = [name |-> n, todo |-> CtlsOf(n), ok |-> TRUE]]
  /\ UNCHANGED <<hand, routes, file, landing, gc, disk, dirty, fresh, old, down,
                 lost, faults>>

-----------------------------------------------------------------------------
(* The world.                                                              *)

\* An hour after it was tracked a handoff is over: every call it makes from
\* then on has a deadline of minutes.
Ages(n) ==
  /\ gc[n] # {} /\ n \notin old
  /\ hand[n].at \notin InProgress
  /\ old' = old \cup {n}
  /\ UNCHANGED <<hand, routes, file, landing, gc, disk, dirty, purge, queue, fresh,
                 down, lost, faults>>

\* A write nobody waits for ends, maybe after its file was reported absent.
Lands(f) ==
  /\ f \in landing
  /\ landing' = landing \ {f}
  /\ file' = file \cup {f}
  /\ lost' = IF /\ f[2] \in gc[f[1]]
                /\ \A p \in Purgers : purge[p].name = f[1] => f[2] \in purge[p].todo
               THEN lost ELSE lost \cup {f}
  /\ UNCHANGED <<hand, routes, gc, disk, dirty, purge, queue, fresh, old, down, faults>>

NodeDown(c) ==
  /\ c \notin down
  /\ faults < MaxFaults
  /\ faults' = faults + 1
  /\ down' = down \cup {c}
  /\ UNCHANGED <<hand, routes, file, landing, gc, disk, dirty, purge, queue, fresh,
                 old, lost>>

NodeUp(c) ==
  /\ c \in down
  /\ down' = down \ {c}
  /\ UNCHANGED <<hand, routes, file, landing, gc, disk, dirty, purge, queue, fresh,
                 old, lost, faults>>

\* What a node may be writing when the coordinator dies.
Writing == {<<n, hand[n].route.pre>> : n \in {m \in Names : hand[m].at = "saving"}}
           \cup {<<n, hand[n].route.dec>> : n \in {m \in Names :
                   hand[m].at = "fetching" /\ <<m, hand[m].route.pre>> \in file}}

\* The coordinator dies and starts again: startJanitor reads the list back.
Restart ==
  /\ faults < MaxFaults
  /\ faults' = faults + 1
  /\ hand' = [n \in Names |-> IF hand[n] = Before THEN Before ELSE Over]
  /\ routes' = [n \in Names |-> {}]
  /\ gc' = disk
  /\ dirty' = FALSE
  /\ purge' = [p \in Purgers |-> NotPurging]
  /\ queue' = {}
  /\ fresh' = TRUE
  /\ \E L \in IF LateLandings THEN SUBSET Writing ELSE {{}} : landing' = landing \cup L
  /\ lost' = lost \cup {f \in file : f[2] \notin disk[f[1]]}
  /\ UNCHANGED <<file, disk, old, down>>

Drive(n) ==
  \/ \E r \in Routes : Track(n, r)
  \/ SaveOk(n) \/ SaveFails(n)
  \/ HandoffStarts(n) \/ FetchOk(n) \/ FetchFails(n) \/ Restore(n)
  \/ Serve(n)

Purging(p) == PurgeEnds(p) \/ \E c \in Nodes : Delete(p, c)

Sweep == SweepStarts \/ \E n \in Names : SweepNext(n)

World ==
  \/ \E n \in Names : Ages(n)
  \/ \E f \in Names \X Nodes : Lands(f)
  \/ \E c \in Nodes : NodeDown(c) \/ NodeUp(c)
  \/ Restart

Next ==
  \/ \E n \in Names : Drive(n)
  \/ \E p \in Purgers : Purging(p)
  \/ Sweep
  \/ World

Spec == Init /\ [][Next]_vars

\* The janitor's loop runs, an hour passes, and a node that went down comes
\* back.  Nothing is assumed of handoffs or of their cleanups.
FairSpec ==
  /\ Spec
  /\ WF_vars(Sweep \/ Purging(Janitor))
  /\ WF_vars(\E n \in Names : Ages(n))
  /\ WF_vars(\E c \in Nodes : NodeUp(c))

-----------------------------------------------------------------------------

\* Every variable has its type: no handoff has the same node at both ends, and a
\* cleanup is of the name it is for.
TypeOK ==
  /\ hand \in [Names -> Hand]
  /\ routes \in [Names -> SUBSET Route]
  /\ \A n \in Names : \A r, s \in routes[n] : r = s
  /\ file \subseteq Names \X Nodes
  /\ landing \subseteq Names \X Nodes
  /\ gc \in [Names -> SUBSET Nodes]
  /\ disk \in [Names -> SUBSET Nodes]
  /\ dirty \in BOOLEAN
  /\ purge \in [Purgers -> Purge]
  /\ queue \subseteq Names
  /\ fresh \in BOOLEAN
  /\ old \subseteq Names
  /\ down \subseteq Nodes
  /\ lost \subseteq Names \X Nodes
  /\ faults \in 0..MaxFaults
  /\ \A n \in Names : purge[n].name \in {n, NoName}

\* A copy on a node is on the list that deletes it, in memory and, unless the
\* last write failed, in the file, from before it exists until its node has
\* confirmed that it is gone; through outages, restarts and overlapping purges.
\* The exceptions are the copies in lost.
ListedUntilGone ==
  \A f \in file \ lost :
    /\ f[2] \in gc[f[1]]
    /\ ~dirty => f[2] \in disk[f[1]]

\* Neither the janitor nor a cleanup deletes the state of a handoff that still
\* has to fetch or restore it.
NoPurgeOfLiveState ==
  \A p \in Purgers : purge[p].name # NoName => hand[purge[p].name].at \notin InProgress

\* What is left on the list is retried until it is gone: a state whose handoff
\* is over does not stay listed for ever, whatever died in between.
ListDrains ==
  \A n \in Names : (gc[n] # {} /\ hand[n].at \notin InProgress) ~> gc[n] = {}

=============================================================================
