--------------------------- MODULE KvHandoff_proofs ---------------------------
(***************************************************************************)
(* Proofs about KvHandoff, for any names, nodes, routes and faults: nothing *)
(* deletes the state of a handoff that still needs it, and a copy is on    *)
(* the list from before it exists until its node confirms that it is gone, *)
(* as long as the route of a handoff is not replaced by one that shares    *)
(* its prefill node.                                                       *)
(***************************************************************************)
EXTENDS KvHandoff, FiniteSetTheorems, TLAPS

-----------------------------------------------------------------------------
(* The invariant.                                                          *)

\* The handoff is done with its state files.
Past == {"restored", "over"}

\* Sweeps, purges and writes nobody waits for are about handoffs that are past.
OnlyPast ==
  /\ \A n \in queue : hand[n].at \in Past
  /\ \A n \in old : hand[n].at \in Past
  /\ \A p \in Purgers : purge[p].name # NoName => hand[purge[p].name].at \in Past
  /\ \A f \in landing : hand[f[1]].at \in Past

\* Before its handoff there is nothing of a name anywhere.
NothingYet ==
  \A n \in Names : hand[n].at = "idle" =>
    /\ hand[n] = Before
    /\ gc[n] = {} /\ disk[n] = {}
    /\ \A f \in file : f[1] # n

FreshStart == fresh => \A n \in Names : hand[n].at \notin InProgress

FileIsList == ~dirty => disk = gc

Quiet == OnlyPast /\ NothingYet /\ FreshStart /\ FileIsList

\* The table of routes never grows past its cap, and is never wiped.
Kept == IsFiniteSet(Names) /\ Cardinality(Names) <= RouteCap

\* The handoff of n, tracked with route r, is where r puts it: the list has both
\* ends of r, the files are at its prefill node, and the fetch takes r itself or,
\* after a wipe, the configured pair.
OnRoute(n, r) ==
  /\ gc[n] = Ends(r)
  /\ hand[n].at = "saving" => hand[n].route = r /\ \A f \in file : f[1] # n
  /\ hand[n].at \in {"saved", "fetching"} => \A f \in file : f[1] = n => f[2] = r.pre
  /\ hand[n].at = "saved" =>
       hand[n].route = r /\ (routes[n] = {r} \/ (routes[n] = {} /\ ~Kept))
  /\ hand[n].at = "fetching" =>
       hand[n].route = r \/ (hand[n].route = Default /\ ~Kept)

Tracked ==
  \A n \in Names : hand[n].at \in InProgress => \E r \in Routes : OnRoute(n, r)

Listed == \A f \in file : f \in lost \/ f[2] \in gc[f[1]]

\* What a purge has had confirmed is not there, unless it came later.
Confirmed ==
  \A p \in Purgers, f \in file :
    purge[p].name = f[1] /\ purge[p].ok /\ f[2] \notin purge[p].todo => f \in lost

Copies == Tracked /\ Listed /\ Confirmed

\* The configured pair is the only route from its prefill node, or the table of
\* routes is never wiped.
RoutesApart ==
  \/ Kept
  \/ \A r \in Routes : r.pre = Default.pre => r = Default

-----------------------------------------------------------------------------
(* Shapes of the state changes.                                            *)

\* What GoTo, Finish and HandoffStarts do to the handoffs.
Moves(n, place) ==
  /\ hand' \in [Names -> Hand]
  /\ hand'[n].at = place
  /\ \A m \in Names : m # n => hand'[m] = hand[m]

\* A step that only moves on keeps the route.
LEMMA GoToMoves ==
  ASSUME hand \in [Names -> Hand], NEW n \in Names, NEW place \in Places, GoTo(n, place)
  PROVE  Moves(n, place) /\ hand'[n].route = hand[n].route
  BY DEF GoTo, Moves, Hand

\* The end of a handoff is a move.
LEMMA FinishMoves ==
  ASSUME hand \in [Names -> Hand], NEW n \in Names, Finish(n)
  PROVE  Moves(n, "over")
<1>1. Over \in Hand /\ Over.at = "over"
  BY HandoffAssumption DEF Over, Hand, Places
<1> QED BY <1>1 DEF Finish, Moves

\* track fixes the route.
LEMMA TrackMoves ==
  ASSUME hand \in [Names -> Hand], NEW n \in Names, NEW r \in Routes, Track(n, r)
  PROVE  Moves(n, "saving") /\ hand'[n].route = r
<1>1. [at |-> "saving", route |-> r] \in Hand
  BY HandoffAssumption DEF Hand, Places
<1> QED BY <1>1 DEF Track, Moves

\* The route a handoff finds: the noted one, or the default when it was wiped.
LEMMA RouteOfType ==
  ASSUME TypeOK, NEW n \in Names
  PROVE  /\ RouteOf(n) \in Route
         /\ \A r \in Route : routes[n] = {r} => RouteOf(n) = r
         /\ routes[n] = {} => RouteOf(n) = Default
<1>1. routes[n] \subseteq Route
  BY DEF TypeOK
<1>2. CASE routes[n] = {}
  BY <1>2, HandoffAssumption DEF RouteOf
<1>3. CASE routes[n] # {}
  <2>1. (CHOOSE r \in routes[n] : TRUE) \in routes[n]
    BY <1>3
  <2> QED BY <2>1, <1>1, <1>3 DEF RouteOf
<1> QED BY <1>2, <1>3

\* Handoff goes by that route.
LEMMA HandoffMoves ==
  ASSUME TypeOK, NEW n \in Names, HandoffStarts(n)
  PROVE  Moves(n, "fetching") /\ hand'[n].route = RouteOf(n)
<1>1. RouteOf(n) \in Route
  BY RouteOfType
<1>2. hand \in [Names -> Hand]
  BY DEF TypeOK
<1>3. hand' = [hand EXCEPT ![n].at = "fetching", ![n].route = RouteOf(n)]
  BY DEF HandoffStarts
<1> HIDE DEF RouteOf
<1> QED BY <1>1, <1>2, <1>3 DEF Moves, Hand, Places

\* What Cleanup and SweepNext do to the purges.
Starts(p, n) ==
  /\ purge' \in [Purgers -> Purge]
  /\ purge'[p].name = n /\ purge'[p].todo = CtlsOf(n)
  /\ \A q \in Purgers : q # p => purge'[q] = purge[q]

\* A purge asks every node the list names.
LEMMA CtlsOfType ==
  ASSUME TypeOK, NEW n \in Names
  PROVE  CtlsOf(n) \subseteq Nodes /\ gc[n] \subseteq CtlsOf(n)
  BY HandoffAssumption DEF TypeOK, CtlsOf, Ends, Route

\* The sweep's purge starts with the nodes to ask,
LEMMA PurgeStarts ==
  ASSUME TypeOK, NEW p \in Purgers, NEW n \in Names,
         purge' = [purge EXCEPT ![p] = [name |-> n, todo |-> CtlsOf(n), ok |-> TRUE]]
  PROVE  Starts(p, n)
<1>1. [name |-> n, todo |-> CtlsOf(n), ok |-> TRUE] \in Purge
  BY CtlsOfType DEF Purge
<1> QED BY <1>1 DEF Starts, TypeOK

\* and so does a handoff's own.
LEMMA CleanupStarts ==
  ASSUME TypeOK, NEW n \in Names, Cleanup(n)
  PROVE  Starts(n, n)
<1>1. n \in Purgers
  BY DEF Purgers
<1> QED BY <1>1, PurgeStarts DEF Cleanup

\* What Delete does to the purges.
Asked(p, c) ==
  /\ purge' \in [Purgers -> Purge]
  /\ purge'[p].name = purge[p].name
  /\ purge'[p].todo = purge[p].todo \ {c}
  /\ purge'[p].ok => purge[p].ok /\ file' = file \ {<<purge[p].name, c>>}
  /\ \A q \in Purgers : q # p => purge'[q] = purge[q]

\* Every delete asks one node.
LEMMA DeleteAsks ==
  ASSUME TypeOK, NEW p \in Purgers, NEW c \in Nodes, Delete(p, c)
  PROVE  Asked(p, c)
<1>1. purge \in [Purgers -> Purge]
  BY DEF TypeOK
<1>2. CASE /\ file' = file \ {<<purge[p].name, c>>}
           /\ purge' = [purge EXCEPT ![p].todo = @ \ {c}]
  BY <1>1, <1>2 DEF Asked, Purge
<1>3. CASE purge' = [purge EXCEPT ![p].todo = @ \ {c}, ![p].ok = FALSE]
  BY <1>1, <1>3 DEF Asked, Purge
<1> QED BY <1>2, <1>3 DEF Delete

\* A purge that ends leaves the others alone.
LEMMA PurgeEndsLeaves ==
  ASSUME TypeOK, NEW p \in Purgers, PurgeEnds(p)
  PROVE  /\ purge' \in [Purgers -> Purge]
         /\ purge'[p].name = NoName
         /\ \A q \in Purgers : q # p => purge'[q] = purge[q]
<1>1. NotPurging \in Purge /\ NotPurging.name = NoName
  BY DEF NotPurging, Purge
<1> QED BY <1>1 DEF PurgeEnds, TypeOK

\* saveGC writes the list or leaves the file as it was.
LEMMA SaveGCTypes ==
  ASSUME TypeOK, gc' \in [Names -> SUBSET Nodes], SaveGC
  PROVE  /\ disk' \in [Names -> SUBSET Nodes]
         /\ dirty' \in BOOLEAN
         /\ faults' \in 0..MaxFaults
         /\ ~dirty' => disk' = gc'
         /\ disk' = gc' \/ disk' = disk
<1>1. faults < MaxFaults => faults + 1 \in 0..MaxFaults
  BY HandoffAssumption DEF TypeOK
<1> QED BY <1>1 DEF SaveGC, TypeOK

\* A restart ends every handoff and every purge.
LEMMA RestartShape ==
  ASSUME TypeOK, Restart
  PROVE  /\ hand' \in [Names -> Hand]
         /\ purge' \in [Purgers -> Purge]
         /\ \A p \in Purgers : purge'[p].name = NoName
         /\ \A n \in Names : \/ hand[n] = Before /\ hand'[n] = Before
                             \/ hand[n] # Before /\ hand'[n].at = "over"
<1>1. Over \in Hand /\ Over.at = "over" /\ Before \in Hand
  BY HandoffAssumption DEF Over, Before, Hand, Places
<1>2. NotPurging \in Purge /\ NotPurging.name = NoName
  BY DEF NotPurging, Purge
<1>3. hand' = [n \in Names |-> IF hand[n] = Before THEN Before ELSE Over]
  BY DEF Restart
<1>4. purge' = [p \in Purgers |-> NotPurging]
  BY DEF Restart
<1> HIDE DEF Over, Before, NotPurging
<1> QED BY <1>1, <1>2, <1>3, <1>4

-----------------------------------------------------------------------------
(* Types.                                                                  *)

\* The types at the start,
LEMMA InitType == Init => TypeOK
<1> SUFFICES ASSUME Init PROVE TypeOK
  OBVIOUS
<1>1. Before \in Hand
  BY HandoffAssumption DEF Before, Hand, Places
<1>2. NotPurging \in Purge /\ NotPurging.name = NoName
  BY DEF NotPurging, Purge
<1>3. \A n \in Names : n \in Purgers
  BY DEF Purgers
<1>4. faults \in 0..MaxFaults
  BY HandoffAssumption DEF Init
<1> QED BY <1>1, <1>2, <1>3, <1>4 DEF Init, TypeOK

\* through the steps of a handoff,
LEMMA DriveType ==
  ASSUME TypeOK, NEW n \in Names, Drive(n)
  PROVE  TypeOK'
<1> USE DEF TypeOK
<1>h. hand[n] \in Hand /\ hand[n].route \in Route /\ hand[n].route.pre \in Nodes
      /\ hand[n].route.dec \in Nodes
  BY DEF Hand, Route
<1>p. \A m \in Names : m \in Purgers
  BY DEF Purgers
<1>1. ASSUME NEW r \in Routes, Track(n, r) PROVE TypeOK'
  <2>1. hand' \in [Names -> Hand]
    BY <1>1, TrackMoves DEF Moves
  <2>2. gc' \in [Names -> SUBSET Nodes]
    BY <1>1, HandoffAssumption DEF Track, Ends, Route
  <2>3. /\ disk' \in [Names -> SUBSET Nodes] /\ dirty' \in BOOLEAN
        /\ faults' \in 0..MaxFaults
    BY <1>1, <2>2, SaveGCTypes DEF Track
  <2> QED BY <1>1, <2>1, <2>2, <2>3 DEF Track
<1>2. CASE SaveOk(n)
  <2>1. hand' \in [Names -> Hand]
    BY <1>2, GoToMoves DEF Moves, SaveOk, Places
  <2>2. file' \subseteq Names \X Nodes
    BY <1>2, <1>h DEF SaveOk
  <2>3. routes' \in [Names -> SUBSET Route] /\ \A m \in Names : \A r, s \in routes'[m] : r = s
    <3>1. routes' = [m \in Names |-> IF m = n THEN {hand[n].route}
                       ELSE IF Cardinality(Remembered) > RouteCap THEN {} ELSE routes[m]]
      BY <1>2 DEF SaveOk, NoteRoute
    <3> QED BY <3>1, <1>h
  <2> QED BY <1>2, <2>1, <2>2, <2>3 DEF SaveOk
<1>3. CASE SaveFails(n)
  <2>1. hand' \in [Names -> Hand]
    BY <1>3, FinishMoves DEF Moves, SaveFails
  <2>2. file' \subseteq Names \X Nodes /\ landing' \subseteq Names \X Nodes
    BY <1>3, <1>h DEF SaveFails
  <2>3. purge' \in [Purgers -> Purge] /\ \A m \in Names : purge'[m].name \in {m, NoName}
    BY <1>3, <1>p, CleanupStarts DEF SaveFails, Starts
  <2> QED BY <1>3, <2>1, <2>2, <2>3 DEF SaveFails
<1>4. CASE HandoffStarts(n)
  <2>1. hand' \in [Names -> Hand]
    BY <1>4, HandoffMoves DEF Moves
  <2> QED BY <1>4, <2>1 DEF HandoffStarts
<1>5. CASE FetchOk(n)
  <2>1. hand' \in [Names -> Hand]
    BY <1>5, GoToMoves DEF Moves, FetchOk, Places
  <2>2. file' \subseteq Names \X Nodes
    BY <1>5, <1>h DEF FetchOk
  <2> QED BY <1>5, <2>1, <2>2 DEF FetchOk
<1>6. CASE FetchFails(n)
  <2>1. hand' \in [Names -> Hand]
    BY <1>6, FinishMoves DEF Moves, FetchFails
  <2>2. landing' \subseteq Names \X Nodes
    BY <1>6, <1>h DEF FetchFails
  <2>3. purge' \in [Purgers -> Purge] /\ \A m \in Names : purge'[m].name \in {m, NoName}
    BY <1>6, <1>p, CleanupStarts DEF FetchFails, Starts
  <2> QED BY <1>6, <2>1, <2>2, <2>3 DEF FetchFails
<1>7. CASE Restore(n)
  <2>1. hand' \in [Names -> Hand]
    BY <1>7, FinishMoves, GoToMoves DEF Moves, Restore, Places
  <2>2. purge' \in [Purgers -> Purge] /\ \A m \in Names : purge'[m].name \in {m, NoName}
    BY <1>7, <1>p, CleanupStarts DEF Restore, Starts
  <2> QED BY <1>7, <2>1, <2>2 DEF Restore
<1>8. CASE Serve(n)
  <2>1. hand' \in [Names -> Hand]
    BY <1>8, FinishMoves DEF Moves, Serve
  <2> QED BY <1>8, <2>1 DEF Serve
<1> QED BY <1>1, <1>2, <1>3, <1>4, <1>5, <1>6, <1>7, <1>8 DEF Drive

\* of a purge,
LEMMA PurgeType ==
  ASSUME TypeOK, NEW p \in Purgers, Purging(p)
  PROVE  TypeOK'
<1> USE DEF TypeOK
<1>p. \A m \in Names : m \in Purgers
  BY DEF Purgers
<1>1. CASE PurgeEnds(p)
  <2>1. purge' \in [Purgers -> Purge] /\ \A m \in Names : purge'[m].name \in {m, NoName}
    BY <1>1, <1>p, PurgeEndsLeaves
  <2>2. gc' \in [Names -> SUBSET Nodes]
    BY <1>1 DEF PurgeEnds
  <2>3. /\ disk' \in [Names -> SUBSET Nodes] /\ dirty' \in BOOLEAN
        /\ faults' \in 0..MaxFaults
    BY <1>1, <2>2, SaveGCTypes DEF PurgeEnds
  <2>4. old' \subseteq Names
    BY <1>1 DEF PurgeEnds
  <2> QED BY <1>1, <2>1, <2>2, <2>3, <2>4 DEF PurgeEnds
<1>2. ASSUME NEW c \in Nodes, Delete(p, c) PROVE TypeOK'
  <2>1. purge' \in [Purgers -> Purge] /\ \A m \in Names : purge'[m].name \in {m, NoName}
    BY <1>2, <1>p, DeleteAsks DEF Asked
  <2>2. file' \subseteq Names \X Nodes
    BY <1>2 DEF Delete
  <2> QED BY <1>2, <2>1, <2>2 DEF Delete
<1> QED BY <1>1, <1>2 DEF Purging

\* of the sweep,
LEMMA SweepType ==
  ASSUME TypeOK, Sweep
  PROVE  TypeOK'
<1> USE DEF TypeOK
<1>p. Janitor \in Purgers /\ \A m \in Names : m \in Purgers /\ m # Janitor
  BY HandoffAssumption DEF Purgers
<1>1. CASE SweepStarts
  BY <1>1 DEF SweepStarts
<1>2. ASSUME NEW n \in Names, SweepNext(n) PROVE TypeOK'
  <2>1. purge' \in [Purgers -> Purge] /\ \A m \in Names : purge'[m].name \in {m, NoName}
    BY <1>2, <1>p, PurgeStarts DEF SweepNext, Starts
  <2> QED BY <1>2, <2>1 DEF SweepNext
<1> QED BY <1>1, <1>2 DEF Sweep

\* (only a handoff in progress is writing)
LEMMA WritingType ==
  ASSUME TypeOK
  PROVE  \A f \in Writing : f \in Names \X Nodes /\ hand[f[1]].at \in InProgress
<1>1. \A n \in Names : hand[n].route.pre \in Nodes /\ hand[n].route.dec \in Nodes
  BY DEF TypeOK, Hand, Route
<1>2. TAKE f \in Writing
<1>3. CASE \E n \in Names : hand[n].at = "saving" /\ f = <<n, hand[n].route.pre>>
  BY <1>1, <1>3 DEF InProgress
<1>4. CASE \E n \in Names : hand[n].at = "fetching" /\ f = <<n, hand[n].route.dec>>
  BY <1>1, <1>4 DEF InProgress
<1>5. \/ f \in {<<n, hand[n].route.pre>> : n \in {m \in Names : hand[m].at = "saving"}}
      \/ f \in {<<n, hand[n].route.dec>> : n \in {m \in Names :
                   hand[m].at = "fetching" /\ <<m, hand[m].route.pre>> \in file}}
  BY <1>2 DEF Writing
<1> QED BY <1>3, <1>4, <1>5

\* of everything else.
LEMMA WorldType ==
  ASSUME TypeOK, World
  PROVE  TypeOK'
<1> USE DEF TypeOK
<1>f. faults < MaxFaults => faults + 1 \in 0..MaxFaults
  BY HandoffAssumption
<1>1. ASSUME NEW n \in Names, Ages(n) PROVE TypeOK'
  BY <1>1 DEF Ages
<1>2. ASSUME NEW f \in Names \X Nodes, Lands(f) PROVE TypeOK'
  BY <1>2 DEF Lands
<1>3. ASSUME NEW c \in Nodes, NodeDown(c) \/ NodeUp(c) PROVE TypeOK'
  BY <1>3, <1>f DEF NodeDown, NodeUp
<1>4. CASE Restart
  <2>1. /\ hand' \in [Names -> Hand] /\ purge' \in [Purgers -> Purge]
        /\ \A m \in Names : purge'[m].name \in {m, NoName}
    BY <1>4, RestartShape DEF Purgers
  <2>2. landing' \subseteq Names \X Nodes
    <3>1. PICK L \in IF LateLandings THEN SUBSET Writing ELSE {{}} : landing' = landing \cup L
      BY <1>4 DEF Restart
    <3>2. L \subseteq Writing
      BY <3>1
    <3> QED BY <3>1, <3>2, WritingType
  <2>3. lost' \subseteq Names \X Nodes
    BY <1>4 DEF Restart
  <2> QED BY <1>4, <1>f, <2>1, <2>2, <2>3 DEF Restart
<1> QED BY <1>1, <1>2, <1>3, <1>4 DEF World

\* So the types hold.
LEMMA NextType == TypeOK /\ [Next]_vars => TypeOK'
<1> SUFFICES ASSUME TypeOK, [Next]_vars PROVE TypeOK'
  OBVIOUS
<1>1. CASE UNCHANGED vars
  BY <1>1 DEF TypeOK, vars
<1>2. CASE Next
  BY <1>2, DriveType, PurgeType, SweepType, WorldType DEF Next
<1> QED BY <1>1, <1>2

-----------------------------------------------------------------------------
(* Nothing is purged that is still needed.                                 *)

\* What every step of a handoff has in common.
Driven(n, place) ==
  /\ Moves(n, place)
  /\ place \in Places /\ place # "idle"
  /\ hand[n].at \in Past => place \in Past
  /\ place \in InProgress => ~fresh \/ hand[n].at \in InProgress
  /\ purge' = purge \/ (Starts(n, n) /\ place \in Past)
  /\ \A f \in landing' : f \in landing \/ (f[1] = n /\ place \in Past)
  /\ \A f \in file' : f \in file \/ f[1] = n
  /\ \A m \in Names : m # n => gc'[m] = gc[m] /\ disk'[m] \in {disk[m], gc[m]}
  /\ ~dirty' => disk' = gc'
  /\ UNCHANGED <<queue, fresh, old>>

\* Every step of a handoff is one of the moves Driven describes.
LEMMA DriveIsDriven ==
  ASSUME TypeOK, FileIsList, NEW n \in Names, Drive(n)
  PROVE  \E place \in Places : Driven(n, place)
<1>t. hand \in [Names -> Hand] /\ gc \in [Names -> SUBSET Nodes]
  BY DEF TypeOK
<1>f. ~dirty => disk = gc
  BY DEF FileIsList
<1> USE DEF Places, InProgress, Past
<1>1. ASSUME NEW r \in Routes, Track(n, r) PROVE Driven(n, "saving")
  <2>1. Moves(n, "saving")
    BY <1>1, <1>t, TrackMoves
  <2>2. gc' \in [Names -> SUBSET Nodes] /\ \A m \in Names : m # n => gc'[m] = gc[m]
    BY <1>1, <1>t, HandoffAssumption DEF Track, Ends, Route
  <2>3. /\ ~dirty' => disk' = gc'
        /\ disk' = gc' \/ disk' = disk
    BY <1>1, <2>2, SaveGCTypes DEF Track
  <2> QED BY <1>1, <2>1, <2>2, <2>3 DEF Track, Driven
<1>2. ASSUME SaveOk(n) PROVE Driven(n, "saved")
  <2>1. Moves(n, "saved")
    BY <1>2, <1>t, GoToMoves DEF SaveOk
  <2> QED BY <1>2, <1>f, <2>1 DEF SaveOk, Driven
<1>3. ASSUME SaveFails(n) PROVE Driven(n, "over")
  <2>1. Moves(n, "over") /\ Starts(n, n)
    BY <1>3, <1>t, FinishMoves, CleanupStarts DEF SaveFails
  <2> QED BY <1>3, <1>f, <2>1 DEF SaveFails, Driven
<1>4. ASSUME HandoffStarts(n) PROVE Driven(n, "fetching")
  <2>1. Moves(n, "fetching")
    BY <1>4, HandoffMoves
  <2> QED BY <1>4, <1>f, <2>1 DEF HandoffStarts, Driven
<1>5. ASSUME FetchOk(n) PROVE Driven(n, "fetched")
  <2>1. Moves(n, "fetched")
    BY <1>5, <1>t, GoToMoves DEF FetchOk
  <2> QED BY <1>5, <1>f, <2>1 DEF FetchOk, Driven
<1>6. ASSUME FetchFails(n) PROVE Driven(n, "over")
  <2>1. Moves(n, "over") /\ Starts(n, n)
    BY <1>6, <1>t, FinishMoves, CleanupStarts DEF FetchFails
  <2> QED BY <1>6, <1>f, <2>1 DEF FetchFails, Driven
<1>7. ASSUME Restore(n) PROVE Driven(n, "over") \/ Driven(n, "restored")
  <2>1. (Moves(n, "over") \/ Moves(n, "restored")) /\ Starts(n, n)
    BY <1>7, <1>t, FinishMoves, GoToMoves, CleanupStarts DEF Restore
  <2> QED BY <1>7, <1>f, <2>1 DEF Restore, Driven
<1>8. ASSUME Serve(n) PROVE Driven(n, "over")
  <2>1. Moves(n, "over")
    BY <1>8, <1>t, FinishMoves DEF Serve
  <2> QED BY <1>8, <1>f, <2>1 DEF Serve, Driven
<1> HIDE DEF Past, InProgress
<1> QED BY <1>1, <1>2, <1>3, <1>4, <1>5, <1>6, <1>7, <1>8 DEF Drive

\* No purge of a live state: through the steps of a handoff,
LEMMA DriveQuiet ==
  ASSUME TypeOK, Quiet, NEW n \in Names, Drive(n)
  PROVE  Quiet'
<1>1. PICK place \in Places : Driven(n, place)
  BY DriveIsDriven DEF Quiet
<1>2. \A m \in Names : hand[m].at \in Past => hand'[m].at \in Past
  BY <1>1 DEF Driven, Moves
<1>3. hand'[n].at = place /\ place # "idle" /\ \A m \in Names : m # n => hand'[m] = hand[m]
  BY <1>1 DEF Driven, Moves
<1>t. /\ queue \subseteq Names /\ old \subseteq Names
      /\ landing \subseteq Names \X Nodes /\ purge \in [Purgers -> Purge]
  BY DEF TypeOK
<1>4. OnlyPast'
  <2>1. \A m \in queue' : hand'[m].at \in Past
    BY <1>1, <1>2, <1>t DEF Driven, Quiet, OnlyPast
  <2>2. \A m \in old' : hand'[m].at \in Past
    BY <1>1, <1>2, <1>t DEF Driven, Quiet, OnlyPast
  <2>3. \A f \in landing' : hand'[f[1]].at \in Past
    <3>1. ASSUME NEW f \in landing PROVE hand'[f[1]].at \in Past
      <4>1. f[1] \in Names /\ hand[f[1]].at \in Past
        BY <1>t, <3>1 DEF Quiet, OnlyPast
      <4> QED BY <4>1, <1>2
    <3> QED BY <1>1, <1>3, <3>1 DEF Driven
  <2>4. ASSUME NEW p \in Purgers, purge'[p].name # NoName
        PROVE  hand'[purge'[p].name].at \in Past
    <3>1. CASE purge'[p] = purge[p]
      <4>1. purge[p].name \in Names /\ hand[purge[p].name].at \in Past
        BY <1>t, <2>4, <3>1 DEF Quiet, OnlyPast, Purge
      <4> QED BY <4>1, <3>1, <1>2
    <3>2. CASE Starts(n, n) /\ place \in Past /\ p = n
      BY <3>2, <1>3 DEF Starts
    <3> QED BY <1>1, <3>1, <3>2 DEF Driven, Starts
  <2> QED BY <2>1, <2>2, <2>3, <2>4 DEF OnlyPast
<1>5. NothingYet'
  <2>1. SUFFICES ASSUME NEW m \in Names, hand'[m].at = "idle"
                 PROVE  /\ hand'[m] = Before
                        /\ gc'[m] = {} /\ disk'[m] = {}
                        /\ \A f \in file' : f[1] # m
    BY DEF NothingYet
  <2>2. m # n /\ hand'[m] = hand[m]
    BY <2>1, <1>3
  <2>3. hand[m] = Before /\ gc[m] = {} /\ disk[m] = {} /\ \A f \in file : f[1] # m
    BY <2>1, <2>2 DEF Quiet, NothingYet
  <2> QED BY <2>2, <2>3, <1>1 DEF Driven
<1>6. FreshStart'
  BY <1>1, <1>3 DEF Driven, Quiet, FreshStart
<1>7. FileIsList'
  BY <1>1 DEF Driven, FileIsList
<1> QED BY <1>4, <1>5, <1>6, <1>7 DEF Quiet

\* of a purge,
LEMMA PurgeQuiet ==
  ASSUME TypeOK, Quiet, NEW p \in Purgers, Purging(p)
  PROVE  Quiet'
<1>1. /\ \A q \in Purgers : purge'[q].name \in {purge[q].name, NoName}
      /\ UNCHANGED <<hand, queue, fresh, landing>>
      /\ old' \subseteq old
      /\ \A f \in file' : f \in file
      /\ \A n \in Names : gc[n] = {} => gc'[n] = {} /\ disk'[n] \in {disk[n], {}}
      /\ ~dirty' => disk' = gc'
  <2>1. CASE PurgeEnds(p)
    <3>1. \A q \in Purgers : purge'[q].name \in {purge[q].name, NoName}
      BY <2>1, PurgeEndsLeaves
    <3>2. gc' \in [Names -> SUBSET Nodes] /\ \A n \in Names : gc[n] = {} => gc'[n] = {}
      BY <2>1 DEF PurgeEnds, TypeOK
    <3>3. (~dirty' => disk' = gc') /\ (disk' = gc' \/ disk' = disk)
      BY <2>1, <3>2, SaveGCTypes DEF PurgeEnds, Quiet, FileIsList
    <3> QED BY <2>1, <3>1, <3>2, <3>3 DEF PurgeEnds
  <2>2. ASSUME NEW c \in Nodes, Delete(p, c)
        PROVE  /\ \A q \in Purgers : purge'[q].name \in {purge[q].name, NoName}
               /\ UNCHANGED <<hand, queue, fresh, landing, old, gc, disk, dirty>>
               /\ \A f \in file' : f \in file
    BY <2>2, DeleteAsks DEF Asked, Delete
  <2> QED BY <2>1, <2>2 DEF Purging, Quiet, FileIsList
<1> QED BY <1>1 DEF Quiet, OnlyPast, NothingYet, FreshStart, FileIsList

\* of the sweep,
LEMMA SweepQuiet ==
  ASSUME TypeOK, Quiet, Sweep
  PROVE  Quiet'
<1>1. CASE SweepStarts
  <2>1. \A n \in queue' : hand[n].at \in Past
    <3>1. SUFFICES ASSUME NEW n \in queue' PROVE hand[n].at \in Past
      OBVIOUS
    <3>2. n \in Names /\ gc[n] # {} /\ (fresh \/ n \in old)
      BY <1>1, <3>1 DEF SweepStarts
    <3>3. hand[n].at \in Places
      BY <3>2 DEF TypeOK, Hand
    <3> QED BY <3>2, <3>3 DEF Quiet, FreshStart, NothingYet, OnlyPast, Past, Places, InProgress
  <2> QED BY <1>1, <2>1 DEF SweepStarts, Quiet, OnlyPast, NothingYet, FreshStart, FileIsList
<1>2. ASSUME NEW n \in Names, SweepNext(n) PROVE Quiet'
  <2>1. Starts(Janitor, n)
    BY <1>2, PurgeStarts DEF SweepNext, Purgers
  <2>2. hand[n].at \in Past
    BY <1>2 DEF SweepNext, Quiet, OnlyPast
  <2>3. OnlyPast'
    BY <1>2, <2>1, <2>2 DEF SweepNext, Starts, Quiet, OnlyPast
  <2> QED BY <1>2, <2>3 DEF SweepNext, Quiet, NothingYet, FreshStart, FileIsList
<1> QED BY <1>1, <1>2 DEF Sweep

\* of everything else.
LEMMA WorldQuiet ==
  ASSUME TypeOK, Quiet, World
  PROVE  Quiet'
<1>1. ASSUME NEW n \in Names, Ages(n) PROVE Quiet'
  <2>1. hand[n].at \in Places /\ hand[n].at # "idle" /\ hand[n].at \notin InProgress
    BY <1>1 DEF Ages, TypeOK, Hand, Quiet, NothingYet
  <2>2. hand[n].at \in Past
    BY <2>1 DEF Places, InProgress, Past
  <2> QED BY <1>1, <2>2 DEF Ages, Quiet, OnlyPast, NothingYet, FreshStart, FileIsList
<1>2. ASSUME NEW f \in Names \X Nodes, Lands(f) PROVE Quiet'
  <2>1. hand[f[1]].at \in Past
    BY <1>2 DEF Lands, Quiet, OnlyPast
  <2>2. NothingYet'
    BY <1>2, <2>1 DEF Lands, Quiet, NothingYet, Past
  <2> QED BY <1>2, <2>2 DEF Lands, Quiet, OnlyPast, FreshStart, FileIsList
<1>3. ASSUME NEW c \in Nodes, NodeDown(c) \/ NodeUp(c) PROVE Quiet'
  BY <1>3 DEF NodeDown, NodeUp, Quiet, OnlyPast, NothingYet, FreshStart, FileIsList
<1>4. CASE Restart
  <2>1. \A n \in Names : \/ hand[n] = Before /\ hand'[n] = Before
                         \/ hand[n] # Before /\ hand'[n].at = "over"
    BY <1>4, RestartShape
  <2>2. Before.at = "idle"
    BY DEF Before
  <2>3. \A n \in Names : hand[n].at # "idle" => hand'[n].at \in Past
    BY <2>1, <2>2 DEF Past
  <2>4. OnlyPast'
    <3>1. queue' = {} /\ \A p \in Purgers : purge'[p].name = NoName
      BY <1>4, RestartShape DEF Restart
    <3>2. \A n \in old' : hand'[n].at \in Past
      BY <1>4, <2>3 DEF Restart, Quiet, OnlyPast, Past, TypeOK
    <3>3. \A f \in landing' : hand'[f[1]].at \in Past
      <4>1. PICK L \in IF LateLandings THEN SUBSET Writing ELSE {{}} : landing' = landing \cup L
        BY <1>4 DEF Restart
      <4>2. ASSUME NEW f \in landing' PROVE f[1] \in Names /\ hand[f[1]].at # "idle"
        <5>1. CASE f \in landing
          BY <5>1 DEF TypeOK, Quiet, OnlyPast, Past
        <5>2. CASE f \in Writing
          BY <5>2, WritingType DEF InProgress
        <5> QED BY <4>1, <4>2, <5>1, <5>2
      <4> QED BY <4>2, <2>3
    <3> QED BY <3>1, <3>2, <3>3 DEF OnlyPast
  <2>5. NothingYet'
    BY <1>4, <2>1, <2>2 DEF Restart, Quiet, NothingYet
  <2>6. FreshStart'
    BY <2>1, <2>2 DEF FreshStart, InProgress
  <2>7. FileIsList'
    BY <1>4 DEF Restart, FileIsList
  <2> QED BY <2>4, <2>5, <2>6, <2>7 DEF Quiet
<1> QED BY <1>1, <1>2, <1>3, <1>4 DEF World

\* The invariant of the handoffs and the janitor holds in every behaviour.
THEOREM HandoffQuiet == Spec => [](TypeOK /\ Quiet)
<1>1. Init => TypeOK /\ Quiet
  <2> SUFFICES ASSUME Init PROVE Quiet
    BY InitType
  <2>1. \A p \in Purgers : purge[p].name = NoName
    BY DEF Init, NotPurging
  <2>2. \A n \in Names : hand[n] = Before /\ hand[n].at = "idle"
    BY DEF Init, Before
  <2>3. NothingYet
    BY <2>2 DEF Init, NothingYet
  <2> QED BY <2>1, <2>2, <2>3 DEF Init, Quiet, OnlyPast, FreshStart, FileIsList, InProgress
<1>2. TypeOK /\ Quiet /\ [Next]_vars => (TypeOK /\ Quiet)'
  <2> SUFFICES ASSUME TypeOK, Quiet, [Next]_vars PROVE Quiet'
    BY NextType
  <2>1. CASE UNCHANGED vars
    BY <2>1 DEF vars, Quiet, OnlyPast, NothingYet, FreshStart, FileIsList
  <2>2. CASE Next
    BY <2>2, DriveQuiet, PurgeQuiet, SweepQuiet, WorldQuiet DEF Next
  <2> QED BY <2>1, <2>2
<1> QED BY <1>1, <1>2, PTL DEF Spec

\* Neither the janitor nor a cleanup ever deletes the state of a handoff that has
\* still to fetch or restore it, whatever names, nodes, routes, cap and faults.
THEOREM HandoffSparesLive == Spec => []NoPurgeOfLiveState
<1>1. Quiet => NoPurgeOfLiveState
  BY DEF Quiet, OnlyPast, NoPurgeOfLiveState, Past, InProgress
<1> QED BY <1>1, HandoffQuiet, PTL

-----------------------------------------------------------------------------
(* Every copy is on the list.                                              *)

\* A handoff that a step leaves alone stays on its route.
LEMMA OnRouteFrame ==
  ASSUME NEW m \in Names, NEW r \in Routes, OnRoute(m, r),
         gc'[m] = gc[m], hand'[m] = hand[m],
         \A f \in file' : f[1] = m => f \in file,
         routes'[m] = routes[m] \/ (routes'[m] = {} /\ ~Kept)
  PROVE  OnRoute(m, r)'
  BY DEF OnRoute, Kept

\* A handoff nobody touches stays on its route.
LEMMA TrackedFrame ==
  ASSUME Tracked, NEW m \in Names, hand'[m].at \in InProgress,
         gc'[m] = gc[m], hand'[m] = hand[m],
         \A f \in file' : f[1] = m => f \in file,
         routes'[m] = routes[m] \/ (routes'[m] = {} /\ ~Kept)
  PROVE  \E r \in Routes : OnRoute(m, r)'
<1>1. PICK r \in Routes : OnRoute(m, r)
  BY DEF Tracked
<1>2. OnRoute(m, r)'
  BY <1>1, OnRouteFrame
<1> QED BY <1>2

\* A cleanup or a sweep starts with everything that may be there to delete.
LEMMA StartsConfirmed ==
  ASSUME TypeOK, Confirmed, Listed', NEW p \in Purgers, NEW n \in Names, Starts(p, n),
         gc' = gc, lost' = lost,
         \A q \in Purgers, f \in file' :
           q # p => f \in file \/ purge[q].name # f[1]
  PROVE  Confirmed'
<1>1. SUFFICES ASSUME NEW q \in Purgers, NEW f \in file',
                      purge'[q].name = f[1], purge'[q].ok, f[2] \notin purge'[q].todo
               PROVE  f \in lost'
  BY DEF Confirmed
<1>2. CASE q = p
  <2>1. f[1] = n /\ f[2] \notin CtlsOf(n)
    BY <1>1, <1>2 DEF Starts
  <2>2. f[2] \notin gc[n]
    BY <2>1, CtlsOfType
  <2> QED BY <2>1, <2>2 DEF Listed
<1>3. CASE q # p
  BY <1>1, <1>3 DEF Starts, Confirmed
<1> QED BY <1>2, <1>3

\* No purge is about a handoff that is in progress.
LEMMA NoPurgeInProgress ==
  ASSUME Quiet, NEW n \in Names, hand[n].at \in InProgress
  PROVE  \A q \in Purgers : purge[q].name # n
  BY HandoffAssumption DEF Quiet, OnlyPast, Past, InProgress

\* track lists a state before it exists,
LEMMA TrackCopies ==
  ASSUME TypeOK, Quiet, Copies, NEW n \in Names, NEW r \in Routes, Track(n, r)
  PROVE  Copies'
<1>1. Moves(n, "saving") /\ hand'[n].route = r
  BY TrackMoves DEF TypeOK
<1>2. \A f \in file : f[1] # n
  BY DEF Track, Quiet, NothingYet
<1>3. UNCHANGED <<file, purge, lost, routes>>
  BY DEF Track
<1>4. gc'[n] = Ends(r) /\ \A m \in Names : m # n => gc'[m] = gc[m]
  BY DEF Track, TypeOK
<1>5. Tracked'
  <2>1. SUFFICES ASSUME NEW m \in Names, hand'[m].at \in InProgress
                 PROVE  \E s \in Routes : OnRoute(m, s)'
    BY DEF Tracked
  <2>2. CASE m = n
    <3>1. OnRoute(n, r)'
      BY <1>1, <1>2, <1>3, <1>4 DEF OnRoute, Moves
    <3> QED BY <3>1, <2>2
  <2>3. CASE m # n
    BY <1>1, <1>3, <1>4, <2>1, <2>3, TrackedFrame DEF Copies, Moves
  <2> QED BY <2>2, <2>3
<1>6. Listed'
  BY <1>2, <1>3, <1>4 DEF Copies, Listed, TypeOK
<1>7. Confirmed'
  BY <1>3 DEF Copies, Confirmed
<1> QED BY <1>5, <1>6, <1>7 DEF Copies

\* the save writes it where it is listed,
LEMMA SaveOkCopies ==
  ASSUME TypeOK, Quiet, Copies, NEW n \in Names, SaveOk(n)
  PROVE  Copies'
<1>1. Moves(n, "saved") /\ hand'[n].route = hand[n].route
  BY GoToMoves DEF SaveOk, TypeOK, Places
<1>2. hand[n].at = "saving" /\ hand[n].at \in InProgress
  BY DEF SaveOk, InProgress
<1>3. PICK r \in Routes : OnRoute(n, r)
  BY <1>2 DEF Copies, Tracked
<1>4. hand[n].route = r /\ gc[n] = Ends(r) /\ \A f \in file : f[1] # n
  BY <1>2, <1>3 DEF OnRoute
<1>5. UNCHANGED <<gc, purge, lost>> /\ file' = file \cup {<<n, r.pre>>}
  BY <1>4 DEF SaveOk
<1>6. routes' = [m \in Names |-> IF m = n THEN {r}
                   ELSE IF Cardinality(Remembered) > RouteCap THEN {} ELSE routes[m]]
  BY <1>4 DEF SaveOk, NoteRoute
<1>7. Kept => ~(Cardinality(Remembered) > RouteCap)
  <2> SUFFICES ASSUME Kept PROVE ~(Cardinality(Remembered) > RouteCap)
    OBVIOUS
  <2>1. Remembered \subseteq Names
    BY DEF Remembered
  <2>2. /\ Cardinality(Remembered) <= Cardinality(Names)
        /\ Cardinality(Remembered) \in Nat /\ Cardinality(Names) \in Nat
    BY <2>1, FS_Subset, FS_CardinalityType DEF Kept
  <2> QED BY <2>2, HandoffAssumption DEF Kept
<1>8. Tracked'
  <2>1. SUFFICES ASSUME NEW m \in Names, hand'[m].at \in InProgress
                 PROVE  \E s \in Routes : OnRoute(m, s)'
    BY DEF Tracked
  <2>2. CASE m = n
    <3>1. routes'[n] = {r}
      BY <1>6
    <3>2. \A f \in file' : f[1] = n => f[2] = r.pre
      BY <1>4, <1>5
    <3>3. OnRoute(n, r)'
      BY <1>1, <1>4, <1>5, <3>1, <3>2 DEF OnRoute, Moves
    <3> QED BY <3>3, <2>2
  <2>3. CASE m # n
    <3>1. routes'[m] = routes[m] \/ (routes'[m] = {} /\ ~Kept)
      BY <1>6, <1>7, <2>3
    <3> QED BY <1>1, <1>5, <2>1, <2>3, <3>1, TrackedFrame DEF Copies, Moves
  <2> QED BY <2>2, <2>3
<1>9. Listed'
  BY <1>4, <1>5 DEF Copies, Listed, Ends
<1>10. Confirmed'
  BY <1>2, <1>5, NoPurgeInProgress DEF Copies, Confirmed
<1> QED BY <1>8, <1>9, <1>10 DEF Copies

\* A handoff in progress ends, with its cleanup; its copies, a last one included,
\* are at the ends of its route.
LEMMA EndCopies ==
  ASSUME TypeOK, Quiet, Copies, NEW n \in Names, NEW place \in Past,
         hand[n].at \in InProgress, Moves(n, place), Cleanup(n),
         \A f \in file' : f \in file \/ (f[1] = n /\ f[2] \in gc[n]),
         UNCHANGED <<routes, gc, lost>>
  PROVE  Copies'
<1>1. Starts(n, n) /\ n \in Purgers
  BY CleanupStarts DEF Purgers
<1>2. \A q \in Purgers : purge[q].name # n
  BY NoPurgeInProgress
<1>3. Tracked'
  <2>1. SUFFICES ASSUME NEW m \in Names, hand'[m].at \in InProgress
                 PROVE  \E s \in Routes : OnRoute(m, s)'
    BY DEF Tracked
  <2>2. m # n
    BY <2>1 DEF Moves, Past, InProgress
  <2> QED BY <2>1, <2>2, TrackedFrame DEF Copies, Moves
<1>4. Listed'
  BY DEF Copies, Listed
<1>5. Confirmed'
  BY <1>1, <1>2, <1>4, StartsConfirmed DEF Copies
<1> QED BY <1>3, <1>4, <1>5 DEF Copies

\* or fails and leaves at most a part there,
LEMMA SaveFailsCopies ==
  ASSUME TypeOK, Quiet, Copies, NEW n \in Names, SaveFails(n)
  PROVE  Copies'
<1>1. hand[n].at = "saving" /\ hand[n].at \in InProgress /\ Cleanup(n)
  BY DEF SaveFails, InProgress
<1>2. Moves(n, "over")
  BY FinishMoves DEF SaveFails, TypeOK
<1>3. PICK r \in Routes : OnRoute(n, r)
  BY <1>1 DEF Copies, Tracked
<1>4. hand[n].route.pre \in gc[n]
  BY <1>1, <1>3 DEF OnRoute, Ends
<1>5. \A f \in file' : f \in file \/ (f[1] = n /\ f[2] \in gc[n])
  BY <1>4 DEF SaveFails
<1>6. UNCHANGED <<routes, gc, lost>> /\ "over" \in Past
  BY DEF SaveFails, Past
<1> QED BY <1>1, <1>2, <1>5, <1>6, EndCopies

\* Handoff goes by the noted route,
LEMMA HandoffCopies ==
  ASSUME TypeOK, Quiet, Copies, NEW n \in Names, HandoffStarts(n)
  PROVE  Copies'
<1>1. Moves(n, "fetching") /\ hand'[n].route = RouteOf(n)
  BY HandoffMoves
<1>2. hand[n].at = "saved" /\ hand[n].at \in InProgress
  BY DEF HandoffStarts, InProgress
<1>3. UNCHANGED <<file, gc, purge, lost, routes>>
  BY DEF HandoffStarts
<1>4. PICK r \in Routes : OnRoute(n, r)
  BY <1>2 DEF Copies, Tracked
<1>5. Tracked'
  <2>1. SUFFICES ASSUME NEW m \in Names, hand'[m].at \in InProgress
                 PROVE  \E s \in Routes : OnRoute(m, s)'
    BY DEF Tracked
  <2>2. CASE m = n
    <3>1. RouteOf(n) = r \/ (RouteOf(n) = Default /\ ~Kept)
      <4>1. r \in Route
        BY HandoffAssumption
      <4>2. routes[n] = {r} \/ (routes[n] = {} /\ ~Kept)
        BY <1>2, <1>4 DEF OnRoute
      <4> QED BY <4>1, <4>2, RouteOfType
    <3>2. gc[n] = Ends(r) /\ \A f \in file : f[1] = n => f[2] = r.pre
      BY <1>2, <1>4 DEF OnRoute
    <3>3. hand'[n].at = "fetching"
      BY <1>1 DEF Moves
    <3>4. OnRoute(n, r)'
      BY <1>1, <1>3, <3>1, <3>2, <3>3 DEF OnRoute, Kept
    <3> QED BY <3>4, <2>2
  <2>3. CASE m # n
    BY <1>1, <1>3, <2>1, <2>3, TrackedFrame DEF Copies, Moves
  <2> QED BY <2>2, <2>3
<1>6. Listed' /\ Confirmed'
  BY <1>3 DEF Copies, Listed, Confirmed
<1> QED BY <1>5, <1>6 DEF Copies

\* The fetch copies a state from a node that has it: to the decode node of the route
\* the list has, though the route in hand may be the configured pair.
LEMMA FetchIsListed ==
  ASSUME TypeOK, Copies, RoutesApart, NEW n \in Names, hand[n].at = "fetching",
         <<n, hand[n].route.pre>> \in file
  PROVE  hand[n].route.dec \in gc[n]
<1>1. PICK r \in Routes : OnRoute(n, r)
  BY DEF Copies, Tracked, InProgress
<1>2. /\ gc[n] = Ends(r)
      /\ \A f \in file : f[1] = n => f[2] = r.pre
      /\ hand[n].route = r \/ (hand[n].route = Default /\ ~Kept)
  BY <1>1 DEF OnRoute
<1>3. hand[n].route.pre = r.pre
  BY <1>2
<1>4. hand[n].route = r
  BY <1>2, <1>3 DEF RoutesApart
<1> QED BY <1>2, <1>4 DEF Ends

\* the copy lands on a node that is listed: here the routes must be apart.
LEMMA FetchOkCopies ==
  ASSUME TypeOK, Quiet, Copies, RoutesApart, NEW n \in Names, FetchOk(n)
  PROVE  Copies'
<1>1. Moves(n, "fetched")
  BY GoToMoves DEF FetchOk, TypeOK, Places
<1>2. hand[n].at = "fetching" /\ hand[n].at \in InProgress
  BY DEF FetchOk, InProgress
<1>3. hand[n].route.dec \in gc[n]
  BY <1>2, FetchIsListed DEF FetchOk
<1>4. UNCHANGED <<gc, purge, lost, routes>> /\ file' = file \cup {<<n, hand[n].route.dec>>}
  BY DEF FetchOk
<1>5. Tracked'
  <2>1. SUFFICES ASSUME NEW m \in Names, hand'[m].at \in InProgress
                 PROVE  \E s \in Routes : OnRoute(m, s)'
    BY DEF Tracked
  <2>2. CASE m = n
    <3>1. PICK r \in Routes : OnRoute(n, r)
      BY <1>2 DEF Copies, Tracked
    <3>2. OnRoute(n, r)'
      BY <1>1, <1>4, <3>1 DEF OnRoute, Moves
    <3> QED BY <3>2, <2>2
  <2>3. CASE m # n
    BY <1>1, <1>4, <2>1, <2>3, TrackedFrame DEF Copies, Moves
  <2> QED BY <2>2, <2>3
<1>6. Listed'
  BY <1>3, <1>4 DEF Copies, Listed
<1>7. Confirmed'
  BY <1>2, <1>4, NoPurgeInProgress DEF Copies, Confirmed
<1> QED BY <1>5, <1>6, <1>7 DEF Copies

\* So the steps of a handoff keep every copy listed,
LEMMA DriveCopies ==
  ASSUME TypeOK, Quiet, Copies, RoutesApart, NEW n \in Names, Drive(n)
  PROVE  Copies'
<1>t. hand \in [Names -> Hand]
  BY DEF TypeOK
<1>1. ASSUME NEW r \in Routes, Track(n, r) PROVE Copies'
  BY <1>1, TrackCopies
<1>2. CASE SaveOk(n) \/ SaveFails(n) \/ HandoffStarts(n) \/ FetchOk(n)
  BY <1>2, SaveOkCopies, SaveFailsCopies, HandoffCopies, FetchOkCopies
<1>3. CASE FetchFails(n)
  <2>1. hand[n].at \in InProgress /\ Cleanup(n) /\ UNCHANGED <<file, routes, gc, lost>>
    BY <1>3 DEF FetchFails, InProgress
  <2>2. Moves(n, "over") /\ "over" \in Past
    BY <1>3, <1>t, FinishMoves DEF FetchFails, Past
  <2> QED BY <2>1, <2>2, EndCopies
<1>4. CASE Restore(n)
  <2>1. hand[n].at \in InProgress /\ Cleanup(n) /\ UNCHANGED <<file, routes, gc, lost>>
    BY <1>4 DEF Restore, InProgress
  <2>2. \E place \in Past : Moves(n, place)
    BY <1>4, <1>t, FinishMoves, GoToMoves DEF Restore, Past, Places
  <2> QED BY <2>1, <2>2, EndCopies
<1>5. CASE Serve(n)
  <2>1. Moves(n, "over")
    BY <1>5, <1>t, FinishMoves DEF Serve
  <2>2. UNCHANGED <<file, gc, purge, lost, routes>>
    BY <1>5 DEF Serve
  <2>3. ASSUME NEW m \in Names, hand'[m].at \in InProgress
        PROVE  \E s \in Routes : OnRoute(m, s)'
    BY <2>1, <2>2, <2>3, TrackedFrame DEF Copies, Moves, InProgress
  <2>4. Tracked'
    BY <2>3 DEF Tracked
  <2> QED BY <2>2, <2>4 DEF Copies, Listed, Confirmed
<1> QED BY <1>1, <1>2, <1>3, <1>4, <1>5 DEF Drive

\* a purge strikes out only what is gone,
LEMMA PurgeCopies ==
  ASSUME TypeOK, Quiet, Copies, NEW p \in Purgers, Purging(p)
  PROVE  Copies'
<1>t. /\ purge \in [Purgers -> Purge] /\ gc \in [Names -> SUBSET Nodes]
      /\ file \subseteq Names \X Nodes
  BY DEF TypeOK
<1>1. CASE PurgeEnds(p)
  <2>1. purge[p].name \in Names /\ purge[p].todo = {} /\ UNCHANGED <<hand, routes, file, lost>>
    BY <1>1, <1>t DEF PurgeEnds, Purge
  <2>2. /\ \A m \in Names : m # purge[p].name => gc'[m] = gc[m]
        /\ purge[p].ok \/ gc' = gc
    BY <1>1, <1>t DEF PurgeEnds
  <2>3. hand[purge[p].name].at \notin InProgress
    BY <2>1, NoPurgeInProgress
  <2>4. ASSUME NEW m \in Names, hand'[m].at \in InProgress
        PROVE  \E s \in Routes : OnRoute(m, s)'
    <3>1. m # purge[p].name
      BY <2>1, <2>3, <2>4
    <3> QED BY <2>1, <2>2, <2>4, <3>1, TrackedFrame DEF Copies
  <2>5. Tracked'
    BY <2>4 DEF Tracked
  <2>6. Listed'
    <3>1. SUFFICES ASSUME NEW f \in file PROVE f \in lost \/ f[2] \in gc'[f[1]]
      BY <2>1 DEF Listed
    <3>2. f[1] \in Names /\ (f \in lost \/ f[2] \in gc[f[1]])
      BY <1>t DEF Copies, Listed
    <3>3. CASE f[1] = purge[p].name /\ purge[p].ok
      BY <3>3, <2>1 DEF Copies, Confirmed
    <3> QED BY <2>2, <3>2, <3>3
  <2>7. Confirmed'
    <3>1. purge'[p].name = NoName /\ \A q \in Purgers : q # p => purge'[q] = purge[q]
      BY <1>1, PurgeEndsLeaves
    <3>2. \A f \in file : f[1] # NoName
      BY <1>t, HandoffAssumption
    <3> QED BY <2>1, <3>1, <3>2 DEF Copies, Confirmed
  <2> QED BY <2>5, <2>6, <2>7 DEF Copies
<1>2. ASSUME NEW c \in Nodes, Delete(p, c) PROVE Copies'
  <2>1. Asked(p, c)
    BY <1>2, DeleteAsks
  <2>2. UNCHANGED <<hand, routes, gc, lost>> /\ \A f \in file' : f \in file
    BY <1>2 DEF Delete
  <2>3. ASSUME NEW m \in Names, hand'[m].at \in InProgress
        PROVE  \E s \in Routes : OnRoute(m, s)'
    BY <2>2, <2>3, TrackedFrame DEF Copies
  <2>4. Tracked'
    BY <2>3 DEF Tracked
  <2>5. Listed'
    BY <2>2 DEF Copies, Listed
  <2>6. Confirmed'
    <3>1. SUFFICES ASSUME NEW q \in Purgers, NEW f \in file',
                          purge'[q].name = f[1], purge'[q].ok, f[2] \notin purge'[q].todo
                   PROVE  f \in lost
      BY <2>2 DEF Confirmed
    <3>2. f \in file /\ f = <<f[1], f[2]>>
      BY <2>2, <1>t
    <3>3. CASE q = p
      <4>1. /\ f[1] = purge[p].name /\ purge[p].ok /\ f[2] \notin purge[p].todo \ {c}
            /\ file' = file \ {<<purge[p].name, c>>}
        BY <2>1, <3>1, <3>3 DEF Asked
      <4>2. f[2] # c
        BY <3>1, <3>2, <4>1
      <4> QED BY <3>2, <4>1, <4>2 DEF Copies, Confirmed
    <3>4. CASE q # p
      BY <2>1, <3>1, <3>2, <3>4 DEF Asked, Copies, Confirmed
    <3> QED BY <3>3, <3>4
  <2> QED BY <2>4, <2>5, <2>6 DEF Copies
<1> QED BY <1>1, <1>2 DEF Purging

\* the sweep does not disturb it,
LEMMA SweepCopies ==
  ASSUME TypeOK, Quiet, Copies, Sweep
  PROVE  Copies'
<1>1. UNCHANGED <<hand, routes, file, gc, lost>>
  BY DEF Sweep, SweepStarts, SweepNext
<1>2. ASSUME NEW m \in Names, hand'[m].at \in InProgress
      PROVE  \E s \in Routes : OnRoute(m, s)'
  BY <1>1, <1>2, TrackedFrame DEF Copies
<1>3. Tracked'
  BY <1>2 DEF Tracked
<1>4. Listed'
  BY <1>1 DEF Copies, Listed
<1>5. CASE SweepStarts
  BY <1>3, <1>4, <1>5 DEF SweepStarts, Copies, Confirmed
<1>6. ASSUME NEW n \in Names, SweepNext(n) PROVE Confirmed'
  <2>1. Starts(Janitor, n) /\ Janitor \in Purgers
    BY <1>6, PurgeStarts DEF SweepNext, Purgers
  <2> QED BY <2>1, <1>1, <1>4, StartsConfirmed DEF Copies
<1> QED BY <1>3, <1>4, <1>5, <1>6 DEF Sweep, Copies

\* nor do faults, restarts and late deletes.
LEMMA WorldCopies ==
  ASSUME TypeOK, Quiet, Copies, World
  PROVE  Copies'
<1>1. ASSUME UNCHANGED <<hand, routes, file, gc, lost, purge>> PROVE Copies'
  <2>1. ASSUME NEW m \in Names, hand'[m].at \in InProgress
        PROVE  \E s \in Routes : OnRoute(m, s)'
    BY <1>1, <2>1, TrackedFrame DEF Copies
  <2>2. Tracked'
    BY <2>1 DEF Tracked
  <2> QED BY <1>1, <2>2 DEF Copies, Listed, Confirmed
<1>2. ASSUME NEW f \in Names \X Nodes, Lands(f) PROVE Copies'
  <2>1. UNCHANGED <<hand, routes, gc, purge>> /\ file' = file \cup {f} /\ lost \subseteq lost'
    BY <1>2 DEF Lands
  <2>2. \/ f \in lost'
        \/ /\ f[2] \in gc[f[1]]
           /\ \A p \in Purgers : purge[p].name = f[1] => f[2] \in purge[p].todo
    BY <1>2 DEF Lands
  <2>3. hand[f[1]].at \notin InProgress
    BY <1>2 DEF Lands, Quiet, OnlyPast, Past, InProgress
  <2>4. ASSUME NEW m \in Names, hand'[m].at \in InProgress
        PROVE  \E s \in Routes : OnRoute(m, s)'
    BY <2>1, <2>3, <2>4, TrackedFrame DEF Copies
  <2>5. Tracked'
    BY <2>4 DEF Tracked
  <2>6. Listed' /\ Confirmed'
    BY <2>1, <2>2 DEF Copies, Listed, Confirmed
  <2> QED BY <2>5, <2>6 DEF Copies
<1>3. CASE Restart
  <2>1. /\ \A p \in Purgers : purge'[p].name = NoName
        /\ \A n \in Names : hand'[n] = Before \/ hand'[n].at = "over"
    BY <1>3, RestartShape
  <2>2. file' = file /\ gc' = disk /\ lost' = lost \cup {f \in file : f[2] \notin disk[f[1]]}
    BY <1>3 DEF Restart
  <2>3. Tracked'
    BY <2>1 DEF Tracked, InProgress, Before
  <2>4. Listed'
    BY <2>2 DEF Listed
  <2>5. \A f \in file : f[1] # NoName
    BY HandoffAssumption DEF TypeOK
  <2>6. Confirmed'
    BY <2>1, <2>2, <2>5 DEF Confirmed
  <2> QED BY <2>3, <2>4, <2>6 DEF Copies
<1>4. ASSUME NEW n \in Names, Ages(n) PROVE Copies'
  BY <1>4, <1>1 DEF Ages
<1>5. ASSUME NEW c \in Nodes, NodeDown(c) \/ NodeUp(c) PROVE Copies'
  BY <1>5, <1>1 DEF NodeDown, NodeUp
<1> QED BY <1>2, <1>3, <1>4, <1>5 DEF World

\* A copy is on the list, in memory and unless its last write failed on disk, from
\* before it exists until its node has confirmed that it is gone, for any number of
\* handoffs and faults.  The hypothesis is what the code does not ensure by itself:
\* noteRoute may wipe the route of a handoff in progress, which is then fetched with
\* the configured pair, and a copy to another decode node than the listed one is lost.
THEOREM HandoffListed == ASSUME RoutesApart PROVE Spec => []ListedUntilGone
<1>1. Init => Copies
  <2> SUFFICES ASSUME Init PROVE Copies
    OBVIOUS
  <2>1. \A n \in Names : hand[n].at = "idle"
    BY DEF Init, Before
  <2>2. Tracked
    BY <2>1 DEF Tracked, InProgress
  <2> QED BY <2>2 DEF Init, Copies, Listed, Confirmed
<1>2. TypeOK /\ Quiet /\ Copies /\ [Next]_vars => Copies'
  <2> SUFFICES ASSUME TypeOK, Quiet, Copies, [Next]_vars PROVE Copies'
    OBVIOUS
  <2>1. CASE UNCHANGED vars
    <3>1. ASSUME NEW m \in Names, hand'[m].at \in InProgress
          PROVE  \E s \in Routes : OnRoute(m, s)'
      BY <2>1, <3>1, TrackedFrame DEF Copies, vars
    <3>2. Tracked'
      BY <3>1 DEF Tracked
    <3> QED BY <2>1, <3>2 DEF vars, Copies, Listed, Confirmed
  <2>2. CASE Next
    BY <2>2, RoutesApart, DriveCopies, PurgeCopies, SweepCopies, WorldCopies DEF Next
  <2> QED BY <2>1, <2>2
<1>3. Quiet /\ Copies => ListedUntilGone
  BY DEF Quiet, FileIsList, Copies, Listed, ListedUntilGone
<1> QED BY <1>1, <1>2, <1>3, HandoffQuiet, PTL DEF Spec

=============================================================================
