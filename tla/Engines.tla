------------------------------- MODULE Engines -------------------------------
(***************************************************************************)
(* The llama-server processes a soflink daemon launches on its host        *)
(* (control.go) and the registry of loaded models the panel works from     *)
(* (modelload.go): modelsLoad, launchLlama and its reaper, controlEject    *)
(* and the eject by port.                                                  *)
(*                                                                         *)
(* The daemon knows its processes by pid (procReg) and its models by port  *)
(* (loadedReg).  Both are the system's to give again: a pid as soon as the *)
(* process has been waited for, which is before the reaper has noted it.   *)
(* Other llama-servers, that the daemon must leave alone, come and go on   *)
(* the same host.                                                          *)
(***************************************************************************)
EXTENDS Naturals, FiniteSets, FiniteSetsExt, Functions

CONSTANTS
  Pids,      \* process ids of the host
  Ports,     \* ports a model may be served on
  Loads,     \* handlers of modelsLoad
  Ejects,    \* handlers of modelsEject and controlEject
  MaxStarts, \* bound: processes started in all
  Nil

ASSUME EnginesAssumption ==
  /\ Ports \subseteq Nat /\ Ports # {} /\ IsFiniteSet(Ports)
  /\ Nil \notin Pids \cup Ports
  /\ MaxStarts \in Nat

VARIABLES
  proc,     \* what runs under each pid
  live,     \* procReg.live
  dead,     \* procReg.dead
  late,     \* reapers of each pid that have waited and not yet noted it
  loaded,   \* loadedReg: the handler that loaded the model of each port
  load,     \* the handlers of modelsLoad
  eject,    \* the handlers of modelsEject and controlEject
  starts,   \* processes started so far
  former,   \* history: pids that the daemon's processes have given back
  hurt,     \* history: pids of others' processes the daemon has killed
  escaped   \* history: pids of processes that outlived the kill of their port

hostVars == <<proc, live, dead, late, loaded, load, eject, starts, former, hurt, escaped>>
registry == <<live, dead>>
pidHistory == <<former, hurt, escaped>>

\* A pid is free, or a process runs under it (reap: its launcher waits for it), or
\* the process has ended and nobody has waited for it.
Process == [own : BOOLEAN, port : Ports \cup {Nil}, listens : BOOLEAN, reap : BOOLEAN,
            state : {"free", "runs", "zombie"}]

Gone == [own |-> FALSE, port |-> Nil, listens |-> FALSE, reap |-> FALSE, state |-> "free"]

Runs(p) == proc[p].state = "runs"
Own(p) == Runs(p) /\ proc[p].own
Listeners(port) == {p \in Pids : Runs(p) /\ proc[p].listens /\ proc[p].port = port}

Load == [at : {"idle", "port", "started", "record"}, port : Ports \cup {Nil},
         pid : Pids \cup {Nil}]
Eject == [at : {"idle", "aim", "kill", "mark"}, port : Ports \cup {Nil},
          pids : SUBSET Pids, pid : Pids \cup {Nil}]

NoLoad == [at |-> "idle", port |-> Nil, pid |-> Nil]
NoEject == [at |-> "idle", port |-> Nil, pids |-> {}, pid |-> Nil]

HostInit ==
  /\ proc = [p \in Pids |-> Gone]
  /\ live = {} /\ dead = {} /\ late = [p \in Pids |-> 0]
  /\ loaded = <<>>
  /\ load = [l \in Loads |-> NoLoad] /\ eject = [k \in Ejects |-> NoEject]
  /\ starts = 0 /\ former = {} /\ hurt = {} /\ escaped = {}

-----------------------------------------------------------------------------
(* procReg.                                                                *)

MarkDead(p) == dead' = dead \cup {p} /\ live' = live \ {p}

\* A process takes a free pid.
StartProcess(p, own, port) ==
  /\ proc[p].state = "free"
  /\ starts < MaxStarts
  /\ starts' = starts + 1
  /\ proc' = [proc EXCEPT ![p] = [Gone EXCEPT !.own = own, !.port = port, !.state = "runs"]]

-----------------------------------------------------------------------------
(* modelsLoad and launchLlama.                                             *)

\* nextLoadPort: the first that no record has, or the first of all.
NextLoadPort ==
  LET unused == Ports \ DOMAIN loaded IN Min(IF unused = {} THEN Ports ELSE unused)

\* The request may name its port.
LoadBegins(l, port) ==
  /\ load[l].at = "idle"
  /\ load' = [load EXCEPT ![l] = [NoLoad EXCEPT !.at = "port",
                                   !.port = IF port = Nil THEN NextLoadPort ELSE port]]
  /\ UNCHANGED <<proc, registry, late, loaded, eject, starts, pidHistory>>

\* cmd.Start
LaunchStarts(l, p) ==
  /\ load[l].at = "port"
  /\ StartProcess(p, TRUE, load[l].port)
  /\ load' = [load EXCEPT ![l].at = "started", ![l].pid = p]
  /\ UNCHANGED <<registry, late, loaded, eject, pidHistory>>

LaunchFails(l) ==
  /\ load[l].at = "port"
  /\ load' = [load EXCEPT ![l] = NoLoad]
  /\ UNCHANGED <<proc, registry, late, loaded, eject, starts, pidHistory>>

\* recordLaunched, and the goroutine that waits for the process.
RecordLaunched(l) ==
  LET p == load[l].pid IN
  /\ load[l].at = "started"
  /\ live' = live \cup {p}
  /\ proc' = [proc EXCEPT ![p].reap = TRUE]
  /\ load' = [load EXCEPT ![l].at = "record", ![l].pid = Nil]
  /\ UNCHANGED <<dead, late, loaded, eject, starts, pidHistory>>

\* recordLoaded; when the reply of a remote launch is lost, nothing.
RecordLoaded(l, lost) ==
  /\ load[l].at = "record"
  /\ loaded' = IF lost THEN loaded
               ELSE [p \in DOMAIN loaded \cup {load[l].port} |->
                       IF p = load[l].port THEN l ELSE loaded[p]]
  /\ load' = [load EXCEPT ![l] = NoLoad]
  /\ UNCHANGED <<proc, registry, late, eject, starts, pidHistory>>

-----------------------------------------------------------------------------
(* The processes.                                                          *)

\* The server listens, on a port that is free.
Listens(p) ==
  /\ Runs(p) /\ ~proc[p].listens
  /\ Listeners(proc[p].port) = {}
  /\ proc' = [proc EXCEPT ![p].listens = TRUE]
  /\ UNCHANGED <<registry, late, loaded, load, eject, starts, pidHistory>>

\* It ends: a child is a zombie until it is waited for.
Ended(p) == [proc EXCEPT ![p] = IF @.own THEN [@ EXCEPT !.state = "zombie", !.listens = FALSE]
                                ELSE Gone]

Exits(p) ==
  /\ Runs(p)
  /\ proc' = Ended(p)
  /\ UNCHANGED <<registry, late, loaded, load, eject, starts, pidHistory>>

\* cmd.Wait returns: the pid is the system's again.
Waited(p) ==
  /\ proc[p].state = "zombie" /\ proc[p].reap
  /\ proc' = [proc EXCEPT ![p] = Gone]
  /\ late' = [late EXCEPT ![p] = @ + 1]
  /\ former' = former \cup {p}
  /\ UNCHANGED <<registry, loaded, load, eject, starts, hurt, escaped>>

\* The reaper notes it.
Reaped(p) ==
  /\ late[p] > 0
  /\ late' = [late EXCEPT ![p] = @ - 1]
  /\ MarkDead(p)
  /\ UNCHANGED <<proc, loaded, load, eject, starts, pidHistory>>

\* Somebody else's llama-server starts.
OtherStarts(p, port) ==
  /\ StartProcess(p, FALSE, port)
  /\ UNCHANGED <<registry, late, loaded, load, eject, pidHistory>>

-----------------------------------------------------------------------------
(* killLlamaByPort and ejectOwnLlama.                                      *)

\* killLlamaByPort: who listens there, as lsof says it.
EjectBegins(k, port) ==
  /\ eject[k].at = "idle"
  /\ eject' = [eject EXCEPT ![k] = [at |-> "aim", port |-> port, pids |-> Listeners(port),
                                    pid |-> Nil]]
  /\ UNCHANGED <<proc, registry, late, loaded, load, starts, pidHistory>>

\* ejectOwnLlama: a copy of the live pids.
EjectAllBegins(k) ==
  /\ eject[k].at = "idle"
  /\ eject' = [eject EXCEPT ![k] = [NoEject EXCEPT !.at = "aim", !.pids = live]]
  /\ UNCHANGED <<proc, registry, late, loaded, load, starts, pidHistory>>

\* The kill by port as it was, of whoever listens.
SparedNobody(k, p) == FALSE

\* isLaunched is asked by the kill by port; the copy of live is not asked again.
Spared(k, p) == eject[k].port # Nil /\ p \notin live

EjectAims(k, p) ==
  /\ eject[k].at = "aim"
  /\ p \in eject[k].pids
  /\ eject' = [eject EXCEPT ![k].pids = @ \ {p}, ![k].at = IF Spared(k, p) THEN "aim" ELSE "kill",
                            ![k].pid = IF Spared(k, p) THEN Nil ELSE p]
  /\ UNCHANGED <<proc, registry, late, loaded, load, starts, pidHistory>>

\* The kill as it would be if ejectOwnLlama did not look at its error either.
EjectKillsUnasked(k) ==
  LET p == eject[k].pid IN
  /\ eject[k].at = "kill"
  /\ \/ /\ proc' = IF Runs(p) THEN Ended(p) ELSE proc
        /\ hurt' = IF Runs(p) /\ ~proc[p].own THEN hurt \cup {p} ELSE hurt
        /\ UNCHANGED escaped
     \/ /\ Runs(p)
        /\ escaped' = IF eject[k].port = Nil THEN escaped ELSE escaped \cup {p}
        /\ UNCHANGED <<proc, hurt>>
  /\ eject' = [eject EXCEPT ![k].at = "mark"]
  /\ UNCHANGED <<registry, late, loaded, load, starts, former>>

\* kill -9, or taskkill: whatever runs under the pid now ends, unless the command
\* fails.  controlEject keeps a pid it could not kill, or found free; the kill by port
\* does not look.
EjectKills(k) ==
  LET p == eject[k].pid
      kept == IF eject[k].port = Nil THEN "aim" ELSE "mark"
  IN
  /\ eject[k].at = "kill"
  /\ \/ /\ proc' = IF Runs(p) THEN Ended(p) ELSE proc
        /\ hurt' = IF Runs(p) /\ ~proc[p].own THEN hurt \cup {p} ELSE hurt
        /\ eject' = [eject EXCEPT ![k].at = IF proc[p].state = "free" THEN kept ELSE "mark"]
        /\ UNCHANGED escaped
     \/ /\ Runs(p)
        /\ escaped' = IF eject[k].port = Nil THEN escaped ELSE escaped \cup {p}
        /\ eject' = [eject EXCEPT ![k].at = kept]
        /\ UNCHANGED <<proc, hurt>>
  /\ UNCHANGED <<registry, late, loaded, load, starts, former>>

EjectMarks(k) ==
  /\ eject[k].at = "mark"
  /\ MarkDead(eject[k].pid)
  /\ eject' = [eject EXCEPT ![k].at = "aim", ![k].pid = Nil]
  /\ UNCHANGED <<proc, late, loaded, load, starts, pidHistory>>

\* dropLoaded, whether or not anything was killed.
EjectEnds(k) ==
  /\ eject[k].at = "aim" /\ eject[k].pids = {}
  /\ loaded' = Restrict(loaded, DOMAIN loaded \ {eject[k].port})
  /\ eject' = [eject EXCEPT ![k] = NoEject]
  /\ UNCHANGED <<proc, registry, late, load, starts, pidHistory>>

-----------------------------------------------------------------------------

Loading(l) ==
  \/ LaunchFails(l) \/ RecordLaunched(l)
  \/ \E port \in Ports \cup {Nil} : LoadBegins(l, port)
  \/ \E p \in Pids : LaunchStarts(l, p)
  \/ \E lost \in BOOLEAN : RecordLoaded(l, lost)

Running(p) ==
  \/ Listens(p) \/ Exits(p) \/ Waited(p) \/ Reaped(p)
  \/ \E port \in Ports : OtherStarts(p, port)

Ejecting(k) ==
  \/ \E port \in Ports : EjectBegins(k, port)
  \/ EjectAllBegins(k) \/ EjectKills(k) \/ EjectMarks(k) \/ EjectEnds(k)
  \/ \E p \in Pids : EjectAims(k, p)

HostNext ==
  \/ \E l \in Loads : Loading(l)
  \/ \E p \in Pids : Running(p)
  \/ \E k \in Ejects : Ejecting(k)

HostSpec == HostInit /\ [][HostNext]_hostVars

-----------------------------------------------------------------------------

\* Every variable has its type.
HostTypeOK ==
  /\ proc \in [Pids -> Process]
  /\ live \subseteq Pids /\ dead \subseteq Pids /\ late \in [Pids -> Nat]
  /\ DOMAIN loaded \subseteq Ports /\ \A p \in DOMAIN loaded : loaded[p] \in Loads
  /\ load \in [Loads -> Load] /\ eject \in [Ejects -> Eject]
  /\ starts \in 0..MaxStarts
  /\ former \subseteq Pids /\ hurt \subseteq Pids /\ escaped \subseteq Pids

\* No eject, of a model or of all of them, ever kills a process the daemon did not
\* launch, short of one that has been given the pid of one it did.
OnlyOwnKilled == hurt \subseteq former

\* A process of the daemon's that is recorded as launched stays within the reach of an
\* eject until it ends, also when a kill of it failed, short of one that the kill by
\* port failed on, which is taken off all the same, and of one whose pid had an earlier
\* owner; and a pid that passes for a running engine is one, or has a reaper about to
\* take it off.
EjectReaches ==
  /\ \A p \in Pids \ (former \cup escaped) : Own(p) /\ proc[p].reap => p \in live
  /\ \A p \in live : (proc[p].own /\ proc[p].reap) \/ late[p] > 0

=============================================================================
