------------------------------- MODULE Updater -------------------------------
(***************************************************************************)
(* The self-updater (cmd/sofmat/update.go, updateguard.go): a node looks   *)
(* for a newer release, downloads its binary, checks that it is what the   *)
(* release says, swaps it for the running one and re-executes itself.      *)
(* What it has tried and refused is in a state file beside the binary,     *)
(* because the loop these guards are there to cut goes through a restart.  *)
(*                                                                         *)
(* A binary is known by its sha (a member of Arts) and says which version  *)
(* it is (Declares).  Versions are integers, as the stamps they stand for  *)
(* are compared.  The process may die between any two steps.               *)
(***************************************************************************)
EXTENDS Integers, FiniteSets, FiniteSetsExt

CONSTANTS
  Callers,      \* who calls checkAndUpdate: Start, the ticker, the panel's button
  Start,        \* the call made before the port opens
  Arts,         \* binaries, by sha
  Junk,         \* of those, what a bad download leaves; nobody publishes them
  Declares,     \* binary -> the version it prints, 0 when it prints none
  First,        \* the binary the node begins with
  None,
  MaxAttempts,  \* maxAttemptsPerVersion
  Tries,        \* descargasPorIntento
  MaxPublished, \* bound: releases published
  MaxFaults     \* bound: crashes, failed writes, renames and re-executions, damaged files

ASSUME UpdaterAssumption ==
  /\ Start \in Callers
  /\ Junk \subseteq Arts /\ First \in Arts \ Junk /\ None \notin Arts
  /\ Declares \in [Arts -> Nat] /\ Declares[First] > 0
  /\ MaxAttempts \in Nat \ {0} /\ Tries \in Nat \ {0}
  /\ MaxPublished \in Nat /\ MaxFaults \in Nat

Versions == {Declares[a] : a \in Arts} \ {0}

VARIABLES
  latest,     \* the tag of the latest release
  assets,     \* tag -> the binary published under it, and whether with its digest
  self, new, old,  \* the binary at the program's path, at .new and at .old
  running,    \* the binary of the process, None when there is none
  serving,    \* the startup check is over, or was skipped (-no-update)
  updating,   \* the flag that serialises the updates
  call,       \* caller -> where its checkAndUpdate is
  state,      \* the state file
  corrupt,    \* the state file cannot be read
  rounds,     \* history: downloads of the latest release, as published last
  faults, published, \* bounded counts
  torn, stranded, \* history: died between the renames; a roll back failed
  lost,       \* history: a state file was lost
  missed,     \* history: attempts whose write failed
  unnoted,    \* history: the last write of what is installed failed
  execFails   \* history: re-executions that failed since the last release

vars == <<latest, assets, self, new, old, running, serving, updating, call, state,
          corrupt, rounds, faults, published, torn, stranded, lost, missed, unnoted,
          execFails>>

release == <<latest, assets, published>>
files == <<self, new, old>>
history == <<rounds, torn, stranded, lost, missed, unnoted, execFails>>

Maybe == Arts \cup {None}

\* Where a call is; between any two of these the process may die.
Places == {"out", "ask", "spend", "get", "refund", "admit", "tag", "swapOut", "swapIn",
           "note", "exec"}
Call == [at : Places, tag : Versions \cup {0}, digest : Maybe, try : Nat]
Out == [at |-> "out", tag |-> 0, digest |-> None, try |-> 0]

UpdateState == [refused : SUBSET Arts, attempts : [Versions -> Nat],
                digests : [Versions -> Maybe], refusedTags : [Versions -> Maybe],
                installed : Maybe]

Empty == [refused |-> {}, attempts |-> [v \in Versions |-> 0],
          digests |-> [v \in Versions |-> None],
          refusedTags |-> [v \in Versions |-> None], installed |-> None]

\* loadUpdateState: a file that is missing or cannot be read is an empty state.
Loaded == IF corrupt THEN Empty ELSE state

Fault == faults < MaxFaults /\ faults' = faults + 1

\* saveUpdateState: written aside and renamed over; when either fails the file stays
\* what it was, and nobody is told.
Save(s) ==
  \/ state' = s /\ corrupt' = FALSE /\ UNCHANGED faults
  \/ Fault /\ UNCHANGED <<state, corrupt>>

Version == Declares[running]

-----------------------------------------------------------------------------
(* The state file.                                                         *)

\* spendAttempt that never begins anew.
BudgetedForGood(s, v, digest) == s

\* What spendAttempt finds: another artifact for the same version begins anew.
Budgeted(s, v, digest) ==
  IF digest # None /\ s.digests[v] # digest
  THEN [s EXCEPT !.attempts[v] = 0, !.digests[v] = digest]
  ELSE s

\* refundAttempt called on the error path and once more on return.
RefundedTwice(s, v) == [s EXCEPT !.attempts[v] = @ - 2]

\* refundAttempt: a failure of the network is not one of the artifact.
Refunded(s, v) == [s EXCEPT !.attempts[v] = Max({0, @ - 1})]

\* noteInstalled: what is said of versions up to this one is history.
Installed(s, v, sha) ==
  [s EXCEPT !.attempts = [t \in Versions |-> IF t <= v THEN 0 ELSE @[t]],
            !.digests = [t \in Versions |-> IF t <= v THEN None ELSE @[t]],
            !.refusedTags = [t \in Versions |-> IF t <= v THEN None ELSE @[t]],
            !.installed = sha]

-----------------------------------------------------------------------------
(* checkAndUpdate.                                                         *)

Init ==
  /\ latest = Declares[First]
  /\ assets = [v \in Versions |-> IF v = Declares[First] THEN [art |-> First, signed |-> TRUE]
                                  ELSE [art |-> None, signed |-> FALSE]]
  /\ self = First /\ new = None /\ old = None
  /\ running = None /\ serving = FALSE
  /\ updating = FALSE
  /\ call = [c \in Callers |-> Out]
  /\ state = Empty /\ corrupt = FALSE
  /\ rounds = 0
  /\ faults = 0 /\ published = 0 /\ execFails = 0 /\ missed = 0
  /\ torn = FALSE /\ stranded = FALSE /\ lost = FALSE /\ unnoted = FALSE

At(c, place) == running # None /\ call[c].at = place
Go(c, place) == call' = [call EXCEPT ![c].at = place]

\* checkAndUpdate returns, and with it the flag.
Leave(c) == call' = [call EXCEPT ![c] = Out] /\ updating' = FALSE

\* The compare-and-swap; a damaged state file stops the update at once.  The
\* ticker and the button come after the startup check.
Begin(c) ==
  /\ At(c, "out")
  /\ c = Start <=> ~serving
  /\ ~updating
  /\ ~corrupt
  /\ updating' = TRUE
  /\ Go(c, "ask")
  /\ serving' = TRUE
  /\ UNCHANGED <<release, files, running, state, corrupt, faults, history>>

\* The startup check is skipped, or finds a damaged state file.
Skip ==
  /\ running # None /\ ~serving
  /\ serving' = TRUE
  /\ UNCHANGED <<release, files, running, updating, call, state, corrupt, faults, history>>

Digest(v) == IF assets[v].signed THEN assets[v].art ELSE None

\* alreadyRefused: known before the download, by the published digest.
AlreadyRefused(v) == Digest(v) # None /\ state.refusedTags[v] = Digest(v)

\* GitHub answers with a newer release that has not been refused.
Ask(c) ==
  /\ At(c, "ask")
  /\ latest > Version
  /\ ~AlreadyRefused(latest)
  /\ call' = [call EXCEPT ![c] = [at |-> "spend", tag |-> latest, digest |-> Digest(latest),
                                  try |-> 0]]
  /\ UNCHANGED <<release, files, running, serving, updating, state, corrupt, faults, history>>

\* Nothing newer, or a refused one, or no answer.
NoAsk(c) ==
  /\ At(c, "ask")
  /\ Leave(c)
  /\ UNCHANGED <<release, files, running, serving, state, corrupt, faults, history>>

\* spendAttempt that counts in memory.
SpendUnsaved(c) ==
  /\ At(c, "spend")
  /\ Go(c, "get")
  /\ UNCHANGED <<release, files, running, serving, updating, state, corrupt, faults, history>>

\* spendAttempt: one more of this version, or no more.
Spend(c) ==
  LET v == call[c].tag
      s == Budgeted(Loaded, v, call[c].digest)
  IN
  /\ At(c, "spend")
  /\ \/ /\ s.attempts[v] < MaxAttempts
        /\ Save([s EXCEPT !.attempts[v] = @ + 1])
        /\ missed' = missed + (faults' - faults)
        /\ Go(c, "get")
        /\ UNCHANGED updating
     \/ /\ s.attempts[v] >= MaxAttempts
        /\ Leave(c)
        /\ UNCHANGED <<state, corrupt, faults, missed>>
  /\ UNCHANGED <<release, files, running, serving, rounds, torn, stranded, lost, unnoted,
                 execFails>>

\* The file arrives: what the tag has now, or spoilt.  A digest is checked at once,
\* inside the loop of tries.
GetOk(c) ==
  /\ At(c, "get")
  /\ \E a \in {assets[call[c].tag].art} \cup Junk :
       /\ call[c].digest # None => a = call[c].digest
       /\ new' = a
  /\ rounds' = IF call[c].tag = latest /\ call[c].digest = Digest(latest)
               THEN rounds + 1 ELSE rounds
  /\ Go(c, "admit")
  /\ UNCHANGED <<release, self, old, running, serving, updating, state, corrupt, faults,
                 torn, stranded, lost, missed, unnoted, execFails>>

\* A try that fails; at startup there is but one.
GetFails(c) ==
  /\ At(c, "get")
  /\ new' = None
  /\ IF call[c].try + 1 < (IF c = Start THEN 1 ELSE Tries)
     THEN call' = [call EXCEPT ![c].try = @ + 1]
     ELSE Go(c, "refund")
  /\ UNCHANGED <<release, self, old, running, serving, updating, state, corrupt, faults, history>>

\* The network failed, not the artifact: the attempt is given back.
Refund(c) ==
  /\ At(c, "refund")
  /\ Save(Refunded(Loaded, call[c].tag))
  /\ Leave(c)
  /\ UNCHANGED <<release, files, running, serving, history>>

\* admitArtifact before it asked the file for its version.
AdmissibleBySha(c) == new \notin Loaded.refused

\* admitArtifact: not refused before, and the file says the version of the tag.
Admissible(c) == new \notin Loaded.refused /\ Declares[new] = call[c].tag

Admit(c) ==
  /\ At(c, "admit")
  /\ Admissible(c)
  /\ Go(c, "swapOut")
  /\ UNCHANGED <<release, files, running, serving, updating, state, corrupt, faults, history>>

\* Refused before, or it does not say its version (which the call may also miss).
AdmitFails(c) ==
  /\ At(c, "admit")
  /\ \/ (new \in Loaded.refused \/ Declares[new] = 0) /\ UNCHANGED faults
     \/ Fault
  /\ new' = None
  /\ Leave(c)
  /\ UNCHANGED <<release, self, old, running, serving, state, corrupt, history>>

\* Mislabelled: its sha is refused for good,
RefuseSha(c) ==
  /\ At(c, "admit")
  /\ new \notin Loaded.refused /\ Declares[new] \notin {0, call[c].tag}
  /\ Save([Loaded EXCEPT !.refused = @ \cup {new}])
  /\ Go(c, "tag")
  /\ UNCHANGED <<release, files, running, serving, updating, history>>

\* and its digest, in a second write, under the tag (noteRefusedTag).
RefuseTag(c) ==
  /\ At(c, "tag")
  /\ IF call[c].digest = None THEN UNCHANGED <<state, corrupt, faults>>
     ELSE Save([Loaded EXCEPT !.refusedTags[call[c].tag] = call[c].digest])
  /\ new' = None
  /\ Leave(c)
  /\ UNCHANGED <<release, self, old, running, serving, history>>

\* .old goes and the running binary takes its name.
SwapOut(c) ==
  /\ At(c, "swapOut")
  /\ self # None
  /\ old' = self /\ self' = None
  /\ Go(c, "swapIn")
  /\ UNCHANGED <<release, new, running, serving, updating, state, corrupt, faults, history>>

\* The rename fails, or there is nothing at the path to rename; .old is gone already,
\* if it could be removed.
SwapOutFails(c) ==
  /\ At(c, "swapOut")
  /\ IF self = None THEN UNCHANGED faults ELSE Fault
  /\ old' \in {None, old} /\ new' = None
  /\ Leave(c)
  /\ UNCHANGED <<release, self, running, serving, state, corrupt, history>>

SwapIn(c) ==
  /\ At(c, "swapIn")
  /\ self' = new /\ new' = None
  /\ Go(c, "note")
  /\ UNCHANGED <<release, old, running, serving, updating, state, corrupt, faults, history>>

\* applyUpdate without the roll back.
SwapInFailsForGood(c) ==
  /\ At(c, "swapIn")
  /\ Fault
  /\ Leave(c)
  /\ UNCHANGED <<release, files, running, serving, state, corrupt, history>>

\* Rolled back, unless that rename fails too, which is not looked at: the process
\* lives on with nothing at its path.
SwapInFails(c) ==
  /\ At(c, "swapIn")
  /\ Fault
  /\ \/ self' = old /\ old' = None /\ UNCHANGED stranded
     \/ stranded' = TRUE /\ UNCHANGED <<self, old>>
  /\ Leave(c)
  /\ UNCHANGED <<release, new, running, serving, state, corrupt, rounds, torn, lost, missed,
                 unnoted, execFails>>

\* noteInstalled.
Note(c) ==
  /\ At(c, "note")
  /\ Save(Installed(Loaded, call[c].tag, self))
  /\ unnoted' = (faults' # faults)
  /\ Go(c, "exec")
  /\ UNCHANGED <<release, files, running, serving, updating, rounds, torn, stranded, lost,
                 missed, execFails>>

\* The process is gone, with whatever it was doing.
Dies ==
  /\ running' = None /\ serving' = FALSE /\ updating' = FALSE
  /\ call' = [c \in Callers |-> Out]

\* reexec: the process becomes what is at self, and begins again.
Exec(c) ==
  /\ At(c, "exec")
  /\ Dies
  /\ UNCHANGED <<release, files, state, corrupt, faults, history>>

\* The new binary does not start: the old version goes on.
ExecFails(c) ==
  /\ At(c, "exec")
  /\ Fault
  /\ Leave(c)
  /\ execFails' = execFails + 1
  /\ UNCHANGED <<release, files, running, serving, state, corrupt, rounds, torn, stranded,
                 lost, missed, unnoted>>

-----------------------------------------------------------------------------
(* The node and its surroundings.                                          *)

\* main that leaves it to the updater to write down what is installed.
BootBare ==
  /\ running = None /\ self # None
  /\ running' = self
  /\ UNCHANGED <<release, files, serving, updating, call, state, corrupt, faults, history>>

\* main starts and bootstrapInstalled writes down what is installed.
Boot ==
  /\ running = None /\ self # None
  /\ running' = self
  /\ IF corrupt \/ state.installed = self THEN UNCHANGED <<state, corrupt, faults>>
     ELSE Save(Installed(state, Declares[self], self))
  /\ unnoted' = (faults' # faults)
  /\ UNCHANGED <<release, files, serving, updating, call, rounds, torn, stranded, lost,
                 missed, execFails>>

Crash ==
  /\ running # None
  /\ Fault
  /\ torn' = (torn \/ self = None)
  /\ Dies
  /\ UNCHANGED <<release, files, state, corrupt, rounds, stranded, lost, missed, unnoted,
                 execFails>>

\* The state file is damaged, or the operator deletes a damaged one.
Damage ==
  /\ \/ Fault /\ ~corrupt /\ corrupt' = TRUE /\ UNCHANGED state
     \/ corrupt /\ state' = Empty /\ corrupt' = FALSE /\ UNCHANGED faults
  /\ lost' = TRUE
  /\ UNCHANGED <<release, files, running, serving, updating, call, rounds, torn, stranded,
                 missed, unnoted, execFails>>

\* A release: a newer tag, or the same one with another binary.
Publish(v, a, signed) ==
  /\ published < MaxPublished
  /\ v >= latest /\ (v = latest => a # assets[v].art)
  /\ published' = published + 1
  /\ latest' = v
  /\ assets' = [assets EXCEPT ![v] = [art |-> a, signed |-> signed]]
  /\ rounds' = 0 /\ execFails' = 0
  /\ UNCHANGED <<files, running, serving, updating, call, state, corrupt, faults, torn,
                 stranded, lost, missed, unnoted>>

Checks(c) ==
  Begin(c) \/ Ask(c) \/ NoAsk(c) \/ Spend(c) \/ GetOk(c) \/ GetFails(c) \/ Refund(c)

Applies(c) ==
  \/ Admit(c) \/ AdmitFails(c) \/ RefuseSha(c) \/ RefuseTag(c)
  \/ SwapOut(c) \/ SwapOutFails(c) \/ SwapIn(c) \/ SwapInFails(c)
  \/ Note(c) \/ Exec(c) \/ ExecFails(c)

Next ==
  \/ \E c \in Callers : Checks(c) \/ Applies(c)
  \/ Skip \/ Boot \/ Crash \/ Damage
  \/ \E v \in Versions, a \in Arts \ Junk, signed \in BOOLEAN : Publish(v, a, signed)

Spec == Init /\ [][Next]_vars

\* The process is started again by its supervisor, its goroutines run, the ticker
\* ticks, and the network is not down whenever it is needed.
FairSpec ==
  /\ Spec
  /\ WF_vars(Boot) /\ WF_vars(Skip)
  /\ \A c \in Callers : WF_vars(Checks(c)) /\ WF_vars(Applies(c))
  /\ \A c \in Callers \ {Start} : /\ SF_vars(Begin(c)) /\ SF_vars(Ask(c))
                                  /\ SF_vars(GetOk(c)) /\ SF_vars(Admit(c))

-----------------------------------------------------------------------------

\* Every variable has its type.
TypeOK ==
  /\ latest \in Versions
  /\ assets \in [Versions -> [art : Maybe, signed : BOOLEAN]]
  /\ {self, new, old, running} \subseteq Maybe
  /\ {serving, updating, corrupt, torn, stranded, lost, unnoted} \subseteq BOOLEAN
  /\ call \in [Callers -> Call]
  /\ state \in UpdateState
  /\ {rounds, execFails, missed} \subseteq Nat
  /\ faults \in 0..MaxFaults /\ published \in 0..MaxPublished

\* The loop is cut: whatever is published under whatever tag, a binary that takes
\* the place of the running one says a newer version, so a node that re-executes
\* itself never comes back to where it was.
EverySwapClimbs ==
  [][self' \notin {self, None, old} => Declares[self'] > Version]_vars

\* The node has a binary to start: at its path or, if it died between the two renames
\* and only then, at .old.  A roll back that fails is the one exception: the process
\* goes on with an empty path, and its next swap removes the .old that is left.
BinaryInPlace ==
  self = None => \/ stranded
                 \/ old # None /\ (torn \/ \E c \in Callers : call[c].at = "swapIn")

\* What the launcher reads is true: while a process runs, unless it is between the swap
\* and its note, the state file names the binary at the program's path.  Not so when
\* that write failed, which saveUpdateState keeps to itself, until the next start
\* writes it again, nor when the file was lost.
InstalledIsTrue ==
  running # None /\ self # None /\ ~lost /\ ~unnoted
  /\ (\A c \in Callers : call[c].at # "note")
  => state.installed = self

\* The belt: one release is downloaded no more often than the attempts allowed, across
\* crashes and restarts, and once more for each attempt whose write failed, as nobody
\* looks at that failure: a file that cannot be written leaves no bound.  A lost file
\* and a new binary that was installed but could not be executed count anew.
RoundsBounded == ~lost /\ execFails = 0 => rounds <= MaxAttempts + missed

\* A proper release is installed: one that is what its tag says, published with its
\* digest and never refused before, is in the end what runs, as long as the node can
\* start and the faults are fewer than the attempts allowed.
Proper ==
  LET a == assets[latest].art IN
  /\ assets[latest].signed /\ Declares[a] = latest
  /\ a \notin state.refused
  /\ self # None /\ ~corrupt

ProperReleaseLands == <>[]Proper => <>[](running # None => Version = latest)

=============================================================================
