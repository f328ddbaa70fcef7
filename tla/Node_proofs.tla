------------------------------ MODULE Node_proofs ------------------------------
(***************************************************************************)
(* Proofs about what a daemon does to the host it runs on, for every value *)
(* of the constants: it replaces its own binary (Updater), and it launches *)
(* and kills engines (Engines).                                            *)
(*                                                                         *)
(* The updater's inductive invariant follows the one update that may be    *)
(* under way: what its call knows of the release it asked for stays true   *)
(* until it ends, because nobody else touches the files or the running     *)
(* version meanwhile.  The belt on the downloads needs an account of its   *)
(* own: every download of the latest release has an attempt written down   *)
(* in the state file, or a write of one that failed, or else what was      *)
(* downloaded is installed and there is nothing more to ask for.           *)
(*                                                                         *)
(* The engines' inductive invariant follows a pid from the launch to the   *)
(* kill: whatever an eject has in hand is a process of the daemon's or a   *)
(* pid that one has given back (Ours), because the copy of live is taken   *)
(* from pids that are, and the kill by port asks live first.               *)
(***************************************************************************)
EXTENDS Updater, Engines, WellFoundedInduction, TLAPS

\* An update under way past its question.
Working(c) == call[c].at \notin {"out", "ask"}

\* The flag does its work: at most one call, and only while a process runs.
OneCall ==
  /\ \A c \in Callers : call[c].at # "out" => running # None /\ updating
  /\ \A c, d \in Callers : call[c].at # "out" /\ call[d].at # "out" => c = d

\* What a call knows stays true: the tag it asked for is published and newer than
\* the process, what it admitted says that tag, and so does what it swapped in.
CallIsTrue ==
  /\ assets[latest].art \in Arts
  /\ \A c \in Callers : Working(c) =>
       /\ call[c].tag \in Versions
       /\ Version < call[c].tag /\ call[c].tag <= latest
       /\ assets[call[c].tag].art \in Arts
  /\ \A c \in Callers : call[c].at \in {"admit", "swapOut", "swapIn"} => new \in Arts
  /\ \A c \in Callers : call[c].at \in {"swapOut", "swapIn"} => Declares[new] = call[c].tag
  /\ \A c \in Callers : call[c].at \in {"note", "exec"} =>
       self \in Arts /\ Declares[self] = call[c].tag

\* Between the two renames, and only there unless a roll back failed, a running node
\* has nothing at its path, and then the old binary is aside.
SelfIsThere ==
  /\ \A c \in Callers : call[c].at = "swapIn" => self = None /\ old # None
  /\ running # None /\ (\A c \in Callers : call[c].at # "swapIn") => self # None \/ stranded
  /\ BinaryInPlace

\* The state file names what is at the program's path or, between the renames,
\* what a roll back would put there, unless that write failed.
NamedIsTrue ==
  /\ corrupt => lost
  /\ ~lost /\ ~unnoted => \A c \in Callers : call[c].at = "swapIn" => state.installed = old
  /\ InstalledIsTrue

\* No version has more attempts than allowed, and a download under way has spent its
\* own, under its digest, if every such write was good.
AttemptsSpent ==
  /\ \A v \in Versions : state.attempts[v] <= MaxAttempts
  /\ ~lost /\ missed = 0 => \A c \in Callers : call[c].at \in {"get", "refund"} =>
       /\ state.attempts[call[c].tag] >= 1
       /\ call[c].digest # None => state.digests[call[c].tag] = call[c].digest

\* The call is about the latest release, as published last.
Current(c) == call[c].tag = latest /\ call[c].digest = Digest(latest)

\* A download of the latest release is under way.
Pending == \E c \in Callers : call[c].at \in {"get", "refund"} /\ Current(c)

\* The attempts written down against what is published now: those under another digest
\* are not against it.
Charged ==
  IF Digest(latest) # None /\ state.digests[latest] # Digest(latest) THEN 0
  ELSE state.attempts[latest]

\* Every download of the latest release has its attempt in the state file or a write
\* that failed, and no call about an earlier artifact of the tag is left.
Accounted ==
  /\ rounds + (IF Pending THEN 1 ELSE 0) <= Charged + missed
  /\ rounds > 0 =>
       \A c \in Callers : Working(c) /\ call[c].tag = latest => Current(c)

\* The latest release is installed: the process is that version or about to become it.
Settled ==
  /\ rounds <= MaxAttempts + missed
  /\ self # None /\ Declares[self] >= latest
  /\ running # None => Version >= latest \/ \E c \in Callers : call[c].at \in {"note", "exec"}

Belt == ~lost /\ execFails = 0 => Accounted \/ Settled

Facts ==
  /\ OneCall /\ CallIsTrue /\ SelfIsThere /\ NamedIsTrue /\ AttemptsSpent /\ Belt

UpdaterInv == TypeOK /\ Facts

-----------------------------------------------------------------------------
(* What the operators on the state file do.                                *)

\* The larger of zero and a number.
LEMMA MaxOfZero ==
  ASSUME NEW n \in Int
  PROVE  Max({0, n}) = IF n > 0 THEN n ELSE 0
  BY DEF Max

\* The sum of two numbers is not negative.
LEMMA SumOfTwo ==
  ASSUME NEW a \in Nat, NEW b \in Nat
  PROVE  0 <= a + b
  OBVIOUS

\* A sum that bounds a number still does when a part of it grows.
LEMMA StillWithin ==
  ASSUME NEW n \in Nat, NEW m \in Nat, NEW k \in Nat, NEW l \in Nat, n <= m + k, k <= l
  PROVE  n <= m + l
  OBVIOUS

\* The versions are numbers, and the one of the first binary is among them.
LEMMA VersionsType ==
  /\ Versions \subseteq Nat \ {0}
  /\ Declares[First] \in Versions
  /\ \A a \in Arts : Declares[a] \in Nat /\ (Declares[a] # 0 => Declares[a] \in Versions)
  BY UpdaterAssumption DEF Versions

\* An empty state file.
LEMMA EmptyType == Empty \in UpdateState /\ \A v \in Versions : Empty.attempts[v] = 0
  BY DEF Empty, UpdateState, Maybe

\* What loadUpdateState returns is a state, with no more attempts than the file has.
LEMMA LoadedType ==
  ASSUME state \in UpdateState
  PROVE  Loaded \in UpdateState /\ \A v \in Versions : Loaded.attempts[v] <= state.attempts[v]
  BY EmptyType DEF Loaded, UpdateState

\* spendAttempt: an artifact that is not the one on record begins anew, one that is
\* keeps its count; the other versions are left alone.
LEMMA BudgetedFacts ==
  ASSUME NEW s \in UpdateState, NEW v \in Versions, NEW d \in Maybe
  PROVE  LET b == Budgeted(s, v, d) IN
         /\ b \in UpdateState /\ b.installed = s.installed
         /\ \A w \in Versions : b.attempts[w] <= s.attempts[w]
         /\ \A w \in Versions \ {v} : b.attempts[w] = s.attempts[w] /\ b.digests[w] = s.digests[w]
         /\ d # None => b.digests[v] = d
         /\ d = None => b.digests[v] = s.digests[v]
         /\ d = None \/ s.digests[v] = d => b.attempts[v] = s.attempts[v]
  <1>1. s.attempts \in [Versions -> Nat] /\ s.digests \in [Versions -> Maybe]
    BY DEF UpdateState
  <1>2. CASE d # None /\ s.digests[v] # d
    <2> DEFINE b == [s EXCEPT !.attempts[v] = 0, !.digests[v] = d]
    <2>1. Budgeted(s, v, d) = b
      BY <1>2 DEF Budgeted
    <2>2. b \in UpdateState /\ b.installed = s.installed
      BY DEF UpdateState
    <2>3. /\ b.attempts = [s.attempts EXCEPT ![v] = 0]
          /\ b.digests = [s.digests EXCEPT ![v] = d]
      BY DEF UpdateState
    <2> HIDE DEF b
    <2>4. QED
      BY <1>1, <1>2, <2>1, <2>2, <2>3
  <1>3. CASE ~(d # None /\ s.digests[v] # d)
    BY <1>1, <1>3 DEF Budgeted
  <1>4. QED
    BY <1>2, <1>3

\* One more attempt of a version.
LEMMA SpentFacts ==
  ASSUME NEW s \in UpdateState, NEW v \in Versions
  PROVE  LET b == [s EXCEPT !.attempts[v] = @ + 1] IN
         /\ b \in UpdateState /\ b.installed = s.installed /\ b.digests = s.digests
         /\ b.attempts[v] = s.attempts[v] + 1
         /\ \A w \in Versions \ {v} : b.attempts[w] = s.attempts[w]
  BY DEF UpdateState

\* refundAttempt gives one attempt back, never below zero.
LEMMA RefundedFacts ==
  ASSUME NEW s \in UpdateState, NEW v \in Versions
  PROVE  LET b == Refunded(s, v) IN
         /\ b \in UpdateState /\ b.installed = s.installed /\ b.digests = s.digests
         /\ b.attempts[v] = IF s.attempts[v] > 0 THEN s.attempts[v] - 1 ELSE 0
         /\ \A w \in Versions \ {v} : b.attempts[w] = s.attempts[w]
  <1>1. s.attempts[v] \in Nat
    BY DEF UpdateState
  <1>2. Max({0, s.attempts[v] - 1}) = IF s.attempts[v] > 0 THEN s.attempts[v] - 1 ELSE 0
    BY <1>1, MaxOfZero
  <1> DEFINE n == Max({0, s.attempts[v] - 1})
  <1>3. Refunded(s, v) = [s EXCEPT !.attempts[v] = n]
    BY DEF Refunded
  <1> HIDE DEF n
  <1>4. n \in Nat
    BY <1>1, <1>2 DEF n
  <1>5. QED
    BY <1>2, <1>3, <1>4 DEF UpdateState, n

\* noteInstalled forgets the versions up to the one installed and no other.
LEMMA InstalledFacts ==
  ASSUME NEW s \in UpdateState, NEW v \in Nat, NEW sha \in Maybe
  PROVE  LET b == Installed(s, v, sha) IN
         /\ b \in UpdateState /\ b.installed = sha
         /\ \A w \in Versions : b.attempts[w] <= s.attempts[w]
         /\ \A w \in Versions : w > v =>
              b.attempts[w] = s.attempts[w] /\ b.digests[w] = s.digests[w]
  <1> DEFINE b == Installed(s, v, sha)
             attempts == [t \in Versions |-> IF t <= v THEN 0 ELSE s.attempts[t]]
             digests == [t \in Versions |-> IF t <= v THEN None ELSE s.digests[t]]
             tags == [t \in Versions |-> IF t <= v THEN None ELSE s.refusedTags[t]]
  <1>1. /\ s.attempts \in [Versions -> Nat] /\ s.digests \in [Versions -> Maybe]
        /\ s.refusedTags \in [Versions -> Maybe]
    BY DEF UpdateState
  <1>2. /\ attempts \in [Versions -> Nat] /\ digests \in [Versions -> Maybe]
        /\ tags \in [Versions -> Maybe]
    BY <1>1 DEF Maybe
  <1>3. /\ \A w \in Versions : attempts[w] <= s.attempts[w]
        /\ \A w \in Versions : w > v =>
             attempts[w] = s.attempts[w] /\ digests[w] = s.digests[w]
    BY <1>1, VersionsType
  <1>4. b = [s EXCEPT !.attempts = attempts, !.digests = digests,
                      !.refusedTags = tags, !.installed = sha]
    BY DEF Installed
  <1> HIDE DEF attempts, digests, tags, b
  <1>5. b \in UpdateState /\ b.installed = sha /\ b.attempts = attempts /\ b.digests = digests
    BY <1>2, <1>4 DEF UpdateState
  <1>6. QED
    BY <1>3, <1>5 DEF b

\* The two ways of refusing leave the attempts and what is installed alone.
LEMMA RefusedFacts ==
  ASSUME NEW s \in UpdateState
  PROVE  /\ \A a \in Arts : LET b == [s EXCEPT !.refused = @ \cup {a}] IN
              /\ b \in UpdateState /\ b.installed = s.installed
              /\ b.attempts = s.attempts /\ b.digests = s.digests
         /\ \A v \in Versions, d \in Maybe : LET b == [s EXCEPT !.refusedTags[v] = d] IN
              /\ b \in UpdateState /\ b.installed = s.installed
              /\ b.attempts = s.attempts /\ b.digests = s.digests
  BY DEF UpdateState

\* saveUpdateState replaces the file or leaves it, and then it is a fault.
LEMMA SaveFacts ==
  ASSUME TypeOK, NEW s, Save(s)
  PROVE  \/ state' = s /\ corrupt' = FALSE /\ faults' = faults /\ faults' \in 0..MaxFaults
         \/ state' = state /\ corrupt' = corrupt /\ faults' = faults + 1
            /\ faults' \in 0..MaxFaults
  BY UpdaterAssumption DEF Save, Fault, TypeOK

\* So the file stays a state file.
LEMMA SaveType ==
  ASSUME TypeOK, NEW s \in UpdateState, Save(s)
  PROVE  state' \in UpdateState /\ corrupt' \in BOOLEAN /\ faults' \in 0..MaxFaults
  BY SaveFacts DEF TypeOK

\* What is written down against the latest release is a number, and no more than the
\* attempts allowed.
LEMMA ChargedFacts ==
  ASSUME TypeOK, AttemptsSpent
  PROVE  Charged \in Nat /\ Charged <= MaxAttempts
  <1>1. state.attempts[latest] \in Nat /\ state.attempts[latest] <= MaxAttempts
    BY DEF TypeOK, UpdateState, AttemptsSpent
  <1>2. QED
    BY <1>1, UpdaterAssumption DEF Charged

\* It depends on the file's entries of that release alone.
LEMMA ChargedKept ==
  ASSUME UNCHANGED <<latest, assets>>,
         state'.attempts[latest] = state.attempts[latest],
         state'.digests[latest] = state.digests[latest]
  PROVE  Charged' = Charged
  BY DEF Charged, Digest

-----------------------------------------------------------------------------
(* What the calls do.                                                      *)

\* A call that goes on keeps what it asked for.
LEMMA GoFacts ==
  ASSUME call \in [Callers -> Call], NEW c \in Callers, NEW place \in Places, Go(c, place)
  PROVE  /\ call' \in [Callers -> Call]
         /\ \A d \in Callers : d # c => call'[d] = call[d]
         /\ call'[c].at = place /\ call'[c].tag = call[c].tag
         /\ call'[c].digest = call[c].digest
  BY DEF Go, Call

\* A call that returns is out.
LEMMA LeaveFacts ==
  ASSUME call \in [Callers -> Call], NEW c \in Callers, Leave(c)
  PROVE  /\ call' \in [Callers -> Call] /\ updating' = FALSE
         /\ \A d \in Callers : d # c => call'[d] = call[d]
         /\ call'[c].at = "out"
  BY UpdaterAssumption DEF Leave, Call, Out, Places, Maybe

\* A process that dies takes its calls with it.
LEMMA DiesFacts ==
  ASSUME Dies
  PROVE  /\ call' \in [Callers -> Call] /\ updating' = FALSE /\ running' = None
         /\ serving' = FALSE
         /\ \A d \in Callers : call'[d].at = "out"
  BY UpdaterAssumption DEF Dies, Call, Out, Places, Maybe

-----------------------------------------------------------------------------

\* Every step keeps the types.
LEMMA NextTypeOK == TypeOK /\ CallIsTrue /\ Next => TypeOK'
  <1> SUFFICES ASSUME TypeOK, CallIsTrue, Next PROVE TypeOK'
    OBVIOUS
  <1>a. Fault => faults' \in 0..MaxFaults
    BY UpdaterAssumption DEF TypeOK, Fault
  <1>b. \A c \in Callers : call[c].tag \in Nat
    <2>1. Versions \cup {0} \subseteq Nat
      BY VersionsType
    <2>2. QED
      BY <2>1 DEF TypeOK, Call
  <1> USE UpdaterAssumption DEF TypeOK, release, files, history, Maybe
  <1>0. \A c \in Callers : call[c].tag \in Versions \cup {0} /\ call[c].digest \in Maybe
    BY DEF Call
  <1>1. ASSUME NEW c \in Callers, Begin(c) PROVE TypeOK'
    BY <1>1, GoFacts DEF Begin, Places
  <1>2. ASSUME NEW c \in Callers, Ask(c) PROVE TypeOK'
    <2>1. Digest(latest) \in Maybe
      BY DEF Digest
    <2>2. call' \in [Callers -> Call]
      BY <1>2, <2>1 DEF Ask, Call, Places
    <2>3. QED
      BY <1>2, <2>2 DEF Ask
  <1>3. ASSUME NEW c \in Callers, NoAsk(c) PROVE TypeOK'
    BY <1>3, LeaveFacts DEF NoAsk
  <1>4. ASSUME NEW c \in Callers, Spend(c) PROVE TypeOK'
    <2> DEFINE v == call[c].tag
               s == Budgeted(Loaded, v, call[c].digest)
    <2>1. v \in Versions
      BY <1>4 DEF Spend, At, CallIsTrue, Working
    <2>2. s \in UpdateState
      BY <1>0, <2>1, LoadedType, BudgetedFacts
    <2>3. [s EXCEPT !.attempts[v] = @ + 1] \in UpdateState
      BY <2>1, <2>2, SpentFacts
    <2> HIDE DEF s, v
    <2>4. /\ state' \in UpdateState /\ corrupt' \in BOOLEAN /\ missed' \in Nat
          /\ faults' \in 0..MaxFaults
      <3> DEFINE t == [s EXCEPT !.attempts[v] = @ + 1]
      <3>1. CASE Save(t) /\ missed' = missed + (faults' - faults)
        <4> HIDE DEF t
        <4>1. \/ state' = t /\ corrupt' = FALSE /\ faults' = faults
              \/ state' = state /\ corrupt' = corrupt /\ faults' = faults + 1
          BY <3>1, SaveFacts
        <4>2. faults' \in 0..MaxFaults
          BY <3>1, SaveFacts
        <4>3. missed' \in Nat
          BY <3>1, <4>1
        <4>4. QED
          BY <2>3, <4>1, <4>2, <4>3 DEF t
      <3>2. CASE UNCHANGED <<state, corrupt, faults, missed>>
        BY <3>2
      <3>3. QED
        BY <1>4, <3>1, <3>2 DEF Spend, s, v
    <2>5. call' \in [Callers -> Call] /\ updating' \in BOOLEAN
      BY <1>4, GoFacts, LeaveFacts DEF Spend, Places
    <2>6. QED
      BY <1>4, <2>4, <2>5 DEF Spend
  <1>5. ASSUME NEW c \in Callers, GetOk(c) PROVE TypeOK'
    <2>1. new' \in Maybe /\ rounds' \in Nat
      BY <1>5, <1>0 DEF GetOk, At, CallIsTrue, Working
    <2>2. call' \in [Callers -> Call]
      BY <1>5, GoFacts DEF GetOk, Places
    <2>3. QED
      BY <1>5, <2>1, <2>2 DEF GetOk
  <1>6. ASSUME NEW c \in Callers, GetFails(c) PROVE TypeOK'
    <2>1. call' \in [Callers -> Call]
      <3>1. CASE Go(c, "refund")
        BY <3>1, GoFacts DEF Places
      <3>2. CASE call' = [call EXCEPT ![c].try = @ + 1]
        <4> DEFINE again == [call[c] EXCEPT !.try = @ + 1]
        <4>1. call[c] \in Call
          OBVIOUS
        <4>2. again \in Call
          BY ONLY <4>1 DEF Call
        <4>3. call' = [call EXCEPT ![c] = again]
          BY <3>2
        <4> HIDE DEF again
        <4>4. QED
          BY <4>2, <4>3
      <3>3. QED
        BY <1>6, <3>1, <3>2 DEF GetFails
    <2>2. QED
      BY <1>6, <2>1 DEF GetFails
  <1>7. ASSUME NEW c \in Callers, Refund(c) PROVE TypeOK'
    <2>1. call[c].tag \in Versions
      BY <1>7 DEF Refund, At, CallIsTrue, Working
    <2>2. state' \in UpdateState /\ corrupt' \in BOOLEAN /\ faults' \in 0..MaxFaults
      <3>1. Refunded(Loaded, call[c].tag) \in UpdateState
        BY <2>1, LoadedType, RefundedFacts
      <3>2. Save(Refunded(Loaded, call[c].tag))
        BY <1>7 DEF Refund
      <3>3. QED
        BY <3>1, <3>2, SaveType
    <2>3. QED
      BY <1>7, <2>2, LeaveFacts DEF Refund
  <1>8. ASSUME NEW c \in Callers, Admit(c) PROVE TypeOK'
    BY <1>8, GoFacts DEF Admit, Places
  <1>9. ASSUME NEW c \in Callers, AdmitFails(c) PROVE TypeOK'
    BY <1>a, <1>9, LeaveFacts DEF AdmitFails
  <1>10. ASSUME NEW c \in Callers, RefuseSha(c) PROVE TypeOK'
    <2>1. new \in Arts
      BY <1>10 DEF RefuseSha, At, CallIsTrue
    <2>2. state' \in UpdateState /\ corrupt' \in BOOLEAN /\ faults' \in 0..MaxFaults
      <3>1. [Loaded EXCEPT !.refused = @ \cup {new}] \in UpdateState
        BY <2>1, LoadedType, RefusedFacts
      <3>2. Save([Loaded EXCEPT !.refused = @ \cup {new}])
        BY <1>10 DEF RefuseSha
      <3>3. QED
        BY <3>1, <3>2, SaveType
    <2>3. QED
      BY <1>10, <2>2, GoFacts DEF RefuseSha, Places
  <1>11. ASSUME NEW c \in Callers, RefuseTag(c) PROVE TypeOK'
    <2>1. call[c].tag \in Versions
      BY <1>11 DEF RefuseTag, At, CallIsTrue, Working
    <2>2. state' \in UpdateState /\ corrupt' \in BOOLEAN /\ faults' \in 0..MaxFaults
      <3>1. [Loaded EXCEPT !.refusedTags[call[c].tag] = call[c].digest] \in UpdateState
        BY <1>0, <2>1, LoadedType, RefusedFacts
      <3>2. QED
        BY <1>11, <3>1, SaveType DEF RefuseTag
    <2>3. QED
      BY <1>11, <2>2, LeaveFacts DEF RefuseTag
  <1>12. ASSUME NEW c \in Callers, SwapOut(c) PROVE TypeOK'
    BY <1>12, GoFacts DEF SwapOut, Places
  <1>13. ASSUME NEW c \in Callers, SwapOutFails(c) PROVE TypeOK'
    <2>1. faults' \in 0..MaxFaults
      BY <1>a, <1>13 DEF SwapOutFails
    <2>2. old' \in Maybe /\ new' \in Maybe
      BY <1>13 DEF SwapOutFails
    <2>3. call' \in [Callers -> Call] /\ updating' = FALSE
      BY <1>13, LeaveFacts DEF SwapOutFails
    <2>4. QED
      BY <1>13, <2>1, <2>2, <2>3 DEF SwapOutFails
  <1>14. ASSUME NEW c \in Callers, SwapIn(c) PROVE TypeOK'
    BY <1>14, GoFacts DEF SwapIn, Places
  <1>15. ASSUME NEW c \in Callers, SwapInFails(c) PROVE TypeOK'
    <2>1. faults' \in 0..MaxFaults
      BY <1>a, <1>15 DEF SwapInFails
    <2>2. old' \in Maybe /\ self' \in Maybe /\ stranded' \in BOOLEAN
      BY <1>15 DEF SwapInFails
    <2>3. call' \in [Callers -> Call] /\ updating' = FALSE
      BY <1>15, LeaveFacts DEF SwapInFails
    <2>4. QED
      BY <1>15, <2>1, <2>2, <2>3 DEF SwapInFails
  <1>16. ASSUME NEW c \in Callers, Note(c) PROVE TypeOK'
    <2>1. call[c].tag \in Nat
      BY <1>b
    <2>2. /\ state' \in UpdateState /\ corrupt' \in BOOLEAN /\ faults' \in 0..MaxFaults
          /\ unnoted' \in BOOLEAN
      <3>1. Installed(Loaded, call[c].tag, self) \in UpdateState
        BY <2>1, LoadedType, InstalledFacts
      <3>2. Save(Installed(Loaded, call[c].tag, self)) /\ unnoted' \in BOOLEAN
        BY <1>16 DEF Note
      <3>3. QED
        BY <3>1, <3>2, SaveType
    <2>3. QED
      BY <1>16, <2>2, GoFacts DEF Note, Places
  <1>17. ASSUME NEW c \in Callers, Exec(c) PROVE TypeOK'
    BY <1>17, DiesFacts DEF Exec
  <1>18. ASSUME NEW c \in Callers, ExecFails(c) PROVE TypeOK'
    <2>1. call' \in [Callers -> Call] /\ updating' = FALSE
      BY <1>18, LeaveFacts DEF ExecFails
    <2>2. execFails' \in Nat /\ faults' \in 0..MaxFaults
      BY <1>a, <1>18 DEF ExecFails
    <2>3. QED
      BY <1>18, <2>1, <2>2 DEF ExecFails
  <1>19. CASE Skip
    BY <1>19 DEF Skip
  <1>20. CASE Boot
    <2>1. Declares[self] \in Nat
      BY <1>20 DEF Boot
    <2>2. /\ state' \in UpdateState /\ corrupt' \in BOOLEAN /\ faults' \in 0..MaxFaults
          /\ unnoted' \in BOOLEAN
      <3>1. Installed(state, Declares[self], self) \in UpdateState
        BY <2>1, InstalledFacts
      <3>2. QED
        BY <1>20, <3>1, SaveType DEF Boot
    <2>3. QED
      BY <1>20, <2>2 DEF Boot
  <1>21. CASE Crash
    BY <1>a, <1>21, DiesFacts DEF Crash
  <1>22. CASE Damage
    <2>1. state' \in UpdateState /\ corrupt' \in BOOLEAN /\ lost' \in BOOLEAN
      BY <1>22, EmptyType DEF Damage
    <2>2. faults' \in 0..MaxFaults
      BY <1>a, <1>22 DEF Damage
    <2>3. QED
      BY <1>22, <2>1, <2>2 DEF Damage
  <1>23. ASSUME NEW v \in Versions, NEW a \in Arts \ Junk, NEW signed \in BOOLEAN,
                Publish(v, a, signed)
         PROVE  TypeOK'
    BY <1>23 DEF Publish
  <1>24. QED
    BY <1>1, <1>2, <1>3, <1>4, <1>5, <1>6, <1>7, <1>8, <1>9, <1>10, <1>11, <1>12, <1>13,
       <1>14, <1>15, <1>16, <1>17, <1>18, <1>19, <1>20, <1>21, <1>22, <1>23
       DEF Next, Checks, Applies

-----------------------------------------------------------------------------
(* The shapes of a step, and what each shape keeps.                        *)

\* The call of c goes from one place to another and nobody else's changes.
Moved(c, from, to) ==
  /\ running # None /\ call[c].at = from /\ call'[c].at = to
  /\ call'[c].tag = call[c].tag /\ call'[c].digest = call[c].digest
  /\ \A d \in Callers \ {c} : call'[d] = call[d]
  /\ UNCHANGED <<running, updating>>

\* The call of c returns.
Left(c, from) ==
  /\ running # None /\ call[c].at = from /\ call'[c].at = "out"
  /\ \A d \in Callers \ {c} : call'[d] = call[d]
  /\ UNCHANGED running

\* Go and Leave have these shapes.
LEMMA Shapes ==
  ASSUME TypeOK, NEW c \in Callers
  PROVE  /\ \A from, to \in Places :
              At(c, from) /\ Go(c, to) /\ UNCHANGED <<running, updating>> => Moved(c, from, to)
         /\ \A from \in Places : At(c, from) /\ Leave(c) /\ UNCHANGED running => Left(c, from)
  <1>1. ASSUME NEW from \in Places, NEW to \in Places,
               At(c, from), Go(c, to), UNCHANGED <<running, updating>>
        PROVE  Moved(c, from, to)
    BY <1>1, GoFacts DEF Moved, At, TypeOK
  <1>2. ASSUME NEW from \in Places, At(c, from), Leave(c), UNCHANGED running
        PROVE  Left(c, from)
    BY <1>2, LeaveFacts DEF Left, At, TypeOK
  <1>3. QED
    BY <1>1, <1>2

\* A call that moves is the only one, before and after.
LEMMA MovedAlone ==
  ASSUME OneCall, NEW c \in Callers, NEW from, NEW to, Moved(c, from, to),
         from # "out", to # "out"
  PROVE  /\ OneCall'
         /\ \A d \in Callers \ {c} : call[d].at = "out" /\ call'[d].at = "out"
  BY DEF OneCall, Moved

\* When a call returns nobody is left.
LEMMA LeftAlone ==
  ASSUME OneCall, NEW c \in Callers, NEW from, Left(c, from), from # "out"
  PROVE  /\ OneCall'
         /\ \A d \in Callers : call'[d].at = "out"
         /\ \A d \in Callers \ {c} : call[d].at = "out"
  BY DEF OneCall, Left

\* While an update works on a release the latest one is not settled.
LEMMA WorkingUnsettled ==
  ASSUME TypeOK, OneCall, CallIsTrue, NEW c \in Callers, Working(c),
         call[c].at \notin {"note", "exec"}
  PROVE  ~Settled
  <1>1. running # None /\ \A d \in Callers \ {c} : call[d].at = "out"
    BY DEF OneCall, Working
  <1>2. Version \in Nat /\ latest \in Nat /\ call[c].tag \in Nat
    BY <1>1, UpdaterAssumption, VersionsType DEF TypeOK, CallIsTrue, Version, Maybe
  <1>3. Version < latest
    BY <1>2 DEF CallIsTrue
  <1>4. QED
    BY <1>1, <1>2, <1>3 DEF Settled

\* A step away from the renames leaves the files as they should be.
LEMMA SelfKept ==
  ASSUME SelfIsThere, UNCHANGED <<self, old, torn, stranded, running>>,
         \A d \in Callers : call'[d].at = "swapIn" <=> call[d].at = "swapIn"
  PROVE  SelfIsThere'
  BY DEF SelfIsThere, BinaryInPlace

\* And so it does with what the state file names, if it writes the same name.
LEMMA NamedKept ==
  ASSUME NamedIsTrue, UNCHANGED <<self, old, running, lost, unnoted>>, corrupt' => corrupt,
         ~lost => state'.installed = state.installed,
         \A d \in Callers : call'[d].at = "swapIn" <=> call[d].at = "swapIn",
         \A d \in Callers : call'[d].at = "note" <=> call[d].at = "note"
  PROVE  NamedIsTrue'
  BY DEF NamedIsTrue, InstalledIsTrue

\* A step that leaves the release, the process and the account of the latest one
\* alone keeps the belt, if no call is left that has not been accounted for.
LEMMA BeltKept ==
  ASSUME TypeOK, AttemptsSpent, Belt,
         UNCHANGED <<latest, assets, rounds, lost, missed, execFails>>,
         ~lost => /\ state'.attempts[latest] = state.attempts[latest]
                  /\ state'.digests[latest] = state.digests[latest],
         Pending' => Pending,
         \A d \in Callers : Working(d)' /\ call'[d].tag = latest =>
            \/ Working(d) /\ call[d].tag = latest /\ call[d].digest = call'[d].digest
            \/ call'[d].digest = Digest(latest),
         Settled => Settled'
  PROVE  Belt'
  <1>1. Digest(latest)' = Digest(latest)
    BY DEF Digest
  <1> SUFFICES ASSUME ~lost, execFails = 0, Accounted PROVE Accounted'
    BY DEF Belt
  <1>2. rounds \in Nat /\ missed \in Nat /\ Charged \in Nat /\ Charged' = Charged
    BY ChargedFacts, ChargedKept DEF TypeOK
  <1>3. rounds + (IF Pending' THEN 1 ELSE 0) <= Charged + missed
    BY <1>2 DEF Accounted
  <1>4. QED
    BY <1>1, <1>2, <1>3 DEF Accounted, Current

-----------------------------------------------------------------------------
(* The checks of an update: the question, the attempt and the download.    *)

\* A call that begins has the flag to itself.
LEMMA BeginFacts ==
  ASSUME UpdaterInv, NEW c \in Callers, Begin(c)
  PROVE  Facts'
  <1> USE DEF UpdaterInv, Facts, release, files, history
  <1>1. /\ call[c].at = "out" /\ call'[c].at = "ask" /\ running # None /\ updating'
        /\ \A d \in Callers \ {c} : call'[d] = call[d]
        /\ UNCHANGED <<running, latest, assets, self, new, old, state, corrupt, history>>
    BY GoFacts DEF Begin, At, TypeOK, Places
  <1>2. \A d \in Callers : call[d].at = "out"
    BY DEF Begin, OneCall
  <1>3. OneCall'
    BY <1>1, <1>2 DEF OneCall
  <1>4. CallIsTrue'
    BY <1>1, <1>2 DEF CallIsTrue, Working, Version
  <1>5. SelfIsThere' /\ NamedIsTrue'
    BY <1>1, <1>2, SelfKept, NamedKept
  <1>6. AttemptsSpent'
    BY <1>1, <1>2 DEF AttemptsSpent
  <1>7. Belt'
    <2>1. ~Pending'
      BY <1>1, <1>2 DEF Pending
    <2>2. Settled => Settled'
      BY <1>1, <1>2 DEF Settled, Version
    <2>3. QED
      BY <1>1, <1>2, <2>1, <2>2, BeltKept DEF Working
  <1>8. QED
    BY <1>3, <1>4, <1>5, <1>6, <1>7

\* The answer about the latest release is what the call works from.
LEMMA AskFacts ==
  ASSUME UpdaterInv, NEW c \in Callers, Ask(c)
  PROVE  Facts'
  <1> USE DEF UpdaterInv, Facts, release, files, history
  <1>1. /\ call[c].at = "ask" /\ call'[c].at = "spend" /\ running # None
        /\ call'[c].tag = latest /\ call'[c].digest = Digest(latest) /\ Version < latest
        /\ \A d \in Callers \ {c} : call'[d] = call[d]
        /\ UNCHANGED <<running, updating, latest, assets, self, new, old, state, corrupt,
                       history>>
    <2>1. Version \in Nat /\ latest \in Nat
      BY UpdaterAssumption, VersionsType DEF Ask, At, TypeOK, Version, Maybe
    <2>2. QED
      BY <2>1 DEF Ask, At, TypeOK
  <1>2. \A d \in Callers \ {c} : call[d].at = "out"
    BY <1>1 DEF OneCall
  <1>3. OneCall'
    BY <1>1, <1>2 DEF OneCall
  <1>4. CallIsTrue'
    <2>1. latest \in Versions /\ latest <= latest
      BY VersionsType DEF TypeOK
    <2>2. QED
      BY <1>1, <1>2, <2>1 DEF CallIsTrue, Working, Version
  <1>5. SelfIsThere' /\ NamedIsTrue'
    BY <1>1, <1>2, SelfKept, NamedKept
  <1>6. AttemptsSpent'
    BY <1>1, <1>2 DEF AttemptsSpent
  <1>7. Belt'
    <2>1. ~Pending'
      BY <1>1, <1>2 DEF Pending
    <2>2. ~Settled
      <3>1. Version \in Nat /\ latest \in Nat
        BY <1>1, UpdaterAssumption, VersionsType DEF TypeOK, Version, Maybe
      <3>2. QED
        BY <1>1, <1>2, <3>1 DEF Settled
    <2>3. QED
      BY <1>1, <1>2, <2>1, <2>2, BeltKept DEF Working
  <1>8. QED
    BY <1>3, <1>4, <1>5, <1>6, <1>7

\* An update that returns before it has written anything, or after the last write
\* that matters to the account of the latest release.
LEMMA LeftFacts ==
  ASSUME UpdaterInv, NEW c \in Callers, NEW from \in Places \ {"out", "swapIn", "note", "exec"},
         Left(c, from),
         UNCHANGED <<latest, assets, self, history>>,
         old' \in {old, None},
         corrupt' => corrupt,
         \A v \in Versions : state'.attempts[v] <= MaxAttempts,
         ~lost => state'.installed = state.installed,
         ~lost => /\ state'.attempts[latest] = state.attempts[latest]
                  /\ state'.digests[latest] = state.digests[latest]
  PROVE  Facts'
  <1> USE DEF UpdaterInv, Facts, history
  <1>1. /\ OneCall' /\ call[c].at = from
        /\ \A d \in Callers : call'[d].at = "out"
        /\ \A d \in Callers \ {c} : call[d].at = "out"
        /\ running # None /\ UNCHANGED running
    BY LeftAlone DEF Left
  <1>2. CallIsTrue'
    BY <1>1 DEF CallIsTrue, Working
  <1>3. SelfIsThere'
    BY <1>1 DEF SelfIsThere, BinaryInPlace
  <1>4. NamedIsTrue'
    BY <1>1 DEF NamedIsTrue, InstalledIsTrue
  <1>5. AttemptsSpent'
    BY <1>1 DEF AttemptsSpent
  <1>6. Belt'
    <2>1. ~Pending'
      BY <1>1 DEF Pending
    <2>2. Settled => Settled'
      BY <1>1 DEF Settled, Version
    <2>3. QED
      BY <1>1, <2>1, <2>2, BeltKept DEF Working
  <1>7. QED
    BY <1>1, <1>2, <1>3, <1>4, <1>5, <1>6

\* An update that goes on, away from the renames.  What it does to the account of
\* the latest release is left to the action.
LEMMA MovedFacts ==
  ASSUME UpdaterInv, NEW c \in Callers,
         NEW from \in {"spend", "get", "admit"},
         NEW to \in {"get", "refund", "admit", "tag", "swapOut"},
         Moved(c, from, to),
         UNCHANGED <<latest, assets, self, old, torn, stranded, lost, unnoted>>,
         missed' >= missed,
         corrupt' => corrupt,
         to \in {"admit", "swapOut"} => new' \in Arts,
         to = "swapOut" => Declares[new'] = call[c].tag,
         ~lost => state'.installed = state.installed,
         \A v \in Versions : state'.attempts[v] <= MaxAttempts,
         ~lost /\ missed' = 0 /\ to \in {"get", "refund"} =>
           /\ state'.attempts[call[c].tag] >= 1
           /\ call[c].digest # None => state'.digests[call[c].tag] = call[c].digest
  PROVE  /\ OneCall' /\ CallIsTrue' /\ SelfIsThere' /\ NamedIsTrue' /\ AttemptsSpent'
         /\ \A d \in Callers \ {c} : call[d].at = "out" /\ call'[d].at = "out"
  <1> USE DEF UpdaterInv, Facts
  <1>1. /\ OneCall' /\ call[c].at = from /\ call'[c].at = to /\ call'[c].tag = call[c].tag
        /\ call'[c].digest = call[c].digest
        /\ \A d \in Callers \ {c} : call[d].at = "out" /\ call'[d].at = "out"
        /\ UNCHANGED running
    BY MovedAlone DEF Moved
  <1>2. CallIsTrue'
    BY <1>1 DEF CallIsTrue, Working, Version
  <1>3. SelfIsThere' /\ NamedIsTrue'
    BY <1>1, SelfKept, NamedKept
  <1>4. AttemptsSpent'
    BY <1>1 DEF AttemptsSpent
  <1>5. QED
    BY <1>1, <1>2, <1>3, <1>4

\* spendAttempt: the account of the latest release has one more attempt, for the
\* download that is about to begin; the count begins anew only when there have been
\* no rounds of what is published now.
LEMMA SpendFacts ==
  ASSUME UpdaterInv, TypeOK', NEW c \in Callers, Spend(c)
  PROVE  Facts'
  <1> USE DEF UpdaterInv, release, files, history
  <1> DEFINE v == call[c].tag
             s == Budgeted(Loaded, v, call[c].digest)
             spent == [s EXCEPT !.attempts[v] = @ + 1]
  <1>1. /\ At(c, "spend")
        /\ UNCHANGED <<latest, assets, self, new, old, running, torn, stranded, lost, unnoted,
                       rounds, execFails>>
    BY DEF Spend
  <1>2. v \in Versions /\ call[c].digest \in Maybe /\ Working(c) /\ call[c].at = "spend"
    BY <1>1 DEF At, Facts, CallIsTrue, Working, TypeOK, Call
  <1>3. /\ s \in UpdateState /\ s.installed = Loaded.installed
        /\ \A w \in Versions : s.attempts[w] <= Loaded.attempts[w]
        /\ \A w \in Versions \ {v} :
             s.attempts[w] = Loaded.attempts[w] /\ s.digests[w] = Loaded.digests[w]
        /\ call[c].digest # None => s.digests[v] = call[c].digest
        /\ call[c].digest = None => s.digests[v] = Loaded.digests[v]
        /\ call[c].digest = None \/ Loaded.digests[v] = call[c].digest =>
             s.attempts[v] = Loaded.attempts[v]
    <2>1. Loaded \in UpdateState
      BY LoadedType DEF TypeOK
    <2>2. QED
      BY <1>2, <2>1, BudgetedFacts
  <1>4. /\ spent \in UpdateState /\ spent.installed = s.installed /\ spent.digests = s.digests
        /\ spent.attempts[v] = s.attempts[v] + 1
        /\ \A w \in Versions \ {v} : spent.attempts[w] = s.attempts[w]
    BY <1>2, <1>3, SpentFacts
  <1>5. ~lost => Loaded = state
    BY DEF Facts, NamedIsTrue, Loaded
  <1>6. \A w \in Versions : /\ s.attempts[w] \in Nat /\ spent.attempts[w] \in Nat
                            /\ s.attempts[w] <= MaxAttempts
    <2> HIDE DEF s, spent, v
    <2>1. \A w \in Versions : s.attempts[w] \in Nat /\ spent.attempts[w] \in Nat
      BY <1>3, <1>4 DEF UpdateState
    <2>2. \A w \in Versions : state.attempts[w] \in Nat /\ state.attempts[w] <= MaxAttempts
      BY DEF TypeOK, UpdateState, Facts, AttemptsSpent
    <2>3. \A w \in Versions : /\ Loaded.attempts[w] \in Nat
                              /\ Loaded.attempts[w] <= state.attempts[w]
      BY LoadedType DEF TypeOK, UpdateState
    <2>4. QED
      BY <1>3, <2>1, <2>2, <2>3, UpdaterAssumption
  <1>7. CASE /\ s.attempts[v] < MaxAttempts /\ Save(spent)
             /\ missed' = missed + (faults' - faults)
             /\ Go(c, "get") /\ UNCHANGED updating
    <2>1. Moved(c, "spend", "get")
      BY <1>1, <1>7, Shapes DEF Places
    <2> HIDE DEF s, spent, v
    <2>a. \/ state' = spent /\ corrupt' = FALSE /\ faults' = faults
          \/ state' = state /\ corrupt' = corrupt /\ faults' = faults + 1
      BY <1>7, SaveFacts
    <2>b. /\ missed \in Nat /\ faults \in Int
          /\ faults' = faults => missed' = missed
          /\ faults' = faults + 1 => missed' = missed + 1
      BY <1>7, UpdaterAssumption DEF TypeOK
    <2>2. \A w \in Versions : state'.attempts[w] <= MaxAttempts
      <3>1. \A w \in Versions : spent.attempts[w] <= MaxAttempts
        BY <1>2, <1>4, <1>6, <1>7, UpdaterAssumption
      <3>2. QED
        BY <2>a, <3>1 DEF Facts, AttemptsSpent
    <2>3. /\ ~lost => state'.installed = state.installed
          /\ missed' = 0 => /\ state'.attempts[v] >= 1
                            /\ call[c].digest # None => state'.digests[v] = call[c].digest
      BY <1>2, <1>3, <1>4, <1>5, <1>6, <2>a, <2>b
    <2>c. missed' >= missed /\ (corrupt' => corrupt)
      BY <2>a, <2>b
    <2>4. /\ OneCall' /\ CallIsTrue' /\ SelfIsThere' /\ NamedIsTrue' /\ AttemptsSpent'
          /\ \A d \in Callers \ {c} : call[d].at = "out" /\ call'[d].at = "out"
      BY <1>1, <2>1, <2>2, <2>3, <2>c, MovedFacts DEF v
    <2>5. Belt'
      <3> SUFFICES ASSUME ~lost, execFails = 0 PROVE Accounted'
        BY <1>1 DEF Belt
      <3>1. Accounted
        BY <1>1, <1>2, WorkingUnsettled DEF Facts, Belt
      <3>2. Digest(latest)' = Digest(latest) /\ Digest(latest) \in Maybe /\ latest \in Versions
        BY <1>1 DEF Digest, TypeOK, Maybe
      <3>3. /\ rounds \in Nat /\ rounds <= Charged + missed
            /\ Charged \in Nat /\ Charged' \in Nat /\ missed' \in Nat
        <4>1. Charged \in Nat /\ Charged' \in Nat
          BY <2>4, ChargedFacts DEF Facts, TypeOK, AttemptsSpent, Charged, Digest, UpdateState
        <4>2. rounds \in Nat /\ missed' \in Nat
          BY <2>b DEF TypeOK
        <4>3. QED
          BY <2>b, <3>1, <4>1, <4>2 DEF Accounted
      <3>4. /\ call'[c].at = "get" /\ call'[c].tag = v /\ call'[c].digest = call[c].digest
            /\ Current(c)' <=> Current(c)
        BY <1>1, <2>1, <3>2 DEF Moved, Current, v
      <3>5. \A d \in Callers : Working(d)' => d = c
        BY <2>4 DEF Working
      <3>6. rounds > 0 => \A d \in Callers : (Working(d) /\ call[d].tag = latest => Current(d))'
        <4>1. rounds > 0 /\ v = latest => Current(c)
          BY <1>2, <3>1 DEF Accounted, v
        <4>2. QED
          BY <1>1, <3>4, <3>5, <4>1
      <3>7. rounds + (IF Pending' THEN 1 ELSE 0) <= Charged' + missed'
        <4>1. CASE v # latest
          <5>1. ~Pending'
            BY <1>1, <3>4, <3>5, <4>1 DEF Pending, Current, Working
          <5>2. /\ state'.attempts[latest] = state.attempts[latest]
                /\ state'.digests[latest] = state.digests[latest]
            BY <1>3, <1>4, <1>5, <2>a, <3>2, <4>1
          <5>3. Charged' = Charged
            BY <1>1, <5>2, ChargedKept
          <5>4. rounds <= Charged + missed'
            <6>1. missed \in Nat /\ missed' \in Nat /\ missed <= missed'
              BY <2>b, <2>c, <3>3
            <6>2. QED
              BY <3>3, <6>1, StillWithin
          <5>5. rounds <= Charged' + missed'
            BY <5>3, <5>4, Zenon
          <5>6. rounds + (IF Pending' THEN 1 ELSE 0) = rounds
            BY <3>3, <5>1
          <5>7. QED
            BY <5>5, <5>6, Zenon
        <4>2. CASE v = latest /\ rounds = 0 /\ ~Current(c)
          <5>1. ~Pending'
            BY <3>4, <3>5, <4>2 DEF Pending, Working
          <5>2. 0 <= Charged' + missed'
            BY <3>3, SumOfTwo, Zenon
          <5>3. QED
            BY <4>2, <5>1, <5>2
        <4>3. CASE v = latest /\ Current(c) /\ faults' = faults
          <5>1. state' = spent
            BY <2>a, <4>3, UpdaterAssumption DEF TypeOK
          <5>2. state'.attempts[latest] = s.attempts[latest] + 1
            BY <1>4, <4>3, <5>1
          <5>3. Digest(latest) # None => state'.digests[latest] = Digest(latest)
            BY <1>3, <1>4, <4>3, <5>1 DEF Current
          <5>4. Charged' = state'.attempts[latest]
            BY <1>1, <3>2, <5>3 DEF Charged
          <5>5. Charged <= s.attempts[latest]
            <6>1. s.attempts[latest] \in Nat
              BY <1>6, <3>2
            <6>2. CASE Digest(latest) # None /\ state.digests[latest] # Digest(latest)
              BY <6>1, <6>2 DEF Charged
            <6>3. CASE ~(Digest(latest) # None /\ state.digests[latest] # Digest(latest))
              <7>1. s.attempts[latest] = state.attempts[latest]
                BY <1>3, <1>5, <4>3, <6>3 DEF Current
              <7>2. QED
                BY <6>1, <6>3, <7>1 DEF Charged
            <6>4. QED
              BY <6>2, <6>3
          <5>6. s.attempts[latest] \in Nat
            BY <1>6, <3>2
          <5>7. rounds + 1 <= s.attempts[latest] + 1 + missed
            BY <2>b, <3>3, <5>5, <5>6
          <5>8. QED
            BY <2>b, <3>3, <4>3, <5>2, <5>4, <5>6, <5>7
        <4>4. CASE faults' = faults + 1
          <5>1. state' = state /\ missed' = missed + 1
            BY <2>a, <2>b, <4>4
          <5>2. Charged' = Charged
            BY <1>1, <5>1, ChargedKept
          <5>3. QED
            BY <2>b, <3>3, <5>1, <5>2
        <4>5. QED
          <5>1. rounds > 0 /\ v = latest => Current(c)
            BY <1>2, <3>1 DEF Accounted, v
          <5>2. rounds = 0 \/ rounds > 0
            BY <3>3
          <5>3. QED
            BY <2>a, <4>1, <4>2, <4>3, <4>4, <5>1, <5>2, Zenon
      <3>8. QED
        BY <1>1, <3>6, <3>7 DEF Accounted
    <2>6. QED
      BY <2>4, <2>5 DEF Facts
  <1>8. CASE Leave(c) /\ UNCHANGED <<state, corrupt, missed>>
    <2>1. Left(c, "spend")
      BY <1>1, <1>8, Shapes DEF Places
    <2>2. \A w \in Versions : state'.attempts[w] <= MaxAttempts
      BY <1>8 DEF Facts, AttemptsSpent
    <2> HIDE DEF s, spent, v
    <2>3. QED
      BY <1>1, <1>8, <2>1, <2>2, LeftFacts DEF Places
  <1>9. QED
    BY <1>7, <1>8 DEF Spend

\* The download arrives: a round more, paid for by the attempt that was pending.
LEMMA GetOkFacts ==
  ASSUME UpdaterInv, TypeOK', NEW c \in Callers, GetOk(c)
  PROVE  Facts'
  <1> USE DEF UpdaterInv, release, files, history
  <1>1. /\ At(c, "get") /\ call[c].at = "get" /\ Working(c)
        /\ UNCHANGED <<latest, assets, self, old, running, state, corrupt, torn, stranded,
                       lost, missed, unnoted, execFails>>
        /\ rounds' = IF Current(c) THEN rounds + 1 ELSE rounds
    BY DEF GetOk, At, Working, Current
  <1>2. Moved(c, "get", "admit")
    BY Shapes DEF GetOk, Places
  <1>3. new' \in Arts
    BY <1>1, UpdaterAssumption DEF GetOk, Facts, CallIsTrue
  <1>4. /\ OneCall' /\ CallIsTrue' /\ SelfIsThere' /\ NamedIsTrue' /\ AttemptsSpent'
        /\ \A d \in Callers \ {c} : call[d].at = "out" /\ call'[d].at = "out"
    <2>1. (\A w \in Versions : state'.attempts[w] <= MaxAttempts) /\ missed \in Nat
      BY <1>1 DEF Facts, AttemptsSpent, TypeOK
    <2>2. QED
      BY <1>1, <1>2, <1>3, <2>1, MovedFacts
  <1>5. Belt'
    <2> SUFFICES ASSUME ~lost, execFails = 0 PROVE Accounted'
      BY <1>1 DEF Belt
    <2>1. Accounted
      BY <1>1, WorkingUnsettled DEF Facts, Belt
    <2>2. /\ Digest(latest)' = Digest(latest) /\ rounds \in Nat
          /\ Charged \in Nat /\ missed \in Nat /\ Charged' = Charged
      BY <1>1, ChargedFacts, ChargedKept DEF Digest, TypeOK, Facts
    <2>3. call'[c].at = "admit" /\ (Current(c)' <=> Current(c))
      BY <1>1, <1>2, <2>2 DEF Moved, Current
    <2>4. ~Pending' /\ \A d \in Callers : Working(d)' => d = c
      BY <1>4, <2>3 DEF Pending, Working
    <2>5. CASE Current(c)
      <3>1. Pending
        BY <1>1, <2>5 DEF Pending
      <3>2. rounds + 1 <= Charged + missed
        BY <2>1, <3>1 DEF Accounted
      <3>3. QED
        BY <1>1, <2>2, <2>3, <2>4, <2>5, <3>2 DEF Accounted
    <2>6. CASE ~Current(c)
      <3>1. rounds = 0 \/ call[c].tag # latest
        BY <1>1, <2>1, <2>2, <2>6 DEF Accounted
      <3>2. call'[c].tag = call[c].tag
        BY <1>2 DEF Moved
      <3>3. QED
        BY <1>1, <2>1, <2>2, <2>3, <2>4, <2>6, <3>1, <3>2 DEF Accounted
    <2>7. QED
      BY <2>5, <2>6
  <1>6. QED
    BY <1>4, <1>5 DEF Facts

\* An update that goes on without touching the account of the latest release.
LEMMA QuietMove ==
  ASSUME UpdaterInv, NEW c \in Callers,
         NEW from \in {"get", "admit"}, NEW to \in {"get", "refund", "tag", "swapOut"},
         Moved(c, from, to), to \in {"get", "refund"} => from = "get",
         UNCHANGED <<latest, assets, self, old, history>>,
         corrupt' => corrupt,
         to = "swapOut" => new' \in Arts /\ Declares[new'] = call[c].tag,
         \A v \in Versions : state'.attempts[v] <= MaxAttempts,
         ~lost => /\ state'.installed = state.installed
                  /\ state'.attempts = state.attempts /\ state'.digests = state.digests
  PROVE  Facts'
  <1> USE DEF UpdaterInv, history
  <1>1. /\ call[c].at = from /\ call'[c].at = to /\ call'[c].tag = call[c].tag
        /\ call'[c].digest = call[c].digest
    BY DEF Moved
  <1>0. missed \in Nat
    BY DEF TypeOK
  <1>2. ~lost /\ missed = 0 /\ to \in {"get", "refund"} =>
          /\ state'.attempts[call[c].tag] >= 1
          /\ call[c].digest # None => state'.digests[call[c].tag] = call[c].digest
    BY <1>1 DEF Facts, AttemptsSpent
  <1>3. /\ OneCall' /\ CallIsTrue' /\ SelfIsThere' /\ NamedIsTrue' /\ AttemptsSpent'
        /\ \A d \in Callers \ {c} : call[d].at = "out" /\ call'[d].at = "out"
    BY <1>0, <1>2, MovedFacts
  <1>4. Belt'
    <2>1. Working(c) /\ ~Settled
      BY <1>1, WorkingUnsettled DEF Working, Facts
    <2>2. Digest(latest)' = Digest(latest)
      BY DEF Digest
    <2>3. Pending' => Pending
      BY <1>1, <1>3, <2>2 DEF Pending, Current
    <2>4. QED
      BY <1>1, <1>3, <2>1, <2>3, BeltKept DEF Working, Facts
  <1>5. QED
    BY <1>3, <1>4 DEF Facts

\* A download that fails gives its attempt back later.
LEMMA GetFailsFacts ==
  ASSUME UpdaterInv, NEW c \in Callers, GetFails(c)
  PROVE  Facts'
  <1> USE DEF release, files, history
  <1>1. /\ At(c, "get")
        /\ UNCHANGED <<latest, assets, self, old, running, updating, history, state, corrupt>>
        /\ \A v \in Versions : state.attempts[v] <= MaxAttempts
    BY DEF GetFails, UpdaterInv, Facts, AttemptsSpent
  <1>2. CASE call' = [call EXCEPT ![c].try = @ + 1]
    <2>1. Moved(c, "get", "get")
      BY <1>1, <1>2 DEF Moved, At, UpdaterInv, TypeOK, Call
    <2>2. QED
      BY <1>1, <2>1, QuietMove
  <1>3. CASE Go(c, "refund")
    <2>1. Moved(c, "get", "refund")
      BY <1>1, <1>3, Shapes DEF Places, UpdaterInv
    <2>2. QED
      BY <1>1, <2>1, QuietMove
  <1>4. QED
    BY <1>2, <1>3 DEF GetFails

\* refundAttempt: what is given back is the attempt of the download that failed.
LEMMA RefundFacts ==
  ASSUME UpdaterInv, TypeOK', NEW c \in Callers, Refund(c)
  PROVE  Facts'
  <1> USE DEF UpdaterInv, release, files, history
  <1> DEFINE v == call[c].tag
  <1>1. /\ At(c, "refund") /\ call[c].at = "refund" /\ Working(c)
        /\ UNCHANGED <<latest, assets, self, new, old, running, history>>
        /\ \/ state' = Refunded(Loaded, v) /\ corrupt' = FALSE
           \/ UNCHANGED <<state, corrupt>>
    BY SaveFacts DEF Refund, At, Working
  <1>2. Left(c, "refund")
    BY Shapes DEF Refund, Places
  <1>3. /\ OneCall' /\ \A d \in Callers : call'[d].at = "out"
        /\ \A d \in Callers \ {c} : call[d].at = "out"
    BY <1>2, LeftAlone DEF Facts
  <1>4. v \in Versions /\ Loaded \in UpdateState /\ (~lost => Loaded = state)
    BY <1>1, LoadedType DEF Facts, CallIsTrue, TypeOK, NamedIsTrue, Loaded
  <1>5. \/ /\ state'.installed = Loaded.installed /\ state'.digests = Loaded.digests
           /\ state'.attempts[v] = IF Loaded.attempts[v] > 0 THEN Loaded.attempts[v] - 1 ELSE 0
           /\ \A w \in Versions \ {v} : state'.attempts[w] = Loaded.attempts[w]
        \/ UNCHANGED state
    BY <1>1, <1>4, RefundedFacts
  <1> HIDE DEF v
  <1>6. \A w \in Versions : /\ Loaded.attempts[w] \in Nat /\ state.attempts[w] \in Nat
                            /\ Loaded.attempts[w] <= state.attempts[w]
                            /\ state.attempts[w] <= MaxAttempts
    BY LoadedType DEF TypeOK, UpdateState, Facts, AttemptsSpent
  <1>7. \A w \in Versions : state'.attempts[w] <= MaxAttempts
    BY <1>4, <1>5, <1>6, UpdaterAssumption
  <1>8. AttemptsSpent' /\ CallIsTrue'
    BY <1>1, <1>3, <1>7 DEF AttemptsSpent, Facts, CallIsTrue, Working
  <1>9. SelfIsThere' /\ NamedIsTrue'
    BY <1>1, <1>3, <1>4, <1>5, SelfKept, NamedKept DEF Facts
  <1>10. Belt'
    <2> SUFFICES ASSUME ~lost, execFails = 0 PROVE Accounted'
      BY <1>1 DEF Belt
    <2>1. Accounted
      BY <1>1, WorkingUnsettled DEF Facts, Belt
    <2>2. /\ rounds \in Nat /\ latest \in Versions /\ missed \in Nat
          /\ Charged \in Nat /\ Charged' \in Nat
      <3>1. Charged \in Nat /\ Charged' \in Nat
        BY DEF TypeOK, Charged, Digest, UpdateState
      <3>2. QED
        BY <3>1 DEF TypeOK
    <2>3. ~Pending' /\ \A d \in Callers : ~Working(d)'
      BY <1>3 DEF Pending, Working
    <2>4. rounds <= Charged' + missed
      <3>1. CASE v # latest \/ UNCHANGED state
        <4>1. /\ state'.attempts[latest] = state.attempts[latest]
              /\ state'.digests[latest] = state.digests[latest]
          BY <1>4, <1>5, <2>2, <3>1
        <4>2. Charged' = Charged
          BY <1>1, <4>1, ChargedKept
        <4>3. QED
          BY <2>1, <2>2, <4>2 DEF Accounted
      <3>2. CASE v = latest /\ Current(c) /\ ~UNCHANGED state
        <4>1. Pending
          BY <1>1, <3>2 DEF Pending
        <4>2. rounds + 1 <= Charged + missed
          BY <2>1, <4>1 DEF Accounted
        <4>3. Charged <= Charged' + 1
          <5>1. /\ state'.digests = state.digests /\ state.attempts[latest] \in Nat
                /\ state'.attempts[latest] = IF state.attempts[latest] > 0
                                             THEN state.attempts[latest] - 1 ELSE 0
            BY <1>4, <1>5, <1>6, <3>2
          <5>2. state.attempts[latest] <= state'.attempts[latest] + 1
            BY <5>1
          <5>3. Digest(latest)' = Digest(latest) /\ latest' = latest
            BY <1>1 DEF Digest
          <5>4. state'.attempts[latest] \in Nat
            BY <5>1
          <5>5. QED
            BY <5>1, <5>2, <5>3, <5>4 DEF Charged
        <4>4. QED
          BY <2>2, <4>2, <4>3 DEF Charged
      <3>3. CASE v = latest /\ ~Current(c)
        <4>1. rounds = 0
          BY <1>1, <2>1, <2>2, <3>3 DEF Accounted, v
        <4>2. 0 <= Charged' + missed
          BY ONLY <2>2 DEF Charged
        <4>3. QED
          BY <4>1, <4>2
      <3>4. QED
        BY <3>1, <3>2, <3>3
    <2>5. QED
      BY <1>1, <2>2, <2>3, <2>4 DEF Accounted
  <1>11. QED
    BY <1>3, <1>8, <1>9, <1>10 DEF Facts

-----------------------------------------------------------------------------
(* What an update does with the artifact.                                  *)

\* The ways out that leave the account and the binary alone.
LEMMA NothingDone ==
  ASSUME UpdaterInv, NEW c \in Callers, NoAsk(c) \/ AdmitFails(c) \/ SwapOutFails(c)
  PROVE  Facts'
  <1> USE DEF release, files, history
  <1>1. /\ UNCHANGED <<latest, assets, self, running, history, state, corrupt>>
        /\ Leave(c)
        /\ \A v \in Versions : state.attempts[v] <= MaxAttempts
    BY DEF NoAsk, AdmitFails, SwapOutFails, UpdaterInv, Facts, AttemptsSpent
  <1>2. CASE NoAsk(c)
    <2>1. Left(c, "ask") /\ UNCHANGED old
      BY <1>2, <1>1, Shapes DEF NoAsk, Places, UpdaterInv
    <2>2. QED
      BY <1>1, <2>1, LeftFacts DEF Places
  <1>3. CASE AdmitFails(c)
    <2>1. Left(c, "admit") /\ UNCHANGED old
      BY <1>3, <1>1, Shapes DEF AdmitFails, Places, UpdaterInv
    <2>2. QED
      BY <1>1, <2>1, LeftFacts DEF Places
  <1>4. CASE SwapOutFails(c)
    <2>1. Left(c, "swapOut") /\ old' \in {old, None}
      BY <1>4, <1>1, Shapes DEF SwapOutFails, Places, UpdaterInv
    <2>2. QED
      BY <1>1, <2>1, LeftFacts DEF Places
  <1>5. QED
    BY <1>2, <1>3, <1>4

\* What passes the checks is the release it says it is.
LEMMA AdmitFacts ==
  ASSUME UpdaterInv, NEW c \in Callers, Admit(c)
  PROVE  Facts'
  <1> USE DEF release, files, history
  <1>1. /\ UNCHANGED <<latest, assets, self, new, old, history, state, corrupt>>
        /\ \A v \in Versions : state.attempts[v] <= MaxAttempts
        /\ new \in Arts /\ Declares[new] = call[c].tag
    BY DEF Admit, Admissible, At, UpdaterInv, Facts, AttemptsSpent, CallIsTrue
  <1>2. Moved(c, "admit", "swapOut")
    BY Shapes DEF Admit, Places, UpdaterInv
  <1>3. QED
    BY <1>1, <1>2, QuietMove

\* Both writes of a refusal leave the account alone.
LEMMA RefuseFacts ==
  ASSUME UpdaterInv, NEW c \in Callers, RefuseSha(c) \/ RefuseTag(c)
  PROVE  Facts'
  <1> USE DEF release, files, history
  <1>1. /\ UNCHANGED <<latest, assets, self, old, running, history>>
        /\ Loaded \in UpdateState /\ (~lost => Loaded = state)
        /\ call[c].digest \in Maybe
    BY LoadedType DEF RefuseSha, RefuseTag, UpdaterInv, Facts, TypeOK, NamedIsTrue, Loaded, Call
  <1>2. \A v \in Versions : /\ state.attempts[v] <= MaxAttempts
                            /\ Loaded.attempts[v] <= MaxAttempts
    <2>1. \A v \in Versions : /\ Loaded.attempts[v] \in Nat /\ state.attempts[v] \in Nat
                              /\ Loaded.attempts[v] <= state.attempts[v]
                              /\ state.attempts[v] <= MaxAttempts
      BY LoadedType DEF UpdaterInv, TypeOK, UpdateState, Facts, AttemptsSpent
    <2>2. QED
      BY <2>1, UpdaterAssumption
  <1>3. CASE RefuseSha(c)
    <2>1. Moved(c, "admit", "tag") /\ new \in Arts
      BY <1>1, <1>3, Shapes DEF RefuseSha, At, Places, UpdaterInv, Facts, CallIsTrue
    <2>2. \/ UNCHANGED <<state, corrupt>>
          \/ /\ state'.installed = Loaded.installed /\ state'.attempts = Loaded.attempts
             /\ state'.digests = Loaded.digests /\ corrupt' = FALSE
      <3> DEFINE b == [Loaded EXCEPT !.refused = @ \cup {new}]
      <3>1. b.installed = Loaded.installed /\ b.attempts = Loaded.attempts
            /\ b.digests = Loaded.digests
        BY <1>1, <2>1, RefusedFacts
      <3>2. UNCHANGED <<state, corrupt>> \/ (state' = b /\ corrupt' = FALSE)
        BY <1>3, SaveFacts DEF RefuseSha, UpdaterInv
      <3> HIDE DEF b
      <3>3. QED
        BY <3>1, <3>2
    <2>3. QED
      BY <1>1, <1>2, <2>1, <2>2, QuietMove
  <1>4. CASE RefuseTag(c)
    <2>1. Left(c, "tag")
      BY <1>1, <1>4, Shapes DEF RefuseTag, Places, UpdaterInv
    <2>2. call[c].tag \in Versions
      BY <2>1 DEF Left, UpdaterInv, Facts, CallIsTrue, Working
    <2>3. \/ UNCHANGED <<state, corrupt>>
          \/ /\ state'.installed = Loaded.installed /\ state'.attempts = Loaded.attempts
             /\ state'.digests = Loaded.digests /\ corrupt' = FALSE
      <3> DEFINE b == [Loaded EXCEPT !.refusedTags[call[c].tag] = call[c].digest]
      <3>1. b.installed = Loaded.installed /\ b.attempts = Loaded.attempts
            /\ b.digests = Loaded.digests
        BY <1>1, <2>2, RefusedFacts
      <3>2. UNCHANGED <<state, corrupt>> \/ (state' = b /\ corrupt' = FALSE)
        BY <1>4, SaveFacts DEF RefuseTag, UpdaterInv
      <3> HIDE DEF b
      <3>3. QED
        BY <3>1, <3>2
    <2>4. QED
      BY <1>1, <1>2, <2>1, <2>3, LeftFacts DEF Places
  <1>5. QED
    BY <1>3, <1>4

\* The two renames.  Between them the old binary is aside and the state file still
\* names it; a failure of the second puts it back.
LEMMA SwapOutFacts ==
  ASSUME UpdaterInv, NEW c \in Callers, SwapOut(c)
  PROVE  Facts'
  <1> USE DEF UpdaterInv, release, files, history
  <1>1. /\ UNCHANGED <<latest, assets, new, running, history, state, corrupt>>
        /\ old' = self /\ self' = None
    BY DEF SwapOut
  <1>2. Moved(c, "swapOut", "swapIn")
    BY Shapes DEF SwapOut, Places
  <1>3. /\ OneCall' /\ \A d \in Callers \ {c} : call[d].at = "out" /\ call'[d].at = "out"
    BY <1>2, MovedAlone DEF Facts
  <1>4. /\ running # None /\ call[c].at = "swapOut" /\ call'[c].at = "swapIn"
        /\ call'[c].tag = call[c].tag /\ call'[c].digest = call[c].digest
    BY <1>2 DEF Moved
  <1>5. self # None /\ (~lost /\ ~unnoted => state.installed = self)
    BY <1>3, <1>4 DEF SwapOut, Facts, NamedIsTrue, InstalledIsTrue
  <1>6. CallIsTrue'
    BY <1>1, <1>3, <1>4 DEF Facts, CallIsTrue, Working, Version
  <1>7. SelfIsThere'
    BY <1>1, <1>3, <1>4, <1>5 DEF SelfIsThere, BinaryInPlace
  <1>8. NamedIsTrue'
    BY <1>1, <1>3, <1>4, <1>5 DEF Facts, NamedIsTrue, InstalledIsTrue
  <1>9. AttemptsSpent'
    BY <1>1, <1>3, <1>4 DEF Facts, AttemptsSpent
  <1>10. Belt'
    <2>1. ~Settled /\ Working(c)
      BY <1>4, WorkingUnsettled DEF Working, Facts
    <2>2. ~Pending'
      BY <1>3, <1>4 DEF Pending
    <2>3. QED
      BY <1>1, <1>3, <1>4, <2>1, <2>2, BeltKept DEF Facts, Working
  <1>11. QED
    BY <1>3, <1>6, <1>7, <1>8, <1>9, <1>10 DEF Facts

\* The swap puts it in place,
LEMMA SwapInFacts ==
  ASSUME UpdaterInv, NEW c \in Callers, SwapIn(c)
  PROVE  Facts'
  <1> USE DEF UpdaterInv, release, files, history
  <1>1. /\ UNCHANGED <<latest, assets, old, running, history, state, corrupt>>
        /\ self' = new
    BY DEF SwapIn
  <1>2. Moved(c, "swapIn", "note")
    BY Shapes DEF SwapIn, Places
  <1>3. /\ OneCall' /\ \A d \in Callers \ {c} : call[d].at = "out" /\ call'[d].at = "out"
    BY <1>2, MovedAlone DEF Facts
  <1>4. /\ running # None /\ call[c].at = "swapIn" /\ call'[c].at = "note"
        /\ call'[c].tag = call[c].tag /\ call'[c].digest = call[c].digest
    BY <1>2 DEF Moved
  <1>5. new \in Arts /\ new # None /\ Declares[new] = call[c].tag
    BY <1>4, UpdaterAssumption DEF Facts, CallIsTrue
  <1>6. CallIsTrue'
    BY <1>1, <1>3, <1>4, <1>5 DEF Facts, CallIsTrue, Working, Version
  <1>7. SelfIsThere' /\ NamedIsTrue'
    BY <1>1, <1>3, <1>4, <1>5 DEF SelfIsThere, BinaryInPlace, Facts, NamedIsTrue, InstalledIsTrue
  <1>8. AttemptsSpent'
    BY <1>1, <1>3, <1>4 DEF Facts, AttemptsSpent
  <1>9. Belt'
    <2>1. ~Settled /\ Working(c)
      BY <1>4, WorkingUnsettled DEF Working, Facts
    <2>2. ~Pending'
      BY <1>3, <1>4 DEF Pending
    <2>3. QED
      BY <1>1, <1>3, <1>4, <2>1, <2>2, BeltKept DEF Facts, Working
  <1>10. QED
    BY <1>3, <1>6, <1>7, <1>8, <1>9 DEF Facts

\* or the old binary goes back, or stays aside for good.
LEMMA SwapInFailsFacts ==
  ASSUME UpdaterInv, NEW c \in Callers, SwapInFails(c)
  PROVE  Facts'
  <1> USE DEF UpdaterInv, release, files, history
  <1>1. /\ UNCHANGED <<latest, assets, new, running, torn, lost, missed, unnoted, rounds,
                       execFails, state, corrupt>>
        /\ \/ self' = old /\ old' = None /\ stranded' = stranded
           \/ self' = self /\ old' = old /\ stranded'
    BY DEF SwapInFails
  <1>2. Left(c, "swapIn")
    BY Shapes DEF SwapInFails, Places
  <1>3. /\ OneCall' /\ \A d \in Callers : call'[d].at = "out"
        /\ \A d \in Callers \ {c} : call[d].at = "out"
        /\ call[c].at = "swapIn" /\ running # None
    BY <1>2, LeftAlone DEF Facts, Left
  <1>4. self = None /\ old # None /\ (~lost /\ ~unnoted => state.installed = old)
    BY <1>3 DEF Facts, SelfIsThere, NamedIsTrue
  <1>5. CallIsTrue' /\ AttemptsSpent'
    BY <1>1, <1>3 DEF Facts, CallIsTrue, AttemptsSpent, Working
  <1>6. SelfIsThere' /\ NamedIsTrue'
    BY <1>1, <1>3, <1>4 DEF SelfIsThere, BinaryInPlace, Facts, NamedIsTrue, InstalledIsTrue
  <1>7. Belt'
    <2>1. ~Settled /\ Working(c)
      BY <1>3, WorkingUnsettled DEF Working, Facts
    <2>2. ~Pending'
      BY <1>3 DEF Pending
    <2>3. QED
      BY <1>1, <1>3, <2>1, <2>2, BeltKept DEF Facts, Working
  <1>8. QED
    BY <1>3, <1>5, <1>6, <1>7 DEF Facts

\* noteInstalled: if the release noted is the latest the account is closed, because
\* there is nothing left to ask for; if it is an older one the latest keeps its own.
LEMMA NoteFacts ==
  ASSUME UpdaterInv, TypeOK', NEW c \in Callers, Note(c)
  PROVE  Facts'
  <1> USE DEF UpdaterInv, release, files, history
  <1> DEFINE v == call[c].tag
  <1>1. /\ UNCHANGED <<latest, assets, self, new, old, running, torn, stranded, lost, missed,
                       rounds, execFails>>
        /\ \/ state' = Installed(Loaded, v, self) /\ corrupt' = FALSE
           \/ UNCHANGED <<state, corrupt>> /\ unnoted'
    <2>1. Save(Installed(Loaded, v, self)) /\ unnoted' = (faults' # faults)
      BY DEF Note
    <2>2. faults \in Int /\ faults # faults + 1
      BY UpdaterAssumption DEF TypeOK
    <2>3. QED
      BY <2>1, <2>2, SaveFacts DEF Note
  <1>2. Moved(c, "note", "exec")
    BY Shapes DEF Note, Places
  <1>3. /\ OneCall' /\ \A d \in Callers \ {c} : call[d].at = "out" /\ call'[d].at = "out"
        /\ running # None /\ call[c].at = "note" /\ call'[c].at = "exec"
        /\ call'[c].tag = v /\ call'[c].digest = call[c].digest
    BY <1>2, MovedAlone DEF Facts, Moved
  <1>4. /\ self \in Arts /\ self # None /\ Declares[self] = v /\ v \in Versions /\ v \in Nat
        /\ v <= latest /\ latest \in Versions /\ latest \in Nat
        /\ Loaded \in UpdateState /\ (~lost => Loaded = state)
    BY <1>3, UpdaterAssumption, VersionsType, LoadedType
       DEF Facts, CallIsTrue, Working, TypeOK, NamedIsTrue, Loaded
  <1>5. \/ /\ state'.installed = self
           /\ \A w \in Versions : state'.attempts[w] <= Loaded.attempts[w]
           /\ \A w \in Versions : w > v =>
                state'.attempts[w] = Loaded.attempts[w] /\ state'.digests[w] = Loaded.digests[w]
        \/ UNCHANGED state /\ unnoted'
    BY <1>1, <1>4, InstalledFacts DEF Maybe
  <1> HIDE DEF v
  <1>6. \A w \in Versions : /\ Loaded.attempts[w] \in Nat /\ state.attempts[w] \in Nat
                            /\ state'.attempts[w] \in Nat
                            /\ Loaded.attempts[w] <= state.attempts[w]
                            /\ state.attempts[w] <= MaxAttempts
    BY LoadedType DEF TypeOK, UpdateState, Facts, AttemptsSpent
  <1>7. \A w \in Versions : state'.attempts[w] <= MaxAttempts
    BY <1>5, <1>6, UpdaterAssumption
  <1>8. AttemptsSpent'
    BY <1>1, <1>3, <1>7 DEF AttemptsSpent
  <1>9. CallIsTrue'
    BY <1>1, <1>3, <1>4 DEF Facts, CallIsTrue, Working, Version, v
  <1>10. SelfIsThere'
    BY <1>1, <1>3, SelfKept DEF Facts
  <1>11. NamedIsTrue'
    BY <1>1, <1>3, <1>5 DEF Facts, NamedIsTrue, InstalledIsTrue
  <1>12. Belt'
    <2> SUFFICES ASSUME ~lost, execFails = 0 PROVE Accounted' \/ Settled'
      BY <1>1 DEF Belt
    <2>1. rounds \in Nat /\ missed \in Nat /\ Charged \in Nat /\ Charged <= MaxAttempts
      BY ChargedFacts DEF TypeOK, Facts
    <2>2. CASE Settled
      BY <1>1, <1>3, <2>2 DEF Settled
    <2>3. CASE Accounted /\ v = latest
      <3>1. rounds <= Charged + missed
        BY <2>1, <2>3 DEF Accounted
      <3>2. rounds <= MaxAttempts + missed
        BY <2>1, <3>1, UpdaterAssumption
      <3>3. QED
        BY <1>1, <1>3, <1>4, <2>3, <3>2 DEF Settled
    <2>4. CASE Accounted /\ v # latest
      <3>1. latest > v
        BY <1>4, <2>4
      <3>2. state'.attempts[latest] = state.attempts[latest]
            /\ state'.digests[latest] = state.digests[latest]
        BY <1>4, <1>5, <3>1
      <3>3. Charged' = Charged
        BY <1>1, <3>2, ChargedKept
      <3>4. ~Pending' /\ \A d \in Callers : ~(Working(d)' /\ call'[d].tag = latest)
        BY <1>3, <2>4 DEF Pending, Working
      <3>5. rounds <= Charged + missed
        BY <2>1, <2>4 DEF Accounted
      <3>6. QED
        BY <1>1, <2>1, <2>4, <3>3, <3>4, <3>5 DEF Accounted
    <2>5. QED
      BY <2>2, <2>3, <2>4 DEF Facts, Belt
  <1>13. QED
    BY <1>3, <1>8, <1>9, <1>10, <1>11, <1>12 DEF Facts

\* The process is gone: nothing is under way, and what was accounted for still is.
LEMMA DiedFacts ==
  ASSUME UpdaterInv, Dies,
         UNCHANGED <<latest, assets, self, old, stranded, lost, missed, unnoted, rounds,
                     execFails, state, corrupt>>,
         torn => torn', self = None => torn'
  PROVE  Facts'
  <1> USE DEF UpdaterInv, Facts
  <1>1. running' = None /\ \A d \in Callers : call'[d].at = "out"
    BY DiesFacts
  <1>2. OneCall' /\ CallIsTrue' /\ AttemptsSpent'
    BY <1>1 DEF OneCall, CallIsTrue, AttemptsSpent, Working
  <1>3. SelfIsThere' /\ NamedIsTrue'
    BY <1>1 DEF SelfIsThere, BinaryInPlace, NamedIsTrue, InstalledIsTrue
  <1>4. Belt'
    <2>1. ~Pending'
      BY <1>1 DEF Pending
    <2>2. Settled => Settled'
      BY <1>1 DEF Settled
    <2>3. QED
      BY <1>1, <2>1, <2>2, BeltKept DEF Working
  <1>5. QED
    BY <1>2, <1>3, <1>4

\* The new binary cannot be executed: the old version goes on under the new one.
LEMMA ExecFailsFacts ==
  ASSUME UpdaterInv, NEW c \in Callers, ExecFails(c)
  PROVE  Facts'
  <1> USE DEF UpdaterInv, release, files, history
  <1>1. /\ UNCHANGED <<latest, assets, self, new, old, running, torn, stranded, lost, missed,
                       unnoted, rounds, state, corrupt>>
        /\ execFails' = execFails + 1
    BY DEF ExecFails
  <1>2. Left(c, "exec")
    BY Shapes DEF ExecFails, Places
  <1>3. /\ OneCall' /\ \A d \in Callers : call'[d].at = "out"
        /\ \A d \in Callers \ {c} : call[d].at = "out"
        /\ call[c].at = "exec" /\ running # None
    BY <1>2, LeftAlone DEF Facts, Left
  <1>4. CallIsTrue' /\ AttemptsSpent'
    BY <1>1, <1>3 DEF Facts, CallIsTrue, AttemptsSpent, Working
  <1>5. SelfIsThere' /\ NamedIsTrue'
    BY <1>1, <1>3, SelfKept, NamedKept DEF Facts
  <1>6. Belt'
    BY <1>1 DEF Belt, TypeOK
  <1>7. QED
    BY <1>3, <1>4, <1>5, <1>6 DEF Facts

-----------------------------------------------------------------------------
(* The node and its surroundings.                                          *)

\* main: what starts is what is at the path; if that is the latest release, or newer,
\* it settles the account.
LEMMA BootFacts ==
  ASSUME UpdaterInv, TypeOK', Boot
  PROVE  Facts'
  <1> USE DEF UpdaterInv, release, files, history
  <1>1. /\ UNCHANGED <<latest, assets, self, new, old, call, updating, torn, stranded, lost,
                       missed, rounds, execFails>>
        /\ running = None /\ self # None /\ running' = self
    BY DEF Boot
  <1>2. \A d \in Callers : call[d].at = "out"
    BY <1>1 DEF Facts, OneCall
  <1>3. /\ self \in Arts /\ Declares[self] \in Nat /\ latest \in Nat /\ latest \in Versions
        /\ rounds \in Nat
    BY <1>1, UpdaterAssumption, VersionsType DEF TypeOK, Maybe
  <1>4. \/ UNCHANGED <<state, corrupt>> /\ (corrupt \/ state.installed = self \/ unnoted')
        \/ state' = Installed(state, Declares[self], self) /\ corrupt' = FALSE
    <2>1. /\ unnoted' = (faults' # faults)
          /\ IF corrupt \/ state.installed = self THEN UNCHANGED <<state, corrupt, faults>>
             ELSE Save(Installed(state, Declares[self], self))
      BY DEF Boot
    <2>2. faults \in Int /\ faults # faults + 1
      BY UpdaterAssumption DEF TypeOK
    <2>3. QED
      BY <2>1, <2>2, SaveFacts
  <1>5. /\ \A w \in Versions : state'.attempts[w] <= state.attempts[w]
        /\ \A w \in Versions : w > Declares[self] =>
             state'.attempts[w] = state.attempts[w] /\ state'.digests[w] = state.digests[w]
        /\ ~lost /\ ~unnoted' => state'.installed = self
        /\ corrupt' => lost
    <2>1. CASE UNCHANGED <<state, corrupt>> /\ (corrupt \/ state.installed = self \/ unnoted')
      BY <2>1 DEF Facts, NamedIsTrue, TypeOK, UpdateState
    <2>2. CASE state' = Installed(state, Declares[self], self) /\ corrupt' = FALSE
      <3>1. state \in UpdateState /\ self \in Maybe
        BY <1>3 DEF TypeOK, Maybe
      <3>2. QED
        BY <1>3, <2>2, <3>1, InstalledFacts
    <2>3. QED
      BY <1>4, <2>1, <2>2
  <1>6. \A w \in Versions : /\ state.attempts[w] \in Nat /\ state'.attempts[w] \in Nat
                            /\ state.attempts[w] <= MaxAttempts
    BY DEF TypeOK, UpdateState, Facts, AttemptsSpent
  <1>7. AttemptsSpent'
    <2>1. \A w \in Versions : state'.attempts[w] <= MaxAttempts
      BY <1>5, <1>6, UpdaterAssumption
    <2>2. QED
      BY <1>1, <1>2, <2>1 DEF AttemptsSpent
  <1>8. OneCall' /\ CallIsTrue'
    BY <1>1, <1>2 DEF Facts, OneCall, CallIsTrue, Working
  <1>9. SelfIsThere' /\ NamedIsTrue'
    BY <1>1, <1>2, <1>5 DEF SelfIsThere, BinaryInPlace, NamedIsTrue, InstalledIsTrue
  <1>10. Belt'
    <2> SUFFICES ASSUME ~lost, execFails = 0 PROVE Accounted' \/ Settled'
      BY <1>1 DEF Belt
    <2>1. missed \in Nat /\ Charged \in Nat /\ Charged <= MaxAttempts
      BY ChargedFacts DEF TypeOK, Facts
    <2>2. rounds <= MaxAttempts + missed
      BY <1>3, <2>1, UpdaterAssumption DEF Facts, Belt, Accounted, Settled
    <2>3. CASE Declares[self] >= latest
      BY <1>1, <2>2, <2>3 DEF Settled, Version
    <2>4. CASE ~(Declares[self] >= latest)
      <3>1. Accounted
        BY <2>4 DEF Facts, Belt, Settled
      <3>2. ~Pending' /\ \A d \in Callers : ~Working(d)'
        BY <1>1, <1>2 DEF Pending, Working
      <3>3. state'.attempts[latest] = state.attempts[latest]
            /\ state'.digests[latest] = state.digests[latest]
        BY <1>3, <1>5, <2>4
      <3>4. Charged' = Charged
        BY <1>1, <3>3, ChargedKept
      <3>5. rounds <= Charged + missed
        BY <1>3, <2>1, <3>1 DEF Accounted
      <3>6. QED
        BY <1>1, <1>3, <3>2, <3>4, <3>5 DEF Accounted
    <2>5. QED
      BY <2>3, <2>4
  <1>11. QED
    BY <1>7, <1>8, <1>9, <1>10 DEF Facts

\* A state file that is lost takes the account with it, and says so.
LEMMA DamageFacts ==
  ASSUME UpdaterInv, Damage
  PROVE  Facts'
  <1> USE DEF UpdaterInv, release, files
  <1>1. /\ UNCHANGED <<latest, assets, self, new, old, running, updating, call, torn>>
        /\ lost' /\ (state' = state \/ state' = Empty)
        /\ UNCHANGED <<stranded, missed, unnoted>>
    BY DEF Damage
  <1>2. AttemptsSpent'
    <2>1. \A w \in Versions : state'.attempts[w] <= MaxAttempts
      BY <1>1, EmptyType, UpdaterAssumption DEF Facts, AttemptsSpent
    <2>2. QED
      BY <1>1, <2>1 DEF AttemptsSpent
  <1>3. OneCall' /\ CallIsTrue'
    BY <1>1 DEF Facts, OneCall, CallIsTrue, Working, Version
  <1>4. SelfIsThere' /\ NamedIsTrue' /\ Belt'
    BY <1>1 DEF Facts, SelfIsThere, BinaryInPlace, NamedIsTrue, InstalledIsTrue, Belt
  <1>5. QED
    BY <1>2, <1>3, <1>4 DEF Facts

\* A release opens a new account: no rounds yet, and at most a download under way
\* that has spent its attempt.
LEMMA PublishFacts ==
  ASSUME UpdaterInv, NEW v \in Versions, NEW a \in Arts \ Junk, NEW signed \in BOOLEAN,
         Publish(v, a, signed)
  PROVE  Facts'
  <1> USE DEF UpdaterInv, files
  <1>1. /\ UNCHANGED <<self, new, old, running, updating, call, state, corrupt, torn, stranded,
                       lost, missed, unnoted>>
        /\ latest' = v /\ v >= latest /\ rounds' = 0
        /\ assets' = [assets EXCEPT ![v] = [art |-> a, signed |-> signed]]
    BY DEF Publish
  <1>2. assets'[v].art = a /\ \A w \in Versions \ {v} : assets'[w] = assets[w]
    BY <1>1 DEF TypeOK
  <1>3. OneCall' /\ SelfIsThere' /\ NamedIsTrue' /\ AttemptsSpent'
    BY <1>1 DEF Facts, OneCall, SelfIsThere, BinaryInPlace, NamedIsTrue, InstalledIsTrue,
       AttemptsSpent
  <1>4. CallIsTrue'
    <2>1. v \in Nat /\ latest \in Nat
      BY VersionsType DEF TypeOK
    <2>2. \A c \in Callers : Working(c)' =>
            /\ Working(c) /\ call[c].tag \in Versions /\ call[c].tag \in Nat
            /\ call[c].tag <= v /\ Version' = Version
            /\ assets'[call[c].tag].art \in Arts
      <3> SUFFICES ASSUME NEW c \in Callers, Working(c)'
                   PROVE  /\ Working(c) /\ call[c].tag \in Versions /\ call[c].tag \in Nat
                          /\ call[c].tag <= v /\ Version' = Version
                          /\ assets'[call[c].tag].art \in Arts
        OBVIOUS
      <3>1. Working(c) /\ Version' = Version
        BY <1>1 DEF Working, Version
      <3>2. /\ call[c].tag \in Versions /\ call[c].tag <= latest
            /\ assets[call[c].tag].art \in Arts
        BY <3>1 DEF Facts, CallIsTrue
      <3>3. call[c].tag \in Nat /\ call[c].tag <= v
        <4>1. call[c].tag \in Nat
          BY <3>2, VersionsType, Zenon
        <4>2. latest <= v
          BY <1>1, <2>1
        <4>3. QED
          BY ONLY <2>1, <3>2, <4>1, <4>2
      <3>4. assets'[call[c].tag].art \in Arts
        BY <1>2, <3>2
      <3>5. QED
        BY <3>1, <3>2, <3>3, <3>4
    <2>3. QED
      BY <1>1, <1>2, <2>2 DEF Facts, CallIsTrue
  <1>5. Belt'
    <2> SUFFICES ASSUME ~lost PROVE Accounted'
      BY <1>1 DEF Belt
    <2>1. Pending' /\ missed = 0 => Charged' >= 1
      BY <1>1 DEF Pending, Current, Facts, AttemptsSpent, Charged
    <2>2. Charged' \in Nat /\ missed \in Nat
      BY <1>1 DEF TypeOK, UpdateState, Charged
    <2>3. QED
      BY <1>1, <2>1, <2>2 DEF Accounted
  <1>6. QED
    BY <1>3, <1>4, <1>5 DEF Facts

-----------------------------------------------------------------------------

\* The node begins with its first binary and nothing written down.
LEMMA InitUpdaterInv == Init => UpdaterInv
  <1> SUFFICES ASSUME Init PROVE UpdaterInv
    OBVIOUS
  <1> USE UpdaterAssumption DEF Init
  <1>1. \A c \in Callers : call[c] = Out /\ call[c].at = "out"
    BY DEF Out
  <1>2. TypeOK
    <2>1. call \in [Callers -> Call]
      BY DEF Call, Out, Places, Maybe
    <2>2. assets \in [Versions -> [art : Maybe, signed : BOOLEAN]] /\ latest \in Versions
      BY VersionsType DEF Maybe
    <2>3. faults \in 0..MaxFaults /\ published \in 0..MaxPublished
      OBVIOUS
    <2>4. {self, new, old, running} \subseteq Maybe
      BY DEF Maybe
    <2>5. state \in UpdateState
      BY EmptyType
    <2>6. {rounds, execFails, missed} \subseteq Nat
      OBVIOUS
    <2>7. QED
      BY <2>1, <2>2, <2>3, <2>4, <2>5, <2>6 DEF TypeOK
  <1>3. OneCall /\ SelfIsThere /\ NamedIsTrue
    BY <1>1 DEF OneCall, SelfIsThere, BinaryInPlace, NamedIsTrue, InstalledIsTrue
  <1>4. CallIsTrue
    BY <1>1, VersionsType DEF CallIsTrue, Working
  <1>5. AttemptsSpent
    BY <1>1, EmptyType DEF AttemptsSpent
  <1>6. Belt
    <2>1. ~Pending
      BY <1>1 DEF Pending
    <2>2. Charged = 0
      BY EmptyType, VersionsType DEF Charged
    <2>3. QED
      BY <2>1, <2>2 DEF Belt, Accounted
  <1>7. QED
    BY <1>2, <1>3, <1>4, <1>5, <1>6 DEF UpdaterInv, Facts

\* Every step preserves the invariant: one case per action.
LEMMA NextUpdaterInv == UpdaterInv /\ [Next]_vars => UpdaterInv'
  <1> SUFFICES ASSUME UpdaterInv, [Next]_vars PROVE UpdaterInv'
    OBVIOUS
  <1>1. CASE Next
    <2>1. TypeOK'
      BY <1>1, NextTypeOK DEF UpdaterInv, Facts
    <2>2. ASSUME NEW c \in Callers, Checks(c) PROVE Facts'
      BY <2>1, <2>2, BeginFacts, AskFacts, NothingDone, SpendFacts, GetOkFacts,
         GetFailsFacts, RefundFacts DEF Checks
    <2>3. ASSUME NEW c \in Callers, Exec(c) PROVE Facts'
      <3>1. self # None
        BY <2>3, UpdaterAssumption DEF Exec, At, UpdaterInv, Facts, CallIsTrue
      <3>2. QED
        BY <2>3, <3>1, DiedFacts DEF Exec, release, files, history
    <2>4. ASSUME NEW c \in Callers, Applies(c) PROVE Facts'
      BY <2>1, <2>3, <2>4, AdmitFacts, NothingDone, RefuseFacts, SwapOutFacts, SwapInFacts,
         SwapInFailsFacts, NoteFacts, ExecFailsFacts DEF Applies
    <2>5. ASSUME Skip PROVE Facts'
      BY <2>5 DEF Skip, release, files, history, UpdaterInv, Facts, OneCall, CallIsTrue,
         Working, Version, SelfIsThere, BinaryInPlace, NamedIsTrue, InstalledIsTrue,
         AttemptsSpent, Belt, Accounted, Charged, Pending, Current, Digest, Settled
    <2>6. ASSUME Crash PROVE Facts'
      BY <2>6, DiedFacts DEF Crash, release, files
    <2>7. QED
      BY <1>1, <2>1, <2>2, <2>4, <2>5, <2>6, BootFacts, DamageFacts, PublishFacts
         DEF Next, UpdaterInv
  <1>2. CASE UNCHANGED vars
    BY <1>2 DEF vars, UpdaterInv, TypeOK, Facts, OneCall, CallIsTrue, Working, Version,
       SelfIsThere, BinaryInPlace, NamedIsTrue, InstalledIsTrue, AttemptsSpent, Belt,
       Accounted, Charged, Pending, Current, Digest, Settled
  <1>3. QED
    BY <1>1, <1>2

\* UpdaterInv holds in every reachable state.
THEOREM UpdaterInvariant == Spec => []UpdaterInv
  <1>1. QED
    BY InitUpdaterInv, NextUpdaterInv, PTL DEF Spec

\* Type correctness: the state file, the files and the calls are always what they
\* should be, however the process dies.
THEOREM UpdaterTypeOK == Spec => []TypeOK
  <1>1. UpdaterInv => TypeOK
    BY DEF UpdaterInv
  <1>2. QED
    BY <1>1, UpdaterInvariant, PTL

\* The node never loses its binary unless a roll back fails: the path is empty only
\* between the two renames or after a death there, and then the old binary is aside.
THEOREM UpdaterKeepsBinary == Spec => []BinaryInPlace
  <1>1. UpdaterInv => BinaryInPlace
    BY DEF UpdaterInv, Facts, SelfIsThere
  <1>2. QED
    BY <1>1, UpdaterInvariant, PTL

\* The state file names the binary at the program's path, unless it was lost or the
\* write of that name failed.
THEOREM UpdaterNamesBinary == Spec => []InstalledIsTrue
  <1>1. UpdaterInv => InstalledIsTrue
    BY DEF UpdaterInv, Facts, NamedIsTrue
  <1>2. QED
    BY <1>1, UpdaterInvariant, PTL

\* However the node crashes and restarts, one release is downloaded no more often
\* than the attempts allowed and the attempts that could not be written down.
THEOREM UpdaterRoundsBounded == Spec => []RoundsBounded
  <1>1. UpdaterInv => RoundsBounded
    <2> SUFFICES ASSUME UpdaterInv, ~lost, execFails = 0
                 PROVE  rounds <= MaxAttempts + missed
      BY DEF RoundsBounded
    <2>1. /\ rounds \in Nat /\ missed \in Nat
          /\ Charged \in Nat /\ Charged <= MaxAttempts /\ MaxAttempts \in Nat
      BY UpdaterAssumption, ChargedFacts DEF UpdaterInv, TypeOK, Facts
    <2>2. QED
      BY <2>1 DEF UpdaterInv, Facts, Belt, Accounted, Settled
  <1>2. QED
    BY <1>1, UpdaterInvariant, PTL

\* The loop is cut: whatever is published, a binary that takes the place of the
\* running one says a newer version.
THEOREM UpdaterClimbs == Spec => EverySwapClimbs
  <1>1. UpdaterInv /\ [Next]_vars =>
          [self' \notin {self, None, old} => Declares[self'] > Version]_vars
    <2> SUFFICES ASSUME UpdaterInv, [Next]_vars, self' \notin {self, None, old}
                 PROVE  Declares[self'] > Version
      OBVIOUS
    <2> USE DEF release, files, history
    <2>1. PICK c \in Callers : SwapIn(c)
      BY DEF Next, vars, Checks, Applies, Begin, Ask, NoAsk, Spend, GetOk, GetFails, Refund,
         Admit, AdmitFails, RefuseSha, RefuseTag, SwapOut, SwapOutFails, SwapInFails, Note,
         Exec, ExecFails, Skip, Boot, Crash, Damage, Publish
    <2>2. /\ self' = new /\ Declares[new] = call[c].tag /\ Version < call[c].tag
          /\ new \in Arts /\ running \in Arts
      BY <2>1 DEF SwapIn, At, UpdaterInv, Facts, CallIsTrue, Working, TypeOK, Maybe
    <2>3. Declares[new] \in Nat /\ Version \in Nat
      BY <2>2, UpdaterAssumption DEF Version
    <2>4. QED
      BY <2>2, <2>3
  <1>2. QED
    BY <1>1, UpdaterInvariant, PTL DEF Spec, EverySwapClimbs

-----------------------------------------------------------------------------
(* The engines of the host.                                                *)

\* The pid is of a process of the daemon's, or was once.
Ours(p) == p \in former \/ proc[p].own

\* Under a free pid there is nobody.
FreeIsNobodys == \A p \in Pids : proc[p].state = "free" => ~proc[p].own

\* A launcher under way has its port.  Between cmd.Start and recordLaunched it has
\* its process to itself: nobody waits for it yet, so the pid cannot go to another.
StartedIsOurs ==
  /\ \A l \in Loads : load[l].at # "idle" => load[l].port \in Ports
  /\ \A l \in Loads : load[l].at = "started" =>
       /\ load[l].pid \in Pids
       /\ proc[load[l].pid].own
       /\ ~proc[load[l].pid].reap
  /\ \A l, m \in Loads :
       load[l].at = "started" /\ load[m].at = "started" /\ load[l].pid = load[m].pid => l = m

\* The registry, the copy an eject of everything works from and the pid an eject
\* is about to kill or has killed are ours; what lsof found need not be.
TargetsAreOurs ==
  /\ \A p \in live : Ours(p)
  /\ \A k \in Ejects : eject[k].port = Nil => \A p \in eject[k].pids : Ours(p)
  /\ \A k \in Ejects : eject[k].at \in {"kill", "mark"} =>
       eject[k].pid \in Pids /\ Ours(eject[k].pid)

\* A reaper that is late has given its pid back.
LateIsFormer == \A p \in Pids : late[p] > 0 => p \in former

\* What an eject is about to take off the registry has ended, unless the pid has
\* been given to another since or the kill of its port failed.
MarkedHasEnded ==
  \A k \in Ejects : eject[k].at = "mark" =>
    eject[k].pid \in former \cup escaped \/ proc[eject[k].pid].state = "zombie"

\* What is known of the pids, apart from the types.
PidFacts ==
  /\ FreeIsNobodys /\ StartedIsOurs /\ TargetsAreOurs /\ LateIsFormer
  /\ MarkedHasEnded /\ OnlyOwnKilled /\ EjectReaches

EnginesInv == HostTypeOK /\ PidFacts

-----------------------------------------------------------------------------

\* The least of a set of numbers that is not empty is one of them.
LEMMA MinInSet ==
  ASSUME NEW S \in SUBSET Nat, S # {}
  PROVE  Min(S) \in S
  <1>1. OpToRel(<, Nat) = {ss \in Nat \X Nat : ss[1] < ss[2]}
    BY DEF OpToRel
  <1>2. PICK x \in S : \A y \in S : ~(<<y, x>> \in OpToRel(<, Nat))
    BY NatLessThanWellFounded, WFMin, Zenon
  <1>3. ASSUME NEW y \in S, y < x PROVE FALSE
    <2>1. <<y, x>> \in OpToRel(<, Nat)
      BY <1>1, <1>3
    <2>2. QED
      BY <1>2, <2>1, Zenon
  <1>4. \A y \in S : x <= y
    BY <1>3
  <1>5. QED
    BY <1>4 DEF Min

\* nextLoadPort always has a port to give.
LEMMA NextLoadPortType == NextLoadPort \in Ports
  <1>1. Ports \ DOMAIN loaded \subseteq Nat /\ Ports \subseteq Nat /\ Ports # {}
    BY EnginesAssumption
  <1>2. QED
    BY <1>1, MinInSet DEF NextLoadPort

\* What ends leaves its pid free, or a zombie of the daemon's.
LEMMA EndedType ==
  ASSUME HostTypeOK, NEW p \in Pids, Runs(p)
  PROVE  /\ Ended(p) \in [Pids -> Process]
         /\ \A q \in Pids : q # p => Ended(p)[q] = proc[q]
         /\ Ended(p)[p].own = proc[p].own
         /\ Ended(p)[p].state = IF proc[p].own THEN "zombie" ELSE "free"
         /\ proc[p].own => Ended(p)[p].reap = proc[p].reap
  BY EnginesAssumption DEF HostTypeOK, Process, Ended, Runs, Gone

\* What starts is under the pid it was given, and nobody waits for it yet.
LEMMA StartEffect ==
  ASSUME HostTypeOK, NEW p \in Pids, NEW own \in BOOLEAN, NEW port \in Ports \cup {Nil},
         StartProcess(p, own, port)
  PROVE  /\ proc[p].state = "free"
         /\ proc' \in [Pids -> Process]
         /\ starts' \in 0..MaxStarts
         /\ \A q \in Pids : q # p => proc'[q] = proc[q]
         /\ proc'[p].own = own
         /\ proc'[p].state = "runs"
         /\ ~proc'[p].reap
  <1> DEFINE begun == [Gone EXCEPT !.own = own, !.port = port, !.state = "runs"]
  <1>1. begun \in Process
    BY DEF Process, Gone
  <1>2. begun.own = own /\ begun.state = "runs" /\ ~begun.reap
    BY DEF Gone
  <1>3. proc' = [proc EXCEPT ![p] = begun]
    BY DEF StartProcess
  <1> HIDE DEF begun
  <1>4. starts' \in 0..MaxStarts
    BY EnginesAssumption DEF HostTypeOK, StartProcess
  <1>5. QED
    BY <1>1, <1>2, <1>3, <1>4 DEF HostTypeOK, StartProcess

\* A launcher that goes on, with or without a pid, is still a launcher.
LEMMA LoadGoesOn ==
  ASSUME load \in [Loads -> Load], NEW l \in Loads, NEW pid \in Pids \cup {Nil},
         NEW at \in {"started", "record"},
         load' = [load EXCEPT ![l].at = at, ![l].pid = pid]
  PROVE  /\ load' \in [Loads -> Load]
         /\ \A m \in Loads : m # l => load'[m] = load[m]
         /\ load'[l].at = at /\ load'[l].pid = pid /\ load'[l].port = load[l].port
  BY DEF Load

\* An eject that takes its next pid is still an eject.
LEMMA EjectAimsType ==
  ASSUME eject \in [Ejects -> Eject], NEW k \in Ejects, NEW p \in Pids, EjectAims(k, p)
  PROVE  /\ eject' \in [Ejects -> Eject]
         /\ \A m \in Ejects : m # k => eject'[m] = eject[m]
         /\ eject'[k].port = eject[k].port /\ eject'[k].pids \subseteq eject[k].pids
         /\ eject'[k].at # "mark"
         /\ eject'[k].at = "kill" => eject'[k].pid = p /\ ~Spared(k, p)
  <1> DEFINE at == IF Spared(k, p) THEN "aim" ELSE "kill"
             pid == IF Spared(k, p) THEN Nil ELSE p
  <1>1. at \in {"aim", "kill"} /\ pid \in Pids \cup {Nil}
    OBVIOUS
  <1>2. at = "kill" => pid = p /\ ~Spared(k, p)
    OBVIOUS
  <1>3. eject' = [eject EXCEPT ![k].pids = @ \ {p}, ![k].at = at, ![k].pid = pid]
    BY DEF EjectAims
  <1> HIDE DEF at, pid
  <1>4. QED
    BY <1>1, <1>2, <1>3 DEF Eject

-----------------------------------------------------------------------------

\* At first no process runs and no handler is at work.
LEMMA InitEnginesInv == HostInit => EnginesInv
  <1> SUFFICES ASSUME HostInit PROVE EnginesInv
    OBVIOUS
  <1>1. HostTypeOK
    BY EnginesAssumption
       DEF HostInit, HostTypeOK, Process, Gone, Load, NoLoad, Eject, NoEject
  <1>2. FreeIsNobodys /\ LateIsFormer /\ OnlyOwnKilled /\ EjectReaches
    BY DEF HostInit, FreeIsNobodys, LateIsFormer, OnlyOwnKilled, EjectReaches, Gone, Own, Runs
  <1>3. StartedIsOurs /\ TargetsAreOurs /\ MarkedHasEnded
    BY DEF HostInit, StartedIsOurs, TargetsAreOurs, MarkedHasEnded, NoLoad, NoEject
  <1>4. QED
    BY <1>1, <1>2, <1>3 DEF EnginesInv, PidFacts

\* Every step keeps the types.
LEMMA NextHostTypeOK == HostTypeOK /\ TargetsAreOurs /\ StartedIsOurs /\ HostNext => HostTypeOK'
  <1> SUFFICES ASSUME HostTypeOK, TargetsAreOurs, StartedIsOurs, HostNext PROVE HostTypeOK'
    OBVIOUS
  <1> USE EnginesAssumption DEF HostTypeOK, registry, pidHistory
  <1>1. ASSUME NEW l \in Loads, NEW port \in Ports \cup {Nil}, LoadBegins(l, port)
        PROVE  HostTypeOK'
    BY <1>1, NextLoadPortType DEF LoadBegins, Load, NoLoad
  <1>2. ASSUME NEW l \in Loads, NEW p \in Pids, LaunchStarts(l, p) PROVE HostTypeOK'
    <2>1. proc' \in [Pids -> Process] /\ starts' \in 0..MaxStarts
      BY <1>2, StartEffect DEF LaunchStarts, Load
    <2>2. load' \in [Loads -> Load]
      BY <1>2, LoadGoesOn DEF LaunchStarts
    <2>3. QED
      BY <1>2, <2>1, <2>2 DEF LaunchStarts
  <1>3. ASSUME NEW l \in Loads, LaunchFails(l) PROVE HostTypeOK'
    BY <1>3 DEF LaunchFails, Load, NoLoad
  <1>4. ASSUME NEW l \in Loads, RecordLaunched(l) PROVE HostTypeOK'
    <2>1. load[l].pid \in Pids
      BY <1>4 DEF RecordLaunched, StartedIsOurs
    <2>2. proc' \in [Pids -> Process] /\ live' \subseteq Pids
      BY <1>4, <2>1 DEF RecordLaunched, Process
    <2>3. load' \in [Loads -> Load]
      BY <1>4, LoadGoesOn DEF RecordLaunched
    <2>4. QED
      BY <1>4, <2>2, <2>3 DEF RecordLaunched
  <1>5. ASSUME NEW l \in Loads, NEW unheard \in BOOLEAN, RecordLoaded(l, unheard)
        PROVE  HostTypeOK'
    <2>1. load' \in [Loads -> Load]
      BY <1>5 DEF RecordLoaded, Load, NoLoad
    <2>2. DOMAIN loaded' \subseteq Ports /\ \A p \in DOMAIN loaded' : loaded'[p] \in Loads
      BY <1>5 DEF RecordLoaded, Load, StartedIsOurs
    <2>3. QED
      BY <1>5, <2>1, <2>2 DEF RecordLoaded
  <1>6. ASSUME NEW p \in Pids, Listens(p) PROVE HostTypeOK'
    BY <1>6 DEF Listens, Process
  <1>7. ASSUME NEW p \in Pids, Exits(p) PROVE HostTypeOK'
    BY <1>7, EndedType DEF Exits
  <1>8. ASSUME NEW p \in Pids, Waited(p) PROVE HostTypeOK'
    BY <1>8 DEF Waited, Process, Gone
  <1>9. ASSUME NEW p \in Pids, Reaped(p) PROVE HostTypeOK'
    BY <1>9 DEF Reaped, MarkDead
  <1>10. ASSUME NEW p \in Pids, NEW port \in Ports, OtherStarts(p, port) PROVE HostTypeOK'
    BY <1>10, StartEffect DEF OtherStarts
  <1>11. ASSUME NEW k \in Ejects, NEW port \in Ports, EjectBegins(k, port) PROVE HostTypeOK'
    BY <1>11 DEF EjectBegins, Eject, Listeners
  <1>12. ASSUME NEW k \in Ejects, EjectAllBegins(k) PROVE HostTypeOK'
    BY <1>12 DEF EjectAllBegins, Eject, NoEject
  <1>13. ASSUME NEW k \in Ejects, NEW p \in Pids, EjectAims(k, p) PROVE HostTypeOK'
    <2>1. eject' \in [Ejects -> Eject]
      BY <1>13, EjectAimsType
    <2>2. QED
      BY <1>13, <2>1 DEF EjectAims
  <1>14. ASSUME NEW k \in Ejects, EjectKills(k) PROVE HostTypeOK'
    <2>1. eject[k].pid \in Pids
      BY <1>14 DEF EjectKills, TargetsAreOurs
    <2>2. proc' \in [Pids -> Process] /\ hurt' \subseteq Pids /\ escaped' \subseteq Pids
      BY <1>14, <2>1, EndedType DEF EjectKills
    <2>3. eject' \in [Ejects -> Eject]
      BY <1>14 DEF EjectKills, Eject
    <2>4. QED
      BY <1>14, <2>2, <2>3 DEF EjectKills
  <1>15. ASSUME NEW k \in Ejects, EjectMarks(k) PROVE HostTypeOK'
    <2>1. eject[k].pid \in Pids
      BY <1>15 DEF EjectMarks, TargetsAreOurs
    <2>2. QED
      BY <1>15, <2>1 DEF EjectMarks, MarkDead, Eject
  <1>16. ASSUME NEW k \in Ejects, EjectEnds(k) PROVE HostTypeOK'
    BY <1>16 DEF EjectEnds, Restrict, Eject, NoEject
  <1>17. QED
    BY <1>1, <1>2, <1>3, <1>4, <1>5, <1>6, <1>7, <1>8, <1>9, <1>10, <1>11, <1>12,
       <1>13, <1>14, <1>15, <1>16 DEF HostNext, Loading, Running, Ejecting

-----------------------------------------------------------------------------

\* Targets stay ours as long as what was ours still is.
LEMMA TargetsKept ==
  ASSUME HostTypeOK, TargetsAreOurs, UNCHANGED eject,
         \A q \in Pids : Ours(q) => Ours(q)',
         \A q \in live' : q \in live \/ Ours(q)'
  PROVE  TargetsAreOurs'
  <1>1. live \subseteq Pids /\ \A k \in Ejects : eject[k].pids \subseteq Pids
    BY DEF HostTypeOK, Eject
  <1>2. QED
    BY <1>1 DEF TargetsAreOurs

\* The launchers: a process that starts is nobody's target yet, and it enters the
\* registry together with its reaper.
LEMMA LoadingFacts ==
  ASSUME HostTypeOK, HostTypeOK', PidFacts, NEW l \in Loads, Loading(l)
  PROVE  PidFacts'
  <1> USE DEF HostTypeOK, PidFacts
  <1>1. CASE \/ \E port \in Ports \cup {Nil} : LoadBegins(l, port)
             \/ LaunchFails(l)
             \/ \E unheard \in BOOLEAN : RecordLoaded(l, unheard)
    <2>1. UNCHANGED <<proc, live, late, eject, former, hurt, escaped>>
      BY <1>1 DEF LoadBegins, LaunchFails, RecordLoaded, registry, pidHistory
    <2>2. /\ load'[l].at # "started" /\ (load'[l].at # "idle" => load'[l].port \in Ports)
          /\ \A m \in Loads : m # l => load'[m] = load[m]
      <3>1. ASSUME NEW port \in Ports \cup {Nil}, LoadBegins(l, port)
            PROVE  /\ load'[l].at = "port" /\ load'[l].port \in Ports
                   /\ \A m \in Loads : m # l => load'[m] = load[m]
        BY <3>1, NextLoadPortType DEF LoadBegins, NoLoad
      <3>2. CASE LaunchFails(l)
        BY <3>2 DEF LaunchFails, NoLoad
      <3>3. ASSUME NEW unheard \in BOOLEAN, RecordLoaded(l, unheard)
            PROVE  /\ load'[l].at = "idle"
                   /\ \A m \in Loads : m # l => load'[m] = load[m]
        BY <3>3 DEF RecordLoaded, NoLoad
      <3>4. QED
        BY <1>1, <3>1, <3>2, <3>3
    <2>3. StartedIsOurs'
      BY <2>1, <2>2 DEF StartedIsOurs
    <2>4. QED
      BY <2>1, <2>3 DEF FreeIsNobodys, TargetsAreOurs, LateIsFormer, MarkedHasEnded,
         OnlyOwnKilled, EjectReaches, Ours, Own, Runs
  <1>2. ASSUME NEW p \in Pids, LaunchStarts(l, p) PROVE PidFacts'
    <2>1. UNCHANGED <<live, late, eject, former, hurt, escaped>>
      BY <1>2 DEF LaunchStarts, registry, pidHistory
    <2>2. /\ proc[p].state = "free"
          /\ \A q \in Pids : q # p => proc'[q] = proc[q]
          /\ proc'[p].own /\ proc'[p].state = "runs" /\ ~proc'[p].reap
      BY <1>2, StartEffect DEF LaunchStarts, Load
    <2>3. /\ load[l].at = "port" /\ load'[l].pid = p /\ load'[l].port = load[l].port
          /\ \A m \in Loads : m # l => load'[m] = load[m]
      BY <1>2, LoadGoesOn DEF LaunchStarts
    <2>4. ~proc[p].own
      BY <2>2 DEF FreeIsNobodys
    <2>5. StartedIsOurs'
      BY <2>2, <2>3, <2>4 DEF StartedIsOurs
    <2>6. TargetsAreOurs'
      BY <2>1, <2>2, <2>4, TargetsKept DEF Ours
    <2>7. FreeIsNobodys' /\ LateIsFormer' /\ OnlyOwnKilled'
      BY <2>1, <2>2 DEF FreeIsNobodys, LateIsFormer, OnlyOwnKilled
    <2>8. MarkedHasEnded'
      BY <2>1, <2>2, <2>4 DEF MarkedHasEnded, TargetsAreOurs, Ours
    <2>9. EjectReaches'
      BY <2>1, <2>2, <2>4 DEF EjectReaches, Own, Runs
    <2>10. QED
      BY <2>5, <2>6, <2>7, <2>8, <2>9
  <1>3. CASE RecordLaunched(l)
    <2> DEFINE p == load[l].pid
    <2>1. /\ p \in Pids /\ proc[p].own /\ live' = live \cup {p}
          /\ UNCHANGED <<late, eject, former, hurt, escaped>>
      BY <1>3 DEF RecordLaunched, StartedIsOurs, pidHistory
    <2>2. /\ \A q \in Pids : q # p => proc'[q] = proc[q]
          /\ proc'[p].own /\ proc'[p].reap /\ proc'[p].state = proc[p].state
      BY <1>3, <2>1 DEF RecordLaunched, Process
    <2>3. /\ load[l].at = "started" /\ load'[l].at = "record"
          /\ load'[l].port = load[l].port
          /\ \A m \in Loads : m # l => load'[m] = load[m]
      BY <1>3, LoadGoesOn DEF RecordLaunched
    <2>4. StartedIsOurs'
      BY <2>1, <2>2, <2>3 DEF StartedIsOurs
    <2> HIDE DEF p
    <2>5. TargetsAreOurs'
      BY <2>1, <2>2, TargetsKept DEF Ours
    <2>6. FreeIsNobodys' /\ LateIsFormer' /\ OnlyOwnKilled' /\ MarkedHasEnded'
      BY <2>1, <2>2 DEF FreeIsNobodys, LateIsFormer, OnlyOwnKilled, MarkedHasEnded,
         TargetsAreOurs
    <2>7. EjectReaches'
      BY <2>1, <2>2 DEF EjectReaches, Own, Runs
    <2>8. QED
      BY <2>4, <2>5, <2>6, <2>7
  <1>4. QED
    BY <1>1, <1>2, <1>3 DEF Loading

\* A process that ends, by itself or killed, stays under its pid if it is ours.
LEMMA EndedFacts ==
  ASSUME HostTypeOK, PidFacts, NEW p \in Pids, Runs(p), proc' = Ended(p),
         UNCHANGED <<live, late, load, eject, former, escaped>>
  PROVE  /\ FreeIsNobodys' /\ StartedIsOurs' /\ TargetsAreOurs' /\ LateIsFormer'
         /\ MarkedHasEnded' /\ EjectReaches'
  <1> USE DEF HostTypeOK, PidFacts
  <1>1. /\ \A q \in Pids : q # p => proc'[q] = proc[q]
        /\ proc'[p].own = proc[p].own
        /\ proc'[p].state = IF proc[p].own THEN "zombie" ELSE "free"
        /\ proc[p].own => proc'[p].reap = proc[p].reap
    BY EndedType
  <1>2. FreeIsNobodys' /\ StartedIsOurs' /\ LateIsFormer'
    BY <1>1 DEF FreeIsNobodys, StartedIsOurs, LateIsFormer
  <1>3. TargetsAreOurs'
    BY <1>1, TargetsKept DEF Ours
  <1>4. MarkedHasEnded'
    BY <1>1 DEF MarkedHasEnded, Runs, TargetsAreOurs
  <1>5. EjectReaches'
    BY <1>1 DEF EjectReaches, Own, Runs
  <1>6. QED
    BY <1>2, <1>3, <1>4, <1>5

\* The processes: a pid goes back to the system only with its reaper still to note
\* it, and from then on it counts as one that had an owner.
LEMMA RunningFacts ==
  ASSUME HostTypeOK, HostTypeOK', PidFacts, NEW p \in Pids, Running(p)
  PROVE  PidFacts'
  <1> USE DEF HostTypeOK, PidFacts, registry, pidHistory
  <1>1. CASE Listens(p)
    <2>1. /\ \A q \in Pids : /\ proc'[q].own = proc[q].own /\ proc'[q].reap = proc[q].reap
                             /\ proc'[q].state = proc[q].state
          /\ UNCHANGED <<live, late, load, eject, former, hurt, escaped>>
      BY <1>1 DEF Listens, Process
    <2>2. TargetsAreOurs'
      BY <2>1, TargetsKept DEF Ours
    <2>3. StartedIsOurs' /\ MarkedHasEnded'
      BY <2>1 DEF StartedIsOurs, MarkedHasEnded, TargetsAreOurs
    <2>4. QED
      BY <2>1, <2>2, <2>3 DEF FreeIsNobodys, LateIsFormer, OnlyOwnKilled, EjectReaches, Own, Runs
  <1>2. CASE Exits(p)
    <2>1. UNCHANGED <<live, late, load, eject, former, hurt, escaped>> /\ Runs(p) /\ proc' = Ended(p)
      BY <1>2 DEF Exits
    <2>2. QED
      BY <2>1, EndedFacts DEF OnlyOwnKilled
  <1>3. CASE Waited(p)
    <2>1. /\ \A q \in Pids : q # p => proc'[q] = proc[q]
          /\ ~proc'[p].own /\ proc'[p].state = "free"
          /\ proc[p].state = "zombie" /\ proc[p].reap
      BY <1>3 DEF Waited, Gone
    <2>2. /\ former' = former \cup {p} /\ late'[p] > 0
          /\ \A q \in Pids : q # p => late'[q] = late[q]
          /\ UNCHANGED <<live, load, eject, hurt, escaped>>
      BY <1>3 DEF Waited
    <2>3. FreeIsNobodys' /\ LateIsFormer' /\ OnlyOwnKilled'
      BY <2>1, <2>2 DEF FreeIsNobodys, LateIsFormer, OnlyOwnKilled
    <2>4. StartedIsOurs'
      BY <2>1, <2>2 DEF StartedIsOurs
    <2>5. TargetsAreOurs' /\ MarkedHasEnded'
      BY <2>1, <2>2, TargetsKept DEF TargetsAreOurs, MarkedHasEnded, Ours
    <2>6. EjectReaches'
      BY <2>1, <2>2 DEF EjectReaches, Own, Runs
    <2>7. QED
      BY <2>3, <2>4, <2>5, <2>6
  <1>4. CASE Reaped(p)
    <2>1. /\ late[p] > 0 /\ live' = live \ {p}
          /\ \A q \in Pids : q # p => late'[q] = late[q]
          /\ UNCHANGED <<proc, load, eject, former, hurt, escaped>>
      BY <1>4 DEF Reaped, MarkDead
    <2>2. p \in former
      BY <2>1 DEF LateIsFormer
    <2>3. EjectReaches'
      BY <2>1, <2>2 DEF EjectReaches, Own, Runs
    <2>4. QED
      BY <2>1, <2>2, <2>3 DEF FreeIsNobodys, StartedIsOurs, TargetsAreOurs, LateIsFormer,
         MarkedHasEnded, OnlyOwnKilled, Ours
  <1>5. ASSUME NEW port \in Ports, OtherStarts(p, port) PROVE PidFacts'
    <2>1. /\ proc[p].state = "free"
          /\ \A q \in Pids : q # p => proc'[q] = proc[q]
          /\ ~proc'[p].own /\ proc'[p].state = "runs"
      BY <1>5, StartEffect DEF OtherStarts
    <2>2. ~proc[p].own /\ UNCHANGED <<live, late, load, eject, former, hurt, escaped>>
      BY <1>5, <2>1 DEF OtherStarts, FreeIsNobodys
    <2>3. FreeIsNobodys' /\ LateIsFormer' /\ OnlyOwnKilled' /\ StartedIsOurs'
      BY <2>1, <2>2 DEF FreeIsNobodys, LateIsFormer, OnlyOwnKilled, StartedIsOurs
    <2>4. TargetsAreOurs'
      BY <2>1, <2>2, TargetsKept DEF Ours
    <2>5. MarkedHasEnded'
      BY <2>1, <2>2 DEF MarkedHasEnded, TargetsAreOurs, Ours
    <2>6. EjectReaches'
      BY <2>1, <2>2 DEF EjectReaches, Own, Runs
    <2>7. QED
      BY <2>3, <2>4, <2>5, <2>6
  <1>6. QED
    BY <1>1, <1>2, <1>3, <1>4, <1>5 DEF Running

\* An eject that is replaced by another record leaves the rest of the facts alone.
LEMMA EjectMoves ==
  ASSUME HostTypeOK, HostTypeOK', PidFacts, NEW k \in Ejects,
         UNCHANGED <<proc, live, late, load, former, hurt, escaped>>,
         \A m \in Ejects : m # k => eject'[m] = eject[m],
         eject'[k].port = Nil => \A p \in eject'[k].pids : Ours(p),
         eject'[k].at # "mark",
         eject'[k].at = "kill" => eject'[k].pid \in Pids /\ Ours(eject'[k].pid)
  PROVE  PidFacts'
  <1> USE DEF PidFacts
  <1>1. \A p : Ours(p)' = Ours(p)
    BY DEF Ours
  <1>2. TargetsAreOurs'
    BY <1>1 DEF TargetsAreOurs
  <1>3. MarkedHasEnded'
    BY DEF MarkedHasEnded
  <1>4. QED
    BY <1>2, <1>3 DEF FreeIsNobodys, StartedIsOurs, LateIsFormer, OnlyOwnKilled,
       EjectReaches, Own, Runs

\* The ejects: what is aimed at comes from live, so what is killed is ours, and what
\* is taken off the registry has ended or has outlived the kill of its port.
LEMMA EjectingFacts ==
  ASSUME HostTypeOK, HostTypeOK', PidFacts, NEW k \in Ejects, Ejecting(k)
  PROVE  PidFacts'
  <1> USE DEF registry, pidHistory
  <1>1. ASSUME NEW port \in Ports, EjectBegins(k, port) PROVE PidFacts'
    <2>1. /\ UNCHANGED <<proc, live, late, load, former, hurt, escaped>>
          /\ \A m \in Ejects : m # k => eject'[m] = eject[m]
          /\ eject'[k].port # Nil /\ eject'[k].at = "aim"
      BY <1>1, EnginesAssumption DEF EjectBegins, HostTypeOK
    <2>2. QED
      BY <2>1, EjectMoves
  <1>2. CASE EjectAllBegins(k)
    <2>1. /\ UNCHANGED <<proc, live, late, load, former, hurt, escaped>>
          /\ \A m \in Ejects : m # k => eject'[m] = eject[m]
          /\ eject'[k].pids = live /\ eject'[k].at = "aim"
      BY <1>2 DEF EjectAllBegins, HostTypeOK, NoEject
    <2>2. QED
      BY <2>1, EjectMoves DEF PidFacts, TargetsAreOurs
  <1>3. ASSUME NEW p \in Pids, EjectAims(k, p) PROVE PidFacts'
    <2>1. /\ eject[k].at = "aim" /\ p \in eject[k].pids
          /\ UNCHANGED <<proc, live, late, load, former, hurt, escaped>>
      BY <1>3 DEF EjectAims
    <2>2. /\ \A m \in Ejects : m # k => eject'[m] = eject[m]
          /\ eject'[k].port = eject[k].port /\ eject'[k].pids \subseteq eject[k].pids
          /\ eject'[k].at # "mark"
          /\ eject'[k].at = "kill" => eject'[k].pid = p /\ ~Spared(k, p)
      BY <1>3, EjectAimsType DEF HostTypeOK
    <2>3. ~Spared(k, p) => Ours(p)
      BY <2>1 DEF Spared, PidFacts, TargetsAreOurs
    <2>4. eject'[k].port = Nil => \A q \in eject'[k].pids : Ours(q)
      BY <2>2 DEF PidFacts, TargetsAreOurs
    <2>5. QED
      BY <2>1, <2>2, <2>3, <2>4, EjectMoves
  <1>4. CASE EjectKills(k)
    <2> DEFINE p == eject[k].pid
    <2>1. p \in Pids /\ Ours(p)
      BY <1>4 DEF EjectKills, PidFacts, TargetsAreOurs
    <2>2. /\ \/ /\ proc' = (IF Runs(p) THEN Ended(p) ELSE proc)
                /\ hurt' = (IF Runs(p) /\ ~proc[p].own THEN hurt \cup {p} ELSE hurt)
                /\ UNCHANGED escaped
             \/ /\ UNCHANGED <<proc, hurt>>
                /\ escaped \subseteq escaped'
                /\ eject'[k].at = "mark" => p \in escaped'
          /\ UNCHANGED <<live, late, load, former>>
      BY <1>4 DEF EjectKills, HostTypeOK, Eject
    <2>3. /\ \A m \in Ejects : m # k => eject'[m] = eject[m]
          /\ eject'[k].port = eject[k].port /\ eject'[k].pids = eject[k].pids
          /\ eject'[k].pid = p /\ eject'[k].at \in {"aim", "mark"}
      BY <1>4 DEF EjectKills, HostTypeOK, Eject
    <2>4. /\ proc' \in [Pids -> Process] /\ \A q \in Pids : q # p => proc'[q] = proc[q]
          /\ proc'[p].own = proc[p].own
          /\ \/ Runs(p) /\ proc'[p].state = (IF proc[p].own THEN "zombie" ELSE "free")
             \/ proc'[p] = proc[p]
          /\ proc[p].own => proc'[p].reap = proc[p].reap
      BY <2>1, <2>2, EndedType DEF HostTypeOK
    <2>5. escaped \subseteq escaped'
      BY <2>2
    <2>6. eject'[k].at = "mark" => p \in former \cup escaped' \/ proc'[p].state = "zombie"
      BY <2>1, <2>2, EndedType DEF Ours, Runs, HostTypeOK, Process, PidFacts, FreeIsNobodys
    <2>7. hurt' \subseteq hurt \cup {p} /\ (hurt' # hurt => ~proc[p].own)
      BY <2>2
    <2>8. UNCHANGED <<live, late, load, former>>
      BY <2>2
    <2> HIDE DEF p
    <2>9. \A q \in Pids : Ours(q)' = Ours(q)
      BY <2>8, <2>4 DEF Ours
    <2>10. FreeIsNobodys' /\ StartedIsOurs' /\ LateIsFormer'
      BY <2>1, <2>8, <2>4 DEF FreeIsNobodys, StartedIsOurs, LateIsFormer, PidFacts, Runs
    <2>11. TargetsAreOurs'
      <3>1. live \subseteq Pids /\ \A m \in Ejects : eject[m].pids \subseteq Pids
        BY DEF HostTypeOK, Eject
      <3>2. QED
        BY <2>1, <2>8, <2>3, <2>9, <3>1 DEF PidFacts, TargetsAreOurs
    <2>12. MarkedHasEnded'
      BY <2>1, <2>8, <2>3, <2>4, <2>5, <2>6 DEF MarkedHasEnded, PidFacts, Runs, TargetsAreOurs
    <2>13. OnlyOwnKilled'
      BY <2>1, <2>8, <2>7 DEF OnlyOwnKilled, PidFacts, Ours
    <2>14. EjectReaches'
      BY <2>1, <2>8, <2>4, <2>5 DEF EjectReaches, PidFacts, Own, Runs, HostTypeOK
    <2>15. QED
      BY <2>10, <2>11, <2>12, <2>13, <2>14 DEF PidFacts
  <1>5. CASE EjectMarks(k)
    <2> DEFINE p == eject[k].pid
    <2>1. /\ p \in Pids /\ live' = live \ {p}
          /\ UNCHANGED <<proc, late, load, former, hurt, escaped>>
          /\ p \in former \cup escaped \/ proc[p].state = "zombie"
      BY <1>5 DEF EjectMarks, MarkDead, PidFacts, TargetsAreOurs, MarkedHasEnded
    <2>2. /\ \A m \in Ejects : m # k => eject'[m] = eject[m]
          /\ eject'[k].port = eject[k].port /\ eject'[k].pids = eject[k].pids
          /\ eject'[k].at = "aim"
      BY <1>5 DEF EjectMarks, HostTypeOK, Eject
    <2> HIDE DEF p
    <2>3. EjectReaches'
      BY <2>1 DEF EjectReaches, PidFacts, Own, Runs
    <2>4. TargetsAreOurs' /\ MarkedHasEnded'
      BY <2>1, <2>2 DEF TargetsAreOurs, MarkedHasEnded, PidFacts, Ours
    <2>5. QED
      BY <2>1, <2>3, <2>4 DEF PidFacts, FreeIsNobodys, StartedIsOurs, LateIsFormer,
         OnlyOwnKilled
  <1>6. CASE EjectEnds(k)
    <2>1. /\ UNCHANGED <<proc, live, late, load, former, hurt, escaped>>
          /\ \A m \in Ejects : m # k => eject'[m] = eject[m]
          /\ eject'[k].pids = {} /\ eject'[k].at = "idle"
      BY <1>6 DEF EjectEnds, HostTypeOK, NoEject
    <2>2. QED
      BY <2>1, EjectMoves
  <1>7. QED
    BY <1>1, <1>2, <1>3, <1>4, <1>5, <1>6 DEF Ejecting

\* Every step preserves the invariant.
LEMMA NextEnginesInv == EnginesInv /\ [HostNext]_hostVars => EnginesInv'
  <1> SUFFICES ASSUME EnginesInv, [HostNext]_hostVars PROVE EnginesInv'
    OBVIOUS
  <1>1. CASE HostNext
    <2>1. HostTypeOK'
      BY <1>1, NextHostTypeOK DEF EnginesInv, PidFacts
    <2>2. PidFacts'
      BY <1>1, <2>1, LoadingFacts, RunningFacts, EjectingFacts DEF HostNext, EnginesInv
    <2>3. QED
      BY <2>1, <2>2 DEF EnginesInv
  <1>2. CASE UNCHANGED hostVars
    BY <1>2 DEF hostVars, EnginesInv, PidFacts, HostTypeOK, FreeIsNobodys, StartedIsOurs,
       TargetsAreOurs, LateIsFormer, MarkedHasEnded, OnlyOwnKilled, EjectReaches, Ours, Own, Runs
  <1>3. QED
    BY <1>1, <1>2

\* EnginesInv holds in every reachable state.
THEOREM EnginesInvariant == HostSpec => []EnginesInv
  <1>1. QED
    BY InitEnginesInv, NextEnginesInv, PTL DEF HostSpec

\* Type correctness: no handler ever works on a pid or a port that does not exist.
THEOREM EnginesTypeOK == HostSpec => []HostTypeOK
  <1>1. EnginesInv => HostTypeOK
    BY DEF EnginesInv
  <1>2. QED
    BY <1>1, EnginesInvariant, PTL

\* However loads, ejects, exits and reapers interleave, a kill -9 of the daemon's
\* reaches a process of another's only under a pid that one of its own had before.
THEOREM EnginesSpareOthers == HostSpec => []OnlyOwnKilled
  <1>1. EnginesInv => OnlyOwnKilled
    BY DEF EnginesInv, PidFacts
  <1>2. QED
    BY <1>1, EnginesInvariant, PTL

\* Every engine that is recorded as launched is within the reach of an eject for as
\* long as it runs, whichever kills fail, unless it is one the kill of its port failed
\* on or its pid had an owner before; and no pid is taken for a running engine without a reaper that
\* will take it off.
THEOREM EnginesWithinReach == HostSpec => []EjectReaches
  <1>1. EnginesInv => EjectReaches
    BY DEF EnginesInv, PidFacts
  <1>2. QED
    BY <1>1, EnginesInvariant, PTL

=============================================================================
