------------------------------- MODULE ConvGate -------------------------------
(***************************************************************************)
(* The per-conversation gate of the gateway (internal/gateway/gateway.go,  *)
(* type convGate) together with the part of a chat request's life that     *)
(* takes it and gives it back: Prepare acquires it before the residency    *)
(* probes, finishRecord releases it when the request's record is written.  *)
(*                                                                         *)
(* An entry of the gate counts the requests in flight for a conversation   *)
(* and carries a channel that is closed when the count drops to zero.  A   *)
(* second request waits on that channel for at most ConvWait and then      *)
(* joins anyway.  Each critical section of convGate.mu is one step; what   *)
(* happens between two of them (the channel being closed, the deadline     *)
(* passing) is left to interleave.                                         *)
(***************************************************************************)
EXTENDS Naturals, FiniteSets

CONSTANTS
  Requests,   \* the chat requests; one that is over may be used again
  Keys,       \* conversation keys (ckey), never the empty string
  Waits       \* TRUE iff ConvWait > 0; FALSE switches the serialisation off

ASSUME GateAssumption ==
  /\ IsFiniteSet(Requests)
  /\ Keys # {}
  /\ Waits \in BOOLEAN

VARIABLES
  entries,    \* the keys that have an entry in convGate.entries
  count,      \* convGateEntry.n, zero where there is no entry
  pc,         \* where each request is
  key,        \* the conversation each request belongs to
  woken,      \* the done channel this request holds has been closed
  expired,    \* the deadline of this request's acquire has passed
  capped      \* acquire returned capped = true

vars == <<entries, count, pc, key, woken, expired, capped>>

\* "acquire": at the top of acquire's loop; "waiting": in its select;
\* "capjoin": out of time, about to lock again; "preparing": inside Prepare
\* with the gate; "planned": Prepare returned a Plan with gated = true.
Places == {"idle", "acquire", "waiting", "capjoin", "preparing", "planned"}

Holding(r) == pc[r] \in {"preparing", "planned"}

Holders(k) == {r \in Requests : Holding(r) /\ key[r] = k}

Init ==
  /\ entries = {}
  /\ count = [k \in Keys |-> 0]
  /\ pc = [r \in Requests |-> "idle"]
  /\ key \in [Requests -> Keys]
  /\ woken = [r \in Requests |-> FALSE]
  /\ expired = [r \in Requests |-> FALSE]
  /\ capped = [r \in Requests |-> FALSE]

-----------------------------------------------------------------------------

\* A request reaches Prepare and calls acquire: its deadline starts to run.
Arrive(r, k) ==
  /\ pc[r] = "idle"
  /\ pc' = [pc EXCEPT ![r] = "acquire"]
  /\ key' = [key EXCEPT ![r] = k]
  /\ woken' = [woken EXCEPT ![r] = FALSE]
  /\ expired' = [expired EXCEPT ![r] = FALSE]
  /\ capped' = [capped EXCEPT ![r] = FALSE]
  /\ UNCHANGED <<entries, count>>

\* The entry is created if there is none, and n is incremented.
Join(k) ==
  /\ entries' = entries \cup {k}
  /\ count' = [count EXCEPT ![k] = @ + 1]

\* Under the lock nobody is in flight (or nothing is serialised): go through.
Enter(r) ==
  /\ pc[r] = "acquire"
  /\ key[r] \notin entries \/ count[key[r]] = 0 \/ ~Waits
  /\ Join(key[r])
  /\ pc' = [pc EXCEPT ![r] = "preparing"]
  /\ UNCHANGED <<key, woken, expired, capped>>

\* Block that takes any wait for one without time left.
BlockImpatient(r) ==
  /\ pc[r] = "acquire"
  /\ key[r] \in entries /\ count[key[r]] # 0 /\ Waits
  /\ pc' = [pc EXCEPT ![r] = "capjoin"]
  /\ woken' = [woken EXCEPT ![r] = FALSE]
  /\ UNCHANGED <<entries, count, key, expired, capped>>

\* Under the lock somebody is in flight: keep that entry's channel, then wait
\* on it, or give up waiting when no time remains.
Block(r) ==
  /\ pc[r] = "acquire"
  /\ key[r] \in entries /\ count[key[r]] # 0 /\ Waits
  /\ pc' = [pc EXCEPT ![r] = IF expired[r] THEN "capjoin" ELSE "waiting"]
  /\ woken' = [woken EXCEPT ![r] = FALSE]
  /\ UNCHANGED <<entries, count, key, expired, capped>>

\* The clock passes the deadline of an acquire that is under way.
Expire(r) ==
  /\ pc[r] \in {"acquire", "waiting"}
  /\ ~expired[r]
  /\ expired' = [expired EXCEPT ![r] = TRUE]
  /\ UNCHANGED <<entries, count, pc, key, woken, capped>>

\* Wake without the timer's channel in the select.
WakeOnlyOnDone(r) ==
  /\ pc[r] = "waiting"
  /\ woken[r]
  /\ pc' = [pc EXCEPT ![r] = "acquire"]
  /\ UNCHANGED <<entries, count, key, woken, expired, capped>>

\* The select returns, on either channel, and the loop starts over.
Wake(r) ==
  /\ pc[r] = "waiting"
  /\ woken[r] \/ expired[r]
  /\ pc' = [pc EXCEPT ![r] = "acquire"]
  /\ UNCHANGED <<entries, count, key, woken, expired, capped>>

\* CapJoin that always installs a fresh entry with n = 1.
CapJoinReplaces(r) ==
  /\ pc[r] = "capjoin"
  /\ entries' = entries \cup {key[r]}
  /\ count' = [count EXCEPT ![key[r]] = 1]
  /\ capped' = [capped EXCEPT ![r] = TRUE]
  /\ pc' = [pc EXCEPT ![r] = "preparing"]
  /\ UNCHANGED <<key, woken, expired>>

\* The cap ran out: the lock is taken again and the request joins whatever
\* entry there is now, or a new one, and reports capped.
CapJoin(r) ==
  /\ pc[r] = "capjoin"
  /\ Join(key[r])
  /\ capped' = [capped EXCEPT ![r] = TRUE]
  /\ pc' = [pc EXCEPT ![r] = "preparing"]
  /\ UNCHANGED <<key, woken, expired>>

\* Prepare returns its Plan; the gate is the Plan's from here on.
Plan(r) ==
  /\ pc[r] = "preparing"
  /\ pc' = [pc EXCEPT ![r] = "planned"]
  /\ UNCHANGED <<entries, count, key, woken, expired, capped>>

\* Release that deletes the entry whoever is still in flight.
ReleaseDeletesAlways(r) ==
  /\ entries' = entries \ {key[r]}
  /\ count' = [count EXCEPT ![key[r]] = 0]
  /\ woken' = [q \in Requests |->
                 woken[q] \/ (pc[q] = "waiting" /\ key[q] = key[r])]

\* Release that deletes the entry without closing its channel.
ReleaseNoClose(r) ==
  /\ count' = [count EXCEPT ![key[r]] = @ - 1]
  /\ entries' = IF count[key[r]] - 1 <= 0 THEN entries \ {key[r]} ELSE entries
  /\ UNCHANGED woken

\* convGate.release: the last one out closes the channel, which wakes every
\* request that waits on this entry, and deletes the entry.
Release(r) ==
  LET k == key[r] IN
    IF k \notin entries
      THEN UNCHANGED <<entries, count, woken>>
      ELSE IF count[k] - 1 <= 0
        THEN /\ entries' = entries \ {k}
             /\ count' = [count EXCEPT ![k] = 0]
             /\ woken' = [q \in Requests |->
                            woken[q] \/ (pc[q] = "waiting" /\ key[q] = k)]
        ELSE /\ count' = [count EXCEPT ![k] = @ - 1]
             /\ UNCHANGED <<entries, woken>>

\* Prepare unwinds without a Plan: its deferred function releases the gate.
Abort(r) ==
  /\ pc[r] = "preparing"
  /\ Release(r)
  /\ pc' = [pc EXCEPT ![r] = "idle"]
  /\ UNCHANGED <<key, expired, capped>>

\* Finish skipped by an early return: the gate is never given back.
FinishLeaks(r) ==
  /\ pc[r] = "planned"
  /\ pc' = [pc EXCEPT ![r] = "idle"]
  /\ UNCHANGED <<entries, count, key, woken, expired, capped>>

\* The record is written, once per Plan, on every path of Chat and chatStream.
Finish(r) ==
  /\ pc[r] = "planned"
  /\ Release(r)
  /\ pc' = [pc EXCEPT ![r] = "idle"]
  /\ UNCHANGED <<key, expired, capped>>

Acquire(r) == Enter(r) \/ Block(r) \/ Wake(r) \/ CapJoin(r)

Next ==
  \E r \in Requests :
    \/ \E k \in Keys : Arrive(r, k)
    \/ Acquire(r)
    \/ Expire(r)
    \/ Plan(r)
    \/ Abort(r)
    \/ Finish(r)

Spec == Init /\ [][Next]_vars

\* The goroutine inside acquire is scheduled and its timer fires; nothing is
\* assumed of the requests that hold the gate.
Fairness ==
  \A r \in Requests : WF_vars(Acquire(r)) /\ WF_vars(Expire(r))

FairSpec == Spec /\ Fairness

-----------------------------------------------------------------------------

\* Every variable has its type, and an entry never counts more requests than
\* there are: a gate that is taken and not given back would run past that.
TypeOK ==
  /\ entries \subseteq Keys
  /\ count \in [Keys -> 0..Cardinality(Requests)]
  /\ pc \in [Requests -> Places]
  /\ key \in [Requests -> Keys]
  /\ woken \in [Requests -> BOOLEAN]
  /\ expired \in [Requests -> BOOLEAN]
  /\ capped \in [Requests -> BOOLEAN]

\* The count of an entry is the number of requests of that conversation in
\* flight, and the entry exists exactly while there are some (fix#21: a gate
\* left held made every later turn of the conversation wait the whole cap).
GateCountsHolders ==
  \A k \in Keys :
    /\ count[k] = Cardinality(Holders(k))
    /\ k \in entries <=> Holders(k) # {}

\* One request of a conversation at a time (fix#15): two in flight together
\* means that one of them waited its whole cap out and said so.
SerialUnlessCapped ==
  Waits => \A r, q \in Requests :
    (r # q /\ Holding(r) /\ Holding(q) /\ key[r] = key[q])
      => capped[r] \/ capped[q]

\* A request never sleeps on a channel nobody will close: while it waits with
\* the channel open, its conversation still has a request in flight.
NoLostWakeup ==
  \A r \in Requests :
    pc[r] = "waiting" /\ ~woken[r] => Holders(key[r]) # {}

\* A stuck request never blocks its conversation for good: whoever asks for
\* the gate gets through even if no holder ever finishes.
EveryAcquireReturns ==
  \A r \in Requests : pc[r] = "acquire" ~> pc[r] = "preparing"

\* The gate read as turns: asking is anywhere inside acquire, being in is
\* holding the gate, and the entries and channels are not seen.
Turns == INSTANCE TurnGate WITH
  place <- [r \in Requests |->
              CASE pc[r] = "idle" -> "out"
                [] pc[r] \in {"acquire", "waiting", "capjoin"} -> "asking"
                [] OTHER -> "in"],
  conv <- key, overdue <- expired

\* The counts, the channels and the two locked sections of acquire implement
\* the turns of TurnGate: nobody goes through early without being alone, none
\* is marked capped before its deadline, and everybody who asks gets in.
ImplementsTurns == Turns!Spec

=============================================================================
