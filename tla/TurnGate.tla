------------------------------- MODULE TurnGate -------------------------------
(***************************************************************************)
(* What the conversation gate promises, without its entries, counts and    *)
(* channels: the turns of a conversation go through one at a time, except  *)
(* that whoever has waited the whole cap goes through anyway and is marked *)
(* as capped; and nobody who asks is left outside for good.                *)
(***************************************************************************)
CONSTANTS Requests, Keys,
          Waits     \* TRUE iff turns are serialised at all

VARIABLES place,    \* "out", "asking" or "in"
          conv,     \* the conversation of each request
          overdue,  \* the request has waited the whole cap
          capped    \* it went through for that reason
vars == <<place, conv, overdue, capped>>

Init ==
  /\ place = [r \in Requests |-> "out"] /\ conv \in [Requests -> Keys]
  /\ overdue = [r \in Requests |-> FALSE] /\ capped = [r \in Requests |-> FALSE]

Alone(r) == \A q \in Requests \ {r} : place[q] = "in" => conv[q] # conv[r]

Ask(r, k) ==
  /\ place[r] = "out" /\ place' = [place EXCEPT ![r] = "asking"]
  /\ conv' = [conv EXCEPT ![r] = k]
  /\ overdue' = [overdue EXCEPT ![r] = FALSE] /\ capped' = [capped EXCEPT ![r] = FALSE]

Enter(r) ==
  /\ place[r] = "asking" /\ (Alone(r) \/ ~Waits)
  /\ place' = [place EXCEPT ![r] = "in"]
  /\ UNCHANGED <<conv, overdue, capped>>

RunOut(r) ==
  /\ place[r] = "asking" /\ ~overdue[r]
  /\ overdue' = [overdue EXCEPT ![r] = TRUE]
  /\ UNCHANGED <<place, conv, capped>>

Overtake(r) ==
  /\ place[r] = "asking" /\ overdue[r]
  /\ place' = [place EXCEPT ![r] = "in"] /\ capped' = [capped EXCEPT ![r] = TRUE]
  /\ UNCHANGED <<conv, overdue>>

Leave(r) ==
  /\ place[r] = "in" /\ place' = [place EXCEPT ![r] = "out"]
  /\ UNCHANGED <<conv, overdue, capped>>

GoesIn(r) == Enter(r) \/ Overtake(r)

Next ==
  \E r \in Requests :
    (\E k \in Keys : Ask(r, k)) \/ GoesIn(r) \/ RunOut(r) \/ Leave(r)

Safety == Init /\ [][Next]_vars

Spec ==
  /\ Safety
  /\ \A r \in Requests : WF_vars(GoesIn(r)) /\ WF_vars(RunOut(r))

=============================================================================
