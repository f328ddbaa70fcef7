------------------------------ MODULE MCKvHandoff ------------------------------
(***************************************************************************)
(* Instances of KvHandoff for TLC: two nodes that hand off to each other,  *)
(* as symmetric routing has them do, and two handoffs.                     *)
(***************************************************************************)
EXTENDS KvHandoff, TLC

MCDefault == [pre |-> "a", dec |-> "b"]
MCRoutes == {[pre |-> "a", dec |-> "b"], [pre |-> "b", dec |-> "a"]}

\* One handoff is like another.
Interchangeable == Permutations(Names)

=============================================================================
