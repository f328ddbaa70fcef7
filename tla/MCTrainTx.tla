------------------------------- MODULE MCTrainTx -------------------------------
(***************************************************************************)
(* Instances of TrainTx for TLC: jobs and handlers enough for a begin to   *)
(* meet a close on the same instance, a decode engine (or prefills).       *)
(***************************************************************************)
EXTENDS TrainTx, TLC

\* Every decode has its own engine in the balancer.
DecodeFences == [k \in Instances |-> {k}]

\* Every prefill has the one switch of the KV handoff.
PrefillFences == [k \in Instances |-> {"handoff"}]

\* Jobs are told apart by nothing, nor are handlers.
Interchangeable == Permutations(Jobs) \cup Permutations(Handlers)

=============================================================================
