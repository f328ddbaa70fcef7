--------------------------- MODULE MCDecodeBalancer ---------------------------
(***************************************************************************)
(* An instance of DecodeBalancer for TLC: two engines and two requests,    *)
(* one conversation that fills an engine, one that comes by the handoff    *)
(* and takes part of it, and a third the handoff asks about.  There is     *)
(* room for two assignments, so that it matters which one is evicted.      *)
(***************************************************************************)
EXTENDS DecodeBalancer, TLC

CONSTANTS k1, k2, k3

MCCalls == {[route |-> "pick", key |-> k1, tok |-> 3],
            [route |-> "handoff", key |-> k2, tok |-> 1]}
MCProbed == [n \in 1..N |-> IF n = 1 THEN 2 ELSE Default]

=============================================================================
