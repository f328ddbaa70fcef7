---------------------------- MODULE MCPrefillPool ----------------------------
(* The pools and the decode room of PrefillPool on a small instance: every  *)
(* engine of two slots, one of them with its KV split.                      *)
EXTENDS PrefillPool

CONSTANTS u, v, j1, j2   \* a unified engine, a split one, two requests

MCContext == (u :> 5 @@ v :> 4)
MCRoute == [pre |-> u, dec |-> v]
MCSymmetry == Permutations({j1, j2})
=============================================================================
