------------------------------ MODULE MCConvGate ------------------------------
(***************************************************************************)
(* Instance of ConvGate for TLC: three requests over two conversations, so *)
(* that a holder, a waiter and a late third request meet on one key.       *)
(***************************************************************************)
EXTENDS ConvGate

CONSTANTS r1, r2, r3, k1, k2

MCRequests == {r1, r2, r3}
MCKeys == {k1, k2}

=============================================================================
