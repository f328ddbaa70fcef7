------------------------------ MODULE MCUpdater ------------------------------
(* The updater on a small instance: a good binary of the next version, an   *)
(* older one that someone may publish as the next, and a spoilt download.   *)
EXTENDS Updater, TLC

CONSTANTS v1, v2, v1bis, spoilt, start, tick, button

MCDeclares == (v1 :> 1 @@ v1bis :> 1 @@ v2 :> 2 @@ spoilt :> 0)
=============================================================================
