----------------------------- MODULE MCEngines -----------------------------
(* Two loads and an eject on a host with two pids and two ports.           *)
EXTENDS Engines, TLC

CONSTANTS l1, l2, k1, p1, p2

MCSymmetry == Permutations(Pids) \cup Permutations(Loads)

=============================================================================
