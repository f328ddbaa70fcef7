----------------------------- MODULE MCAdmission -----------------------------
(* Admission of three conversations of one product (the same system prompt   *)
(* and tools) to an engine of two slots, with room for two in a registry.    *)
EXTENDS Admission

CONSTANTS c1, c2, c3, tools, r1, r2

MCPrefix == [c \in {c1, c2, c3} |-> tools]
MCRing == (tools :> 0)
MCSymmetry == Permutations({r1, r2}) \cup Permutations({c1, c2, c3})
=============================================================================
