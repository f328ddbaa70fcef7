--------------------------- MODULE MCChatStream ---------------------------
(* Two requests of one conversation over one decode engine with one slot   *)
(* and the prefill engine.                                                 *)
EXTENDS ChatStream

CONSTANTS r1, r2, conv

MCConvOf == [r \in Reqs |-> conv]

=============================================================================
