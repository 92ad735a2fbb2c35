----------------------------- MODULE MCChatTurns -----------------------------
(* ChatTurns with a Send request, a Confirm and a note. *)
EXTENDS ChatTurns, TLC

CONSTANTS s1, k1, n1
=============================================================================
