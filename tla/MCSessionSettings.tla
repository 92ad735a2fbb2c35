-------------------------- MODULE MCSessionSettings --------------------------
(* SessionSettings with two requests, three tiers and two iterations in all. *)
EXTENDS SessionSettings

CONSTANTS a, b
=============================================================================
