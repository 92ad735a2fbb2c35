---------------------------- MODULE MCChatHoldTwice ----------------------------
(* Two Confirm requests for one confirmation: a double click, or two windows. *)
EXTENDS ChatHold, TLC

CONSTANTS c1, n1, n2, turn
=============================================================================
