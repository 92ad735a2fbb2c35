------------------------------ MODULE MCChatHold ------------------------------
(* One held call, two decisions of its owner, a stranger's, and a native Confirm. *)
EXTENDS ChatHold, TLC

CONSTANTS c1, d1, d2, s1, n1, turn
=============================================================================
