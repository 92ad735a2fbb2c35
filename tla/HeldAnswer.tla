------------------------------ MODULE HeldAnswer ------------------------------
(***************************************************************************)
(* What a held tool call promises.  A call that needs the developer's      *)
(* consent is open until exactly one side takes it: the developer, whose   *)
(* answer then IS the answer the model gets, or the caller, which gives up *)
(* and after which no answer is accepted any more.                         *)
(***************************************************************************)
CONSTANT Calls

VARIABLE call

States == {"unasked", "open", "approved", "rejected", "withdrawn",
           "acted", "declined", "gave_up"}

Finished == {"acted", "declined", "gave_up"}

Init == call = [c \in Calls |-> "unasked"]

Move(c, from, to) ==
    /\ call[c] = from
    /\ call' = [call EXCEPT ![c] = to]

Ask(c) == Move(c, "unasked", "open")

Accept(c) == Move(c, "open", "approved") \/ Move(c, "open", "rejected")

Withdraw(c) == Move(c, "open", "withdrawn")

Answer(c) ==
    \/ Move(c, "approved", "acted")
    \/ Move(c, "rejected", "declined")
    \/ Move(c, "withdrawn", "gave_up")

Next == \E c \in Calls : Ask(c) \/ Accept(c) \/ Withdraw(c) \/ Answer(c)

vars == <<call>>

\* An open call is always settled: the timer gives up if nobody decides.
Spec ==
    /\ Init /\ [][Next]_vars
    /\ \A c \in Calls :
          /\ WF_vars(Accept(c) \/ Withdraw(c))
          /\ WF_vars(Answer(c))
=============================================================================
