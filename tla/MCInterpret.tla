------------------------------ MODULE MCInterpret ------------------------------
(* Interpret on a small instance: three experiments of one conversation, from   *)
(* four situations.                                                            *)
EXTENDS Interpret

\* One launch, and all that can go wrong around its record while two look at it.
Launching == [run |-> [r \in Runs |-> IF r = 1 THEN NewRun ELSE NoRun],
              left |-> [looks |-> 2, asks |-> 0, upsets |-> 2, developer |-> FALSE]]

\* One run that ends, is looked at meanwhile, and is read.
Running == [run |-> [r \in Runs |-> IF r = 1 THEN RunningRun ELSE NoRun],
            left |-> [looks |-> 1, asks |-> 0, upsets |-> 1, developer |-> TRUE]]

\* All runs have ended and are read: more than a batch offers, so that the last is
\* offered when the first is too old, and more than are held if it still is by then.
Crowded == [run |-> [r \in Runs |-> EndedRun],
            left |-> [looks |-> 0, asks |-> 0, upsets |-> 1, developer |-> TRUE]]

\* One run that has ended is read while the developer talks.
Talking == [run |-> [r \in Runs |-> IF r = 1 THEN EndedRun ELSE NoRun],
            left |-> [looks |-> 0, asks |-> 1, upsets |-> 1, developer |-> TRUE]]

Situation == {Launching, Running, Crowded, Talking}

\* The last but one without upsets.
Undisturbed == {[Crowded EXCEPT !.left.upsets = 0]}
===============================================================================
