--------------------------- MODULE ChatHold_proofs ---------------------------
(***************************************************************************)
(* Proofs about ChatHold, for any number of calls and requests: type       *)
(* correctness; that whoever takes a held call's waiter owns its outcome;  *)
(* that every step is a step of HeldAnswer or leaves its view alone; and   *)
(* that every held call returns.                                           *)
(***************************************************************************)
EXTENDS ChatHold, TLAPS

Undecided == {"waiting", "giving_up", "owed"}
Decided == {"deciding", "running", "ending", "returned"}

\* A registered waiter belongs to a Hold that waits, and nobody has taken it.
WaiterInv(c) ==
    c \in holds => /\ pc[c] \in {"waiting", "giving_up"}
                   /\ decided[c] = "empty"
                   /\ taken[c] = "none"
                   /\ Takers(c) = {}

\* A Decide that took the waiter is alone and owns it; until it has sent, the
\* channel is empty, and after that its choice is in the channel or taken from it.
TakerInv(c) ==
    \A d \in Takers(c) :
        /\ d \notin Strangers
        /\ \A e \in Takers(c) : d = e
        /\ \/ /\ deciders[d].pc = "sending"
              /\ pc[c] \in Undecided
              /\ decided[c] = "empty" /\ taken[c] = "none"
           \/ /\ deciders[d].pc = "accepted"
              /\ pc[c] \in Undecided
              /\ decided[c] = deciders[d].choice /\ taken[c] = "none"
           \/ /\ deciders[d].pc = "accepted"
              /\ pc[c] \in Decided
              /\ decided[c] = "empty" /\ taken[c] = deciders[d].choice

\* A decision, sent or taken, was made by a Decide that took the waiter; a call
\* nobody took has none.
SourceInv(c) ==
    /\ decided[c] # "empty" \/ taken[c] # "none" => Takers(c) # {}
    /\ pc[c] \in {"deciding", "running"} => taken[c] # "none"
    /\ pc[c] = "running" => taken[c] = "approve"

\* The answer follows the decision that was taken, or there was none to take.
AnswerInv(c) ==
    /\ pc[c] \notin {"ending", "returned"} => outcome[c] = "none"
    /\ pc[c] \in {"ending", "returned"} =>
          \/ outcome[c] = "acted" /\ taken[c] = "approve"
          \/ outcome[c] = "declined" /\ taken[c] = "reject"
          \/ outcome[c] \in {"gave_up", "refused"} /\ taken[c] = "none"
    /\ c \in noticed => pc[c] \in {"ending", "returned"} /\ outcome[c] = "gave_up"

\* Where a confirmation may still be pending.
CardInv(c) ==
    /\ pc[c] \in {"new", "attached", "noting"} => row[c] # "pending" \/ StoreFails
    /\ pc[c] = "running" => row[c] # "pending" \/ StoreFails \/ c \in callGone
    /\ pc[c] \in {"ending", "returned"} =>
          \/ row[c] # "pending" \/ StoreFails
          \/ c \in callGone /\ outcome[c] \in {"acted", "declined", "refused"}

CallInv(c) ==
    WaiterInv(c) /\ TakerInv(c) /\ SourceInv(c) /\ AnswerInv(c) /\ CardInv(c)

HoldInv == \A c \in Calls : CallInv(c)

-----------------------------------------------------------------------------
\* Every step keeps the types.
LEMMA TypeStep == TypeOK /\ [Next]_vars => TypeOK'
<1> SUFFICES ASSUME TypeOK, [Next]_vars PROVE TypeOK'
  OBVIOUS
<1> USE HoldAssumption DEF TypeOK, RegistryTypeOK, registryVars, Choices, HoldStates, Outcomes
<1>1. ASSUME NEW c \in Calls, Enter(c) PROVE TypeOK'
  <2>1. CASE Attached
    <3>1. /\ exchange' = [exchange EXCEPT ![c] = live]
          /\ pc' = [pc EXCEPT ![c] = "attached"]
          /\ UNCHANGED <<registryVars, row, holds, decided, outcome, taken, noticed,
                         callGone, dispatched, deciders, confirmers>>
      BY <1>1, <2>1 DEF Enter, Goto
    <3>2. QED
      BY <2>1, <3>1 DEF Attached
  <2>2. CASE ~Attached
    <3>1. /\ outcome' = [outcome EXCEPT ![c] = "refused"]
          /\ pc' = [pc EXCEPT ![c] = "returned"]
          /\ UNCHANGED <<registryVars, row, holds, decided, exchange, taken, noticed,
                         callGone, dispatched, deciders, confirmers>>
      BY <1>1, <2>2 DEF Enter, Goto
    <3>2. QED
      BY <3>1
  <2>3. QED
    BY <2>1, <2>2
<1>2. ASSUME NEW c \in Calls, Store(c) PROVE TypeOK'
  BY <1>2 DEF Store, Goto, WriteOutcomes
<1>3. ASSUME NEW c \in Calls, BeginHold(c) PROVE TypeOK'
  BY <1>3 DEF BeginHold, Goto
<1>4. ASSUME NEW c \in Calls, TakeDecision(c) PROVE TypeOK'
  BY <1>4 DEF TakeDecision, Goto
<1>5. ASSUME NEW c \in Calls, TimeOut(c) PROVE TypeOK'
  BY <1>5 DEF TimeOut, GiveUp, Goto
<1>6. ASSUME NEW c \in Calls, TurnOver(c) PROVE TypeOK'
  BY <1>6 DEF TurnOver, GiveUp, Goto
<1>7. ASSUME NEW c \in Calls, CallerLeft(c) PROVE TypeOK'
  BY <1>7 DEF CallerLeft, GiveUp, Goto
<1>8. ASSUME NEW c \in Calls, ClaimHold(c) PROVE TypeOK'
  BY <1>8 DEF ClaimHold, Goto
<1>9. ASSUME NEW c \in Calls, RecordDecision(c) PROVE TypeOK'
  <2>1. row' \in [Calls -> {"absent", "pending", "approved", "rejected"}]
    BY <1>9 DEF RecordDecision, Recorded
  <2>2. CASE taken[c] = "approve"
    BY <1>9, <2>1, <2>2 DEF RecordDecision, Goto
  <2>3. CASE taken[c] # "approve"
    BY <1>9, <2>1, <2>3 DEF RecordDecision, Goto
  <2>4. QED
    BY <2>2, <2>3
<1>10. ASSUME NEW c \in Calls, RunHeld(c) PROVE TypeOK'
  BY <1>10 DEF RunHeld, Goto
<1>11. ASSUME NEW c \in Calls, RetireRow(c) PROVE TypeOK'
  BY <1>11 DEF RetireRow, Goto, WriteOutcomes
<1>12. ASSUME NEW c \in Calls, AppendNotice(c) PROVE TypeOK'
  BY <1>12 DEF AppendNotice, Goto, WriteOutcomes
<1>13. ASSUME NEW c \in Calls, EndHold(c) PROVE TypeOK'
  BY <1>13 DEF EndHold, Goto
<1>14. ASSUME NEW c \in Calls, CallGoes(c) PROVE TypeOK'
  BY <1>14 DEF CallGoes, confirmationVars, callVars
<1>15. ASSUME NEW d \in Deciders, ClaimToDecide(d) PROVE TypeOK'
  <2>1. /\ holds' \subseteq Calls
        /\ deciders' \in [Deciders -> [pc : {"idle", "sending", "accepted", "refused"},
                                      call : Calls, choice : Choices]]
    <3>1. holds' \subseteq Calls
      BY <1>15 DEF ClaimToDecide
    <3>2. PICK state \in {"sending", "refused"} : deciders' = [deciders EXCEPT ![d].pc = state]
      BY <1>15 DEF ClaimToDecide, DeciderAt
    <3>3. QED
      BY <3>1, <3>2
  <2>2. QED
    BY <1>15, <2>1 DEF ClaimToDecide, callVars
<1>16. ASSUME NEW d \in Deciders, SendDecision(d) PROVE TypeOK'
  BY <1>16 DEF SendDecision, DeciderAt
<1>17. ASSUME NEW n \in Confirmers, ReadConfirmation(n) PROVE TypeOK'
  BY <1>17 DEF ReadConfirmation, ConfirmerAt, callVars
<1>18. ASSUME NEW n \in Confirmers, CheckUnheld(n) PROVE TypeOK'
  BY <1>18 DEF CheckUnheld, ConfirmerAt, callVars
<1>19. ASSUME NEW n \in Confirmers, CheckIdle(n) PROVE TypeOK'
  BY <1>19 DEF CheckIdle, ConfirmerAt, callVars
<1>20. ASSUME NEW n \in Confirmers, BeginConfirm(n) PROVE TypeOK'
  BY <1>20 DEF BeginConfirm, ConfirmerAt, callVars, Begin
<1>21. ASSUME NEW n \in Confirmers, RunConfirmed(n) PROVE TypeOK'
  BY <1>21 DEF RunConfirmed, ConfirmerAt, callVars
<1>22. ASSUME NEW n \in Confirmers, RecordConfirmed(n) PROVE TypeOK'
  BY <1>22 DEF RecordConfirmed, ConfirmerAt, WriteOutcomes, Recorded, callVars
<1>23. ASSUME NEW n \in Confirmers, EndConfirm(n) PROVE TypeOK'
  BY <1>23 DEF EndConfirm, ConfirmerAt, callVars, Deregister
<1>24. CASE BeginTurn
  BY <1>24 DEF BeginTurn, confirmationVars, callVars, Begin
<1>25. CASE EndTurn
  BY <1>25 DEF EndTurn, confirmationVars, callVars, Deregister
<1>26. ASSUME NEW x \in Exchanges, CloseExchange(x) PROVE TypeOK'
  BY <1>26 DEF CloseExchange, confirmationVars, callVars, Close
<1>27. ASSUME NEW x \in Exchanges, CancelExchange(x) PROVE TypeOK'
  BY <1>27 DEF CancelExchange, confirmationVars, callVars, Cancel
<1>28. CASE UNCHANGED vars
  BY <1>28 DEF vars, callVars
<1>29. QED
  BY <1>1, <1>2, <1>3, <1>4, <1>5, <1>6, <1>7, <1>8, <1>9, <1>10, <1>11, <1>12, <1>13, <1>14, <1>15, <1>16, <1>17, <1>18, <1>19, <1>20, <1>21, <1>22, <1>23, <1>24, <1>25, <1>26, <1>27, <1>28 DEF Next, HoldStep, ConfirmStep

-----------------------------------------------------------------------------
\* What a step leaves of call k when it is about something else: its waiter, its
\* Hold and the Decides that took it are as before, and its card is not redrawn.
Untouched(k) ==
    /\ k \in holds' <=> k \in holds
    /\ k \in noticed' <=> k \in noticed
    /\ k \in callGone => k \in callGone'
    /\ pc'[k] = pc[k]
    /\ decided'[k] = decided[k]
    /\ taken'[k] = taken[k]
    /\ outcome'[k] = outcome[k]
    /\ row'[k] = row[k] \/ row'[k] # "pending"
    /\ Takers(k)' = Takers(k)
    /\ \A d \in Takers(k) : deciders'[d] = deciders[d]

LEMMA Frame ==
    ASSUME NEW k \in Calls, CallInv(k), Untouched(k) PROVE CallInv(k)'
<1> USE DEF CallInv, Untouched
<1>1. WaiterInv(k)'
  BY DEF WaiterInv
<1>2. TakerInv(k)'
  BY DEF TakerInv, Undecided, Decided
<1>3. SourceInv(k)'
  BY DEF SourceInv
<1>4. AnswerInv(k)'
  BY DEF AnswerInv
<1>5. CardInv(k)'
  BY DEF CardInv
<1>6. QED
  BY <1>1, <1>2, <1>3, <1>4, <1>5

\* No Hold step changes a Decide, so the takers of every call stay.
LEMMA SameTakers ==
    ASSUME deciders' = deciders, NEW k \in Calls
    PROVE  Takers(k)' = Takers(k) /\ \A d \in Takers(k) : deciders'[d] = deciders[d]
BY DEF Takers

\* Every step of a Hold keeps its call's invariant, and the other calls'.

LEMMA EnterKeeps ==
    ASSUME TypeOK, HoldInv, NEW c \in Calls, Enter(c) PROVE HoldInv'
<1> USE DEF TypeOK, Choices
<1>1. ASSUME NEW k \in Calls, k # c PROVE CallInv(k)'
  <2>1. Untouched(k)
    BY <1>1, SameTakers DEF Enter, Goto, Attached, Untouched
  <2>2. QED
    BY <1>1, <2>1, Frame DEF HoldInv
<1>2. CallInv(c)'
  BY SameTakers DEF HoldInv, CallInv, WaiterInv, TakerInv, SourceInv, AnswerInv, CardInv,
     Undecided, Decided, Enter, Goto, Attached
<1>3. QED
  BY <1>1, <1>2 DEF HoldInv

LEMMA StoreKeeps ==
    ASSUME TypeOK, HoldInv, NEW c \in Calls, Store(c) PROVE HoldInv'
<1> USE DEF TypeOK, Choices
<1>1. ASSUME NEW k \in Calls, k # c PROVE CallInv(k)'
  <2>1. Untouched(k)
    BY <1>1, SameTakers DEF Store, Goto, WriteOutcomes, Untouched
  <2>2. QED
    BY <1>1, <2>1, Frame DEF HoldInv
<1>2. CallInv(c)'
  <2> USE DEF HoldInv, CallInv, WriteOutcomes
  <2>1. /\ c \notin holds' /\ c \notin noticed' /\ Takers(c)' = {}
        /\ decided'[c] = "empty" /\ taken'[c] = "none"
    BY SameTakers DEF Store, WaiterInv, TakerInv, SourceInv, AnswerInv, Undecided, Decided
  <2>2. WaiterInv(c)' /\ TakerInv(c)' /\ SourceInv(c)'
    BY <2>1 DEF Store, Goto, WaiterInv, TakerInv, SourceInv
  <2>3. AnswerInv(c)'
    BY <2>1 DEF Store, Goto, AnswerInv
  <2>4. CardInv(c)'
    <3>1. PICK landed, ok \in WriteOutcomes(c \in callGone) :
             /\ ok => landed
             /\ row' = [row EXCEPT ![c] = IF landed THEN "pending" ELSE @]
             /\ outcome' = [outcome EXCEPT ![c] = IF ok THEN @ ELSE "refused"]
             /\ pc' = [pc EXCEPT ![c] = IF ok THEN "stored" ELSE "returned"]
      BY DEF Store, Goto
    <3>2. ok = TRUE \/ (ok = FALSE /\ (c \in callGone \/ StoreFails))
      BY <3>1
    <3>3. callGone' = callGone
      BY DEF Store
    <3>4. CASE ok = TRUE
      BY <3>1, <3>4 DEF CardInv
    <3>5. CASE ok = FALSE /\ (c \in callGone \/ StoreFails)
      BY <3>1, <3>3, <3>5 DEF CardInv
    <3>6. QED
      BY <3>2, <3>4, <3>5
  <2>5. QED
    BY <2>2, <2>3, <2>4
<1>3. QED
  BY <1>1, <1>2 DEF HoldInv

LEMMA BeginHoldKeeps ==
    ASSUME TypeOK, HoldInv, NEW c \in Calls, BeginHold(c) PROVE HoldInv'
<1> USE DEF TypeOK, Choices
<1>1. ASSUME NEW k \in Calls, k # c PROVE CallInv(k)'
  <2>1. Untouched(k)
    BY <1>1, SameTakers DEF BeginHold, Goto, Untouched
  <2>2. QED
    BY <1>1, <2>1, Frame DEF HoldInv
<1>2. CallInv(c)'
  <2> USE DEF HoldInv, CallInv
  <2>1. Takers(c) = {} /\ decided[c] = "empty" /\ taken[c] = "none"
    BY DEF TakerInv, SourceInv, BeginHold, Undecided, Decided
  <2>2. Takers(c)' = {}
    BY <2>1, SameTakers DEF BeginHold
  <2>3. QED
    BY <2>1, <2>2 DEF WaiterInv, TakerInv, SourceInv, AnswerInv, CardInv, BeginHold, Goto
<1>3. QED
  BY <1>1, <1>2 DEF HoldInv

LEMMA TakeDecisionKeeps ==
    ASSUME TypeOK, HoldInv, NEW c \in Calls, TakeDecision(c) PROVE HoldInv'
<1> USE DEF TypeOK, Choices
<1>1. ASSUME NEW k \in Calls, k # c PROVE CallInv(k)'
  <2>1. Untouched(k)
    BY <1>1, SameTakers DEF TakeDecision, Goto, Untouched
  <2>2. QED
    BY <1>1, <2>1, Frame DEF HoldInv
<1>2. CallInv(c)'
  BY SameTakers DEF HoldInv, CallInv, WaiterInv, TakerInv, SourceInv, AnswerInv, CardInv,
     Undecided, Decided, TakeDecision, Goto
<1>3. QED
  BY <1>1, <1>2 DEF HoldInv

LEMMA GiveUpKeeps ==
    ASSUME TypeOK, HoldInv, NEW c \in Calls, GiveUp(c) PROVE HoldInv'
<1> USE DEF TypeOK, Choices
<1>1. ASSUME NEW k \in Calls, k # c PROVE CallInv(k)'
  <2>1. Untouched(k)
    BY <1>1, SameTakers DEF GiveUp, Goto, Untouched
  <2>2. QED
    BY <1>1, <2>1, Frame DEF HoldInv
<1>2. CallInv(c)'
  BY SameTakers DEF HoldInv, CallInv, WaiterInv, TakerInv, SourceInv, AnswerInv, CardInv,
     Undecided, Decided, GiveUp, Goto
<1>3. QED
  BY <1>1, <1>2 DEF HoldInv

LEMMA ClaimHoldKeeps ==
    ASSUME TypeOK, HoldInv, NEW c \in Calls, ClaimHold(c) PROVE HoldInv'
<1> USE DEF TypeOK, Choices
<1>1. ASSUME NEW k \in Calls, k # c PROVE CallInv(k)'
  <2>1. Untouched(k)
    BY <1>1, SameTakers DEF ClaimHold, Goto, Untouched
  <2>2. QED
    BY <1>1, <2>1, Frame DEF HoldInv
<1>2. CallInv(c)'
  <2> USE DEF HoldInv, CallInv
  <2>1. CASE c \in holds
    <3>1. Takers(c) = {} /\ decided[c] = "empty" /\ taken[c] = "none"
      BY <2>1 DEF WaiterInv
    <3>2. Takers(c)' = {}
      BY <3>1, SameTakers DEF ClaimHold
    <3>3. QED
      BY <2>1, <3>1, <3>2
      DEF WaiterInv, TakerInv, SourceInv, AnswerInv, CardInv, ClaimHold, Goto
  <2>2. CASE c \notin holds
    BY <2>2, SameTakers
    DEF WaiterInv, TakerInv, SourceInv, AnswerInv, CardInv, ClaimHold, Goto,
        Undecided, Decided
  <2>3. QED
    BY <2>1, <2>2
<1>3. QED
  BY <1>1, <1>2 DEF HoldInv

LEMMA RecordDecisionKeeps ==
    ASSUME TypeOK, HoldInv, NEW c \in Calls, RecordDecision(c) PROVE HoldInv'
<1> USE DEF TypeOK, Choices
<1>1. ASSUME NEW k \in Calls, k # c PROVE CallInv(k)'
  <2>1. Untouched(k)
    BY <1>1, SameTakers DEF RecordDecision, Goto, WriteOutcomes, Recorded, Untouched
  <2>2. QED
    BY <1>1, <2>1, Frame DEF HoldInv
<1>2. CallInv(c)'
  <2> USE DEF HoldInv, CallInv
  <2>1. pc[c] = "deciding" /\ c \notin holds /\ c \notin holds'
    BY DEF RecordDecision, WaiterInv
  <2>2. row'[c] # "pending" \/ StoreFails \/ c \in callGone'
    BY DEF RecordDecision, WriteOutcomes, Recorded
  <2>3. TakerInv(c)' /\ WaiterInv(c)'
    BY <2>1, SameTakers DEF TakerInv, WaiterInv, RecordDecision, Goto, Undecided, Decided
  <2>4. CASE taken[c] = "approve"
    BY <2>1, <2>2, <2>3, <2>4, SameTakers
    DEF SourceInv, AnswerInv, CardInv, RecordDecision, Goto
  <2>5. CASE taken[c] # "approve"
    <3>1. taken[c] = "reject"
      BY <2>1, <2>5 DEF SourceInv
    <3>2. QED
      BY <2>1, <2>2, <2>3, <3>1, SameTakers
      DEF SourceInv, AnswerInv, CardInv, RecordDecision, Goto
  <2>6. QED
    BY <2>4, <2>5
<1>3. QED
  BY <1>1, <1>2 DEF HoldInv

LEMMA RunHeldKeeps ==
    ASSUME TypeOK, HoldInv, NEW c \in Calls, RunHeld(c) PROVE HoldInv'
<1> USE DEF TypeOK, Choices
<1>1. ASSUME NEW k \in Calls, k # c PROVE CallInv(k)'
  <2>1. Untouched(k)
    BY <1>1, SameTakers DEF RunHeld, Goto, Untouched
  <2>2. QED
    BY <1>1, <2>1, Frame DEF HoldInv
<1>2. CallInv(c)'
  BY SameTakers DEF HoldInv, CallInv, WaiterInv, TakerInv, SourceInv, AnswerInv, CardInv,
     Undecided, Decided, RunHeld, Goto
<1>3. QED
  BY <1>1, <1>2 DEF HoldInv

LEMMA RetireRowKeeps ==
    ASSUME TypeOK, HoldInv, NEW c \in Calls, RetireRow(c) PROVE HoldInv'
<1> USE DEF TypeOK, Choices
<1>1. ASSUME NEW k \in Calls, k # c PROVE CallInv(k)'
  <2>1. Untouched(k)
    BY <1>1, SameTakers DEF RetireRow, Goto, WriteOutcomes, Untouched
  <2>2. QED
    BY <1>1, <2>1, Frame DEF HoldInv
<1>2. CallInv(c)'
  <2> USE DEF HoldInv, CallInv
  <2>1. c \notin holds
    BY DEF WaiterInv, RetireRow
  <2>2. Takers(c) = {}
    BY DEF TakerInv, RetireRow, Undecided, Decided
  <2>3. Takers(c)' = {}
    BY <2>2, SameTakers DEF RetireRow
  <2>4. row'[c] # "pending" \/ StoreFails
    BY DEF RetireRow, WriteOutcomes
  <2>5. QED
    BY <2>1, <2>2, <2>3, <2>4 DEF WaiterInv, TakerInv, SourceInv, AnswerInv, CardInv, RetireRow, Goto
<1>3. QED
  BY <1>1, <1>2 DEF HoldInv

LEMMA AppendNoticeKeeps ==
    ASSUME TypeOK, HoldInv, NEW c \in Calls, AppendNotice(c) PROVE HoldInv'
<1> USE DEF TypeOK, Choices
<1>1. ASSUME NEW k \in Calls, k # c PROVE CallInv(k)'
  <2>1. Untouched(k)
    BY <1>1, SameTakers DEF AppendNotice, Goto, WriteOutcomes, Untouched
  <2>2. QED
    BY <1>1, <2>1, Frame DEF HoldInv
<1>2. CallInv(c)'
  <2>1. /\ CallInv(c) /\ Takers(c)' = Takers(c) /\ pc[c] = "noting"
        /\ pc' = [pc EXCEPT ![c] = "ending"] /\ outcome' = [outcome EXCEPT ![c] = "gave_up"]
        /\ UNCHANGED <<row, holds, decided, taken, callGone, deciders>>
    BY SameTakers DEF HoldInv, AppendNotice, Goto
  <2>2. WaiterInv(c)' /\ TakerInv(c)' /\ SourceInv(c)'
    BY <2>1 DEF CallInv, WaiterInv, TakerInv, SourceInv, Undecided, Decided
  <2>3. AnswerInv(c)'
    <3>1. noticed' \subseteq noticed \union {c} /\ taken[c] = "none"
      BY <2>1 DEF AppendNotice, CallInv, TakerInv, SourceInv, Undecided, Decided
    <3>2. QED
      BY <2>1, <3>1 DEF CallInv, AnswerInv
  <2>4. CardInv(c)'
    BY <2>1 DEF CallInv, AnswerInv, CardInv
  <2>5. QED
    BY <2>2, <2>3, <2>4 DEF CallInv
<1>3. QED
  BY <1>1, <1>2 DEF HoldInv

LEMMA EndHoldKeeps ==
    ASSUME TypeOK, HoldInv, NEW c \in Calls, EndHold(c) PROVE HoldInv'
<1> USE DEF TypeOK, Choices
<1>1. ASSUME NEW k \in Calls, k # c PROVE CallInv(k)'
  <2>1. Untouched(k)
    BY <1>1, SameTakers DEF EndHold, Goto, Untouched
  <2>2. QED
    BY <1>1, <2>1, Frame DEF HoldInv
<1>2. CallInv(c)'
  BY SameTakers DEF HoldInv, CallInv, WaiterInv, TakerInv, SourceInv, AnswerInv, CardInv,
     Undecided, Decided, EndHold, Goto
<1>3. QED
  BY <1>1, <1>2 DEF HoldInv

-----------------------------------------------------------------------------
\* Decide: the claim and the send.
LEMMA ClaimToDecideKeeps ==
    ASSUME TypeOK, HoldInv, NEW d \in Deciders, ClaimToDecide(d) PROVE HoldInv'
<1> USE DEF TypeOK, Choices
<1>0. PICK c \in Calls : c = deciders[d].call
  BY DEF ClaimToDecide
<1> DEFINE mine == c \in holds /\ d \notin Strangers
<1>1. c = deciders[d].call /\ deciders[d].pc = "idle"
  BY <1>0 DEF ClaimToDecide
<1>2. CASE ~mine
  <2>1. /\ holds' = holds
        /\ deciders' = [deciders EXCEPT ![d].pc = "refused"]
    BY <1>1, <1>2 DEF ClaimToDecide, DeciderAt
  <2>2. ASSUME NEW k \in Calls PROVE Untouched(k)
    BY <1>1, <2>1 DEF Untouched, Takers, ClaimToDecide, callVars
  <2>3. QED
    BY <2>2, Frame DEF HoldInv
<1>3. CASE mine
  <2>1. /\ holds' = holds \ {c}
        /\ deciders' = [deciders EXCEPT ![d].pc = "sending"]
        /\ UNCHANGED <<row, callVars, callGone>>
    BY <1>1, <1>3 DEF ClaimToDecide, DeciderAt
  <2>2. ASSUME NEW k \in Calls, k # c PROVE CallInv(k)'
    <3>1. Untouched(k)
      BY <1>1, <2>1, <2>2 DEF Untouched, Takers, callVars
    <3>2. QED
      BY <2>2, <3>1, Frame DEF HoldInv
  <2>3. CallInv(c)'
    <3>1. /\ pc[c] \in {"waiting", "giving_up"} /\ Takers(c) = {}
          /\ decided[c] = "empty" /\ taken[c] = "none"
      BY <1>1, <1>3 DEF HoldInv, CallInv, WaiterInv
    <3>2. Takers(c)' = {d}
      BY <1>1, <2>1, <3>1 DEF Takers
    <3>3. WaiterInv(c)' /\ TakerInv(c)' /\ SourceInv(c)'
      BY <1>1, <1>3, <2>1, <3>1, <3>2
      DEF WaiterInv, TakerInv, SourceInv, callVars, Undecided
    <3>4. AnswerInv(c)' /\ CardInv(c)'
      BY <1>1, <2>1 DEF HoldInv, CallInv, AnswerInv, CardInv, callVars
    <3>5. QED
      BY <3>3, <3>4 DEF CallInv
  <2>4. QED
    BY <2>2, <2>3 DEF HoldInv
<1>4. QED
  BY <1>2, <1>3

LEMMA SendDecisionKeeps ==
    ASSUME TypeOK, HoldInv, NEW d \in Deciders, SendDecision(d) PROVE HoldInv'
<1> USE DEF TypeOK, Choices
<1>0. PICK c \in Calls : c = deciders[d].call
  BY DEF SendDecision
<1>1. /\ c = deciders[d].call /\ deciders[d].pc = "sending" /\ d \in Takers(c)
      /\ decided' = [decided EXCEPT ![c] = deciders[d].choice]
      /\ deciders' = [deciders EXCEPT ![d].pc = "accepted"]
      /\ UNCHANGED <<row, holds, pc, taken, outcome, noticed, callGone>>
  BY <1>0 DEF SendDecision, DeciderAt, Takers
<1>2. ASSUME NEW k \in Calls PROVE Takers(k)' = Takers(k)
  BY <1>1 DEF Takers
<1>3. ASSUME NEW k \in Calls, k # c PROVE CallInv(k)'
  <2>1. Untouched(k)
    BY <1>1, <1>2, <1>3 DEF Untouched, Takers
  <2>2. QED
    BY <1>3, <2>1, Frame DEF HoldInv
<1>4. CallInv(c)'
  <2>1. /\ Takers(c) = {d} /\ pc[c] \in Undecided /\ taken[c] = "none"
        /\ c \notin holds
    BY <1>1 DEF HoldInv, CallInv, WaiterInv, TakerInv
  <2>2. d \notin Strangers
    BY <1>1 DEF HoldInv, CallInv, TakerInv
  <2>3. WaiterInv(c)' /\ TakerInv(c)'
    BY <1>1, <1>2, <2>1, <2>2 DEF WaiterInv, TakerInv, Undecided
  <2>4. SourceInv(c)'
    <3>1. Takers(c)' # {} /\ pc'[c] = pc[c]
      BY <1>1, <1>2
    <3>2. pc'[c] \notin {"deciding", "running"}
      BY <2>1, <3>1 DEF Undecided
    <3>3. QED
      BY <3>1, <3>2 DEF SourceInv
  <2>5. AnswerInv(c)' /\ CardInv(c)'
    <3>1. AnswerInv(c) /\ CardInv(c)
      BY DEF HoldInv, CallInv
    <3>2. QED
      BY <1>1, <3>1 DEF AnswerInv, CardInv
  <2>6. QED
    BY <2>3, <2>4, <2>5 DEF CallInv
<1>5. QED
  BY <1>3, <1>4 DEF HoldInv

\* Confirm, the exchanges and the contexts touch no Hold; a Confirm writes a row,
\* but only a settled one.
LEMMA OthersKeep ==
    ASSUME TypeOK, HoldInv, UNCHANGED <<holds, callVars, deciders>>,
           callGone \subseteq callGone',
           \A k \in Calls : row'[k] = row[k] \/ row'[k] # "pending"
    PROVE  HoldInv'
<1>1. ASSUME NEW k \in Calls PROVE Untouched(k)
  BY SameTakers DEF Untouched, callVars
<1>2. QED
  BY <1>1, Frame DEF HoldInv

THEOREM HoldInvStep == TypeOK /\ HoldInv /\ [Next]_vars => HoldInv'
<1> SUFFICES ASSUME TypeOK, HoldInv, [Next]_vars PROVE HoldInv'
  OBVIOUS
<1>1. ASSUME NEW c \in Calls, Enter(c) PROVE HoldInv'
  BY <1>1, EnterKeeps
<1>2. ASSUME NEW c \in Calls, Store(c) PROVE HoldInv'
  BY <1>2, StoreKeeps
<1>3. ASSUME NEW c \in Calls, BeginHold(c) PROVE HoldInv'
  BY <1>3, BeginHoldKeeps
<1>4. ASSUME NEW c \in Calls, TakeDecision(c) PROVE HoldInv'
  BY <1>4, TakeDecisionKeeps
<1>5. ASSUME NEW c \in Calls, TimeOut(c) PROVE HoldInv'
  BY <1>5, GiveUpKeeps DEF TimeOut
<1>6. ASSUME NEW c \in Calls, TurnOver(c) PROVE HoldInv'
  BY <1>6, GiveUpKeeps DEF TurnOver
<1>7. ASSUME NEW c \in Calls, CallerLeft(c) PROVE HoldInv'
  BY <1>7, GiveUpKeeps DEF CallerLeft
<1>8. ASSUME NEW c \in Calls, ClaimHold(c) PROVE HoldInv'
  BY <1>8, ClaimHoldKeeps
<1>9. ASSUME NEW c \in Calls, RecordDecision(c) PROVE HoldInv'
  BY <1>9, RecordDecisionKeeps
<1>10. ASSUME NEW c \in Calls, RunHeld(c) PROVE HoldInv'
  BY <1>10, RunHeldKeeps
<1>11. ASSUME NEW c \in Calls, RetireRow(c) PROVE HoldInv'
  BY <1>11, RetireRowKeeps
<1>12. ASSUME NEW c \in Calls, AppendNotice(c) PROVE HoldInv'
  BY <1>12, AppendNoticeKeeps
<1>13. ASSUME NEW c \in Calls, EndHold(c) PROVE HoldInv'
  BY <1>13, EndHoldKeeps
<1>14. ASSUME NEW d \in Deciders, ClaimToDecide(d) PROVE HoldInv'
  BY <1>14, ClaimToDecideKeeps
<1>15. ASSUME NEW d \in Deciders, SendDecision(d) PROVE HoldInv'
  BY <1>15, SendDecisionKeeps
<1>16. ASSUME NEW c \in Calls, CallGoes(c) PROVE HoldInv'
  BY <1>16, OthersKeep DEF CallGoes, confirmationVars
<1>17. ASSUME NEW n \in Confirmers, ReadConfirmation(n) PROVE HoldInv'
  BY <1>17, OthersKeep DEF ReadConfirmation
<1>18. ASSUME NEW n \in Confirmers, CheckUnheld(n) PROVE HoldInv'
  BY <1>18, OthersKeep DEF CheckUnheld
<1>19. ASSUME NEW n \in Confirmers, CheckIdle(n) PROVE HoldInv'
  BY <1>19, OthersKeep DEF CheckIdle
<1>20. ASSUME NEW n \in Confirmers, BeginConfirm(n) PROVE HoldInv'
  BY <1>20, OthersKeep DEF BeginConfirm
<1>21. ASSUME NEW n \in Confirmers, RunConfirmed(n) PROVE HoldInv'
  BY <1>21, OthersKeep DEF RunConfirmed
<1>22. ASSUME NEW n \in Confirmers, EndConfirm(n) PROVE HoldInv'
  BY <1>22, OthersKeep DEF EndConfirm
<1>23. ASSUME NEW n \in Confirmers, RecordConfirmed(n) PROVE HoldInv'
  BY <1>23, OthersKeep DEF RecordConfirmed, Recorded, TypeOK
<1>24. CASE BeginTurn
  BY <1>24, OthersKeep DEF BeginTurn, confirmationVars
<1>25. CASE EndTurn
  BY <1>25, OthersKeep DEF EndTurn, confirmationVars
<1>26. ASSUME NEW x \in Exchanges, CloseExchange(x) PROVE HoldInv'
  BY <1>26, OthersKeep DEF CloseExchange, confirmationVars
<1>27. ASSUME NEW x \in Exchanges, CancelExchange(x) PROVE HoldInv'
  BY <1>27, OthersKeep DEF CancelExchange, confirmationVars
<1>28. CASE UNCHANGED vars
  BY <1>28, OthersKeep DEF vars
<1>29. QED
  BY <1>1, <1>2, <1>3, <1>4, <1>5, <1>6, <1>7, <1>8, <1>9, <1>10, <1>11, <1>12, <1>13,
     <1>14, <1>15, <1>16, <1>17, <1>18, <1>19, <1>20, <1>21, <1>22, <1>23, <1>24,
     <1>25, <1>26, <1>27, <1>28
  DEF Next, HoldStep, ConfirmStep

-----------------------------------------------------------------------------
\* Every variable keeps its type, for any number of calls and requests.
THEOREM TypeCorrect == Spec => []TypeOK
<1>1. Init => TypeOK
  BY HoldAssumption DEF Init, TypeOK, RegistryTypeOK, Choices, HoldStates, Outcomes
<1>2. QED
  BY <1>1, TypeStep, PTL DEF Spec

THEOREM HoldInvariant == Spec => []HoldInv
<1>1. Init => HoldInv
  BY DEF Init, HoldInv, CallInv, WaiterInv, TakerInv, SourceInv, AnswerInv, CardInv, Takers
<1>2. QED
  BY <1>1, TypeCorrect, HoldInvStep, PTL DEF Spec

\* At most one Decide takes a call, and none takes one that is given up on.
THEOREM OneSideTakes == Spec => []OneSideTakesTheCall
<1>1. TypeOK /\ HoldInv => OneSideTakesTheCall
  <2> SUFFICES ASSUME TypeOK, HoldInv, NEW c \in Calls
               PROVE  /\ \A d, e \in Takers(c) : d = e
                      /\ c \in noticed \/ outcome[c] = "gave_up" => Takers(c) = {}
    BY DEF OneSideTakesTheCall
  <2>1. TakerInv(c) /\ AnswerInv(c)
    BY DEF HoldInv, CallInv
  <2>2. ASSUME NEW d \in Takers(c) PROVE outcome[c] # "gave_up" /\ c \notin noticed
    <3>1. taken[c] # "none" \/ pc[c] \in Undecided
      BY <2>1, <2>2 DEF TakerInv, Takers, TypeOK, Choices
    <3>2. QED
      BY <2>1, <3>1 DEF AnswerInv, Undecided
  <2>3. QED
    BY <2>1, <2>2 DEF TakerInv
<1>2. QED
  BY <1>1, TypeCorrect, HoldInvariant, PTL

\* A developer whose Decide returned nil was told the truth.
THEOREM AcceptedDecisionsStand == Spec => []AcceptedDecisionStands
<1>1. TypeOK /\ HoldInv /\ OneSideTakesTheCall => AcceptedDecisionStands
  <2> SUFFICES ASSUME TypeOK, HoldInv, NEW d \in Deciders, deciders[d].pc = "accepted"
               PROVE  outcome[deciders[d].call] \in
                        {"none", IF deciders[d].choice = "approve" THEN "acted" ELSE "declined"}
    BY DEF AcceptedDecisionStands
  <2> DEFINE c == deciders[d].call
  <2>1. c \in Calls /\ d \in Takers(c) /\ deciders[d].choice \in Choices
    BY DEF TypeOK, Takers
  <2>2. TakerInv(c) /\ AnswerInv(c)
    BY <2>1 DEF HoldInv, CallInv
  <2>3. QED
    BY <2>1, <2>2 DEF TakerInv, AnswerInv, Choices, Undecided, Decided
<1>2. QED
  BY <1>1, TypeCorrect, HoldInvariant, OneSideTakes, PTL

\* A held call is acted on only if its owner approved it.
THEOREM OnlyApprovedActs == Spec => []ActedOnlyOnApproval
<1>1. HoldInv => ActedOnlyOnApproval
  <2> SUFFICES ASSUME HoldInv, NEW c \in Calls, outcome[c] = "acted"
               PROVE  \E d \in Deciders \ Strangers :
                         /\ deciders[d].call = c
                         /\ deciders[d].choice = "approve"
                         /\ deciders[d].pc = "accepted"
    BY DEF ActedOnlyOnApproval
  <2>1. CallInv(c)
    BY DEF HoldInv
  <2>2. taken[c] = "approve"
    BY <2>1 DEF CallInv, AnswerInv
  <2>3. PICK d \in Takers(c) : TRUE
    BY <2>1, <2>2 DEF CallInv, SourceInv
  <2>4. QED
    BY <2>1, <2>2, <2>3 DEF CallInv, TakerInv, Takers
<1>2. QED
  BY <1>1, HoldInvariant, PTL

\* A card outlives its call only if the caller was lost around one of its two
\* writes: the call refused with the card stored, or decided with the decision not.
THEOREM CardsAreSettled == Spec => []CardOutlivesOnlyALostCall
<1>1. HoldInv => CardOutlivesOnlyALostCall
  BY DEF HoldInv, CallInv, CardInv, CardOutlivesOnlyALostCall
<1>2. QED
  BY <1>1, HoldInvariant, PTL


-----------------------------------------------------------------------------
(* Hold implements HeldAnswer: the first state maps to its first, and every step *)
(* is a step of one call, or none, of the abstract specification.                *)

Answered == {"acted", "declined", "gave_up"}

\* What a call looks like, before and after a step.
LEMMA Views ==
    ASSUME NEW c \in Calls
    PROVE  /\ outcome[c] \in Answered => Abstraction[c] = outcome[c]
           /\ outcome[c] \notin Answered /\ c \in holds => Abstraction[c] = "open"
           /\ outcome[c] \notin Answered /\ c \notin holds =>
                 IF pc[c] \in {"abandoning", "noting"} THEN Abstraction[c] = "withdrawn"
                 ELSE /\ Takers(c) = {} => Abstraction[c] = "unasked"
                      /\ \A d \in Takers(c) : Takers(c) = {d} =>
                            Abstraction[c] =
                               IF deciders[d].choice = "approve" THEN "approved" ELSE "rejected"
BY DEF Abstraction, Answered

LEMMA ViewsAfter ==
    ASSUME NEW c \in Calls
    PROVE  /\ outcome'[c] \in Answered => Abstraction'[c] = outcome'[c]
           /\ outcome'[c] \notin Answered /\ c \in holds' => Abstraction'[c] = "open"
           /\ outcome'[c] \notin Answered /\ c \notin holds' =>
                 IF pc'[c] \in {"abandoning", "noting"} THEN Abstraction'[c] = "withdrawn"
                 ELSE /\ Takers(c)' = {} => Abstraction'[c] = "unasked"
                      /\ \A d \in Takers(c)' : Takers(c)' = {d} =>
                            Abstraction'[c] =
                               IF deciders'[d].choice = "approve" THEN "approved" ELSE "rejected"
BY DEF Abstraction, Answered

\* A call looks the same when nothing its view reads has changed.
LEMMA SameView ==
    ASSUME NEW k \in Calls, outcome'[k] = outcome[k], k \in holds' <=> k \in holds,
           pc'[k] \in {"abandoning", "noting"} <=> pc[k] \in {"abandoning", "noting"},
           Takers(k)' = Takers(k),
           \A d \in Takers(k) : deciders'[d].choice = deciders[d].choice
    PROVE  Abstraction'[k] = Abstraction[k]
<1>1. (\E d \in Takers(k)' : deciders'[d].choice = "approve")
         <=> \E d \in Takers(k) : deciders[d].choice = "approve"
  OBVIOUS
<1>2. QED
  BY <1>1 DEF Abstraction

\* The view is a function on the calls, so it is known by its values.
LEMMA ViewIsAFunction ==
    /\ Abstraction = [k \in Calls |-> Abstraction[k]]
    /\ Abstraction' = [k \in Calls |-> Abstraction'[k]]
BY DEF Abstraction

LEMMA OneCallMoves ==
    ASSUME NEW c \in Calls, NEW from, NEW to, Abstraction[c] = from, Abstraction'[c] = to,
           \A k \in Calls \ {c} : Abstraction'[k] = Abstraction[k]
    PROVE  Answer!Move(c, from, to)
<1>1. Abstraction' = [Abstraction EXCEPT ![c] = to]
  BY ViewIsAFunction
<1>2. QED
  BY <1>1 DEF Answer!Move

LEMMA NoCallMoves ==
    ASSUME \A k \in Calls : Abstraction'[k] = Abstraction[k]
    PROVE  UNCHANGED Answer!vars
<1>1. Abstraction' = Abstraction
  BY ViewIsAFunction
<1>2. QED
  BY <1>1 DEF Answer!vars

\* A step of c's own Hold leaves the view of every other call.
LEMMA OthersLookTheSame ==
    ASSUME NEW c \in Calls, UNCHANGED deciders, holds' \union {c} = holds \union {c},
           \A k \in Calls \ {c} : outcome'[k] = outcome[k] /\ pc'[k] = pc[k]
    PROVE  \A k \in Calls \ {c} : Abstraction'[k] = Abstraction[k]
BY SameView, SameTakers

\* What the abstract specification allows in one step.
Follows == [Answer!Next]_(Answer!vars)

LEMMA StutterFollows ==
    ASSUME \A k \in Calls : Abstraction'[k] = Abstraction[k]
    PROVE  Follows
BY NoCallMoves DEF Follows

LEMMA MoveFollows ==
    ASSUME NEW c \in Calls, NEW from, NEW to, Abstraction[c] = from, Abstraction'[c] = to,
           \A k \in Calls \ {c} : Abstraction'[k] = Abstraction[k],
           \/ from = "unasked" /\ to = "open"
           \/ from = "open" /\ to \in {"approved", "rejected", "withdrawn"}
           \/ from = "approved" /\ to = "acted"
           \/ from = "rejected" /\ to = "declined"
           \/ from = "withdrawn" /\ to = "gave_up"
    PROVE  Follows
<1>1. Answer!Move(c, from, to)
  BY OneCallMoves
<1>2. Answer!Ask(c) \/ Answer!Accept(c) \/ Answer!Withdraw(c) \/ Answer!Answer(c)
  BY <1>1 DEF Answer!Ask, Answer!Accept, Answer!Withdraw, Answer!Answer
<1>3. QED
  BY <1>2 DEF Follows, Answer!Next

\* Hold's quiet steps: the call's view stays too.
LEMMA QuietFollows ==
    ASSUME NEW c \in Calls, UNCHANGED deciders,
           holds' \union {c} = holds \union {c},
           \A k \in Calls \ {c} : outcome'[k] = outcome[k] /\ pc'[k] = pc[k],
           Abstraction'[c] = Abstraction[c]
    PROVE  Follows
BY OthersLookTheSame, StutterFollows

LEMMA EnterFollows ==
    ASSUME TypeOK, HoldInv, NEW c \in Calls, Enter(c) PROVE Follows
<1>1. /\ UNCHANGED <<deciders, holds>>
      /\ \A k \in Calls \ {c} : outcome'[k] = outcome[k] /\ pc'[k] = pc[k]
  BY DEF Enter, Goto, TypeOK
<1>2. /\ pc[c] = "new" /\ c \notin holds /\ Takers(c) = {} /\ outcome[c] = "none"
  BY DEF Enter, HoldInv, CallInv, WaiterInv, TakerInv, AnswerInv, Undecided, Decided
<1>3. pc'[c] \in {"attached", "returned"} /\ outcome'[c] \in {"none", "refused"}
  BY <1>2 DEF Enter, Goto, TypeOK
<1>4. Abstraction[c] = "unasked" /\ Abstraction'[c] = "unasked"
  BY <1>1, <1>2, <1>3, Views, ViewsAfter, SameTakers DEF Answered
<1>5. QED
  BY <1>1, <1>4, QuietFollows

LEMMA StoreFollows ==
    ASSUME TypeOK, HoldInv, NEW c \in Calls, Store(c) PROVE Follows
<1>1. /\ UNCHANGED <<deciders, holds>>
      /\ \A k \in Calls \ {c} : outcome'[k] = outcome[k] /\ pc'[k] = pc[k]
  BY DEF Store, Goto, TypeOK
<1>2. /\ pc[c] = "attached" /\ c \notin holds /\ Takers(c) = {} /\ outcome[c] = "none"
  BY DEF Store, HoldInv, CallInv, WaiterInv, TakerInv, AnswerInv, Undecided, Decided
<1>3. pc'[c] \in {"stored", "returned"} /\ outcome'[c] \in {"none", "refused"}
  BY <1>2 DEF Store, Goto, TypeOK
<1>4. Abstraction[c] = "unasked" /\ Abstraction'[c] = "unasked"
  BY <1>1, <1>2, <1>3, Views, ViewsAfter, SameTakers DEF Answered
<1>5. QED
  BY <1>1, <1>4, QuietFollows

\* The wait begins: the call is open.
LEMMA BeginHoldFollows ==
    ASSUME TypeOK, HoldInv, NEW c \in Calls, BeginHold(c) PROVE Follows
<1>1. /\ UNCHANGED <<deciders, outcome>> /\ holds' = holds \union {c}
      /\ \A k \in Calls \ {c} : pc'[k] = pc[k]
  BY DEF BeginHold, Goto, TypeOK
<1>2. /\ pc[c] = "stored" /\ c \notin holds /\ Takers(c) = {} /\ outcome[c] = "none"
  BY DEF BeginHold, HoldInv, CallInv, WaiterInv, TakerInv, AnswerInv, Undecided, Decided
<1>3. Abstraction[c] = "unasked" /\ Abstraction'[c] = "open"
  BY <1>1, <1>2, Views, ViewsAfter DEF Answered
<1>4. \A k \in Calls \ {c} : Abstraction'[k] = Abstraction[k]
  BY <1>1, OthersLookTheSame
<1>5. QED
  BY <1>3, <1>4, MoveFollows

LEMMA TakeDecisionFollows ==
    ASSUME TypeOK, HoldInv, NEW c \in Calls, TakeDecision(c) PROVE Follows
<1>1. /\ UNCHANGED <<deciders, holds, outcome>> /\ pc' = [pc EXCEPT ![c] = "deciding"]
  BY DEF TakeDecision, Goto
<1>2. pc[c] \in {"waiting", "owed"} /\ pc'[c] = "deciding"
  BY <1>1 DEF TakeDecision, TypeOK
<1>3. Abstraction'[c] = Abstraction[c]
  BY <1>1, <1>2, SameView, SameTakers
<1>4. QED
  BY <1>1, <1>3, QuietFollows DEF TypeOK

LEMMA GiveUpFollows ==
    ASSUME TypeOK, HoldInv, NEW c \in Calls, GiveUp(c) PROVE Follows
<1>1. /\ UNCHANGED <<deciders, holds, outcome>> /\ pc' = [pc EXCEPT ![c] = "giving_up"]
  BY DEF GiveUp, Goto
<1>2. pc[c] = "waiting" /\ pc'[c] = "giving_up"
  BY <1>1 DEF GiveUp, TypeOK
<1>3. Abstraction'[c] = Abstraction[c]
  BY <1>1, <1>2, SameView, SameTakers
<1>4. QED
  BY <1>1, <1>3, QuietFollows DEF TypeOK

\* The caller takes the waiter: the call is withdrawn.  If a Decide has it already,
\* nothing is seen to change.
LEMMA ClaimHoldFollows ==
    ASSUME TypeOK, HoldInv, NEW c \in Calls, ClaimHold(c) PROVE Follows
<1>1. /\ UNCHANGED <<deciders, outcome>> /\ holds' = holds \ {c} /\ pc[c] = "giving_up"
      /\ pc' = [pc EXCEPT ![c] = IF c \in holds THEN "abandoning" ELSE "owed"]
  BY DEF ClaimHold, Goto
<1>2. \A k \in Calls \ {c} : Abstraction'[k] = Abstraction[k]
  BY <1>1, OthersLookTheSame DEF TypeOK
<1>3. CASE c \in holds
  <2>1. outcome[c] = "none" /\ outcome'[c] = "none" /\ pc'[c] = "abandoning" /\ c \notin holds'
    BY <1>1, <1>3 DEF TypeOK, HoldInv, CallInv, AnswerInv
  <2>2. Abstraction[c] = "open" /\ Abstraction'[c] = "withdrawn"
    BY <1>3, <2>1, Views, ViewsAfter DEF Answered
  <2>3. QED
    BY <1>2, <2>2, MoveFollows
<1>4. CASE c \notin holds
  <2>1. pc'[c] = "owed"
    BY <1>1, <1>4 DEF TypeOK
  <2>2. Abstraction'[c] = Abstraction[c]
    BY <1>1, <1>4, <2>1, SameView, SameTakers
  <2>3. QED
    BY <1>2, <2>2, StutterFollows
<1>5. QED
  BY <1>3, <1>4

\* A Hold that has taken a decision took it from the only Decide that claimed it.
LEMMA TheTaker ==
    ASSUME TypeOK, HoldInv, NEW c \in Calls, taken[c] # "none"
    PROVE  \E d \in Deciders : Takers(c) = {d} /\ deciders[d].choice = taken[c]
<1>1. PICK d \in Takers(c) : TRUE
  BY DEF HoldInv, CallInv, SourceInv
<1>2. Takers(c) = {d} /\ deciders[d].choice = taken[c] /\ d \in Deciders
  BY <1>1 DEF HoldInv, CallInv, TakerInv, Takers
<1>3. QED
  BY <1>2

\* Recording a rejection answers the call; recording an approval does not yet.
LEMMA RecordDecisionFollows ==
    ASSUME TypeOK, HoldInv, NEW c \in Calls, RecordDecision(c) PROVE Follows
<1>1. /\ pc[c] = "deciding" /\ taken[c] # "none" /\ outcome[c] = "none" /\ c \notin holds
      /\ UNCHANGED <<deciders, holds>>
  BY DEF RecordDecision, HoldInv, CallInv, SourceInv, AnswerInv, WaiterInv
<1>2. PICK d \in Deciders : Takers(c) = {d} /\ deciders[d].choice = taken[c]
  BY <1>1, TheTaker
<1>3. CASE taken[c] = "approve"
  <2>1. pc' = [pc EXCEPT ![c] = "running"] /\ outcome' = outcome
    BY <1>3 DEF RecordDecision, Goto
  <2>2. pc'[c] = "running"
    BY <2>1 DEF TypeOK
  <2>3. Abstraction'[c] = Abstraction[c]
    BY <1>1, <2>1, <2>2, SameView, SameTakers
  <2>4. QED
    BY <1>1, <2>1, <2>3, QuietFollows DEF TypeOK
<1>4. CASE taken[c] # "approve"
  <2>1. /\ pc' = [pc EXCEPT ![c] = "ending"]
        /\ outcome' = [outcome EXCEPT ![c] = "declined"]
    BY <1>4 DEF RecordDecision, Goto
  <2>2. outcome'[c] = "declined" /\ deciders[d].choice # "approve"
    BY <1>2, <1>4, <2>1 DEF TypeOK
  <2>3. Abstraction[c] = "rejected" /\ Abstraction'[c] = "declined"
    BY <1>1, <1>2, <2>2, Views, ViewsAfter DEF Answered
  <2>4. \A k \in Calls \ {c} : Abstraction'[k] = Abstraction[k]
    BY <1>1, <2>1, OthersLookTheSame DEF TypeOK
  <2>5. QED
    BY <2>3, <2>4, MoveFollows
<1>5. QED
  BY <1>3, <1>4

LEMMA RunHeldFollows ==
    ASSUME TypeOK, HoldInv, NEW c \in Calls, RunHeld(c) PROVE Follows
<1>1. /\ pc[c] = "running" /\ taken[c] = "approve" /\ outcome[c] = "none" /\ c \notin holds
      /\ UNCHANGED <<deciders, holds>> /\ pc' = [pc EXCEPT ![c] = "ending"]
      /\ outcome' = [outcome EXCEPT ![c] = "acted"]
  BY DEF RunHeld, Goto, HoldInv, CallInv, SourceInv, AnswerInv, WaiterInv
<1>2. PICK d \in Deciders : Takers(c) = {d} /\ deciders[d].choice = "approve"
  BY <1>1, TheTaker
<1>3. outcome'[c] = "acted"
  BY <1>1 DEF TypeOK
<1>4. Abstraction[c] = "approved" /\ Abstraction'[c] = "acted"
  BY <1>1, <1>2, <1>3, Views, ViewsAfter DEF Answered
<1>5. \A k \in Calls \ {c} : Abstraction'[k] = Abstraction[k]
  BY <1>1, OthersLookTheSame DEF TypeOK
<1>6. QED
  BY <1>4, <1>5, MoveFollows

LEMMA RetireRowFollows ==
    ASSUME TypeOK, HoldInv, NEW c \in Calls, RetireRow(c) PROVE Follows
<1>1. /\ UNCHANGED <<deciders, holds, outcome>> /\ pc' = [pc EXCEPT ![c] = "noting"]
  BY DEF RetireRow, Goto
<1>2. pc[c] = "abandoning" /\ pc'[c] = "noting"
  BY <1>1 DEF RetireRow, TypeOK
<1>3. Abstraction'[c] = Abstraction[c]
  BY <1>1, <1>2, SameView, SameTakers
<1>4. QED
  BY <1>1, <1>3, QuietFollows DEF TypeOK

LEMMA AppendNoticeFollows ==
    ASSUME TypeOK, HoldInv, NEW c \in Calls, AppendNotice(c) PROVE Follows
<1>1. /\ pc[c] = "noting" /\ outcome[c] = "none" /\ c \notin holds
      /\ UNCHANGED <<deciders, holds>> /\ pc' = [pc EXCEPT ![c] = "ending"]
      /\ outcome' = [outcome EXCEPT ![c] = "gave_up"]
  BY DEF AppendNotice, Goto, HoldInv, CallInv, AnswerInv, WaiterInv
<1>2. outcome'[c] = "gave_up"
  BY <1>1 DEF TypeOK
<1>3. Abstraction[c] = "withdrawn" /\ Abstraction'[c] = "gave_up"
  BY <1>1, <1>2, Views, ViewsAfter DEF Answered
<1>4. \A k \in Calls \ {c} : Abstraction'[k] = Abstraction[k]
  BY <1>1, OthersLookTheSame DEF TypeOK
<1>5. QED
  BY <1>3, <1>4, MoveFollows

LEMMA EndHoldFollows ==
    ASSUME TypeOK, HoldInv, NEW c \in Calls, EndHold(c) PROVE Follows
<1>1. /\ pc[c] = "ending" /\ c \notin holds
      /\ UNCHANGED <<deciders, outcome>> /\ pc' = [pc EXCEPT ![c] = "returned"]
      /\ holds' = holds \ {c}
  BY DEF EndHold, Goto, HoldInv, CallInv, WaiterInv
<1>2. pc'[c] = "returned"
  BY <1>1 DEF TypeOK
<1>3. Abstraction'[c] = Abstraction[c]
  BY <1>1, <1>2, SameView, SameTakers
<1>4. QED
  BY <1>1, <1>3, QuietFollows DEF TypeOK

\* The owner's Decide takes the waiter of an open call: its choice is accepted.
LEMMA ClaimToDecideFollows ==
    ASSUME TypeOK, HoldInv, NEW d \in Deciders, ClaimToDecide(d) PROVE Follows
<1>0. PICK c \in Calls : c = deciders[d].call
  BY DEF TypeOK
<1> DEFINE mine == c \in holds /\ d \notin Strangers
<1>1. deciders[d].pc = "idle" /\ UNCHANGED <<pc, outcome>>
  BY DEF ClaimToDecide, callVars
<1>2. CASE ~mine
  <2>1. holds' = holds /\ deciders' = [deciders EXCEPT ![d].pc = "refused"]
    BY <1>0, <1>2 DEF ClaimToDecide, DeciderAt
  <2>2. ASSUME NEW k \in Calls PROVE Abstraction'[k] = Abstraction[k]
    <3>1. Takers(k)' = Takers(k) /\ \A e \in Takers(k) : deciders'[e].choice = deciders[e].choice
      BY <1>1, <2>1 DEF Takers, TypeOK
    <3>2. QED
      BY <1>1, <2>1, <3>1, SameView
  <2>3. QED
    BY <2>2, StutterFollows
<1>3. CASE mine
  <2>1. holds' = holds \ {c} /\ deciders' = [deciders EXCEPT ![d].pc = "sending"]
    BY <1>0, <1>3 DEF ClaimToDecide, DeciderAt
  <2>2. ASSUME NEW k \in Calls \ {c} PROVE Abstraction'[k] = Abstraction[k]
    <3>1. Takers(k)' = Takers(k) /\ \A e \in Takers(k) : deciders'[e].choice = deciders[e].choice
      BY <1>0, <1>1, <2>1 DEF Takers, TypeOK
    <3>2. QED
      BY <1>1, <2>1, <3>1, SameView
  <2>3. /\ pc[c] \in {"waiting", "giving_up"} /\ Takers(c) = {} /\ outcome[c] = "none"
    BY <1>3 DEF HoldInv, CallInv, WaiterInv, AnswerInv
  <2>4. Takers(c)' = {d} /\ deciders'[d].choice \in Choices
    BY <1>0, <1>1, <2>1, <2>3 DEF Takers, TypeOK
  <2>5. Abstraction[c] = "open" /\ Abstraction'[c] \in {"approved", "rejected"}
    BY <1>1, <1>3, <2>1, <2>3, <2>4, Views, ViewsAfter DEF Answered
  <2>6. QED
    BY <2>2, <2>5, MoveFollows
<1>4. QED
  BY <1>2, <1>3

LEMMA SendDecisionFollows ==
    ASSUME TypeOK, NEW d \in Deciders, SendDecision(d) PROVE Follows
<1>1. /\ UNCHANGED <<holds, pc, outcome>> /\ deciders[d].pc = "sending"
      /\ deciders' = [deciders EXCEPT ![d].pc = "accepted"]
  BY DEF SendDecision, DeciderAt
<1>2. ASSUME NEW k \in Calls PROVE Abstraction'[k] = Abstraction[k]
  <2>1. Takers(k)' = Takers(k) /\ \A e \in Takers(k) : deciders'[e].choice = deciders[e].choice
    BY <1>1 DEF Takers, TypeOK
  <2>2. QED
    BY <1>1, <2>1, SameView
<1>3. QED
  BY <1>2, StutterFollows

LEMMA OthersFollow ==
    ASSUME UNCHANGED <<holds, callVars, deciders>> PROVE Follows
BY SameView, SameTakers, StutterFollows DEF callVars

LEMMA EveryStepFollows == TypeOK /\ HoldInv /\ [Next]_vars => Follows
<1> SUFFICES ASSUME TypeOK, HoldInv, [Next]_vars PROVE Follows
  OBVIOUS
<1>1. ASSUME NEW c \in Calls, Enter(c) \/ Store(c) PROVE Follows
  BY <1>1, EnterFollows, StoreFollows
<1>2. ASSUME NEW c \in Calls, HoldStep(c) PROVE Follows
  <2>1. CASE BeginHold(c) \/ TakeDecision(c) \/ ClaimHold(c) \/ RecordDecision(c)
    BY <2>1, BeginHoldFollows, TakeDecisionFollows, ClaimHoldFollows, RecordDecisionFollows
  <2>2. CASE TimeOut(c) \/ TurnOver(c) \/ CallerLeft(c)
    BY <2>2, GiveUpFollows DEF TimeOut, TurnOver, CallerLeft
  <2>3. CASE RunHeld(c) \/ RetireRow(c) \/ AppendNotice(c) \/ EndHold(c)
    BY <2>3, RunHeldFollows, RetireRowFollows, AppendNoticeFollows, EndHoldFollows
  <2>4. QED
    BY <1>2, <2>1, <2>2, <2>3 DEF HoldStep
<1>3. ASSUME NEW d \in Deciders, ClaimToDecide(d) \/ SendDecision(d) PROVE Follows
  BY <1>3, ClaimToDecideFollows, SendDecisionFollows
<1>4. ASSUME NEW c \in Calls, CallGoes(c) PROVE Follows
  BY <1>4, OthersFollow DEF CallGoes, confirmationVars
<1>5. ASSUME NEW n \in Confirmers, ConfirmStep(n) PROVE Follows
  <2>1. UNCHANGED <<holds, callVars, deciders>>
    BY <1>5 DEF ConfirmStep, ReadConfirmation, CheckUnheld, CheckIdle, BeginConfirm,
       RunConfirmed, RecordConfirmed, EndConfirm
  <2>2. QED
    BY <2>1, OthersFollow
<1>6. CASE BeginTurn \/ EndTurn \/ \E x \in Exchanges : CloseExchange(x) \/ CancelExchange(x)
  <2>1. UNCHANGED <<holds, callVars, deciders>>
    BY <1>6 DEF BeginTurn, EndTurn, CloseExchange, CancelExchange, confirmationVars
  <2>2. QED
    BY <2>1, OthersFollow
<1>7. CASE UNCHANGED vars
  BY <1>7, OthersFollow DEF vars
<1>8. QED
  BY <1>1, <1>2, <1>3, <1>4, <1>5, <1>6, <1>7 DEF Next

\* Hold, Decide and every way a hold ends implement HeldAnswer, but for its fairness:
\* exactly one side takes an open call, and only what that side chose is answered.
THEOREM HoldImplementsAnswer == Spec => Answer!Init /\ [][Answer!Next]_(Answer!vars)
<1>1. Init => Answer!Init
  BY DEF Init, Answer!Init, Abstraction, Takers
<1>2. TypeOK /\ HoldInv /\ [Next]_vars => [Answer!Next]_(Answer!vars)
  BY EveryStepFollows DEF Follows
<1>3. QED
  BY <1>1, <1>2, TypeCorrect, HoldInvariant, PTL DEF Spec

-----------------------------------------------------------------------------
(* A held call returns.  The prover knows nothing of ENABLED, so that the steps   *)
(* which fairness is about can be taken is the hypothesis; TLC checks it.         *)

OnItsWay == HoldStates \ {"new", "attached", "owed", "returned"}

\* Where a step of Hold leads from each of its places.
After(place) ==
    CASE place = "stored"      -> {"waiting"}
      [] place = "waiting"     -> {"deciding", "giving_up"}
      [] place = "giving_up"   -> {"abandoning", "owed"}
      [] place = "owed"        -> {"deciding"}
      [] place = "deciding"    -> {"running", "ending"}
      [] place = "running"     -> {"ending"}
      [] place = "abandoning"  -> {"noting"}
      [] place = "noting"      -> {"ending"}
      [] place = "ending"      -> {"returned"}
      [] place = "returned"    -> {}

LEMMA HoldStepMoves ==
    ASSUME TypeOK, NEW c \in Calls, HoldStep(c)
    PROVE  pc'[c] \in After(pc[c])
<1> USE DEF TypeOK, Goto, After
<1>1. CASE BeginHold(c) \/ TakeDecision(c)
  BY <1>1 DEF BeginHold, TakeDecision
<1>2. CASE TimeOut(c) \/ TurnOver(c) \/ CallerLeft(c)
  BY <1>2 DEF TimeOut, TurnOver, CallerLeft, GiveUp
<1>3. CASE ClaimHold(c)
  BY <1>3 DEF ClaimHold
<1>4. CASE RecordDecision(c)
  <2>1. pc' = [pc EXCEPT ![c] = "running"] \/ pc' = [pc EXCEPT ![c] = "ending"]
    BY <1>4 DEF RecordDecision
  <2>2. QED
    BY <1>4, <2>1 DEF RecordDecision
<1>5. CASE RunHeld(c) \/ RetireRow(c)
  BY <1>5 DEF RunHeld, RetireRow
<1>6. CASE AppendNotice(c) \/ EndHold(c)
  BY <1>6 DEF AppendNotice, EndHold
<1>7. QED
  BY <1>1, <1>2, <1>3, <1>4, <1>5, <1>6 DEF HoldStep

LEMMA OthersLeavePlaces ==
    ASSUME TypeOK, [Next]_vars, NEW c \in Calls
    PROVE  pc'[c] = pc[c] \/ HoldStep(c) \/ Enter(c) \/ Store(c)
<1> USE DEF TypeOK, Goto
<1>1. ASSUME NEW k \in Calls, HoldStep(k), k # c PROVE pc'[c] = pc[c]
  <2>1. CASE BeginHold(k) \/ TakeDecision(k) \/ ClaimHold(k)
    BY <1>1, <2>1 DEF BeginHold, TakeDecision, ClaimHold
  <2>2. CASE TimeOut(k) \/ TurnOver(k) \/ CallerLeft(k)
    BY <1>1, <2>2 DEF TimeOut, TurnOver, CallerLeft, GiveUp
  <2>3. CASE RecordDecision(k) \/ RunHeld(k) \/ RetireRow(k)
    BY <1>1, <2>3 DEF RecordDecision, RunHeld, RetireRow
  <2>4. CASE AppendNotice(k) \/ EndHold(k)
    BY <1>1, <2>4 DEF AppendNotice, EndHold
  <2>5. QED
    BY <1>1, <2>1, <2>2, <2>3, <2>4 DEF HoldStep
<1>2. ASSUME NEW k \in Calls, Enter(k) \/ Store(k), k # c PROVE pc'[c] = pc[c]
  BY <1>2 DEF Enter, Store
<1>3. ASSUME NEW k \in Calls, CallGoes(k) PROVE pc'[c] = pc[c]
  BY <1>3 DEF CallGoes, confirmationVars, callVars
<1>4. ASSUME NEW d \in Deciders, ClaimToDecide(d) \/ SendDecision(d) PROVE pc'[c] = pc[c]
  BY <1>4 DEF ClaimToDecide, SendDecision, callVars
<1>5. ASSUME NEW n \in Confirmers, ConfirmStep(n) PROVE pc'[c] = pc[c]
  BY <1>5 DEF ConfirmStep, ReadConfirmation, CheckUnheld, CheckIdle, BeginConfirm,
     RunConfirmed, RecordConfirmed, EndConfirm, callVars
<1>6. CASE BeginTurn \/ EndTurn \/ \E x \in Exchanges : CloseExchange(x) \/ CancelExchange(x)
  BY <1>6 DEF BeginTurn, EndTurn, CloseExchange, CancelExchange, confirmationVars, callVars
<1>7. CASE UNCHANGED vars
  BY <1>7 DEF vars, callVars
<1>8. QED
  BY <1>1, <1>2, <1>3, <1>4, <1>5, <1>6, <1>7 DEF Next

\* No step takes a decision back from the Decide that made it.
LEMMA TakersStay ==
    ASSUME TypeOK, [Next]_vars, NEW c \in Calls PROVE Takers(c) \subseteq Takers(c)'
<1>1. ASSUME NEW d \in Deciders, ClaimToDecide(d) \/ SendDecision(d)
      PROVE  Takers(c) \subseteq Takers(c)'
  <2>1. PICK label \in {"sending", "accepted", "refused"} :
           /\ deciders' = [deciders EXCEPT ![d].pc = label]
           /\ label = "refused" => deciders[d].pc = "idle"
    BY <1>1 DEF ClaimToDecide, SendDecision, DeciderAt
  <2>2. QED
    BY <2>1 DEF Takers, TypeOK
<1>2. ASSUME NEW k \in Calls, Enter(k) \/ Store(k) \/ HoldStep(k) PROVE deciders' = deciders
  BY <1>2 DEF Enter, Store, HoldStep, BeginHold, TakeDecision, TimeOut, TurnOver, CallerLeft,
     GiveUp, ClaimHold, RecordDecision, RunHeld, RetireRow, AppendNotice, EndHold
<1>3. ASSUME NEW n \in Confirmers, ConfirmStep(n) PROVE deciders' = deciders
  BY <1>3 DEF ConfirmStep, ReadConfirmation, CheckUnheld, CheckIdle, BeginConfirm,
     RunConfirmed, RecordConfirmed, EndConfirm
<1>4. CASE \/ BeginTurn \/ EndTurn \/ \E x \in Exchanges : CloseExchange(x) \/ CancelExchange(x)
           \/ \E k \in Calls : CallGoes(k)
  BY <1>4 DEF BeginTurn, EndTurn, CloseExchange, CancelExchange, CallGoes, confirmationVars,
     Takers
<1>5. CASE UNCHANGED vars
  BY <1>5 DEF vars, Takers
<1>6. deciders' = deciders => Takers(c) \subseteq Takers(c)'
  BY DEF Takers
<1>7. QED
  BY <1>1, <1>2, <1>3, <1>4, <1>5, <1>6 DEF Next

\* A waiter is removed by its own Hold, or by a Decide that then answers it.
LEMMA WaitersGoToTakers ==
    ASSUME TypeOK, [Next]_vars, NEW c \in holds, c \notin holds'
    PROVE  HoldStep(c) \/ Takers(c)' # {}
<1>0. c \in Calls
  BY DEF TypeOK
<1>1. ASSUME NEW d \in Deciders, ClaimToDecide(d) PROVE Takers(c)' # {}
  <2>1. deciders[d].call = c /\ deciders' = [deciders EXCEPT ![d].pc = "sending"]
    BY <1>1 DEF ClaimToDecide, DeciderAt
  <2>2. d \in Takers(c)'
    BY <2>1 DEF Takers, TypeOK
  <2>3. QED
    BY <2>2
<1>2. ASSUME NEW d \in Deciders, SendDecision(d) PROVE FALSE
  BY <1>2 DEF SendDecision
<1>3. ASSUME NEW k \in Calls, Enter(k) \/ Store(k) \/ CallGoes(k) PROVE FALSE
  BY <1>3 DEF Enter, Store, CallGoes, confirmationVars
<1>4. ASSUME NEW k \in Calls, HoldStep(k), k # c PROVE FALSE
  BY <1>4 DEF HoldStep, BeginHold, TakeDecision, TimeOut, TurnOver, CallerLeft,
     GiveUp, ClaimHold, RecordDecision, RunHeld, RetireRow, AppendNotice, EndHold
<1>5. ASSUME NEW n \in Confirmers, ConfirmStep(n) PROVE FALSE
  BY <1>5 DEF ConfirmStep, ReadConfirmation, CheckUnheld, CheckIdle, BeginConfirm,
     RunConfirmed, RecordConfirmed, EndConfirm
<1>6. CASE BeginTurn \/ EndTurn \/ \E x \in Exchanges : CloseExchange(x) \/ CancelExchange(x)
  BY <1>6 DEF BeginTurn, EndTurn, CloseExchange, CancelExchange, confirmationVars
<1>7. CASE UNCHANGED vars
  BY <1>7 DEF vars
<1>8. QED
  BY <1>1, <1>2, <1>3, <1>4, <1>5, <1>6, <1>7 DEF Next

\* A Hold that waits without a waiter has been promised a decision.
PromiseInv == \A c \in Calls : pc[c] \in Undecided /\ c \notin holds => Takers(c) # {}

LEMMA PromiseStep == TypeOK /\ HoldInv /\ PromiseInv /\ [Next]_vars => PromiseInv'
<1> SUFFICES ASSUME TypeOK, HoldInv, PromiseInv, [Next]_vars, NEW c \in Calls,
                    pc'[c] \in Undecided, c \notin holds'
             PROVE  Takers(c)' # {}
  BY DEF PromiseInv
<1>1. CASE pc[c] \in Undecided /\ c \notin holds
  BY <1>1, TakersStay DEF PromiseInv
<1>2. CASE c \in holds /\ ~HoldStep(c)
  BY <1>2, WaitersGoToTakers
<1>3. CASE c \in holds /\ HoldStep(c)
  <2>1. pc[c] \in {"waiting", "giving_up"} /\ decided[c] = "empty"
    BY <1>3 DEF HoldInv, CallInv, WaiterInv
  <2>2. ClaimHold(c)
    BY <1>3, <2>1 DEF HoldStep, BeginHold, TakeDecision, TimeOut, TurnOver, CallerLeft,
       GiveUp, ClaimHold, RecordDecision, RunHeld, RetireRow, AppendNotice, EndHold
  <2>3. pc'[c] = "abandoning"
    BY <1>3, <2>2 DEF ClaimHold, Goto, TypeOK
  <2>4. QED
    BY <2>3 DEF Undecided
<1>4. CASE pc[c] \notin Undecided
  <2>1. CASE HoldStep(c)
    <3>1. pc[c] = "stored"
      BY <1>4, <2>1, HoldStepMoves DEF After, HoldStep, BeginHold, TakeDecision, TimeOut,
         TurnOver, CallerLeft, GiveUp, ClaimHold, RecordDecision, RunHeld, RetireRow,
         AppendNotice, EndHold, Undecided
    <3>2. BeginHold(c)
      BY <2>1, <3>1 DEF HoldStep, BeginHold, TakeDecision, TimeOut, TurnOver, CallerLeft,
         GiveUp, ClaimHold, RecordDecision, RunHeld, RetireRow, AppendNotice, EndHold
    <3>3. QED
      BY <3>2 DEF BeginHold
  <2>2. CASE Enter(c) \/ Store(c)
    BY <2>2 DEF Enter, Store, Goto, TypeOK, Undecided
  <2>3. QED
    BY <1>4, <2>1, <2>2, OthersLeavePlaces
<1>5. QED
  BY <1>1, <1>2, <1>3, <1>4

\* What NoHoldIsStuck comes to without ENABLED: a Hold that lost its waiter gets the
\* decision it is owed, which is in its channel, or with a Decide that can send it.
DecisionIsComing ==
    \A c \in Calls : pc[c] = "owed" =>
        \/ decided[c] # "empty"
        \/ \E d \in Takers(c) : deciders[d].pc = "sending"

\* Whoever lost the race for the waiter is not left waiting for nobody.
THEOREM DecisionsCome == Spec => []DecisionIsComing
<1>1. Init => PromiseInv
  BY DEF Init, PromiseInv, Undecided
<1>2. TypeOK /\ HoldInv /\ PromiseInv => DecisionIsComing
  <2> SUFFICES ASSUME TypeOK, HoldInv, PromiseInv, NEW c \in Calls, pc[c] = "owed",
                      decided[c] = "empty"
               PROVE  \E d \in Takers(c) : deciders[d].pc = "sending"
    BY DEF DecisionIsComing
  <2>1. PICK d \in Takers(c) : TRUE
    BY DEF PromiseInv, Undecided, HoldInv, CallInv, WaiterInv
  <2>2. d \in Deciders /\ deciders[d].choice # "empty"
    BY <2>1 DEF Takers, TypeOK, Choices
  <2>3. QED
    BY <2>1, <2>2 DEF HoldInv, CallInv, TakerInv, Decided
<1>3. QED
  BY <1>1, <1>2, PromiseStep, TypeCorrect, HoldInvariant, PTL DEF Spec

\* A Hold that can step leaves its place, for one of the places that follow.
Leaves(c, place) ==
    Spec /\ []NoHoldIsStuck => (pc[c] = place ~> pc[c] \in After(place))

LEMMA HoldLeaves ==
    ASSUME NEW c \in Calls, NEW place \in OnItsWay PROVE Leaves(c, place)
<1>1. TypeOK /\ pc[c] = place /\ [Next]_vars
         => (pc[c] = place)' \/ (pc[c] \in After(place))'
  BY OthersLeavePlaces, HoldStepMoves DEF OnItsWay, Enter, Store
<1>2. TypeOK /\ pc[c] = place /\ <<HoldStep(c)>>_vars => (pc[c] \in After(place))'
  BY HoldStepMoves
<1>3. NoHoldIsStuck => (pc[c] = place => ENABLED <<HoldStep(c)>>_vars)
  BY DEF NoHoldIsStuck, OnItsWay
<1>4. Fairness => HoldRuns(c)
  BY DEF Fairness
<1>5. QED
  BY <1>1, <1>2, <1>3, <1>4, TypeCorrect, PTL DEF Leaves, Spec, HoldRuns

\* A Hold that is owed a decision gets it ...
LEMMA OwedIsSent ==
    ASSUME NEW c \in Calls
    PROVE  Spec /\ []NoHoldIsStuck
              => (pc[c] = "owed" ~> (pc[c] = "owed" /\ decided[c] # "empty") \/ pc[c] = "deciding")
<1> DEFINE Owed == pc[c] = "owed" /\ decided[c] = "empty"
           Sent == pc[c] = "owed" /\ decided[c] # "empty"
<1>1. TypeOK /\ Owed /\ [Next]_vars => Owed' \/ Sent' \/ (pc[c] = "deciding")'
  BY OthersLeavePlaces, HoldStepMoves DEF After, Enter, Store
<1>2. TypeOK /\ Owed /\ <<SendTo(c)>>_vars => Sent'
  BY DEF SendTo, SendDecision, TypeOK, Choices
<1>3. NoHoldIsStuck => (Owed => ENABLED <<SendTo(c)>>_vars)
  BY DEF NoHoldIsStuck
<1>4. Fairness => SendRuns(c)
  BY DEF Fairness
<1>5. pc[c] = "owed" => Owed \/ Sent
  OBVIOUS
<1> HIDE DEF Owed, Sent
<1>6. Spec /\ []NoHoldIsStuck => (pc[c] = "owed" ~> Sent \/ pc[c] = "deciding")
  BY <1>1, <1>2, <1>3, <1>4, <1>5, TypeCorrect, PTL DEF Spec, SendRuns
<1>7. QED
  BY <1>6 DEF Sent

\* ... and takes it.
LEMMA OwedLeaves == ASSUME NEW c \in Calls PROVE Leaves(c, "owed")
<1> DEFINE Sent == pc[c] = "owed" /\ decided[c] # "empty"
<1>1. TypeOK /\ Sent /\ [Next]_vars => Sent' \/ (pc[c] \in After("owed"))'
  <2> SUFFICES ASSUME TypeOK, Sent, [Next]_vars PROVE Sent' \/ (pc[c] \in After("owed"))'
    OBVIOUS
  <2>1. pc'[c] = "owed" \/ pc'[c] \in After("owed")
    BY OthersLeavePlaces, HoldStepMoves DEF Enter, Store
  <2>2. pc'[c] = "owed" => decided'[c] = decided[c]
    <3>1. ASSUME NEW k \in Calls, HoldStep(k), pc'[c] = "owed" PROVE decided'[c] = decided[c]
      <4>1. k # c
        BY <3>1, HoldStepMoves DEF After
      <4>2. CASE TakeDecision(k)
        BY <4>1, <4>2 DEF TakeDecision, TypeOK
      <4>3. CASE ~TakeDecision(k)
        BY <3>1, <4>3 DEF HoldStep, BeginHold, TimeOut, TurnOver, CallerLeft, GiveUp,
           ClaimHold, RecordDecision, RunHeld, RetireRow, AppendNotice, EndHold
      <4>4. QED
        BY <4>2, <4>3
    <3>2. CASE \E k \in Calls : Enter(k) \/ Store(k) \/ CallGoes(k)
      BY <3>2 DEF Enter, Store, CallGoes, confirmationVars, callVars
    <3>3. CASE \E d \in Deciders : ClaimToDecide(d) \/ SendDecision(d)
      BY <3>3 DEF ClaimToDecide, SendDecision, callVars, TypeOK
    <3>4. CASE \E n \in Confirmers : ConfirmStep(n)
      BY <3>4 DEF ConfirmStep, ReadConfirmation, CheckUnheld, CheckIdle, BeginConfirm,
         RunConfirmed, RecordConfirmed, EndConfirm, callVars
    <3>5. CASE BeginTurn \/ EndTurn \/ \E x \in Exchanges : CloseExchange(x) \/ CancelExchange(x)
      BY <3>5 DEF BeginTurn, EndTurn, CloseExchange, CancelExchange, confirmationVars, callVars
    <3>6. CASE UNCHANGED vars
      BY <3>6 DEF vars, callVars
    <3>7. QED
      BY <3>1, <3>2, <3>3, <3>4, <3>5, <3>6 DEF Next
  <2>3. QED
    BY <2>1, <2>2
<1>2. TypeOK /\ Sent /\ <<HoldStep(c)>>_vars => (pc[c] \in After("owed"))'
  BY HoldStepMoves
<1>3. NoHoldIsStuck => (Sent => ENABLED <<HoldStep(c)>>_vars)
  BY DEF NoHoldIsStuck
<1>4. Fairness => HoldRuns(c)
  BY DEF Fairness
<1>5. pc[c] = "deciding" => pc[c] \in After("owed")
  BY DEF After
<1>6. Spec /\ []NoHoldIsStuck => (pc[c] = "owed" ~> Sent \/ pc[c] = "deciding")
  BY OwedIsSent
<1> HIDE DEF Sent
<1>7. QED
  BY <1>1, <1>2, <1>3, <1>4, <1>5, <1>6, TypeCorrect, PTL DEF Leaves, Spec, HoldRuns

\* A held call returns, whatever the developer, the turn and the caller do: fairness
\* carries every Hold from place to place, if the steps it needs can be taken.
THEOREM HeldCallsReturn == Spec /\ []NoHoldIsStuck => HeldCallReturns
<1> SUFFICES ASSUME NEW c \in Calls
             PROVE  Spec /\ []NoHoldIsStuck => (pc[c] = "waiting" ~> pc[c] = "returned")
  BY DEF HeldCallReturns
<1>1. /\ Leaves(c, "waiting") /\ Leaves(c, "giving_up") /\ Leaves(c, "deciding")
      /\ Leaves(c, "running") /\ Leaves(c, "abandoning") /\ Leaves(c, "noting")
      /\ Leaves(c, "ending") /\ Leaves(c, "owed")
  BY HoldLeaves, OwedLeaves DEF OnItsWay, HoldStates
<1>2. /\ pc[c] \in After("waiting") => pc[c] = "deciding" \/ pc[c] = "giving_up"
      /\ pc[c] \in After("giving_up") => pc[c] = "abandoning" \/ pc[c] = "owed"
      /\ pc[c] \in After("owed") => pc[c] = "deciding"
      /\ pc[c] \in After("deciding") => pc[c] = "running" \/ pc[c] = "ending"
      /\ pc[c] \in After("running") => pc[c] = "ending"
      /\ pc[c] \in After("abandoning") => pc[c] = "noting"
      /\ pc[c] \in After("noting") => pc[c] = "ending"
      /\ pc[c] \in After("ending") => pc[c] = "returned"
  BY DEF After
<1>3. QED
  BY <1>1, <1>2, PTL DEF Leaves

\* A Hold that has come to its end has answered.
EndingInv == \A c \in Calls : pc[c] = "ending" => outcome[c] \in Answered

LEMMA EndingStep == TypeOK /\ EndingInv /\ [Next]_vars => EndingInv'
<1> SUFFICES ASSUME TypeOK, EndingInv, [Next]_vars, NEW c \in Calls, pc'[c] = "ending"
             PROVE  outcome'[c] \in Answered
  BY DEF EndingInv
<1> USE DEF TypeOK, Goto
<1>1. CASE HoldStep(c)
  <2>1. CASE RecordDecision(c)
    <3>1. taken[c] # "approve"
      BY <2>1 DEF RecordDecision
    <3>2. QED
      BY <2>1, <3>1 DEF RecordDecision, Answered
  <2>2. CASE RunHeld(c) \/ AppendNotice(c)
    BY <2>2 DEF RunHeld, AppendNotice, Answered
  <2>3. CASE ~RecordDecision(c) /\ ~RunHeld(c) /\ ~AppendNotice(c)
    BY <1>1, <2>3 DEF HoldStep, BeginHold, TakeDecision, TimeOut, TurnOver, CallerLeft,
       GiveUp, ClaimHold, RetireRow, EndHold
  <2>4. QED
    BY <2>1, <2>2, <2>3
<1>2. CASE Enter(c) \/ Store(c)
  BY <1>2 DEF Enter, Store
<1>3. CASE ~HoldStep(c) /\ ~Enter(c) /\ ~Store(c)
  <2>1. outcome[c] \in Answered
    BY <1>3, OthersLeavePlaces DEF EndingInv
  <2>2. ASSUME NEW k \in Calls, k # c, HoldStep(k) PROVE outcome'[c] = outcome[c]
    <3>1. CASE RecordDecision(k)
      BY <2>2, <3>1 DEF RecordDecision
    <3>2. CASE RunHeld(k) \/ AppendNotice(k)
      BY <2>2, <3>2 DEF RunHeld, AppendNotice
    <3>3. CASE ~RecordDecision(k) /\ ~RunHeld(k) /\ ~AppendNotice(k)
      BY <2>2, <3>3 DEF HoldStep, BeginHold, TakeDecision, TimeOut, TurnOver, CallerLeft,
         GiveUp, ClaimHold, RetireRow, EndHold
    <3>4. QED
      BY <3>1, <3>2, <3>3
  <2>3. ASSUME NEW k \in Calls, k # c, Enter(k) \/ Store(k) PROVE outcome'[c] = outcome[c]
    BY <2>3 DEF Enter, Store
  <2>4. CASE \/ \E k \in Calls : CallGoes(k)
             \/ \E d \in Deciders : ClaimToDecide(d) \/ SendDecision(d)
    BY <2>1, <2>4 DEF CallGoes, confirmationVars, callVars, ClaimToDecide, SendDecision
  <2>5. CASE \E n \in Confirmers : ConfirmStep(n)
    BY <2>1, <2>5 DEF ConfirmStep, ReadConfirmation, CheckUnheld, CheckIdle, BeginConfirm,
       RunConfirmed, RecordConfirmed, EndConfirm, callVars
  <2>6. CASE BeginTurn \/ EndTurn \/ \E x \in Exchanges : CloseExchange(x) \/ CancelExchange(x)
    BY <2>1, <2>6 DEF BeginTurn, EndTurn, CloseExchange, CancelExchange, confirmationVars,
       callVars
  <2>7. CASE UNCHANGED vars
    BY <2>1, <2>7 DEF vars, callVars
  <2>8. QED
    BY <1>3, <2>1, <2>2, <2>3, <2>4, <2>5, <2>6, <2>7 DEF Next
<1>4. QED
  BY <1>1, <1>2, <1>3

\* The fairness of HeldAnswer, in what it is for: an open call gets an answer, the
\* developer's or the one that nobody gave.
THEOREM OpenCallsAreAnswered ==
    Spec /\ []NoHoldIsStuck
       => \A c \in Calls : (Abstraction[c] = "open" ~> Abstraction[c] \in Answered)
<1> SUFFICES ASSUME NEW c \in Calls
             PROVE  Spec /\ []NoHoldIsStuck
                       => (Abstraction[c] = "open" ~> Abstraction[c] \in Answered)
  OBVIOUS
<1>1. Spec => []EndingInv
  <2>1. Init => EndingInv
    BY DEF Init, EndingInv
  <2>2. QED
    BY <2>1, EndingStep, TypeCorrect, PTL DEF Spec
<1>2. HoldInv => (Abstraction[c] = "open" => pc[c] = "waiting" \/ pc[c] = "giving_up")
  BY DEF HoldInv, CallInv, WaiterInv, Abstraction
<1>3. EndingInv => (pc[c] = "ending" => Abstraction[c] \in Answered)
  BY Views DEF EndingInv
<1>4. /\ Leaves(c, "waiting") /\ Leaves(c, "giving_up") /\ Leaves(c, "deciding")
      /\ Leaves(c, "running") /\ Leaves(c, "abandoning") /\ Leaves(c, "noting")
      /\ Leaves(c, "owed")
  BY HoldLeaves, OwedLeaves DEF OnItsWay, HoldStates
<1>5. /\ pc[c] \in After("waiting") => pc[c] = "deciding" \/ pc[c] = "giving_up"
      /\ pc[c] \in After("giving_up") => pc[c] = "abandoning" \/ pc[c] = "owed"
      /\ pc[c] \in After("owed") => pc[c] = "deciding"
      /\ pc[c] \in After("deciding") => pc[c] = "running" \/ pc[c] = "ending"
      /\ pc[c] \in After("running") => pc[c] = "ending"
      /\ pc[c] \in After("abandoning") => pc[c] = "noting"
      /\ pc[c] \in After("noting") => pc[c] = "ending"
  BY DEF After
<1>6. QED
  BY <1>1, <1>2, <1>3, <1>4, <1>5, HoldInvariant, PTL DEF Leaves
=============================================================================
