-------------------------- MODULE ChatTurns_proofs ---------------------------
(***************************************************************************)
(* Proofs about ChatTurns, for any number of requests and notes, any cap   *)
(* and any number of iterations.                                           *)
(***************************************************************************)
EXTENDS ChatTurns, Conversation_proofs

-----------------------------------------------------------------------------
(* The registry.  Nothing of the loop is needed for this one. *)

\* The newest exchange can be attached to for as long as it runs.
THEOREM NewestIsAttachable == Spec => []LatestIsAttachable
<1>1. Init => LatestIsAttachable
  BY DEF Init, LatestIsAttachable
<1>2. LatestIsAttachable /\ [Next]_vars => LatestIsAttachable'
  <2> SUFFICES ASSUME LatestIsAttachable, [Next]_vars PROVE LatestIsAttachable'
    OBVIOUS
  <2> USE DEF LatestIsAttachable, registryVars, requestRest, loopRest, otherVars
  <2>1. ASSUME NEW x \in Exchanges, Begin(x), latest' = x PROVE LatestIsAttachable'
    BY <2>1 DEF Begin
  <2>2. ASSUME NEW x \in Exchanges, Deregister(x), UNCHANGED latest PROVE LatestIsAttachable'
    BY <2>2 DEF Deregister
  <2>3. ASSUME UNCHANGED <<live, begun, ended, latest>> PROVE LatestIsAttachable'
    BY <2>3
  <2>4. ASSUME NEW x \in Exchanges, RequestStep(x) PROVE LatestIsAttachable'
    BY <2>4, <2>1, <2>3 DEF RequestStep, CheckIdle, Admit, StoreMessage, BeginTurn, BeginConfirm
  <2>5. ASSUME NEW x \in Exchanges, ExchangeStep(x) PROVE LatestIsAttachable'
    <3>1. CASE Finish(x)
      BY <3>1, <2>2 DEF Finish
    <3>2. CASE CloseExchange(x)
      BY <3>2, <2>3 DEF CloseExchange, Close
    <3>3. CASE TellOutcome(x) \/ Announce(x) \/ CallProvider(x) \/ CallFails(x)
               \/ GiveUpLooping(x) \/ Consume(x) \/ KeepAbandoned(x)
      BY <3>3, <2>3 DEF TellOutcome, Announce, CallProvider, CallFails, GiveUpLooping,
                        Consume, KeepAbandoned
    <3>4. CASE PersistOutOfBand(x) \/ PersistNative(x) \/ Dispatch(x) \/ AppendResults(x)
               \/ RetryResults(x)
      BY <3>4, <2>3 DEF PersistOutOfBand, PersistNative, Dispatch, AppendResults, RetryResults
    <3>5. QED
      BY <2>5, <3>1, <3>2, <3>3, <3>4 DEF ExchangeStep
  <2>6. ASSUME NEW x \in Exchanges, CancelExchange(x) PROVE LatestIsAttachable'
    BY <2>6, <2>3 DEF CancelExchange, Cancel
  <2>7. ASSUME NEW n \in Noters, NoteFallsDue(n) \/ AppendNote(n) \/ SettingsChange(n)
        PROVE  LatestIsAttachable'
    BY <2>7, <2>3 DEF NoteFallsDue, AppendNote, SettingsChange
  <2>8. CASE UNCHANGED vars
    BY <2>8, <2>3 DEF vars
  <2>9. QED
    BY <2>4, <2>5, <2>6, <2>7, <2>8 DEF Next
<1>3. QED
  BY <1>1, <1>2, PTL DEF Spec

-----------------------------------------------------------------------------
(* The spend. *)

\* What the argument about the spend needs of the types.
CountersOK ==
    /\ used \in Nat
    /\ pc \in [Exchanges -> Waiting \union Looping \union {"refused", "over"}]
    /\ iteration \in [Exchanges -> Nat]

\* An exchange whose next provider call no check stands in front of any more.
MayStillSpend(x) ==
    \/ pc[x] = "streaming"
    \/ /\ iteration[x] = 0
       /\ \/ pc[x] \in {"admitted", "titled", "iterating", "ready"}
          \/ x \in Confirmers /\ pc[x] \in {"asked", "idle"}

Spending == {x \in Exchanges : MayStillSpend(x)}

\* Each of them may add one call; the check lets an exchange join them below the cap.
SpendInv ==
    /\ CountersOK
    /\ used + Cardinality(Spending) <= Cap - 1 + Cardinality(Exchanges)

LEMMA SpendingIsFinite ==
    /\ IsFiniteSet(Spending) /\ Cardinality(Spending) \in Nat
    /\ Cardinality(Exchanges) \in Nat
    /\ Cardinality(Spending) <= Cardinality(Exchanges)
<1>1. Spending \in SUBSET Exchanges
  BY DEF Spending
<1>2. QED
  BY <1>1, TurnsAssumption, FS_Subset, FS_CardinalityType

LEMMA SpendingIsFiniteNext ==
    /\ IsFiniteSet(Spending') /\ Cardinality(Spending') \in Nat
    /\ Cardinality(Spending') <= Cardinality(Exchanges)
<1>1. Spending' \in SUBSET Exchanges
  BY DEF Spending
<1>2. QED
  BY <1>1, TurnsAssumption, FS_Subset, FS_CardinalityType

\* A step that spends nothing and lets nobody join.
LEMMA NobodyJoins ==
    ASSUME SpendInv, CountersOK', used' = used,
           \A x \in Exchanges : MayStillSpend(x)' => MayStillSpend(x)
    PROVE  SpendInv'
<1>1. Spending' \in SUBSET Spending
  BY DEF Spending
<1>2. Cardinality(Spending') <= Cardinality(Spending)
  BY <1>1, SpendingIsFinite, FS_Subset
<1>3. QED
  BY <1>2, SpendingIsFinite, SpendingIsFiniteNext, TurnsAssumption DEF SpendInv, CountersOK

\* A step that was checked against the cap.
LEMMA JoiningIsChecked ==
    ASSUME SpendInv, CountersOK', used' = used, used < Cap
    PROVE  SpendInv'
BY SpendingIsFinite, SpendingIsFiniteNext, TurnsAssumption DEF SpendInv, CountersOK

\* The provider call itself.
LEMMA SpendingOnce ==
    ASSUME SpendInv, CountersOK', NEW x \in Exchanges, MayStillSpend(x), ~MayStillSpend(x)',
           used' <= used + 1,
           \A y \in Exchanges : MayStillSpend(y)' => MayStillSpend(y)
    PROVE  SpendInv'
<1>1. Spending' \in SUBSET (Spending \ {x}) /\ x \in Spending
  BY DEF Spending
<1>2. /\ IsFiniteSet(Spending \ {x})
      /\ Cardinality(Spending \ {x}) = Cardinality(Spending) - 1
  BY <1>1, SpendingIsFinite, FS_RemoveElement
<1>3. Cardinality(Spending') <= Cardinality(Spending) - 1
  BY <1>1, <1>2, FS_Subset
<1>4. QED
  BY <1>3, SpendingIsFinite, SpendingIsFiniteNext, TurnsAssumption DEF SpendInv, CountersOK

\* start's and Confirm's steps.
LEMMA RequestsSpend ==
    ASSUME SpendInv, NEW x \in Exchanges, RequestStep(x) PROVE SpendInv'
<1> USE DEF Goto, requestRest, Waiting, Looping
<1>1. CASE CheckIdle(x)
  <2>1. PICK label \in {"refused", "idle"} : pc' = [pc EXCEPT ![x] = label]
    BY <1>1 DEF CheckIdle
  <2>2. pc[x] = "asked" /\ used' = used /\ UNCHANGED iteration
    BY <1>1 DEF CheckIdle
  <2>3. x \in Senders \/ x \in Confirmers
    BY TurnsAssumption
  <2>4. CountersOK'
    BY <2>1, <2>2 DEF SpendInv, CountersOK
  <2>5. \A y \in Exchanges : MayStillSpend(y)' => MayStillSpend(y)
    BY <2>1, <2>2, <2>3, TurnsAssumption DEF SpendInv, CountersOK, MayStillSpend
  <2>6. QED
    BY <2>2, <2>4, <2>5, NobodyJoins
<1>2. CASE Admit(x)
  <2>1. CASE used < Cap
    <3>1. CountersOK' /\ used' = used
      BY <1>2, <2>1 DEF Admit, SpendInv, CountersOK
    <3>2. QED
      BY <2>1, <3>1, JoiningIsChecked
  <2>2. CASE ~(used < Cap)
    <3>1. pc' = [pc EXCEPT ![x] = "refused"] /\ used' = used /\ UNCHANGED iteration
      BY <1>2, <2>2 DEF Admit
    <3>2. CountersOK' /\ \A y \in Exchanges : MayStillSpend(y)' => MayStillSpend(y)
      BY <3>1 DEF SpendInv, CountersOK, MayStillSpend
    <3>3. QED
      BY <3>1, <3>2, NobodyJoins
  <2>3. QED
    BY <2>1, <2>2
<1>3. CASE StoreMessage(x)
  <2>1. PICK label \in {"titled", "refused"} : pc' = [pc EXCEPT ![x] = label]
    BY <1>3 DEF StoreMessage
  <2>2. pc[x] = "admitted" /\ used' = used /\ UNCHANGED iteration
    BY <1>3 DEF StoreMessage
  <2>3. CountersOK'
    BY <2>1, <2>2 DEF SpendInv, CountersOK
  <2>4. \A y \in Exchanges : MayStillSpend(y)' => MayStillSpend(y)
    BY <2>1, <2>2 DEF SpendInv, CountersOK, MayStillSpend
  <2>5. QED
    BY <2>2, <2>3, <2>4, NobodyJoins
<1>4. CASE BeginTurn(x)
  <2>1. pc' = [pc EXCEPT ![x] = "iterating"] /\ pc[x] = "titled"
        /\ used' = used /\ UNCHANGED iteration
    BY <1>4 DEF BeginTurn
  <2>2. CountersOK'
    BY <2>1 DEF SpendInv, CountersOK
  <2>3. \A y \in Exchanges : MayStillSpend(y)' => MayStillSpend(y)
    BY <2>1 DEF SpendInv, CountersOK, MayStillSpend
  <2>4. QED
    BY <2>1, <2>2, <2>3, NobodyJoins
<1>5. CASE BeginConfirm(x)
  <2>1. pc' = [pc EXCEPT ![x] = "titled"] /\ pc[x] = "idle" /\ x \in Confirmers
        /\ used' = used /\ UNCHANGED iteration
    BY <1>5 DEF BeginConfirm
  <2>2. CountersOK'
    BY <2>1 DEF SpendInv, CountersOK
  <2>3. \A y \in Exchanges : MayStillSpend(y)' => MayStillSpend(y)
    BY <2>1 DEF SpendInv, CountersOK, MayStillSpend
  <2>4. QED
    BY <2>1, <2>2, <2>3, NobodyJoins
<1>6. QED
  BY <1>1, <1>2, <1>3, <1>4, <1>5 DEF RequestStep

\* The loop's steps.
LEMMA LoopsSpend ==
    ASSUME SpendInv, NEW x \in Exchanges, ExchangeStep(x) PROVE SpendInv'
<1> USE DEF Goto, loopRest, requestRest, otherVars, loopVars, Waiting, Looping
<1> DEFINE Onward ==
      \E label \in {"leaving", "keeping", "persisting", "dispatching", "answering",
                    "retrying", "over"} :
         pc' = [pc EXCEPT ![x] = label] /\ used' = used /\ UNCHANGED iteration
    Again == /\ pc' = [pc EXCEPT ![x] = "iterating"] /\ used' = used
             /\ iteration' = [iteration EXCEPT ![x] = @ + 1]
<1>1. ASSUME Onward PROVE SpendInv'
  <2>1. PICK label \in {"leaving", "keeping", "persisting", "dispatching", "answering",
                        "retrying", "over"} :
           pc' = [pc EXCEPT ![x] = label] /\ used' = used /\ UNCHANGED iteration
    BY <1>1
  <2>2. CountersOK'
    BY <2>1 DEF SpendInv, CountersOK
  <2>3. \A y \in Exchanges : MayStillSpend(y)' => MayStillSpend(y)
    BY <2>1 DEF SpendInv, CountersOK, MayStillSpend
  <2>4. QED
    BY <2>1, <2>2, <2>3, NobodyJoins
<1>2. ASSUME Again PROVE SpendInv'
  <2>1. CountersOK'
    BY <1>2 DEF SpendInv, CountersOK
  <2>2. \A y \in Exchanges : MayStillSpend(y)' => MayStillSpend(y)
    BY <1>2 DEF SpendInv, CountersOK, MayStillSpend
  <2>3. QED
    BY <1>2, <2>1, <2>2, NobodyJoins
<1>3. ASSUME NextIteration(x), used' = used PROVE SpendInv'
  BY <1>3, <1>1, <1>2 DEF NextIteration
<1>4. CASE TellOutcome(x)
  <2>1. PICK label \in {"iterating", "leaving"} : pc' = [pc EXCEPT ![x] = label]
    BY <1>4 DEF TellOutcome
  <2>2. pc[x] = "titled" /\ used' = used /\ UNCHANGED iteration
    BY <1>4 DEF TellOutcome
  <2>3. CountersOK'
    BY <2>1, <2>2 DEF SpendInv, CountersOK
  <2>4. \A y \in Exchanges : MayStillSpend(y)' => MayStillSpend(y)
    BY <2>1, <2>2 DEF SpendInv, CountersOK, MayStillSpend
  <2>5. QED
    BY <2>2, <2>3, <2>4, NobodyJoins
<1>5. CASE Announce(x)
  <2>1. PICK label \in {"ready", "leaving"} : pc' = [pc EXCEPT ![x] = label]
    BY <1>5 DEF Announce
  <2>2. pc[x] = "iterating" /\ used' = used /\ UNCHANGED iteration
    BY <1>5 DEF Announce
  <2>3. CountersOK'
    BY <2>1, <2>2 DEF SpendInv, CountersOK
  <2>4. \A y \in Exchanges : MayStillSpend(y)' => MayStillSpend(y)
    BY <2>1, <2>2 DEF SpendInv, CountersOK, MayStillSpend
  <2>5. QED
    BY <2>2, <2>3, <2>4, NobodyJoins
<1>6. CASE CallProvider(x)
  <2>1. pc[x] = "ready" /\ used' = used /\ UNCHANGED iteration
    BY <1>6 DEF CallProvider
  <2>2. CASE MustCheck(x) /\ used >= Cap
    BY <1>6, <2>2, <1>1 DEF CallProvider
  <2>3. CASE ~MustCheck(x)
    <3>1. pc' = [pc EXCEPT ![x] = "streaming"]
      BY <1>6, <2>3 DEF CallProvider
    <3>2. CountersOK' /\ iteration[x] = 0
      BY <2>1, <2>3, <3>1 DEF SpendInv, CountersOK, MustCheck
    <3>3. \A y \in Exchanges : MayStillSpend(y)' => MayStillSpend(y)
      BY <2>1, <3>1, <3>2 DEF SpendInv, CountersOK, MayStillSpend
    <3>4. QED
      BY <2>1, <3>2, <3>3, NobodyJoins
  <2>4. CASE ~(used >= Cap)
    <3>1. pc' = [pc EXCEPT ![x] = "streaming"]
      BY <1>6, <2>4 DEF CallProvider
    <3>2. CountersOK' /\ used < Cap
      BY <2>1, <2>4, <3>1, TurnsAssumption DEF SpendInv, CountersOK
    <3>3. QED
      BY <2>1, <3>2, JoiningIsChecked
  <2>5. QED
    BY <2>2, <2>3, <2>4
<1>7. CASE CallFails(x) \/ GiveUpLooping(x)
  BY <1>7, <1>1 DEF CallFails, GiveUpLooping
<1>8. CASE Consume(x)
  <2>1. PICK label \in {"keeping", "persisting"}, spent \in {0, 1} :
           pc' = [pc EXCEPT ![x] = label] /\ used' = used + spent
    BY <1>8 DEF Consume
  <2>2. pc[x] = "streaming" /\ UNCHANGED iteration
    BY <1>8 DEF Consume
  <2>3. CountersOK' /\ used' <= used + 1
    BY <2>1, <2>2 DEF SpendInv, CountersOK
  <2>4. /\ MayStillSpend(x) /\ ~MayStillSpend(x)'
        /\ \A y \in Exchanges : MayStillSpend(y)' => MayStillSpend(y)
    BY <2>1, <2>2 DEF SpendInv, CountersOK, MayStillSpend
  <2>5. QED
    BY <2>3, <2>4, SpendingOnce
<1>9. CASE KeepAbandoned(x) \/ PersistOutOfBand(x) \/ PersistNative(x) \/ Dispatch(x)
  BY <1>9, <1>1 DEF KeepAbandoned, PersistOutOfBand, PersistNative, Dispatch
<1>10. CASE AppendResults(x) \/ RetryResults(x)
  BY <1>10, <1>1, <1>3 DEF AppendResults, RetryResults
<1>11. CASE Finish(x)
  BY <1>11, <1>1 DEF Finish
<1>12. CASE CloseExchange(x)
  BY <1>12, NobodyJoins DEF CloseExchange, SpendInv, CountersOK, MayStillSpend
<1>13. QED
  BY <1>4, <1>5, <1>6, <1>7, <1>8, <1>9, <1>10, <1>11, <1>12 DEF ExchangeStep

\* No interleaving of the checks makes a user's spend pass the cap by more than one
\* provider call of each exchange.
THEOREM SpendStaysBounded == Spec => []SpendIsBounded
<1>1. Init => SpendInv
  <2> SUFFICES ASSUME Init PROVE SpendInv
    OBVIOUS
  <2>1. CountersOK /\ used = 0
    BY DEF Init, CountersOK, Waiting
  <2>2. QED
    BY <2>1, SpendingIsFinite, TurnsAssumption DEF SpendInv
<1>2. SpendInv /\ [Next]_vars => SpendInv'
  <2> SUFFICES ASSUME SpendInv, [Next]_vars PROVE SpendInv'
    OBVIOUS
  <2>1. ASSUME UNCHANGED <<used, pc, iteration>> PROVE SpendInv'
    BY <2>1, NobodyJoins DEF SpendInv, CountersOK, MayStillSpend
  <2>2. ASSUME NEW x \in Exchanges, CancelExchange(x) PROVE SpendInv'
    BY <2>1, <2>2 DEF CancelExchange, otherVars, loopVars
  <2>3. ASSUME NEW n \in Noters, NoteFallsDue(n) \/ AppendNote(n) \/ SettingsChange(n)
        PROVE  SpendInv'
    BY <2>1, <2>3 DEF NoteFallsDue, AppendNote, SettingsChange, otherVars, loopVars
  <2>4. CASE UNCHANGED vars
    BY <2>1, <2>4 DEF vars, loopVars
  <2>5. QED
    BY <2>2, <2>3, <2>4, RequestsSpend, LoopsSpend DEF Next
<1>3. SpendInv => SpendIsBounded
  BY SpendingIsFinite, TurnsAssumption DEF SpendInv, CountersOK, SpendIsBounded
<1>4. QED
  BY <1>1, <1>2, <1>3, PTL DEF Spec

-----------------------------------------------------------------------------
(* The results of the tools. *)

StoredMessages == [role : {"user", "assistant"}, content : Seq(BlocksOf(CallIds)) \ {<<>>}]

LEMMA CallIdsAreFinite == IsFiniteSet(CallIds)
<1>1. IsFiniteSet(0 .. MaxIterations)
  BY FS_Interval, TurnsAssumption
<1>2. QED
  BY <1>1, FS_Product, TurnsAssumption DEF CallIds

\* The message of appendToolResults answers the turn's results.
LEMMA AnswersAnswer ==
    ASSUME NEW x \in Exchanges, turn[x].results \in SUBSET CallIds, turn[x].results # {}
    PROVE  Answers(x) \in StoredMessages /\ AnsweredIn(Answers(x)) = turn[x].results
<1> DEFINE ids == turn[x].results
           results == SetToSeq({Result(id) : id \in ids})
<1>1. IsFiniteSet(ids)
  BY CallIdsAreFinite, FS_Subset
<1>2. /\ results \in Seq(BlocksOf(CallIds)) /\ results # <<>>
      /\ AnsweredIn(UserMessage(results)) = ids
  BY <1>1, ResultsAnswer
<1>3. Answers(x) = UserMessage(results)
  BY DEF Answers
<1> HIDE DEF results
<1>4. UserMessage(results) \in StoredMessages
  BY <1>2 DEF StoredMessages, UserMessage
<1>5. QED
  BY <1>2, <1>3, <1>4

\* What persistAssistant stores is a message, and so is any text.
LEMMA TextsAreMessages ==
    /\ UserMessage(<<Text>>) \in StoredMessages
    /\ \A calls \in SUBSET CallIds : Said(calls) \in StoredMessages
<1>1. Text \in BlocksOf(CallIds)
  BY DEF Text, BlocksOf
<1>2. UserMessage(<<Text>>) \in StoredMessages
  <2>1. <<Text>> \in Seq(BlocksOf(CallIds)) /\ <<Text>> # <<>>
    BY <1>1
  <2>2. QED
    BY <2>1 DEF UserMessage, StoredMessages
<1>3. ASSUME NEW calls \in SUBSET CallIds PROVE Said(calls) \in StoredMessages
  <2> DEFINE blocks == {Call(id) : id \in calls}
             f == [id \in calls |-> Call(id)]
  <2>1. IsFiniteSet(calls)
    BY CallIdsAreFinite, FS_Subset
  <2>2. f \in Surjection(calls, blocks)
    BY DEF Surjection
  <2>3. IsFiniteSet(blocks)
    BY <2>1, <2>2, FS_Surjection
  <2>4. SetToSeq(blocks) \in Seq(blocks)
    BY <2>3, SetToSeqHasAll
  <2>5. blocks \in SUBSET BlocksOf(CallIds)
    BY DEF Call, BlocksOf
  <2>6. SetToSeq(blocks) \in Seq(BlocksOf(CallIds))
    BY <2>4, <2>5
  <2>7. CASE calls = {}
    <3>1. Said(calls) = [role |-> "assistant", content |-> <<Text>>]
      BY <2>7 DEF Said, AssistantMessage
    <3>2. <<Text>> \in Seq(BlocksOf(CallIds)) /\ <<Text>> # <<>>
      BY <1>1
    <3>3. QED
      BY <3>1, <3>2 DEF StoredMessages
  <2>8. CASE calls # {}
    <3>1. Said(calls) = [role |-> "assistant", content |-> SetToSeq(blocks)]
      BY <2>8 DEF Said, AssistantMessage
    <3>2. blocks # {}
      BY <2>8
    <3>3. ToSet(SetToSeq(blocks)) = blocks
      BY <2>3, SetToSeqHasAll
    <3> HIDE DEF blocks
    <3>4. SetToSeq(blocks) # <<>>
      BY <3>2, <3>3 DEF ToSet
    <3>5. QED
      BY <3>1, <3>4, <2>6 DEF StoredMessages
  <2>9. QED
    BY <2>7, <2>8
<1>4. QED
  BY <1>2, <1>3

\* Appending a message adds what it answers.
LEMMA AppendAnswers ==
    ASSUME NEW h \in Seq(StoredMessages), NEW m \in StoredMessages
    PROVE  /\ Append(h, m) \in Seq(StoredMessages)
           /\ AnsweredBy(h) \subseteq AnsweredBy(Append(h, m))
           /\ AnsweredIn(m) \subseteq AnsweredBy(Append(h, m))
<1>1. /\ DOMAIN h = 1 .. Len(h) /\ Len(h) \in Nat
      /\ DOMAIN Append(h, m) = 1 .. (Len(h) + 1)
      /\ \A i \in 1 .. Len(h) : Append(h, m)[i] = h[i]
      /\ Append(h, m)[Len(h) + 1] = m
  OBVIOUS
<1>2. ToSet(h) \subseteq ToSet(Append(h, m)) /\ m \in ToSet(Append(h, m))
  BY <1>1 DEF ToSet
<1>3. QED
  BY <1>2 DEF AnsweredBy

Turns == [calls : SUBSET CallIds, results : SUBSET CallIds,
          how : {"none", "done", "cut_off", "abandoned"}, stop : BOOLEAN]

\* Where a turn's results are still on their way into the history.
Underway == {"keeping", "persisting", "dispatching", "answering", "retrying"}

\* An exchange in the middle of an iteration, and what its turn holds there.
ExchangeInv(x) ==
    /\ pc[x] \in Underway \union {"ready", "streaming"} => iteration[x] < MaxIterations
    /\ pc[x] \in {"keeping", "persisting"} => turn[x].results \subseteq turn[x].calls
    /\ pc[x] = "persisting" /\ ~outOfBand => turn[x].results = {}
    /\ pc[x] = "dispatching" => turn[x].calls # {}
    /\ pc[x] \in {"answering", "retrying"} => turn[x].results # {}

\* With a database that takes writes, only a turn that is under way has results that
\* are not stored.
ResultsInv(x) ==
    StoreFails \/ pc[x] \in Underway \/ turn[x].results \subseteq AnsweredBy(history)

LoopTypeOK ==
    /\ history \in Seq(StoredMessages)
    /\ pc \in [Exchanges -> Waiting \union Looping \union {"refused", "over"}]
    /\ iteration \in [Exchanges -> 0 .. MaxIterations]
    /\ turn \in [Exchanges -> Turns]

LoopInv ==
    /\ LoopTypeOK
    /\ \A x \in Exchanges : ExchangeInv(x) /\ ResultsInv(x)

\* The history stays as it is or one message is appended.
Grows == history' = history \/ \E m \in StoredMessages : history' = Append(history, m)

LEMMA GrowingKeeps ==
    ASSUME history \in Seq(StoredMessages), Grows
    PROVE  history' \in Seq(StoredMessages) /\ AnsweredBy(history) \subseteq AnsweredBy(history')
<1>1. CASE history' = history
  BY <1>1
<1>2. ASSUME NEW m \in StoredMessages, history' = Append(history, m)
      PROVE  history' \in Seq(StoredMessages) /\ AnsweredBy(history) \subseteq AnsweredBy(history')
  BY <1>2, AppendAnswers
<1>3. QED
  BY <1>1, <1>2 DEF Grows

\* A write that is acknowledged has landed; a detached one fails with the database.
LEMMA AcknowledgedLands ==
    /\ \A b : \A o \in Landings(b) : o.ok => o.landed
    /\ \A x : \A o \in OnContext(x) : o.ok => o.landed
    /\ \A o \in Detached : (o.ok => o.landed) /\ (StoreFails \/ o.ok)
<1>1. \A b : \A o \in Landings(b) : o.ok => o.landed
  BY DEF Landings
<1>2. ~StoreFails => \A o \in Detached : o.ok
  BY DEF Landings, Detached
<1>3. QED
  BY <1>1, <1>2 DEF OnContext, Detached

\* A step of the exchange x alone, on its own entries and the history.
LEMMA StepOfOne ==
    ASSUME LoopInv, NEW x \in Exchanges, Grows, outOfBand' = outOfBand,
           NEW label \in Waiting \union Looping \union {"refused", "over"},
           NEW i \in 0 .. MaxIterations, NEW t \in Turns,
           pc' = [pc EXCEPT ![x] = label], iteration' = [iteration EXCEPT ![x] = i],
           turn' = [turn EXCEPT ![x] = t], ExchangeInv(x)', ResultsInv(x)'
    PROVE  LoopInv'
<1>1. history' \in Seq(StoredMessages) /\ AnsweredBy(history) \subseteq AnsweredBy(history')
  BY GrowingKeeps DEF LoopInv, LoopTypeOK
<1>2. LoopTypeOK'
  BY <1>1 DEF LoopInv, LoopTypeOK
<1>3. ASSUME NEW y \in Exchanges, y # x PROVE ExchangeInv(y)' /\ ResultsInv(y)'
  <2>1. pc'[y] = pc[y] /\ iteration'[y] = iteration[y] /\ turn'[y] = turn[y]
    BY <1>3 DEF LoopInv, LoopTypeOK
  <2>2. ExchangeInv(y) /\ ResultsInv(y)
    BY DEF LoopInv
  <2>3. ExchangeInv(y)'
    BY <2>1, <2>2 DEF ExchangeInv
  <2>4. ResultsInv(y)'
    BY <1>1, <2>1, <2>2, Zenon DEF ResultsInv
  <2>5. QED
    BY <2>3, <2>4
<1>4. QED
  BY <1>2, <1>3 DEF LoopInv

LEMMA MoveOfOne ==
    ASSUME LoopInv, NEW x \in Exchanges, Grows, outOfBand' = outOfBand,
           NEW label \in Waiting \union Looping \union {"refused", "over"},
           pc' = [pc EXCEPT ![x] = label], UNCHANGED <<iteration, turn>>,
           ExchangeInv(x)', ResultsInv(x)'
    PROVE  LoopInv'
<1>1. iteration[x] \in 0 .. MaxIterations /\ iteration' = [iteration EXCEPT ![x] = iteration[x]]
  BY DEF LoopInv, LoopTypeOK
<1>2. turn[x] \in Turns /\ turn' = [turn EXCEPT ![x] = turn[x]]
  BY DEF LoopInv, LoopTypeOK
<1>3. QED
  BY <1>1, <1>2, StepOfOne

\* A move that neither begins nor ends a turn's way into the history.
LEMMA SettledMove ==
    ASSUME LoopInv, NEW x \in Exchanges, Grows, outOfBand' = outOfBand,
           NEW label \in Waiting \union Looping \union {"refused", "over"},
           pc' = [pc EXCEPT ![x] = label], UNCHANGED <<iteration, turn>>,
           pc[x] \notin Underway, label \notin Underway,
           label \in {"ready", "streaming"} => iteration[x] < MaxIterations
    PROVE  LoopInv'
<1>1. pc'[x] = label
  BY DEF LoopInv, LoopTypeOK
<1>2. ExchangeInv(x)'
  BY <1>1 DEF ExchangeInv, Underway
<1>3. ResultsInv(x)'
  <2>1. AnsweredBy(history) \subseteq AnsweredBy(history')
    BY GrowingKeeps DEF LoopInv, LoopTypeOK
  <2>2. ResultsInv(x)
    BY DEF LoopInv
  <2>3. QED
    BY <1>1, <2>1, <2>2, Zenon DEF ResultsInv
<1>4. QED
  BY <1>2, <1>3, MoveOfOne

LEMMA RequestsKeepLoops ==
    ASSUME LoopInv, NEW x \in Exchanges, RequestStep(x) PROVE LoopInv'
<1> USE DEF Goto, requestRest, Waiting, Looping, Underway
<1>1. CASE CheckIdle(x) \/ Admit(x)
  <2>1. PICK label \in {"refused", "idle", "admitted"} : pc' = [pc EXCEPT ![x] = label]
    BY <1>1 DEF CheckIdle, Admit
  <2>2. pc[x] \in {"asked", "idle"} /\ UNCHANGED <<iteration, turn, history, outOfBand>>
    BY <1>1 DEF CheckIdle, Admit
  <2>3. QED
    BY <2>1, <2>2, SettledMove DEF Grows
<1>2. CASE StoreMessage(x)
  <2>1. PICK label \in {"refused", "titled"} : pc' = [pc EXCEPT ![x] = label]
    BY <1>2 DEF StoreMessage
  <2>2. pc[x] = "admitted" /\ UNCHANGED <<iteration, turn, outOfBand>>
    BY <1>2 DEF StoreMessage
  <2>3. Grows
    BY <1>2, TextsAreMessages DEF StoreMessage, AppendMessage, Grows
  <2>4. QED
    BY <2>1, <2>2, <2>3, SettledMove
<1>3. CASE BeginTurn(x) \/ BeginConfirm(x)
  <2>1. PICK label \in {"iterating", "titled"} : pc' = [pc EXCEPT ![x] = label]
    BY <1>3 DEF BeginTurn, BeginConfirm
  <2>2. pc[x] \in {"titled", "idle"} /\ UNCHANGED <<iteration, turn, history, outOfBand>>
    BY <1>3 DEF BeginTurn, BeginConfirm
  <2>3. QED
    BY <2>1, <2>2, SettledMove DEF Grows
<1>4. QED
  BY <1>1, <1>2, <1>3 DEF RequestStep

\* The steps of the loop between two turns.
LEMMA BetweenTurnsKeeps ==
    ASSUME LoopInv, NEW x \in Exchanges,
           TellOutcome(x) \/ Announce(x) \/ CallProvider(x) \/ CallFails(x) \/ GiveUpLooping(x)
           \/ Finish(x)
    PROVE  LoopInv'
<1> USE DEF Goto, requestRest, loopRest, Waiting, Looping, Underway
<1>1. CASE TellOutcome(x)
  <2>1. PICK label \in {"iterating", "leaving"} : pc' = [pc EXCEPT ![x] = label]
    BY <1>1 DEF TellOutcome
  <2>2. pc[x] = "titled" /\ UNCHANGED <<iteration, turn, outOfBand>>
    BY <1>1 DEF TellOutcome
  <2>3. Grows
    BY <1>1, TextsAreMessages DEF TellOutcome, AppendMessage, Grows
  <2>4. QED
    BY <2>1, <2>2, <2>3, SettledMove
<1>2. CASE Announce(x)
  <2>1. PICK label \in {"ready", "leaving"} : pc' = [pc EXCEPT ![x] = label]
    BY <1>2 DEF Announce
  <2>2. /\ pc[x] = "iterating" /\ UNCHANGED <<iteration, turn, outOfBand>>
        /\ iteration[x] < MaxIterations
    BY <1>2 DEF Announce
  <2>3. Grows
    BY <1>2, TextsAreMessages DEF Announce, AppendMessage, Grows
  <2>4. QED
    BY <2>1, <2>2, <2>3, SettledMove
<1>3. CASE CallProvider(x)
  <2>1. PICK label \in {"streaming", "leaving"} : pc' = [pc EXCEPT ![x] = label]
    BY <1>3 DEF CallProvider
  <2>2. pc[x] = "ready" /\ UNCHANGED <<iteration, turn, history, outOfBand>>
    BY <1>3 DEF CallProvider
  <2>3. iteration[x] < MaxIterations
    BY <2>2 DEF LoopInv, ExchangeInv
  <2>4. QED
    BY <2>1, <2>2, <2>3, SettledMove DEF Grows
<1>4. CASE CallFails(x) \/ GiveUpLooping(x)
  <2>1. pc' = [pc EXCEPT ![x] = "leaving"]
    BY <1>4 DEF CallFails, GiveUpLooping
  <2>2. /\ pc[x] \in {"iterating", "ready"}
        /\ UNCHANGED <<iteration, turn, history, outOfBand>>
    BY <1>4 DEF CallFails, GiveUpLooping
  <2>3. QED
    BY <2>1, <2>2, SettledMove DEF Grows
<1>5. CASE Finish(x)
  <2> DEFINE left == [NoTurn EXCEPT !.results = turn[x].results]
  <2>1. /\ pc[x] = "leaving" /\ pc' = [pc EXCEPT ![x] = "over"]
        /\ turn' = [turn EXCEPT ![x] = left]
        /\ UNCHANGED <<iteration, history, outOfBand>>
    BY <1>5 DEF Finish
  <2>2. turn[x] \in Turns
    BY DEF LoopInv, LoopTypeOK
  <2>3. left \in Turns /\ left.results = turn[x].results
    BY <2>2 DEF Turns, NoTurn
  <2>4. pc'[x] = "over" /\ turn'[x] = left
    BY <2>1 DEF LoopInv, LoopTypeOK
  <2>5. ExchangeInv(x)'
    BY <2>4 DEF ExchangeInv
  <2>6. ResultsInv(x)'
    BY <2>1, <2>3, <2>4 DEF LoopInv, ResultsInv
  <2>7. /\ iteration[x] \in 0 .. MaxIterations
        /\ iteration' = [iteration EXCEPT ![x] = iteration[x]]
    BY <2>1 DEF LoopInv, LoopTypeOK
  <2>8. Grows
    BY <2>1 DEF Grows
  <2>9. QED
    BY <2>1, <2>3, <2>5, <2>6, <2>7, <2>8, StepOfOne
<1>6. QED
  BY <1>1, <1>2, <1>3, <1>4, <1>5

LEMMA ConsumeKeeps ==
    ASSUME LoopInv, NEW x \in Exchanges, Consume(x) PROVE LoopInv'
<1> USE DEF Goto, loopRest, Waiting, Looping, Underway
<1>0. PICK calls \in {{}, Calls(x)}, how \in {"done", "cut_off", "abandoned"} :
         \E results \in (IF outOfBand THEN SUBSET calls ELSE {{}}) :
            /\ turn' = [turn EXCEPT ![x] = [calls |-> calls, results |-> results,
                                            how |-> how, stop |-> FALSE]]
            /\ pc' = [pc EXCEPT ![x] = IF how = "abandoned" THEN "keeping" ELSE "persisting"]
  BY DEF Consume
<1>1. PICK results \in (IF outOfBand THEN SUBSET calls ELSE {{}}) :
         /\ turn' = [turn EXCEPT ![x] = [calls |-> calls, results |-> results,
                                         how |-> how, stop |-> FALSE]]
         /\ pc' = [pc EXCEPT ![x] = IF how = "abandoned" THEN "keeping" ELSE "persisting"]
  BY <1>0
<1>2. pc[x] = "streaming" /\ UNCHANGED <<iteration, history, outOfBand>>
  BY DEF Consume
<1>3. iteration[x] \in 0 .. MaxIterations /\ iteration[x] < MaxIterations
  BY <1>2 DEF LoopInv, LoopTypeOK, ExchangeInv
<1>4. calls \in SUBSET CallIds
  BY <1>3 DEF Calls, CallId, CallIds
<1>5. results \in SUBSET calls /\ (~outOfBand => results = {})
  OBVIOUS
<1> DEFINE t == [calls |-> calls, results |-> results, how |-> how, stop |-> FALSE]
           label == IF how = "abandoned" THEN "keeping" ELSE "persisting"
<1>6. t \in Turns /\ t.results = results /\ t.calls = calls
  BY <1>4, <1>5 DEF Turns
<1>7. pc' = [pc EXCEPT ![x] = label] /\ turn' = [turn EXCEPT ![x] = t]
  BY <1>1
<1>8. label \in {"keeping", "persisting"}
  OBVIOUS
<1> HIDE DEF t, label
<1>9. pc'[x] = label /\ turn'[x] = t /\ iteration'[x] = iteration[x]
  BY <1>2, <1>7 DEF LoopInv, LoopTypeOK
<1>10. ExchangeInv(x)' /\ ResultsInv(x)'
  BY <1>2, <1>3, <1>5, <1>6, <1>8, <1>9 DEF ExchangeInv, ResultsInv
<1>11. iteration' = [iteration EXCEPT ![x] = iteration[x]]
  BY <1>2 DEF LoopInv, LoopTypeOK
<1>12. QED
  BY <1>2, <1>3, <1>6, <1>7, <1>8, <1>10, <1>11, StepOfOne DEF Grows

LEMMA PersistKeeps ==
    ASSUME LoopInv, NEW x \in Exchanges,
           KeepAbandoned(x) \/ PersistOutOfBand(x) \/ PersistNative(x)
    PROVE  LoopInv'
<1> USE DEF Goto, loopRest, Waiting, Looping, Underway
<1>1. /\ UNCHANGED <<iteration, turn, outOfBand>>
      /\ pc[x] \in {"keeping", "persisting"}
  BY DEF KeepAbandoned, PersistOutOfBand, PersistNative
<1>2. /\ turn[x] \in Turns /\ turn[x].results \in SUBSET turn[x].calls
      /\ turn[x].calls \in SUBSET CallIds /\ iteration[x] < MaxIterations
  BY <1>1 DEF LoopInv, LoopTypeOK, ExchangeInv, Turns
<1>3. Grows
  <2>1. ASSUME NEW calls \in SUBSET CallIds, NEW o, PersistAssistant(calls, o) PROVE Grows
    BY <2>1, TextsAreMessages DEF PersistAssistant, AppendMessage, Grows
  <2>2. PICK calls \in SUBSET CallIds : \E o : PersistAssistant(calls, o)
    BY <1>2 DEF KeepAbandoned, PersistOutOfBand, PersistNative
  <2>3. QED
    BY <2>1, <2>2
<1>4. ASSUME pc' = [pc EXCEPT ![x] = "answering"], turn[x].results # {} PROVE LoopInv'
  <2>1. pc'[x] = "answering"
    BY <1>4 DEF LoopInv, LoopTypeOK
  <2>2. ExchangeInv(x)' /\ ResultsInv(x)'
    BY <1>1, <1>2, <1>4, <2>1 DEF ExchangeInv, ResultsInv
  <2>3. QED
    BY <1>1, <1>3, <1>4, <2>2, MoveOfOne
<1>5. ASSUME pc' = [pc EXCEPT ![x] = "leaving"], StoreFails \/ turn[x].results = {}
      PROVE  LoopInv'
  <2>1. pc'[x] = "leaving"
    BY <1>5 DEF LoopInv, LoopTypeOK
  <2>2. ExchangeInv(x)'
    BY <2>1 DEF ExchangeInv
  <2>3. ResultsInv(x)'
    <3>1. CASE StoreFails
      BY <3>1 DEF ResultsInv
    <3>2. CASE turn[x].results = {}
      BY <1>1, <3>2 DEF ResultsInv
    <3>3. QED
      BY <1>5, <3>1, <3>2
  <2>4. QED
    BY <1>1, <1>3, <1>5, <2>2, <2>3, MoveOfOne
<1>6. CASE KeepAbandoned(x)
  <2>1. ASSUME NEW o \in Detached,
               pc' = [pc EXCEPT ![x] = IF o.ok /\ turn[x].results # {} THEN "answering"
                                                                      ELSE "leaving"]
        PROVE  LoopInv'
    <3>1. StoreFails \/ o.ok
      BY AcknowledgedLands
    <3>2. CASE o.ok /\ turn[x].results # {}
      BY <1>4, <2>1, <3>2
    <3>3. CASE ~(o.ok /\ turn[x].results # {})
      BY <1>5, <2>1, <3>1, <3>3
    <3>4. QED
      BY <3>2, <3>3
  <2>2. QED
    BY <1>6, <2>1 DEF KeepAbandoned
<1>7. CASE PersistOutOfBand(x)
  BY <1>7, <1>4, <1>5 DEF PersistOutOfBand
<1>8. CASE PersistNative(x)
  <2>1. turn[x].results = {}
    BY <1>8 DEF PersistNative, LoopInv, ExchangeInv
  <2>2. CASE pc' = [pc EXCEPT ![x] = "leaving"]
    BY <1>5, <2>1, <2>2
  <2>3. CASE pc' = [pc EXCEPT ![x] = "dispatching"] /\ turn[x].calls # {}
    <3>1. pc'[x] = "dispatching"
      BY <2>3 DEF LoopInv, LoopTypeOK
    <3>2. ExchangeInv(x)' /\ ResultsInv(x)'
      BY <1>1, <1>2, <2>3, <3>1 DEF ExchangeInv, ResultsInv
    <3>3. QED
      BY <1>1, <1>3, <2>3, <3>2, MoveOfOne
  <2>4. QED
    BY <1>8, <2>2, <2>3 DEF PersistNative
<1>9. QED
  BY <1>6, <1>7, <1>8

LEMMA DispatchKeeps ==
    ASSUME LoopInv, NEW x \in Exchanges, Dispatch(x) PROVE LoopInv'
<1> USE DEF Goto, loopRest, Waiting, Looping, Underway
<1>1. PICK stop \in BOOLEAN :
         turn' = [turn EXCEPT ![x].results = turn[x].calls, ![x].stop = stop]
  BY DEF Dispatch
<1>2. /\ pc[x] = "dispatching" /\ pc' = [pc EXCEPT ![x] = "answering"]
      /\ UNCHANGED <<iteration, history, outOfBand>>
  BY DEF Dispatch
<1>3. /\ turn[x] \in Turns /\ turn[x].calls # {} /\ iteration[x] \in 0 .. MaxIterations
      /\ iteration[x] < MaxIterations
  BY <1>2 DEF LoopInv, LoopTypeOK, ExchangeInv
<1> DEFINE t == [turn[x] EXCEPT !.results = turn[x].calls, !.stop = stop]
<1>4. t \in Turns /\ t.results = turn[x].calls
  BY <1>3 DEF Turns
<1>5. turn' = [turn EXCEPT ![x] = t]
  BY <1>1, <1>3 DEF LoopInv, LoopTypeOK
<1> HIDE DEF t
<1>6. pc'[x] = "answering" /\ turn'[x] = t /\ iteration'[x] = iteration[x]
  BY <1>2, <1>5 DEF LoopInv, LoopTypeOK
<1>7. ExchangeInv(x)' /\ ResultsInv(x)'
  BY <1>3, <1>4, <1>6 DEF ExchangeInv, ResultsInv
<1>8. iteration' = [iteration EXCEPT ![x] = iteration[x]]
  BY <1>2 DEF LoopInv, LoopTypeOK
<1>9. QED
  BY <1>2, <1>3, <1>4, <1>5, <1>7, <1>8, StepOfOne DEF Grows

\* appendToolResults: the loop goes on only with the results in the history.
LEMMA AnsweringKeeps ==
    ASSUME LoopInv, NEW x \in Exchanges, AppendResults(x) \/ RetryResults(x) PROVE LoopInv'
<1> USE DEF Goto, loopRest, Waiting, Looping, Underway
<1>1. /\ UNCHANGED <<turn, outOfBand>>
      /\ pc[x] \in {"answering", "retrying"}
  BY DEF AppendResults, RetryResults
<1>2. /\ turn[x] \in Turns /\ turn[x].results \in SUBSET CallIds /\ turn[x].results # {}
      /\ iteration[x] \in 0 .. MaxIterations /\ iteration[x] < MaxIterations
      /\ history \in Seq(StoredMessages)
  BY <1>1 DEF LoopInv, LoopTypeOK, ExchangeInv, Turns
<1>3. Answers(x) \in StoredMessages /\ AnsweredIn(Answers(x)) = turn[x].results
  BY <1>2, AnswersAnswer
<1>4. turn[x].results \subseteq AnsweredBy(Append(history, Answers(x)))
  BY <1>2, <1>3, AppendAnswers
<1>5. Grows
  BY <1>3 DEF AppendResults, RetryResults, AppendMessage, Grows
<1>6. ASSUME NextIteration(x), turn[x].results \subseteq AnsweredBy(history') PROVE LoopInv'
  <2>1. ResultsInv(x)'
    BY <1>1, <1>6 DEF ResultsInv
  <2>2. CASE pc' = [pc EXCEPT ![x] = "leaving"] /\ UNCHANGED iteration
    <3>1. pc'[x] = "leaving"
      BY <2>2 DEF LoopInv, LoopTypeOK
    <3>2. ExchangeInv(x)'
      BY <3>1 DEF ExchangeInv
    <3>3. QED
      BY <1>1, <1>5, <2>1, <2>2, <3>2, MoveOfOne
  <2>3. CASE pc' = [pc EXCEPT ![x] = "iterating"]
             /\ iteration' = [iteration EXCEPT ![x] = @ + 1]
    <3>1. pc'[x] = "iterating"
      BY <2>3 DEF LoopInv, LoopTypeOK
    <3>2. ExchangeInv(x)'
      BY <3>1 DEF ExchangeInv
    <3>3. /\ iteration[x] + 1 \in 0 .. MaxIterations
          /\ iteration' = [iteration EXCEPT ![x] = iteration[x] + 1]
          /\ turn' = [turn EXCEPT ![x] = turn[x]]
      BY <1>1, <1>2, <2>3, TurnsAssumption DEF LoopInv, LoopTypeOK
    <3>4. QED
      BY <1>1, <1>2, <1>5, <2>1, <2>3, <3>2, <3>3, StepOfOne
  <2>4. QED
    BY <1>6, <2>2, <2>3 DEF NextIteration
<1>7. CASE AppendResults(x)
  <2>1. PICK o \in (IF turn[x].how = "abandoned" THEN Detached ELSE OnContext(x)) :
           /\ AppendMessage(Answers(x), o)
           /\ IF o.ok THEN NextIteration(x) ELSE Goto(x, "retrying") /\ UNCHANGED iteration
    BY <1>7 DEF AppendResults
  <2>2. o.ok => o.landed
    BY AcknowledgedLands
  <2>3. CASE o.ok
    BY <1>4, <1>6, <2>1, <2>2, <2>3 DEF AppendMessage
  <2>4. CASE ~o.ok
    <3>1. pc' = [pc EXCEPT ![x] = "retrying"] /\ UNCHANGED iteration
      BY <2>1, <2>4
    <3>2. pc'[x] = "retrying"
      BY <3>1 DEF LoopInv, LoopTypeOK
    <3>3. ExchangeInv(x)' /\ ResultsInv(x)'
      BY <1>1, <1>2, <3>1, <3>2 DEF ExchangeInv, ResultsInv
    <3>4. QED
      BY <1>1, <1>5, <3>1, <3>3, MoveOfOne
  <2>5. QED
    BY <2>3, <2>4
<1>8. CASE RetryResults(x)
  <2>1. CASE /\ turn[x].results \subseteq AnsweredBy(history)
             /\ NextIteration(x) /\ UNCHANGED history
    BY <1>6, <2>1
  <2>2. ASSUME NEW o \in Detached, AppendMessage(Answers(x), o),
               IF o.ok THEN NextIteration(x) ELSE Goto(x, "leaving") /\ UNCHANGED iteration
        PROVE  LoopInv'
    <3>1. (o.ok => o.landed) /\ (StoreFails \/ o.ok)
      BY AcknowledgedLands
    <3>2. CASE o.ok
      BY <1>4, <1>6, <2>2, <3>1, <3>2 DEF AppendMessage
    <3>3. CASE ~o.ok
      <4>1. pc' = [pc EXCEPT ![x] = "leaving"] /\ UNCHANGED iteration
        BY <2>2, <3>3
      <4>2. pc'[x] = "leaving" /\ StoreFails
        BY <3>1, <3>3, <4>1 DEF LoopInv, LoopTypeOK
      <4>3. ExchangeInv(x)'
        BY <4>2 DEF ExchangeInv
      <4>4. ResultsInv(x)'
        BY <4>2 DEF ResultsInv
      <4>5. QED
        BY <1>1, <1>5, <4>1, <4>3, <4>4, MoveOfOne
    <3>4. QED
      BY <3>2, <3>3
  <2>3. QED
    BY <1>8, <2>1, <2>2 DEF RetryResults
<1>9. QED
  BY <1>7, <1>8

\* What happens beside the loops appends at most one message.
LEMMA StepBeside ==
    ASSUME LoopInv, Grows, UNCHANGED <<outOfBand, loopVars>> PROVE LoopInv'
<1>1. history' \in Seq(StoredMessages) /\ AnsweredBy(history) \subseteq AnsweredBy(history')
  BY GrowingKeeps DEF LoopInv, LoopTypeOK
<1>2. LoopTypeOK'
  BY <1>1 DEF LoopInv, LoopTypeOK, loopVars
<1>3. ASSUME NEW y \in Exchanges PROVE ExchangeInv(y)' /\ ResultsInv(y)'
  <2>1. ExchangeInv(y) /\ ResultsInv(y) /\ UNCHANGED <<pc, iteration, turn, outOfBand>>
    BY DEF LoopInv, loopVars
  <2>2. ExchangeInv(y)'
    BY <2>1 DEF ExchangeInv
  <2>3. ResultsInv(y)'
    BY <1>1, <2>1, Zenon DEF ResultsInv
  <2>4. QED
    BY <2>2, <2>3
<1>4. QED
  BY <1>2, <1>3 DEF LoopInv

LEMMA InitLoopInv == Init => LoopInv
<1> SUFFICES ASSUME Init PROVE LoopInv
  OBVIOUS
<1>1. NoTurn \in Turns /\ NoTurn.results = {}
  BY DEF NoTurn, Turns
<1>2. LoopTypeOK
  BY <1>1, TurnsAssumption DEF Init, LoopTypeOK, Waiting
<1>3. ASSUME NEW x \in Exchanges PROVE ExchangeInv(x) /\ ResultsInv(x)
  BY <1>1 DEF Init, ExchangeInv, ResultsInv, Underway
<1>4. QED
  BY <1>2, <1>3 DEF LoopInv

LEMMA LoopInvStep == ASSUME LoopInv, [Next]_vars PROVE LoopInv'
<1>1. ASSUME NEW x \in Exchanges, ExchangeStep(x) PROVE LoopInv'
  <2>1. CASE CloseExchange(x)
    BY <2>1, StepBeside DEF CloseExchange, otherVars, Grows
  <2>2. QED
    BY <1>1, <2>1, BetweenTurnsKeeps, ConsumeKeeps, PersistKeeps, DispatchKeeps,
       AnsweringKeeps DEF ExchangeStep
<1>2. ASSUME NEW x \in Exchanges, CancelExchange(x) PROVE LoopInv'
  BY <1>2, StepBeside DEF CancelExchange, otherVars, Grows
<1>3. ASSUME NEW n \in Noters, NoteFallsDue(n) \/ SettingsChange(n) PROVE LoopInv'
  BY <1>3, StepBeside DEF NoteFallsDue, SettingsChange, otherVars, Grows
<1>4. ASSUME NEW n \in Noters, AppendNote(n) PROVE LoopInv'
  <2>1. Grows
    BY <1>4, TextsAreMessages DEF AppendNote, AppendMessage, Grows
  <2>2. QED
    BY <1>4, <2>1, StepBeside DEF AppendNote
<1>5. CASE UNCHANGED vars
  BY <1>5, StepBeside DEF vars, Grows
<1>6. QED
  BY <1>1, <1>2, <1>3, <1>4, <1>5, RequestsKeepLoops DEF Next

\* A cancelled turn's results are in the history when it is over.
THEOREM ResultsOutlive == Spec => []ResultsOutliveTheTurn
<1>1. LoopInv => ResultsOutliveTheTurn
  BY DEF LoopInv, ResultsInv, ResultsOutliveTheTurn, Underway
<1>2. QED
  BY <1>1, InitLoopInv, LoopInvStep, PTL DEF Spec

-----------------------------------------------------------------------------
(* Types. *)

\* What LoopTypeOK leaves of TypeOK.
SharedTypeOK ==
    /\ RegistryTypeOK
    /\ outOfBand \in BOOLEAN
    /\ announced \in BOOLEAN
    /\ used \in Nat
    /\ unchecked \subseteq Exchanges
    /\ note \in [Noters -> {"none", "due", "written"}]
    /\ latest \in Exchanges \union {NoExchange}

LEMMA SharedTypeStep == ASSUME SharedTypeOK, [Next]_vars PROVE SharedTypeOK'
<1> USE DEF SharedTypeOK, RegistryTypeOK
<1>1. ASSUME NEW x \in Exchanges, RequestStep(x) PROVE SharedTypeOK'
  BY <1>1 DEF RequestStep, CheckIdle, Admit, StoreMessage, BeginTurn, BeginConfirm, Begin,
              registryVars, requestRest
<1>2. ASSUME NEW x \in Exchanges, ExchangeStep(x) PROVE SharedTypeOK'
  <2>1. CASE TellOutcome(x)
    BY <2>1 DEF TellOutcome, registryVars, requestRest
  <2>2. CASE Announce(x)
    <3>1. UNCHANGED <<loopRest, used, unchecked>>
      BY <2>2 DEF Announce
    <3>2. announced' \in BOOLEAN
      <4>1. ASSUME NEW o \in OnContext(x) PROVE o.landed \in BOOLEAN
        <5>1. o \in {[landed |-> TRUE, ok |-> TRUE], [landed |-> FALSE, ok |-> FALSE],
                     [landed |-> TRUE, ok |-> FALSE]}
          BY DEF OnContext, Landings
        <5>2. o.landed = TRUE \/ o.landed = FALSE
          BY <5>1
        <5>3. QED
          BY <5>2
      <4>2. announced' = announced \/ \E o \in OnContext(x) : announced' = o.landed
        BY <2>2 DEF Announce
      <4>3. QED
        BY <4>1, <4>2
    <3>3. QED
      BY <3>1, <3>2 DEF registryVars, loopRest
  <2>3. CASE CallProvider(x) \/ CallFails(x) \/ GiveUpLooping(x)
    BY <2>3 DEF CallProvider, CallFails, GiveUpLooping, registryVars, loopRest
  <2>4. CASE Consume(x)
    BY <2>4 DEF Consume, registryVars, loopRest
  <2>5. CASE KeepAbandoned(x) \/ PersistOutOfBand(x) \/ PersistNative(x) \/ Dispatch(x)
    BY <2>5 DEF KeepAbandoned, PersistOutOfBand, PersistNative, Dispatch, registryVars, loopRest
  <2>6. CASE AppendResults(x) \/ RetryResults(x)
    BY <2>6 DEF AppendResults, RetryResults, registryVars, loopRest
  <2>7. CASE Finish(x)
    BY <2>7 DEF Finish, Deregister, requestRest
  <2>8. CASE CloseExchange(x)
    BY <2>8 DEF CloseExchange, Close, otherVars
  <2>9. QED
    BY <1>2, <2>1, <2>2, <2>3, <2>4, <2>5, <2>6, <2>7, <2>8 DEF ExchangeStep
<1>3. ASSUME NEW x \in Exchanges, CancelExchange(x) PROVE SharedTypeOK'
  BY <1>3 DEF CancelExchange, Cancel, otherVars
<1>4. ASSUME NEW n \in Noters, NoteFallsDue(n) \/ AppendNote(n) \/ SettingsChange(n)
      PROVE  SharedTypeOK'
  BY <1>4 DEF NoteFallsDue, AppendNote, SettingsChange, registryVars, otherVars
<1>5. CASE UNCHANGED vars
  BY <1>5 DEF vars, registryVars
<1>6. QED
  BY <1>1, <1>2, <1>3, <1>4, <1>5 DEF Next

\* In every state the variables have their types, and no stored message is empty.
THEOREM TurnsTypeCorrect == Spec => []TypeOK
<1>1. Init => SharedTypeOK
  <2> SUFFICES ASSUME Init PROVE SharedTypeOK
    OBVIOUS
  <2>1. RegistryTypeOK
    BY DEF Init, RegistryTypeOK
  <2>2. /\ outOfBand \in BOOLEAN /\ announced \in BOOLEAN
        /\ used \in Nat /\ unchecked \subseteq Exchanges
    BY DEF Init
  <2>3. /\ note \in [Noters -> {"none", "due", "written"}]
        /\ latest \in Exchanges \union {NoExchange}
    BY DEF Init
  <2>4. QED
    BY <2>1, <2>2, <2>3 DEF SharedTypeOK
<1>2. SharedTypeOK /\ LoopInv => TypeOK
  <2> SUFFICES ASSUME SharedTypeOK, LoopInv PROVE TypeOK
    OBVIOUS
  <2>1. \A m \in ToSet(history) : m \in StoredMessages
    BY DEF LoopInv, LoopTypeOK, ToSet
  <2>2. \A m \in ToSet(history) : m.role \in {"user", "assistant"} /\ m.content # <<>>
    BY <2>1 DEF StoredMessages
  <2>3. QED
    BY <2>2 DEF SharedTypeOK, LoopInv, LoopTypeOK, Turns, TypeOK
<1>3. QED
  BY <1>1, <1>2, InitLoopInv, LoopInvStep, SharedTypeStep, PTL DEF Spec

-----------------------------------------------------------------------------
(* The rendered request. *)

\* Whatever is in the history, the request rendered from it answers every call.
THEOREM RequestsAlwaysAnswer == Spec => []RequestsAnswerEveryCall
<1>1. LoopInv => RequestsAnswerEveryCall
  <2> SUFFICES ASSUME LoopInv PROVE RequestsAnswerEveryCall
    OBVIOUS
  <2>1. StoredMessages \subseteq MessagesOf(CallIds)
    BY DEF StoredMessages, MessagesOf
  <2>2. history \in Seq(MessagesOf(CallIds))
    BY <2>1 DEF LoopInv, LoopTypeOK
  <2>3. QED
    BY <2>2, RenderAnswersEveryCall DEF RequestsAnswerEveryCall
<1>2. QED
  BY <1>1, InitLoopInv, LoopInvStep, PTL DEF Spec

-----------------------------------------------------------------------------
(* The results of one call are stored once. *)

\* Where an exchange's iteration is over for the call it may have made.
Answered == {"retrying", "leaving", "over"}

\* A turn under way holds the one call of its iteration.
TurnIds(x) ==
    pc[x] \in Underway => turn[x].calls \subseteq Calls(x) /\ turn[x].results \subseteq Calls(x)

\* A call whose results are stored belongs to an iteration that is past, or past storing.
Spent(id) ==
    /\ id[2] <= iteration[id[1]]
    /\ id[2] = iteration[id[1]] => pc[id[1]] \in Answered

StoredOnce(h) ==
    \A i, j \in DOMAIN h : AnsweredIn(h[i]) \intersect AnsweredIn(h[j]) # {} => i = j

OnceInv ==
    /\ \A x \in Exchanges : TurnIds(x)
    /\ \A id \in AnsweredBy(history) : Spent(id)
    /\ StoredOnce(history)

\* Only calls are answered.
LEMMA AnsweredAreCalls ==
    ASSUME NEW h \in Seq(StoredMessages) PROVE AnsweredBy(h) \subseteq CallIds
<1>1. ASSUME NEW m \in StoredMessages PROVE AnsweredIn(m) \subseteq CallIds
  <2>1. m.content \in Seq(BlocksOf(CallIds))
    BY DEF StoredMessages
  <2>2. ToSet(m.content) \subseteq BlocksOf(CallIds)
    BY <2>1, ToSetIsFinite
  <2>3. QED
    BY <2>2 DEF AnsweredIn, BlocksOf
<1>2. ToSet(h) \subseteq StoredMessages
  BY ToSetIsFinite
<1>3. QED
  BY <1>1, <1>2 DEF AnsweredBy

\* Texts and assistant turns answer nothing.
LEMMA TextsAnswerNothing ==
    /\ AnsweredIn(UserMessage(<<Text>>)) = {}
    /\ \A calls \in SUBSET CallIds : AnsweredIn(Said(calls)) = {}
<1>1. ToSet(<<Text>>) = {Text} /\ Text.kind = "text"
  BY DEF ToSet, Text
<1>2. ASSUME NEW m, m.content = <<Text>> PROVE AnsweredIn(m) = {}
  BY <1>1, <1>2 DEF AnsweredIn
<1>3. ASSUME NEW calls \in SUBSET CallIds, calls # {} PROVE AnsweredIn(Said(calls)) = {}
  <2> DEFINE blocks == {Call(id) : id \in calls}
             f == [id \in calls |-> Call(id)]
  <2>1. IsFiniteSet(calls)
    BY CallIdsAreFinite, FS_Subset
  <2>2. f \in Surjection(calls, blocks)
    BY DEF Surjection
  <2>3. IsFiniteSet(blocks)
    BY <2>1, <2>2, FS_Surjection
  <2>4. ToSet(SetToSeq(blocks)) = blocks
    BY <2>3, SetToSeqHasAll
  <2>5. \A b \in blocks : b.kind # "tool_result"
    BY DEF Call
  <2>6. Said(calls).content = SetToSeq(blocks)
    BY <1>3 DEF Said, AssistantMessage
  <2> HIDE DEF blocks
  <2>7. QED
    BY <2>4, <2>5, <2>6 DEF AnsweredIn
<1>4. QED
  BY <1>2, <1>3 DEF UserMessage, Said, AssistantMessage

\* A message that answers nothing answered before leaves every call stored once.
LEMMA AppendFresh ==
    ASSUME NEW h \in Seq(StoredMessages), NEW m \in StoredMessages, StoredOnce(h),
           AnsweredIn(m) \intersect AnsweredBy(h) = {}
    PROVE  /\ StoredOnce(Append(h, m))
           /\ AnsweredBy(Append(h, m)) = AnsweredBy(h) \union AnsweredIn(m)
<1> DEFINE g == Append(h, m)
<1>1. /\ DOMAIN h = 1 .. Len(h) /\ Len(h) \in Nat /\ DOMAIN g = 1 .. (Len(h) + 1)
      /\ \A i \in 1 .. Len(h) : g[i] = h[i]
      /\ g[Len(h) + 1] = m
  OBVIOUS
<1> HIDE DEF g
<1>2. ToSet(g) = ToSet(h) \union {m}
  BY <1>1 DEF ToSet
<1>3. AnsweredBy(g) = AnsweredBy(h) \union AnsweredIn(m)
  BY <1>2 DEF AnsweredBy
<1>4. \A i \in 1 .. Len(h) : AnsweredIn(h[i]) \subseteq AnsweredBy(h)
  BY <1>1 DEF AnsweredBy, ToSet
<1>5. ASSUME NEW i \in DOMAIN g, NEW j \in DOMAIN g,
             AnsweredIn(g[i]) \intersect AnsweredIn(g[j]) # {}
      PROVE  i = j
  <2>1. CASE i \in 1 .. Len(h) /\ j \in 1 .. Len(h)
    BY <1>1, <1>5, <2>1 DEF StoredOnce
  <2>2. CASE i \in 1 .. Len(h) /\ j = Len(h) + 1
    BY <1>1, <1>4, <1>5, <2>2
  <2>3. CASE i = Len(h) + 1 /\ j \in 1 .. Len(h)
    BY <1>1, <1>4, <1>5, <2>3
  <2>4. CASE i = Len(h) + 1 /\ j = Len(h) + 1
    BY <2>4
  <2>5. QED
    BY <1>1, <2>1, <2>2, <2>3, <2>4
<1>6. QED
  BY <1>3, <1>5 DEF g, StoredOnce

\* The history stays as it is, or a message that answers nothing is appended.
Quiet ==
    \/ history' = history
    \/ \E m \in StoredMessages : AnsweredIn(m) = {} /\ history' = Append(history, m)

LEMMA QuietKeeps ==
    ASSUME history \in Seq(StoredMessages), StoredOnce(history), Quiet
    PROVE  StoredOnce(history') /\ AnsweredBy(history') = AnsweredBy(history)
<1>1. CASE history' = history
  BY <1>1
<1>2. ASSUME NEW m \in StoredMessages, AnsweredIn(m) = {}, history' = Append(history, m)
      PROVE  StoredOnce(history') /\ AnsweredBy(history') = AnsweredBy(history)
  BY <1>2, AppendFresh
<1>3. QED
  BY <1>1, <1>2 DEF Quiet

\* A step of the exchange x: what it stores belongs to its own iteration, and then that
\* iteration is past storing.
LEMMA OnceStepOfOne ==
    ASSUME LoopTypeOK, LoopTypeOK', OnceInv, NEW x \in Exchanges,
           NEW label, NEW i \in Nat, NEW t,
           pc' = [pc EXCEPT ![x] = label], iteration' = [iteration EXCEPT ![x] = i],
           turn' = [turn EXCEPT ![x] = t], TurnIds(x)', StoredOnce(history'),
           AnsweredBy(history') \subseteq AnsweredBy(history) \union Calls(x),
           \/ i = iteration[x] + 1
           \/ i = iteration[x] /\ label \in Answered
           \/ /\ i = iteration[x] /\ pc[x] \notin Answered
              /\ AnsweredBy(history') = AnsweredBy(history)
    PROVE  OnceInv'
<1>1. pc'[x] = label /\ iteration'[x] = i /\ iteration[x] \in Nat
  BY TurnsAssumption DEF LoopTypeOK
<1>2. ASSUME NEW y \in Exchanges, y # x
      PROVE  pc'[y] = pc[y] /\ iteration'[y] = iteration[y] /\ turn'[y] = turn[y]
  BY <1>2 DEF LoopTypeOK
<1>3. ASSUME NEW y \in Exchanges PROVE TurnIds(y)'
  <2>1. CASE y # x
    BY <1>2, <2>1 DEF OnceInv, TurnIds, Calls
  <2>2. QED
    BY <2>1
<1>4. ASSUME NEW id \in AnsweredBy(history') PROVE Spent(id)'
  <2>1. id \in CallIds
    BY AnsweredAreCalls DEF LoopTypeOK
  <2>2. id[1] \in Exchanges /\ id[2] \in Nat /\ id = <<id[1], id[2]>>
    BY <2>1, TurnsAssumption DEF CallIds
  <2>3. CASE id[1] # x
    <3>1. id \notin Calls(x)
      BY <2>2, <2>3 DEF Calls, CallId
    <3>2. Spent(id)
      BY <3>1 DEF OnceInv
    <3>3. QED
      BY <1>2, <2>2, <2>3, <3>2 DEF Spent
  <2>4. CASE id[1] = x
    <3>1. id[2] <= iteration[x]
      <4>1. CASE id \in Calls(x)
        BY <1>1, <4>1 DEF Calls, CallId
      <4>2. CASE id \in AnsweredBy(history)
        BY <2>4, <4>2 DEF OnceInv, Spent
      <4>3. QED
        BY <4>1, <4>2
    <3>2. CASE i = iteration[x] + 1
      BY <1>1, <2>2, <2>4, <3>1, <3>2 DEF Spent
    <3>3. CASE i = iteration[x] /\ label \in Answered
      BY <1>1, <2>4, <3>1, <3>3 DEF Spent
    <3>4. CASE /\ i = iteration[x] /\ pc[x] \notin Answered
               /\ AnsweredBy(history') = AnsweredBy(history)
      <4>1. Spent(id)
        BY <3>4 DEF OnceInv
      <4>2. id[2] # iteration[x]
        BY <2>4, <3>4, <4>1 DEF Spent
      <4>3. QED
        BY <1>1, <2>4, <3>1, <3>4, <4>2 DEF Spent
    <3>5. QED
      BY <3>2, <3>3, <3>4
  <2>5. QED
    BY <2>3, <2>4
<1>5. QED
  BY <1>3, <1>4 DEF OnceInv

\* A step that stores no results and leaves the exchange outside of its turn.
LEMMA OnceQuietMove ==
    ASSUME LoopTypeOK, LoopTypeOK', OnceInv, NEW x \in Exchanges, NEW label, Quiet,
           pc' = [pc EXCEPT ![x] = label], UNCHANGED <<iteration, turn>>,
           pc[x] \notin Answered, label \in Underway => pc[x] \in Underway
    PROVE  OnceInv'
<1>1. StoredOnce(history') /\ AnsweredBy(history') = AnsweredBy(history)
  BY QuietKeeps DEF LoopTypeOK, OnceInv
<1>2. /\ iteration[x] \in Nat /\ iteration' = [iteration EXCEPT ![x] = iteration[x]]
      /\ turn' = [turn EXCEPT ![x] = turn[x]] /\ pc'[x] = label
  BY TurnsAssumption DEF LoopTypeOK
<1>3. TurnIds(x)'
  BY <1>2 DEF OnceInv, TurnIds, Calls
<1>4. QED
  BY <1>1, <1>2, <1>3, OnceStepOfOne

LEMMA OnceBetweenTurns ==
    ASSUME LoopTypeOK, LoopTypeOK', OnceInv, NEW x \in Exchanges,
           RequestStep(x) \/ TellOutcome(x) \/ Announce(x) \/ CallProvider(x) \/ CallFails(x)
           \/ GiveUpLooping(x)
    PROVE  OnceInv'
<1> USE DEF Goto, requestRest, loopRest, Underway, Answered
<1>1. Quiet
  <2>1. UserMessage(<<Text>>) \in StoredMessages /\ AnsweredIn(UserMessage(<<Text>>)) = {}
    BY TextsAreMessages, TextsAnswerNothing
  <2>2. ASSUME NEW o, AppendMessage(UserMessage(<<Text>>), o) PROVE Quiet
    BY <2>1, <2>2 DEF AppendMessage, Quiet
  <2>3. CASE RequestStep(x)
    BY <2>2, <2>3 DEF RequestStep, CheckIdle, Admit, StoreMessage, BeginTurn, BeginConfirm, Quiet
  <2>4. CASE TellOutcome(x) \/ Announce(x)
    BY <2>2, <2>4 DEF TellOutcome, Announce, Quiet
  <2>5. CASE CallProvider(x) \/ CallFails(x) \/ GiveUpLooping(x)
    BY <2>5 DEF CallProvider, CallFails, GiveUpLooping, Quiet
  <2>6. QED
    BY <2>3, <2>4, <2>5
<1>2. /\ UNCHANGED <<iteration, turn>>
      /\ pc[x] \in {"asked", "idle", "admitted", "titled", "iterating", "ready"}
  BY DEF RequestStep, CheckIdle, Admit, StoreMessage, BeginTurn, BeginConfirm, TellOutcome,
         Announce, CallProvider, CallFails, GiveUpLooping
<1>3. PICK label \in {"refused", "idle", "admitted", "titled", "iterating", "ready",
                      "streaming", "leaving"} : pc' = [pc EXCEPT ![x] = label]
  BY DEF RequestStep, CheckIdle, Admit, StoreMessage, BeginTurn, BeginConfirm, TellOutcome,
         Announce, CallProvider, CallFails, GiveUpLooping
<1>4. QED
  BY <1>1, <1>2, <1>3, OnceQuietMove

LEMMA OnceTurns ==
    ASSUME LoopTypeOK, LoopTypeOK', OnceInv, NEW x \in Exchanges,
           \/ Consume(x) \/ KeepAbandoned(x) \/ PersistOutOfBand(x) \/ PersistNative(x)
           \/ Dispatch(x) \/ Finish(x)
    PROVE  OnceInv'
<1> USE DEF Goto, loopRest, Underway, Answered
<1>1. /\ turn[x] \in Turns /\ iteration[x] \in Nat
      /\ \A l : pc' = [pc EXCEPT ![x] = l] => pc'[x] = l
      /\ \A t : turn' = [turn EXCEPT ![x] = t] => turn'[x] = t
      /\ UNCHANGED iteration => iteration' = [iteration EXCEPT ![x] = iteration[x]]
  BY TurnsAssumption DEF LoopTypeOK
<1>2. UNCHANGED history => StoredOnce(history') /\ AnsweredBy(history') = AnsweredBy(history)
  BY DEF OnceInv
<1>3. CASE Consume(x)
  <2>1. PICK t : /\ turn' = [turn EXCEPT ![x] = t]
                 /\ t.calls \subseteq Calls(x) /\ t.results \subseteq t.calls
    <3>1. PICK calls \in {{}, Calls(x)}, how \in {"done", "cut_off", "abandoned"} :
             \E results \in (IF outOfBand THEN SUBSET calls ELSE {{}}) :
                turn' = [turn EXCEPT ![x] = [calls |-> calls, results |-> results,
                                             how |-> how, stop |-> FALSE]]
      BY <1>3 DEF Consume
    <3>2. PICK results \in (IF outOfBand THEN SUBSET calls ELSE {{}}) :
             turn' = [turn EXCEPT ![x] = [calls |-> calls, results |-> results,
                                          how |-> how, stop |-> FALSE]]
      BY <3>1
    <3> DEFINE t == [calls |-> calls, results |-> results, how |-> how, stop |-> FALSE]
    <3>3. t.calls \subseteq Calls(x) /\ t.results \subseteq t.calls
      OBVIOUS
    <3>4. turn' = [turn EXCEPT ![x] = t]
      BY <3>2
    <3> HIDE DEF t
    <3>5. QED
      BY <3>3, <3>4
  <2>2. PICK label \in {"keeping", "persisting"} : pc' = [pc EXCEPT ![x] = label]
    BY <1>3 DEF Consume
  <2>3. pc[x] = "streaming" /\ UNCHANGED <<iteration, history>>
    BY <1>3 DEF Consume
  <2>4. TurnIds(x)'
    BY <1>1, <2>1, <2>3 DEF TurnIds, Calls
  <2>5. QED
    BY <1>1, <1>2, <2>1, <2>2, <2>3, <2>4, OnceStepOfOne
<1>4. CASE KeepAbandoned(x) \/ PersistOutOfBand(x) \/ PersistNative(x)
  <2>1. PICK label : pc' = [pc EXCEPT ![x] = label]
    BY <1>4 DEF KeepAbandoned, PersistOutOfBand, PersistNative
  <2>2. pc[x] \in {"keeping", "persisting"} /\ UNCHANGED <<iteration, turn>>
    BY <1>4 DEF KeepAbandoned, PersistOutOfBand, PersistNative
  <2>3. turn[x].calls \in SUBSET CallIds
    BY <1>1 DEF Turns
  <2>4. PICK calls \in SUBSET CallIds : \E o : PersistAssistant(calls, o)
    BY <1>4, <2>3 DEF KeepAbandoned, PersistOutOfBand, PersistNative
  <2>5. Quiet
    BY <2>4, TextsAreMessages, TextsAnswerNothing DEF PersistAssistant, AppendMessage, Quiet
  <2>6. QED
    BY <2>1, <2>2, <2>5, OnceQuietMove
<1>5. CASE Dispatch(x)
  <2>1. PICK stop \in BOOLEAN :
           turn' = [turn EXCEPT ![x].results = turn[x].calls, ![x].stop = stop]
    BY <1>5 DEF Dispatch
  <2> DEFINE t == [turn[x] EXCEPT !.results = turn[x].calls, !.stop = stop]
  <2>2. turn' = [turn EXCEPT ![x] = t] /\ t.calls = turn[x].calls /\ t.results = turn[x].calls
    BY <1>1, <2>1 DEF LoopTypeOK, Turns
  <2> HIDE DEF t
  <2>3. /\ pc[x] = "dispatching" /\ pc' = [pc EXCEPT ![x] = "answering"]
        /\ UNCHANGED <<iteration, history>>
    BY <1>5 DEF Dispatch
  <2>4. turn[x].calls \subseteq Calls(x)
    BY <2>3 DEF OnceInv, TurnIds
  <2>5. TurnIds(x)'
    BY <1>1, <2>2, <2>3, <2>4 DEF TurnIds, Calls
  <2>6. QED
    BY <1>1, <1>2, <2>2, <2>3, <2>5, OnceStepOfOne
<1>6. CASE Finish(x)
  <2>1. PICK t : turn' = [turn EXCEPT ![x] = t]
    BY <1>6 DEF Finish
  <2>2. pc[x] = "leaving" /\ pc' = [pc EXCEPT ![x] = "over"] /\ UNCHANGED <<iteration, history>>
    BY <1>6 DEF Finish
  <2>3. TurnIds(x)'
    BY <1>1, <2>2 DEF TurnIds
  <2>4. QED
    BY <1>1, <1>2, <2>1, <2>2, <2>3, OnceStepOfOne
<1>7. QED
  BY <1>3, <1>4, <1>5, <1>6

\* appendToolResults: a retry stores the results only when the first attempt did not.
LEMMA OnceAnswering ==
    ASSUME LoopInv, LoopTypeOK', OnceInv, ~StoreFails, NEW x \in Exchanges,
           AppendResults(x) \/ RetryResults(x)
    PROVE  OnceInv'
<1> USE DEF Goto, loopRest
<1>1. /\ UNCHANGED turn /\ pc[x] \in {"answering", "retrying"}
      /\ pc[x] = "answering" <=> AppendResults(x)
  BY DEF AppendResults, RetryResults
<1>2. /\ turn[x] \in Turns /\ turn[x].results \in SUBSET CallIds /\ turn[x].results # {}
      /\ iteration[x] \in Nat /\ history \in Seq(StoredMessages) /\ LoopTypeOK
      /\ turn' = [turn EXCEPT ![x] = turn[x]]
  BY <1>1, TurnsAssumption DEF LoopInv, LoopTypeOK, ExchangeInv, Turns
<1>3. Answers(x) \in StoredMessages /\ AnsweredIn(Answers(x)) = turn[x].results
  BY <1>2, AnswersAnswer
<1>4. turn[x].results = Calls(x) /\ Calls(x) = {<<x, iteration[x]>>}
  BY <1>1, <1>2 DEF OnceInv, TurnIds, Underway, Calls, CallId
<1>5. \/ history' = history
      \/ /\ history' = Append(history, Answers(x))
         /\ turn[x].results \intersect AnsweredBy(history) = {}
  <2>1. CASE AppendResults(x)
    <3>1. turn[x].results \intersect AnsweredBy(history) = {}
      BY <1>1, <1>4, <2>1 DEF OnceInv, Spent, Answered
    <3>2. QED
      BY <2>1, <3>1 DEF AppendResults, AppendMessage
  <2>2. CASE RetryResults(x)
    BY <1>4, <2>2 DEF RetryResults, AppendMessage
  <2>3. QED
    BY <2>1, <2>2
<1>6. /\ StoredOnce(history')
      /\ AnsweredBy(history') \subseteq AnsweredBy(history) \union Calls(x)
  BY <1>2, <1>3, <1>4, <1>5, AppendFresh DEF OnceInv
<1>7. \/ pc' = [pc EXCEPT ![x] = "iterating"] /\ iteration' = [iteration EXCEPT ![x] = @ + 1]
      \/ \E label \in {"retrying", "leaving"} :
            pc' = [pc EXCEPT ![x] = label] /\ UNCHANGED iteration
  BY DEF AppendResults, RetryResults, NextIteration
<1>8. CASE /\ pc' = [pc EXCEPT ![x] = "iterating"]
           /\ iteration' = [iteration EXCEPT ![x] = @ + 1]
  <2>1. /\ iteration' = [iteration EXCEPT ![x] = iteration[x] + 1]
        /\ pc' = [pc EXCEPT ![x] = "iterating"] /\ pc'[x] = "iterating"
        /\ iteration[x] + 1 \in Nat
    BY <1>2, <1>8 DEF LoopTypeOK
  <2>2. TurnIds(x)'
    BY <2>1 DEF TurnIds, Underway
  <2>3. QED
    BY <1>2, <1>6, <2>1, <2>2, OnceStepOfOne
<1>9. ASSUME NEW label \in {"retrying", "leaving"}, pc' = [pc EXCEPT ![x] = label],
             UNCHANGED iteration
      PROVE  OnceInv'
  <2>1. TurnIds(x)
    BY DEF OnceInv
  <2>2. TurnIds(x)'
    BY <1>1, <1>2, <1>9, <2>1 DEF TurnIds, Calls, Underway, LoopTypeOK
  <2>3. iteration' = [iteration EXCEPT ![x] = iteration[x]]
    BY <1>2, <1>9 DEF LoopTypeOK
  <2>4. label \in Answered
    BY <1>9 DEF Answered
  <2>5. QED
    BY <1>2, <1>6, <1>9, <2>2, <2>3, <2>4, OnceStepOfOne
<1>10. QED
  BY <1>7, <1>8, <1>9

LEMMA OnceBeside ==
    ASSUME LoopTypeOK, OnceInv, Quiet, UNCHANGED loopVars PROVE OnceInv'
<1>1. StoredOnce(history') /\ AnsweredBy(history') = AnsweredBy(history)
  BY QuietKeeps DEF LoopTypeOK, OnceInv
<1>2. QED
  BY <1>1 DEF OnceInv, TurnIds, Spent, Calls, loopVars

LEMMA OnceInvStep ==
    ASSUME LoopInv, LoopInv', OnceInv, ~StoreFails, [Next]_vars PROVE OnceInv'
<1>1. LoopTypeOK /\ LoopTypeOK'
  BY DEF LoopInv
<1>2. ASSUME NEW x \in Exchanges, ExchangeStep(x) PROVE OnceInv'
  <2>1. CASE CloseExchange(x)
    BY <1>1, <2>1, OnceBeside DEF CloseExchange, otherVars, Quiet
  <2>2. QED
    BY <1>1, <1>2, <2>1, OnceBetweenTurns, OnceTurns, OnceAnswering DEF ExchangeStep
<1>3. ASSUME NEW x \in Exchanges, CancelExchange(x) PROVE OnceInv'
  BY <1>1, <1>3, OnceBeside DEF CancelExchange, otherVars, Quiet
<1>4. ASSUME NEW n \in Noters, NoteFallsDue(n) \/ SettingsChange(n) PROVE OnceInv'
  BY <1>1, <1>4, OnceBeside DEF NoteFallsDue, SettingsChange, otherVars, Quiet
<1>5. ASSUME NEW n \in Noters, AppendNote(n) PROVE OnceInv'
  <2>1. Quiet
    BY <1>5, TextsAreMessages, TextsAnswerNothing DEF AppendNote, AppendMessage, Quiet
  <2>2. QED
    BY <1>1, <1>5, <2>1, OnceBeside DEF AppendNote
<1>6. CASE UNCHANGED vars
  BY <1>1, <1>6, OnceBeside DEF vars, Quiet
<1>7. QED
  BY <1>1, <1>2, <1>3, <1>4, <1>5, <1>6, OnceBetweenTurns DEF Next

\* Unless the database fails its reads, the retry that saves a cancelled write never
\* stores the results of one call twice.
THEOREM ResultsStoredOnce == Spec => []ResultsAreStoredOnce
<1>1. Init => LoopInv /\ (StoreFails \/ OnceInv)
  <2> SUFFICES ASSUME Init PROVE OnceInv
    BY InitLoopInv
  <2>1. AnsweredBy(history) = {} /\ DOMAIN history = {}
    BY DEF Init, AnsweredBy, ToSet
  <2>2. QED
    BY <2>1 DEF Init, OnceInv, TurnIds, StoredOnce, Underway
<1>2. LoopInv /\ (StoreFails \/ OnceInv) /\ [Next]_vars
      => LoopInv' /\ (StoreFails \/ OnceInv)'
  BY LoopInvStep, OnceInvStep
<1>3. StoreFails \/ OnceInv => ResultsAreStoredOnce
  BY DEF OnceInv, StoredOnce, ResultsAreStoredOnce
<1>4. QED
  BY <1>1, <1>2, <1>3, PTL DEF Spec

-----------------------------------------------------------------------------
(* Every request and its exchange wind down.                                *)

\* The steps that are left of an iteration, and of what comes before the loop.
Place == [asked |-> 13, idle |-> 12, admitted |-> 11, titled |-> 10, iterating |-> 9,
          ready |-> 8, streaming |-> 7, keeping |-> 6, persisting |-> 6,
          dispatching |-> 5, answering |-> 4, retrying |-> 3, leaving |-> 2]

\* At most how many steps a request and its exchange can still take: seven of each
\* iteration that is left.
StepsLeft(x) ==
    IF pc[x] = "refused" THEN 0
    ELSE IF pc[x] = "over" THEN IF x \in closed THEN 0 ELSE 1
    ELSE 7 * (MaxIterations - iteration[x]) + Place[pc[x]]

MostSteps == 7 * MaxIterations + 13

\* The steps are finitely many from the start, and an exchange that has begun and is
\* not closed has one to take.
StepsAreBounded ==
    \A x \in Exchanges : /\ StepsLeft(x) \in 0 .. MostSteps
                         /\ x \in begun \ closed => StepsLeft(x) > 0

\* Every step of a request or its exchange takes one away at least, and nothing that
\* anybody else does adds one: no iteration, retry, failed write or context that ends
\* lets a loop run on (run, appendToolResults, finish).
WindsDown ==
    \A x \in Exchanges :
        /\ StepsLeft(x)' <= StepsLeft(x)
        /\ RequestStep(x) \/ ExchangeStep(x) => StepsLeft(x)' < StepsLeft(x)

\* An exchange is over when it is removed from the registry, and closed after that.
OverInv ==
    /\ closed \subseteq ended
    /\ ended = {x \in Exchanges : pc[x] = "over"}

\* Where an exchange has begun: a Confirm's already when it tells its outcome.
HasBegun(x, label) ==
    label \in Looping \union {"over"} \/ (x \in Confirmers /\ label = "titled")

BegunInv == begun = {x \in Exchanges : HasBegun(x, pc[x])}

LEMMA Places ==
    /\ Place["asked"] = 13 /\ Place["idle"] = 12 /\ Place["admitted"] = 11
    /\ Place["titled"] = 10 /\ Place["iterating"] = 9 /\ Place["ready"] = 8
    /\ Place["streaming"] = 7 /\ Place["keeping"] = 6 /\ Place["persisting"] = 6
    /\ Place["dispatching"] = 5 /\ Place["answering"] = 4 /\ Place["retrying"] = 3
    /\ Place["leaving"] = 2
BY DEF Place

LEMMA StepsAreCounted ==
    ASSUME LoopTypeOK, NEW x \in Exchanges
    PROVE  /\ StepsLeft(x) \in 0 .. MostSteps
           /\ pc[x] \notin {"refused", "over"} => StepsLeft(x) >= 2
<1>1. MaxIterations \in Nat /\ iteration[x] \in 0 .. MaxIterations
  BY TurnsAssumption DEF LoopTypeOK
<1>2. pc[x] \in Waiting \union Looping \union {"refused", "over"}
  BY DEF LoopTypeOK
<1>3. pc[x] \in Waiting \union Looping => Place[pc[x]] \in 2 .. 13
  BY Places DEF Waiting, Looping
<1>4. QED
  BY <1>1, <1>2, <1>3 DEF StepsLeft, MostSteps

\* Where a step may lead that stays in its iteration.
Later(x, label) ==
    /\ pc[x] \in Waiting \union Looping
    /\ \/ label \in Waiting \union Looping /\ Place[label] < Place[pc[x]]
       \/ label = "refused"
       \/ label = "over" /\ x \notin closed

\* A move to a later place of the same iteration, or out of the loop.
LEMMA MovesOn ==
    ASSUME LoopTypeOK, NEW x \in Exchanges, NEW label, Goto(x, label),
           UNCHANGED <<iteration, closed>>, Later(x, label)
    PROVE  StepsLeft(x)' < StepsLeft(x)
<1>1. MaxIterations \in Nat /\ iteration[x] \in 0 .. MaxIterations /\ iteration'[x] = iteration[x]
  BY TurnsAssumption DEF LoopTypeOK
<1>2. pc'[x] = label
  BY DEF LoopTypeOK, Goto
<1>3. \A l \in Waiting \union Looping : Place[l] \in 2 .. 13 /\ l \notin {"refused", "over"}
  BY Places DEF Waiting, Looping
<1>4. StepsLeft(x) = 7 * (MaxIterations - iteration[x]) + Place[pc[x]]
  BY <1>3 DEF StepsLeft, Later
<1>5. CASE label \in Waiting \union Looping /\ Place[label] < Place[pc[x]]
  <2>1. StepsLeft(x)' = 7 * (MaxIterations - iteration[x]) + Place[label]
    BY <1>1, <1>2, <1>3, <1>5 DEF StepsLeft
  <2>2. QED
    BY <1>1, <1>3, <1>4, <1>5, <2>1 DEF Later
<1>6. CASE label = "refused"
  <2>1. StepsLeft(x)' = 0
    BY <1>2, <1>6 DEF StepsLeft
  <2>2. QED
    BY <1>1, <1>3, <1>4, <2>1 DEF Later
<1>7. CASE label = "over" /\ x \notin closed
  <2>1. StepsLeft(x)' = 1
    BY <1>2, <1>7 DEF StepsLeft
  <2>2. QED
    BY <1>1, <1>3, <1>4, <2>1 DEF Later
<1>8. QED
  BY <1>5, <1>6, <1>7 DEF Later

LEMMA RequestsWindDown ==
    ASSUME LoopTypeOK, NEW x \in Exchanges, RequestStep(x)
    PROVE  StepsLeft(x)' < StepsLeft(x)
<1>1. UNCHANGED <<iteration, closed>>
  BY DEF RequestStep, CheckIdle, Admit, StoreMessage, BeginTurn, BeginConfirm, Begin,
         requestRest, registryVars
<1>2. PICK l \in {"refused", "idle", "admitted", "titled", "iterating"} :
         /\ Goto(x, l)
         /\ \/ pc[x] = "asked" /\ l \in {"idle", "refused"}
            \/ pc[x] = "idle" /\ l \in {"admitted", "titled", "refused"}
            \/ pc[x] = "admitted" /\ l \in {"titled", "refused"}
            \/ pc[x] = "titled" /\ l = "iterating"
  BY DEF RequestStep, CheckIdle, Admit, StoreMessage, BeginTurn, BeginConfirm
<1>3. Later(x, l)
  BY <1>2, Places DEF Later, Waiting, Looping
<1>4. QED
  BY <1>1, <1>2, <1>3, MovesOn

\* Results that are stored: the next iteration is seven steps further on.
LEMMA StoringWindsDown ==
    ASSUME LoopInv, NEW x \in Exchanges, closed' = closed,
           pc[x] \in {"answering", "retrying"},
           \/ NextIteration(x)
           \/ pc[x] = "answering" /\ Goto(x, "retrying") /\ UNCHANGED iteration
           \/ Goto(x, "leaving") /\ UNCHANGED iteration
    PROVE  StepsLeft(x)' < StepsLeft(x)
<1>1. LoopTypeOK /\ ExchangeInv(x)
  BY DEF LoopInv
<1>2. CASE Goto(x, "retrying") /\ UNCHANGED iteration /\ pc[x] = "answering"
  <2>1. Later(x, "retrying")
    BY <1>2, Places DEF Later, Waiting, Looping
  <2>2. QED
    BY <1>1, <1>2, <2>1, MovesOn
<1>3. CASE Goto(x, "leaving") /\ UNCHANGED iteration
  <2>1. Later(x, "leaving")
    BY Places DEF Later, Waiting, Looping
  <2>2. QED
    BY <1>1, <1>3, <2>1, MovesOn
<1>4. CASE Goto(x, "iterating") /\ iteration' = [iteration EXCEPT ![x] = @ + 1]
  <2>1. MaxIterations \in Nat /\ iteration[x] \in Nat /\ iteration[x] < MaxIterations
    BY <1>1, TurnsAssumption DEF LoopTypeOK, ExchangeInv, Underway
  <2>2. pc'[x] = "iterating" /\ iteration'[x] = iteration[x] + 1
    BY <1>1, <1>4 DEF LoopTypeOK, Goto
  <2>3. StepsLeft(x)' = 7 * (MaxIterations - (iteration[x] + 1)) + 9
    BY <2>2, Places DEF StepsLeft
  <2>4. StepsLeft(x) = 7 * (MaxIterations - iteration[x]) + Place[pc[x]]
    BY DEF StepsLeft
  <2>5. Place[pc[x]] \in {3, 4}
    BY Places
  <2>6. QED
    BY <2>1, <2>3, <2>4, <2>5
<1>5. QED
  BY <1>2, <1>3, <1>4 DEF NextIteration

\* The steps of an iteration before its results are stored.
LoopMove(x) ==
    \/ TellOutcome(x) \/ Announce(x) \/ CallProvider(x) \/ CallFails(x) \/ GiveUpLooping(x)
    \/ Consume(x) \/ KeepAbandoned(x) \/ PersistOutOfBand(x) \/ PersistNative(x)
    \/ Dispatch(x)

LEMMA LoopMovesWindDown ==
    ASSUME LoopTypeOK, NEW x \in Exchanges, LoopMove(x)
    PROVE  StepsLeft(x)' < StepsLeft(x)
<1>1. UNCHANGED <<iteration, closed>>
  BY DEF LoopMove, TellOutcome, Announce, CallProvider, CallFails, GiveUpLooping, Consume,
         KeepAbandoned, PersistOutOfBand, PersistNative, Dispatch, loopRest, requestRest,
         registryVars
<1>2. PICK l \in Looping :
         /\ Goto(x, l)
         /\ \/ pc[x] = "titled" /\ l \in {"iterating", "leaving"}
            \/ pc[x] = "iterating" /\ l \in {"ready", "leaving"}
            \/ pc[x] = "ready" /\ l \in {"streaming", "leaving"}
            \/ pc[x] = "streaming" /\ l \in {"keeping", "persisting"}
            \/ pc[x] = "keeping" /\ l \in {"answering", "leaving"}
            \/ pc[x] = "persisting" /\ l \in {"dispatching", "answering", "leaving"}
            \/ pc[x] = "dispatching" /\ l = "answering"
  BY DEF LoopMove, TellOutcome, Announce, CallProvider, CallFails, GiveUpLooping, Consume,
         KeepAbandoned, PersistOutOfBand, PersistNative, Dispatch, Looping
<1>3. Later(x, l)
  BY <1>2, Places DEF Later, Waiting, Looping
<1>4. QED
  BY <1>1, <1>2, <1>3, MovesOn

LEMMA ExchangeStepsWindDown ==
    ASSUME LoopInv, OverInv, NEW x \in Exchanges, ExchangeStep(x)
    PROVE  StepsLeft(x)' < StepsLeft(x)
<1>1. CASE LoopMove(x)
  BY <1>1, LoopMovesWindDown DEF LoopInv
<1>2. CASE AppendResults(x) \/ RetryResults(x)
  <2>1. closed' = closed
    BY <1>2 DEF AppendResults, RetryResults, loopRest, registryVars
  <2>2. QED
    BY <1>2, <2>1, StoringWindsDown DEF AppendResults, RetryResults
<1>3. CASE Finish(x)
  <2>1. Goto(x, "over") /\ UNCHANGED <<iteration, closed>> /\ x \notin ended /\ pc[x] = "leaving"
    BY <1>3 DEF Finish, Deregister
  <2>2. Later(x, "over")
    BY <2>1 DEF Later, Looping, OverInv
  <2>3. QED
    BY <2>1, <2>2, MovesOn DEF LoopInv
<1>4. CASE CloseExchange(x)
  <2>1. pc'[x] = "over" /\ pc[x] = "over" /\ x \notin closed /\ x \in closed'
    BY <1>4 DEF CloseExchange, Close, OverInv, otherVars, loopVars
  <2>2. QED
    BY <2>1 DEF StepsLeft
<1>5. QED
  BY <1>1, <1>2, <1>3, <1>4 DEF ExchangeStep, LoopMove

\* Nobody's step touches another exchange's place.
LEMMA OthersStay ==
    ASSUME LoopTypeOK, NEW x \in Exchanges, RequestStep(x) \/ ExchangeStep(x),
           NEW y \in Exchanges \ {x}
    PROVE  pc'[y] = pc[y] /\ iteration'[y] = iteration[y] /\ (y \in closed' <=> y \in closed)
<1>1. \E l \in Waiting \union Looping \union {"refused", "over"} : pc' = [pc EXCEPT ![x] = l] \/ UNCHANGED pc
  BY DEF RequestStep, CheckIdle, Admit, StoreMessage, BeginTurn, BeginConfirm,
         ExchangeStep, TellOutcome, Announce, CallProvider, CallFails, GiveUpLooping,
         Consume, KeepAbandoned, PersistOutOfBand, PersistNative, Dispatch, AppendResults,
         RetryResults, NextIteration, Finish, CloseExchange, otherVars, loopVars, Goto,
         Waiting, Looping
<1>2. UNCHANGED iteration \/ iteration' = [iteration EXCEPT ![x] = @ + 1]
  BY DEF RequestStep, CheckIdle, Admit, StoreMessage, BeginTurn, BeginConfirm, requestRest,
         ExchangeStep, TellOutcome, Announce, CallProvider, CallFails, GiveUpLooping,
         Consume, KeepAbandoned, PersistOutOfBand, PersistNative, Dispatch, AppendResults,
         RetryResults, NextIteration, Finish, CloseExchange, otherVars, loopVars
<1>3. closed' = closed \/ closed' = closed \union {x}
  BY DEF RequestStep, CheckIdle, Admit, StoreMessage, BeginTurn, BeginConfirm, requestRest,
         ExchangeStep, TellOutcome, Announce, CallProvider, CallFails, GiveUpLooping,
         Consume, KeepAbandoned, PersistOutOfBand, PersistNative, Dispatch, AppendResults,
         RetryResults, Finish, CloseExchange, Begin, Deregister, Close, loopRest,
         registryVars
<1>4. QED
  BY <1>1, <1>2, <1>3 DEF LoopTypeOK

StepsAreNumbers == \A x \in Exchanges : StepsLeft(x) \in Nat

LEMMA StepsAreTyped == LoopTypeOK => StepsAreNumbers
BY StepsAreCounted, TurnsAssumption DEF StepsAreNumbers, MostSteps

LEMMA StepsAreNumbersNext == LoopTypeOK' => StepsAreNumbers'
BY StepsAreTyped, PTL

LEMMA EverythingWindsDown ==
    ASSUME LoopInv, OverInv, Next PROVE WindsDown
<1>1. LoopTypeOK /\ \A x \in Exchanges : StepsLeft(x) \in Nat
  BY StepsAreCounted, TurnsAssumption DEF LoopInv, MostSteps
<1>9. \A x \in Exchanges : StepsLeft(x)' \in Nat
  BY LoopInvStep, StepsAreNumbersNext DEF LoopInv, StepsAreNumbers
<1>2. ASSUME NEW x \in Exchanges, RequestStep(x) \/ ExchangeStep(x)
      PROVE  StepsLeft(x)' < StepsLeft(x)
  BY <1>1, <1>2, RequestsWindDown, ExchangeStepsWindDown
<1>3. ASSUME NEW x \in Exchanges, RequestStep(x) \/ ExchangeStep(x), NEW y \in Exchanges \ {x}
      PROVE  StepsLeft(y)' = StepsLeft(y)
  BY <1>1, <1>3, OthersStay DEF StepsLeft
<1>4. ASSUME NEW x \in Exchanges, CancelExchange(x) PROVE UNCHANGED <<pc, iteration, closed>>
  BY <1>4 DEF CancelExchange, Cancel, otherVars, loopVars
<1>5. ASSUME NEW n \in Noters, NoteFallsDue(n) \/ AppendNote(n) \/ SettingsChange(n)
      PROVE  UNCHANGED <<pc, iteration, closed>>
  BY <1>5 DEF NoteFallsDue, AppendNote, SettingsChange, otherVars, loopVars, registryVars
<1>6. ASSUME UNCHANGED <<pc, iteration, closed>>, NEW y \in Exchanges
      PROVE  StepsLeft(y)' = StepsLeft(y)
  BY <1>6 DEF StepsLeft
<1>7. ASSUME NEW y \in Exchanges PROVE StepsLeft(y)' <= StepsLeft(y)
  <2>1. ASSUME NEW x \in Exchanges, RequestStep(x) \/ ExchangeStep(x)
        PROVE  StepsLeft(y)' <= StepsLeft(y)
    <3>1. CASE y = x
      <4>1. StepsLeft(y)' \in Nat /\ StepsLeft(y) \in Nat /\ StepsLeft(y)' < StepsLeft(y)
        BY <1>1, <1>2, <1>9, <2>1, <3>1
      <4>2. QED
        BY <4>1
    <3>2. CASE y # x
      BY <1>1, <1>3, <2>1, <3>2
    <3>3. QED
      BY <3>1, <3>2
  <2>2. QED
    BY <1>1, <1>4, <1>5, <1>6, <2>1 DEF Next
<1>8. QED
  BY <1>2, <1>7 DEF WindsDown


\* A move of one exchange that neither begins nor ends it.
LEMMA MovesBetween ==
    ASSUME LoopTypeOK, OverInv, BegunInv, NEW x \in Exchanges, NEW label, Goto(x, label),
           UNCHANGED <<begun, ended, closed>>, pc[x] # "over", label # "over",
           HasBegun(x, label) <=> HasBegun(x, pc[x])
    PROVE  OverInv' /\ BegunInv'
<1>1. pc'[x] = label /\ \A y \in Exchanges \ {x} : pc'[y] = pc[y]
  BY DEF Goto, LoopTypeOK
<1>2. \A y \in Exchanges : (pc'[y] = "over" <=> pc[y] = "over")
                           /\ (HasBegun(y, pc'[y]) <=> HasBegun(y, pc[y]))
  BY <1>1
<1>3. QED
  BY <1>2 DEF OverInv, BegunInv

LEMMA RequestsKeepStage ==
    ASSUME LoopTypeOK, OverInv, BegunInv, NEW x \in Exchanges, RequestStep(x)
    PROVE  OverInv' /\ BegunInv'
<1>1. CASE CheckIdle(x) \/ Admit(x) \/ StoreMessage(x)
  <2>1. UNCHANGED <<begun, ended, closed>>
    BY <1>1 DEF CheckIdle, Admit, StoreMessage, registryVars
  <2>2. PICK l \in {"refused", "idle", "admitted", "titled"} :
           /\ Goto(x, l)
           /\ pc[x] \in {"asked", "idle", "admitted"}
           /\ l = "titled" => x \in Senders
    BY <1>1 DEF CheckIdle, Admit, StoreMessage
  <2>3. ~HasBegun(x, l) /\ ~HasBegun(x, pc[x])
    BY <2>2, TurnsAssumption DEF HasBegun, Looping
  <2>4. QED
    BY <2>1, <2>2, <2>3, MovesBetween
<1>2. CASE BeginTurn(x) \/ BeginConfirm(x)
  <2>1. Begin(x)
    BY <1>2 DEF BeginTurn, BeginConfirm
  <2>2. PICK l \in {"titled", "iterating"} :
           /\ Goto(x, l)
           /\ pc[x] \in {"idle", "titled"}
           /\ HasBegun(x, l)
    BY <1>2 DEF BeginTurn, BeginConfirm, HasBegun, Looping
  <2>3. pc'[x] = l /\ \A y \in Exchanges \ {x} : pc'[y] = pc[y]
    BY <2>2 DEF Goto, LoopTypeOK
  <2>4. OverInv'
    BY <2>1, <2>2, <2>3 DEF OverInv, Begin
  <2>5. begun' = begun \union {x}
    BY <2>1 DEF Begin
  <2>6. \A y \in Exchanges : y \in begun' <=> HasBegun(y, pc'[y])
    BY <2>2, <2>3, <2>5 DEF BegunInv
  <2>7. begun' \subseteq Exchanges
    BY <2>5 DEF BegunInv
  <2>8. BegunInv'
    BY <2>6, <2>7 DEF BegunInv
  <2>9. QED
    BY <2>4, <2>8
<1>3. QED
  BY <1>1, <1>2 DEF RequestStep

LEMMA ExchangesKeepStage ==
    ASSUME LoopTypeOK, OverInv, BegunInv, NEW x \in Exchanges, ExchangeStep(x)
    PROVE  OverInv' /\ BegunInv'
<1>1. CASE LoopMove(x) \/ AppendResults(x) \/ RetryResults(x)
  <2>1. UNCHANGED <<begun, ended, closed>>
    BY <1>1 DEF LoopMove, TellOutcome, Announce, CallProvider, CallFails, GiveUpLooping,
                Consume, KeepAbandoned, PersistOutOfBand, PersistNative, Dispatch,
                AppendResults, RetryResults, loopRest, registryVars
  <2>2. PICK l \in Looping : Goto(x, l)
    BY <1>1 DEF LoopMove, TellOutcome, Announce, CallProvider, CallFails, GiveUpLooping,
                Consume, KeepAbandoned, PersistOutOfBand, PersistNative, Dispatch,
                AppendResults, RetryResults, NextIteration, Looping
  <2>3. pc[x] \in Looping \/ (pc[x] = "titled" /\ x \in Confirmers)
    BY <1>1 DEF LoopMove, TellOutcome, Announce, CallProvider, CallFails, GiveUpLooping,
                Consume, KeepAbandoned, PersistOutOfBand, PersistNative, Dispatch,
                AppendResults, RetryResults, Looping
  <2>4. HasBegun(x, l) /\ HasBegun(x, pc[x]) /\ pc[x] # "over" /\ l # "over"
    BY <2>2, <2>3 DEF HasBegun, Looping
  <2>5. QED
    BY <2>1, <2>2, <2>4, MovesBetween
<1>2. CASE Finish(x)
  <2>1. Deregister(x) /\ Goto(x, "over") /\ pc[x] = "leaving"
    BY <1>2 DEF Finish
  <2>2. pc'[x] = "over" /\ \A y \in Exchanges \ {x} : pc'[y] = pc[y]
    BY <2>1 DEF Goto, LoopTypeOK
  <2>3. ended' = ended \union {x} /\ UNCHANGED <<begun, closed>>
    BY <2>1 DEF Deregister
  <2>4. \A y \in Exchanges : HasBegun(y, pc'[y]) <=> HasBegun(y, pc[y])
    BY <2>1, <2>2 DEF HasBegun, Looping
  <2>5. \A y \in Exchanges : y \in ended' <=> pc'[y] = "over"
    BY <2>2, <2>3 DEF OverInv
  <2>6. ended' \subseteq Exchanges /\ closed' \subseteq ended'
    BY <2>3 DEF OverInv
  <2>7. QED
    BY <2>3, <2>4, <2>5, <2>6 DEF OverInv, BegunInv
<1>3. CASE CloseExchange(x)
  BY <1>3 DEF CloseExchange, Close, otherVars, loopVars, OverInv, BegunInv
<1>4. QED
  BY <1>1, <1>2, <1>3 DEF ExchangeStep, LoopMove

LEMMA StageStep ==
    ASSUME LoopTypeOK, OverInv, BegunInv, [Next]_vars PROVE OverInv' /\ BegunInv'
<1>1. ASSUME NEW x \in Exchanges, RequestStep(x) \/ ExchangeStep(x) PROVE OverInv' /\ BegunInv'
  BY <1>1, RequestsKeepStage, ExchangesKeepStage
<1>2. ASSUME NEW x \in Exchanges, CancelExchange(x) PROVE OverInv' /\ BegunInv'
  BY <1>2 DEF CancelExchange, Cancel, otherVars, loopVars, OverInv, BegunInv
<1>3. ASSUME NEW n \in Noters, NoteFallsDue(n) \/ AppendNote(n) \/ SettingsChange(n)
      PROVE  OverInv' /\ BegunInv'
  BY <1>3 DEF NoteFallsDue, AppendNote, SettingsChange, otherVars, loopVars, registryVars,
              OverInv, BegunInv
<1>4. CASE UNCHANGED vars
  BY <1>4 DEF vars, loopVars, registryVars, OverInv, BegunInv
<1>5. QED
  BY <1>1, <1>2, <1>3, <1>4 DEF Next

WindingInv == LoopInv /\ OverInv /\ BegunInv

LEMMA WindingInvariance == Spec => []WindingInv
<1>1. Init => WindingInv
  <2>1. ASSUME Init PROVE OverInv /\ BegunInv
    BY <2>1 DEF Init, OverInv, BegunInv, HasBegun, Looping
  <2>2. QED
    BY <2>1, InitLoopInv DEF WindingInv
<1>2. WindingInv /\ [Next]_vars => WindingInv'
  BY LoopInvStep, StageStep DEF WindingInv, LoopInv
<1>3. QED
  BY <1>1, <1>2, PTL DEF Spec

\* A request and its exchange take at most seven steps of each iteration and thirteen
\* around them; one that has begun and is not closed has a step left.
THEOREM StepsStayBounded == Spec => []StepsAreBounded
<1>1. WindingInv => StepsAreBounded
  <2>1. ASSUME WindingInv, NEW x \in Exchanges
        PROVE  /\ StepsLeft(x) \in 0 .. MostSteps
               /\ x \in begun \ closed => StepsLeft(x) > 0
    <3>1. /\ StepsLeft(x) \in 0 .. MostSteps
          /\ pc[x] \notin {"refused", "over"} => StepsLeft(x) >= 2
      BY <2>1, StepsAreCounted DEF WindingInv, LoopInv
    <3>2. x \in begun => pc[x] # "refused"
      BY <2>1 DEF WindingInv, BegunInv, HasBegun, Looping
    <3>3. CASE pc[x] = "over" /\ x \notin closed
      BY <3>1, <3>3 DEF StepsLeft
    <3>4. CASE pc[x] \notin {"refused", "over"}
      BY <3>1, <3>4, TurnsAssumption DEF MostSteps
    <3>5. QED
      BY <3>1, <3>2, <3>3, <3>4
  <2>2. QED
    BY <2>1 DEF StepsAreBounded
<1>2. QED
  BY <1>1, WindingInvariance, PTL

\* Every step of a request or its exchange is one of those steps, and nobody gives one
\* back: run's loop, its retries and the end of an exchange come to an end whatever
\* fails, is cancelled or is appended beside them.
THEOREM ExchangesWindDown == Spec => [][WindsDown]_vars
<1>1. WindingInv /\ Next => WindsDown
  BY EverythingWindsDown DEF WindingInv
<1>2. WindingInv /\ [Next]_vars => [WindsDown]_vars
  BY <1>1
<1>3. QED
  BY <1>2, WindingInvariance, PTL DEF Spec
=============================================================================
