------------------------------ MODULE ChatTurns ------------------------------
(***************************************************************************)
(* The turns of one chat session (pkg/chat/engine.go): the requests that   *)
(* start an exchange, the tool loop of each exchange, what both leave in   *)
(* the stored history, and the spend they are admitted against.            *)
(*                                                                         *)
(* The session may be an old one: a Confirm answers a confirmation that a  *)
(* turn before these left, and messages stored before them are left out.   *)
(*                                                                         *)
(* Every exchange is a goroutine and every request another; each step here *)
(* is one access to state they share: the registry, the stored messages,   *)
(* the recorded usage.                                                     *)
(***************************************************************************)
EXTENDS ExchangeRegistry, Naturals, FiniteSets, Conversation

CONSTANTS
    Senders,        \* Send, SendInjected and Continue requests (start)
    Confirmers,     \* Confirm requests
    Noters,         \* notes that end up in the history without starting a turn
    MaxIterations,  \* Options.MaxIterations
    Cap,            \* the user's spend cap; a provider call costs one
    StoreFails,     \* whether the database may refuse a write
    MaxActors       \* bound: requests and notes that take part in one behaviour

ASSUME TurnsAssumption ==
    /\ Exchanges = Senders \union Confirmers
    /\ IsFiniteSet(Exchanges)
    /\ Senders \intersect Confirmers = {}
    /\ MaxIterations \in Nat \ {0}
    /\ Cap \in Nat \ {0}
    /\ MaxActors \in Nat
    /\ StoreFails \in BOOLEAN

VARIABLES
    outOfBand,   \* the session's provider runs its own tool loop (ToolsOutOfBand)
    history,     \* the messages stored from here on
    announced,   \* the latest session state note still says what is true
    used,        \* provider calls whose usage is recorded
    unchecked,   \* exchanges that called the provider without limits.Check before
    pc,          \* where each exchange is
    iteration,   \* run's loop counter
    turn,        \* what consume collected: calls and results, and how it ended
    note,        \* the notes: a workbench move's, or an abandoned hold's
    latest       \* the exchange registered last

loopVars == <<pc, iteration, turn>>
vars == <<registryVars, outOfBand, history, announced, used, unchecked, loopVars,
          note, latest>>

Waiting == {"asked", "idle", "admitted", "titled"}
Looping == {"iterating", "ready", "streaming", "keeping", "persisting", "dispatching",
            "answering", "retrying", "leaving"}

NoTurn == [calls |-> {}, results |-> {}, how |-> "none", stop |-> FALSE]

\* The call an exchange's n-th provider turn may make.
CallId(x, n) == <<x, n>>

CallIds == Exchanges \X (0 .. MaxIterations)

TypeOK ==
    /\ RegistryTypeOK
    /\ outOfBand \in BOOLEAN
    /\ \A m \in ToSet(history) : m.role \in {"user", "assistant"} /\ m.content # <<>>
    /\ announced \in BOOLEAN
    /\ used \in Nat
    /\ unchecked \subseteq Exchanges
    /\ pc \in [Exchanges -> Waiting \union Looping \union {"refused", "over"}]
    /\ iteration \in [Exchanges -> 0 .. MaxIterations]
    /\ turn \in [Exchanges -> [calls : SUBSET CallIds, results : SUBSET CallIds,
                               how : {"none", "done", "cut_off", "abandoned"},
                               stop : BOOLEAN]]
    /\ note \in [Noters -> {"none", "due", "written"}]
    /\ latest \in Exchanges \union {NoExchange}

Init ==
    /\ live = NoExchange
    /\ begun = {} /\ cancelled = {} /\ ended = {} /\ closed = {}
    /\ outOfBand \in BOOLEAN
    /\ history = <<>>
    /\ announced = FALSE
    /\ used = 0
    /\ unchecked = {}
    /\ pc = [x \in Exchanges |-> "asked"]
    /\ iteration = [x \in Exchanges |-> 0]
    /\ turn = [x \in Exchanges |-> NoTurn]
    /\ note = [n \in Noters |-> "none"]
    /\ latest = NoExchange

Goto(x, label) == pc' = [pc EXCEPT ![x] = label]

\* Bound: another request or note may appear.
RoomForOne ==
    Cardinality({x \in Exchanges : pc[x] # "asked"}) +
    Cardinality({n \in Noters : note[n] # "none"}) < MaxActors

\* A write on the exchange's context: it lands, or fails, or lands without the
\* acknowledgement; once the context has ended, or with a failing database, any of
\* these.  A detached write has only the database against it.
Landings(failing) ==
    {[landed |-> TRUE, ok |-> TRUE]} \union
    (IF failing THEN {[landed |-> FALSE, ok |-> FALSE], [landed |-> TRUE, ok |-> FALSE]}
                ELSE {})

OnContext(x) == Landings(x \in cancelled \/ StoreFails)
Detached == Landings(StoreFails)

\* AppendMessages with one message.
AppendMessage(message, outcome) ==
    history' = IF outcome.landed THEN Append(history, message) ELSE history

-----------------------------------------------------------------------------
(* start and Confirm: each check looks at shared state on its own. *)

requestRest == <<outOfBand, announced, used, unchecked, iteration, turn, note>>

\* Attach: a session with a running exchange refuses another.
CheckIdle(x) ==
    /\ pc[x] = "asked" /\ RoomForOne
    /\ Goto(x, IF Attached THEN "refused" ELSE "idle")
    /\ UNCHANGED <<registryVars, history, latest, requestRest>>

\* limits.Check, for a request that goes through start.
Admit(x) ==
    /\ x \in Senders /\ pc[x] = "idle"
    /\ Goto(x, IF used < Cap THEN "admitted" ELSE "refused")
    /\ UNCHANGED <<registryVars, history, latest, requestRest>>

\* The title (SessionSettings models that write) and the developer's or ODE's
\* message, on the request's own context; Continue's message is empty.
StoreMessage(x) ==
    /\ x \in Senders /\ pc[x] = "admitted"
    /\ \/ Goto(x, "titled") /\ UNCHANGED history
       \/ \E o \in Detached :
             /\ AppendMessage(UserMessage(<<Text>>), o)
             /\ Goto(x, IF o.ok THEN "titled" ELSE "refused")
    /\ UNCHANGED <<registryVars, latest, requestRest>>

BeginTurn(x) ==
    /\ x \in Senders /\ pc[x] = "titled"
    /\ Begin(x)
    /\ latest' = x
    /\ Goto(x, "iterating")
    /\ UNCHANGED <<history, requestRest>>

\* Confirm begins straight after its checks; the tool runs, and its outcome is
\* stored as a user turn, inside the exchange (ChatHold models the decision).
BeginConfirm(x) ==
    /\ x \in Confirmers /\ pc[x] = "idle"
    /\ Begin(x)
    /\ latest' = x
    /\ Goto(x, "titled")
    /\ UNCHANGED <<history, requestRest>>

TellOutcome(x) ==
    /\ x \in Confirmers /\ pc[x] = "titled"
    /\ \E o \in OnContext(x) :
          /\ AppendMessage(UserMessage(<<Text>>), o)
          /\ Goto(x, IF o.ok THEN "iterating" ELSE "leaving")
    /\ UNCHANGED <<registryVars, latest, requestRest>>

-----------------------------------------------------------------------------
(* run: one iteration. *)

loopRest == <<registryVars, outOfBand, note, latest>>

\* The session and the messages are read again, and a note says how the session
\* stands if the last one no longer does.
Announce(x) ==
    /\ pc[x] = "iterating" /\ iteration[x] < MaxIterations
    /\ \/ /\ announced
          /\ Goto(x, "ready")
          /\ UNCHANGED <<history, announced>>
       \/ /\ ~announced
          /\ \E o \in OnContext(x) :
                /\ AppendMessage(UserMessage(<<Text>>), o)
                /\ announced' = o.landed
                /\ Goto(x, IF o.ok THEN "ready" ELSE "leaving")
    /\ UNCHANGED <<loopRest, used, unchecked, iteration, turn>>

\* Mutant: a cap that binds only the first call of a turn.
NeverMustCheck(x) == FALSE

MustCheck(x) == iteration[x] > 0

\* limits.Check on every iteration but the first, and the provider call.
CallProvider(x) ==
    /\ pc[x] = "ready"
    /\ Goto(x, IF MustCheck(x) /\ used >= Cap THEN "leaving" ELSE "streaming")
    /\ unchecked' = IF MustCheck(x) \/ x \in Senders THEN unchecked
                                                     ELSE unchecked \union {x}
    /\ UNCHANGED <<loopRest, history, announced, used, iteration, turn>>

\* A read on a context that has ended, or a provider that refuses the request.
CallFails(x) ==
    /\ pc[x] \in {"iterating", "ready"}
    /\ Goto(x, "leaving")
    /\ UNCHANGED <<loopRest, history, announced, used, unchecked, iteration, turn>>

\* The loop's own bound, and recordAbort.
GiveUpLooping(x) ==
    /\ pc[x] = "iterating" /\ iteration[x] = MaxIterations
    /\ Goto(x, "leaving")
    /\ UNCHANGED <<loopRest, history, announced, used, unchecked, iteration, turn>>

Calls(x) == {CallId(x, iteration[x])}

\* consume, and RecordUsage on a detached context: a turn cut short may have spent
\* nothing that was reported.  An out-of-band provider reports results as well.
Consume(x) ==
    /\ pc[x] = "streaming"
    /\ \E calls \in {{}, Calls(x)}, how \in {"done", "cut_off", "abandoned"} :
       \E results \in (IF outOfBand THEN SUBSET calls ELSE {{}}),
          spent \in (IF how = "abandoned" \/ StoreFails THEN {0, 1} ELSE {1}) :
          /\ turn' = [turn EXCEPT ![x] = [calls |-> calls, results |-> results,
                                          how |-> how, stop |-> FALSE]]
          /\ used' = used + spent
          /\ Goto(x, IF how = "abandoned" THEN "keeping" ELSE "persisting")
    /\ UNCHANGED <<loopRest, history, announced, unchecked, iteration>>

\* persistAssistant's message: the calls, or the text of a turn without any (text
\* beside calls tells no property anything).
Said(calls) ==
    AssistantMessage(IF calls = {} THEN <<Text>> ELSE SetToSeq({Call(id) : id \in calls}))

\* Mutant: a turn that is left with nothing is stored as an empty message.
PersistEmptied(calls, outcome) ==
    AppendMessage(AssistantMessage(SetToSeq({Call(id) : id \in calls})), outcome)

\* persistAssistant: a turn that neither said nor called anything is not stored.
PersistAssistant(calls, outcome) ==
    \/ calls = {} /\ UNCHANGED history
    \/ AppendMessage(Said(calls), outcome)

\* Mutant: an abandoned turn returns without its deferred finish.
KeepAbandonedAndReturn(x) ==
    /\ pc[x] = "keeping"
    /\ \E o \in Detached : PersistAssistant(turn[x].calls, o)
    /\ Goto(x, "over")
    /\ UNCHANGED <<loopRest, announced, used, unchecked, iteration, turn>>

\* persistAbandoned, its first write.
KeepAbandoned(x) ==
    /\ pc[x] = "keeping"
    /\ \E o \in Detached :
          /\ PersistAssistant(turn[x].calls, o)
          /\ Goto(x, IF o.ok /\ turn[x].results # {} THEN "answering" ELSE "leaving")
    /\ UNCHANGED <<loopRest, announced, used, unchecked, iteration, turn>>

\* persistAssistant of an out-of-band turn: an error is shown, and the results are
\* stored all the same.
PersistOutOfBand(x) ==
    /\ pc[x] = "persisting" /\ outOfBand
    /\ \E o \in OnContext(x) : PersistAssistant(turn[x].calls, o)
    /\ Goto(x, IF turn[x].results # {} THEN "answering" ELSE "leaving")
    /\ UNCHANGED <<loopRest, announced, used, unchecked, iteration, turn>>

\* persistAssistant of a native turn; one that was cut off loses its calls first.
PersistNative(x) ==
    LET kept == IF turn[x].how = "cut_off" THEN {} ELSE turn[x].calls
    IN  /\ pc[x] = "persisting" /\ ~outOfBand
        /\ \E o \in OnContext(x) :
              /\ PersistAssistant(kept, o)
              /\ Goto(x, IF o.ok /\ kept # {} THEN "dispatching" ELSE "leaving")
        /\ UNCHANGED <<loopRest, announced, used, unchecked, iteration, turn>>

\* dispatch: every call gets a result; one that awaits a confirmation, or whose
\* confirmation could not be stored, stops the loop.
Dispatch(x) ==
    /\ pc[x] = "dispatching"
    /\ \E stop \in BOOLEAN :
          turn' = [turn EXCEPT ![x].results = turn[x].calls, ![x].stop = stop]
    /\ Goto(x, "answering")
    /\ UNCHANGED <<loopRest, history, announced, used, unchecked, iteration>>

Answers(x) == UserMessage(SetToSeq({Result(id) : id \in turn[x].results}))

\* Where the loop goes once the results are stored.
NextIteration(x) ==
    IF outOfBand \/ turn[x].how = "abandoned" \/ turn[x].stop
    THEN Goto(x, "leaving") /\ UNCHANGED iteration
    ELSE Goto(x, "iterating") /\ iteration' = [iteration EXCEPT ![x] = @ + 1]

\* Mutant: the first attempt is the only one.
AppendResultsOnce(x) ==
    /\ pc[x] = "answering"
    /\ \E o \in OnContext(x) : AppendMessage(Answers(x), o)
    /\ NextIteration(x)
    /\ UNCHANGED <<loopRest, announced, used, unchecked, turn>>

\* appendToolResults, the first attempt; an abandoned turn's is detached already.
AppendResults(x) ==
    /\ pc[x] = "answering"
    /\ \E o \in (IF turn[x].how = "abandoned" THEN Detached ELSE OnContext(x)) :
          /\ AppendMessage(Answers(x), o)
          /\ IF o.ok THEN NextIteration(x) ELSE Goto(x, "retrying") /\ UNCHANGED iteration
    /\ UNCHANGED <<loopRest, announced, used, unchecked, turn>>

\* Mutant: the retry does not look at what has landed.
RetryBlindly(x) ==
    /\ pc[x] = "retrying"
    /\ \E o \in Detached : AppendMessage(Answers(x), o)
    /\ NextIteration(x)
    /\ UNCHANGED <<loopRest, announced, used, unchecked, turn>>

\* The detached retry, unless the history shows that the first attempt landed; with
\* a failing database that read may fail as well, and the retry goes ahead.
RetryResults(x) ==
    /\ pc[x] = "retrying"
    /\ \/ /\ turn[x].results \subseteq AnsweredBy(history)
          /\ NextIteration(x)
          /\ UNCHANGED history
       \/ /\ StoreFails \/ ~(turn[x].results \subseteq AnsweredBy(history))
          /\ \E o \in Detached :
                /\ AppendMessage(Answers(x), o)
                /\ IF o.ok THEN NextIteration(x) ELSE Goto(x, "leaving") /\ UNCHANGED iteration
    /\ UNCHANGED <<loopRest, announced, used, unchecked, turn>>

\* run returns, and with it go its locals (but for the results, which
\* ResultsOutliveTheTurn asks for); the deferred finish, in its two steps.
Finish(x) ==
    /\ pc[x] = "leaving"
    /\ Deregister(x)
    /\ turn' = [turn EXCEPT ![x] = [NoTurn EXCEPT !.results = turn[x].results]]
    /\ Goto(x, "over")
    /\ UNCHANGED <<outOfBand, history, announced, used, unchecked, iteration, note,
                   latest>>

otherVars == <<outOfBand, history, used, unchecked, loopVars, latest>>

CloseExchange(x) == Close(x) /\ UNCHANGED <<otherVars, announced, note>>

CancelExchange(x) == Cancel(x) /\ UNCHANGED <<otherVars, announced, note>>

-----------------------------------------------------------------------------
(* What else changes the session. *)

\* A note falls due: MoveSession finds nothing running and moves the session, or a
\* held call of an out-of-band turn is given up on (ChatHold).
NoteFallsDue(n) ==
    /\ note[n] = "none" /\ RoomForOne
    /\ ~Attached \/ (outOfBand /\ begun # {})
    /\ note' = [note EXCEPT ![n] = "due"]
    /\ UNCHANGED <<registryVars, otherVars, announced>>

\* It is appended in a step of its own.
AppendNote(n) ==
    /\ note[n] = "due"
    /\ note' = [note EXCEPT ![n] = "written"]
    /\ \E o \in Detached : AppendMessage(UserMessage(<<Text>>), o)
    /\ UNCHANGED <<registryVars, outOfBand, announced, used, unchecked, loopVars, latest>>

\* The developer changes the tier or the selection, so the next turn says so.
SettingsChange(n) ==
    /\ note[n] = "none" /\ RoomForOne
    /\ note' = [note EXCEPT ![n] = "written"]
    /\ announced' = FALSE
    /\ UNCHANGED <<registryVars, otherVars>>

-----------------------------------------------------------------------------
RequestStep(x) ==
    \/ CheckIdle(x) \/ Admit(x) \/ StoreMessage(x)
    \/ BeginTurn(x) \/ BeginConfirm(x)

\* What an exchange's own goroutine does.
ExchangeStep(x) ==
    \/ TellOutcome(x) \/ Announce(x) \/ CallProvider(x) \/ CallFails(x)
    \/ GiveUpLooping(x) \/ Consume(x) \/ KeepAbandoned(x) \/ PersistOutOfBand(x)
    \/ PersistNative(x) \/ Dispatch(x) \/ AppendResults(x) \/ RetryResults(x)
    \/ Finish(x) \/ CloseExchange(x)

Next ==
    \/ \E x \in Exchanges : RequestStep(x) \/ ExchangeStep(x) \/ CancelExchange(x)
    \/ \E n \in Noters : NoteFallsDue(n) \/ AppendNote(n) \/ SettingsChange(n)

\* An exchange's goroutine runs on: its provider's stream ends, at its own time
\* limit if need be, and its tools return.
Fairness == \A x \in Exchanges : WF_vars(ExchangeStep(x))

Spec == Init /\ [][Next]_vars /\ Fairness

-----------------------------------------------------------------------------
(* Properties. *)

\* Whatever a failed write, a cancelled turn or a second writer left in the stored
\* history, the request rendered from it answers every tool call in the turn right
\* after the one that makes it, and no two of its user turns are adjacent
\* (repairUnansweredToolCalls, coalesceUserTurns).  Two assistant turns may be, after
\* two exchanges that overlap or a turn that was given up and continued: the
\* rendering leaves those as they are.
RequestsAnswerEveryCall ==
    /\ EveryCallAnswered(Render(history))
    /\ NoAdjacentUserTurns(Render(history))

\* The retry that saves a cancelled write never stores the results of one call
\* twice, also when the first attempt landed without its acknowledgement
\* (appendToolResults); only a database that fails its reads can make it.
ResultsAreStoredOnce ==
    StoreFails \/
    \A i, j \in DOMAIN history :
        AnsweredIn(history[i]) \intersect AnsweredIn(history[j]) # {} => i = j

\* Cancelling a turn does not lose what its tools already returned: when an
\* exchange is over, the results of its last turn are in the history, whatever
\* its own context did meanwhile.
ResultsOutliveTheTurn ==
    \A x \in Exchanges :
        pc[x] = "over" => StoreFails \/ turn[x].results \subseteq AnsweredBy(history)

\* The exchange registered last can be attached to and cancelled for as long as
\* it runs, also when an older one of the session finishes after it has begun.
LatestIsAttachable == latest \in begun \ ended => live = latest

\* The recorded spend passes the cap by no more than one provider call of each
\* exchange, however many of them passed the check side by side.
SpendIsBounded == used <= Cap - 1 + Cardinality(Exchanges)

\* Every exchange that has begun is closed in the end, so its watchers are
\* released and the session accepts a turn again.  (Exchanges are finitely many
\* and stay closed: again and again none is open, so none stays open.)
ExchangesEnd == []<>(begun = closed)

\* The cap is checked before every provider call, not only the first
\* (the comment on the check in run).
EveryCallIsChecked == unchecked = {}

\* What a turn would send is a conversation the native protocols accept: each call
\* answered once, and nothing answered that was not called (the comments of
\* appendToolResults and repairUnansweredToolCalls).
RequestsAreAcceptable == Acceptable(Render(history))
=============================================================================
