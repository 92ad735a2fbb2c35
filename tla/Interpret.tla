------------------------------- MODULE Interpret -------------------------------
(***************************************************************************)
(* The reading of finished runs (pkg/interpret/service.go) over Experiments:  *)
(* the poller announces runs that have ended, the service holds each until    *)
(* its developer is connected, puts its summary into their conversation and   *)
(* has the assistant answer it.  One developer and one conversation, in which *)
(* all runs were launched.  The conversation survives a restart; the rest of  *)
(* the service's state does not.  Of the chat engine (ChatTurns) this has a   *)
(* turn that runs alone and may say something.                                *)
(***************************************************************************)
EXTENDS Experiments, Sequences

CONSTANTS
    Connections,     \* the developer's sockets
    MaxPending,      \* Options.MaxPending
    MaxAttempts,     \* Options.MaxAttempts
    maxSilentTurns

ASSUME InterpretAssumption ==
    /\ MaxPending \in Nat /\ MaxAttempts \in Nat \ {0}
    /\ maxSilentTurns \in Nat \ {0}

VARIABLES
    held,         \* the queue: a held item per run
    interpreted,  \* the runs that were let go of
    presence,     \* the sockets that are connected
    chat,         \* the conversation and the turn that runs in it
    delivery      \* the pass the service is in

interpretVars == <<held, interpreted, presence, chat, delivery>>
vars == <<run, refresh, poller, left, held, interpreted, presence, chat, delivery>>

NotHeld == [in |-> FALSE, status |-> "none", summary |-> "none", attempts |-> 0,
            silent |-> 0]

NoPass == [pc |-> "idle", todo |-> {}, run |-> 0, summary |-> "none"]

\* messages: the injected summaries and the assistant's texts.  unread counts the
\* turns for a run that ended and left it without an answer.
Init ==
    /\ ExperimentsInit
    /\ held = [r \in Runs |-> NotHeld]
    /\ interpreted = {}
    /\ presence = {}
    /\ chat = [messages |-> <<>>, gone |-> FALSE, turn |-> "none", for |-> 0,
               spoke |-> FALSE, unread |-> [r \in Runs |-> 0]]
    /\ delivery = NoPass

Summary(r, status) == [about |-> r, status |-> status]
Text == [about |-> 0, status |-> "none"]

-------------------------------------------------------------------------------
(* deliveryState: the summary of a run and the window of messages after it,   *)
(* which the next summary of another run closes.                              *)

Summaries(r) == {i \in DOMAIN chat.messages : chat.messages[i].about = r}

Closed(r, i) == \E j \in DOMAIN chat.messages, k \in Summaries(r) :
                    /\ k < j /\ j < i
                    /\ chat.messages[j].about \notin {0, r}

Window(r) == {i \in DOMAIN chat.messages :
                 /\ \E k \in Summaries(r) : k < i
                 /\ chat.messages[i] = Text
                 /\ ~Closed(r, i)}

\* Mutant: the summary is looked for among the last messages only.
InjectedLast(r) ==
    /\ chat.messages # <<>>
    /\ chat.messages[Len(chat.messages)].about = r

Injected(r) == Summaries(r) # {}

Answered(r) ==
    \E i \in Window(r) : ~\E k \in Summaries(r) : k > i /\ ~Closed(r, k)

-------------------------------------------------------------------------------
(* The queue.                                                               *)

Pending == {r \in Runs : held[r].in}

\* RunFinished, for each run the poller announces, the oldest end first.
RunFinished ==
    /\ poller.pc = "offer"
    /\ \E x \in poller.todo :
          /\ \A y \in poller.todo : ~Before(y[1], x[1])
          /\ poller' = [poller EXCEPT !.todo = @ \ {x}]
          /\ held' = IF \/ x[1] \in interpreted \union Pending
                        \/ Cardinality(Pending) >= MaxPending
                     THEN held
                     ELSE [held EXCEPT ![x[1]] = [NotHeld EXCEPT !.in = TRUE,
                                                                 !.status = x[2]]]
    /\ UNCHANGED <<run, refresh, left, interpreted, presence, chat, delivery>>

\* The pass goes on with the next item, or is over it.
Goto(label) == delivery' = [delivery EXCEPT !.pc = label]
NextItem == delivery' = [delivery EXCEPT !.pc = "deliver", !.run = 0,
                                         !.summary = "none"]

Retire(r) ==
    /\ held' = [held EXCEPT ![r] = NotHeld]
    /\ interpreted' = interpreted \union {r}
    /\ NextItem

\* Mutant: a run that is given up on is not offered again.
DropForGood(r) ==
    /\ IF held[r].attempts + 1 >= MaxAttempts
       THEN held' = [held EXCEPT ![r] = NotHeld] /\ interpreted' = interpreted \union {r}
       ELSE /\ held' = [held EXCEPT ![r].attempts = @ + 1]
            /\ UNCHANGED interpreted
    /\ NextItem

\* runTurn's error: the item waits for another pass, or is dropped.
Refused(r) ==
    /\ held' = IF held[r].attempts + 1 >= MaxAttempts
               THEN [held EXCEPT ![r] = NotHeld]
               ELSE [held EXCEPT ![r].attempts = @ + 1]
    /\ UNCHANGED interpreted
    /\ NextItem

\* Mutant: a run that stays silent is retried for ever.
SilentForEver(r) ==
    /\ held' = [held EXCEPT ![r].silent = @ + 1]
    /\ UNCHANGED interpreted
    /\ NextItem

\* errSilentTurn: a few of them, and the item is let go of.
Silent(r) ==
    IF held[r].silent + 1 >= maxSilentTurns THEN Retire(r)
    ELSE /\ held' = [held EXCEPT ![r].silent = @ + 1, ![r].attempts = @ + 1]
         /\ UNCHANGED interpreted
         /\ NextItem

-------------------------------------------------------------------------------
(* Deliver: one pass over the queue, in the one goroutine that makes passes.  *)

\* A tick or a nudge.
StartPass ==
    /\ delivery.pc = "idle" /\ Pending # {}
    /\ delivery' = [NoPass EXCEPT !.pc = "summarise", !.todo = Pending]
    /\ UNCHANGED <<experimentVars, held, interpreted, presence, chat>>

\* The oldest of them.
First(S) == {r \in S : \A q \in S : r <= q}

\* The summary is built without the developer, from the record as it was held.
Summarise ==
    /\ delivery.pc = "summarise"
    /\ \E r \in First(delivery.todo) :
          /\ delivery' = [delivery EXCEPT !.todo = @ \ {r}]
          /\ \/ /\ NoFault
                /\ held' = IF held[r].summary # "none" THEN held
                           ELSE [held EXCEPT ![r].summary =
                                               Reconciled(r, held[r].status)]
             \/ Fault /\ held' = held
    /\ UNCHANGED <<run, refresh, poller, interpreted, presence, chat>>

\* Then the items of a developer who is connected are delivered.
StartDelivery ==
    /\ delivery.pc = "summarise" /\ delivery.todo = {}
    /\ delivery' = IF presence = {} THEN NoPass
                   ELSE [NoPass EXCEPT !.pc = "deliver", !.todo = Pending]
    /\ UNCHANGED <<experimentVars, held, interpreted, presence, chat>>

\* The connection is looked up anew for every item.
TakeItem ==
    /\ delivery.pc = "deliver"
    /\ \/ /\ delivery.todo = {} \/ presence = {}
          /\ delivery' = NoPass
       \/ /\ presence # {}
          /\ \E r \in First(delivery.todo) :
                delivery' = IF held[r].summary = "none"
                            THEN [delivery EXCEPT !.todo = @ \ {r}]
                            ELSE [delivery EXCEPT !.pc = "session", !.todo = @ \ {r},
                                                  !.run = r]
    /\ UNCHANGED <<experimentVars, held, interpreted, presence, chat>>

\* Mutant: the results are built from the record as it is stored.
FindSessionUnrefreshed ==
    /\ delivery.pc = "session"
    /\ LET r == delivery.run
       IN  \/ /\ chat.gone
              /\ Retire(r) /\ NoFault
              /\ UNCHANGED refresh
           \/ /\ ~chat.gone
              /\ refresh' = [Begun(Delivery, r, run[r].record, "results") EXCEPT
                               ![Delivery].pc = "results"]
              /\ Goto("grade") /\ NoFault
              /\ UNCHANGED <<held, interpreted>>
           \/ Fault /\ Refused(r) /\ UNCHANGED refresh
    /\ UNCHANGED <<run, poller, presence, chat>>

\* runTurn: the conversation, and the grading of the run, which refreshes it.
FindSession ==
    /\ delivery.pc = "session"
    /\ LET r == delivery.run
       IN  \/ /\ chat.gone
              /\ Retire(r) /\ NoFault
              /\ UNCHANGED refresh
           \/ /\ ~chat.gone
              /\ refresh' = Begun(Delivery, r, run[r].record, "results")
              /\ Goto("grade") /\ NoFault
              /\ UNCHANGED <<held, interpreted>>
           \/ Fault /\ Refused(r) /\ UNCHANGED refresh
    /\ UNCHANGED <<run, poller, presence, chat>>

\* The graded summary, or the one that was held.
Graded ==
    /\ delivery.pc = "grade" /\ refresh[Delivery].pc = "answered"
    /\ delivery' = [delivery EXCEPT
          !.pc = "read",
          !.summary = IF refresh[Delivery].status # "none"
                      THEN refresh[Delivery].status
                      ELSE held[delivery.run].summary]
    /\ refresh' = [refresh EXCEPT ![Delivery] = NoRefresh]
    /\ UNCHANGED <<run, poller, left, held, interpreted, presence, chat>>

\* What the conversation has of the run decides what is left to do.
ReadMessages ==
    /\ delivery.pc = "read"
    /\ LET r == delivery.run
       IN  \/ chat.gone /\ Refused(r) /\ NoFault
           \/ Fault /\ Refused(r)
           \/ /\ ~chat.gone /\ NoFault
              /\ IF Injected(r) /\ Answered(r) THEN Retire(r)
                 ELSE /\ Goto(IF Injected(r) THEN "continue" ELSE "send")
                      /\ UNCHANGED <<held, interpreted>>
    /\ UNCHANGED <<run, refresh, poller, presence, chat>>

\* SendInjected and Continue: refused while a turn runs, without the session, or by
\* a limit; a message whose write is not acknowledged may be there.
StartTurn ==
    /\ delivery.pc \in {"send", "continue"}
    /\ LET r == delivery.run
           sent == IF delivery.pc = "send"
                   THEN Append(chat.messages, Summary(r, delivery.summary))
                   ELSE chat.messages
       IN  \/ /\ chat.gone \/ chat.turn # "none"
              /\ NoFault /\ Refused(r)
              /\ UNCHANGED chat
           \/ /\ ~chat.gone /\ chat.turn = "none"
              /\ Fault /\ Refused(r)
              /\ \E messages \in {chat.messages, sent} :
                    chat' = [chat EXCEPT !.messages = messages]
           \/ /\ ~chat.gone /\ chat.turn = "none"
              /\ NoFault
              /\ chat' = [chat EXCEPT !.messages = sent, !.turn = "delivery",
                                      !.for = r]
              /\ Goto("wait")
              /\ UNCHANGED <<held, interpreted>>
    /\ UNCHANGED <<run, refresh, poller, presence>>

\* The exchange is done; or it takes longer than TurnTimeout and goes on.
Wait ==
    /\ delivery.pc = "wait"
    /\ \/ /\ chat.turn # "delivery"
          /\ Goto("reread") /\ NoFault
          /\ UNCHANGED <<held, interpreted>>
       \/ /\ chat.turn = "delivery"
          /\ Fault /\ Refused(delivery.run)
    /\ UNCHANGED <<run, refresh, poller, presence, chat>>

Reread ==
    /\ delivery.pc = "reread"
    /\ LET r == delivery.run
       IN  \/ (chat.gone \/ ~Injected(r)) /\ NoFault /\ Refused(r)
           \/ Fault /\ Refused(r)
           \/ /\ ~chat.gone /\ Injected(r)
              /\ NoFault
              /\ IF Answered(r) THEN Retire(r) ELSE Silent(r)
    /\ UNCHANGED <<run, refresh, poller, presence, chat>>

DeliveryStep ==
    \/ StartPass \/ Summarise \/ StartDelivery \/ TakeItem \/ FindSession
    \/ Graded \/ ReadMessages \/ StartTurn \/ Wait \/ Reread
    \/ RefreshStep(Delivery) /\ UNCHANGED interpretVars

-------------------------------------------------------------------------------
(* The conversation, the developer, and a restart.                          *)

\* A turn stores a text; a store that fails leaves it silent.
Speak ==
    /\ chat.turn # "none" /\ ~chat.spoke /\ ~chat.gone
    /\ chat' = [chat EXCEPT !.messages = Append(@, Text), !.spoke = TRUE]
    /\ UNCHANGED <<experimentVars, held, interpreted, presence, delivery>>

TurnEnds ==
    /\ chat.turn # "none"
    /\ chat' = [chat EXCEPT
          !.turn = "none", !.for = 0, !.spoke = FALSE,
          !.unread = [r \in Runs |->
              IF r = chat.for /\ ~Answered(r) /\ @[r] < maxSilentTurns
              THEN @[r] + 1 ELSE @[r]]]
    /\ UNCHANGED <<experimentVars, held, interpreted, presence, delivery>>

Ask ==
    /\ chat.turn = "none" /\ ~chat.gone /\ left.asks > 0
    /\ left' = [left EXCEPT !.asks = @ - 1]
    /\ chat' = [chat EXCEPT !.turn = "developer"]
    /\ UNCHANGED <<run, refresh, poller, held, interpreted, presence, delivery>>

\* DeleteSession; a turn that runs ends by itself.
DeleteSession ==
    /\ ~chat.gone
    /\ Fault
    /\ chat' = [chat EXCEPT !.gone = TRUE, !.messages = <<>>]
    /\ UNCHANGED <<run, refresh, poller, held, interpreted, presence, delivery>>

Connect ==
    /\ left.developer
    /\ \E k \in Connections \ presence : presence' = presence \union {k}
    /\ UNCHANGED <<experimentVars, held, interpreted, chat, delivery>>

Disconnect ==
    /\ Fault
    /\ \E k \in presence : presence' = presence \ {k}
    /\ UNCHANGED <<run, refresh, poller, held, interpreted, chat, delivery>>

\* The process stops and starts again: a launch is cut off where it was.
Restart ==
    /\ Fault
    /\ run' = [r \in Runs |->
          IF run[r].launch \in {"created", "accepted", "refused", "failing"}
          THEN [run[r] EXCEPT !.launch = "done"] ELSE run[r]]
    /\ refresh' = [a \in Actors |-> NoRefresh]
    /\ poller' = NoTick
    /\ held' = [r \in Runs |-> NotHeld]
    /\ interpreted' = {}
    /\ presence' = {}
    /\ chat' = [chat EXCEPT !.turn = "none", !.for = 0, !.spoke = FALSE,
                            !.unread = [r \in Runs |-> 0]]
    /\ delivery' = NoPass

Next ==
    \/ ExperimentsStep /\ UNCHANGED interpretVars
    \/ RunFinished
    \/ DeliveryStep
    \/ Speak \/ TurnEnds
    \/ Ask \/ DeleteSession \/ Connect \/ Disconnect \/ Restart

\* The poller's and the service's loops go on, their calls return, and a turn ends
\* by the exchange's time limit.  Jobs need not end nor developers come.
Fairness ==
    /\ WF_vars(PollerStep /\ UNCHANGED interpretVars) /\ WF_vars(RunFinished)
    /\ WF_vars(DeliveryStep) /\ WF_vars(TurnEnds)

Spec == Init /\ [][Next]_vars /\ Fairness

-------------------------------------------------------------------------------
(* Properties.                                                              *)

TypeOK ==
    /\ ExperimentsTypeOK
    /\ held \in [Runs -> [in : BOOLEAN, status : {"none"} \union Ended,
                         summary : {"none"} \union Ended,
                         attempts : Nat, silent : 0..(maxSilentTurns - 1)]]
    /\ interpreted \subseteq Runs /\ presence \subseteq Connections
    /\ chat \in [messages : Seq([about : Runs \union {0}, status : Statuses]),
                 gone : BOOLEAN, turn : {"none", "developer", "delivery"},
                 for : Runs \union {0}, spoke : BOOLEAN,
                 unread : [Runs -> 0..maxSilentTurns]]
    /\ delivery \in [pc : {"idle", "summarise", "deliver", "session", "grade",
                          "read", "send", "continue", "wait", "reread"},
                     todo : SUBSET Runs, run : Runs \union {0},
                     summary : Statuses]

\* A run's summary is put into the conversation at most once (runTurn,
\* deliveryState): not again after a restart, a retry, a timeout, a message whose
\* write was not acknowledged, or a run that was dropped and offered anew.
InjectedOnce ==
    \A i, j \in DOMAIN chat.messages :
        chat.messages[i].about = chat.messages[j].about
        /\ chat.messages[i].about # 0 => i = j

\* A record of a job that was submitted says that it ended only when the job is over,
\* and with a word that is true of its end (refresh, settleForgotten): however late it
\* is written, whatever Ray has forgotten by then and whoever could not be reached.  It
\* is not claimed of a submission that returned an error, which is recorded as failed
\* although Ray may have accepted the job and run it (Launch).
RecordTellsTheEnd ==
    \A r \in Runs : run[r].record \in Ended => Settles(r, run[r].record)

\* The assistant is only shown the summary of a run that is over, with a word that is
\* true of its end, although the record may say that it runs again by then
\* (SessionResults refreshes before it summarises); or of one whose submission returned
\* an error, as failed.  A summary that is kept says no more than that, but for one
\* case: a failure that MLflow reports of a job that Ray still runs is kept at once
\* (reconcile).
SummaryTellsTheEnd ==
    /\ \A i \in DOMAIN chat.messages :
          chat.messages[i].about # 0 =>
             Tells(chat.messages[i].about, chat.messages[i].status)
    /\ \A r \in Runs : run[r].kept # "none" =>
          \/ Tells(r, run[r].kept)
          \/ run[r].kept = "failed" /\ run[r].mlflow = "failed"

\* A run is let go of for good only if it was answered, or nobody can answer it any
\* more, or as many turns as may be silent ran for it and left it unread (retire):
\* refusals and restarts do not add up to it.
LetGoForAReason ==
    \A r \in interpreted :
        \/ chat.gone
        \/ Answered(r)
        \/ chat.unread[r] >= maxSilentTurns

\* What a turn for a run says is its reading (deliveryState), so that the turn is
\* not counted as silent.
SpokenTurnsAreReplies ==
    [][chat.turn = "delivery" /\ ~chat.spoke /\ chat'.spoke
       => Answered(chat.for)']_vars

\* A job that is over is settled in its record in the end, and stays so (the
\* poller): a status that is written late is put right.
RecordsSettle ==
    \A r \in Runs : <>[](run[r].record # "none" /\ Over(r)
                         => run[r].record \in Ended)

\* Once the developer stays connected, every run that the poller goes on offering is
\* read in the end, or let go of for a reason (Tick, RunFinished, Deliver): none is
\* lost in a full queue, a dropped item, a refusal or a restart.  It does not offer
\* runs outside its window, and those that ended last if there are more than a batch.
FinishedRunsAreRead ==
    <>[](presence # {}) =>
        \A r \in Runs : <>[](r \in Offered =>
            chat.gone \/ Answered(r) \/ r \in interpreted)
===============================================================================
