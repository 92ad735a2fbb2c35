------------------------------- MODULE ChatHold -------------------------------
(***************************************************************************)
(* Held tool calls (pkg/chat/hold.go) of one session.  A provider that runs *)
(* its own loop calls ODE's tools over MCP; a call that needs consent waits *)
(* inside Hold until Decide answers it, its turn ends, its timer fires or   *)
(* its caller goes.  Engine.Confirm, the answer to a confirmation that      *)
(* nothing holds, works on the same rows and is here as well.               *)
(***************************************************************************)
EXTENDS ExchangeRegistry, Naturals, FiniteSets

CONSTANTS
    Calls,        \* tool calls that need the developer's consent
    Deciders,     \* Decide requests
    Strangers,    \* those of Deciders that do not own the hold they name
    Confirmers,   \* Confirm requests; each runs as an exchange of its own
    Turn,         \* the exchange whose provider makes the calls
    StoreFails    \* whether the database may refuse a write

ASSUME HoldAssumption ==
    /\ Exchanges = {Turn} \union Confirmers
    /\ Strangers \subseteq Deciders
    /\ StoreFails \in BOOLEAN

VARIABLES
    row,          \* stored confirmation of a call
    holds,        \* Engine.holds: the calls with a registered waiter
    decided,      \* hold.decided, the waiter's channel of capacity 1
    pc,           \* where Hold is
    exchange,     \* the exchange Hold attached to
    taken,        \* the decision Hold took from its channel
    outcome,      \* what Hold answers the caller with
    callGone,     \* calls whose own context has ended
    dispatched,   \* how many times the call's executor was entered
    noticed,      \* calls whose history holds an abandonment note
    deciders,     \* Decide requests
    confirmers    \* Confirm requests

callVars == <<decided, pc, exchange, taken, outcome, noticed>>
vars == <<registryVars, row, holds, callVars, callGone, dispatched,
          deciders, confirmers>>

Choices == {"approve", "reject"}

HoldStates == {"new", "attached", "stored", "waiting", "giving_up", "owed",
               "deciding", "running", "abandoning", "noting", "ending",
               "returned"}

Outcomes == {"none", "refused", "acted", "declined", "gave_up"}

\* Mutant: the wire word is stored.
RecordedVerbatim(choice) == choice

\* The stored form of a decision (DecisionApproved, DecisionRejected).
Recorded(choice) == IF choice = "approve" THEN "approved" ELSE "rejected"

\* Whether a write lands, and whether its acknowledgement comes back: once its
\* context has ended, or with a failing database, either may be lost.
WriteOutcomes(contextEnded) ==
    {TRUE} \union (IF contextEnded \/ StoreFails THEN {FALSE} ELSE {})

Goto(c, label) == pc' = [pc EXCEPT ![c] = label]

TypeOK ==
    /\ RegistryTypeOK
    /\ row \in [Calls -> {"absent", "pending", "approved", "rejected"}]
    /\ holds \subseteq Calls
    /\ decided \in [Calls -> Choices \union {"empty"}]
    /\ pc \in [Calls -> HoldStates]
    /\ exchange \in [Calls -> Exchanges \union {NoExchange}]
    /\ taken \in [Calls -> Choices \union {"none"}]
    /\ outcome \in [Calls -> Outcomes]
    /\ callGone \subseteq Calls
    /\ dispatched \in [Calls -> Nat]
    /\ noticed \subseteq Calls
    /\ deciders \in [Deciders -> [pc : {"idle", "sending", "accepted", "refused"},
                                  call : Calls, choice : Choices]]
    /\ confirmers \in [Confirmers ->
                         [pc : {"idle", "read", "unheld", "clear", "ruling",
                                "recording", "continuing", "finished"},
                          call : Calls, choice : Choices]]

Init ==
    /\ live = NoExchange
    /\ begun = {} /\ cancelled = {} /\ ended = {} /\ closed = {}
    /\ row = [c \in Calls |-> "absent"]
    /\ holds = {}
    /\ decided = [c \in Calls |-> "empty"]
    /\ pc = [c \in Calls |-> "new"]
    /\ exchange = [c \in Calls |-> NoExchange]
    /\ taken = [c \in Calls |-> "none"]
    /\ outcome = [c \in Calls |-> "none"]
    /\ callGone = {}
    /\ dispatched = [c \in Calls |-> 0]
    /\ noticed = {}
    /\ deciders \in [Deciders -> [pc : {"idle"}, call : Calls, choice : Choices]]
    /\ confirmers \in [Confirmers -> [pc : {"idle"}, call : Calls, choice : Choices]]

-----------------------------------------------------------------------------
(* Hold, up to the wait. *)

\* Attach, and Dispatch as far as OutcomeAwaitingConfirmation: with no exchange
\* running nobody would ever be asked, and the call is refused.
Enter(c) ==
    /\ pc[c] = "new"
    /\ IF Attached
       THEN /\ exchange' = [exchange EXCEPT ![c] = live]
            /\ Goto(c, "attached")
            /\ UNCHANGED outcome
       ELSE /\ outcome' = [outcome EXCEPT ![c] = "refused"]
            /\ Goto(c, "returned")
            /\ UNCHANGED exchange
    /\ UNCHANGED <<registryVars, row, holds, decided, taken, noticed, callGone,
                   dispatched, deciders, confirmers>>

\* PutConfirmation of the pending row, on the call's context.  An error refuses the
\* call, although the row may be there: the write landed and the answer was lost.
Store(c) ==
    /\ pc[c] = "attached"
    /\ \E landed, ok \in WriteOutcomes(c \in callGone) :
          /\ ok => landed
          /\ row' = [row EXCEPT ![c] = IF landed THEN "pending" ELSE @]
          /\ outcome' = [outcome EXCEPT ![c] = IF ok THEN @ ELSE "refused"]
          /\ Goto(c, IF ok THEN "stored" ELSE "returned")
    /\ UNCHANGED <<registryVars, holds, decided, exchange, taken, noticed, callGone,
                   dispatched, deciders, confirmers>>

\* beginHold.  The id is fresh (Dispatch mints it), so it is never taken.
BeginHold(c) ==
    /\ pc[c] = "stored"
    /\ holds' = holds \union {c}
    /\ Goto(c, "waiting")
    /\ UNCHANGED <<registryVars, row, decided, exchange, taken, outcome, noticed,
                   callGone, dispatched, deciders, confirmers>>

-----------------------------------------------------------------------------
(* The four cases of Hold's select, and giveUp.  select picks any case that is *)
(* ready, so a decision already in the channel may lose to a timer.            *)

TakeDecision(c) ==
    /\ pc[c] \in {"waiting", "owed"}
    /\ decided[c] # "empty"
    /\ taken' = [taken EXCEPT ![c] = decided[c]]
    /\ decided' = [decided EXCEPT ![c] = "empty"]
    /\ Goto(c, "deciding")
    /\ UNCHANGED <<registryVars, row, holds, exchange, outcome, noticed, callGone,
                   dispatched, deciders, confirmers>>

GiveUp(c) ==
    /\ pc[c] = "waiting"
    /\ Goto(c, "giving_up")
    /\ UNCHANGED <<registryVars, row, holds, decided, exchange, taken, outcome,
                   noticed, callGone, dispatched, deciders, confirmers>>

\* The timer may always have fired by the time select looks.
TimeOut(c) == GiveUp(c)

TurnOver(c) == exchange[c] \in closed /\ GiveUp(c)

CallerLeft(c) == c \in callGone /\ GiveUp(c)

\* Mutant: giving up does not ask whether a decision got there first.
ClaimHoldBlindly(c) ==
    /\ pc[c] = "giving_up"
    /\ holds' = holds \ {c}
    /\ Goto(c, "abandoning")
    /\ UNCHANGED <<registryVars, row, decided, exchange, taken, outcome, noticed,
                   callGone, dispatched, deciders, confirmers>>

\* claimHold: whoever removes the waiter owns the outcome.
ClaimHold(c) ==
    /\ pc[c] = "giving_up"
    /\ holds' = holds \ {c}
    /\ Goto(c, IF c \in holds THEN "abandoning" ELSE "owed")
    /\ UNCHANGED <<registryVars, row, decided, exchange, taken, outcome, noticed,
                   callGone, dispatched, deciders, confirmers>>

-----------------------------------------------------------------------------
(* resolveHold: record the decision on the call's own context, then act on it. *)

\* Mutant: the early return of a rejection is missing.
RecordDecisionAndRun(c) ==
    /\ pc[c] = "deciding"
    /\ row' = [row EXCEPT ![c] = Recorded(taken[c])]
    /\ Goto(c, "running")
    /\ UNCHANGED <<registryVars, holds, decided, exchange, taken, outcome, noticed,
                   callGone, dispatched, deciders, confirmers>>

RecordDecision(c) ==
    /\ pc[c] = "deciding"
    /\ \E ok \in WriteOutcomes(c \in callGone) :
          row' = [row EXCEPT ![c] = IF ok THEN Recorded(taken[c]) ELSE @]
    /\ IF taken[c] = "approve"
       THEN Goto(c, "running") /\ UNCHANGED outcome
       ELSE Goto(c, "ending") /\ outcome' = [outcome EXCEPT ![c] = "declined"]
    /\ UNCHANGED <<registryVars, holds, decided, exchange, taken, noticed, callGone,
                   dispatched, deciders, confirmers>>

\* Dispatcher.Confirm: the executor runs unless the tier, read again, forbids it;
\* either way the caller gets the answer of an approved call.
RunHeld(c) ==
    /\ pc[c] = "running"
    /\ \E permitted \in BOOLEAN :
          dispatched' = [dispatched EXCEPT ![c] = IF permitted THEN @ + 1 ELSE @]
    /\ outcome' = [outcome EXCEPT ![c] = "acted"]
    /\ Goto(c, "ending")
    /\ UNCHANGED <<registryVars, row, holds, decided, exchange, taken, noticed,
                   callGone, deciders, confirmers>>

(* abandonHold: both writes are detached from the call's context. *)

\* Mutant: the retirement is written on the call's own context.
RetireRowAttached(c) ==
    /\ pc[c] = "abandoning"
    /\ \E ok \in WriteOutcomes(c \in callGone) :
          row' = [row EXCEPT ![c] = IF ok THEN "rejected" ELSE @]
    /\ Goto(c, "noting")
    /\ UNCHANGED <<registryVars, holds, decided, exchange, taken, outcome, noticed,
                   callGone, dispatched, deciders, confirmers>>

RetireRow(c) ==
    /\ pc[c] = "abandoning"
    /\ \E ok \in WriteOutcomes(FALSE) :
          row' = [row EXCEPT ![c] = IF ok THEN "rejected" ELSE @]
    /\ Goto(c, "noting")
    /\ UNCHANGED <<registryVars, holds, decided, exchange, taken, outcome, noticed,
                   callGone, dispatched, deciders, confirmers>>

AppendNotice(c) ==
    /\ pc[c] = "noting"
    /\ \E ok \in WriteOutcomes(FALSE) :
          noticed' = IF ok THEN noticed \union {c} ELSE noticed
    /\ outcome' = [outcome EXCEPT ![c] = "gave_up"]
    /\ Goto(c, "ending")
    /\ UNCHANGED <<registryVars, row, holds, decided, exchange, taken, callGone,
                   dispatched, deciders, confirmers>>

\* The deferred endHold.
EndHold(c) ==
    /\ pc[c] = "ending"
    /\ holds' = holds \ {c}
    /\ Goto(c, "returned")
    /\ UNCHANGED <<registryVars, row, decided, exchange, taken, outcome, noticed,
                   callGone, dispatched, deciders, confirmers>>

-----------------------------------------------------------------------------
(* Decide. *)

DeciderAt(d, label) == deciders' = [deciders EXCEPT ![d].pc = label]

\* Mutants: the owner is not checked; the owner is checked after the waiter was
\* removed.
ClaimToDecideForAnyone(d) ==
    /\ deciders[d].pc = "idle"
    /\ deciders[d].call \in holds
    /\ holds' = holds \ {deciders[d].call}
    /\ DeciderAt(d, "sending")
    /\ UNCHANGED <<registryVars, row, callVars, callGone, dispatched, confirmers>>

ClaimToDecideThenCheck(d) ==
    /\ deciders[d].pc = "idle"
    /\ deciders[d].call \in holds
    /\ holds' = holds \ {deciders[d].call}
    /\ DeciderAt(d, IF d \in Strangers THEN "refused" ELSE "sending")
    /\ UNCHANGED <<registryVars, row, callVars, callGone, dispatched, confirmers>>

\* Under holdMux: look the waiter up, check its owner, and only then remove it.
ClaimToDecide(d) ==
    LET c == deciders[d].call
        mine == c \in holds /\ d \notin Strangers
    IN  /\ deciders[d].pc = "idle"
        /\ row[c] # "absent"
        /\ holds' = IF mine THEN holds \ {c} ELSE holds
        /\ DeciderAt(d, IF mine THEN "sending" ELSE "refused")
        /\ UNCHANGED <<registryVars, row, callVars, callGone, dispatched, confirmers>>

\* The send, after the unlock; nil is returned to the developer.
SendDecision(d) ==
    LET c == deciders[d].call
    IN  /\ deciders[d].pc = "sending"
        /\ decided[c] = "empty"
        /\ decided' = [decided EXCEPT ![c] = deciders[d].choice]
        /\ DeciderAt(d, "accepted")
        /\ UNCHANGED <<registryVars, row, holds, pc, exchange, taken, outcome, noticed,
                       callGone, dispatched, confirmers>>

-----------------------------------------------------------------------------
(* Engine.Confirm.  Its three checks are three separate looks at shared state. *)

ConfirmerAt(n, label) == confirmers' = [confirmers EXCEPT ![n].pc = label]

ReadConfirmation(n) ==
    /\ confirmers[n].pc = "idle"
    /\ ConfirmerAt(n, IF row[confirmers[n].call] = "pending" THEN "read" ELSE "finished")
    /\ row[confirmers[n].call] # "absent"
    /\ UNCHANGED <<registryVars, row, holds, callVars, callGone, dispatched, deciders>>

CheckUnheld(n) ==
    /\ confirmers[n].pc = "read"
    /\ ConfirmerAt(n, IF confirmers[n].call \in holds THEN "finished" ELSE "unheld")
    /\ UNCHANGED <<registryVars, row, holds, callVars, callGone, dispatched, deciders>>

CheckIdle(n) ==
    /\ confirmers[n].pc = "unheld"
    /\ ConfirmerAt(n, IF Attached THEN "finished" ELSE "clear")
    /\ UNCHANGED <<registryVars, row, holds, callVars, callGone, dispatched, deciders>>

BeginConfirm(n) ==
    /\ confirmers[n].pc = "clear"
    /\ Begin(n)
    /\ ConfirmerAt(n, "ruling")
    /\ UNCHANGED <<row, holds, callVars, callGone, dispatched, deciders>>

\* The tool runs first ...
RunConfirmed(n) ==
    /\ confirmers[n].pc = "ruling"
    /\ \E permitted \in (IF confirmers[n].choice = "approve" THEN BOOLEAN ELSE {FALSE}) :
          dispatched' = [dispatched EXCEPT
                            ![confirmers[n].call] = IF permitted THEN @ + 1 ELSE @]
    /\ ConfirmerAt(n, "recording")
    /\ UNCHANGED <<registryVars, row, holds, callVars, callGone, deciders>>

\* ... and the decision is recorded after it, on the exchange's own context.
RecordConfirmed(n) ==
    /\ confirmers[n].pc = "recording"
    /\ \E ok \in WriteOutcomes(n \in cancelled) :
          row' = [row EXCEPT ![confirmers[n].call] =
                     IF ok THEN Recorded(confirmers[n].choice) ELSE @]
    /\ ConfirmerAt(n, "continuing")
    /\ UNCHANGED <<registryVars, holds, callVars, callGone, dispatched, deciders>>

\* The continuation (run) ends, and finish removes the exchange.
EndConfirm(n) ==
    /\ confirmers[n].pc = "continuing"
    /\ Deregister(n)
    /\ ConfirmerAt(n, "finished")
    /\ UNCHANGED <<row, holds, callVars, callGone, dispatched, deciders>>

-----------------------------------------------------------------------------
(* The turn, and what ends contexts. *)

confirmationVars == <<row, holds, callVars, dispatched, deciders, confirmers>>

\* start looked at the registry some time before, when nothing was running yet.
BeginTurn == Begin(Turn) /\ UNCHANGED <<callGone, confirmationVars>>

EndTurn == Deregister(Turn) /\ UNCHANGED <<callGone, confirmationVars>>

CloseExchange(x) == Close(x) /\ UNCHANGED <<callGone, confirmationVars>>

CancelExchange(x) == Cancel(x) /\ UNCHANGED <<callGone, confirmationVars>>

\* The MCP request's context ends.
CallGoes(c) ==
    /\ pc[c] \notin {"new", "returned"}
    /\ c \notin callGone
    /\ callGone' = callGone \union {c}
    /\ UNCHANGED <<registryVars, confirmationVars>>

-----------------------------------------------------------------------------
\* What Hold does by itself once the confirmation is stored.
HoldStep(c) ==
    \/ BeginHold(c) \/ TakeDecision(c) \/ TimeOut(c) \/ TurnOver(c) \/ CallerLeft(c)
    \/ ClaimHold(c) \/ RecordDecision(c) \/ RunHeld(c)
    \/ RetireRow(c) \/ AppendNotice(c) \/ EndHold(c)

ConfirmStep(n) ==
    \/ ReadConfirmation(n) \/ CheckUnheld(n) \/ CheckIdle(n) \/ BeginConfirm(n)
    \/ RunConfirmed(n) \/ RecordConfirmed(n) \/ EndConfirm(n)

Next ==
    \/ \E c \in Calls : Enter(c) \/ Store(c) \/ HoldStep(c) \/ CallGoes(c)
    \/ \E d \in Deciders : ClaimToDecide(d) \/ SendDecision(d)
    \/ \E n \in Confirmers : ConfirmStep(n)
    \/ BeginTurn \/ EndTurn
    \/ \E x \in Exchanges : CloseExchange(x) \/ CancelExchange(x)

\* The send that follows a claim of c.
SendTo(c) == \E d \in Deciders : deciders[d].call = c /\ SendDecision(d)

\* A goroutine that can run does run: Hold's own steps (its timer is always
\* armed, and a tool's executor returns) and the send that follows a claim.
HoldRuns(c) == WF_vars(HoldStep(c))
SendRuns(c) == WF_vars(SendTo(c))

Fairness == \A c \in Calls : HoldRuns(c) /\ SendRuns(c)

Spec == Init /\ [][Next]_vars /\ Fairness

-----------------------------------------------------------------------------
(* Properties. *)

\* The Decide requests that removed the waiter of c.
Takers(c) == {d \in Deciders : /\ deciders[d].call = c
                               /\ deciders[d].pc \in {"sending", "accepted"}}

\* Whoever takes the waiter owns the outcome: at most one Decide takes a call, and
\* none takes one that is given up on, so the note saying that nobody answered is
\* never written over an answer.
OneSideTakesTheCall ==
    \A c \in Calls :
        /\ \A d, e \in Takers(c) : d = e
        /\ c \in noticed \/ outcome[c] = "gave_up" => Takers(c) = {}

\* A developer whose Decide returned nil was told the truth: theirs is the only
\* decision, and the held call's answer is theirs, whatever the timer, the end of
\* the turn or the loss of the caller did meanwhile (hold.go, giveUp).
AcceptedDecisionStands ==
    /\ OneSideTakesTheCall
    /\ \A d \in Deciders :
           deciders[d].pc = "accepted" =>
               outcome[deciders[d].call] \in
                   {"none", IF deciders[d].choice = "approve" THEN "acted" ELSE "declined"}

\* A held call is acted on only if its owner approved it: a confirmation id is not
\* enough to answer a call held for another conversation or developer.
ActedOnlyOnApproval ==
    \A c \in Calls :
        outcome[c] = "acted" =>
            \E d \in Deciders \ Strangers :
                /\ deciders[d].call = c
                /\ deciders[d].choice = "approve"
                /\ deciders[d].pc = "accepted"

\* A card outlives its call only if the caller was lost, and never a call that was
\* given up on (abandonHold retires it detached from the caller).  With a database
\* that works, a confirmation that is still pending when Hold has returned belongs
\* to a caller that left, and to one of two writes on the caller's context: it was
\* stored and the answer lost, so the call was refused; or it was decided and the
\* decision not recorded.
CardOutlivesOnlyALostCall ==
    \A c \in Calls :
        pc[c] = "returned" /\ row[c] = "pending" =>
            \/ StoreFails
            \/ c \in callGone /\ outcome[c] \in {"acted", "declined", "refused"}

\* No Hold is stuck: it can take its next step itself, but for one that is owed a
\* decision, and then the Decide that took its waiter can still send it (hold.go:
\* a claim that fails means that a decision is in flight).
NoHoldIsStuck ==
    \A c \in Calls :
        /\ pc[c] \in HoldStates \ {"new", "attached", "owed", "returned"}
              => ENABLED <<HoldStep(c)>>_vars
        /\ pc[c] = "owed" => IF decided[c] = "empty" THEN ENABLED <<SendTo(c)>>_vars
                                                    ELSE ENABLED <<HoldStep(c)>>_vars

\* A held call returns, whatever the developer does: no claim leaves it waiting
\* for a decision that is never sent.
HeldCallReturns == \A c \in Calls : pc[c] = "waiting" ~> pc[c] = "returned"

\* A call's executor is entered once, however the confirmation is answered
\* (engine.go: running a held call from Confirm "would dispatch the tool a second
\* time"; ErrAlreadyResolved).
NoSecondDispatch == \A c \in Calls : dispatched[c] <= 1

\* What the held calls look like to the abstract specification.
Abstraction ==
    [c \in Calls |->
        IF outcome[c] \in {"acted", "declined", "gave_up"} THEN outcome[c]
        ELSE IF c \in holds THEN "open"
        ELSE IF pc[c] \in {"abandoning", "noting"} THEN "withdrawn"
        ELSE IF Takers(c) = {} THEN "unasked"
        ELSE IF \E d \in Takers(c) : deciders[d].choice = "approve" THEN "approved"
        ELSE "rejected"]

Answer == INSTANCE HeldAnswer WITH call <- Abstraction

\* Hold, Decide and the ways a hold ends implement the promise of HeldAnswer:
\* one side takes an open call, its choice is the answer, and an answer is given.
ImplementsHeldAnswer == Answer!Spec

=============================================================================
