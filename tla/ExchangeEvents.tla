---------------------------- MODULE ExchangeEvents ----------------------------
(***************************************************************************)
(* Who is told what: the event stream of one exchange (pkg/chat/exchange.go)  *)
(* with its subscribers, and the announcements of what a developer's          *)
(* conversations are doing (pkg/chat/activity.go) with their watchers.  Both   *)
(* fan out without blocking: a reader whose buffer is full is dropped and its  *)
(* channel closed.  Events and announcements are numbered as they come.       *)
(***************************************************************************)
EXTENDS Integers, Sequences

CONSTANTS
    Readers,            \* whoever may subscribe or watch, once each
    subscriberBuffer,
    watcherBuffer,
    MaxEvents           \* bounds the events, and the announcements

ASSUME BuffersAssumption ==
    /\ subscriberBuffer \in Nat /\ watcherBuffer \in Nat
    /\ MaxEvents \in Nat

VARIABLES
    exchange,     \* the turn: has it begun or closed, and its events so far
    announced,    \* the announcements so far
    channel       \* a reader's channel

eventVars == <<exchange, announced, channel>>

\* registered: it is in Exchange.subs or Engine.watchers.  closed counts the times
\* it was closed, and misused the sends on it after that: either ends the process.
NoChannel == [feed |-> "none", registered |-> FALSE, queue |-> <<>>, room |-> 0,
              closed |-> 0, misused |-> 0, lagged |-> FALSE]

EventsInit ==
    /\ exchange = [state |-> "none", events |-> 0]
    /\ announced = 0
    /\ channel = [o \in Readers |-> NoChannel]

\* newExchange and EventStarted, which is in the history before anyone attaches.
BeginExchange ==
    /\ exchange.state = "none"
    /\ exchange' = [state |-> "running", events |-> 1]

UpTo(n) == [i \in 1..n |-> i]

NewChannel(feed, queue, room, over) ==
    [feed |-> feed, registered |-> ~over, queue |-> queue, room |-> room,
     closed |-> IF over THEN 1 ELSE 0, misused |-> 0, lagged |-> FALSE]

\* Mutant: the replay is left to a read of the history that comes before.
SubscribeLate(o) ==
    channel' = [channel EXCEPT ![o] =
        NewChannel("exchange", <<>>, subscriberBuffer, exchange.state = "closed")]

\* Mutant: a subscriber of an exchange that is over is registered with it.
SubscribeAnyway(o) ==
    channel' = [channel EXCEPT ![o] =
        NewChannel("exchange", UpTo(exchange.events), subscriberBuffer + exchange.events,
                   FALSE)]

\* Subscribe, under the exchange's lock: the history first.
Subscribe(o) ==
    channel' = [channel EXCEPT ![o] =
        NewChannel("exchange", UpTo(exchange.events), subscriberBuffer + exchange.events,
                   exchange.state = "closed")]

\* Watch.
Watch(o) ==
    channel' = [channel EXCEPT ![o] = NewChannel("activity", <<>>, watcherBuffer, FALSE)]

Closed(c) == [c EXCEPT !.closed = @ + 1, !.registered = FALSE]

Sent(c, n) == IF c.closed > 0 THEN [c EXCEPT !.misused = @ + 1]
              ELSE [c EXCEPT !.queue = Append(@, n)]

\* Mutant: the reader that is dropped stays registered.
OfferedStill(c, n) ==
    IF Len(c.queue) < c.room THEN Sent(c, n)
    ELSE [c EXCEPT !.lagged = TRUE, !.closed = @ + 1]

\* The select in publish and publishActivity.
Offered(c, n) ==
    IF Len(c.queue) < c.room THEN Sent(c, n) ELSE [Closed(c) EXCEPT !.lagged = TRUE]

Told(feed, n) ==
    channel' = [o \in Readers |->
        IF channel[o].registered /\ channel[o].feed = feed
        THEN Offered(channel[o], n) ELSE channel[o]]

\* publish.
Publish ==
    /\ exchange.state = "running"
    /\ exchange.events < MaxEvents
    /\ exchange' = [exchange EXCEPT !.events = @ + 1]
    /\ Told("exchange", exchange.events + 1)
    /\ UNCHANGED announced

\* publishActivity.  Announcements are counted from the first watch on: before it
\* nobody is told.
Announce ==
    /\ \E o \in Readers : channel[o].feed = "activity"
    /\ announced < MaxEvents
    /\ announced' = announced + 1
    /\ Told("activity", announced + 1)
    /\ UNCHANGED exchange

\* Exchange.close: whoever is registered is closed and deregistered.
CloseExchange ==
    /\ exchange.state = "running"
    /\ exchange' = [exchange EXCEPT !.state = "closed"]
    /\ channel' = [o \in Readers |->
           IF channel[o].registered /\ channel[o].feed = "exchange"
           THEN Closed(channel[o]) ELSE channel[o]]
    /\ UNCHANGED announced

\* Mutant: detach closes the channel without looking for the entry.
DetachAlways(o) ==
    channel' = [channel EXCEPT ![o] = [Closed(channel[o]) EXCEPT !.queue = <<>>]]

\* Exchange.detach, and the function Watch returns.  What is left in the queue is
\* never read.
Detach(o) ==
    LET left == IF channel[o].registered THEN Closed(channel[o]) ELSE channel[o]
    IN  channel' = [channel EXCEPT ![o] = [left EXCEPT !.queue = <<>>]]

EventsTypeOK ==
    /\ exchange \in [state : {"none", "running", "closed"}, events : Nat]
    /\ announced \in Nat
    /\ channel \in [Readers -> [feed : {"none", "exchange", "activity"},
                                registered : BOOLEAN, queue : Seq(Nat), room : Nat,
                                closed : Nat, misused : Nat, lagged : BOOLEAN]]
===============================================================================
