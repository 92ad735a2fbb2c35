------------------------------- MODULE WsSession -------------------------------
(***************************************************************************)
(* One websocket connection (pkg/api/ws.go, ws_chat.go, ws_kernel.go): the    *)
(* read loop, one goroutine per operation, the only writer, and serve, which  *)
(* takes them all down.  An operation is a bounded read of the platform, a    *)
(* view of a chat exchange, a cell in the kernel, or a watch of the           *)
(* developer's conversations.  Exchange and announcements are ExchangeEvents. *)
(***************************************************************************)
EXTENDS ExchangeEvents, FiniteSets

CONSTANTS
    Plans,               \* what the client may ask for: a kind for each operation
    outboundBuffer,
    concurrentPerConnection

Kinds == {"read", "chat", "cell", "watch"}

ASSUME ConnectionAssumption ==
    /\ IsFiniteSet(Readers)
    /\ Plans \subseteq [Readers -> Kinds]
    /\ outboundBuffer \in Nat \ {0}
    /\ concurrentPerConnection \in Nat \ {0}

VARIABLES
    serving,     \* where serve is
    writer,      \* writeLoop: "on" or "gone"
    outbound,    \* the channel of frames
    running,     \* the operations a cancel message reaches
    work,        \* the WaitGroup: goroutines that have not called Done
    slots,       \* the operations that hold a slot
    op,          \* the goroutine of an operation
    view         \* what the client has received for it

sessionVars == <<serving, writer, outbound, running, work, slots, op, view>>
vars == <<exchange, announced, channel, serving, writer, outbound, running, work,
          slots, op, view>>

\* hand: the frame sendStream is to send.  spoken: the events of a cell so far.
\* snapshot: the announcements made when a watch read what is running.
NoOp == [pc |-> "none", kind |-> "none", cancelled |-> FALSE, hand |-> <<>>,
         spoken |-> 0, snapshot |-> 0]

NoView == [events |-> <<>>, done |-> FALSE]

Init ==
    /\ EventsInit
    /\ serving = "reading"
    /\ writer = "on"
    /\ outbound = [queue |-> <<>>, closed |-> 0, misused |-> 0]
    /\ running = {} /\ work = {} /\ slots = {}
    /\ \E plan \in Plans :
           op = [o \in Readers |-> [NoOp EXCEPT !.kind = plan[o]]]
    /\ view = [o \in Readers |-> NoView]

\* accepted, result, error, cancelled, pong and the snapshot of a watch are told
\* apart by the client only.
Message == [type |-> "message"]
Done(o) == [type |-> "done", op |-> o]
Event(o, n) == [type |-> "event", op |-> o, n |-> n]

Frames == [type : {"message"}] \union [type : {"done"}, op : Readers]
                                \union [type : {"event"}, op : Readers, n : Nat]

HasRoom == Len(outbound.queue) < outboundBuffer

\* A send on the channel, which ends the process once it is closed.
With(m) == IF outbound.closed > 0 THEN [outbound EXCEPT !.misused = @ + 1]
           ELSE [outbound EXCEPT !.queue = Append(@, m)]

\* send: dropped when there is no room.
Send(m) == outbound' = IF HasRoom \/ outbound.closed > 0 THEN With(m) ELSE outbound

\* The contexts: serve's, and an operation's, which descends from it.
ConnectionOver == serving # "reading"
Cancelled(o) == op[o].cancelled \/ ConnectionOver

-------------------------------------------------------------------------------
(* readLoop.                                                                  *)

\* A request with a new id: registered, counted, started.  A watch subscribes here.
Request(o) ==
    /\ serving = "reading"
    /\ op[o].pc = "none"
    /\ op' = [op EXCEPT ![o].pc = "begin"]
    /\ running' = running \union {o}
    /\ work' = work \union {o}
    /\ IF op[o].kind = "watch" THEN Watch(o) ELSE UNCHANGED channel
    /\ UNCHANGED <<exchange, announced, serving, writer, outbound, slots, view>>

\* The same id again while it runs is refused.
RequestAgain(o) ==
    /\ serving = "reading"
    /\ o \in running
    /\ Send(Message)
    /\ UNCHANGED <<eventVars, serving, writer, running, work, slots, op, view>>

\* cancelOperation: whatever it reaches, or the answer that it is over.
CancelOperation(o) ==
    /\ serving = "reading"
    /\ op[o].pc # "none"
    /\ IF o \in running
       THEN op' = [op EXCEPT ![o].cancelled = TRUE] /\ UNCHANGED outbound
       ELSE Send(Message) /\ UNCHANGED op
    /\ UNCHANGED <<eventVars, serving, writer, running, work, slots, view>>

\* What the read loop answers itself: a ping, a decision, a token, chat_cancel.
Answer ==
    /\ serving = "reading"
    /\ Send(Message)
    /\ UNCHANGED <<eventVars, serving, writer, running, work, slots, op, view>>

\* The client goes, or its read deadline passes; serve cancels the context.
ReadEnds ==
    /\ serving = "reading"
    /\ serving' = "waiting"
    /\ UNCHANGED <<eventVars, writer, outbound, running, work, slots, op, view>>

-------------------------------------------------------------------------------
(* An operation's goroutine.                                                  *)

Goes(o, pc) == op' = [op EXCEPT ![o].pc = pc]

\* start: accepted, before there is a slot.
Accept(o) ==
    /\ op[o].kind = "read" /\ op[o].pc = "begin"
    /\ Send(Message)
    /\ Goes(o, "slot")
    /\ UNCHANGED <<eventVars, serving, writer, running, work, slots, view>>

\* Mutant: one slot too many is given.
TakeSlotOver(o) ==
    /\ op[o].pc = "slot"
    /\ Cardinality(slots) <= concurrentPerConnection
    /\ slots' = slots \union {o}
    /\ Goes(o, "work")
    /\ UNCHANGED <<eventVars, serving, writer, outbound, running, work, view>>

TakeSlot(o) ==
    /\ op[o].pc = "slot"
    /\ Cardinality(slots) < concurrentPerConnection
    /\ slots' = slots \union {o}
    /\ Goes(o, "work")
    /\ UNCHANGED <<eventVars, serving, writer, outbound, running, work, view>>

\* The same select: cancelled while it queues.
LeaveQueue(o) ==
    /\ op[o].pc = "slot"
    /\ Cancelled(o)
    /\ Send(Message)
    /\ Goes(o, "leave")
    /\ UNCHANGED <<eventVars, serving, writer, running, work, slots, view>>

\* run returns: a cancelled operation reports that, whatever it returned.
RunReturns(o) ==
    /\ op[o].pc = "work"
    /\ Send(Message)
    /\ Goes(o, "unslot")
    /\ UNCHANGED <<eventVars, serving, writer, running, work, slots, view>>

ReleaseSlot(o) ==
    /\ op[o].pc = "unslot"
    /\ slots' = slots \ {o}
    /\ Goes(o, "leave")
    /\ UNCHANGED <<eventVars, serving, writer, outbound, running, work, view>>

\* exchangeFor: a turn is begun, or the running one attached to.
FindExchange(o) ==
    /\ op[o].kind = "chat" /\ op[o].pc = "begin"
    /\ \/ BeginExchange
       \/ exchange.state = "running" /\ UNCHANGED exchange
    /\ Send(Message)
    /\ Goes(o, "subscribe")
    /\ UNCHANGED <<announced, channel, serving, writer, running, work, slots, view>>

\* Nothing to attach to.
FindNothing(o) ==
    /\ op[o].kind = "chat" /\ op[o].pc = "begin"
    /\ exchange.state # "running"
    /\ Send(Done(o))
    /\ Goes(o, "leave")
    /\ UNCHANGED <<eventVars, serving, writer, running, work, slots, view>>

\* exchangeFor and kernel.Run may fail.
Refuse(o) ==
    /\ op[o].kind \in {"chat", "cell"} /\ op[o].pc = "begin"
    /\ Send(Message)
    /\ Goes(o, "leave")
    /\ UNCHANGED <<eventVars, serving, writer, running, work, slots, view>>

\* relay begins.
SubscribeTo(o) ==
    /\ op[o].pc = "subscribe"
    /\ Subscribe(o)
    /\ Goes(o, "relay")
    /\ UNCHANGED <<exchange, announced, serving, writer, outbound, running, work, slots, view>>

\* kernel.Run has the cell's channel.
RunCell(o) ==
    /\ op[o].kind = "cell" /\ op[o].pc = "begin"
    /\ Send(Message)
    /\ Goes(o, "relay")
    /\ UNCHANGED <<eventVars, serving, writer, running, work, slots, view>>

\* watchActivity's goroutine.
AcceptWatch(o) ==
    /\ op[o].kind = "watch" /\ op[o].pc = "begin"
    /\ Send(Message)
    /\ Goes(o, "snapshot")
    /\ UNCHANGED <<eventVars, serving, writer, running, work, slots, view>>

\* Activities: an entry for a turn that runs.
ReadActivities(o) ==
    /\ op[o].pc = "snapshot"
    /\ op' = [op EXCEPT ![o].snapshot = announced,
                        ![o].pc = IF exchange.state = "running" THEN "forward" ELSE "relay",
                        ![o].hand = IF exchange.state = "running"
                                    THEN <<Message>> ELSE <<>>]
    /\ UNCHANGED <<eventVars, serving, writer, outbound, running, work, slots, view>>

\* The next event of an exchange or a watch.
TakeEvent(o) ==
    /\ op[o].kind \in {"chat", "watch"} /\ op[o].pc = "relay"
    /\ channel[o].queue # <<>>
    /\ channel' = [channel EXCEPT ![o].queue = Tail(@)]
    /\ op' = [op EXCEPT ![o].pc = "forward",
                        ![o].hand = <<Event(o, Head(channel[o].queue))>>]
    /\ UNCHANGED <<exchange, announced, serving, writer, outbound, running, work, slots, view>>

\* The next event of a cell, which its kernel decides.
CellSpeaks(o) ==
    /\ op[o].kind = "cell" /\ op[o].pc \in {"relay", "drain"}
    /\ op[o].spoken < MaxEvents
    /\ op' = [op EXCEPT ![o].spoken = @ + 1,
                        ![o].pc = IF @ = "relay" THEN "forward" ELSE @,
                        ![o].hand = IF op[o].pc = "relay"
                                    THEN <<Event(o, op[o].spoken + 1)>> ELSE @]
    /\ UNCHANGED <<eventVars, serving, writer, outbound, running, work, slots, view>>

\* Mutant: an event is dropped like an answer.
ForwardOrDrop(o) ==
    /\ op[o].pc = "forward"
    /\ Send(op[o].hand[1])
    /\ op' = [op EXCEPT ![o].pc = "relay", ![o].hand = <<>>]
    /\ UNCHANGED <<eventVars, serving, writer, running, work, slots, view>>

\* sendStream: it waits for room.
Forward(o) ==
    /\ op[o].pc = "forward"
    /\ HasRoom
    /\ outbound' = With(op[o].hand[1])
    /\ op' = [op EXCEPT ![o].pc = "relay", ![o].hand = <<>>]
    /\ UNCHANGED <<eventVars, serving, writer, running, work, slots, view>>

\* Mutant: sendStream does not look at its context.
StopNever(o) == FALSE

\* sendStream gives up with its context: for a cell the connection's, for the
\* others the operation's.  A cell is drained until it ends.
StopForwarding(o) ==
    /\ op[o].pc = "forward"
    /\ IF op[o].kind = "cell" THEN ConnectionOver ELSE Cancelled(o)
    /\ op' = [op EXCEPT ![o].pc = IF op[o].kind = "cell" THEN "drain" ELSE "detach",
                        ![o].hand = <<>>]
    /\ UNCHANGED <<eventVars, serving, writer, outbound, running, work, slots, view>>

\* relay and watchActivity: the channel is closed and read to its end.
StreamEnds(o) ==
    /\ op[o].kind \in {"chat", "watch"} /\ op[o].pc = "relay"
    /\ channel[o].queue = <<>> /\ channel[o].closed > 0
    /\ Send(Done(o))
    /\ Goes(o, "detach")
    /\ UNCHANGED <<eventVars, serving, writer, running, work, slots, view>>

\* The same select: the view is detached.
StreamCancelled(o) ==
    /\ op[o].kind \in {"chat", "watch"} /\ op[o].pc = "relay"
    /\ Cancelled(o)
    /\ Send(Message)
    /\ Goes(o, "detach")
    /\ UNCHANGED <<eventVars, serving, writer, running, work, slots, view>>

\* The cell is over: by itself, by its deadline, or interrupted.
CellEnds(o) ==
    /\ op[o].kind = "cell" /\ op[o].pc \in {"relay", "drain"}
    /\ IF op[o].pc = "relay" THEN Send(Done(o)) ELSE UNCHANGED outbound
    /\ Goes(o, "leave")
    /\ UNCHANGED <<eventVars, serving, writer, running, work, slots, view>>

DetachFrom(o) ==
    /\ op[o].pc = "detach"
    /\ Detach(o)
    /\ Goes(o, "leave")
    /\ UNCHANGED <<exchange, announced, serving, writer, outbound, running, work, slots, view>>

\* The deferred end: no longer running, then done.
Leave(o) ==
    /\ op[o].pc = "leave"
    /\ running' = running \ {o}
    /\ Goes(o, "done")
    /\ UNCHANGED <<eventVars, serving, writer, outbound, work, slots, view>>

WorkDone(o) ==
    /\ op[o].pc = "done"
    /\ work' = work \ {o}
    /\ Goes(o, "gone")
    /\ UNCHANGED <<eventVars, serving, writer, outbound, running, slots, view>>

-------------------------------------------------------------------------------
(* writeLoop, and the rest of serve.                                          *)

Received(m) ==
    CASE m.type = "event" -> [view EXCEPT ![m.op].events = Append(@, m.n)]
      [] m.type = "done" -> [view EXCEPT ![m.op].done = TRUE]
      [] OTHER -> view

Write ==
    /\ writer = "on"
    /\ outbound.queue # <<>>
    /\ outbound' = [outbound EXCEPT !.queue = Tail(@)]
    /\ view' = Received(Head(outbound.queue))
    /\ UNCHANGED <<eventVars, serving, writer, running, work, slots, op>>

\* A frame or a ping could not be written in time.
WriteFails ==
    /\ writer = "on"
    /\ writer' = "gone"
    /\ outbound' = [outbound EXCEPT !.queue = IF @ = <<>> THEN @ ELSE Tail(@)]
    /\ UNCHANGED <<eventVars, serving, running, work, slots, op, view>>

\* The context is over, or the channel closed and empty.
WriterEnds ==
    /\ writer = "on"
    /\ ConnectionOver
    /\ writer' = "gone"
    /\ UNCHANGED <<eventVars, serving, outbound, running, work, slots, op, view>>

\* Mutant: the channel is closed as soon as the context is cancelled.
CloseOutboundEarly ==
    /\ serving = "waiting"
    /\ serving' = "draining"
    /\ outbound' = [outbound EXCEPT !.closed = @ + 1]
    /\ UNCHANGED <<eventVars, writer, running, work, slots, op, view>>

CloseOutbound ==
    /\ serving = "waiting"
    /\ work = {}
    /\ serving' = "draining"
    /\ outbound' = [outbound EXCEPT !.closed = @ + 1]
    /\ UNCHANGED <<eventVars, writer, running, work, slots, op, view>>

CloseConnection ==
    /\ serving = "draining"
    /\ writer = "gone"
    /\ serving' = "closed"
    /\ UNCHANGED <<eventVars, writer, outbound, running, work, slots, op, view>>

-------------------------------------------------------------------------------
ClientStep ==
    \/ \E o \in Readers : Request(o) \/ RequestAgain(o) \/ CancelOperation(o)
    \/ Answer \/ ReadEnds

ReadStep(o) ==
    Accept(o) \/ TakeSlot(o) \/ LeaveQueue(o) \/ RunReturns(o) \/ ReleaseSlot(o)

StreamStep(o) ==
    \/ FindExchange(o) \/ FindNothing(o) \/ Refuse(o) \/ SubscribeTo(o)
    \/ AcceptWatch(o) \/ ReadActivities(o)
    \/ TakeEvent(o) \/ Forward(o) \/ StopForwarding(o)
    \/ StreamEnds(o) \/ StreamCancelled(o) \/ DetachFrom(o)

CellStep(o) == RunCell(o) \/ CellSpeaks(o) \/ CellEnds(o)

OperationStep(o) == ReadStep(o) \/ StreamStep(o) \/ CellStep(o) \/ Leave(o) \/ WorkDone(o)

WriterStep == Write \/ WriteFails \/ WriterEnds

ServeStep == CloseOutbound \/ CloseConnection

ExchangeStep == (Publish \/ Announce \/ CloseExchange) /\ UNCHANGED sessionVars

Next ==
    \/ ClientStep
    \/ \E o \in Readers : OperationStep(o)
    \/ WriterStep \/ ServeStep \/ ExchangeStep

Fairness ==
    /\ \A o \in Readers : WF_vars(OperationStep(o))
    /\ WF_vars(WriterStep)
    /\ WF_vars(ServeStep)

Spec == Init /\ [][Next]_vars /\ Fairness

-------------------------------------------------------------------------------
(* Properties.                                                                *)

Labels == {"none", "begin", "slot", "work", "unslot", "subscribe", "snapshot",
           "relay", "forward", "drain", "detach", "leave", "done", "gone"}

\* The types; the outbound channel and the slots stay within their capacity.
TypeOK ==
    /\ EventsTypeOK
    /\ serving \in {"reading", "waiting", "draining", "closed"}
    /\ writer \in {"on", "gone"}
    /\ outbound \in [queue : Seq(Frames), closed : Nat, misused : Nat]
    /\ Len(outbound.queue) <= outboundBuffer
    /\ running \subseteq Readers /\ work \subseteq Readers
    /\ slots \subseteq Readers /\ Cardinality(slots) <= concurrentPerConnection
    /\ op \in [Readers -> [pc : Labels, kind : Kinds, cancelled : BOOLEAN, hand : Seq(Frames), spoken : Nat,
                           snapshot : Nat]]
    /\ view \in [Readers -> [events : Seq(Nat), done : BOOLEAN]]

\* Nobody sends on a channel that is closed, and nobody closes one twice, however
\* publish, close, detach and serve's end meet (exchange.go:93-164,
\* activity.go:85-166, ws.go:335-352).  Either would end the process.
ChannelsAreUsedOpen ==
    /\ outbound.closed <= 1 /\ outbound.misused = 0
    /\ \A o \in Readers : channel[o].closed <= 1 /\ channel[o].misused = 0

\* What a client has received of a stream has no gap and no repetition; "done" comes
\* after all of it, unless the reader was dropped for falling behind (exchange.go:
\* 87-149, ws_chat.go:229-258, ws_kernel.go:118-136).  A watch continues where its
\* snapshot was read, or before (ws_chat.go:384-388).
ViewsAreWhole ==
    \A o \in Readers :
        /\ op[o].kind \in {"chat", "cell"} =>
               view[o].events = UpTo(Len(view[o].events))
        /\ op[o].kind = "chat" /\ channel[o].feed = "exchange" /\ view[o].done
               /\ ~channel[o].lagged =>
               exchange.state = "closed" /\ Len(view[o].events) = exchange.events
        /\ op[o].kind = "cell" /\ view[o].done => Len(view[o].events) = op[o].spoken
        /\ op[o].kind = "watch" /\ view[o].events # <<>> =>
               /\ view[o].events[1] <= op[o].snapshot + 1
               /\ \A i \in DOMAIN view[o].events :
                      view[o].events[i] = view[o].events[1] + i - 1

\* Where serve counts an operation, and where it holds a slot.
Counted(o) == op[o].pc \notin {"none", "gone"}
HoldsSlot(o) == op[o].pc \in {"work", "unslot"}

\* Whether there is what an operation waits for, where it waits.
MayGoOn(o) ==
    CASE op[o].pc = "slot"    -> Cancelled(o) \/ Cardinality(slots) < concurrentPerConnection
      [] op[o].pc = "forward" -> \/ HasRoom
                                 \/ IF op[o].kind = "cell" THEN ConnectionOver ELSE Cancelled(o)
      [] op[o].pc = "relay"   -> \/ op[o].kind = "cell" \/ Cancelled(o)
                                 \/ channel[o].queue # <<>> \/ channel[o].closed > 0
      [] OTHER                -> Counted(o)

ServeMayGoOn == \/ serving = "waiting" /\ work = {}
                \/ serving = "draining" /\ writer = "gone"

\* Nobody waits for what does not come, however subscribing, publishing, closing and
\* detaching meet (exchange.go:87-164, activity.go:85-166).  An operation that may not go
\* on queues for a slot that another works under, or waits for room in a queue that is
\* not empty, or for the events of an exchange that runs, or of a watch, and is
\* registered to get them.  The writer of that queue may be gone by then: what ends the
\* wait is the operation's context (OperationsEnd).  It waits only while the client is
\* there: after that serve waits for no operation that waits (ws.go:335-352, 460-503,
\* 676).
NobodyIsForgotten ==
    /\ \A o \in Readers : Counted(o) /\ ~MayGoOn(o) =>
           /\ serving = "reading" /\ op[o].pc \in {"slot", "forward", "relay"}
           /\ op[o].pc = "slot" => \E p \in Readers : HoldsSlot(p) /\ MayGoOn(p)
           /\ op[o].pc = "forward" => outbound.queue # <<>>
           /\ op[o].pc = "relay" =>
                  /\ channel[o].registered
                  /\ op[o].kind = "chat" => exchange.state = "running"
    /\ serving = "waiting" => ServeMayGoOn \/ \E o \in work : MayGoOn(o)
    /\ serving = "draining" => ServeMayGoOn \/ writer = "on"

\* A connection whose read loop has ended is closed, with no operation and no slot
\* left; and a cancelled operation other than a cell ends while the connection
\* lives, also when nothing drains it (ws.go:335-352, 631-683).
OperationsEnd ==
    /\ ConnectionOver ~> serving = "closed" /\ running = {} /\ slots = {}
    /\ \A o \in Readers :
           op[o].cancelled /\ op[o].kind # "cell" ~> op[o].pc = "gone"
===============================================================================
