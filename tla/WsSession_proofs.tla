---------------------------- MODULE WsSession_proofs ----------------------------
(***************************************************************************)
(* Proofs about WsSession, for any operations, plans and buffers: its types;   *)
(* that no channel is used after it is closed; that a view has no gap; that a  *)
(* closed connection leaves nothing behind; that nobody waits for what does    *)
(* not come; and that an operation runs out of steps.                         *)
(***************************************************************************)
EXTENDS WsSession, FiniteSetTheorems, TLAPS

ChannelType == [feed : {"none", "exchange", "activity"}, registered : BOOLEAN,
                queue : Seq(Nat), room : Nat, closed : Nat, misused : Nat,
                lagged : BOOLEAN]

ExchangeType == [state : {"none", "running", "closed"}, events : Nat]

OpType == [pc : Labels, kind : Kinds, cancelled : BOOLEAN, hand : Seq(Frames),
           spoken : Nat, snapshot : Nat]

ViewType == [events : Seq(Nat), done : BOOLEAN]

OutboundType == [queue : Seq(Frames), closed : Nat, misused : Nat]

EventsTypes == /\ exchange \in ExchangeType /\ announced \in Nat
               /\ channel \in [Readers -> ChannelType]

OutboundOK == outbound \in OutboundType /\ Len(outbound.queue) <= outboundBuffer

SlotsOK == slots \subseteq Readers /\ Cardinality(slots) <= concurrentPerConnection

OpsOK == op \in [Readers -> OpType]

ViewsOK == view \in [Readers -> ViewType]

RestOK == /\ serving \in {"reading", "waiting", "draining", "closed"}
          /\ writer \in {"on", "gone"}
          /\ running \subseteq Readers /\ work \subseteq Readers

\* An operation that forwards has a frame in its hand.
HandInv == \A o \in Readers : op[o].pc = "forward" => op[o].hand # <<>>

TypeInv == EventsTypes /\ OutboundOK /\ SlotsOK /\ OpsOK /\ ViewsOK /\ RestOK /\ HandInv

LEMMA TypesOfInv == TypeInv <=> TypeOK /\ HandInv
BY DEF TypeInv, TypeOK, EventsTypeOK, EventsTypes, OutboundOK, SlotsOK, OpsOK, ViewsOK,
       RestOK, ChannelType, ExchangeType, OpType, ViewType, OutboundType

-----------------------------------------------------------------------------
(* Frames, channels and the outbound channel.                               *)

LEMMA FramesAre ==
    /\ Message \in Frames
    /\ \A o \in Readers : Done(o) \in Frames
    /\ \A o \in Readers, n \in Nat : Event(o, n) \in Frames
    /\ \A m \in Frames : /\ m.type \in {"message", "done", "event"}
                         /\ m.type = "done" => m.op \in Readers
                         /\ m.type = "event" => m.op \in Readers /\ m.n \in Nat
BY DEF Frames, Message, Done, Event

LEMMA SendKeepsType ==
    ASSUME OutboundOK, NEW m \in Frames, Send(m)
    PROVE  OutboundOK'
<1>1. CASE outbound.closed > 0
  BY <1>1 DEF OutboundOK, Send, With, OutboundType
<1>2. CASE ~(outbound.closed > 0) /\ HasRoom
  <2>1. outbound' = [outbound EXCEPT !.queue = Append(@, m)]
    BY <1>2 DEF Send, With
  <2>2. /\ Append(outbound.queue, m) \in Seq(Frames)
        /\ Len(Append(outbound.queue, m)) = Len(outbound.queue) + 1
        /\ Len(outbound.queue) + 1 <= outboundBuffer
    BY <1>2, ConnectionAssumption DEF OutboundOK, OutboundType, HasRoom
  <2>3. QED
    BY <2>1, <2>2 DEF OutboundOK, OutboundType
<1>3. CASE ~(outbound.closed > 0) /\ ~HasRoom
  BY <1>3 DEF OutboundOK, Send
<1>4. QED
  BY <1>1, <1>2, <1>3

LEMMA ClosedKeepsType ==
    ASSUME NEW c \in ChannelType
    PROVE  /\ Closed(c) \in ChannelType
           /\ Closed(c).registered = FALSE /\ Closed(c).closed = c.closed + 1
           /\ Closed(c).feed = c.feed /\ Closed(c).queue = c.queue
           /\ Closed(c).misused = c.misused /\ Closed(c).lagged = c.lagged
<1>1. c.closed + 1 \in Nat
  BY DEF ChannelType
<1>2. QED
  BY <1>1 DEF Closed, ChannelType

LEMMA OfferedKeepsType ==
    ASSUME NEW c \in ChannelType, NEW n \in Nat
    PROVE  Offered(c, n) \in ChannelType
<1>1. CASE Len(c.queue) < c.room /\ c.closed > 0
  <2>1. c.misused + 1 \in Nat /\ Offered(c, n) = [c EXCEPT !.misused = @ + 1]
    BY <1>1 DEF Offered, Sent, ChannelType
  <2>2. QED
    BY <2>1 DEF ChannelType
<1>2. CASE Len(c.queue) < c.room /\ ~(c.closed > 0)
  <2>1. Append(c.queue, n) \in Seq(Nat)
    BY DEF ChannelType
  <2>2. Offered(c, n) = [c EXCEPT !.queue = Append(c.queue, n)]
    BY <1>2 DEF Offered, Sent
  <2>3. QED
    BY <2>1, <2>2 DEF ChannelType
<1>3. CASE ~(Len(c.queue) < c.room)
  <2>1. Offered(c, n) = [Closed(c) EXCEPT !.lagged = TRUE]
    BY <1>3 DEF Offered
  <2>2. QED
    BY <2>1, ClosedKeepsType DEF ChannelType
<1>4. QED
  BY <1>1, <1>2, <1>3

LEMMA ToldKeepsType ==
    ASSUME channel \in [Readers -> ChannelType], NEW feed, NEW n \in Nat, Told(feed, n)
    PROVE  channel' \in [Readers -> ChannelType]
BY OfferedKeepsType DEF Told

LEMMA UpToType == ASSUME NEW n \in Nat PROVE UpTo(n) \in Seq(Nat) /\ Len(UpTo(n)) = n
<1>1. UpTo(n) \in [1..n -> Nat]
  BY DEF UpTo
<1>2. QED
  BY <1>1 DEF UpTo

LEMMA NewChannelType ==
    ASSUME NEW feed \in {"exchange", "activity"}, NEW queue \in Seq(Nat),
           NEW room \in Nat, NEW over \in BOOLEAN
    PROVE  NewChannel(feed, queue, room, over) \in ChannelType
BY DEF NewChannel, ChannelType

LEMMA SubscribeKeepsType ==
    ASSUME EventsTypes, NEW o \in Readers, Subscribe(o)
    PROVE  channel' \in [Readers -> ChannelType]
<1>1. UpTo(exchange.events) \in Seq(Nat) /\ subscriberBuffer + exchange.events \in Nat
  BY UpToType, BuffersAssumption DEF EventsTypes, ExchangeType
<1>2. QED
  BY <1>1, NewChannelType DEF EventsTypes, Subscribe

LEMMA WatchKeepsType ==
    ASSUME EventsTypes, NEW o \in Readers, Watch(o)
    PROVE  channel' \in [Readers -> ChannelType]
<1>1. <<>> \in Seq(Nat)
  OBVIOUS
<1>2. NewChannel("activity", <<>>, watcherBuffer, FALSE) \in ChannelType
  BY <1>1, NewChannelType, BuffersAssumption
<1>3. QED
  BY <1>2 DEF EventsTypes, Watch

LEMMA DetachKeepsType ==
    ASSUME EventsTypes, NEW o \in Readers, Detach(o)
    PROVE  channel' \in [Readers -> ChannelType]
<1> DEFINE left == IF channel[o].registered THEN Closed(channel[o]) ELSE channel[o]
<1>1. left \in ChannelType
  BY ClosedKeepsType DEF EventsTypes
<1>2. <<>> \in Seq(Nat)
  OBVIOUS
<1>3. [left EXCEPT !.queue = <<>>] \in ChannelType
  <2> HIDE DEF left
  <2>1. QED
    BY <1>1, <1>2 DEF ChannelType
<1>4. QED
  BY <1>3 DEF EventsTypes, Detach

\* A step of an operation to where it holds no frame, or keeps the one it held.
LEMMA GoesKeepsType ==
    ASSUME OpsOK, HandInv, NEW o \in Readers, NEW label \in Labels \ {"forward"},
           Goes(o, label)
    PROVE  OpsOK' /\ HandInv'
BY DEF OpsOK, HandInv, Goes, OpType

LEMMA HandKeepsType ==
    ASSUME OpsOK, HandInv, NEW o \in Readers, NEW label \in Labels,
           NEW hand \in Seq(Frames), label = "forward" => hand # <<>>,
           op' = [op EXCEPT ![o].pc = label, ![o].hand = hand]
    PROVE  OpsOK' /\ HandInv'
<1>1. /\ op'[o] = [op[o] EXCEPT !.pc = label, !.hand = hand]
      /\ \A p \in Readers \ {o} : op'[p] = op[p]
      /\ DOMAIN op' = Readers
  BY DEF OpsOK
<1>2. op'[o] \in OpType /\ op'[o].pc = label /\ op'[o].hand = hand
  <2>1. op[o] \in OpType
    BY DEF OpsOK
  <2>2. QED
    BY ONLY <1>1, <2>1, label \in Labels, hand \in Seq(Frames) DEF OpType
<1>3. OpsOK'
  BY <1>1, <1>2 DEF OpsOK
<1>4. HandInv'
  BY <1>1, <1>2 DEF HandInv
<1>5. QED
  BY <1>3, <1>4

LEMMA OpReplaced ==
    ASSUME OpsOK, HandInv, NEW o \in Readers, NEW x \in OpType,
           x.pc = "forward" => x.hand # <<>>, op' = [op EXCEPT ![o] = x]
    PROVE  OpsOK' /\ HandInv'
<1>1. /\ op' \in [Readers -> OpType] /\ op'[o] = x
      /\ \A p \in Readers \ {o} : op'[p] = op[p]
  BY DEF OpsOK
<1>2. QED
  BY <1>1 DEF OpsOK, HandInv

LEMMA SlotsAreFinite == SlotsOK => IsFiniteSet(slots) /\ Cardinality(slots) \in Nat
BY ConnectionAssumption, FS_Subset, FS_CardinalityType DEF SlotsOK

-----------------------------------------------------------------------------
LEMMA InitTypes == Init => TypeInv
<1> SUFFICES ASSUME Init PROVE TypeInv
  OBVIOUS
<1>1. EventsTypes
  BY DEF Init, EventsInit, EventsTypes, ExchangeType, ChannelType, NoChannel
<1>2. OutboundOK /\ RestOK
  BY ConnectionAssumption DEF Init, OutboundOK, OutboundType, RestOK
<1>3. SlotsOK
  BY ConnectionAssumption, FS_EmptySet DEF Init, SlotsOK
<1>4. OpsOK /\ HandInv
  <2>1. PICK plan \in Plans : op = [o \in Readers |-> [NoOp EXCEPT !.kind = plan[o]]]
    BY DEF Init
  <2>2. plan \in [Readers -> Kinds]
    BY ConnectionAssumption
  <2>3. QED
    <3>1. \A o \in Readers :
              op[o] = [pc |-> "none", kind |-> plan[o], cancelled |-> FALSE,
                       hand |-> <<>>, spoken |-> 0, snapshot |-> 0]
      BY <2>1 DEF NoOp
    <3>2. <<>> \in Seq(Frames)
      OBVIOUS
    <3>3. ASSUME NEW o \in Readers PROVE op[o] \in OpType /\ op[o].pc # "forward"
      <4>1. "none" \in Labels /\ plan[o] \in Kinds
        BY <2>2 DEF Labels
      <4>2. [pc |-> "none", kind |-> plan[o], cancelled |-> FALSE, hand |-> <<>>,
             spoken |-> 0, snapshot |-> 0] \in OpType
        BY <3>2, <4>1 DEF OpType
      <4>3. op[o] = [pc |-> "none", kind |-> plan[o], cancelled |-> FALSE,
                     hand |-> <<>>, spoken |-> 0, snapshot |-> 0]
        BY ONLY <3>1, o \in Readers
      <4>4. QED
        BY ONLY <4>2, <4>3
    <3>4. QED
      BY <2>1, <3>3 DEF OpsOK, HandInv
<1>5. ViewsOK
  BY DEF Init, ViewsOK, ViewType, NoView
<1>6. QED
  BY <1>1, <1>2, <1>3, <1>4, <1>5 DEF TypeInv

\* The operations' own variables, and the ones that only serve and the writer change.
LEMMA ClientTypes == ASSUME TypeInv, ClientStep PROVE TypeInv'
<1> USE DEF TypeInv
<1>1. ASSUME NEW o \in Readers, Request(o) PROVE TypeInv'
  <2>1. OpsOK' /\ HandInv'
    BY <1>1, "begin" \in Labels \ {"forward"}, GoesKeepsType DEF Request, Goes, Labels
  <2>2. channel' \in [Readers -> ChannelType]
    BY <1>1, WatchKeepsType DEF Request, EventsTypes
  <2>3. EventsTypes' /\ OutboundOK' /\ SlotsOK' /\ ViewsOK' /\ RestOK'
    BY <1>1, <2>2 DEF Request, EventsTypes, OutboundOK, SlotsOK, ViewsOK, RestOK
  <2>4. QED
    BY <2>1, <2>3
<1>2. ASSUME NEW o \in Readers, RequestAgain(o) PROVE TypeInv'
  <2>1. OutboundOK'
    BY <1>2, FramesAre, SendKeepsType DEF RequestAgain
  <2>2. QED
    BY <1>2, <2>1 DEF RequestAgain, eventVars, EventsTypes, SlotsOK, OpsOK, ViewsOK,
                      RestOK, HandInv
<1>3. ASSUME NEW o \in Readers, CancelOperation(o) PROVE TypeInv'
  <2>1. OutboundOK'
    BY <1>3, FramesAre, SendKeepsType DEF CancelOperation, OutboundOK
  <2>2. OpsOK' /\ HandInv'
    <3>1. CASE op' = op
      BY <3>1 DEF OpsOK, HandInv
    <3>2. CASE op' = [op EXCEPT ![o].cancelled = TRUE]
      <4> DEFINE x == [op[o] EXCEPT !.cancelled = TRUE]
      <4>1. op[o] \in OpType
        BY <1>3 DEF OpsOK
      <4>2. x \in OpType /\ x.pc = op[o].pc /\ x.hand = op[o].hand
        BY ONLY <4>1 DEF OpType
      <4>3. op' = [op EXCEPT ![o] = x] /\ (x.pc = "forward" => x.hand # <<>>)
        BY <1>3, <3>2, <4>2 DEF HandInv
      <4> HIDE DEF x
      <4>4. QED
        BY <1>3, <4>2, <4>3, OpReplaced
    <3>3. QED
      BY <1>3, <3>1, <3>2 DEF CancelOperation
  <2>3. QED
    BY <1>3, <2>1, <2>2 DEF CancelOperation, eventVars, EventsTypes, SlotsOK, ViewsOK, RestOK
<1>4. CASE Answer
  <2>1. OutboundOK'
    BY <1>4, FramesAre, SendKeepsType DEF Answer
  <2>2. QED
    BY <1>4, <2>1 DEF Answer, eventVars, EventsTypes, SlotsOK, OpsOK, ViewsOK, RestOK, HandInv
<1>5. CASE ReadEnds
  BY <1>5 DEF ReadEnds, eventVars, EventsTypes, OutboundOK, SlotsOK, OpsOK, ViewsOK,
              RestOK, HandInv
<1>6. QED
  BY <1>1, <1>2, <1>3, <1>4, <1>5 DEF ClientStep

LEMMA ReadTypes == ASSUME TypeInv, NEW o \in Readers, ReadStep(o) PROVE TypeInv'
<1> USE DEF TypeInv
<1>1. OutboundOK'
  <2>1. CASE Accept(o) \/ LeaveQueue(o) \/ RunReturns(o)
    BY <2>1, FramesAre, SendKeepsType DEF Accept, LeaveQueue, RunReturns
  <2>2. CASE TakeSlot(o) \/ ReleaseSlot(o)
    BY <2>2 DEF TakeSlot, ReleaseSlot, OutboundOK
  <2>3. QED
    BY <2>1, <2>2 DEF ReadStep
<1>2. OpsOK' /\ HandInv'
  BY GoesKeepsType DEF ReadStep, Accept, LeaveQueue, RunReturns, TakeSlot, ReleaseSlot, Labels
<1>3. SlotsOK'
  <2>1. CASE TakeSlot(o)
    <3>1. /\ slots' = slots \union {o} /\ IsFiniteSet(slots) /\ Cardinality(slots) \in Nat
          /\ Cardinality(slots) < concurrentPerConnection
      BY <2>1, SlotsAreFinite DEF TakeSlot
    <3>2. Cardinality(slots') <= Cardinality(slots) + 1
      BY <3>1, FS_AddElement
    <3>3. QED
      <4>1. Cardinality(slots') \in Nat
        BY <3>1, FS_AddElement, FS_CardinalityType
      <4>2. QED
        BY <3>1, <3>2, <4>1, ConnectionAssumption DEF SlotsOK
  <2>2. CASE ReleaseSlot(o)
    <3>1. slots' \subseteq slots /\ IsFiniteSet(slots)
      BY <2>2, SlotsAreFinite DEF ReleaseSlot
    <3>2. Cardinality(slots') <= Cardinality(slots) /\ Cardinality(slots') \in Nat
      BY <3>1, FS_Subset, FS_CardinalityType
    <3>3. QED
      BY <3>1, <3>2, SlotsAreFinite, ConnectionAssumption DEF SlotsOK
  <2>3. CASE Accept(o) \/ LeaveQueue(o) \/ RunReturns(o)
    BY <2>3 DEF Accept, LeaveQueue, RunReturns, SlotsOK
  <2>4. QED
    BY <2>1, <2>2, <2>3 DEF ReadStep
<1>4. EventsTypes' /\ ViewsOK' /\ RestOK'
  BY DEF ReadStep, Accept, LeaveQueue, RunReturns, TakeSlot, ReleaseSlot, eventVars,
         EventsTypes, ViewsOK, RestOK
<1>5. QED
  BY <1>1, <1>2, <1>3, <1>4

LEMMA StreamTypes == ASSUME TypeInv, NEW o \in Readers, StreamStep(o) PROVE TypeInv'
<1> USE DEF TypeInv
<1>1. OutboundOK'
  <2>1. CASE \/ FindExchange(o) \/ FindNothing(o) \/ Refuse(o) \/ AcceptWatch(o)
             \/ StreamEnds(o) \/ StreamCancelled(o)
    <3>1. PICK m \in {Message, Done(o)} : Send(m)
      BY <2>1 DEF FindExchange, FindNothing, Refuse, AcceptWatch, StreamEnds, StreamCancelled
    <3>2. QED
      BY <3>1, FramesAre, SendKeepsType
  <2>2. CASE Forward(o)
    <3>1. op[o].hand[1] \in Frames
      BY <2>2 DEF Forward, OpsOK, OpType, HandInv
    <3>2. Send(op[o].hand[1])
      BY <2>2 DEF Forward, Send
    <3>3. QED
      BY <3>1, <3>2, SendKeepsType
  <2>3. CASE \/ SubscribeTo(o) \/ ReadActivities(o) \/ TakeEvent(o) \/ StopForwarding(o)
             \/ DetachFrom(o)
    BY <2>3 DEF SubscribeTo, ReadActivities, TakeEvent, StopForwarding, DetachFrom, OutboundOK
  <2>4. QED
    BY <2>1, <2>2, <2>3 DEF StreamStep
<1>2. OpsOK' /\ HandInv'
  <2>1. CASE \/ FindExchange(o) \/ FindNothing(o) \/ Refuse(o) \/ AcceptWatch(o)
             \/ StreamEnds(o) \/ StreamCancelled(o) \/ SubscribeTo(o) \/ DetachFrom(o)
    <3>1. PICK label \in Labels \ {"forward"} : Goes(o, label)
      BY <2>1 DEF FindExchange, FindNothing, Refuse, AcceptWatch, StreamEnds,
                  StreamCancelled, SubscribeTo, DetachFrom, Labels
    <3>2. QED
      BY <3>1, GoesKeepsType
  <2>2. CASE ReadActivities(o)
    <3>1. <<Message>> \in Seq(Frames) /\ <<Message>> # <<>>
      BY FramesAre
    <3>2. announced \in Nat /\ {"forward", "relay"} \subseteq Labels
      BY DEF EventsTypes, Labels
    <3>3. CASE exchange.state = "running"
      <4>1. op' = [op EXCEPT ![o].snapshot = announced, ![o].pc = "forward",
                             ![o].hand = <<Message>>]
        BY <2>2, <3>3 DEF ReadActivities
      <4> DEFINE x == [op[o] EXCEPT !.snapshot = announced, !.pc = "forward", !.hand = <<Message>>]
      <4>2. op[o] \in OpType /\ <<>> \in Seq(Frames)
        BY DEF OpsOK
      <4>3. x \in OpType /\ x.pc = "forward" /\ x.hand = <<Message>>
        BY ONLY <3>1, <3>2, <4>2 DEF OpType
      <4>4. op' = [op EXCEPT ![o] = x]
        BY <4>1
      <4> HIDE DEF x
      <4>5. QED
        BY <3>1, <4>3, <4>4, OpReplaced
    <3>4. CASE exchange.state # "running"
      <4>1. op' = [op EXCEPT ![o].snapshot = announced, ![o].pc = "relay",
                             ![o].hand = <<>>]
        BY <2>2, <3>4 DEF ReadActivities
      <4> DEFINE x == [op[o] EXCEPT !.snapshot = announced, !.pc = "relay", !.hand = <<>>]
      <4>2. op[o] \in OpType /\ <<>> \in Seq(Frames)
        BY DEF OpsOK
      <4>3. x \in OpType /\ x.pc = "relay" /\ x.hand = <<>>
        BY ONLY <3>1, <3>2, <4>2 DEF OpType
      <4>4. op' = [op EXCEPT ![o] = x]
        BY <4>1
      <4> HIDE DEF x
      <4>5. QED
        BY <3>1, <4>3, <4>4, OpReplaced
    <3>5. QED
      BY <3>3, <3>4
  <2>3. CASE TakeEvent(o)
    <3>1. Head(channel[o].queue) \in Nat
      BY <2>3 DEF TakeEvent, EventsTypes, ChannelType
    <3>2. /\ <<Event(o, Head(channel[o].queue))>> \in Seq(Frames)
          /\ <<Event(o, Head(channel[o].queue))>> # <<>>
      BY <3>1, FramesAre
    <3>3. op' = [op EXCEPT ![o].pc = "forward",
                           ![o].hand = <<Event(o, Head(channel[o].queue))>>]
      BY <2>3 DEF TakeEvent
    <3>4. QED
      BY <3>2, <3>3, "forward" \in Labels, HandKeepsType DEF Labels
  <2>4. CASE Forward(o)
    <3>1. op' = [op EXCEPT ![o].pc = "relay", ![o].hand = <<>>]
      BY <2>4 DEF Forward
    <3>2. <<>> \in Seq(Frames) /\ "relay" \in Labels
      BY DEF Labels
    <3>3. QED
      BY <3>1, <3>2, HandKeepsType
  <2>5. CASE StopForwarding(o)
    <3>1. PICK label \in {"drain", "detach"} :
              op' = [op EXCEPT ![o].pc = label, ![o].hand = <<>>]
      BY <2>5 DEF StopForwarding
    <3>2. <<>> \in Seq(Frames) /\ label \in Labels
      BY DEF Labels
    <3>3. QED
      BY <3>1, <3>2, HandKeepsType
  <2>6. QED
    BY <2>1, <2>2, <2>3, <2>4, <2>5 DEF StreamStep
<1>3. EventsTypes'
  <2>1. CASE FindExchange(o)
    <3>1. exchange' \in ExchangeType
      BY <2>1 DEF FindExchange, BeginExchange, EventsTypes, ExchangeType
    <3>2. QED
      BY <2>1, <3>1 DEF FindExchange, EventsTypes
  <2>2. CASE SubscribeTo(o)
    BY <2>2, SubscribeKeepsType DEF SubscribeTo, EventsTypes
  <2>3. CASE DetachFrom(o)
    BY <2>3, DetachKeepsType DEF DetachFrom, EventsTypes
  <2>4. CASE TakeEvent(o)
    <3>1. Tail(channel[o].queue) \in Seq(Nat)
      BY <2>4 DEF TakeEvent, EventsTypes, ChannelType
    <3>2. QED
      BY <2>4, <3>1 DEF TakeEvent, EventsTypes, ChannelType
  <2>5. CASE \/ FindNothing(o) \/ Refuse(o) \/ AcceptWatch(o) \/ ReadActivities(o)
             \/ Forward(o) \/ StopForwarding(o) \/ StreamEnds(o) \/ StreamCancelled(o)
    BY <2>5 DEF FindNothing, Refuse, AcceptWatch, ReadActivities, Forward, StopForwarding,
                StreamEnds, StreamCancelled, eventVars, EventsTypes
  <2>6. QED
    BY <2>1, <2>2, <2>3, <2>4, <2>5 DEF StreamStep
<1>4. SlotsOK' /\ ViewsOK' /\ RestOK'
  BY DEF StreamStep, FindExchange, FindNothing, Refuse, AcceptWatch, ReadActivities,
         Forward, StopForwarding, StreamEnds, StreamCancelled, SubscribeTo, DetachFrom,
         TakeEvent, SlotsOK, ViewsOK, RestOK
<1>5. QED
  BY <1>1, <1>2, <1>3, <1>4

LEMMA CellTypes == ASSUME TypeInv, NEW o \in Readers, CellStep(o) PROVE TypeInv'
<1> USE DEF TypeInv
<1>1. OutboundOK'
  <2>1. CASE outbound' = outbound
    BY <2>1 DEF OutboundOK
  <2>2. CASE Send(Message) \/ Send(Done(o))
    BY <2>2, FramesAre, SendKeepsType
  <2>3. QED
    BY <2>1, <2>2 DEF CellStep, RunCell, CellSpeaks, CellEnds
<1>2. OpsOK' /\ HandInv'
  <2>1. CASE RunCell(o) \/ CellEnds(o)
    BY <2>1, GoesKeepsType DEF RunCell, CellEnds, Labels
  <2>2. CASE CellSpeaks(o) /\ op[o].pc = "relay"
    <3>1. op[o].spoken + 1 \in Nat
      BY DEF OpsOK, OpType
    <3>2. /\ <<Event(o, op[o].spoken + 1)>> \in Seq(Frames)
          /\ <<Event(o, op[o].spoken + 1)>> # <<>>
      BY <3>1, FramesAre
    <3>3. /\ op'[o] = [[op[o] EXCEPT !.spoken = op[o].spoken + 1] EXCEPT
                            !.pc = "forward", !.hand = <<Event(o, op[o].spoken + 1)>>]
          /\ \A p \in Readers \ {o} : op'[p] = op[p]
          /\ op' = [p \in Readers |-> op'[p]]
      BY <2>2 DEF CellSpeaks, OpsOK, OpType
    <3>4. op[o] \in OpType
      BY DEF OpsOK
    <3>5. [op[o] EXCEPT !.spoken = op[o].spoken + 1] \in OpType
      BY ONLY <3>1, <3>4 DEF OpType
    <3>6. op'[o] \in OpType /\ op'[o].hand = <<Event(o, op[o].spoken + 1)>>
      BY ONLY <3>2, <3>3, <3>5, "forward" \in Labels DEF OpType, Labels
    <3>7. QED
      BY <3>2, <3>3, <3>6 DEF OpsOK, HandInv
  <2>3. CASE CellSpeaks(o) /\ op[o].pc # "relay"
    <3>1. op[o].spoken + 1 \in Nat
      BY DEF OpsOK, OpType
    <3>2. op' = [op EXCEPT ![o].spoken = op[o].spoken + 1, ![o].pc = op[o].pc,
                           ![o].hand = op[o].hand]
      BY <2>3 DEF CellSpeaks, OpsOK, OpType
    <3> DEFINE x == [op[o] EXCEPT !.spoken = op[o].spoken + 1, !.pc = op[o].pc,
                                  !.hand = op[o].hand]
    <3>3. op[o] \in OpType
      BY DEF OpsOK
    <3>4. x \in OpType /\ x.pc = op[o].pc /\ x.hand = op[o].hand
      BY ONLY <3>1, <3>3 DEF OpType
    <3>5. op' = [op EXCEPT ![o] = x] /\ (x.pc = "forward" => x.hand # <<>>)
      BY <3>2, <3>4 DEF HandInv
    <3> HIDE DEF x
    <3>6. QED
      BY <3>4, <3>5, OpReplaced
  <2>4. QED
    BY <2>1, <2>2, <2>3 DEF CellStep
<1>3. EventsTypes' /\ SlotsOK' /\ ViewsOK' /\ RestOK'
  BY DEF CellStep, RunCell, CellSpeaks, CellEnds, eventVars, EventsTypes, SlotsOK, ViewsOK,
         RestOK
<1>4. QED
  BY <1>1, <1>2, <1>3

LEMMA LeavingTypes ==
    ASSUME TypeInv, NEW o \in Readers, Leave(o) \/ WorkDone(o)
    PROVE  TypeInv'
<1> USE DEF TypeInv
<1>1. OpsOK' /\ HandInv'
  BY GoesKeepsType DEF Leave, WorkDone, Labels
<1>2. EventsTypes' /\ OutboundOK' /\ SlotsOK' /\ ViewsOK' /\ RestOK'
  BY DEF Leave, WorkDone, eventVars, EventsTypes, OutboundOK, SlotsOK, ViewsOK, RestOK
<1>3. QED
  BY <1>1, <1>2

LEMMA ReceivedType ==
    ASSUME ViewsOK, NEW m \in Frames
    PROVE  Received(m) \in [Readers -> ViewType]
<1>1. CASE m.type = "event"
  <2>1. m.op \in Readers /\ m.n \in Nat
    BY <1>1, FramesAre
  <2>2. Append(view[m.op].events, m.n) \in Seq(Nat)
    BY <2>1 DEF ViewsOK, ViewType
  <2>3. Received(m) = [view EXCEPT ![m.op].events = Append(view[m.op].events, m.n)]
    BY <1>1, <2>1 DEF Received, ViewsOK
  <2>4. QED
    BY <2>1, <2>2, <2>3 DEF ViewsOK, ViewType
<1>2. CASE m.type = "done"
  <2>1. m.op \in Readers
    BY <1>2, FramesAre
  <2>2. Received(m) = [view EXCEPT ![m.op].done = TRUE]
    BY <1>2 DEF Received
  <2>3. QED
    BY <2>1, <2>2 DEF ViewsOK, ViewType
<1>3. CASE m.type = "message"
  BY <1>3 DEF Received, ViewsOK
<1>4. QED
  BY <1>1, <1>2, <1>3, FramesAre

LEMMA ConnectionTypes == ASSUME TypeInv, WriterStep \/ ServeStep PROVE TypeInv'
<1> USE DEF TypeInv
<1>1. EventsTypes' /\ SlotsOK' /\ OpsOK' /\ HandInv' /\ RestOK'
  BY DEF WriterStep, ServeStep, Write, WriteFails, WriterEnds, CloseOutbound,
         CloseConnection, eventVars, EventsTypes, SlotsOK, OpsOK, HandInv, RestOK
<1>2. OutboundOK'
  <2>1. CASE outbound' = [outbound EXCEPT !.queue = Tail(@)] /\ outbound.queue # <<>>
    <3>1. /\ Tail(outbound.queue) \in Seq(Frames)
          /\ Len(Tail(outbound.queue)) <= outboundBuffer
      BY <2>1, ConnectionAssumption DEF OutboundOK, OutboundType
    <3>2. QED
      BY <2>1, <3>1 DEF OutboundOK, OutboundType
  <2>2. CASE outbound' = [outbound EXCEPT !.closed = @ + 1]
    <3>1. outbound.closed + 1 \in Nat
      BY DEF OutboundOK, OutboundType
    <3>2. QED
      BY <2>2, <3>1 DEF OutboundOK, OutboundType
  <2>3. CASE outbound' = outbound
    BY <2>3 DEF OutboundOK
  <2>4. CASE WriteFails
    <3>1. CASE outbound.queue = <<>>
      <4>1. outbound' = outbound
        BY <2>4, <3>1 DEF WriteFails, OutboundOK, OutboundType
      <4>2. QED
        BY <2>3, <4>1
    <3>2. CASE outbound.queue # <<>>
      BY <2>1, <2>4, <3>2 DEF WriteFails
    <3>3. QED
      BY <3>1, <3>2
  <2>5. QED
    BY <2>1, <2>2, <2>3, <2>4 DEF WriterStep, ServeStep, Write, WriterEnds, CloseOutbound,
                                  CloseConnection
<1>3. ViewsOK'
  <2>1. CASE Write
    <3>1. Head(outbound.queue) \in Frames
      BY <2>1 DEF Write, OutboundOK, OutboundType
    <3>2. QED
      BY <2>1, <3>1, ReceivedType DEF Write, ViewsOK
  <2>2. CASE view' = view
    BY <2>2 DEF ViewsOK
  <2>3. QED
    BY <2>1, <2>2 DEF WriterStep, ServeStep, WriteFails, WriterEnds, CloseOutbound,
                      CloseConnection
<1>4. QED
  BY <1>1, <1>2, <1>3

LEMMA ExchangeTypes == ASSUME TypeInv, ExchangeStep PROVE TypeInv'
<1> USE DEF TypeInv
<1>1. EventsTypes'
  <2>1. CASE Publish
    <3>1. exchange.events + 1 \in Nat
      BY DEF EventsTypes, ExchangeType
    <3>2. channel' \in [Readers -> ChannelType]
      BY <2>1, <3>1, ToldKeepsType DEF Publish, EventsTypes
    <3>3. exchange' \in ExchangeType
      BY <2>1, <3>1 DEF Publish, EventsTypes, ExchangeType
    <3>4. QED
      BY <2>1, <3>2, <3>3 DEF Publish, EventsTypes
  <2>2. CASE Announce
    <3>1. announced + 1 \in Nat
      BY DEF EventsTypes
    <3>2. channel' \in [Readers -> ChannelType]
      BY <2>2, <3>1, ToldKeepsType DEF Announce, EventsTypes
    <3>3. QED
      BY <2>2, <3>1, <3>2 DEF Announce, EventsTypes
  <2>3. CASE CloseExchange
    <3>1. channel' \in [Readers -> ChannelType]
      BY <2>3, ClosedKeepsType DEF CloseExchange, EventsTypes
    <3>2. exchange' \in ExchangeType
      BY <2>3 DEF CloseExchange, EventsTypes, ExchangeType
    <3>3. QED
      BY <2>3, <3>1, <3>2 DEF CloseExchange, EventsTypes
  <2>4. QED
    BY <2>1, <2>2, <2>3 DEF ExchangeStep
<1>2. OutboundOK' /\ SlotsOK' /\ OpsOK' /\ ViewsOK' /\ RestOK' /\ HandInv'
  BY DEF ExchangeStep, sessionVars, OutboundOK, SlotsOK, OpsOK, ViewsOK, RestOK, HandInv
<1>3. QED
  BY <1>1, <1>2

LEMMA NextTypes == TypeInv /\ [Next]_vars => TypeInv'
<1> SUFFICES ASSUME TypeInv, [Next]_vars PROVE TypeInv'
  OBVIOUS
<1>1. ASSUME NEW o \in Readers, OperationStep(o) PROVE TypeInv'
  BY <1>1, ReadTypes, StreamTypes, CellTypes, LeavingTypes DEF OperationStep
<1>2. CASE UNCHANGED vars
  BY <1>2 DEF vars, TypeInv, EventsTypes, OutboundOK, SlotsOK, OpsOK, ViewsOK, RestOK, HandInv
<1>3. QED
  BY <1>1, <1>2, ClientTypes, ConnectionTypes, ExchangeTypes DEF Next

\* The variables keep their types; the outbound channel and the slots stay within
\* their capacity, for any operations, plans and buffers (ws.go:157-240, 472-476).
THEOREM TypeCorrect == Spec => []TypeOK
<1>1. Spec => []TypeInv
  BY InitTypes, NextTypes, PTL DEF Spec
<1>2. TypeInv => TypeOK
  BY TypesOfInv
<1>3. QED
  BY <1>1, <1>2, PTL

-----------------------------------------------------------------------------
(* Channels.  The outbound channel is closed once the work is done, and then    *)
(* nobody is left to send; whoever is registered has a channel that is open.    *)

Shut == serving \in {"draining", "closed"}

OutboundInv ==
    /\ outbound.closed = IF Shut THEN 1 ELSE 0
    /\ outbound.misused = 0

WorkInv ==
    /\ \A o \in Readers : op[o].pc \notin {"none", "gone"} => o \in work
    /\ Shut => work = {}

ChannelOK(c) ==
    /\ c.closed <= 1 /\ c.misused = 0
    /\ c.registered => c.closed = 0
    /\ c.lagged => c.closed = 1

ChannelsInv == \A o \in Readers : ChannelOK(channel[o])

OpenInv == OutboundInv /\ WorkInv /\ ChannelsInv

LEMMA SendStaysOpen ==
    ASSUME OutboundOK, OutboundInv, ~Shut, NEW m, Send(m), UNCHANGED serving
    PROVE  OutboundInv'
<1>1. outbound.closed = 0
  BY DEF OutboundInv
<1>2. CASE HasRoom
  <2>1. outbound' = [outbound EXCEPT !.queue = Append(@, m)]
    BY <1>1, <1>2 DEF Send, With
  <2>2. QED
    BY <1>1, <2>1 DEF OutboundInv, OutboundOK, OutboundType, Shut
<1>3. CASE ~HasRoom
  BY <1>1, <1>3 DEF Send, OutboundInv, Shut
<1>4. QED
  BY <1>2, <1>3

LEMMA ClosedIsShut ==
    ASSUME NEW c \in ChannelType, ChannelOK(c), c.registered
    PROVE  ChannelOK(Closed(c))
<1>1. /\ Closed(c).closed = c.closed + 1 /\ Closed(c).misused = c.misused
      /\ Closed(c).registered = FALSE
  BY ClosedKeepsType
<1>2. c.closed = 0 /\ c.misused = 0
  BY DEF ChannelOK
<1>3. QED
  BY <1>1, <1>2 DEF ChannelOK

LEMMA OfferedStaysOpen ==
    ASSUME NEW c \in ChannelType, NEW n \in Nat, ChannelOK(c), c.registered
    PROVE  ChannelOK(Offered(c, n))
<1>1. c.closed = 0
  BY DEF ChannelOK
<1>2. CASE Len(c.queue) < c.room
  <2>1. Offered(c, n) = [c EXCEPT !.queue = Append(c.queue, n)]
    BY <1>1, <1>2 DEF Offered, Sent
  <2>2. QED
    BY <1>1, <2>1 DEF ChannelOK, ChannelType
<1>3. CASE ~(Len(c.queue) < c.room)
  <2>1. Offered(c, n) = [Closed(c) EXCEPT !.lagged = TRUE]
    BY <1>3 DEF Offered
  <2>2. /\ Offered(c, n).closed = Closed(c).closed
        /\ Offered(c, n).misused = Closed(c).misused
        /\ Offered(c, n).registered = Closed(c).registered
    BY <2>1, ClosedKeepsType DEF ChannelType
  <2>3. Closed(c).closed = c.closed + 1 /\ Closed(c).misused = c.misused
    BY ClosedKeepsType
  <2>4. Closed(c).registered = FALSE
    BY ClosedKeepsType
  <2>5. QED
    BY <1>1, <2>2, <2>3, <2>4 DEF ChannelOK
<1>4. QED
  BY <1>2, <1>3

LEMMA ToldStaysOpen ==
    ASSUME EventsTypes, ChannelsInv, NEW feed, NEW n \in Nat, Told(feed, n)
    PROVE  ChannelsInv'
BY OfferedStaysOpen DEF EventsTypes, ChannelsInv, Told

\* A new channel is closed exactly when nobody will.
LEMMA NewChannelIsOpen ==
    ASSUME NEW feed, NEW queue, NEW room, NEW over \in BOOLEAN
    PROVE  ChannelOK(NewChannel(feed, queue, room, over))
<1>1. CASE over
  <2>1. /\ NewChannel(feed, queue, room, over).closed = 1
        /\ NewChannel(feed, queue, room, over).misused = 0
    BY <1>1 DEF NewChannel
  <2>2. ~NewChannel(feed, queue, room, over).registered
    BY <1>1 DEF NewChannel
  <2>3. QED
    BY <2>1, <2>2 DEF ChannelOK
<1>2. CASE ~over
  <2>1. /\ NewChannel(feed, queue, room, over).closed = 0
        /\ NewChannel(feed, queue, room, over).misused = 0
    BY <1>2 DEF NewChannel
  <2>2. ~NewChannel(feed, queue, room, over).lagged
    BY DEF NewChannel
  <2>3. QED
    BY <2>1, <2>2 DEF ChannelOK
<1>3. QED
  BY <1>1, <1>2

LEMMA SubscribeStaysOpen ==
    ASSUME EventsTypes, ChannelsInv, NEW o \in Readers, Subscribe(o) \/ Watch(o)
    PROVE  ChannelsInv'
<1>1. CASE Subscribe(o)
  <2>1. channel'[o] = NewChannel("exchange", UpTo(exchange.events),
                          subscriberBuffer + exchange.events, exchange.state = "closed")
    BY <1>1 DEF Subscribe, EventsTypes
  <2>2. (exchange.state = "closed") \in BOOLEAN
    OBVIOUS
  <2>3. ChannelOK(NewChannel("exchange", UpTo(exchange.events),
                      subscriberBuffer + exchange.events, exchange.state = "closed"))
    BY <2>2, NewChannelIsOpen
  <2>4. ChannelOK(channel'[o])
    BY <2>1, <2>3
  <2>5. QED
    BY <1>1, <2>4 DEF Subscribe, EventsTypes, ChannelsInv
<1>2. CASE Watch(o)
  <2>1. channel'[o] = NewChannel("activity", <<>>, watcherBuffer, FALSE)
    BY <1>2 DEF Watch, EventsTypes
  <2>2. ChannelOK(channel'[o])
    BY <2>1, NewChannelIsOpen
  <2>3. QED
    BY <1>2, <2>2 DEF Watch, EventsTypes, ChannelsInv
<1>3. QED
  BY <1>1, <1>2

LEMMA DetachStaysOpen ==
    ASSUME EventsTypes, ChannelsInv, NEW o \in Readers, Detach(o)
    PROVE  ChannelsInv'
<1> DEFINE left == IF channel[o].registered THEN Closed(channel[o]) ELSE channel[o]
<1>1. left \in ChannelType /\ ChannelOK(left)
  BY ClosedKeepsType, ClosedIsShut DEF EventsTypes, ChannelsInv
<1>2. ChannelOK([left EXCEPT !.queue = <<>>])
  <2> HIDE DEF left
  <2>1. QED
    BY <1>1 DEF ChannelOK, ChannelType
<1>3. QED
  BY <1>2 DEF EventsTypes, ChannelsInv, Detach

\* An operation that steps is still counted, so serve is still waiting for it.
LEMMA AtWork ==
    ASSUME WorkInv, NEW o \in Readers, OperationStep(o)
    PROVE  /\ op[o].pc \notin {"none", "gone"} /\ o \in work /\ ~Shut
           /\ UNCHANGED serving
BY DEF WorkInv, OperationStep, ReadStep, StreamStep, CellStep, Accept, TakeSlot, LeaveQueue,
       RunReturns, ReleaseSlot, FindExchange, FindNothing, Refuse, SubscribeTo, AcceptWatch,
       ReadActivities, TakeEvent, Forward, StopForwarding, StreamEnds, StreamCancelled,
       DetachFrom, RunCell, CellSpeaks, CellEnds, Leave, WorkDone

LEMMA OperationWork ==
    ASSUME TypeInv, WorkInv, NEW o \in Readers, OperationStep(o)
    PROVE  WorkInv'
<1>1. ~Shut /\ o \in work /\ op[o].pc \notin {"none", "gone"} /\ UNCHANGED serving
  BY AtWork
<1>2. \A p \in Readers \ {o} : op'[p] = op[p]
  BY DEF TypeInv, OpsOK, OperationStep, ReadStep, StreamStep, CellStep, Accept, TakeSlot,
       LeaveQueue,
       RunReturns, ReleaseSlot, FindExchange, FindNothing, Refuse, SubscribeTo, AcceptWatch,
       ReadActivities, TakeEvent, Forward, StopForwarding, StreamEnds, StreamCancelled,
       DetachFrom, RunCell, CellSpeaks, CellEnds, Leave, WorkDone, Goes
<1>3. CASE WorkDone(o)
  <2>1. work' = work \ {o} /\ op'[o].pc = "gone"
    BY <1>3 DEF WorkDone, Goes, TypeInv, OpsOK, OpType
  <2>2. QED
    BY <1>1, <1>2, <2>1 DEF WorkInv, Shut
<1>4. CASE work' = work
  BY <1>1, <1>2, <1>4 DEF WorkInv, Shut
<1>5. QED
  BY <1>3, <1>4 DEF OperationStep, ReadStep, StreamStep, CellStep, Accept, TakeSlot,
       LeaveQueue, RunReturns, ReleaseSlot, FindExchange, FindNothing, Refuse, SubscribeTo,
       AcceptWatch, ReadActivities, TakeEvent, Forward, StopForwarding, StreamEnds,
       StreamCancelled, DetachFrom, RunCell, CellSpeaks, CellEnds, Leave

LEMMA OperationOutbound ==
    ASSUME TypeInv, OutboundInv, WorkInv, NEW o \in Readers, OperationStep(o)
    PROVE  OutboundInv'
<1>1. ~Shut /\ UNCHANGED serving
  BY AtWork
<1>2. CASE outbound' = outbound
  BY <1>1, <1>2 DEF OutboundInv, Shut
<1>3. CASE Send(Message) \/ Send(Done(o)) \/ Send(op[o].hand[1])
  BY <1>1, <1>3, SendStaysOpen DEF TypeInv
<1>4. QED
  BY <1>2, <1>3 DEF OperationStep, ReadStep, StreamStep, CellStep, Accept, TakeSlot,
       LeaveQueue, RunReturns, ReleaseSlot, FindExchange, FindNothing, Refuse, SubscribeTo,
       AcceptWatch, ReadActivities, TakeEvent, Forward, StopForwarding, StreamEnds,
       StreamCancelled, DetachFrom, RunCell, CellSpeaks, CellEnds, Leave, WorkDone, Send

LEMMA OperationChannels ==
    ASSUME TypeInv, ChannelsInv, NEW o \in Readers, OperationStep(o)
    PROVE  ChannelsInv'
<1>1. CASE SubscribeTo(o)
  BY <1>1, SubscribeStaysOpen DEF SubscribeTo, TypeInv
<1>2. CASE DetachFrom(o)
  BY <1>2, DetachStaysOpen DEF DetachFrom, TypeInv
<1>3. CASE TakeEvent(o)
  BY <1>3 DEF TakeEvent, TypeInv, EventsTypes, ChannelType, ChannelsInv, ChannelOK
<1>4. CASE channel' = channel
  BY <1>4 DEF ChannelsInv
<1>5. QED
  BY <1>1, <1>2, <1>3, <1>4 DEF OperationStep, ReadStep, StreamStep, CellStep, Accept,
       TakeSlot, LeaveQueue, RunReturns, ReleaseSlot, FindExchange, FindNothing, Refuse,
       AcceptWatch, ReadActivities, Forward, StopForwarding, StreamEnds, StreamCancelled,
       RunCell, CellSpeaks, CellEnds, Leave, WorkDone, eventVars

LEMMA ClientOpen == ASSUME TypeInv, OpenInv, ClientStep PROVE OpenInv'
<1>0. serving = "reading" /\ ~Shut
  BY DEF ClientStep, Request, RequestAgain, CancelOperation, Answer, ReadEnds, Shut
<1>1. ASSUME NEW o \in Readers, Request(o) PROVE OpenInv'
  <2>1. ChannelsInv'
    BY <1>1, SubscribeStaysOpen DEF Request, TypeInv, OpenInv, ChannelsInv
  <2>2. WorkInv'
    BY <1>0, <1>1 DEF Request, OpenInv, WorkInv, Shut, TypeInv, OpsOK, OpType
  <2>3. OutboundInv'
    BY <1>1 DEF Request, OpenInv, OutboundInv, Shut
  <2>4. QED
    BY <2>1, <2>2, <2>3 DEF OpenInv
<1>2. CASE Answer \/ \E o \in Readers : RequestAgain(o) \/ CancelOperation(o)
  <2>1. ChannelsInv'
    BY <1>2 DEF RequestAgain, CancelOperation, Answer, OpenInv, ChannelsInv, eventVars
  <2>2. WorkInv'
    BY <1>0, <1>2 DEF RequestAgain, CancelOperation, Answer, OpenInv, WorkInv, Shut, TypeInv,
                      OpsOK, OpType
  <2>3. OutboundInv'
    <3>1. CASE Send(Message)
      BY <1>0, <1>2, <3>1, SendStaysOpen DEF RequestAgain, CancelOperation, Answer, OpenInv,
                                         TypeInv
    <3>2. CASE outbound' = outbound
      BY <1>2, <3>2 DEF RequestAgain, CancelOperation, Answer, OpenInv, OutboundInv, Shut
    <3>3. QED
      BY <1>2, <3>1, <3>2 DEF RequestAgain, CancelOperation, Answer
  <2>4. QED
    BY <2>1, <2>2, <2>3 DEF OpenInv
<1>3. CASE ReadEnds
  BY <1>0, <1>3 DEF ReadEnds, eventVars, OpenInv, ChannelsInv, WorkInv, OutboundInv, Shut
<1>4. QED
  BY <1>1, <1>2, <1>3 DEF ClientStep

LEMMA ConnectionOpen == ASSUME TypeInv, OpenInv, WriterStep \/ ServeStep PROVE OpenInv'
<1>1. ChannelsInv'
  BY DEF WriterStep, ServeStep, Write, WriteFails, WriterEnds, CloseOutbound,
         CloseConnection, eventVars, OpenInv, ChannelsInv
<1>2. WorkInv'
  BY DEF WriterStep, ServeStep, Write, WriteFails, WriterEnds, CloseOutbound,
         CloseConnection, OpenInv, WorkInv, Shut
<1>3. OutboundInv'
  <2>1. outbound \in OutboundType
    BY DEF TypeInv, OutboundOK
  <2>2. CASE Write \/ WriteFails
    <3>1. outbound'.closed = outbound.closed /\ outbound'.misused = outbound.misused
      BY <2>1, <2>2 DEF Write, WriteFails, OutboundType
    <3>2. QED
      BY <2>2, <3>1 DEF Write, WriteFails, OpenInv, OutboundInv, Shut
  <2>3. CASE CloseOutbound
    <3>1. outbound'.closed = outbound.closed + 1 /\ outbound'.misused = outbound.misused
      BY <2>1, <2>3 DEF CloseOutbound, OutboundType
    <3>2. QED
      BY <2>3, <3>1 DEF CloseOutbound, OpenInv, OutboundInv, Shut
  <2>4. CASE WriterEnds \/ CloseConnection
    BY <2>4 DEF WriterEnds, CloseConnection, OpenInv, OutboundInv, Shut
  <2>5. QED
    BY <2>2, <2>3, <2>4 DEF WriterStep, ServeStep
<1>4. QED
  BY <1>1, <1>2, <1>3 DEF OpenInv

LEMMA ExchangeOpen == ASSUME TypeInv, OpenInv, ExchangeStep PROVE OpenInv'
<1>1. ChannelsInv'
  <2>1. CASE Publish
    <3>1. exchange.events + 1 \in Nat
      BY DEF TypeInv, EventsTypes, ExchangeType
    <3>2. QED
      BY <2>1, <3>1, ToldStaysOpen DEF Publish, TypeInv, OpenInv
  <2>2. CASE Announce
    <3>1. announced + 1 \in Nat
      BY DEF TypeInv, EventsTypes
    <3>2. QED
      BY <2>2, <3>1, ToldStaysOpen DEF Announce, TypeInv, OpenInv
  <2>3. CASE CloseExchange
    BY <2>3, ClosedIsShut DEF CloseExchange, TypeInv, EventsTypes, OpenInv, ChannelsInv
  <2>4. QED
    BY <2>1, <2>2, <2>3 DEF ExchangeStep
<1>2. QED
  BY <1>1 DEF ExchangeStep, sessionVars, OpenInv, WorkInv, OutboundInv, Shut

LEMMA InitOpen == Init => OpenInv
BY DEF Init, EventsInit, NoChannel, NoOp, OpenInv, OutboundInv, WorkInv, ChannelsInv,
       ChannelOK, Shut

LEMMA NextOpen == TypeInv /\ OpenInv /\ [Next]_vars => OpenInv'
<1> SUFFICES ASSUME TypeInv, OpenInv, [Next]_vars PROVE OpenInv'
  OBVIOUS
<1>1. ASSUME NEW o \in Readers, OperationStep(o) PROVE OpenInv'
  BY <1>1, OperationWork, OperationOutbound, OperationChannels DEF OpenInv
<1>2. CASE UNCHANGED vars
  BY <1>2 DEF vars, OpenInv, OutboundInv, WorkInv, ChannelsInv, Shut
<1>3. QED
  BY <1>1, <1>2, ClientOpen, ConnectionOpen, ExchangeOpen DEF Next

LEMMA Open == Spec => [](TypeInv /\ OpenInv)
<1>1. Init => TypeInv /\ OpenInv
  BY InitTypes, InitOpen
<1>2. TypeInv /\ OpenInv /\ [Next]_vars => (TypeInv /\ OpenInv)'
  BY NextTypes, NextOpen
<1>3. QED
  BY <1>1, <1>2, PTL DEF Spec

\* No channel is sent on or closed after it was closed, for any operations, readers
\* and buffers: neither would leave the process alive (exchange.go:93-164,
\* activity.go:85-166, ws.go:335-352).
THEOREM ChannelsStayOpen == Spec => []ChannelsAreUsedOpen
<1>1. TypeInv /\ OpenInv => ChannelsAreUsedOpen
  BY DEF OpenInv, OutboundInv, ChannelsInv, ChannelOK, ChannelsAreUsedOpen
<1>2. QED
  BY <1>1, Open, PTL

-----------------------------------------------------------------------------
(* Views.  A stream's events are numbered; b is the number before its first,    *)
(* and k counts the events that were given to the outbound channel.  What the   *)
(* client has, what is queued for it, what is in hand and what is in the         *)
(* reader's channel follow each other.                                         *)

IsEvent(m, o) == m.type = "event" /\ m.op = o
IsDone(m, o) == m.type = "done" /\ m.op = o

Before == {"none", "begin", "subscribe", "snapshot"}
Ended == {"detach", "leave", "done", "gone"}

\* The frames on their way: events in order, each once, none after a "done".
Queued(q, o, low, high) ==
    /\ \A i \in DOMAIN q : IsEvent(q[i], o) => q[i].n \in low..high
    /\ \A n \in low..high : \E i \in DOMAIN q : IsEvent(q[i], o) /\ q[i].n = n
    /\ \A i, j \in DOMAIN q :
           i < j /\ IsEvent(q[i], o) /\ IsEvent(q[j], o) => q[i].n < q[j].n
    /\ \A i, j \in DOMAIN q : i < j /\ IsDone(q[i], o) => ~IsEvent(q[j], o)

\* Of the stream that starts after b, k events were given to the outbound channel.
Shown(o, b, k) ==
    LET seen == Len(view[o].events)
    IN  /\ seen <= k
        /\ \A i \in 1..seen : view[o].events[i] = b + i
        /\ view[o].done => k = seen
        /\ writer = "on" => Queued(outbound.queue, o, b + seen + 1, b + k)

Taken(o) == IF op[o].pc = "forward" /\ op[o].hand[1].type = "event" THEN 1 ELSE 0

\* The rest of it: the hand, then the channel, up to what was published.
Coming(o, b, k) ==
    /\ Taken(o) = 1 => op[o].hand[1].op = o /\ op[o].hand[1].n = b + k + 1
    /\ \A j \in DOMAIN channel[o].queue : channel[o].queue[j] = b + k + Taken(o) + j
    /\ channel[o].feed = "exchange" /\ ~channel[o].lagged =>
           /\ b + k + Taken(o) + Len(channel[o].queue) = exchange.events
           /\ channel[o].registered \/ exchange.state = "closed"
    /\ channel[o].feed = "activity" /\ channel[o].registered =>
           b + k + Taken(o) + Len(channel[o].queue) = announced
    /\ op[o].kind = "cell" => k + Taken(o) = op[o].spoken

Base(o, b, k) ==
    /\ op[o].kind \in {"chat", "cell"} => b = 0
    /\ op[o].kind = "watch" =>
           /\ b <= announced
           /\ op[o].pc \notin Before => b <= op[o].snapshot
    /\ op[o].pc \in Before => k = 0

Over(o) == view[o].done \/ \E i \in DOMAIN outbound.queue : IsDone(outbound.queue[i], o)

Complete(o, k) ==
    /\ op[o].pc \in Ended
    /\ channel[o].feed = "exchange" /\ ~channel[o].lagged =>
           exchange.state = "closed" /\ k = exchange.events
    /\ op[o].kind = "cell" => k = op[o].spoken

Stream(o, b, k) ==
    /\ Shown(o, b, k) /\ Base(o, b, k)
    /\ op[o].pc \in Before \union {"relay", "forward"} => Coming(o, b, k)
    /\ Over(o) => Complete(o, k)

\* Which operation has which channel.
Shape(o) ==
    /\ channel[o].feed = "none" => channel[o].queue = <<>>
    /\ channel[o].feed = "exchange" =>
           /\ op[o].kind = "chat" /\ op[o].pc \notin Before
           /\ exchange.state # "none"
    /\ channel[o].feed = "activity" => op[o].kind = "watch"
    /\ op[o].pc = "subscribe" => op[o].kind = "chat" /\ exchange.state # "none"
    /\ op[o].pc = "forward" => op[o].hand[1].type # "done"

ViewInv == \A o \in Readers : Shape(o) /\ \E b, k \in Nat : Stream(o, b, k)

-----------------------------------------------------------------------------
(* The queue of frames.                                                      *)

LEMMA AppendIs ==
    ASSUME NEW S, NEW q \in Seq(S), NEW m \in S
    PROVE  /\ DOMAIN q = 1..Len(q) /\ Len(q) \in Nat
           /\ DOMAIN Append(q, m) = 1..(Len(q) + 1)
           /\ \A i \in 1..Len(q) : Append(q, m)[i] = q[i]
           /\ Append(q, m)[Len(q) + 1] = m
OBVIOUS

LEMMA TailIs ==
    ASSUME NEW S, NEW q \in Seq(S), q # <<>>
    PROVE  /\ DOMAIN q = 1..Len(q) /\ Len(q) \in Nat \ {0}
           /\ DOMAIN Tail(q) = 1..(Len(q) - 1)
           /\ \A i \in 1..(Len(q) - 1) : Tail(q)[i] = q[i + 1]
           /\ Head(q) = q[1]
OBVIOUS

LEMMA FrameKinds ==
    ASSUME NEW m \in Frames, NEW o
    PROVE  /\ ~(IsEvent(m, o) /\ IsDone(m, o))
           /\ IsEvent(m, o) => m.n \in Nat
BY FramesAre DEF IsEvent, IsDone

LEMMA QueuedAppend ==
    ASSUME NEW q \in Seq(Frames), NEW m \in Frames, NEW o, NEW low \in Nat, NEW high \in Nat,
           Queued(q, o, low, high), ~IsEvent(m, o)
    PROVE  Queued(Append(q, m), o, low, high)
<1>1. /\ DOMAIN q = 1..Len(q) /\ Len(q) \in Nat
      /\ DOMAIN Append(q, m) = 1..(Len(q) + 1)
      /\ \A i \in 1..Len(q) : Append(q, m)[i] = q[i]
      /\ Append(q, m)[Len(q) + 1] = m
  BY AppendIs
<1>2. \A i \in DOMAIN Append(q, m) : IsEvent(Append(q, m)[i], o) =>
          i \in DOMAIN q /\ Append(q, m)[i] = q[i]
  BY <1>1
<1>3. \A i \in DOMAIN Append(q, m) : IsEvent(Append(q, m)[i], o) =>
          Append(q, m)[i].n \in low..high
  BY <1>2 DEF Queued
<1>4. \A n \in low..high :
          \E i \in DOMAIN Append(q, m) :
              IsEvent(Append(q, m)[i], o) /\ Append(q, m)[i].n = n
  <2>1. TAKE n \in low..high
  <2>2. PICK i \in DOMAIN q : IsEvent(q[i], o) /\ q[i].n = n
    BY DEF Queued
  <2>3. i \in DOMAIN Append(q, m) /\ Append(q, m)[i] = q[i]
    BY <1>1
  <2>4. QED
    BY <2>2, <2>3
<1>5. \A i, j \in DOMAIN Append(q, m) :
          i < j /\ IsEvent(Append(q, m)[i], o) /\ IsEvent(Append(q, m)[j], o) =>
              Append(q, m)[i].n < Append(q, m)[j].n
  BY <1>2 DEF Queued
<1>6. \A i, j \in DOMAIN Append(q, m) :
          i < j /\ IsDone(Append(q, m)[i], o) => ~IsEvent(Append(q, m)[j], o)
  <2>1. TAKE i, j \in DOMAIN Append(q, m)
  <2>2. SUFFICES ASSUME i < j, IsDone(Append(q, m)[i], o), IsEvent(Append(q, m)[j], o)
                 PROVE  FALSE
    OBVIOUS
  <2>3. j \in DOMAIN q /\ i \in DOMAIN q
    BY <1>1, <1>2, <2>2
  <2>4. IsDone(q[i], o) /\ IsEvent(q[j], o)
    BY <1>1, <2>2, <2>3
  <2>5. QED
    BY <2>2, <2>3, <2>4 DEF Queued
<1>7. QED
  BY <1>3, <1>4, <1>5, <1>6 DEF Queued

LEMMA QueuedEvent ==
    ASSUME NEW q \in Seq(Frames), NEW m \in Frames, NEW o, NEW low \in Nat, NEW high \in Nat,
           Queued(q, o, low, high), low <= high + 1, IsEvent(m, o), m.n = high + 1,
           \A i \in DOMAIN q : ~IsDone(q[i], o)
    PROVE  Queued(Append(q, m), o, low, high + 1)
<1>1. /\ DOMAIN q = 1..Len(q) /\ Len(q) \in Nat
      /\ DOMAIN Append(q, m) = 1..(Len(q) + 1)
      /\ \A i \in 1..Len(q) : Append(q, m)[i] = q[i]
      /\ Append(q, m)[Len(q) + 1] = m
  BY AppendIs
<1>2. \A i \in DOMAIN Append(q, m) : IsEvent(Append(q, m)[i], o) =>
          Append(q, m)[i].n \in low..(high + 1)
  <2>1. TAKE i \in DOMAIN Append(q, m)
  <2>2. CASE i \in DOMAIN q
    BY <1>1, <2>2 DEF Queued
  <2>3. CASE i = Len(q) + 1
    BY <1>1, <2>3
  <2>4. QED
    BY <1>1, <2>2, <2>3
<1>3. \A n \in low..(high + 1) :
          \E i \in DOMAIN Append(q, m) :
              IsEvent(Append(q, m)[i], o) /\ Append(q, m)[i].n = n
  <2>1. TAKE n \in low..(high + 1)
  <2>2. CASE n \in low..high
    <3>1. PICK i \in DOMAIN q : IsEvent(q[i], o) /\ q[i].n = n
      BY <2>2 DEF Queued
    <3>2. i \in DOMAIN Append(q, m) /\ Append(q, m)[i] = q[i]
      BY <1>1
    <3>3. QED
      BY <3>1, <3>2
  <2>3. CASE n = high + 1
    <3>1. Len(q) + 1 \in DOMAIN Append(q, m)
      BY <1>1
    <3>2. QED
      BY <1>1, <2>3, <3>1
  <2>4. QED
    BY <2>2, <2>3
<1>4. \A i, j \in DOMAIN Append(q, m) :
          i < j /\ IsEvent(Append(q, m)[i], o) /\ IsEvent(Append(q, m)[j], o) =>
              Append(q, m)[i].n < Append(q, m)[j].n
  <2>1. TAKE i, j \in DOMAIN Append(q, m)
  <2>2. SUFFICES ASSUME i < j, IsEvent(Append(q, m)[i], o), IsEvent(Append(q, m)[j], o)
                 PROVE  Append(q, m)[i].n < Append(q, m)[j].n
    OBVIOUS
  <2>3. i \in DOMAIN q /\ Append(q, m)[i] = q[i] /\ q[i].n \in low..high
    BY <1>1, <2>2 DEF Queued
  <2>4. CASE j \in DOMAIN q
    BY <1>1, <2>2, <2>3, <2>4 DEF Queued
  <2>5. CASE j = Len(q) + 1
    BY <1>1, <2>3, <2>5
  <2>6. QED
    BY <1>1, <2>4, <2>5
<1>5. \A i, j \in DOMAIN Append(q, m) :
          i < j /\ IsDone(Append(q, m)[i], o) => ~IsEvent(Append(q, m)[j], o)
  BY <1>1, FrameKinds
<1>6. QED
  BY <1>2, <1>3, <1>4, <1>5 DEF Queued

LEMMA QueuedTail ==
    ASSUME NEW q \in Seq(Frames), q # <<>>, NEW o, NEW low \in Nat, NEW high \in Nat,
           Queued(q, o, low, high), ~IsEvent(q[1], o)
    PROVE  Queued(Tail(q), o, low, high)
<1>1. /\ DOMAIN q = 1..Len(q) /\ Len(q) \in Nat \ {0}
      /\ DOMAIN Tail(q) = 1..(Len(q) - 1)
      /\ \A i \in 1..(Len(q) - 1) : Tail(q)[i] = q[i + 1]
  BY TailIs
<1>2. \A i \in DOMAIN Tail(q) : i + 1 \in DOMAIN q /\ Tail(q)[i] = q[i + 1]
  BY <1>1
<1>3. \A n \in low..high :
          \E i \in DOMAIN Tail(q) : IsEvent(Tail(q)[i], o) /\ Tail(q)[i].n = n
  <2>1. TAKE n \in low..high
  <2>2. PICK i \in DOMAIN q : IsEvent(q[i], o) /\ q[i].n = n
    BY DEF Queued
  <2>3. i # 1 /\ i - 1 \in DOMAIN Tail(q) /\ Tail(q)[i - 1] = q[i]
    BY <1>1, <2>2
  <2>4. QED
    BY <2>2, <2>3
<1>4. \A i, j \in DOMAIN Tail(q) : i < j => i + 1 < j + 1
  BY <1>1
<1>5. QED
  BY <1>2, <1>3, <1>4 DEF Queued

LEMMA QueuedFirst ==
    ASSUME NEW q \in Seq(Frames), q # <<>>, NEW o, NEW low \in Nat, NEW high \in Nat,
           Queued(q, o, low, high), IsEvent(q[1], o)
    PROVE  q[1].n = low /\ low <= high /\ Queued(Tail(q), o, low + 1, high)
<1>1. /\ DOMAIN q = 1..Len(q) /\ Len(q) \in Nat \ {0}
      /\ DOMAIN Tail(q) = 1..(Len(q) - 1)
      /\ \A i \in 1..(Len(q) - 1) : Tail(q)[i] = q[i + 1]
  BY TailIs
<1>2. 1 \in DOMAIN q /\ q[1].n \in low..high
  BY <1>1 DEF Queued
<1>3. q[1].n = low
  <2>1. PICK i \in DOMAIN q : IsEvent(q[i], o) /\ q[i].n = low
    BY <1>2 DEF Queued
  <2>2. CASE i = 1
    BY <2>1, <2>2
  <2>3. CASE 1 < i
    <3>1. q[1].n < q[i].n
      BY <1>2, <2>1, <2>3 DEF Queued
    <3>2. QED
      BY <1>2, <2>1, <3>1
  <2>4. QED
    BY <1>1, <2>2, <2>3
<1>4. \A i \in DOMAIN Tail(q) : i + 1 \in DOMAIN q /\ Tail(q)[i] = q[i + 1] /\ 1 < i + 1
  BY <1>1
<1>5. \A i \in DOMAIN Tail(q) : IsEvent(Tail(q)[i], o) => Tail(q)[i].n \in (low + 1)..high
  <2>1. TAKE i \in DOMAIN Tail(q)
  <2>2. HAVE IsEvent(Tail(q)[i], o)
  <2>3. q[i + 1].n \in low..high /\ q[1].n < q[i + 1].n
    BY <1>2, <1>4, <2>2 DEF Queued
  <2>4. QED
    BY <1>3, <1>4, <2>3
<1>6. \A n \in (low + 1)..high :
          \E i \in DOMAIN Tail(q) : IsEvent(Tail(q)[i], o) /\ Tail(q)[i].n = n
  <2>1. TAKE n \in (low + 1)..high
  <2>2. PICK i \in DOMAIN q : IsEvent(q[i], o) /\ q[i].n = n
    BY DEF Queued
  <2>3. i # 1 /\ i - 1 \in DOMAIN Tail(q) /\ Tail(q)[i - 1] = q[i]
    BY <1>1, <1>3, <2>2
  <2>4. QED
    BY <2>2, <2>3
<1>7. \A i, j \in DOMAIN Tail(q) : i < j => i + 1 < j + 1
  BY <1>1
<1>8. \A i, j \in DOMAIN Tail(q) :
          i < j /\ IsEvent(Tail(q)[i], o) /\ IsEvent(Tail(q)[j], o) =>
              Tail(q)[i].n < Tail(q)[j].n
  BY <1>4, <1>7 DEF Queued
<1>9. \A i, j \in DOMAIN Tail(q) :
          i < j /\ IsDone(Tail(q)[i], o) => ~IsEvent(Tail(q)[j], o)
  BY <1>4, <1>7 DEF Queued
<1>10. QED
  BY <1>2, <1>3, <1>5, <1>6, <1>8, <1>9 DEF Queued

LEMMA QueuedDone ==
    ASSUME NEW q \in Seq(Frames), q # <<>>, NEW o, NEW low \in Nat, NEW high \in Nat,
           Queued(q, o, low, high), IsDone(q[1], o)
    PROVE  high < low
<1>1. SUFFICES ASSUME low <= high PROVE FALSE
  OBVIOUS
<1>2. PICK i \in DOMAIN q : IsEvent(q[i], o)
  BY <1>1 DEF Queued
<1>3. 1 \in DOMAIN q /\ q[1] \in Frames /\ DOMAIN q = 1..Len(q)
  OBVIOUS
<1>4. i # 1
  BY <1>2, <1>3, FrameKinds
<1>5. QED
  BY <1>2, <1>3, <1>4 DEF Queued

-----------------------------------------------------------------------------
(* What is shown, over a step of the outbound channel, the writer or the view.  *)

LEMMA SendIs ==
    ASSUME OutboundOK, NEW m, Send(m)
    PROVE  outbound'.queue \in {outbound.queue, Append(outbound.queue, m)}
BY DEF OutboundOK, OutboundType, Send, With

\* A frame that is not an event of the stream's.
LEMMA ShownAppend ==
    ASSUME TypeInv, NEW o \in Readers, NEW b \in Nat, NEW k \in Nat, Shown(o, b, k),
           NEW m \in Frames, ~IsEvent(m, o), UNCHANGED <<view, writer>>,
           outbound'.queue \in {outbound.queue, Append(outbound.queue, m)}
    PROVE  Shown(o, b, k)'
<1>1. outbound.queue \in Seq(Frames) /\ Len(view[o].events) \in Nat
  BY DEF TypeInv, OutboundOK, OutboundType, ViewsOK, ViewType
<1>2. ASSUME Queued(outbound.queue, o, b + Len(view[o].events) + 1, b + k)
      PROVE  Queued(outbound'.queue, o, b + Len(view[o].events) + 1, b + k)
  <2>1. b + Len(view[o].events) + 1 \in Nat /\ b + k \in Nat
    BY <1>1
  <2>2. Queued(Append(outbound.queue, m), o, b + Len(view[o].events) + 1, b + k)
    BY <1>1, <1>2, <2>1, QueuedAppend
  <2>3. QED
    BY <1>2, <2>2
<1>3. QED
  BY <1>2 DEF Shown

LEMMA OverAppend ==
    ASSUME TypeInv, NEW o \in Readers, NEW m \in Frames, ~IsDone(m, o),
           UNCHANGED view, Over(o)',
           outbound'.queue \in {outbound.queue, Append(outbound.queue, m)}
    PROVE  Over(o)
<1>1. outbound.queue \in Seq(Frames)
  BY DEF TypeInv, OutboundOK, OutboundType
<1>2. CASE outbound'.queue = outbound.queue
  BY <1>2 DEF Over
<1>3. CASE outbound'.queue = Append(outbound.queue, m)
  <2>1. /\ DOMAIN outbound.queue = 1..Len(outbound.queue) /\ Len(outbound.queue) \in Nat
        /\ DOMAIN outbound'.queue = 1..(Len(outbound.queue) + 1)
        /\ \A i \in 1..Len(outbound.queue) : outbound'.queue[i] = outbound.queue[i]
        /\ outbound'.queue[Len(outbound.queue) + 1] = m
    BY <1>1, <1>3, AppendIs
  <2>2. CASE view'[o].done
    BY <2>2 DEF Over
  <2>3. CASE \E i \in DOMAIN outbound'.queue : IsDone(outbound'.queue[i], o)
    BY <2>1, <2>3 DEF Over
  <2>4. QED
    BY <2>2, <2>3 DEF Over
<1>4. QED
  BY <1>2, <1>3

\* The stream's next event.
LEMMA ShownEvent ==
    ASSUME TypeInv, NEW o \in Readers, NEW b \in Nat, NEW k \in Nat, Shown(o, b, k),
           ~Over(o), NEW m \in Frames, IsEvent(m, o), m.n = b + k + 1,
           UNCHANGED <<view, writer>>, outbound'.queue = Append(outbound.queue, m)
    PROVE  Shown(o, b, k + 1)'
<1>1. outbound.queue \in Seq(Frames) /\ Len(view[o].events) \in Nat
  BY DEF TypeInv, OutboundOK, OutboundType, ViewsOK, ViewType
<1>2. /\ Len(view[o].events) <= k /\ ~view[o].done
      /\ \A i \in DOMAIN outbound.queue : ~IsDone(outbound.queue[i], o)
  BY DEF Shown, Over
<1>3. ASSUME Queued(outbound.queue, o, b + Len(view[o].events) + 1, b + k)
      PROVE  Queued(outbound'.queue, o, b + Len(view[o].events) + 1, b + (k + 1))
  <2>1. Queued(Append(outbound.queue, m), o, b + Len(view[o].events) + 1, b + k + 1)
    BY <1>1, <1>2, <1>3, QueuedEvent
  <2>2. QED
    BY <2>1
<1>4. QED
  BY <1>1, <1>2, <1>3 DEF Shown

\* The writer takes a frame to the client.
LEMMA ShownWrite ==
    ASSUME TypeInv, NEW o \in Readers, NEW b \in Nat, NEW k \in Nat, Shown(o, b, k), Write
    PROVE  Shown(o, b, k)'
<1> DEFINE q == outbound.queue
           m == Head(outbound.queue)
           seen == Len(view[o].events)
<1>1. /\ q \in Seq(Frames) /\ q # <<>> /\ m = q[1] /\ m \in Frames
      /\ outbound'.queue = Tail(q) /\ writer = "on" /\ UNCHANGED writer
      /\ view' = Received(m)
      /\ view \in [Readers -> ViewType]
      /\ view[o].events \in Seq(Nat) /\ seen \in Nat /\ view[o].done \in BOOLEAN
  BY DEF Write, TypeInv, OutboundOK, OutboundType, ViewsOK, ViewType
<1>2. Queued(q, o, b + seen + 1, b + k) /\ seen <= k
  BY <1>1 DEF Shown
<1>3. CASE IsEvent(m, o)
  <2>1. m.n = b + seen + 1 /\ b + seen + 1 <= b + k /\ Queued(Tail(q), o, b + seen + 1 + 1, b + k)
    BY <1>1, <1>2, <1>3, QueuedFirst
  <2>2. view' = [view EXCEPT ![o].events = Append(@, m.n)]
    BY <1>1, <1>3 DEF Received, IsEvent
  <2>3. view'[o].events = Append(view[o].events, m.n) /\ view'[o].done = view[o].done
    BY <1>1, <2>2 DEF ViewType
  <2>4. /\ Len(view'[o].events) = seen + 1
        /\ \A i \in 1..seen : view'[o].events[i] = view[o].events[i]
        /\ view'[o].events[seen + 1] = b + (seen + 1)
    <3>1. m.n \in Nat
      BY <1>1, <1>3, FrameKinds
    <3>2. /\ Len(Append(view[o].events, m.n)) = seen + 1
          /\ \A i \in 1..seen : Append(view[o].events, m.n)[i] = view[o].events[i]
          /\ Append(view[o].events, m.n)[seen + 1] = m.n
      BY <1>1, <3>1
    <3>3. b + seen + 1 = b + (seen + 1)
      BY <1>1
    <3>4. QED
      BY <2>1, <2>3, <3>2, <3>3
  <2>5. \A i \in 1..(seen + 1) : view'[o].events[i] = b + i
    <3>1. \A i \in 1..seen : view[o].events[i] = b + i
      BY DEF Shown
    <3>2. \A i \in 1..(seen + 1) : i \in 1..seen \/ i = seen + 1
      BY <1>1
    <3>3. QED
      BY <2>4, <3>1, <3>2
  <2>6. ~view[o].done
    BY <1>1, <2>1 DEF Shown
  <2>7. Queued(Tail(q), o, b + (seen + 1) + 1, b + k)
    BY <1>1, <2>1
  <2>8. seen + 1 <= k
    BY <1>1, <2>1
  <2>9. QED
    BY <1>1, <2>3, <2>4, <2>5, <2>6, <2>7, <2>8 DEF Shown
<1>4. CASE ~IsEvent(m, o)
  <2>1. Queued(Tail(q), o, b + seen + 1, b + k)
    BY <1>1, <1>2, <1>4, QueuedTail
  <2>2. CASE IsDone(m, o)
    <3>1. k = seen
      <4>1. b + k < b + seen + 1
        BY <1>1, <1>2, <2>2, QueuedDone
      <4>2. QED
        BY <1>1, <1>2, <4>1
    <3>2. view'[o].events = view[o].events
      BY <1>1, <2>2 DEF Received, IsDone, ViewType
    <3>3. QED
      BY <1>1, <2>1, <3>1, <3>2 DEF Shown
  <2>3. CASE ~IsDone(m, o)
    <3>1. view'[o] = view[o]
      BY <1>1, <1>4, <2>3, FramesAre DEF Received, IsDone, IsEvent
    <3>2. QED
      BY <1>1, <2>1, <3>1 DEF Shown
  <2>4. QED
    BY <2>2, <2>3
<1>5. QED
  BY <1>3, <1>4

LEMMA OverWrite ==
    ASSUME TypeInv, NEW o \in Readers, WriterStep \/ ServeStep, Over(o)'
    PROVE  Over(o)
<1> DEFINE q == outbound.queue
<1>1. q \in Seq(Frames)
  BY DEF TypeInv, OutboundOK, OutboundType
<1>2. CASE \E i \in DOMAIN outbound'.queue : IsDone(outbound'.queue[i], o)
  <2>1. outbound'.queue = q \/ (q # <<>> /\ outbound'.queue = Tail(q))
    <3>1. outbound \in OutboundType
      BY DEF TypeInv, OutboundOK
    <3>2. CASE Write \/ WriteFails
      BY <3>1, <3>2 DEF Write, WriteFails, OutboundType
    <3>3. CASE WriterEnds \/ ServeStep
      BY <3>1, <3>3 DEF WriterEnds, ServeStep, CloseOutbound, CloseConnection, OutboundType
    <3>4. QED
      BY <3>2, <3>3 DEF WriterStep
  <2>2. CASE outbound'.queue = q
    BY <1>2, <2>2 DEF Over
  <2>3. CASE q # <<>> /\ outbound'.queue = Tail(q)
    <3>1. \A i \in DOMAIN Tail(q) : i + 1 \in DOMAIN q /\ Tail(q)[i] = q[i + 1]
      BY <1>1, <2>3, TailIs
    <3>2. QED
      BY <1>2, <2>3, <3>1 DEF Over
  <2>4. QED
    BY <2>1, <2>2, <2>3
<1>3. CASE view'[o].done /\ ~view[o].done
  <2>1. Write
    BY <1>3 DEF WriterStep, ServeStep, WriteFails, WriterEnds, CloseOutbound, CloseConnection
  <2>2. q # <<>> /\ view' = Received(Head(q)) /\ Head(q) = q[1] /\ 1 \in DOMAIN q
        /\ q[1] \in Frames
    BY <1>1, <2>1 DEF Write
  <2>3. IsDone(q[1], o)
    BY <1>3, <2>2, FramesAre DEF Received, IsDone, TypeInv, ViewsOK, ViewType
  <2>4. QED
    BY <2>2, <2>3 DEF Over
<1>4. QED
  BY <1>2, <1>3 DEF Over

LEMMA ShownConnection ==
    ASSUME TypeInv, NEW o \in Readers, NEW b \in Nat, NEW k \in Nat, Shown(o, b, k),
           WriterStep \/ ServeStep
    PROVE  Shown(o, b, k)'
<1>1. CASE Write
  BY <1>1, ShownWrite
<1>2. CASE WriteFails \/ WriterEnds
  BY <1>2 DEF WriteFails, WriterEnds, Shown
<1>3. CASE CloseOutbound \/ CloseConnection
  <2>1. outbound'.queue = outbound.queue
    BY <1>3 DEF CloseOutbound, CloseConnection, TypeInv, OutboundOK, OutboundType
  <2>2. QED
    BY <1>3, <2>1 DEF CloseOutbound, CloseConnection, Shown
<1>4. QED
  BY <1>1, <1>2, <1>3 DEF WriterStep, ServeStep

-----------------------------------------------------------------------------
(* The streams, step by step.                                                *)

\* A step that leaves the stream's operation and channel alone.
LEMMA StreamKept ==
    ASSUME NEW o \in Readers, NEW b \in Nat, NEW k \in Nat, Shape(o), Stream(o, b, k),
           op'[o] = op[o], channel'[o] = channel[o], UNCHANGED announced,
           \/ UNCHANGED exchange
           \/ exchange.state = "none" /\ exchange'.state # "none",
           Shown(o, b, k)', Over(o)' => Over(o)
    PROVE  Shape(o)' /\ Stream(o, b, k)'
<1>1. channel[o].feed = "exchange" => UNCHANGED exchange
  BY DEF Shape
<1>2. Shape(o)'
  BY <1>1 DEF Shape
<1>3. Base(o, b, k)' /\ Taken(o)' = Taken(o)
  BY DEF Stream, Base, Taken
<1>4. Coming(o, b, k) => Coming(o, b, k)'
  BY <1>1, <1>3 DEF Coming
<1>5. Complete(o, k) => Complete(o, k)'
  BY <1>1 DEF Complete
<1>6. QED
  BY <1>2, <1>3, <1>4, <1>5 DEF Stream

Rest(o) == <<op[o].kind, op[o].hand, op[o].spoken, op[o].snapshot>>

LEMMA GoesIs ==
    ASSUME TypeInv, NEW o \in Readers, NEW label, Goes(o, label)
    PROVE  op'[o].pc = label /\ UNCHANGED Rest(o)
BY DEF TypeInv, OpsOK, OpType, Goes, Rest

\* The stream's own operation goes from one place to another, with no event in hand.
LEMMA OwnMove ==
    ASSUME NEW o \in Readers, NEW b \in Nat, NEW k \in Nat, Shape(o), Stream(o, b, k),
           NEW label, op'[o].pc = label, UNCHANGED Rest(o),
           UNCHANGED announced, channel'[o] = channel[o],
           \/ UNCHANGED exchange
           \/ exchange.state = "none" /\ exchange'.state # "none",
           op[o].pc # "forward", label # "forward",
           label \in Before => op[o].pc \in Before,
           label = "relay" => op[o].pc \in Before \union {"relay"},
           op[o].pc \in Ended => label \in Ended,
           op[o].kind = "watch" /\ op[o].pc \in Before => label \in Before,
           label = "subscribe" => op[o].kind = "chat" /\ exchange'.state # "none",
           Shown(o, b, k)', Over(o)' => Over(o)
    PROVE  Shape(o)' /\ Stream(o, b, k)'
<1>1. /\ op'[o].kind = op[o].kind /\ op'[o].hand = op[o].hand
      /\ op'[o].spoken = op[o].spoken /\ op'[o].snapshot = op[o].snapshot
  BY DEF Rest
<1>0. channel[o].feed = "exchange" => UNCHANGED exchange
  BY DEF Shape
<1>2. Shape(o)'
  BY <1>0, <1>1 DEF Shape
<1>3. Base(o, b, k)'
  BY <1>1 DEF Stream, Base
<1>4. Taken(o) = 0 /\ Taken(o)' = 0
  BY DEF Taken
<1>5. Coming(o, b, k) => Coming(o, b, k)'
  BY <1>0, <1>1, <1>4 DEF Coming
<1>6. label \in Before \union {"relay"} => Coming(o, b, k)
  BY DEF Stream
<1>7. Complete(o, k) => Complete(o, k)'
  BY <1>0, <1>1 DEF Complete
<1>8. QED
  BY <1>2, <1>3, <1>5, <1>6, <1>7 DEF Stream

\* The events stop: what is said to the client, if anything, is "done".
LEMMA OwnEnd ==
    ASSUME NEW o \in Readers, NEW b \in Nat, NEW k \in Nat, Shape(o), Stream(o, b, k),
           op'[o].pc \in Ended, UNCHANGED <<op[o].kind, op[o].spoken, op[o].snapshot>>,
           UNCHANGED <<exchange, announced>>, channel'[o] = channel[o],
           op[o].kind = "watch" => op[o].pc \notin Before,
           Shown(o, b, k)', Over(o)' => Complete(o, k)'
    PROVE  Shape(o)' /\ Stream(o, b, k)'
<1>1. op'[o].pc \notin Before \union {"relay", "forward"}
  BY DEF Ended, Before
<1>2. Shape(o)'
  BY <1>1 DEF Shape, Before
<1>3. Base(o, b, k)'
  BY <1>1 DEF Stream, Base
<1>4. QED
  BY <1>1, <1>2, <1>3 DEF Stream

LEMMA OwnReadStep ==
    ASSUME TypeInv, NEW o \in Readers, NEW b \in Nat, NEW k \in Nat, Shape(o), Stream(o, b, k),
           ReadStep(o) \/ Leave(o) \/ WorkDone(o)
    PROVE  Shape(o)' /\ Stream(o, b, k)'
<1>1. PICK label \in {"slot", "work", "leave", "unslot", "done", "gone"} :
          /\ Goes(o, label)
          /\ op[o].pc \in Ended => label \in Ended
  BY DEF ReadStep, Accept, TakeSlot, LeaveQueue, RunReturns, ReleaseSlot, Leave, WorkDone, Ended
<1>2. op'[o].pc = label /\ UNCHANGED Rest(o)
  BY <1>1, GoesIs
<1>3. /\ UNCHANGED <<exchange, announced, channel, view, writer>>
      /\ op[o].pc # "forward" /\ (op[o].kind = "watch" => op[o].pc \notin Before)
  BY DEF ReadStep, Accept, TakeSlot, LeaveQueue, RunReturns, ReleaseSlot, Leave, WorkDone,
         eventVars, Before
<1>4. outbound'.queue \in {outbound.queue, Append(outbound.queue, Message)}
  <2>1. CASE Send(Message)
    BY <2>1, SendIs DEF TypeInv
  <2>2. CASE outbound' = outbound
    BY <2>2
  <2>3. QED
    BY <2>1, <2>2 DEF ReadStep, Accept, TakeSlot, LeaveQueue, RunReturns, ReleaseSlot, Leave,
                      WorkDone
<1>5. Message \in Frames /\ ~IsEvent(Message, o) /\ ~IsDone(Message, o)
  BY FramesAre DEF Message, IsEvent, IsDone
<1>6. Shown(o, b, k)' /\ (Over(o)' => Over(o))
  BY <1>3, <1>4, <1>5, ShownAppend, OverAppend DEF Stream
<1>7. label \notin Before \union {"relay", "forward", "subscribe"}
  BY DEF Before
<1>8. QED
  BY <1>1, <1>2, <1>3, <1>6, <1>7, OwnMove

LEMMA ShownMessage ==
    ASSUME TypeInv, NEW o \in Readers, NEW b \in Nat, NEW k \in Nat, Shown(o, b, k),
           Send(Message) \/ outbound' = outbound, UNCHANGED <<view, writer>>
    PROVE  Shown(o, b, k)' /\ (Over(o)' => Over(o))
<1>1. outbound'.queue \in {outbound.queue, Append(outbound.queue, Message)}
  BY SendIs DEF TypeInv
<1>2. Message \in Frames /\ ~IsEvent(Message, o) /\ ~IsDone(Message, o)
  BY FramesAre DEF Message, IsEvent, IsDone
<1>3. QED
  BY <1>1, <1>2, ShownAppend, OverAppend

LEMMA ShownDone ==
    ASSUME TypeInv, NEW o \in Readers, NEW b \in Nat, NEW k \in Nat, Shown(o, b, k),
           NEW p \in Readers, Send(Done(p)), UNCHANGED <<view, writer>>
    PROVE  Shown(o, b, k)' /\ (p # o => (Over(o)' => Over(o)))
<1>1. outbound'.queue \in {outbound.queue, Append(outbound.queue, Done(p))}
  BY SendIs DEF TypeInv
<1>2. Done(p) \in Frames /\ ~IsEvent(Done(p), o) /\ (p # o => ~IsDone(Done(p), o))
  BY FramesAre DEF Done, IsEvent, IsDone
<1>3. QED
  BY <1>1, <1>2, ShownAppend, OverAppend

LEMMA OwnMoves ==
    ASSUME TypeInv, NEW o \in Readers, NEW b \in Nat, NEW k \in Nat, Shape(o), Stream(o, b, k),
           \/ FindExchange(o) \/ Refuse(o) \/ AcceptWatch(o) \/ RunCell(o)
    PROVE  Shape(o)' /\ Stream(o, b, k)'
<1>1. /\ Send(Message) /\ UNCHANGED <<announced, channel, view, writer>>
      /\ op[o].pc = "begin"
  BY DEF FindExchange, Refuse, AcceptWatch, RunCell, eventVars
<1>2. Shown(o, b, k)' /\ (Over(o)' => Over(o))
  BY <1>1, ShownMessage DEF Stream
<1>3. CASE FindExchange(o)
  <2>1. /\ op'[o].pc = "subscribe" /\ UNCHANGED Rest(o) /\ op[o].kind = "chat"
    BY <1>3, GoesIs DEF FindExchange
  <2>2. /\ \/ UNCHANGED exchange
           \/ exchange.state = "none" /\ exchange'.state # "none"
        /\ exchange'.state # "none"
    BY <1>3 DEF FindExchange, BeginExchange
  <2>3. QED
    BY <1>1, <1>2, <2>1, <2>2, OwnMove DEF Before, Ended
<1>4. CASE Refuse(o)
  <2>1. op'[o].pc = "leave" /\ UNCHANGED Rest(o) /\ UNCHANGED exchange /\ op[o].kind # "watch"
    BY <1>4, GoesIs DEF Refuse, eventVars
  <2>2. QED
    BY <1>1, <1>2, <2>1, OwnMove DEF Before, Ended
<1>5. CASE AcceptWatch(o)
  <2>1. op'[o].pc = "snapshot" /\ UNCHANGED Rest(o) /\ UNCHANGED exchange
    BY <1>5, GoesIs DEF AcceptWatch, eventVars
  <2>2. QED
    BY <1>1, <1>2, <2>1, OwnMove DEF Before, Ended
<1>6. CASE RunCell(o)
  <2>1. op'[o].pc = "relay" /\ UNCHANGED Rest(o) /\ UNCHANGED exchange /\ op[o].kind # "watch"
    BY <1>6, GoesIs DEF RunCell, eventVars
  <2>2. QED
    BY <1>1, <1>2, <2>1, OwnMove DEF Before, Ended
<1>7. QED
  BY <1>3, <1>4, <1>5, <1>6

\* Nothing to attach to, the end of an exchange or a watch, a view cancelled.
LEMMA OwnEnds ==
    ASSUME TypeInv, OpenInv, NEW o \in Readers, NEW b \in Nat, NEW k \in Nat, Shape(o),
           Stream(o, b, k), FindNothing(o) \/ StreamEnds(o) \/ StreamCancelled(o)
    PROVE  Shape(o)' /\ Stream(o, b, k)'
<1>1. /\ UNCHANGED <<exchange, announced, channel, view, writer>>
      /\ op[o].kind = "watch" => op[o].pc \notin Before
      /\ op[o].pc \notin Ended /\ op[o].kind # "cell"
  BY DEF FindNothing, StreamEnds, StreamCancelled, eventVars, Before, Ended
<1>2. ~Over(o)
  BY <1>1 DEF Stream, Complete
<1>3. Shown(o, b, k)
  BY DEF Stream
<1>4. CASE FindNothing(o)
  <2>1. op'[o].pc = "leave" /\ UNCHANGED Rest(o) /\ Send(Done(o)) /\ op[o].pc = "begin"
    BY <1>4, GoesIs DEF FindNothing
  <2>2. channel[o].feed # "exchange"
    BY <2>1 DEF Shape, Before
  <2>3. Complete(o, k)'
    BY <1>1, <2>1, <2>2 DEF Complete, Rest, Ended
  <2>4. Shown(o, b, k)'
    BY <1>1, <1>3, <2>1, ShownDone
  <2>5. QED
    BY <1>1, <2>1, <2>3, <2>4, OwnEnd DEF Rest, Ended
<1>5. CASE StreamEnds(o)
  <2>1. /\ op'[o].pc = "detach" /\ UNCHANGED Rest(o) /\ Send(Done(o)) /\ op[o].pc = "relay"
        /\ channel[o].queue = <<>> /\ channel[o].closed > 0
    BY <1>5, GoesIs DEF StreamEnds
  <2>2. ~channel[o].registered
    BY <2>1 DEF OpenInv, ChannelsInv, ChannelOK
  <2>3. channel[o].feed = "exchange" /\ ~channel[o].lagged =>
            exchange.state = "closed" /\ k = exchange.events
    <3>1. Coming(o, b, k) /\ Taken(o) = 0 /\ Base(o, b, k)
      BY <2>1 DEF Stream, Taken
    <3>2. channel[o].feed = "exchange" => b = 0
      BY <3>1 DEF Shape, Base
    <3>3. QED
      BY <2>1, <2>2, <3>1, <3>2 DEF Coming
  <2>4. Complete(o, k)'
    BY <1>1, <2>1, <2>3 DEF Complete, Rest, Ended
  <2>5. Shown(o, b, k)'
    BY <1>1, <1>3, <2>1, ShownDone
  <2>6. QED
    BY <1>1, <2>1, <2>4, <2>5, OwnEnd DEF Rest, Ended
<1>6. CASE StreamCancelled(o)
  <2>1. op'[o].pc = "detach" /\ UNCHANGED Rest(o) /\ Send(Message)
    BY <1>6, GoesIs DEF StreamCancelled
  <2>2. Shown(o, b, k)' /\ ~Over(o)'
    BY <1>1, <1>2, <1>3, <2>1, ShownMessage
  <2>3. QED
    BY <1>1, <2>1, <2>2, OwnEnd DEF Rest, Ended
<1>7. QED
  BY <1>4, <1>5, <1>6

\* The history, and then what comes: for a subscriber the stream begins here.
LEMMA OwnSubscribe ==
    ASSUME TypeInv, NEW o \in Readers, NEW b \in Nat, NEW k \in Nat, Shape(o), Stream(o, b, k),
           SubscribeTo(o)
    PROVE  Shape(o)' /\ Stream(o, b, k)'
<1>1. /\ op'[o].pc = "relay" /\ UNCHANGED Rest(o) /\ op[o].pc = "subscribe"
      /\ UNCHANGED <<exchange, announced, outbound, view, writer>>
      /\ op[o].kind = "chat" /\ exchange.state # "none"
  BY GoesIs DEF SubscribeTo, Shape
<1>2. b = 0 /\ k = 0
  BY <1>1 DEF Stream, Base, Before
<1>3. exchange.events \in Nat
  BY DEF TypeInv, EventsTypes, ExchangeType
<1>4. channel'[o] = NewChannel("exchange", UpTo(exchange.events),
                        subscriberBuffer + exchange.events, exchange.state = "closed")
  BY DEF SubscribeTo, Subscribe, TypeInv, EventsTypes
<1>5. /\ channel'[o].feed = "exchange" /\ channel'[o].queue = UpTo(exchange.events)
      /\ channel'[o].registered = (exchange.state # "closed")
  BY <1>4 DEF NewChannel
<1>6. DOMAIN UpTo(exchange.events) = 1..exchange.events
  BY DEF UpTo
<1>7. Taken(o)' = 0
  BY <1>1 DEF Taken
<1>8. Coming(o, b, k)'
  <2>1. \A j \in DOMAIN channel'[o].queue : channel'[o].queue[j] = j
    BY <1>5, <1>6 DEF UpTo
  <2>2. Len(channel'[o].queue) = exchange.events
    BY <1>3, <1>5, UpToType
  <2>3. op'[o].kind # "cell"
    BY <1>1 DEF Rest
  <2>4. \A j \in DOMAIN channel'[o].queue : channel'[o].queue[j] = b + k + 0 + j
    BY <1>2, <1>3, <1>5, <1>6, <2>1
  <2>5. channel'[o].registered \/ exchange'.state = "closed"
    BY <1>1, <1>5
  <2>6. b + k + 0 + Len(channel'[o].queue) = exchange'.events
    BY <1>1, <1>2, <1>3, <2>2
  <2>7. QED
    BY <1>5, <1>7, <2>3, <2>4, <2>5, <2>6 DEF Coming
<1>9. Shown(o, b, k)' /\ ~Over(o)'
  BY <1>1 DEF Stream, Shown, Over, Complete, Ended
<1>10. Base(o, b, k)'
  BY <1>1, <1>2 DEF Base, Rest
<1>11. Shape(o)'
  BY <1>1, <1>5 DEF Shape, Rest, Before
<1>12. QED
  BY <1>8, <1>9, <1>10, <1>11 DEF Stream

LEMMA ComingKept ==
    ASSUME NEW o \in Readers, NEW b \in Nat, NEW k \in Nat, Coming(o, b, k),
           Taken(o) = 0, Taken(o)' = 0, op'[o].kind = op[o].kind,
           op'[o].spoken = op[o].spoken, channel'[o] = channel[o],
           UNCHANGED <<exchange, announced>>
    PROVE  Coming(o, b, k)'
<1>1. Taken(o)' = Taken(o) /\ Taken(o)' # 1
  OBVIOUS
<1>2. Coming(o, b, k)
  OBVIOUS
<1>3. QED
  BY <1>1, <1>2 DEF Coming

\* A watch's snapshot is read: it was subscribed before.
LEMMA OwnSnapshot ==
    ASSUME TypeInv, NEW o \in Readers, NEW b \in Nat, NEW k \in Nat, Shape(o), Stream(o, b, k),
           ReadActivities(o)
    PROVE  Shape(o)' /\ Stream(o, b, k)'
<1>1. /\ UNCHANGED <<exchange, announced, channel, outbound, view, writer>>
      /\ op[o].pc = "snapshot"
  BY DEF ReadActivities, eventVars
<1>2. /\ op'[o].kind = op[o].kind /\ op'[o].spoken = op[o].spoken
      /\ op'[o].snapshot = announced
      /\ \/ op'[o].pc = "relay"
         \/ op'[o].pc = "forward" /\ op'[o].hand = <<Message>>
  BY DEF ReadActivities, TypeInv, OpsOK, OpType
<1>3. Taken(o) = 0 /\ Taken(o)' = 0
  BY <1>1, <1>2 DEF Taken, Message
<1>4. Coming(o, b, k) /\ Base(o, b, k)
  BY <1>1 DEF Stream, Before
<1>5. Coming(o, b, k)'
  BY <1>1, <1>2, <1>3, <1>4, ComingKept
<1>6. Base(o, b, k)'
  BY <1>1, <1>2, <1>4 DEF Base, Before
<1>7. Shown(o, b, k)' /\ ~Over(o)'
  BY <1>1 DEF Stream, Shown, Over, Complete, Ended
<1>8. Shape(o)'
  BY <1>1, <1>2 DEF Shape, Before, Message
<1>9. QED
  BY <1>5, <1>6, <1>7, <1>8 DEF Stream

LEMMA OwnTake ==
    ASSUME TypeInv, NEW o \in Readers, NEW b \in Nat, NEW k \in Nat, Shape(o), Stream(o, b, k),
           TakeEvent(o)
    PROVE  Shape(o)' /\ Stream(o, b, k)'
<1> DEFINE q == channel[o].queue
<1>1. /\ UNCHANGED <<exchange, announced, outbound, view, writer>>
      /\ op[o].pc = "relay" /\ q # <<>> /\ q \in Seq(Nat)
      /\ op[o].kind # "cell"
  BY DEF TakeEvent, TypeInv, EventsTypes, ChannelType
<1>2. /\ op'[o].kind = op[o].kind /\ op'[o].spoken = op[o].spoken
      /\ op'[o].snapshot = op[o].snapshot
      /\ op'[o].pc = "forward" /\ op'[o].hand = <<Event(o, Head(q))>>
  BY DEF TakeEvent, TypeInv, OpsOK, OpType
<1>3. /\ channel'[o].queue = Tail(q) /\ channel'[o].feed = channel[o].feed
      /\ channel'[o].registered = channel[o].registered
      /\ channel'[o].lagged = channel[o].lagged
  BY DEF TakeEvent, TypeInv, EventsTypes, ChannelType
<1>4. /\ DOMAIN q = 1..Len(q) /\ Len(q) \in Nat \ {0}
      /\ DOMAIN Tail(q) = 1..(Len(q) - 1)
      /\ \A i \in 1..(Len(q) - 1) : Tail(q)[i] = q[i + 1]
      /\ Head(q) = q[1] /\ Len(Tail(q)) = Len(q) - 1
  BY <1>1, TailIs
<1>5. Taken(o) = 0 /\ Taken(o)' = 1
  BY <1>1, <1>2 DEF Taken, Event
<1>6. Coming(o, b, k) /\ Base(o, b, k)
  BY <1>1 DEF Stream
<1>7. \A j \in DOMAIN q : q[j] = b + k + j
  BY <1>5, <1>6 DEF Coming
<1>8. op'[o].hand[1].op = o /\ op'[o].hand[1].n = b + k + 1
  BY <1>2, <1>4, <1>7 DEF Event
<1>9. \A j \in DOMAIN Tail(q) : Tail(q)[j] = b + k + 1 + j
  <2>1. TAKE j \in DOMAIN Tail(q)
  <2>2. j \in Nat /\ j + 1 \in DOMAIN q /\ Tail(q)[j] = q[j + 1]
    BY <1>4
  <2>3. Tail(q)[j] = b + k + (j + 1)
    BY <1>7, <2>2
  <2>4. QED
    BY <2>2, <2>3
<1>10. Coming(o, b, k)'
  <2>1. channel[o].feed = "exchange" /\ ~channel[o].lagged =>
            b + k + 1 + Len(Tail(q)) = exchange.events
    BY <1>4, <1>5, <1>6 DEF Coming
  <2>2. channel[o].feed = "activity" /\ channel[o].registered =>
            b + k + 1 + Len(Tail(q)) = announced
    <3>1. channel[o].feed = "activity" /\ channel[o].registered =>
              b + k + 0 + Len(q) = announced
      BY <1>5, <1>6 DEF Coming
    <3>2. QED
      BY <1>4, <3>1
  <2>3. QED
    BY <1>1, <1>2, <1>3, <1>5, <1>6, <1>8, <1>9, <2>1, <2>2 DEF Coming
<1>11. Base(o, b, k)'
  BY <1>1, <1>2, <1>6 DEF Base, Before
<1>12. Shown(o, b, k)' /\ ~Over(o)'
  BY <1>1 DEF Stream, Shown, Over, Complete, Ended
<1>13. Shape(o)'
  BY <1>1, <1>2, <1>3, <1>4 DEF Shape, Before, Event
<1>14. QED
  BY <1>10, <1>11, <1>12, <1>13 DEF Stream

\* What is in hand reaches the outbound channel: for an event, one more is given.
LEMMA OwnForward ==
    ASSUME TypeInv, OpenInv, NEW o \in Readers, NEW b \in Nat, NEW k \in Nat, Shape(o),
           Stream(o, b, k), Forward(o)
    PROVE  Shape(o)' /\ \E given \in Nat : Stream(o, b, given)'
<1>1. /\ UNCHANGED <<exchange, announced, channel, view, writer>>
      /\ op[o].pc = "forward" /\ op'[o].pc = "relay"
      /\ op'[o].kind = op[o].kind /\ op'[o].spoken = op[o].spoken
      /\ op'[o].snapshot = op[o].snapshot
  BY DEF Forward, eventVars, TypeInv, OpsOK, OpType
<1>2. Coming(o, b, k) /\ Base(o, b, k) /\ ~Over(o) /\ Shown(o, b, k)
  BY <1>1 DEF Stream, Complete, Ended
<1>3. Shape(o)'
  BY <1>1 DEF Shape, Before
<1>4. op[o].hand[1] \in Frames /\ op[o].hand[1].type # "done"
  BY <1>1 DEF TypeInv, OpsOK, OpType, HandInv, Shape
<1>5. outbound'.queue = Append(outbound.queue, op[o].hand[1])
  <2>1. ~Shut
    BY <1>1 DEF OpenInv, WorkInv
  <2>2. outbound.closed = 0
    BY <2>1 DEF OpenInv, OutboundInv
  <2>3. QED
    BY <2>2 DEF Forward, With, TypeInv, OutboundOK, OutboundType
<1>6. Taken(o)' = 0
  BY <1>1 DEF Taken
<1>7. ~Over(o)'
  BY <1>1, <1>2, <1>4, <1>5, OverAppend DEF IsDone
<1>8. CASE op[o].hand[1].type = "event"
  <2>1. Taken(o) = 1 /\ op[o].hand[1].op = o /\ op[o].hand[1].n = b + k + 1
    BY <1>1, <1>2, <1>8 DEF Taken, Coming
  <2>2. Shown(o, b, k + 1)'
    BY <1>1, <1>2, <1>4, <1>5, <1>8, <2>1, ShownEvent DEF IsEvent
  <2>3. Coming(o, b, k + 1)'
    <3>1. \A j : b + k + 1 + j = b + (k + 1) + 0 + j
      OBVIOUS
    <3>2. QED
      BY <1>1, <1>2, <1>6, <2>1, <3>1 DEF Coming
  <2>4. Base(o, b, k + 1)'
    BY <1>1, <1>2 DEF Base, Before
  <2>5. k + 1 \in Nat
    OBVIOUS
  <2>6. QED
    BY <1>1, <1>3, <1>7, <2>2, <2>3, <2>4, <2>5 DEF Stream
<1>9. CASE op[o].hand[1].type = "message"
  <2>1. Taken(o) = 0
    BY <1>9 DEF Taken
  <2>2. Shown(o, b, k)'
    BY <1>1, <1>2, <1>4, <1>5, <1>9, ShownAppend DEF IsEvent
  <2>3. Coming(o, b, k)'
    BY <1>1, <1>2, <1>6, <2>1, ComingKept
  <2>4. Base(o, b, k)'
    BY <1>1, <1>2 DEF Base, Before
  <2>5. QED
    BY <1>1, <1>3, <1>7, <2>2, <2>3, <2>4 DEF Stream
<1>10. QED
  BY <1>4, <1>8, <1>9, FramesAre

LEMMA OwnStop ==
    ASSUME TypeInv, NEW o \in Readers, NEW b \in Nat, NEW k \in Nat, Shape(o), Stream(o, b, k),
           StopForwarding(o)
    PROVE  Shape(o)' /\ Stream(o, b, k)'
<1>1. /\ UNCHANGED <<exchange, announced, channel, outbound, view, writer>>
      /\ op[o].pc = "forward" /\ op'[o].pc \in {"drain", "detach"}
      /\ op'[o].kind = op[o].kind /\ op'[o].spoken = op[o].spoken
      /\ op'[o].snapshot = op[o].snapshot
  BY DEF StopForwarding, eventVars, TypeInv, OpsOK, OpType
<1>2. Shape(o)' /\ Base(o, b, k)'
  BY <1>1 DEF Stream, Shape, Base, Before
<1>3. Shown(o, b, k)' /\ ~Over(o)'
  BY <1>1 DEF Stream, Shown, Over, Complete, Ended
<1>4. QED
  BY <1>1, <1>2, <1>3 DEF Stream, Before

LEMMA OwnDetach ==
    ASSUME TypeInv, NEW o \in Readers, NEW b \in Nat, NEW k \in Nat, Shape(o), Stream(o, b, k),
           DetachFrom(o)
    PROVE  Shape(o)' /\ Stream(o, b, k)'
<1>1. /\ UNCHANGED <<exchange, announced, outbound, view, writer>>
      /\ op[o].pc = "detach" /\ op'[o].pc = "leave" /\ UNCHANGED Rest(o)
  BY GoesIs DEF DetachFrom
<1>2. /\ channel'[o].feed = channel[o].feed /\ channel'[o].lagged = channel[o].lagged
      /\ channel'[o].queue = <<>>
  <2> DEFINE left == IF channel[o].registered THEN Closed(channel[o]) ELSE channel[o]
  <2>1. /\ left \in ChannelType /\ left.feed = channel[o].feed
        /\ left.lagged = channel[o].lagged
    BY ClosedKeepsType DEF TypeInv, EventsTypes
  <2>2. channel'[o] = [left EXCEPT !.queue = <<>>]
    BY DEF DetachFrom, Detach, TypeInv, EventsTypes
  <2> HIDE DEF left
  <2>3. QED
    BY <2>1, <2>2 DEF ChannelType
<1>3. Shape(o)' /\ Base(o, b, k)'
  BY <1>1, <1>2 DEF Stream, Shape, Base, Before, Rest
<1>4. Shown(o, b, k)' /\ (Over(o)' => Over(o))
  BY <1>1 DEF Stream, Shown, Over
<1>5. Complete(o, k) => Complete(o, k)'
  BY <1>1, <1>2 DEF Complete, Rest, Ended
<1>6. QED
  BY <1>1, <1>3, <1>4, <1>5 DEF Stream, Before

LEMMA OwnCell ==
    ASSUME TypeInv, NEW o \in Readers, NEW b \in Nat, NEW k \in Nat, Shape(o), Stream(o, b, k),
           CellSpeaks(o) \/ CellEnds(o)
    PROVE  Shape(o)' /\ Stream(o, b, k)'
<1>1. /\ UNCHANGED <<exchange, announced, channel, view, writer>>
      /\ op[o].kind = "cell" /\ op[o].pc \in {"relay", "drain"}
      /\ op'[o].kind = op[o].kind /\ op'[o].snapshot = op[o].snapshot
  BY DEF CellSpeaks, CellEnds, Goes, eventVars, TypeInv, OpsOK, OpType
<1>2. /\ Base(o, b, k) /\ ~Over(o) /\ Shown(o, b, k)
      /\ op[o].pc = "relay" => Coming(o, b, k)
  BY <1>1 DEF Stream, Complete, Ended
<1>3. b = 0 /\ channel[o].queue = <<>> /\ channel[o].feed = "none"
  BY <1>1, <1>2 DEF Base, Shape, TypeInv, EventsTypes, ChannelType
<1>4. op[o].pc = "relay" => k = op[o].spoken
  BY <1>1, <1>2 DEF Coming, Taken
<1>5. CASE CellSpeaks(o) /\ op[o].pc = "relay"
  <2>1. /\ op'[o].pc = "forward" /\ op'[o].hand = <<Event(o, op[o].spoken + 1)>>
        /\ op'[o].spoken = op[o].spoken + 1 /\ UNCHANGED outbound
    BY <1>5 DEF CellSpeaks, TypeInv, OpsOK, OpType
  <2>2. Taken(o)' = 1
    BY <2>1 DEF Taken, Event
  <2>3. Coming(o, b, k)'
    BY <1>1, <1>3, <1>4, <1>5, <2>1, <2>2 DEF Coming, Event
  <2>4. Base(o, b, k)' /\ Shape(o)'
    BY <1>1, <1>2, <1>3, <2>1 DEF Base, Shape, Before, Event
  <2>5. Shown(o, b, k)' /\ ~Over(o)'
    BY <1>1, <1>2, <2>1 DEF Shown, Over
  <2>6. QED
    BY <2>3, <2>4, <2>5 DEF Stream
<1>6. CASE CellSpeaks(o) /\ op[o].pc = "drain"
  <2>1. op'[o].pc = "drain" /\ UNCHANGED outbound
    BY <1>6 DEF CellSpeaks, TypeInv, OpsOK, OpType
  <2>2. Base(o, b, k)' /\ Shape(o)'
    BY <1>1, <1>2, <1>3, <2>1 DEF Base, Shape, Before
  <2>3. Shown(o, b, k)' /\ ~Over(o)'
    BY <1>1, <1>2, <2>1 DEF Shown, Over
  <2>4. QED
    BY <2>1, <2>2, <2>3 DEF Stream, Before
<1>7. CASE CellEnds(o)
  <2>1. op'[o].pc = "leave" /\ UNCHANGED Rest(o)
    BY <1>7, GoesIs DEF CellEnds
  <2>2. CASE op[o].pc = "relay"
    <3>1. Shown(o, b, k)'
      BY <1>1, <1>2, <1>7, <2>2, ShownDone DEF CellEnds
    <3>2. Complete(o, k)'
      BY <1>1, <1>3, <1>4, <2>1, <2>2 DEF Complete, Rest, Ended
    <3>3. QED
      BY <1>1, <2>1, <3>1, <3>2, OwnEnd DEF Rest, Ended
  <2>3. CASE op[o].pc = "drain"
    <3>1. Shown(o, b, k)' /\ ~Over(o)'
      BY <1>1, <1>2, <1>7, <2>3 DEF CellEnds, Shown, Over
    <3>2. QED
      BY <1>1, <2>1, <3>1, OwnEnd DEF Rest, Ended
  <2>4. QED
    BY <1>1, <2>2, <2>3
<1>8. QED
  BY <1>1, <1>5, <1>6, <1>7

\* What another operation's step leaves of this one.
LEMMA OthersStep ==
    ASSUME TypeInv, OpenInv, NEW p \in Readers, OperationStep(p), NEW o \in Readers, o # p,
           Shape(p), \E b, k \in Nat : Stream(p, b, k),
           NEW b \in Nat, NEW k \in Nat, Shape(o), Stream(o, b, k)
    PROVE  Shape(o)' /\ Stream(o, b, k)'
<1>1. op'[o] = op[o]
  BY DEF TypeInv, OpsOK, OperationStep, ReadStep, StreamStep, CellStep, Accept, TakeSlot,
         LeaveQueue, RunReturns, ReleaseSlot, FindExchange, FindNothing, Refuse, SubscribeTo,
         AcceptWatch, ReadActivities, TakeEvent, Forward, StopForwarding, StreamEnds,
         StreamCancelled, DetachFrom, RunCell, CellSpeaks, CellEnds, Leave, WorkDone, Goes
<1>2. channel'[o] = channel[o]
  <2>1. CASE SubscribeTo(p) \/ DetachFrom(p) \/ TakeEvent(p)
    BY <2>1 DEF SubscribeTo, DetachFrom, TakeEvent, Subscribe, Detach, TypeInv, EventsTypes
  <2>2. CASE channel' = channel
    BY <2>2
  <2>3. QED
    BY <2>1, <2>2 DEF OperationStep, ReadStep, StreamStep, CellStep, Accept, TakeSlot,
         LeaveQueue, RunReturns, ReleaseSlot, FindExchange, FindNothing, Refuse,
         AcceptWatch, ReadActivities, Forward, StopForwarding, StreamEnds,
         StreamCancelled, RunCell, CellSpeaks, CellEnds, Leave, WorkDone, eventVars
<1>3. /\ UNCHANGED <<announced, view, writer>>
      /\ \/ UNCHANGED exchange
         \/ exchange.state = "none" /\ exchange'.state # "none"
  BY DEF OperationStep, ReadStep, StreamStep, CellStep, Accept, TakeSlot,
         LeaveQueue, RunReturns, ReleaseSlot, FindExchange, BeginExchange, FindNothing,
         Refuse, SubscribeTo, AcceptWatch, ReadActivities, TakeEvent, Forward,
         StopForwarding, StreamEnds, StreamCancelled, DetachFrom, RunCell, CellSpeaks,
         CellEnds, Leave, WorkDone, eventVars
<1>4. Shown(o, b, k)
  BY DEF Stream
<1>5. Shown(o, b, k)' /\ (Over(o)' => Over(o))
  <2>1. CASE Forward(p)
    <3>1. /\ op[p].pc = "forward" /\ op[p].hand[1] \in Frames
          /\ op[p].hand[1].type # "done"
      BY <2>1 DEF Forward, TypeInv, OpsOK, OpType, HandInv, Shape
    <3>2. ~IsEvent(op[p].hand[1], o) /\ ~IsDone(op[p].hand[1], o)
      <4>1. op[p].hand[1].type = "event" => op[p].hand[1].op = p
        BY <3>1 DEF Stream, Coming, Taken
      <4>2. QED
        BY <3>1, <4>1 DEF IsEvent, IsDone
    <3>3. outbound'.queue \in {outbound.queue, Append(outbound.queue, op[p].hand[1])}
      BY <2>1 DEF Forward, With, TypeInv, OutboundOK, OutboundType
    <3>4. QED
      BY <1>3, <1>4, <3>1, <3>2, <3>3, ShownAppend, OverAppend
  <2>2. CASE Send(Message) \/ outbound' = outbound
    BY <1>3, <1>4, <2>2, ShownMessage
  <2>3. CASE Send(Done(p))
    BY <1>3, <1>4, <2>3, ShownDone
  <2>4. QED
    BY <2>1, <2>2, <2>3 DEF OperationStep, ReadStep, StreamStep, CellStep, Accept, TakeSlot,
       LeaveQueue, RunReturns, ReleaseSlot, FindExchange, FindNothing, Refuse, SubscribeTo,
       AcceptWatch, ReadActivities, TakeEvent, StopForwarding, StreamEnds,
       StreamCancelled, DetachFrom, RunCell, CellSpeaks, CellEnds, Leave, WorkDone
<1>6. QED
  BY <1>1, <1>2, <1>3, <1>5, StreamKept

LEMMA OperationViews ==
    ASSUME TypeInv, OpenInv, ViewInv, NEW p \in Readers, OperationStep(p)
    PROVE  ViewInv'
<1>1. SUFFICES ASSUME NEW o \in Readers
               PROVE  Shape(o)' /\ \E b, k \in Nat : Stream(o, b, k)'
  BY DEF ViewInv
<1>2. PICK b, k \in Nat : Stream(o, b, k)
  BY DEF ViewInv
<1>3. Shape(o) /\ Shape(p) /\ \E c, n \in Nat : Stream(p, c, n)
  BY DEF ViewInv
<1>4. CASE o # p
  BY <1>2, <1>3, <1>4, OthersStep
<1>5. CASE o = p
  <2>1. CASE ReadStep(o) \/ Leave(o) \/ WorkDone(o)
    BY <1>2, <1>3, <2>1, OwnReadStep
  <2>2. CASE FindExchange(o) \/ Refuse(o) \/ AcceptWatch(o) \/ RunCell(o)
    BY <1>2, <1>3, <2>2, OwnMoves
  <2>3. CASE FindNothing(o) \/ StreamEnds(o) \/ StreamCancelled(o)
    BY <1>2, <1>3, <2>3, OwnEnds
  <2>4. CASE SubscribeTo(o)
    BY <1>2, <1>3, <2>4, OwnSubscribe
  <2>5. CASE ReadActivities(o)
    BY <1>2, <1>3, <2>5, OwnSnapshot
  <2>6. CASE TakeEvent(o)
    BY <1>2, <1>3, <2>6, OwnTake
  <2>7. CASE Forward(o)
    BY <1>2, <1>3, <2>7, OwnForward
  <2>8. CASE StopForwarding(o)
    BY <1>2, <1>3, <2>8, OwnStop
  <2>9. CASE DetachFrom(o)
    BY <1>2, <1>3, <2>9, OwnDetach
  <2>10. CASE CellSpeaks(o) \/ CellEnds(o)
    BY <1>2, <1>3, <2>10, OwnCell
  <2>11. QED
    BY <1>5, <2>1, <2>2, <2>3, <2>4, <2>5, <2>6, <2>7, <2>8, <2>9, <2>10
       DEF OperationStep, StreamStep, CellStep
<1>6. QED
  BY <1>4, <1>5

LEMMA ConnectionViews == ASSUME TypeInv, ViewInv, WriterStep \/ ServeStep PROVE ViewInv'
<1>1. SUFFICES ASSUME NEW o \in Readers
               PROVE  Shape(o)' /\ \E b, k \in Nat : Stream(o, b, k)'
  BY DEF ViewInv
<1>2. PICK b, k \in Nat : Stream(o, b, k)
  BY DEF ViewInv
<1>3. Shape(o) /\ UNCHANGED <<exchange, announced, channel, op>>
  BY DEF ViewInv, WriterStep, ServeStep, Write, WriteFails, WriterEnds, CloseOutbound,
         CloseConnection, eventVars
<1>4. Shown(o, b, k)' /\ (Over(o)' => Over(o))
  BY <1>2, ShownConnection, OverWrite DEF Stream
<1>5. QED
  BY <1>2, <1>3, <1>4, StreamKept

\* A request: a watch's stream begins with what is announced from now on.
LEMMA WatchBegins ==
    ASSUME TypeInv, NEW o \in Readers, NEW b \in Nat, NEW k \in Nat, Shape(o), Stream(o, b, k),
           Request(o), op[o].kind = "watch"
    PROVE  Shape(o)' /\ Stream(o, announced, k)'
<1>1. /\ UNCHANGED <<exchange, announced, outbound, view, writer>>
      /\ op[o].pc = "none" /\ op'[o].pc = "begin" /\ op'[o].kind = op[o].kind
  BY DEF Request, TypeInv, OpsOK, OpType
<1>2. channel'[o] = NewChannel("activity", <<>>, watcherBuffer, FALSE) /\ announced \in Nat
  BY DEF Request, Watch, TypeInv, EventsTypes
<1>3. channel'[o].feed = "activity" /\ channel'[o].queue = <<>>
  BY <1>2 DEF NewChannel
<1>4. k = 0 /\ Shown(o, b, k) /\ ~Over(o) /\ view[o].events \in Seq(Nat)
  BY <1>1 DEF Stream, Base, Complete, Before, Ended, TypeInv, ViewsOK, ViewType
<1>5. Shown(o, announced, k)'
  <2>1. Len(view[o].events) = 0
    BY <1>4 DEF Shown
  <2>2. ASSUME writer = "on"
        PROVE  Queued(outbound.queue, o, announced + Len(view[o].events) + 1, announced + k)
    <3>1. Queued(outbound.queue, o, b + 0 + 1, b + 0)
      BY <1>4, <2>1, <2>2 DEF Shown
    <3>2. \A i \in DOMAIN outbound.queue : ~IsEvent(outbound.queue[i], o)
      BY <3>1 DEF Queued
    <3>3. Queued(outbound.queue, o, announced + 0 + 1, announced + 0)
      BY <1>2, <3>2 DEF Queued
    <3>4. QED
      BY <1>4, <2>1, <3>3
  <2>3. QED
    BY <1>1, <1>4, <2>1, <2>2 DEF Shown
<1>6. Taken(o)' = 0 /\ announced' + k + 0 + Len(channel'[o].queue) = announced'
  <2>1. Taken(o)' = 0
    BY <1>1 DEF Taken
  <2>2. Len(channel'[o].queue) = 0 /\ announced' \in Nat
    BY <1>1, <1>2, <1>3
  <2>3. k = 0
    BY <1>4
  <2>4. announced' + k + 0 + Len(channel'[o].queue) = announced'
    <3>1. \A a \in Nat : \A l : l = 0 => a + 0 + 0 + l = a
      OBVIOUS
    <3>2. announced' + 0 + 0 + Len(channel'[o].queue) = announced'
      BY <2>2, <3>1
    <3>3. QED
      BY <2>3, <3>2, Zenon
  <2>5. QED
    BY <2>1, <2>4
<1>7. Coming(o, announced, k)'
  BY <1>1, <1>3, <1>6 DEF Coming
<1>8. Base(o, announced, k)'
  BY <1>1, <1>2, <1>4 DEF Base, Before
<1>9. Shape(o)' /\ ~Over(o)'
  BY <1>1, <1>3, <1>4 DEF Shape, Over
<1>10. QED
  BY <1>5, <1>7, <1>8, <1>9 DEF Stream

LEMMA ClientViews == ASSUME TypeInv, ViewInv, ClientStep PROVE ViewInv'
<1>1. SUFFICES ASSUME NEW o \in Readers
               PROVE  Shape(o)' /\ \E b, k \in Nat : Stream(o, b, k)'
  BY DEF ViewInv
<1>2. PICK b, k \in Nat : Stream(o, b, k)
  BY DEF ViewInv
<1>3. Shape(o) /\ Shown(o, b, k) /\ announced \in Nat
  BY <1>2 DEF ViewInv, Stream, TypeInv, EventsTypes
<1>4. /\ UNCHANGED <<exchange, announced, view, writer>>
      /\ Send(Message) \/ outbound' = outbound
  BY DEF ClientStep, Request, RequestAgain, CancelOperation, Answer, ReadEnds, eventVars
<1>5. Shown(o, b, k)' /\ (Over(o)' => Over(o))
  BY <1>3, <1>4, ShownMessage
<1>6. CASE Request(o)
  <2>1. CASE op[o].kind = "watch"
    <3>1. Shape(o)' /\ Stream(o, announced, k)'
      BY <1>2, <1>3, <1>6, <2>1, WatchBegins
    <3>2. QED
      BY <1>2, <1>3, <1>4, <3>1
  <2>2. CASE op[o].kind # "watch"
    <3>1. /\ op[o].pc = "none" /\ op'[o].pc = "begin" /\ UNCHANGED Rest(o)
          /\ UNCHANGED channel
      BY <1>6, <2>2 DEF Request, TypeInv, OpsOK, OpType, Rest
    <3>2. QED
      BY <1>2, <1>3, <1>4, <1>5, <2>2, <3>1, OwnMove DEF Before, Ended
  <2>3. QED
    BY <2>1, <2>2
<1>7. CASE ~Request(o)
  <2>1. channel'[o] = channel[o]
    BY <1>7 DEF ClientStep, Request, RequestAgain, CancelOperation, Answer, ReadEnds,
                eventVars, Watch, TypeInv, EventsTypes
  <2>2. op'[o].pc = op[o].pc /\ UNCHANGED Rest(o)
    <3>1. CASE \E p \in Readers : Request(p)
      <4>1. PICK p \in Readers : Request(p)
        BY <3>1
      <4>2. op'[o] = op[o]
        BY <1>7, <4>1 DEF Request, TypeInv, OpsOK
      <4>3. QED
        BY <4>2 DEF Rest
    <3>2. CASE \E p \in Readers : CancelOperation(p)
      <4>1. PICK p \in Readers : CancelOperation(p)
        BY <3>2
      <4>2. op' = op \/ op' = [op EXCEPT ![p].cancelled = TRUE]
        BY <4>1 DEF CancelOperation
      <4>3. /\ op'[o].pc = op[o].pc /\ op'[o].kind = op[o].kind
            /\ op'[o].hand = op[o].hand /\ op'[o].spoken = op[o].spoken
            /\ op'[o].snapshot = op[o].snapshot
        <5>1. CASE op' = op \/ o # p
          BY <4>2, <5>1 DEF TypeInv, OpsOK
        <5>2. CASE op' = [op EXCEPT ![o].cancelled = TRUE]
          BY <5>2 DEF TypeInv, OpsOK, OpType
        <5>3. QED
          BY <4>2, <5>1, <5>2
      <4>4. QED
        BY <4>3 DEF Rest
    <3>3. CASE op' = op
      BY <3>3 DEF Rest
    <3>4. QED
      BY <3>1, <3>2, <3>3 DEF ClientStep, RequestAgain, Answer, ReadEnds
  <2>3. Shape(o)' /\ Base(o, b, k)'
    BY <1>2, <1>3, <1>4, <2>1, <2>2 DEF Shape, Stream, Base, Rest
  <2>4. Taken(o)' = Taken(o)
    BY <2>2 DEF Taken, Rest
  <2>5. Coming(o, b, k) => Coming(o, b, k)'
    BY <1>4, <2>1, <2>2, <2>4 DEF Coming, Rest
  <2>6. Complete(o, k) => Complete(o, k)'
    BY <1>4, <2>1, <2>2 DEF Complete, Rest
  <2>7. QED
    BY <1>2, <1>5, <2>2, <2>3, <2>5, <2>6 DEF Stream
<1>8. QED
  BY <1>6, <1>7

\* An offer: the event is in the queue, or the reader is dropped.
LEMMA OfferedIs ==
    ASSUME NEW c \in ChannelType, NEW n \in Nat, c.closed = 0
    PROVE  /\ Offered(c, n).feed = c.feed
           /\ \/ /\ Offered(c, n).queue = Append(c.queue, n)
                 /\ Offered(c, n).registered = c.registered
                 /\ Offered(c, n).lagged = c.lagged
              \/ /\ Offered(c, n).queue = c.queue
                 /\ Offered(c, n).registered = FALSE
                 /\ Offered(c, n).lagged = TRUE
<1>1. CASE Len(c.queue) < c.room
  <2>1. Offered(c, n) = [c EXCEPT !.queue = Append(c.queue, n)]
    BY <1>1 DEF Offered, Sent
  <2>2. QED
    BY <2>1 DEF ChannelType
<1>2. CASE ~(Len(c.queue) < c.room)
  <2>1. Offered(c, n) = [Closed(c) EXCEPT !.lagged = TRUE]
    BY <1>2 DEF Offered
  <2>2. /\ Offered(c, n).feed = Closed(c).feed /\ Offered(c, n).queue = Closed(c).queue
        /\ Offered(c, n).registered = Closed(c).registered
        /\ Offered(c, n).lagged = TRUE
    BY <2>1, ClosedKeepsType DEF ChannelType
  <2>3. QED
    BY <2>2, ClosedKeepsType
<1>3. QED
  BY <1>1, <1>2

\* The exchange publishes, announces or closes: what has been shown stays.
LEMMA ExchangeShown ==
    ASSUME NEW o \in Readers, NEW b \in Nat, NEW k \in Nat, ExchangeStep
    PROVE  /\ UNCHANGED <<op, outbound, view, writer>> /\ Taken(o)' = Taken(o)
           /\ Shown(o, b, k)' = Shown(o, b, k) /\ Over(o)' = Over(o)
BY DEF ExchangeStep, sessionVars, Shown, Over, Taken

LEMMA PublishViews ==
    ASSUME TypeInv, OpenInv, NEW o \in Readers, NEW b \in Nat, NEW k \in Nat,
           Shape(o), Stream(o, b, k), Publish /\ UNCHANGED sessionVars
    PROVE  Shape(o)' /\ Stream(o, b, k)'
<1> DEFINE c == channel[o]
           n == exchange.events + 1
           base == b + k + Taken(o)
<1>1. /\ UNCHANGED <<op, announced>> /\ Taken(o)' = Taken(o) /\ Taken(o) \in {0, 1}
      /\ Shown(o, b, k)' = Shown(o, b, k) /\ Over(o)' = Over(o)
  BY ExchangeShown DEF ExchangeStep, sessionVars, Publish, Taken
<1>2. /\ exchange.state = "running" /\ exchange'.state = "running"
      /\ exchange'.events = n /\ n \in Nat /\ exchange.events \in Nat
      /\ c \in ChannelType /\ c.queue \in Seq(Nat)
  BY DEF Publish, TypeInv, EventsTypes, ExchangeType, ChannelType
<1>3. CASE ~(c.registered /\ c.feed = "exchange")
  <2>1. channel'[o] = c
    BY <1>3 DEF Publish, Told
  <2>2. Shape(o)' /\ Base(o, b, k)'
    BY <1>1, <1>2, <2>1 DEF Shape, Stream, Base
  <2>3. Coming(o, b, k) => Coming(o, b, k)'
    BY <1>1, <1>2, <1>3, <2>1 DEF Coming
  <2>4. Complete(o, k) => Complete(o, k)'
    BY <1>1, <1>2, <2>1 DEF Complete
  <2>5. QED
    BY <1>1, <2>2, <2>3, <2>4 DEF Stream
<1>4. CASE c.registered /\ c.feed = "exchange"
  <2>1. c.closed = 0 /\ ~c.lagged
    BY <1>4 DEF OpenInv, ChannelsInv, ChannelOK
  <2>2. channel'[o] = Offered(c, n)
    BY <1>4 DEF Publish, Told
  <2>3. /\ channel'[o].feed = "exchange"
        /\ \/ /\ channel'[o].queue = Append(c.queue, n) /\ channel'[o].registered
              /\ ~channel'[o].lagged
           \/ /\ channel'[o].queue = c.queue /\ channel'[o].lagged
    <3> HIDE DEF c, n
    <3>1. /\ Offered(c, n).feed = c.feed
          /\ \/ /\ Offered(c, n).queue = Append(c.queue, n)
                /\ Offered(c, n).registered = c.registered
                /\ Offered(c, n).lagged = c.lagged
             \/ /\ Offered(c, n).queue = c.queue
                /\ Offered(c, n).registered = FALSE
                /\ Offered(c, n).lagged = TRUE
      BY <1>2, <2>1, OfferedIs
    <3>2. QED
      BY <1>4, <2>1, <2>2, <3>1
  <2>4. Shape(o)' /\ Base(o, b, k)'
    BY <1>1, <1>2, <1>4, <2>3 DEF Shape, Stream, Base
  <2>5. Coming(o, b, k) => Coming(o, b, k)'
    <3>1. SUFFICES ASSUME Coming(o, b, k) PROVE Coming(o, b, k)'
      OBVIOUS
    <3>2. /\ \A j \in DOMAIN c.queue : c.queue[j] = base + j
          /\ base + Len(c.queue) = exchange.events
      BY <1>4, <2>1, <3>1 DEF Coming
    <3>3. base \in Nat /\ n = base + Len(c.queue) + 1
      BY <1>1, <1>2, <3>2
    <3>4. CASE channel'[o].queue = Append(c.queue, n) /\ channel'[o].registered
      <4>1. /\ \A j \in DOMAIN channel'[o].queue : channel'[o].queue[j] = base + j
            /\ base + Len(channel'[o].queue) = n
        <5> HIDE DEF base, n, c
        <5>1. /\ DOMAIN c.queue = 1..Len(c.queue) /\ Len(c.queue) \in Nat
              /\ DOMAIN Append(c.queue, n) = 1..(Len(c.queue) + 1)
              /\ \A i \in 1..Len(c.queue) : Append(c.queue, n)[i] = c.queue[i]
              /\ Append(c.queue, n)[Len(c.queue) + 1] = n
              /\ Len(Append(c.queue, n)) = Len(c.queue) + 1
          <6>1. c.queue \in Seq(Nat) /\ n \in Nat
            BY <1>2
          <6>2. QED
            BY ONLY <6>1, AppendIs
        <5>2. /\ \A j \in DOMAIN Append(c.queue, n) : Append(c.queue, n)[j] = base + j
              /\ base + Len(Append(c.queue, n)) = n
          BY ONLY <3>2, <3>3, <5>1
        <5>3. QED
          BY <3>4, <5>2
      <4>2. QED
        BY <1>1, <1>2, <2>3, <3>1, <3>4, <4>1 DEF Coming
    <3>5. CASE channel'[o].queue = c.queue /\ channel'[o].lagged
      BY <1>1, <2>3, <3>1, <3>5 DEF Coming
    <3>6. QED
      BY <2>3, <3>4, <3>5
  <2>6. ~Over(o)
    BY <1>2, <1>4, <2>1 DEF Stream, Complete
  <2>7. QED
    BY <1>1, <2>4, <2>5, <2>6 DEF Stream
<1>5. QED
  BY <1>3, <1>4

LEMMA AnnounceViews ==
    ASSUME TypeInv, OpenInv, NEW o \in Readers, NEW b \in Nat, NEW k \in Nat,
           Shape(o), Stream(o, b, k), Announce /\ UNCHANGED sessionVars
    PROVE  Shape(o)' /\ Stream(o, b, k)'
<1> DEFINE c == channel[o]
           n == announced + 1
           base == b + k + Taken(o)
<1>1. /\ UNCHANGED <<op, exchange>> /\ Taken(o)' = Taken(o) /\ Taken(o) \in {0, 1}
      /\ Shown(o, b, k)' = Shown(o, b, k) /\ Over(o)' = Over(o)
  BY ExchangeShown DEF ExchangeStep, sessionVars, Announce, Taken
<1>2. /\ announced' = n /\ n \in Nat /\ announced \in Nat /\ n > announced
      /\ c \in ChannelType /\ c.queue \in Seq(Nat)
  BY DEF Announce, TypeInv, EventsTypes, ChannelType
<1>3. Base(o, b, k)'
  BY <1>1, <1>2 DEF Stream, Base
<1>4. CASE ~(c.registered /\ c.feed = "activity")
  <2>1. channel'[o] = c
    BY <1>4 DEF Announce, Told
  <2>2. Shape(o)'
    BY <1>1, <2>1 DEF Shape
  <2>3. Coming(o, b, k) => Coming(o, b, k)'
    BY <1>1, <1>4, <2>1 DEF Coming
  <2>4. Complete(o, k) => Complete(o, k)'
    BY <1>1, <2>1 DEF Complete
  <2>5. QED
    BY <1>1, <1>3, <2>2, <2>3, <2>4 DEF Stream
<1>5. CASE c.registered /\ c.feed = "activity"
  <2>1. c.closed = 0 /\ ~c.lagged
    BY <1>5 DEF OpenInv, ChannelsInv, ChannelOK
  <2>2. channel'[o] = Offered(c, n)
    BY <1>5 DEF Announce, Told
  <2>3. /\ channel'[o].feed = "activity"
        /\ \/ channel'[o].queue = Append(c.queue, n) /\ channel'[o].registered
           \/ channel'[o].queue = c.queue /\ ~channel'[o].registered
    <3> HIDE DEF c, n
    <3>1. /\ Offered(c, n).feed = c.feed
          /\ \/ /\ Offered(c, n).queue = Append(c.queue, n)
                /\ Offered(c, n).registered = c.registered
                /\ Offered(c, n).lagged = c.lagged
             \/ /\ Offered(c, n).queue = c.queue
                /\ Offered(c, n).registered = FALSE
                /\ Offered(c, n).lagged = TRUE
      BY <1>2, <2>1, OfferedIs
    <3>2. QED
      BY <1>5, <2>1, <2>2, <3>1
  <2>4. Shape(o)'
    BY <1>1, <1>5, <2>3 DEF Shape
  <2>5. Coming(o, b, k) => Coming(o, b, k)'
    <3>1. SUFFICES ASSUME Coming(o, b, k) PROVE Coming(o, b, k)'
      OBVIOUS
    <3>2. /\ \A j \in DOMAIN c.queue : c.queue[j] = base + j
          /\ base + Len(c.queue) = announced
      BY <1>5, <3>1 DEF Coming
    <3>3. base \in Nat /\ n = base + Len(c.queue) + 1
      BY <1>1, <1>2, <3>2
    <3>4. CASE channel'[o].queue = Append(c.queue, n) /\ channel'[o].registered
      <4>1. /\ \A j \in DOMAIN channel'[o].queue : channel'[o].queue[j] = base + j
            /\ base + Len(channel'[o].queue) = n
        <5> HIDE DEF base, n, c
        <5>1. /\ DOMAIN c.queue = 1..Len(c.queue) /\ Len(c.queue) \in Nat
              /\ DOMAIN Append(c.queue, n) = 1..(Len(c.queue) + 1)
              /\ \A i \in 1..Len(c.queue) : Append(c.queue, n)[i] = c.queue[i]
              /\ Append(c.queue, n)[Len(c.queue) + 1] = n
              /\ Len(Append(c.queue, n)) = Len(c.queue) + 1
          <6>1. c.queue \in Seq(Nat) /\ n \in Nat
            BY <1>2
          <6>2. QED
            BY ONLY <6>1, AppendIs
        <5>2. /\ \A j \in DOMAIN Append(c.queue, n) : Append(c.queue, n)[j] = base + j
              /\ base + Len(Append(c.queue, n)) = n
          BY ONLY <3>2, <3>3, <5>1
        <5>3. QED
          BY <3>4, <5>2
      <4>2. QED
        BY <1>1, <1>2, <2>3, <3>1, <4>1 DEF Coming
    <3>5. CASE channel'[o].queue = c.queue /\ ~channel'[o].registered
      BY <1>1, <2>3, <3>1, <3>5 DEF Coming
    <3>6. QED
      BY <2>3, <3>4, <3>5
  <2>6. Complete(o, k) => Complete(o, k)'
    BY <1>1, <1>5, <2>3 DEF Complete
  <2>7. QED
    BY <1>1, <1>3, <2>4, <2>5, <2>6 DEF Stream
<1>6. QED
  BY <1>4, <1>5

LEMMA CloseViews ==
    ASSUME TypeInv, OpenInv, NEW o \in Readers, NEW b \in Nat, NEW k \in Nat,
           Shape(o), Stream(o, b, k), CloseExchange /\ UNCHANGED sessionVars
    PROVE  Shape(o)' /\ Stream(o, b, k)'
<1>1. /\ UNCHANGED <<op, announced>> /\ Taken(o)' = Taken(o)
      /\ Shown(o, b, k)' = Shown(o, b, k) /\ Over(o)' = Over(o)
  BY ExchangeShown DEF ExchangeStep, sessionVars, CloseExchange
<1>2. /\ exchange.state = "running" /\ exchange'.state = "closed"
      /\ exchange'.events = exchange.events
  BY DEF CloseExchange, TypeInv, EventsTypes, ExchangeType
<1>3. /\ channel'[o].feed = channel[o].feed /\ channel'[o].queue = channel[o].queue
      /\ channel'[o].lagged = channel[o].lagged
      /\ channel'[o].registered => channel[o].registered
  <2>1. channel[o] \in ChannelType
    BY DEF TypeInv, EventsTypes
  <2>2. channel'[o] \in {channel[o], Closed(channel[o])}
    BY DEF CloseExchange
  <2>3. QED
    BY <2>1, <2>2, ClosedKeepsType
<1>4. Shape(o)' /\ Base(o, b, k)'
  BY <1>1, <1>2, <1>3 DEF Shape, Stream, Base
<1>5. Coming(o, b, k) => Coming(o, b, k)'
  BY <1>1, <1>2, <1>3 DEF Coming
<1>6. Complete(o, k) => Complete(o, k)'
  BY <1>1, <1>2, <1>3 DEF Complete
<1>7. QED
  BY <1>1, <1>4, <1>5, <1>6 DEF Stream

LEMMA ExchangeViews == ASSUME TypeInv, OpenInv, ViewInv, ExchangeStep PROVE ViewInv'
<1>1. SUFFICES ASSUME NEW o \in Readers
               PROVE  Shape(o)' /\ \E b, k \in Nat : Stream(o, b, k)'
  BY DEF ViewInv
<1>2. PICK b, k \in Nat : Stream(o, b, k)
  BY DEF ViewInv
<1>3. Shape(o)
  BY DEF ViewInv
<1>4. QED
  BY <1>2, <1>3, PublishViews, AnnounceViews, CloseViews DEF ExchangeStep

LEMMA InitViews == Init => ViewInv
<1>1. SUFFICES ASSUME Init, NEW o \in Readers PROVE Shape(o) /\ Stream(o, 0, 0)
  BY DEF ViewInv
<1>2. /\ channel[o] = NoChannel /\ announced = 0 /\ view[o] = NoView
      /\ outbound.queue = <<>>
  BY <1>1 DEF Init, EventsInit
<1>3. op[o].pc = "none" /\ op[o].spoken = 0
  BY <1>1 DEF Init, NoOp
<1>4. channel[o].feed = "none" /\ channel[o].queue = <<>>
  BY <1>2 DEF NoChannel
<1>5. view[o].events = <<>> /\ view[o].done = FALSE
  BY <1>2 DEF NoView
<1>6. Shape(o)
  BY <1>3, <1>4 DEF Shape
<1>7. Shown(o, 0, 0) /\ ~Over(o)
  BY <1>2, <1>5 DEF Shown, Over, Queued
<1>8. Taken(o) = 0
  BY <1>3 DEF Taken
<1>9. Coming(o, 0, 0) /\ Base(o, 0, 0)
  BY <1>2, <1>3, <1>4, <1>8 DEF Coming, Base, Before
<1>10. QED
  BY <1>6, <1>7, <1>9 DEF Stream

LEMMA NextViews == TypeInv /\ OpenInv /\ ViewInv /\ [Next]_vars => ViewInv'
<1> SUFFICES ASSUME TypeInv, OpenInv, ViewInv, [Next]_vars PROVE ViewInv'
  OBVIOUS
<1>1. CASE UNCHANGED vars
  <2>1. SUFFICES ASSUME NEW o \in Readers
                 PROVE  Shape(o)' /\ \E b, k \in Nat : Stream(o, b, k)'
    BY DEF ViewInv
  <2>2. PICK b, k \in Nat : Stream(o, b, k)
    BY DEF ViewInv
  <2>3. Shape(o) /\ UNCHANGED <<op, channel, announced, exchange, view, outbound, writer>>
    BY <1>1 DEF ViewInv, vars
  <2>4. Shown(o, b, k)' /\ (Over(o)' => Over(o))
    BY <2>2, <2>3 DEF Stream, Shown, Over
  <2>5. QED
    BY <2>2, <2>3, <2>4, StreamKept
<1>2. QED
  BY <1>1, ClientViews, OperationViews, ConnectionViews, ExchangeViews DEF Next

\* What the invariant says of one view.
LEMMA ViewIsWhole ==
    ASSUME TypeInv, NEW o \in Readers, NEW b \in Nat, NEW k \in Nat, Stream(o, b, k)
    PROVE  /\ op[o].kind \in {"chat", "cell"} =>
                  view[o].events = UpTo(Len(view[o].events))
           /\ op[o].kind = "chat" /\ channel[o].feed = "exchange" /\ view[o].done
                  /\ ~channel[o].lagged =>
                  exchange.state = "closed" /\ Len(view[o].events) = exchange.events
           /\ op[o].kind = "cell" /\ view[o].done => Len(view[o].events) = op[o].spoken
           /\ op[o].kind = "watch" /\ view[o].events # <<>> =>
                  /\ view[o].events[1] <= op[o].snapshot + 1
                  /\ \A i \in DOMAIN view[o].events :
                         view[o].events[i] = view[o].events[1] + i - 1
<1> DEFINE e == view[o].events
<1>1. e \in Seq(Nat) /\ Len(e) \in Nat /\ DOMAIN e = 1..Len(e)
  BY DEF TypeInv, ViewsOK, ViewType
<1>2. /\ Len(e) <= k /\ \A i \in 1..Len(e) : e[i] = b + i
      /\ view[o].done => k = Len(e)
  BY DEF Stream, Shown
<1>3. op[o].kind \in {"chat", "cell"} => e = UpTo(Len(e))
  <2>1. HAVE op[o].kind \in {"chat", "cell"}
  <2>2. \A i \in 1..Len(e) : e[i] = i
    BY <1>2, <2>1 DEF Stream, Base
  <2>3. e = [i \in 1..Len(e) |-> e[i]]
    BY <1>1
  <2>4. QED
    BY <2>2, <2>3 DEF UpTo
<1>4. view[o].done => Complete(o, k)
  BY DEF Stream, Over
<1>5. op[o].kind = "watch" /\ e # <<>> =>
          /\ e[1] <= op[o].snapshot + 1
          /\ \A i \in DOMAIN e : e[i] = e[1] + i - 1
  <2>1. HAVE op[o].kind = "watch" /\ e # <<>>
  <2>2. Len(e) >= 1 /\ k # 0
    BY <1>1, <1>2, <2>1
  <2>3. b <= op[o].snapshot /\ op[o].snapshot \in Nat
    BY <2>1, <2>2 DEF Stream, Base, TypeInv, OpsOK, OpType
  <2>4. e[1] = b + 1
    BY <1>1, <1>2, <2>2
  <2>5. \A i \in DOMAIN e : e[i] = e[1] + i - 1
    <3>1. \A i \in 1..Len(e) : i \in Nat /\ b + i = b + 1 + i - 1
      BY <1>1
    <3>2. QED
      BY <1>1, <1>2, <2>4, <3>1
  <2>6. QED
    BY <2>3, <2>4, <2>5
<1>6. QED
  BY <1>2, <1>3, <1>4, <1>5 DEF Complete

\* A client sees every stream from its start, in order, with no gap, and is told that
\* it is done after all of it, for any operations, readers and buffers (exchange.go:
\* 87-149, ws_chat.go:229-258, 384-388, ws_kernel.go:118-136).
THEOREM ViewsStayWhole == Spec => []ViewsAreWhole
<1>1. Spec => []ViewInv
  BY Open, InitViews, NextViews, PTL DEF Spec
<1>2. TypeInv /\ ViewInv => ViewsAreWhole
  BY ViewIsWhole DEF ViewInv, ViewsAreWhole
<1>3. QED
  BY <1>1, <1>2, Open, PTL
-----------------------------------------------------------------------------
(* What serve waits for.                                                     *)

\* Where a cancel message reaches an operation.
Reached(o) == op[o].pc \notin {"none", "done", "gone"}

\* Whom serve counts, whom a cancel message reaches and who holds a slot is told by where
\* the operations are.
BooksAreKept ==
    /\ \A o \in Readers : o \in work <=> Counted(o)
    /\ \A o \in Readers : o \in running <=> Reached(o)
    /\ \A o \in Readers : o \in slots <=> HoldsSlot(o)

\* A connection that is closed has no operation and no slot left.
NothingIsLeft == serving = "closed" => running = {} /\ work = {} /\ slots = {}

LEMMA OtherOpsStay ==
    ASSUME TypeInv, NEW o \in Readers, OperationStep(o)
    PROVE  \A p \in Readers \ {o} : op'[p] = op[p]
BY DEF TypeInv, OpsOK, OperationStep, ReadStep, StreamStep, CellStep, Accept, TakeSlot,
       LeaveQueue,
       RunReturns, ReleaseSlot, FindExchange, FindNothing, Refuse, SubscribeTo, AcceptWatch,
       ReadActivities, TakeEvent, Forward, StopForwarding, StreamEnds, StreamCancelled,
       DetachFrom, RunCell, CellSpeaks, CellEnds, Leave, WorkDone, Goes

\* What one operation's step does to the books, by where it takes the operation.
LEMMA BooksFollow ==
    ASSUME TypeInv, BooksAreKept, NEW o \in Readers, OperationStep(o)
    PROVE  /\ Counted(o)' => o \in work' /\ work' = work
           /\ ~Counted(o)' => work' = work \ {o}
           /\ Reached(o)' => o \in running' /\ running' = running
           /\ ~Reached(o)' => running' = running \ {o}
           /\ HoldsSlot(o)' => slots' = slots \union {o}
           /\ ~HoldsSlot(o)' => slots' = slots \ {o}
<1>0. \A label : Goes(o, label) => op'[o].pc = label
  BY DEF Goes, TypeInv, OpsOK, OpType
<1>1. CASE ReadStep(o)
  BY <1>0, <1>1 DEF ReadStep, Accept, TakeSlot, LeaveQueue, RunReturns, ReleaseSlot,
     BooksAreKept, Counted, Reached, HoldsSlot
<1>2. CASE StreamStep(o)
  <2>1. ReadActivities(o) \/ TakeEvent(o) \/ Forward(o) \/ StopForwarding(o)
           => op'[o].pc \in {"relay", "forward", "detach", "drain"}
    BY DEF ReadActivities, TakeEvent, Forward, StopForwarding, TypeInv, OpsOK, OpType
  <2>2. QED
    BY <1>0, <1>2, <2>1 DEF StreamStep, FindExchange, FindNothing, Refuse, SubscribeTo,
       AcceptWatch, ReadActivities, TakeEvent, Forward, StopForwarding, StreamEnds,
       StreamCancelled, DetachFrom, BooksAreKept, Counted, Reached, HoldsSlot
<1>3. CASE CellStep(o)
  <2>1. CellSpeaks(o) => op'[o].pc \in {"forward", "drain"}
    BY DEF CellSpeaks, TypeInv, OpsOK, OpType
  <2>2. QED
    BY <1>0, <1>3, <2>1 DEF CellStep, RunCell, CellSpeaks, CellEnds,
       BooksAreKept, Counted, Reached, HoldsSlot
<1>4. CASE Leave(o) \/ WorkDone(o)
  BY <1>0, <1>4 DEF Leave, WorkDone, BooksAreKept, Counted, Reached, HoldsSlot
<1>5. QED
  BY <1>1, <1>2, <1>3, <1>4 DEF OperationStep

LEMMA OperationBooks ==
    ASSUME TypeInv, BooksAreKept, NEW o \in Readers, OperationStep(o)
    PROVE  BooksAreKept'
<1>1. SUFFICES ASSUME NEW p \in Readers
               PROVE  /\ p \in work' <=> Counted(p)'
                      /\ p \in running' <=> Reached(p)'
                      /\ p \in slots' <=> HoldsSlot(p)'
  BY DEF BooksAreKept
<1>2. CASE p = o
  BY <1>2, BooksFollow
<1>3. CASE p # o
  <2>1. op'[p] = op[p]
    BY <1>3, OtherOpsStay
  <2>2. /\ p \in work' <=> p \in work
        /\ p \in running' <=> p \in running
        /\ p \in slots' <=> p \in slots
    BY <1>3, BooksFollow
  <2>3. QED
    BY <2>1, <2>2 DEF BooksAreKept, Counted, Reached, HoldsSlot
<1>4. QED
  BY <1>2, <1>3

LEMMA ClientBooks == ASSUME TypeInv, BooksAreKept, ClientStep PROVE BooksAreKept'
<1>1. CASE \E o \in Readers : Request(o)
  <2>1. PICK o \in Readers : Request(o)
    BY <1>1
  <2>2. /\ op'[o].pc = "begin" /\ op[o].pc = "none"
        /\ \A p \in Readers \ {o} : op'[p] = op[p]
    BY <2>1 DEF Request, TypeInv, OpsOK, OpType
  <2>3. work' = work \union {o} /\ running' = running \union {o} /\ slots' = slots
    BY <2>1 DEF Request
  <2>4. QED
    BY <2>2, <2>3 DEF BooksAreKept, Counted, Reached, HoldsSlot
<1>2. CASE \E o \in Readers : CancelOperation(o)
  <2>1. PICK o \in Readers : CancelOperation(o)
    BY <1>2
  <2>2. op' = op \/ op' = [op EXCEPT ![o].cancelled = TRUE]
    BY <2>1 DEF CancelOperation
  <2>3. \A p \in Readers : op'[p].pc = op[p].pc
    BY <2>2 DEF TypeInv, OpsOK, OpType
  <2>4. UNCHANGED <<work, running, slots>>
    BY <2>1 DEF CancelOperation
  <2>5. QED
    BY <2>3, <2>4 DEF BooksAreKept, Counted, Reached, HoldsSlot
<1>3. CASE (\E o \in Readers : RequestAgain(o)) \/ Answer \/ ReadEnds
  <2>1. UNCHANGED <<work, running, slots, op>>
    BY <1>3 DEF RequestAgain, Answer, ReadEnds
  <2>2. QED
    BY <2>1 DEF BooksAreKept, Counted, Reached, HoldsSlot
<1>4. QED
  BY <1>1, <1>2, <1>3 DEF ClientStep

LEMMA OthersKeepBooks ==
    ASSUME BooksAreKept, WriterStep \/ ServeStep \/ ExchangeStep \/ UNCHANGED vars
    PROVE  BooksAreKept'
<1>1. UNCHANGED <<work, running, slots, op>>
  BY DEF WriterStep, ServeStep, ExchangeStep, Write, WriteFails, WriterEnds, CloseOutbound,
     CloseConnection, sessionVars, vars
<1>2. QED
  BY <1>1 DEF BooksAreKept, Counted, Reached, HoldsSlot

LEMMA BooksStep == TypeInv /\ BooksAreKept /\ [Next]_vars => BooksAreKept'
BY OperationBooks, ClientBooks, OthersKeepBooks DEF Next

LEMMA BooksBegin == Init => BooksAreKept
BY DEF Init, BooksAreKept, Counted, Reached, HoldsSlot, NoOp

\* A goroutine that serve still waits for is counted, a cancel message reaches what has
\* not returned, and a slot is held by who works under it and by nobody else: the
\* deferred ends of an operation leave nothing behind in any order they come (ws.go:
\* 631-683).  So serve, which waits for the count, closes a connection with no
\* operation and no slot left (ws.go:335-352).
THEOREM ConnectionsCloseEmpty == Spec => [](BooksAreKept /\ NothingIsLeft)
<1> DEFINE Inv == TypeInv /\ OpenInv /\ BooksAreKept
<1>1. Init => Inv
  BY InitTypes, InitOpen, BooksBegin
<1>2. Inv /\ [Next]_vars => Inv'
  BY NextTypes, NextOpen, BooksStep
<1>3. Inv => NothingIsLeft
  BY DEF NothingIsLeft, OpenInv, WorkInv, Shut, BooksAreKept, Counted, Reached, HoldsSlot,
     TypeInv, RestOK, SlotsOK
<1>4. QED
  BY <1>1, <1>2, <1>3, PTL DEF Spec

-----------------------------------------------------------------------------
(* Nobody waits for what does not come.                                      *)

\* The events of an exchange or a cell, and the announcements: every exchange begins
\* with an event that MaxEvents does not bound.
MostEvents == MaxEvents + 1

\* Which operation may be where, and what it reads there.
Placed(o) ==
    /\ op[o].pc \in {"slot", "work", "unslot"} => op[o].kind = "read"
    /\ op[o].pc \in {"relay", "forward"} => op[o].kind # "read"
    /\ op[o].pc = "subscribe" => op[o].kind = "chat" /\ exchange.state # "none"
    /\ op[o].pc = "snapshot" => op[o].kind = "watch"
    /\ op[o].pc = "drain" => op[o].kind = "cell"
    /\ op[o].pc = "detach" => op[o].kind \in {"chat", "watch"}
    /\ op[o].kind = "chat" /\ op[o].pc \in {"relay", "forward", "detach"}
           => channel[o].feed = "exchange"
    /\ op[o].kind = "chat" /\ op[o].pc \in {"none", "begin", "subscribe"}
           => channel[o].feed = "none"
    /\ op[o].kind = "watch" /\ op[o].pc # "none" => channel[o].feed = "activity"
    /\ channel[o].feed = "exchange" => op[o].kind = "chat"

\* A reader's channel is open as long as somebody will write to it or close it.
Attended(c, x, n) ==
    /\ c.feed = "none" => ~c.registered /\ c.queue = <<>>
    /\ c.feed # "none" => (c.registered <=> c.closed = 0)
    /\ c.feed = "exchange" => /\ x.state # "none" /\ Len(c.queue) <= x.events
                              /\ c.registered => x.state = "running"
    /\ c.feed = "activity" => Len(c.queue) <= n

Bounded ==
    /\ exchange.events <= MostEvents /\ announced <= MaxEvents
    /\ \A o \in Readers : op[o].spoken <= MaxEvents

ReadersInv ==
    /\ \A o \in Readers : Placed(o) /\ Attended(channel[o], exchange, announced)
    /\ Bounded

LEMMA ReadersBegin == Init => ReadersInv
<1>1. SUFFICES ASSUME Init PROVE ReadersInv
  OBVIOUS
<1>2. ASSUME NEW o \in Readers PROVE op[o].pc = "none" /\ op[o].spoken = 0
  BY <1>1 DEF Init, NoOp
<1>3. exchange.events = 0 /\ announced = 0
  BY <1>1 DEF Init, EventsInit
<1>4. \A o \in Readers : Placed(o) /\ Attended(channel[o], exchange, announced)
  <2>1. SUFFICES ASSUME NEW o \in Readers
                 PROVE  Placed(o) /\ Attended(channel[o], exchange, announced)
    OBVIOUS
  <2>2. channel[o] = NoChannel
    BY <1>1 DEF Init, EventsInit
  <2>3. NoChannel.feed = "none" /\ NoChannel.queue = <<>> /\ ~NoChannel.registered
    BY DEF NoChannel
  <2>4. Placed(o)
    BY <1>2, <2>2, <2>3 DEF Placed
  <2>5. Attended(channel[o], exchange, announced)
    BY <2>2, <2>3 DEF Attended
  <2>6. QED
    BY <2>4, <2>5
<1>5. Bounded
  BY <1>2, <1>3, BuffersAssumption DEF Bounded, MostEvents
<1>6. QED
  BY <1>4, <1>5 DEF ReadersInv

\* What an operation's step leaves of the other readers, and what it does to the exchange.
LEMMA OthersRead ==
    ASSUME TypeInv, NEW o \in Readers, OperationStep(o)
    PROVE  /\ \A p \in Readers \ {o} : op'[p] = op[p] /\ channel'[p] = channel[p]
           /\ announced' = announced
           /\ UNCHANGED exchange \/ BeginExchange
<1>1. \A p \in Readers \ {o} : channel'[p] = channel[p]
  BY DEF TypeInv, EventsTypes, OperationStep, ReadStep, StreamStep, CellStep, Accept,
       TakeSlot, LeaveQueue,
       RunReturns, ReleaseSlot, FindExchange, FindNothing, Refuse, SubscribeTo, AcceptWatch,
       ReadActivities, TakeEvent, Forward, StopForwarding, StreamEnds, StreamCancelled,
       DetachFrom, RunCell, CellSpeaks, CellEnds, Leave, WorkDone, eventVars, Subscribe, Detach
<1>2. /\ announced' = announced
      /\ UNCHANGED exchange \/ BeginExchange
  BY DEF OperationStep, ReadStep, StreamStep, CellStep, Accept, TakeSlot, LeaveQueue,
       RunReturns, ReleaseSlot, FindExchange, FindNothing, Refuse, SubscribeTo, AcceptWatch,
       ReadActivities, TakeEvent, Forward, StopForwarding, StreamEnds, StreamCancelled,
       DetachFrom, RunCell, CellSpeaks, CellEnds, Leave, WorkDone, eventVars, BeginExchange
<1>3. QED
  BY <1>1, <1>2, OtherOpsStay

\* A reader that is not touched, while the exchange goes no further than to begin.
LEMMA UntouchedReader ==
    ASSUME EventsTypes, NEW p \in Readers, Placed(p), Attended(channel[p], exchange, announced),
           op'[p] = op[p], channel'[p] = channel[p], announced' = announced,
           UNCHANGED exchange \/ BeginExchange
    PROVE  Placed(p)' /\ Attended(channel[p], exchange, announced)'
<1>1. Placed(p)'
  BY DEF Placed, BeginExchange
<1>2. CASE UNCHANGED exchange
  BY <1>1, <1>2 DEF Attended
<1>3. CASE BeginExchange
  <2>1. channel[p].feed # "exchange"
    BY <1>3 DEF BeginExchange, Attended
  <2>2. QED
    BY <1>1, <2>1 DEF Attended
<1>4. QED
  BY <1>2, <1>3

LEMMA OwnChannel ==
    ASSUME TypeInv, OpenInv, NEW o \in Readers, Placed(o),
           Attended(channel[o], exchange, announced), OperationStep(o)
    PROVE  /\ Attended(channel[o], exchange, announced)'
           /\ channel'[o].feed = IF SubscribeTo(o) THEN "exchange" ELSE channel[o].feed
<1>0. channel[o] \in ChannelType /\ DOMAIN channel = Readers /\ ChannelOK(channel[o])
      /\ exchange \in ExchangeType /\ announced \in Nat
  BY DEF TypeInv, EventsTypes, OpenInv, ChannelsInv
<1>1. CASE SubscribeTo(o)
  <2>1. channel'[o] = NewChannel("exchange", UpTo(exchange.events),
                          subscriberBuffer + exchange.events, exchange.state = "closed")
    BY <1>0, <1>1 DEF SubscribeTo, Subscribe
  <2>2. exchange' = exchange /\ announced' = announced /\ exchange.state \in {"running", "closed"}
    BY <1>0, <1>1 DEF SubscribeTo, Placed, ExchangeType
  <2>3. Len(UpTo(exchange.events)) = exchange.events
    BY <1>0, UpToType DEF ExchangeType
  <2>4. /\ channel'[o].feed = "exchange" /\ channel'[o].queue = UpTo(exchange.events)
        /\ channel'[o].registered = ~(exchange.state = "closed")
        /\ channel'[o].closed = IF exchange.state = "closed" THEN 1 ELSE 0
    BY <2>1 DEF NewChannel
  <2> DEFINE c == channel'[o]
  <2>5. /\ c.feed = "exchange" /\ Len(c.queue) = exchange.events
        /\ exchange.state = "closed" => ~c.registered /\ c.closed = 1
        /\ exchange.state # "closed" => c.registered /\ c.closed = 0
    BY <2>3, <2>4
  <2> HIDE DEF c
  <2>6. Attended(c, exchange, announced)
    BY <1>0, <2>2, <2>5 DEF Attended, ExchangeType
  <2>7. Attended(c, exchange, announced) = Attended(channel[o], exchange, announced)'
    BY <2>2 DEF c, Attended
  <2>8. QED
    BY <1>1, <2>5, <2>6, <2>7 DEF c
<1>2. CASE DetachFrom(o)
  <2> DEFINE left == IF channel[o].registered THEN Closed(channel[o]) ELSE channel[o]
  <2>1. channel'[o] = [left EXCEPT !.queue = <<>>] /\ UNCHANGED <<exchange, announced>>
    BY <1>0, <1>2 DEF DetachFrom, Detach
  <2>2. left \in ChannelType /\ left.feed = channel[o].feed
        /\ left.registered = FALSE
        /\ left.closed = IF channel[o].registered THEN channel[o].closed + 1
                                                 ELSE channel[o].closed
    BY <1>0, ClosedKeepsType DEF ChannelType
  <2> HIDE DEF left
  <2>3. /\ channel'[o].feed = channel[o].feed /\ channel'[o].queue = <<>>
        /\ channel'[o].registered = FALSE
        /\ channel'[o].closed = IF channel[o].registered THEN channel[o].closed + 1
                                                       ELSE channel[o].closed
    BY <2>1, <2>2 DEF ChannelType
  <2>4. ~SubscribeTo(o)
    BY <1>2 DEF DetachFrom, SubscribeTo
  <2>5. QED
    BY <1>0, <2>1, <2>3, <2>4 DEF Attended, ChannelOK, ChannelType, ExchangeType
<1>3. CASE TakeEvent(o)
  <2>1. channel'[o] = [channel[o] EXCEPT !.queue = Tail(channel[o].queue)]
        /\ UNCHANGED <<exchange, announced>> /\ channel[o].queue # <<>>
    BY <1>0, <1>3 DEF TakeEvent
  <2>2. /\ channel'[o].feed = channel[o].feed /\ channel'[o].registered = channel[o].registered
        /\ channel'[o].closed = channel[o].closed /\ channel'[o].queue = Tail(channel[o].queue)
    BY <1>0, <2>1 DEF ChannelType
  <2>3. Len(Tail(channel[o].queue)) = Len(channel[o].queue) - 1
    BY <1>0, <2>1, TailIs DEF ChannelType
  <2>4. ~SubscribeTo(o) /\ Len(channel[o].queue) \in Nat
    BY <1>0, <1>3 DEF TakeEvent, SubscribeTo, ChannelType
  <2>5. QED
    BY <1>0, <2>1, <2>2, <2>3, <2>4 DEF Attended, ExchangeType
<1>4. CASE channel' = channel /\ ~SubscribeTo(o)
  <2>1. announced' = announced /\ (UNCHANGED exchange \/ BeginExchange)
    BY OthersRead
  <2>2. CASE UNCHANGED exchange
    BY <1>4, <2>1, <2>2 DEF Attended
  <2>3. CASE BeginExchange
    <3>1. channel[o].feed # "exchange"
      BY <2>3 DEF BeginExchange, Attended
    <3>2. QED
      BY <1>4, <2>1, <3>1 DEF Attended
  <2>4. QED
    BY <2>1, <2>2, <2>3
<1>5. QED
  BY <1>1, <1>2, <1>3, <1>4 DEF OperationStep, ReadStep, StreamStep, CellStep, Accept,
       TakeSlot, LeaveQueue, RunReturns, ReleaseSlot, FindExchange, FindNothing, Refuse,
       AcceptWatch, ReadActivities, Forward, StopForwarding, StreamEnds, StreamCancelled,
       RunCell, CellSpeaks, CellEnds, Leave, WorkDone, eventVars

LEMMA OwnPlace ==
    ASSUME TypeInv, OpenInv, NEW o \in Readers, Placed(o),
           Attended(channel[o], exchange, announced), OperationStep(o)
    PROVE  Placed(o)'
<1>0. /\ channel'[o].feed = IF SubscribeTo(o) THEN "exchange" ELSE channel[o].feed
      /\ UNCHANGED exchange \/ BeginExchange
  BY OwnChannel, OthersRead
<1>1. \A label : Goes(o, label) => op'[o].pc = label /\ op'[o].kind = op[o].kind
  BY DEF Goes, TypeInv, OpsOK, OpType
<1>2. /\ op[o].kind \in Kinds /\ op[o].pc \in Labels
      /\ exchange.state \in {"none", "running", "closed"}
  BY DEF TypeInv, OpsOK, OpType, EventsTypes, ExchangeType
<1>3. CASE ReadStep(o)
  BY <1>0, <1>1, <1>2, <1>3 DEF ReadStep, Accept, TakeSlot, LeaveQueue, RunReturns, ReleaseSlot,
     Placed, SubscribeTo
<1>4. CASE FindExchange(o) \/ FindNothing(o) \/ Refuse(o) \/ SubscribeTo(o) \/ AcceptWatch(o)
           \/ StreamEnds(o) \/ StreamCancelled(o) \/ DetachFrom(o) \/ RunCell(o) \/ CellEnds(o)
           \/ Leave(o) \/ WorkDone(o)
  BY <1>0, <1>1, <1>2, <1>4 DEF FindExchange, FindNothing, Refuse, SubscribeTo, BeginExchange,
     AcceptWatch, StreamEnds, StreamCancelled, DetachFrom, RunCell, CellEnds, Leave, WorkDone,
     Placed
<1>5. CASE ReadActivities(o) \/ TakeEvent(o) \/ Forward(o) \/ StopForwarding(o) \/ CellSpeaks(o)
  <2>1. op'[o].kind = op[o].kind
    BY <1>5 DEF ReadActivities, TakeEvent, Forward, StopForwarding, CellSpeaks, TypeInv,
       OpsOK, OpType
  <2>2. /\ ReadActivities(o) => op'[o].pc \in {"relay", "forward"} /\ op[o].pc = "snapshot"
        /\ TakeEvent(o) => op'[o].pc = "forward" /\ op[o].pc = "relay"
        /\ Forward(o) => op'[o].pc = "relay" /\ op[o].pc = "forward"
        /\ StopForwarding(o) => op'[o].pc = (IF op[o].kind = "cell" THEN "drain" ELSE "detach")
                                /\ op[o].pc = "forward"
        /\ CellSpeaks(o) => op'[o].pc = (IF op[o].pc = "relay" THEN "forward" ELSE "drain")
                            /\ op[o].pc \in {"relay", "drain"} /\ op[o].kind = "cell"
    BY DEF ReadActivities, TakeEvent, Forward, StopForwarding, CellSpeaks, TypeInv, OpsOK, OpType
  <2>3. ~SubscribeTo(o)
    BY <1>5 DEF ReadActivities, TakeEvent, Forward, StopForwarding, CellSpeaks, SubscribeTo
  <2>4. QED
    BY <1>0, <1>2, <1>5, <2>1, <2>2, <2>3 DEF Placed, Kinds
<1>6. QED
  BY <1>3, <1>4, <1>5 DEF OperationStep, StreamStep, CellStep

LEMMA OperationBounds ==
    ASSUME TypeInv, Bounded, NEW o \in Readers, OperationStep(o)
    PROVE  Bounded'
<1>1. announced' = announced /\ exchange'.events <= MostEvents
  <2>1. CASE UNCHANGED exchange
    BY <2>1, OthersRead DEF Bounded
  <2>2. CASE BeginExchange
    BY <2>2, OthersRead, BuffersAssumption DEF BeginExchange, MostEvents
  <2>3. QED
    BY <2>1, <2>2, OthersRead
<1>2. op'[o].spoken <= MaxEvents
  <2>1. CASE CellSpeaks(o)
    <3>1. op'[o].spoken = op[o].spoken + 1 /\ op[o].spoken < MaxEvents
      BY <2>1 DEF CellSpeaks, TypeInv, OpsOK, OpType
    <3>2. QED
      BY <3>1, BuffersAssumption DEF TypeInv, OpsOK, OpType
  <2>2. CASE ~CellSpeaks(o)
    <3>1. op'[o].spoken = op[o].spoken
      BY <2>2 DEF TypeInv, OpsOK, OpType, OperationStep, ReadStep, StreamStep, CellStep, Accept,
         TakeSlot, LeaveQueue, RunReturns, ReleaseSlot, FindExchange, FindNothing, Refuse,
         SubscribeTo, AcceptWatch, ReadActivities, TakeEvent, Forward, StopForwarding,
         StreamEnds, StreamCancelled, DetachFrom, RunCell, CellEnds, Leave, WorkDone, Goes
    <3>2. QED
      BY <3>1 DEF Bounded
  <2>3. QED
    BY <2>1, <2>2
<1>3. QED
  BY <1>1, <1>2, OthersRead DEF Bounded

LEMMA OperationReaders ==
    ASSUME TypeInv, OpenInv, ReadersInv, NEW o \in Readers, OperationStep(o)
    PROVE  ReadersInv'
<1>1. ASSUME NEW p \in Readers
      PROVE  Placed(p)' /\ Attended(channel[p], exchange, announced)'
  <2>1. Placed(p) /\ Attended(channel[p], exchange, announced)
    BY DEF ReadersInv
  <2>2. CASE p = o
    BY <2>1, <2>2, OwnPlace, OwnChannel
  <2>3. CASE p # o
    BY <2>1, <2>3, OthersRead, UntouchedReader DEF TypeInv
  <2>4. QED
    BY <2>2, <2>3
<1>2. Bounded'
  BY OperationBounds DEF ReadersInv
<1>3. QED
  BY <1>1, <1>2 DEF ReadersInv

LEMMA ClientReaders ==
    ASSUME TypeInv, ReadersInv, ClientStep
    PROVE  ReadersInv'
<1>1. /\ \A o \in Readers : op'[o].kind = op[o].kind /\ op'[o].spoken = op[o].spoken
      /\ UNCHANGED <<exchange, announced>>
  <2>1. UNCHANGED <<exchange, announced>>
    BY DEF ClientStep, Request, RequestAgain, CancelOperation, Answer, ReadEnds, eventVars
  <2>2. CASE UNCHANGED op
    BY <2>1, <2>2
  <2>3. CASE \E o \in Readers : \/ op' = [op EXCEPT ![o].pc = "begin"]
                                \/ op' = [op EXCEPT ![o].cancelled = TRUE]
    <3>1. PICK o \in Readers : \/ op' = [op EXCEPT ![o].pc = "begin"]
                               \/ op' = [op EXCEPT ![o].cancelled = TRUE]
      BY <2>3
    <3>2. CASE op' = [op EXCEPT ![o].pc = "begin"]
      BY <2>1, <3>2 DEF TypeInv, OpsOK, OpType
    <3>3. CASE op' = [op EXCEPT ![o].cancelled = TRUE]
      BY <2>1, <3>3 DEF TypeInv, OpsOK, OpType
    <3>4. QED
      BY <3>1, <3>2, <3>3
  <2>4. QED
    BY <2>2, <2>3 DEF ClientStep, Request, RequestAgain, CancelOperation, Answer, ReadEnds
<1>2. Bounded'
  BY <1>1 DEF ReadersInv, Bounded
<1>3. ASSUME NEW p \in Readers
      PROVE  Placed(p)' /\ Attended(channel[p], exchange, announced)'
  <2>1. Placed(p) /\ Attended(channel[p], exchange, announced)
    BY DEF ReadersInv
  <2>2. CASE op'[p].pc = op[p].pc /\ channel'[p] = channel[p]
    BY <1>1, <2>1, <2>2 DEF Placed, Attended
  <2>3. CASE Request(p) /\ op[p].kind # "watch"
    <3>1. op'[p].pc = "begin" /\ op[p].pc = "none" /\ channel' = channel
      BY <2>3 DEF Request, TypeInv, OpsOK, OpType
    <3>2. QED
      BY <1>1, <2>1, <2>3, <3>1 DEF Placed, Attended
  <2>4. CASE Request(p) /\ op[p].kind = "watch"
    <3>1. op'[p].pc = "begin" /\ op[p].pc = "none"
      BY <2>4 DEF Request, TypeInv, OpsOK, OpType
    <3>2. channel'[p] = NewChannel("activity", <<>>, watcherBuffer, FALSE)
      BY <2>4 DEF Request, Watch, TypeInv, EventsTypes
    <3>3. /\ channel'[p].feed = "activity" /\ channel'[p].queue = <<>>
          /\ channel'[p].registered = ~FALSE /\ channel'[p].closed = 0
      BY <3>2 DEF NewChannel
    <3>6. channel'[p].registered /\ Len(channel'[p].queue) = 0 /\ announced \in Nat
      BY <3>3 DEF TypeInv, EventsTypes
    <3>4. Attended(channel[p], exchange, announced)'
      BY <1>1, <3>3, <3>6 DEF Attended
    <3>5. QED
      BY <1>1, <2>4, <3>1, <3>3, <3>4 DEF Placed
  <2>5. QED
    <3>1. CASE Request(p)
      BY <2>3, <2>4, <3>1
    <3>2. CASE \E o \in Readers \ {p} : Request(o)
      BY <2>2, <3>2 DEF Request, Watch, TypeInv, OpsOK, EventsTypes
    <3>3. CASE ~\E o \in Readers : Request(o)
      <4>1. channel' = channel
        BY <3>3 DEF ClientStep, RequestAgain, CancelOperation, Answer, ReadEnds, eventVars
      <4>2. UNCHANGED op \/ \E o \in Readers : op' = [op EXCEPT ![o].cancelled = TRUE]
        BY <3>3 DEF ClientStep, RequestAgain, CancelOperation, Answer, ReadEnds
      <4>3. op'[p].pc = op[p].pc
        BY <4>2 DEF TypeInv, OpsOK, OpType
      <4>4. QED
        BY <2>2, <4>1, <4>3
    <3>4. QED
      BY <3>1, <3>2, <3>3
<1>4. QED
  BY <1>2, <1>3 DEF ReadersInv

\* A reader that is registered gets the event, or is dropped and its channel closed.
LEMMA OfferedOrDropped ==
    ASSUME NEW c \in ChannelType, NEW n \in Nat, c.registered, c.closed = 0
    PROVE  /\ Offered(c, n).feed = c.feed
           /\ \/ /\ Offered(c, n).queue = Append(c.queue, n)
                 /\ Offered(c, n).registered /\ Offered(c, n).closed = 0
              \/ /\ Offered(c, n).queue = c.queue
                 /\ ~Offered(c, n).registered /\ Offered(c, n).closed = 1
<1>1. CASE Len(c.queue) < c.room
  <2>1. Offered(c, n) = [c EXCEPT !.queue = Append(c.queue, n)]
    BY <1>1 DEF Offered, Sent
  <2>2. QED
    BY <2>1 DEF ChannelType
<1>2. CASE ~(Len(c.queue) < c.room)
  <2>1. Offered(c, n) = [Closed(c) EXCEPT !.lagged = TRUE]
    BY <1>2 DEF Offered
  <2>2. /\ Offered(c, n).feed = Closed(c).feed /\ Offered(c, n).queue = Closed(c).queue
        /\ Offered(c, n).registered = Closed(c).registered
        /\ Offered(c, n).closed = Closed(c).closed
    BY <2>1, ClosedKeepsType DEF ChannelType
  <2>3. /\ Closed(c).registered = FALSE /\ Closed(c).closed = c.closed + 1
        /\ Closed(c).feed = c.feed /\ Closed(c).queue = c.queue
    BY ClosedKeepsType
  <2>4. QED
    BY <2>2, <2>3
<1>3. QED
  BY <1>1, <1>2

\* What the exchange or the announcements make of one reader's channel.
LEMMA TheyAttend ==
    ASSUME TypeInv, OpenInv, ReadersInv, ExchangeStep, NEW p \in Readers
    PROVE  /\ Attended(channel[p], exchange, announced)'
           /\ channel'[p].feed = channel[p].feed
           /\ Len(channel'[p].queue) \in Nat
           /\ channel[p].feed = "exchange" =>
                 Len(channel'[p].queue) - exchange'.events
                    <= Len(channel[p].queue) - exchange.events
           /\ channel[p].feed = "activity" =>
                 Len(channel'[p].queue) - announced' <= Len(channel[p].queue) - announced
<1> DEFINE c == channel[p]
<1>1. /\ c \in ChannelType /\ Attended(c, exchange, announced) /\ ChannelOK(c)
      /\ exchange \in ExchangeType /\ announced \in Nat
  BY DEF TypeInv, EventsTypes, OpenInv, ChannelsInv, ReadersInv
<1>2. Len(c.queue) \in Nat /\ \A n \in Nat : Len(Append(c.queue, n)) = Len(c.queue) + 1
  BY <1>1, AppendIs DEF ChannelType
<1>3. /\ exchange.events \in Nat /\ exchange.events + 1 \in Nat /\ announced + 1 \in Nat
  BY <1>1 DEF ExchangeType
<1>4. CASE Publish
  <2>1. /\ exchange'.state = "running" /\ exchange'.events = exchange.events + 1
        /\ announced' = announced /\ exchange.state = "running"
    BY <1>1, <1>4 DEF Publish, ExchangeType
  <2>2. channel'[p] = IF c.registered /\ c.feed = "exchange"
                      THEN Offered(c, exchange.events + 1) ELSE c
    BY <1>4 DEF Publish, Told
  <2>3. CASE c.registered /\ c.feed = "exchange"
    <3>1. /\ c.closed = 0 /\ channel'[p] = Offered(c, exchange.events + 1)
          /\ Len(c.queue) <= exchange.events
      BY <1>1, <2>2, <2>3 DEF Attended
    <3>2. PICK n \in Nat : n = exchange.events + 1
      BY <1>3
    <3>3. PICK d : d = Offered(c, n)
      OBVIOUS
    <3>4. /\ d.feed = c.feed
          /\ \/ d.queue = Append(c.queue, n) /\ d.registered /\ d.closed = 0
             \/ d.queue = c.queue /\ ~d.registered /\ d.closed = 1
      BY <1>1, <2>3, <3>1, <3>3, OfferedOrDropped
    <3>5. Len(d.queue) \in Nat /\ Len(d.queue) <= Len(c.queue) + 1
      BY <1>1, <1>2, <3>4
    <3>6. Attended(d, exchange', announced')
      BY <1>1, <1>2, <1>3, <2>1, <2>3, <3>1, <3>4, <3>5 DEF Attended
    <3>7. d = channel'[p]
      BY <3>1, <3>2, <3>3
    <3>8. Attended(channel[p], exchange, announced)'
      BY <3>6, <3>7, Zenon DEF Attended
    <3>9. Len(d.queue) - exchange'.events <= Len(c.queue) - exchange.events
      BY <1>2, <1>3, <1>1, <2>1, <3>5
    <3>10. QED
      BY <2>3, <3>4, <3>5, <3>7, <3>8, <3>9, Zenon
  <2>4. CASE ~(c.registered /\ c.feed = "exchange")
    BY <1>1, <1>2, <1>3, <2>1, <2>2, <2>4 DEF Attended
  <2>5. QED
    BY <2>3, <2>4
<1>5. CASE Announce
  <2>1. exchange' = exchange /\ announced' = announced + 1
    BY <1>5 DEF Announce
  <2>2. channel'[p] = IF c.registered /\ c.feed = "activity"
                      THEN Offered(c, announced + 1) ELSE c
    BY <1>5 DEF Announce, Told
  <2>3. CASE c.registered /\ c.feed = "activity"
    <3>1. /\ c.closed = 0 /\ channel'[p] = Offered(c, announced + 1)
          /\ Len(c.queue) <= announced
      BY <1>1, <2>2, <2>3 DEF Attended
    <3>2. PICK n \in Nat : n = announced + 1
      BY <1>3
    <3>3. PICK d : d = Offered(c, n)
      OBVIOUS
    <3>4. /\ d.feed = c.feed
          /\ \/ d.queue = Append(c.queue, n) /\ d.registered /\ d.closed = 0
             \/ d.queue = c.queue /\ ~d.registered /\ d.closed = 1
      BY <1>1, <2>3, <3>1, <3>3, OfferedOrDropped
    <3>5. Len(d.queue) \in Nat /\ Len(d.queue) <= Len(c.queue) + 1
      BY <1>1, <1>2, <3>4
    <3>6. Attended(d, exchange', announced')
      BY <1>1, <1>2, <1>3, <2>1, <2>3, <3>1, <3>4, <3>5 DEF Attended
    <3>7. d = channel'[p]
      BY <3>1, <3>2, <3>3
    <3>8. Attended(channel[p], exchange, announced)'
      BY <3>6, <3>7, Zenon DEF Attended
    <3>9. Len(d.queue) - announced' <= Len(c.queue) - announced
      BY <1>2, <1>3, <1>1, <2>1, <3>5
    <3>10. QED
      BY <2>3, <3>4, <3>5, <3>7, <3>8, <3>9, Zenon
  <2>4. CASE ~(c.registered /\ c.feed = "activity")
    BY <1>1, <1>2, <1>3, <2>1, <2>2, <2>4 DEF Attended
  <2>5. QED
    BY <2>3, <2>4
<1>6. CASE CloseExchange
  <2>1. /\ exchange'.state = "closed" /\ exchange'.events = exchange.events
        /\ announced' = announced
    BY <1>1, <1>6 DEF CloseExchange, ExchangeType
  <2>2. channel'[p] = IF c.registered /\ c.feed = "exchange" THEN Closed(c) ELSE c
    BY <1>6 DEF CloseExchange
  <2>3. CASE c.registered /\ c.feed = "exchange"
    <3>1. c.closed = 0 /\ channel'[p] = Closed(c)
      BY <1>1, <2>2, <2>3 DEF Attended
    <3>2. /\ channel'[p].feed = "exchange" /\ channel'[p].queue = c.queue
          /\ channel'[p].registered = FALSE /\ channel'[p].closed = 1
      <4>1. /\ Closed(c).registered = FALSE /\ Closed(c).closed = c.closed + 1
            /\ Closed(c).feed = c.feed /\ Closed(c).queue = c.queue
        BY <1>1, ClosedKeepsType
      <4>2. QED
        BY <2>3, <3>1, <4>1
    <3>3. QED
      BY <1>1, <1>2, <1>3, <2>1, <2>3, <3>2 DEF Attended
  <2>4. CASE ~(c.registered /\ c.feed = "exchange")
    BY <1>1, <1>2, <1>3, <2>1, <2>2, <2>4 DEF Attended
  <2>5. QED
    BY <2>3, <2>4
<1>7. QED
  BY <1>4, <1>5, <1>6 DEF ExchangeStep

LEMMA ExchangeReaders ==
    ASSUME TypeInv, OpenInv, ReadersInv, ExchangeStep
    PROVE  ReadersInv'
<1>1. /\ op' = op
      /\ exchange.state # "none" => exchange'.state # "none"
  BY DEF ExchangeStep, sessionVars, Publish, Announce, CloseExchange, TypeInv, EventsTypes,
     ExchangeType
<1>2. ASSUME NEW p \in Readers
      PROVE  Placed(p)' /\ Attended(channel[p], exchange, announced)'
  <2>1. channel'[p].feed = channel[p].feed /\ Attended(channel[p], exchange, announced)'
    BY TheyAttend
  <2>2. Placed(p)
    BY DEF ReadersInv
  <2>3. Placed(p)'
    BY <1>1, <2>1, <2>2 DEF Placed
  <2>4. QED
    BY <2>1, <2>3
<1>3. exchange'.events <= MostEvents /\ announced' <= MaxEvents
  BY BuffersAssumption DEF ExchangeStep, Publish, Announce, CloseExchange, ReadersInv, Bounded,
     MostEvents, TypeInv, EventsTypes, ExchangeType
<1>4. QED
  BY <1>1, <1>2, <1>3 DEF ReadersInv, Bounded

LEMMA ConnectionReaders ==
    ASSUME ReadersInv, WriterStep \/ ServeStep \/ UNCHANGED vars
    PROVE  ReadersInv'
<1>1. UNCHANGED <<exchange, announced, channel, op>>
  BY DEF WriterStep, ServeStep, Write, WriteFails, WriterEnds, CloseOutbound, CloseConnection,
     eventVars, vars
<1>2. QED
  BY <1>1 DEF ReadersInv, Placed, Attended, Bounded

LEMMA ReadersStep == TypeInv /\ OpenInv /\ ReadersInv /\ [Next]_vars => ReadersInv'
BY OperationReaders, ClientReaders, ExchangeReaders, ConnectionReaders DEF Next

LEMMA NobodyWaitsInVain ==
    ASSUME TypeInv, OpenInv, BooksAreKept, ReadersInv
    PROVE  NobodyIsForgotten
<1>1. ASSUME NEW o \in Readers, Counted(o), ~MayGoOn(o)
      PROVE  /\ serving = "reading" /\ op[o].pc \in {"slot", "forward", "relay"}
             /\ op[o].pc = "slot" => \E p \in Readers : HoldsSlot(p) /\ MayGoOn(p)
             /\ op[o].pc = "forward" => outbound.queue # <<>>
             /\ op[o].pc = "relay" =>
                    /\ channel[o].registered
                    /\ op[o].kind = "chat" => exchange.state = "running"
  <2>1. /\ serving = "reading" /\ op[o].pc \in {"slot", "forward", "relay"}
        /\ op[o].pc = "slot" => ~(Cardinality(slots) < concurrentPerConnection)
        /\ op[o].pc = "forward" => ~HasRoom
        /\ op[o].pc = "relay" => op[o].kind # "cell" /\ ~(channel[o].closed > 0)
    BY <1>1 DEF MayGoOn, Cancelled, ConnectionOver
  <2>2. op[o].pc = "slot" => \E p \in Readers : HoldsSlot(p) /\ MayGoOn(p)
    <3>1. SUFFICES ASSUME op[o].pc = "slot" PROVE \E p \in slots : TRUE
      BY DEF BooksAreKept, HoldsSlot, MayGoOn, Counted, TypeInv, SlotsOK
    <3>2. Cardinality({}) = 0
      BY FS_EmptySet
    <3>3. slots # {}
      BY <2>1, <3>1, <3>2, ConnectionAssumption
    <3>4. QED
      BY <3>3
  <2>3. op[o].pc = "forward" => outbound.queue # <<>>
    <3>1. Len(<<>>) = 0
      OBVIOUS
    <3>2. QED
      BY <2>1, <3>1, ConnectionAssumption DEF HasRoom
  <2>4. op[o].pc = "relay" => /\ channel[o].registered
                              /\ op[o].kind = "chat" => exchange.state = "running"
    <3>1. SUFFICES ASSUME op[o].pc = "relay"
                   PROVE  /\ channel[o].registered
                          /\ op[o].kind = "chat" => exchange.state = "running"
      OBVIOUS
    <3>2. Placed(o) /\ Attended(channel[o], exchange, announced)
          /\ op[o].kind \in Kinds /\ channel[o].closed \in Nat
      BY DEF ReadersInv, TypeInv, OpsOK, OpType, EventsTypes, ChannelType
    <3>3. /\ \/ op[o].kind = "chat" /\ channel[o].feed = "exchange"
             \/ op[o].kind = "watch" /\ channel[o].feed = "activity"
          /\ channel[o].closed = 0
      BY <2>1, <3>1, <3>2 DEF Placed, Kinds
    <3>4. QED
      BY <3>2, <3>3 DEF Attended
  <2>5. QED
    BY <2>1, <2>2, <2>3, <2>4
<1>2. serving = "waiting" => ServeMayGoOn \/ \E o \in work : MayGoOn(o)
  <2>1. SUFFICES ASSUME serving = "waiting", work # {} PROVE \E o \in work : MayGoOn(o)
    BY DEF ServeMayGoOn
  <2>2. PICK o \in work : TRUE
    BY <2>1
  <2>3. o \in Readers /\ Counted(o)
    BY DEF TypeInv, RestOK, BooksAreKept
  <2>4. MayGoOn(o)
    BY <1>1, <2>1, <2>3
  <2>5. QED
    BY <2>4
<1>3. serving = "draining" => ServeMayGoOn \/ writer = "on"
  BY DEF ServeMayGoOn, TypeInv, RestOK
<1>4. QED
  BY <1>1, <1>2, <1>3 DEF NobodyIsForgotten

\* However subscribing, publishing, closing and detaching meet, no view waits on a channel
\* that nobody will write to or close (exchange.go:87-164, activity.go:85-166); no
\* operation waits for a slot or for the client once the connection is over; and serve,
\* when it waits, has somebody to wait for who can go on (ws.go:335-352, 460-503).
THEOREM NobodyIsLeftWaiting == Spec => []NobodyIsForgotten
<1> DEFINE Inv == TypeInv /\ OpenInv /\ BooksAreKept /\ ReadersInv
<1>1. Init => Inv
  BY InitTypes, InitOpen, BooksBegin, ReadersBegin
<1>2. Inv /\ [Next]_vars => Inv'
  BY NextTypes, NextOpen, BooksStep, ReadersStep
<1>3. Inv => NobodyIsForgotten
  BY NobodyWaitsInVain
<1>4. QED
  BY <1>1, <1>2, <1>3, PTL DEF Spec

-----------------------------------------------------------------------------
(* How many steps an operation has left.                                      *)

\* What of its stream an operation may still have to hand on.
Awaited(o) ==
    CASE op[o].kind = "chat"  -> IF channel[o].feed = "exchange"
                                 THEN Len(channel[o].queue) + MostEvents - exchange.events
                                 ELSE MostEvents
      [] op[o].kind = "watch" -> Len(channel[o].queue) + MostEvents - announced
      [] op[o].kind = "cell"  -> MostEvents - op[o].spoken
      [] OTHER                -> 0

\* The steps from a place to the end when there is nothing to hand on.
Ahead(pc) ==
    CASE pc = "none"      -> 8
      [] pc = "begin"     -> 7
      [] pc = "subscribe" -> 6
      [] pc = "snapshot"  -> 6
      [] pc = "slot"      -> 5
      [] pc = "forward"   -> 5
      [] pc = "work"      -> 4
      [] pc = "relay"     -> 4
      [] pc = "unslot"    -> 3
      [] pc = "drain"     -> 3
      [] pc = "detach"    -> 3
      [] pc = "leave"     -> 2
      [] pc = "done"      -> 1
      [] OTHER            -> 0

Streaming == {"none", "begin", "subscribe", "snapshot", "relay", "forward", "drain"}

StepsLeft(o) == Ahead(op[o].pc)
                + (IF op[o].pc \in Streaming THEN 2 * Awaited(o) ELSE 0)

MostSteps == 2 * MostEvents + 8

StepsAreLimited ==
    \A o \in Readers : /\ StepsLeft(o) \in 0..MostSteps
                       /\ StepsLeft(o) = 0 <=> op[o].pc = "gone"

StepsRunOut ==
    \A o \in Readers : /\ StepsLeft(o)' <= StepsLeft(o)
                       /\ OperationStep(o) \/ op'[o].pc # op[o].pc
                             => StepsLeft(o)' < StepsLeft(o)

LEMMA AheadType ==
    ASSUME NEW pc \in Labels
    PROVE  Ahead(pc) \in 0..8 /\ (Ahead(pc) = 0 <=> pc = "gone")
BY DEF Ahead, Labels

LEMMA AwaitedType ==
    ASSUME TypeInv, ReadersInv, NEW o \in Readers
    PROVE  Awaited(o) \in 0..MostEvents
<1>1. /\ Placed(o) /\ Attended(channel[o], exchange, announced)
      /\ exchange.events <= MostEvents /\ announced <= MaxEvents /\ op[o].spoken <= MaxEvents
  BY DEF ReadersInv, Bounded
<1>2. /\ op[o].kind \in Kinds /\ op[o].spoken \in Nat /\ exchange.events \in Nat
      /\ announced \in Nat /\ channel[o].feed \in {"none", "exchange", "activity"}
      /\ channel[o].queue \in Seq(Nat)
  BY DEF TypeInv, OpsOK, OpType, EventsTypes, ChannelType, ExchangeType
<1>3. MaxEvents \in Nat /\ MostEvents = MaxEvents + 1 /\ Len(channel[o].queue) \in Nat
  BY <1>2, BuffersAssumption DEF MostEvents
<1>4. channel[o].feed = "none" => Len(channel[o].queue) = 0
  BY <1>1 DEF Attended
<1>5. CASE op[o].kind = "chat"
  BY <1>1, <1>2, <1>3, <1>5 DEF Awaited, Attended
<1>6. CASE op[o].kind = "watch"
  <2>1. Len(channel[o].queue) <= announced
    BY <1>1, <1>2, <1>4, <1>6 DEF Placed, Attended
  <2>2. Awaited(o) = Len(channel[o].queue) + MostEvents - announced
    BY <1>6 DEF Awaited
  <2>3. announced \in Nat /\ announced <= MaxEvents
    BY <1>1, <1>2
  <2>4. \A m, l, a \in Nat : l <= a /\ a <= m => l + (m + 1) - a \in 0..(m + 1)
    OBVIOUS
  <2>5. QED
    BY <1>3, <2>1, <2>2, <2>3, <2>4, BuffersAssumption
<1>7. CASE op[o].kind = "cell"
  BY <1>1, <1>2, <1>3, <1>7 DEF Awaited
<1>8. CASE op[o].kind = "read"
  BY <1>3, <1>8 DEF Awaited
<1>9. QED
  BY <1>2, <1>5, <1>6, <1>7, <1>8 DEF Kinds

LEMMA StepsLimited == TypeInv /\ ReadersInv => StepsAreLimited
<1>1. SUFFICES ASSUME TypeInv, ReadersInv, NEW o \in Readers
               PROVE  /\ StepsLeft(o) \in 0..MostSteps
                      /\ StepsLeft(o) = 0 <=> op[o].pc = "gone"
  BY DEF StepsAreLimited
<1>0. op[o].pc \in Labels
  BY <1>1 DEF TypeInv, OpsOK, OpType
<1>2. PICK a \in 0..8 : a = Ahead(op[o].pc) /\ (a = 0 <=> op[o].pc = "gone")
  BY <1>0, AheadType
<1>3. PICK n \in 0..MostEvents : n = Awaited(o)
  BY <1>1, AwaitedType
<1>4. MostEvents \in Nat /\ "gone" \notin Streaming
  BY BuffersAssumption DEF MostEvents, Streaming
<1>5. StepsLeft(o) = a + (IF op[o].pc \in Streaming THEN 2 * n ELSE 0)
  BY <1>2, <1>3 DEF StepsLeft
<1>6. QED
  BY <1>2, <1>3, <1>4, <1>5 DEF MostSteps

LEMMA AwaitedIsCounted == TypeInv /\ ReadersInv => \A o \in Readers : Awaited(o) \in Nat
<1>1. MostEvents \in Nat
  BY BuffersAssumption DEF MostEvents
<1>2. QED
  <2>1. ASSUME TypeInv, ReadersInv, NEW o \in Readers PROVE Awaited(o) \in Nat
    BY <1>1, <2>1, AwaitedType
  <2>2. QED
    BY <2>1

LEMMA AwaitedIsCountedNext ==
    TypeInv /\ OpenInv /\ ReadersInv /\ [Next]_vars
       => \A o \in Readers : Awaited(o) \in Nat /\ Awaited(o)' \in Nat
<1>1. (TypeInv /\ ReadersInv => \A o \in Readers : Awaited(o) \in Nat)'
  BY AwaitedIsCounted, PTL
<1>2. QED
  BY <1>1, AwaitedIsCounted, NextTypes, ReadersStep

\* A step that takes an operation on, or hands something on.
LEMMA Lowered ==
    ASSUME NEW o \in Readers, Awaited(o) \in Nat, Awaited(o)' \in Nat,
           NEW from \in Labels, NEW to \in Labels, op[o].pc = from, op'[o].pc = to,
           \/ /\ Ahead(to) < Ahead(from)
              /\ to \in Streaming => from \in Streaming /\ Awaited(o)' <= Awaited(o)
           \/ /\ Ahead(to) <= Ahead(from) + 1
              /\ {from, to} \subseteq Streaming /\ Awaited(o)' < Awaited(o)
    PROVE  StepsLeft(o)' < StepsLeft(o)
<1>1. Ahead(to) \in 0..8 /\ Ahead(from) \in 0..8
  BY AheadType
<1>2. /\ StepsLeft(o) = Ahead(from) + (IF from \in Streaming THEN 2 * Awaited(o) ELSE 0)
      /\ StepsLeft(o)' = Ahead(to) + (IF to \in Streaming THEN 2 * Awaited(o)' ELSE 0)
  BY DEF StepsLeft, Ahead
<1>3. QED
  BY <1>1, <1>2

\* Where an operation's own step takes it, and what it makes of what is awaited.
LEMMA OwnStepLowers ==
    ASSUME TypeInv, OpenInv, ReadersInv, [Next]_vars, NEW o \in Readers, OperationStep(o)
    PROVE  StepsLeft(o)' < StepsLeft(o)
<1>0. /\ Awaited(o) \in Nat /\ Awaited(o)' \in Nat /\ Placed(o)
      /\ Attended(channel[o], exchange, announced)
      /\ exchange \in ExchangeType /\ announced \in Nat /\ channel[o] \in ChannelType
      /\ op[o] \in OpType /\ MostEvents \in Nat
  BY AwaitedIsCountedNext, BuffersAssumption DEF ReadersInv, TypeInv, EventsTypes, OpsOK, MostEvents
<1>11. announced' = announced /\ (UNCHANGED exchange \/ BeginExchange)
  BY OthersRead
<1>1. \A label : Goes(o, label) => /\ op'[o].pc = label /\ op'[o].kind = op[o].kind
                                   /\ op'[o].spoken = op[o].spoken
  BY DEF Goes, TypeInv, OpsOK, OpType
<1>2. ASSUME UNCHANGED <<op[o].kind, op[o].spoken>>, channel'[o] = channel[o]
      PROVE  Awaited(o)' = Awaited(o)
  <2>1. channel[o].feed = "exchange" => UNCHANGED exchange
    BY <1>0, <1>11 DEF BeginExchange, Attended
  <2>2. QED
    BY <1>11, <1>2, <2>1 DEF Awaited
<1>3. CASE ReadStep(o)
  <2>1. PICK from, to \in Labels : /\ op[o].pc = from /\ op'[o].pc = to
                                   /\ Ahead(to) < Ahead(from) /\ to \notin Streaming
    BY <1>1, <1>3 DEF ReadStep, Accept, TakeSlot, LeaveQueue, RunReturns, ReleaseSlot, Ahead,
       Labels, Streaming
  <2>2. QED
    BY <1>0, <2>1, Lowered
<1>4. CASE FindNothing(o) \/ Refuse(o) \/ StreamEnds(o) \/ StreamCancelled(o) \/ DetachFrom(o)
           \/ CellEnds(o) \/ Leave(o) \/ WorkDone(o)
  <2>1. PICK from, to \in Labels : /\ op[o].pc = from /\ op'[o].pc = to
                                   /\ Ahead(to) < Ahead(from) /\ to \notin Streaming
    BY <1>1, <1>4 DEF FindNothing, Refuse, StreamEnds, StreamCancelled, DetachFrom, CellEnds,
       Leave, WorkDone, Ahead, Labels, Streaming
  <2>2. QED
    BY <1>0, <2>1, Lowered
<1>5. CASE FindExchange(o) \/ AcceptWatch(o) \/ RunCell(o)
  <2>1. PICK from, to \in Labels : /\ op[o].pc = from /\ op'[o].pc = to
                                   /\ Ahead(to) < Ahead(from) /\ from \in Streaming
    BY <1>1, <1>5 DEF FindExchange, AcceptWatch, RunCell, Ahead, Labels, Streaming
  <2>2. UNCHANGED <<op[o].kind, op[o].spoken>> /\ channel'[o] = channel[o]
    BY <1>1, <1>5 DEF FindExchange, AcceptWatch, RunCell, eventVars
  <2>3. QED
    BY <1>0, <1>2, <2>1, <2>2, Lowered
<1>6. CASE SubscribeTo(o)
  <2>1. /\ op[o].pc = "subscribe" /\ op'[o].pc = "relay" /\ op'[o].kind = op[o].kind
        /\ op[o].kind = "chat" /\ UNCHANGED exchange /\ channel[o].feed = "none"
    BY <1>0, <1>1, <1>6 DEF SubscribeTo, Placed
  <2>2. channel'[o] = NewChannel("exchange", UpTo(exchange.events),
                          subscriberBuffer + exchange.events, exchange.state = "closed")
    BY <1>6 DEF SubscribeTo, Subscribe, TypeInv, EventsTypes
  <2>3. channel'[o].feed = "exchange" /\ channel'[o].queue = UpTo(exchange.events)
    BY <2>2 DEF NewChannel
  <2>4. Len(channel'[o].queue) = exchange.events /\ exchange.events \in Nat
    BY <1>0, <2>3, UpToType DEF ExchangeType
  <2>5. Awaited(o) = MostEvents
    BY <2>1 DEF Awaited
  <2>6. Awaited(o)' = Len(channel'[o].queue) + MostEvents - exchange.events
    BY <2>1, <2>3 DEF Awaited, MostEvents
  <2>7. Awaited(o)' <= Awaited(o)
    BY <1>0, <2>4, <2>5, <2>6
  <2>8. /\ "subscribe" \in Labels /\ "relay" \in Labels /\ "subscribe" \in Streaming
        /\ Ahead("relay") < Ahead("subscribe")
    BY DEF Ahead, Labels, Streaming
  <2>9. QED
    BY <1>0, <2>1, <2>7, <2>8, Lowered
<1>7. CASE ReadActivities(o) \/ Forward(o) \/ StopForwarding(o)
  <2>1. PICK from, to \in Labels : /\ op[o].pc = from /\ op'[o].pc = to
                                   /\ Ahead(to) < Ahead(from) /\ from \in Streaming
    BY <1>0, <1>7 DEF ReadActivities, Forward, StopForwarding, TypeInv, OpsOK, OpType, Ahead,
       Labels, Streaming
  <2>2. UNCHANGED <<op[o].kind, op[o].spoken>> /\ channel'[o] = channel[o]
    BY <1>7 DEF ReadActivities, Forward, StopForwarding, TypeInv, OpsOK, OpType, eventVars
  <2>3. QED
    BY <1>0, <1>2, <2>1, <2>2, Lowered
<1>8. CASE TakeEvent(o)
  <2>1. /\ op[o].pc = "relay" /\ op'[o].pc = "forward" /\ op[o].kind \in {"chat", "watch"}
        /\ op'[o].kind = op[o].kind /\ UNCHANGED exchange /\ channel[o].queue # <<>>
    BY <1>8 DEF TakeEvent, TypeInv, OpsOK, OpType
  <2>2. channel'[o] = [channel[o] EXCEPT !.queue = Tail(channel[o].queue)]
    BY <1>8 DEF TakeEvent, TypeInv, EventsTypes
  <2>3. channel'[o].feed = channel[o].feed /\ channel'[o].queue = Tail(channel[o].queue)
    BY <1>0, <2>2 DEF ChannelType
  <2>4. Len(channel'[o].queue) = Len(channel[o].queue) - 1 /\ Len(channel[o].queue) \in Nat
    BY <1>0, <2>1, <2>3, TailIs DEF ChannelType
  <2>5. /\ exchange.events \in Nat
        /\ op[o].kind = "chat" => channel[o].feed = "exchange"
    BY <1>0, <2>1 DEF Placed, ExchangeType
  <2>6. PICK x \in Int : /\ Awaited(o) = Len(channel[o].queue) + MostEvents - x
                         /\ Awaited(o)' = Len(channel'[o].queue) + MostEvents - x
    <3>1. CASE op[o].kind = "chat"
      BY <1>0, <2>1, <2>3, <2>5, <3>1 DEF Awaited, MostEvents
    <3>2. CASE op[o].kind = "watch"
      BY <1>0, <1>11, <2>1, <2>3, <3>2 DEF Awaited, MostEvents
    <3>3. QED
      BY <2>1, <3>1, <3>2
  <2>7. Awaited(o)' < Awaited(o)
    BY <1>0, <2>4, <2>6
  <2>8. /\ "relay" \in Labels /\ "forward" \in Labels /\ {"relay", "forward"} \subseteq Streaming
        /\ Ahead("forward") <= Ahead("relay") + 1
    BY DEF Ahead, Labels, Streaming
  <2>9. QED
    BY <1>0, <2>1, <2>7, <2>8, Lowered
<1>9. CASE CellSpeaks(o)
  <2>1. PICK from, to \in Labels :
           /\ op[o].pc = from /\ op'[o].pc = to
           /\ Ahead(to) <= Ahead(from) + 1 /\ {from, to} \subseteq Streaming
    BY <1>0, <1>9 DEF CellSpeaks, TypeInv, OpsOK, OpType, Ahead, Labels, Streaming
  <2>2. /\ op[o].kind = "cell" /\ op'[o].kind = "cell" /\ op'[o].spoken = op[o].spoken + 1
        /\ op[o].spoken \in Nat
    BY <1>0, <1>9 DEF CellSpeaks, TypeInv, OpsOK, OpType
  <2>3. Awaited(o)' < Awaited(o)
    BY <1>0, <2>2 DEF Awaited, MostEvents
  <2>4. QED
    BY <1>0, <2>1, <2>3, Lowered
<1>10. QED
  BY <1>3, <1>4, <1>5, <1>6, <1>7, <1>8, <1>9 DEF OperationStep, StreamStep, CellStep

\* Nobody else gives an operation a step back.
LEMMA AwaitedFalls ==
    ASSUME TypeInv, OpenInv, ReadersInv, [Next]_vars, NEW o \in Readers,
           UNCHANGED <<op[o].pc, op[o].kind, op[o].spoken>>, Awaited(o)' <= Awaited(o)
    PROVE  StepsLeft(o)' <= StepsLeft(o)
<1>1. Awaited(o) \in Nat /\ Awaited(o)' \in Nat /\ op[o].pc \in Labels
  BY AwaitedIsCountedNext DEF TypeInv, OpsOK, OpType
<1>2. Ahead(op[o].pc) \in 0..8
  BY <1>1, AheadType
<1>3. StepsLeft(o)' = Ahead(op[o].pc) + (IF op[o].pc \in Streaming THEN 2 * Awaited(o)' ELSE 0)
  BY DEF StepsLeft, Ahead, Streaming
<1>4. QED
  BY <1>1, <1>2, <1>3 DEF StepsLeft

LEMMA OtherStepKeeps ==
    ASSUME TypeInv, OpenInv, ReadersInv, [Next]_vars, NEW o \in Readers, OperationStep(o),
           NEW p \in Readers \ {o}
    PROVE  op'[p] = op[p] /\ StepsLeft(p)' <= StepsLeft(p)
<1>1. /\ op'[p] = op[p] /\ channel'[p] = channel[p] /\ announced' = announced
      /\ UNCHANGED exchange \/ BeginExchange
  BY OthersRead
<1>2. Attended(channel[p], exchange, announced) /\ Awaited(p) \in Nat
  BY AwaitedIsCountedNext DEF ReadersInv
<1>3. channel[p].feed = "exchange" => UNCHANGED exchange
  BY <1>1, <1>2 DEF BeginExchange, Attended
<1>4. Awaited(p)' = Awaited(p)
  BY <1>1, <1>3 DEF Awaited, MostEvents
<1>5. QED
  BY <1>1, <1>2, <1>4, AwaitedFalls

LEMMA ExchangeStepKeeps ==
    ASSUME TypeInv, OpenInv, ReadersInv, [Next]_vars, NEW o \in Readers, ExchangeStep
    PROVE  op' = op /\ StepsLeft(o)' <= StepsLeft(o)
<1>1. op' = op
  BY DEF ExchangeStep, sessionVars
<1>2. /\ channel'[o].feed = channel[o].feed /\ Len(channel'[o].queue) \in Nat
      /\ channel[o].feed = "exchange" =>
            Len(channel'[o].queue) - exchange'.events
               <= Len(channel[o].queue) - exchange.events
      /\ channel[o].feed = "activity" =>
            Len(channel'[o].queue) - announced' <= Len(channel[o].queue) - announced
  BY TheyAttend
<1>3. /\ Placed(o) /\ Attended(channel[o], exchange, announced) /\ op[o].kind \in Kinds
      /\ exchange.events \in Nat /\ announced \in Nat /\ Len(channel[o].queue) \in Nat
      /\ channel[o].feed \in {"none", "exchange", "activity"}
  BY DEF ReadersInv, TypeInv, OpsOK, OpType, EventsTypes, ExchangeType, ChannelType
<1>4. exchange'.events \in Nat /\ announced' \in Nat /\ MostEvents \in Nat
  BY NextTypes, BuffersAssumption DEF TypeInv, EventsTypes, ExchangeType, MostEvents
<1>5. Awaited(o)' <= Awaited(o)
  <2>0. \A a, b, c, d, m \in Nat : a - b <= c - d => a + m - b <= c + m - d
    OBVIOUS
  <2>1. CASE op[o].kind = "chat" /\ channel[o].feed = "exchange"
    <3>1. /\ Awaited(o) = Len(channel[o].queue) + MostEvents - exchange.events
          /\ Awaited(o)' = Len(channel'[o].queue) + MostEvents - exchange'.events
      BY <1>1, <1>2, <2>1 DEF Awaited, MostEvents
    <3>2. QED
      <4>1. Len(channel'[o].queue) - exchange'.events <= Len(channel[o].queue) - exchange.events
        BY <1>2, <2>1
      <4>2. /\ Len(channel'[o].queue) \in Nat /\ Len(channel[o].queue) \in Nat
            /\ exchange'.events \in Nat /\ exchange.events \in Nat /\ MostEvents \in Nat
        BY <1>2, <1>3, <1>4
      <4>3. Len(channel'[o].queue) + MostEvents - exchange'.events
               <= Len(channel[o].queue) + MostEvents - exchange.events
        BY <2>0, <4>1, <4>2, ZenonT(30)
      <4>4. QED
        BY <3>1, <4>3
  <2>2. CASE op[o].kind = "watch" /\ channel[o].feed = "activity"
    <3>1. /\ Awaited(o) = Len(channel[o].queue) + MostEvents - announced
          /\ Awaited(o)' = Len(channel'[o].queue) + MostEvents - announced'
      BY <1>1, <2>2 DEF Awaited, MostEvents
    <3>2. QED
      <4>1. Len(channel'[o].queue) - announced' <= Len(channel[o].queue) - announced
        BY <1>2, <2>2
      <4>2. /\ Len(channel'[o].queue) \in Nat /\ Len(channel[o].queue) \in Nat
            /\ announced' \in Nat /\ announced \in Nat /\ MostEvents \in Nat
        BY <1>2, <1>3, <1>4
      <4>3. Len(channel'[o].queue) + MostEvents - announced'
               <= Len(channel[o].queue) + MostEvents - announced
        BY <2>0, <4>1, <4>2, ZenonT(30)
      <4>4. QED
        BY <3>1, <4>3
  <2>3. CASE op[o].kind = "watch" /\ channel[o].feed = "none"
    <3>1. channel'[o].feed = "none" /\ Attended(channel[o], exchange, announced)'
      BY <1>2, <2>3, TheyAttend
    <3>2. Len(channel[o].queue) = 0 /\ Len(channel'[o].queue) = 0
      BY <1>3, <2>3, <3>1 DEF Attended
    <3>3. announced <= announced'
      BY <1>3 DEF ExchangeStep, Publish, Announce, CloseExchange
    <3>4. /\ Awaited(o) = Len(channel[o].queue) + MostEvents - announced
          /\ Awaited(o)' = Len(channel'[o].queue) + MostEvents - announced'
      BY <1>1, <2>3 DEF Awaited, MostEvents
    <3>5. /\ Awaited(o) = 0 + MostEvents - announced
          /\ Awaited(o)' = 0 + MostEvents - announced'
      BY <3>2, <3>4, Zenon
    <3>6. announced \in Nat /\ announced' \in Nat /\ MostEvents \in Nat
      BY <1>3, <1>4
    <3>7. \A m, x, y \in Nat : x <= y => 0 + m - y <= 0 + m - x
      OBVIOUS
    <3>8. 0 + MostEvents - announced' <= 0 + MostEvents - announced
      BY <3>3, <3>6, <3>7, ZenonT(30)
    <3>9. QED
      BY <3>5, <3>8
  <2>4. CASE op[o].kind = "chat" /\ channel[o].feed # "exchange"
    <3>1. Awaited(o) = MostEvents /\ Awaited(o)' = MostEvents
      BY <1>1, <1>2, <2>4 DEF Awaited, MostEvents
    <3>2. QED
      BY <1>4, <3>1
  <2>5. CASE op[o].kind \in {"read", "cell"}
    <3>1. Awaited(o)' = Awaited(o)
      BY <1>1, <2>5 DEF Awaited, MostEvents
    <3>2. QED
      BY <3>1, AwaitedIsCounted
  <2>6. QED
    BY <1>3, <2>1, <2>2, <2>3, <2>4, <2>5 DEF Kinds, Placed
<1>6. QED
  BY <1>1, <1>5, AwaitedFalls

LEMMA ClientStepKeeps ==
    ASSUME TypeInv, OpenInv, ReadersInv, [Next]_vars, NEW o \in Readers, ClientStep
    PROVE  /\ StepsLeft(o)' <= StepsLeft(o)
           /\ op'[o].pc # op[o].pc => StepsLeft(o)' < StepsLeft(o)
<1>1. UNCHANGED <<exchange, announced>>
  BY DEF ClientStep, Request, RequestAgain, CancelOperation, Answer, ReadEnds, eventVars
<1>2. Awaited(o) \in Nat /\ Awaited(o)' \in Nat
  BY AwaitedIsCountedNext
<1>3. CASE Request(o)
  <2>1. /\ op[o].pc = "none" /\ op'[o].pc = "begin"
        /\ op'[o].kind = op[o].kind /\ op'[o].spoken = op[o].spoken
    BY <1>3 DEF Request, TypeInv, OpsOK, OpType
  <2>2. Awaited(o)' <= Awaited(o)
    <3>1. CASE op[o].kind = "watch"
      <4>1. channel'[o] = NewChannel("activity", <<>>, watcherBuffer, FALSE)
        BY <1>3, <3>1 DEF Request, Watch, TypeInv, EventsTypes
      <4>2. Len(channel'[o].queue) = 0
        BY <4>1 DEF NewChannel
      <4>3. /\ Awaited(o) = Len(channel[o].queue) + MostEvents - announced
            /\ Awaited(o)' = Len(channel'[o].queue) + MostEvents - announced
        BY <1>1, <2>1, <3>1 DEF Awaited, MostEvents
      <4>4. Len(channel[o].queue) \in Nat /\ MostEvents \in Nat /\ announced \in Nat
        BY BuffersAssumption DEF TypeInv, EventsTypes, ChannelType, MostEvents
      <4>5. QED
        BY <4>2, <4>3, <4>4
    <3>2. CASE op[o].kind # "watch"
      <4>1. channel' = channel
        BY <1>3, <3>2 DEF Request
      <4>2. Awaited(o)' = Awaited(o)
        BY <1>1, <2>1, <4>1 DEF Awaited, MostEvents
      <4>3. QED
        BY <1>2, <4>2
    <3>3. QED
      BY <3>1, <3>2
  <2>3. /\ "none" \in Labels /\ "begin" \in Labels /\ "none" \in Streaming
        /\ Ahead("begin") < Ahead("none")
    BY DEF Ahead, Labels, Streaming
  <2>4. StepsLeft(o)' < StepsLeft(o)
    BY <1>2, <2>1, <2>2, <2>3, Lowered
  <2>5. StepsLeft(o) \in Nat /\ StepsLeft(o)' \in Nat
    <3>1. Ahead("none") \in 0..8 /\ Ahead("begin") \in 0..8 /\ "begin" \in Streaming
      BY DEF Ahead, Streaming
    <3>2. StepsLeft(o)' = Ahead("begin") + 2 * Awaited(o)'
      BY <2>1, <3>1 DEF StepsLeft, Ahead, Streaming
    <3>3. QED
      BY <1>2, <2>1, <2>3, <3>1, <3>2 DEF StepsLeft
  <2>6. QED
    BY <2>4, <2>5
<1>4. CASE ~Request(o)
  <2>1. channel'[o] = channel[o]
    BY <1>4 DEF ClientStep, Request, Watch, RequestAgain, CancelOperation, Answer, ReadEnds,
       eventVars, TypeInv, EventsTypes
  <2>2. \/ op' = op \/ \E p \in Readers \ {o} : op' = [op EXCEPT ![p].pc = "begin"]
        \/ \E p \in Readers : op' = [op EXCEPT ![p].cancelled = TRUE]
    BY <1>4 DEF ClientStep, Request, RequestAgain, CancelOperation, Answer, ReadEnds
  <2>3. UNCHANGED <<op[o].pc, op[o].kind, op[o].spoken>>
    <3>1. CASE op' = op
      BY <3>1
    <3>2. CASE \E p \in Readers \ {o} : op' = [op EXCEPT ![p].pc = "begin"]
      BY <3>2 DEF TypeInv, OpsOK
    <3>3. CASE \E p \in Readers : op' = [op EXCEPT ![p].cancelled = TRUE]
      BY <3>3 DEF TypeInv, OpsOK, OpType
    <3>4. QED
      BY <2>2, <3>1, <3>2, <3>3
  <2>4. Awaited(o)' = Awaited(o)
    BY <1>1, <2>1, <2>3 DEF Awaited, MostEvents
  <2>5. QED
    BY <1>2, <2>3, <2>4, AwaitedFalls
<1>5. QED
  BY <1>3, <1>4

LEMMA ConnectionStepKeeps ==
    ASSUME TypeInv, OpenInv, ReadersInv, [Next]_vars, NEW o \in Readers,
           WriterStep \/ ServeStep \/ UNCHANGED vars
    PROVE  op' = op /\ StepsLeft(o)' <= StepsLeft(o)
<1>1. UNCHANGED <<exchange, announced, channel, op>>
  BY DEF WriterStep, ServeStep, Write, WriteFails, WriterEnds, CloseOutbound, CloseConnection,
     eventVars, vars
<1>2. Awaited(o)' = Awaited(o) /\ Awaited(o) \in Nat
  BY <1>1, AwaitedIsCountedNext DEF Awaited, MostEvents
<1>3. QED
  BY <1>1, <1>2, AwaitedFalls

LEMMA StepRunsOut ==
    TypeInv /\ OpenInv /\ ReadersInv /\ [Next]_vars => StepsRunOut
<1>1. SUFFICES ASSUME TypeInv, OpenInv, ReadersInv, [Next]_vars, NEW o \in Readers
               PROVE  /\ StepsLeft(o)' <= StepsLeft(o)
                      /\ OperationStep(o) \/ op'[o].pc # op[o].pc
                            => StepsLeft(o)' < StepsLeft(o)
  BY DEF StepsRunOut
<1>2. StepsLeft(o) \in Int /\ StepsLeft(o)' \in Int
  <2>1. StepsAreLimited
    BY <1>1, StepsLimited
  <2>2. (TypeInv /\ ReadersInv => StepsAreLimited)'
    BY StepsLimited, PTL
  <2>3. StepsAreLimited'
    BY <1>1, <2>2, NextTypes, ReadersStep
  <2>4. MostSteps \in Nat /\ MostSteps' = MostSteps
    BY BuffersAssumption DEF MostSteps, MostEvents
  <2>5. QED
    BY <1>1, <2>1, <2>3, <2>4 DEF StepsAreLimited
<1>3. CASE OperationStep(o)
  BY <1>1, <1>2, <1>3, OwnStepLowers
<1>4. CASE ~OperationStep(o) /\ \E q \in Readers : OperationStep(q)
  <2>1. PICK q \in Readers \ {o} : OperationStep(q)
    BY <1>4
  <2>2. op'[o] = op[o] /\ StepsLeft(o)' <= StepsLeft(o)
    BY <1>1, <2>1, OtherStepKeeps
  <2>3. QED
    BY <1>4, <2>2
<1>5. CASE ~OperationStep(o) /\ ClientStep
  BY <1>1, <1>5, ClientStepKeeps
<1>6. CASE ~OperationStep(o) /\ ExchangeStep
  BY <1>1, <1>6, ExchangeStepKeeps
<1>7. CASE ~OperationStep(o) /\ (WriterStep \/ ServeStep \/ UNCHANGED vars)
  BY <1>1, <1>7, ConnectionStepKeeps
<1>8. QED
  BY <1>1, <1>3, <1>4, <1>5, <1>6, <1>7 DEF Next

\* No operation takes more steps than its stream has events for, whatever the client, the
\* writer, the exchange and the other operations do meanwhile: each of its steps leaves it
\* fewer, the history that Subscribe replays and the snapshot of a watch included, and
\* nobody gives it one back (ws.go:460-503, ws_chat.go:229-258, 384-440,
\* ws_kernel.go:91-160).
THEOREM OperationsRunOut == Spec => []StepsAreLimited /\ [][StepsRunOut]_vars
<1> DEFINE Inv == TypeInv /\ OpenInv /\ ReadersInv
<1>1. Init => Inv
  BY InitTypes, InitOpen, ReadersBegin
<1>2. Inv /\ [Next]_vars => Inv' /\ StepsRunOut
  BY NextTypes, NextOpen, ReadersStep, StepRunsOut
<1>3. Inv => StepsAreLimited
  BY StepsLimited
<1>4. QED
  BY <1>1, <1>2, <1>3, PTL DEF Spec
=============================================================================
