--------------------------- MODULE Interpret_proofs ---------------------------
(***************************************************************************)
(* Proofs about Interpret, for any runs, readers, sockets and limits: its    *)
(* types; that a record, a kept summary and what the assistant is shown say  *)
(* of a run what is true of it; that a summary is put into the conversation  *)
(* once; that a run is let go of for a reason; that a settled record comes   *)
(* back only by an answer heard before its run ended; and that no run is     *)
(* tried, no pass goes on and no tick lasts for ever.                        *)
(***************************************************************************)
EXTENDS Interpret, Experiments_proofs, SequenceTheorems, FiniteSetTheorems,
        WellFoundedInduction

\* Delivery refreshes an item's run, whose job is over.
GradeInv ==
    LET x == refresh[Delivery]
    IN  x.pc # "idle" =>
          /\ delivery.pc = "grade" /\ x.run = delivery.run
          /\ x.pc \in {"ask", "mlflow", "put", "settle"} => Over(x.run)
          /\ x.pc \in {"put", "settle", "results"} => x.status \in Ended
          /\ x.status # "none" /\ x.pc = "answered" => x.status \in Ended

\* What is held of a run is true of it.
HeldInv(r) ==
    /\ held[r].in => /\ Said(r) /\ Sure(r)
                     /\ held[r].status \in Ended /\ Settles(r, held[r].status)
    /\ held[r].summary # "none" => held[r].in /\ Tells(r, held[r].summary)

\* The items a pass is still to look at are held, and so is the one it looks at.
WithItem == {"session", "grade", "read", "send", "continue", "wait", "reread"}

PassInv ==
    /\ delivery.todo \subseteq Pending
    /\ delivery.pc \in WithItem =>
          /\ delivery.run \in Pending \ delivery.todo
          /\ held[delivery.run].summary # "none"
    /\ delivery.pc \in WithItem \ {"session", "grade"} =>
          delivery.summary \in Ended /\ Tells(delivery.run, delivery.summary)
    /\ delivery.pc = "send" => ~Injected(delivery.run)

MessagesInv ==
    \A i \in DOMAIN chat.messages : chat.messages[i].about # 0 =>
        /\ Said(chat.messages[i].about)
        /\ chat.messages[i].status \in Ended
        /\ Tells(chat.messages[i].about, chat.messages[i].status)

TruthInv ==
    /\ ExperimentsInv /\ GradeInv /\ (\A r \in Runs : HeldInv(r)) /\ PassInv
    /\ MessagesInv /\ InjectedOnce

HeldType == [in : BOOLEAN, status : {"none"} \union Ended,
             summary : {"none"} \union Ended,
             attempts : Nat, silent : 0..(maxSilentTurns - 1)]

Message == [about : Runs \union {0}, status : Statuses]

ChatType == [messages : Seq(Message), gone : BOOLEAN,
             turn : {"none", "developer", "delivery"}, for : Runs \union {0},
             spoke : BOOLEAN, unread : [Runs -> 0..maxSilentTurns]]

DeliveryType == [pc : {"idle", "summarise", "deliver", "session", "grade", "read",
                       "send", "continue", "wait", "reread"},
                 todo : SUBSET Runs, run : Runs \union {0}, summary : Statuses]

-----------------------------------------------------------------------------
LEMMA InterpretTypes ==
    TypeOK <=> /\ ExperimentsTypeOK
               /\ held \in [Runs -> HeldType]
               /\ interpreted \subseteq Runs /\ presence \subseteq Connections
               /\ chat \in ChatType
               /\ delivery \in DeliveryType
BY DEF TypeOK, HeldType, Message, ChatType, DeliveryType

\* The ways an item's turn ends: the item goes, or stays as it was but for its counts.
LEMMA ItemEnds ==
    ASSUME TypeOK, NEW r \in Runs, r \in Pending,
           Retire(r) \/ Refused(r) \/ Silent(r)
    PROVE  /\ held' \in [Runs -> HeldType]
           /\ \A q \in Runs \ {r} : held'[q] = held[q]
           /\ \/ held'[r] = NotHeld
              \/ /\ held'[r].in = held[r].in
                 /\ held'[r].status = held[r].status
                 /\ held'[r].summary = held[r].summary
           /\ interpreted' \subseteq Runs
           /\ delivery' = [delivery EXCEPT !.pc = "deliver", !.run = 0,
                                           !.summary = "none"]
<1>1. held \in [Runs -> HeldType] /\ interpreted \subseteq Runs
  BY InterpretTypes
<1>2. NotHeld \in HeldType
  BY InterpretAssumption DEF NotHeld, HeldType
<1>3. CASE Retire(r)
  BY <1>1, <1>2, <1>3 DEF Retire, NextItem
<1>4. CASE Refused(r)
  <2>1. CASE held[r].attempts + 1 >= MaxAttempts
    BY <1>1, <1>2, <1>4, <2>1 DEF Refused, NextItem
  <2>2. CASE ~(held[r].attempts + 1 >= MaxAttempts)
    <3>1. held' = [held EXCEPT ![r].attempts = @ + 1]
      BY <1>4, <2>2 DEF Refused
    <3>2. QED
      BY <1>1, <1>4, <3>1 DEF Refused, NextItem, HeldType
  <2>3. QED
    BY <2>1, <2>2
<1>5. CASE Silent(r) /\ ~Retire(r)
  <2>1. /\ held' = [held EXCEPT ![r].silent = @ + 1, ![r].attempts = @ + 1]
        /\ held[r].silent + 1 < maxSilentTurns
        /\ UNCHANGED interpreted /\ NextItem
    BY <1>1, <1>5, InterpretAssumption DEF Silent, HeldType
  <2>2. QED
    BY <1>1, <2>1, InterpretAssumption DEF NextItem, HeldType
<1>6. QED
  BY <1>3, <1>4, <1>5

-----------------------------------------------------------------------------
(* Delivery's refresh.                                                      *)

LEMMA GradeSteady ==
    ASSUME Steady, RefreshInv(Delivery), GradeInv,
           UNCHANGED refresh[Delivery], UNCHANGED delivery
    PROVE  GradeInv'
BY DEF GradeInv, RefreshInv, Steady

LEMMA DeliveryIsAnActor == Delivery \in Actors /\ Delivery # Poller /\ Delivery \notin Readers
BY ReadersAssumption DEF Actors, Delivery, Poller

\* A run that ended is not found open again.
LEMMA GradeKeeps ==
    ASSUME ExperimentsTypeOK, ExperimentsInv, GradeInv, RefreshStep(Delivery),
           UNCHANGED delivery
    PROVE  GradeInv'
<1>1. /\ run \in [Runs -> RunType] /\ refresh \in [Actors -> RefreshType]
      /\ left \in LeftType /\ Delivery \in Actors
      /\ \A q \in Runs : RunInv(q)
      /\ RefreshInv(Delivery)
  BY TypesUnfold, DeliveryIsAnActor DEF ExperimentsInv, RunsFit
<1>2. refresh[Delivery].pc # "idle"
  BY DEF RefreshStep, AskRay, SettleForgotten, PutRecord, Results
<1>3. PICK r \in Runs, status \in Statuses :
         refresh[Delivery].run = r /\ refresh[Delivery].status = status
  BY <1>1, <1>2 DEF RefreshInv, RefreshType
<1>4. /\ delivery.pc = "grade" /\ delivery.run = r /\ Said(r) /\ Steady /\ delivery' = delivery
      /\ refresh[Delivery].pc \in {"ask", "mlflow", "put", "settle"} => Over(r)
      /\ refresh[Delivery].pc \in {"put", "settle", "results"} => status \in Ended
      /\ status \in Ended => Settles(r, status)
  BY <1>1, <1>2, <1>3, RefreshEffect
     DEF GradeInv, RefreshInv, RefreshStep, AskRay, SettleForgotten, PutRecord, Results
<1>5. Over(r) => Over(r)'
  BY <1>4 DEF Steady
<1>6. ASSUME NEW word \in Ended \union {"none"}, Reply(Delivery, word) PROVE GradeInv'
  <2>1. word \in Statuses
    BY DEF Statuses
  <2>2. \/ refresh'[Delivery] = NoRefresh
        \/ /\ refresh'[Delivery].pc = "answered"
           /\ refresh'[Delivery].status = word
           /\ refresh'[Delivery].run = r
    BY <1>1, <1>3, <1>6, <2>1, ReplyEffect
  <2>3. QED
    BY <1>4, <2>2 DEF GradeInv, NoRefresh
<1>7. CASE AskRay(Delivery)
  <2>1. CASE Reply(Delivery, "none")
    BY <1>6, <2>1
  <2>2. CASE refresh' = [refresh EXCEPT ![Delivery].pc = "mlflow"]
    <3>1. refresh'[Delivery].pc = "mlflow" /\ refresh'[Delivery].run = r
      BY <1>1, <1>3, <2>2 DEF RefreshType
    <3>2. QED
      BY <1>4, <1>5, <1>7, <3>1 DEF GradeInv, AskRay
  <2>3. CASE run[r].known /\ refresh' = [refresh EXCEPT ![Delivery].pc = "put",
                                                       ![Delivery].status = run[r].ray]
    <3>1. /\ refresh'[Delivery].pc = "put" /\ refresh'[Delivery].run = r
          /\ refresh'[Delivery].status = run[r].ray
      BY <1>1, <1>3, <2>3 DEF RefreshType
    <3>2. run[r].ray \in Ended /\ Over(r)
      BY <1>4, <1>7, <2>3 DEF AskRay, Over
    <3>3. QED
      BY <1>4, <1>5, <3>1, <3>2 DEF GradeInv
  <2>4. QED
    BY <1>3, <1>7, <2>1, <2>2, <2>3 DEF AskRay
<1>8. CASE SettleForgotten(Delivery)
  <2>1. PICK word \in Ended :
           refresh' = [refresh EXCEPT ![Delivery].pc = "settle", ![Delivery].status = word]
    BY <1>8 DEF SettleForgotten, Settled, Ended
  <2>2. /\ refresh'[Delivery].pc = "settle" /\ refresh'[Delivery].run = r
        /\ refresh'[Delivery].status = word
    BY <1>1, <1>3, <2>1 DEF RefreshType
  <2>3. QED
    BY <1>4, <1>5, <1>8, <2>2 DEF GradeInv, SettleForgotten
<1>9. CASE PutRecord(Delivery)
  <2>1. status \in Ended
    BY <1>4, <1>9 DEF PutRecord
  <2>2. CASE Refreshed(Delivery, status)
    <3>1. \/ refresh'[Delivery] = NoRefresh
          \/ /\ refresh'[Delivery].pc \in {"answered", "results"}
             /\ refresh'[Delivery].status = status
             /\ refresh'[Delivery].run = r
      BY <1>1, <1>3, <2>2, RefreshedEffect
    <3>2. QED
      BY <1>4, <2>1, <3>1 DEF GradeInv, NoRefresh
  <2>3. CASE Reply(Delivery, "none")
    BY <1>6, <2>3
  <2>4. QED
    BY <1>3, <1>9, <2>2, <2>3 DEF PutRecord
<1>10. CASE Results(Delivery)
  <2>1. status \in Ended
    BY <1>4, <1>10 DEF Results
  <2>2. Reconciled(r, status) \in Ended
    BY <1>1, <1>4, <2>1, ReconciledTells
  <2>3. run[r].kept \in Ended \union {"none"}
    BY <1>1 DEF RunType
  <2>4. QED
    BY <1>3, <1>6, <1>10, <2>2, <2>3 DEF Results
<1>11. QED
  BY <1>7, <1>8, <1>9, <1>10 DEF RefreshStep

-----------------------------------------------------------------------------
(* Steps that keep what the service has.                                    *)

LEMMA SteadyHeld ==
    ASSUME TypeOK, Steady, NEW r \in Runs, HeldInv(r), UNCHANGED held[r]
    PROVE  HeldInv(r)'
<1>1. held[r].summary \in {"none"} \union Ended
  BY InterpretTypes DEF HeldType
<1>2. QED
  BY <1>1 DEF HeldInv, Steady

LEMMA MessagesAre ==
    ASSUME chat \in ChatType
    PROVE  \A i \in DOMAIN chat.messages :
              /\ chat.messages[i] \in Message
              /\ chat.messages[i].about \in Runs \union {0}
<1>1. chat.messages \in Seq(Message)
  BY DEF ChatType
<1>2. \A i \in DOMAIN chat.messages : chat.messages[i] \in Message
  BY <1>1
<1>3. \A m \in Message : m.about \in Runs \union {0}
  BY DEF Message
<1>4. QED
  BY <1>2, <1>3

LEMMA SteadyMessages ==
    ASSUME TypeOK, Steady, MessagesInv, InjectedOnce, UNCHANGED chat.messages
    PROVE  MessagesInv' /\ InjectedOnce'
<1>1. \A i \in DOMAIN chat.messages : chat.messages[i].about \in Runs \union {0}
  BY InterpretTypes, MessagesAre
<1>2. QED
  BY <1>1 DEF MessagesInv, InjectedOnce, Steady

LEMMA SteadyPass ==
    ASSUME TypeOK, Steady, \A r \in Runs : HeldInv(r), PassInv,
           UNCHANGED <<held, delivery, chat.messages>>
    PROVE  PassInv'
<1>1. Pending' = Pending /\ Pending \subseteq Runs
  BY DEF Pending
<1>2. delivery.pc \in WithItem => Said(delivery.run) /\ delivery.run \in Runs
  BY <1>1 DEF PassInv, HeldInv, Pending
<1>3. Injected(delivery.run)' = Injected(delivery.run)
  BY DEF Injected, Summaries
<1>4. QED
  BY <1>1, <1>2, <1>3 DEF PassInv, Steady, WithItem

LEMMA ExperimentsKeepTruth ==
    ASSUME TypeOK, TruthInv, ExperimentsStep, UNCHANGED interpretVars
    PROVE  TypeOK' /\ TruthInv'
<1>1. /\ ExperimentsTypeOK' /\ ExperimentsInv' /\ Steady
      /\ refresh'[Delivery] = refresh[Delivery]
  BY ExperimentsKeep DEF TypeOK, TruthInv
<1>2. TypeOK'
  BY <1>1 DEF TypeOK, interpretVars
<1>3. GradeInv'
  BY <1>1, DeliveryIsAnActor, GradeSteady DEF TruthInv, ExperimentsInv, interpretVars
<1>4. (\A r \in Runs : HeldInv(r))' /\ PassInv' /\ MessagesInv' /\ InjectedOnce'
  BY <1>1, SteadyHeld, SteadyPass, SteadyMessages DEF TruthInv, interpretVars
<1>5. QED
  BY <1>1, <1>2, <1>3, <1>4 DEF TruthInv

LEMMA RefreshKeepsTruth ==
    ASSUME TypeOK, TruthInv, RefreshStep(Delivery), UNCHANGED interpretVars
    PROVE  TypeOK' /\ TruthInv'
<1>1. /\ RunsFit'
      /\ Steady /\ \A q \in Runs : RunInv(q)'
      /\ refresh' \in [Actors -> RefreshType]
      /\ \A b \in Actors \ {Delivery} : refresh'[b] = refresh[b]
      /\ RefreshInv(Delivery)'
      /\ left' \in LeftType
      /\ UNCHANGED poller
  BY RefreshEffect, DeliveryIsAnActor DEF TypeOK, TruthInv, ExperimentsInv
<1>2. ExperimentsTypeOK' /\ ExperimentsInv'
  BY <1>1, OneActorMoves, DeliveryIsAnActor DEF TypeOK, TruthInv
<1>3. TypeOK'
  BY <1>2 DEF TypeOK, interpretVars
<1>4. GradeInv'
  BY GradeKeeps DEF TypeOK, TruthInv, interpretVars
<1>5. (\A r \in Runs : HeldInv(r))' /\ PassInv' /\ MessagesInv' /\ InjectedOnce'
  BY <1>1, SteadyHeld, SteadyPass, SteadyMessages DEF TruthInv, interpretVars
<1>6. QED
  BY <1>2, <1>3, <1>4, <1>5 DEF TruthInv

-----------------------------------------------------------------------------
(* The steps of the service.                                                *)

\* What a step of the service leaves of the experiments.
LEMMA ExperimentsSame ==
    ASSUME ExperimentsTypeOK, ExperimentsInv, left' \in LeftType,
           UNCHANGED <<run, refresh, poller>>
    PROVE  ExperimentsTypeOK' /\ ExperimentsInv' /\ Steady
<1>1. RefreshInv(Delivery)'
  BY DeliveryIsAnActor DEF ExperimentsInv, RefreshInv, Said, Over, Claims, Tells, Settles, Settled
<1>2. Steady /\ \A r \in Runs : RunInv(r)'
  BY SameRuns DEF ExperimentsInv
<1>3. QED
  BY <1>1, <1>2, TypesUnfold, SameLatest, OneActorMoves, DeliveryIsAnActor

\* An item's turn is over: what is held is as true as it was, and the pass goes on.
LEMMA ItemOver ==
    ASSUME TypeOK, TruthInv, delivery.pc \in WithItem \ {"grade"},
           Retire(delivery.run) \/ Refused(delivery.run) \/ Silent(delivery.run),
           UNCHANGED <<run, refresh>>
    PROVE  /\ held' \in [Runs -> HeldType]
           /\ interpreted' \subseteq Runs
           /\ delivery' \in DeliveryType
           /\ (\A r \in Runs : HeldInv(r))'
           /\ PassInv' /\ GradeInv'
<1> DEFINE r == delivery.run
<1>1. r \in Runs /\ r \in Pending /\ r \notin delivery.todo /\ delivery.todo \subseteq Pending
  BY DEF TruthInv, PassInv, Pending
<1>2. /\ held' \in [Runs -> HeldType]
      /\ \A q \in Runs \ {r} : held'[q] = held[q]
      /\ \/ held'[r] = NotHeld
         \/ /\ held'[r].in = held[r].in
            /\ held'[r].status = held[r].status
            /\ held'[r].summary = held[r].summary
      /\ interpreted' \subseteq Runs
      /\ delivery' = [delivery EXCEPT !.pc = "deliver", !.run = 0, !.summary = "none"]
  BY <1>1, ItemEnds
<1>3. /\ delivery' \in DeliveryType /\ delivery'.pc = "deliver"
      /\ delivery'.todo = delivery.todo
  BY <1>2, InterpretTypes DEF DeliveryType, Statuses
<1>4. ASSUME NEW q \in Runs PROVE HeldInv(q)'
  <2>1. HeldInv(q) /\ Steady
    BY SameRuns DEF TruthInv
  <2>2. CASE q # r
    BY <1>2, <2>1, <2>2, SteadyHeld
  <2>3. CASE q = r /\ held'[r] = NotHeld
    BY <2>3 DEF HeldInv, NotHeld
  <2>4. CASE q = r /\ /\ held'[r].in = held[r].in
                      /\ held'[r].status = held[r].status
                      /\ held'[r].summary = held[r].summary
    <3>1. PICK in, status, summary : /\ held[q].in = in /\ held'[q].in = in
                                     /\ held[q].status = status /\ held'[q].status = status
                                     /\ held[q].summary = summary
                                     /\ held'[q].summary = summary
      BY <2>4
    <3>2. QED
      BY <2>1, <3>1 DEF HeldInv, Said, Sure, Over, Tells, Settles, Settled
  <2>5. QED
    BY <1>2, <2>2, <2>3, <2>4
<1>5. PassInv'
  BY <1>1, <1>2, <1>3 DEF PassInv, Pending, WithItem
<1>6. GradeInv'
  <2>1. refresh[Delivery].pc = "idle"
    BY DEF TruthInv, GradeInv, WithItem
  <2>2. QED
    BY <2>1 DEF GradeInv
<1>7. QED
  BY <1>2, <1>3, <1>4, <1>5, <1>6

LEMMA Fits ==
    ASSUME ExperimentsTypeOK, UNCHANGED <<run, refresh, left>>,
           \/ poller' \in [pc : {"settle"}, todo : SUBSET Runs]
           \/ poller' \in [pc : {"offer"}, todo : SUBSET (Runs \X Ended)]
    PROVE  ExperimentsTypeOK'
BY DEF ExperimentsTypeOK, Latest

LEMMA RunFinishedKeepsTruth ==
    ASSUME TypeOK, TruthInv, RunFinished PROVE TypeOK' /\ TruthInv'
<1>1. /\ poller.pc = "offer" /\ poller.todo \subseteq Runs \X Ended
      /\ UNCHANGED <<run, refresh, left, interpreted, presence, chat, delivery>>
  BY DEF RunFinished, TypeOK, ExperimentsTypeOK
<1>2. PICK r \in Runs, status \in Ended :
         /\ <<r, status>> \in poller.todo
         /\ poller' = [poller EXCEPT !.todo = @ \ {<<r, status>>}]
         /\ \/ held' = held
            \/ /\ r \notin Pending
               /\ held' = [held EXCEPT ![r] = [NotHeld EXCEPT !.in = TRUE,
                                                             !.status = status]]
  <2>1. PICK x \in poller.todo :
           /\ poller' = [poller EXCEPT !.todo = @ \ {x}]
           /\ held' = IF x[1] \in interpreted \union Pending
                         \/ Cardinality(Pending) >= MaxPending
                      THEN held
                      ELSE [held EXCEPT ![x[1]] = [NotHeld EXCEPT !.in = TRUE,
                                                                  !.status = x[2]]]
    BY DEF RunFinished
  <2>2. PICK r \in Runs, status \in Ended : x = <<r, status>>
    BY <1>1, <2>1
  <2>3. x[1] = r /\ x[2] = status
    BY <2>2
  <2>4. QED
    BY <2>1, <2>2, <2>3
<1>3. Said(r) /\ Settles(r, status) /\ Sure(r)
  <2>1. PollerInv
    BY DEF TruthInv, ExperimentsInv
  <2>2. QED
    BY <1>1, <1>2, <2>1 DEF PollerInv
<1>4. held \in [Runs -> HeldType]
  BY InterpretTypes
<1> DEFINE new == [NotHeld EXCEPT !.in = TRUE, !.status = status]
<1>5. /\ new \in HeldType /\ new.in = TRUE /\ new.status = status /\ new.summary = "none"
  <2>1. NotHeld \in HeldType /\ NotHeld.summary = "none"
    BY InterpretAssumption DEF NotHeld, HeldType
  <2>2. QED
    BY <2>1 DEF HeldType
<1>6. /\ held' \in [Runs -> HeldType]
      /\ \A q \in Runs \ {r} : held'[q] = held[q]
      /\ held'[r] = held[r] \/ (r \notin Pending /\ held'[r] = new)
  BY <1>2, <1>4, <1>5
<1> HIDE DEF new
<1>7. ExperimentsTypeOK'
  <2>1. poller' \in [pc : {"offer"}, todo : SUBSET (Runs \X Ended)]
    BY <1>1, <1>2 DEF TypeOK, ExperimentsTypeOK
  <2>2. QED
    BY <1>1, <2>1, Fits DEF TypeOK
<1>8. ExperimentsInv'
  <2>1. PollerInv'
    <3>1. poller'.pc = "offer" /\ poller'.todo \subseteq poller.todo
      BY <1>1, <1>2 DEF TypeOK, ExperimentsTypeOK
    <3>2. \A x \in poller.todo : Said(x[1]) /\ Settles(x[1], x[2]) /\ Sure(x[1])
      BY <1>1 DEF TruthInv, ExperimentsInv, PollerInv
    <3>3. ASSUME NEW x \in poller'.todo
          PROVE  (Said(x[1]) /\ Settles(x[1], x[2]) /\ Sure(x[1]))'
      BY <1>1, <3>1, <3>2, <3>3 DEF Said, Sure, Over, Settles, Settled
    <3>4. QED
      BY <3>1, <3>3 DEF PollerInv
  <2>2. \A a \in Actors : RefreshInv(a)'
    BY <1>1 DEF TruthInv, ExperimentsInv, RefreshInv, Said, Over, Claims, Tells, Settles, Settled
  <2>3. \A q \in Runs : RunInv(q)'
    BY <1>1, SameRuns DEF TruthInv, ExperimentsInv
  <2>4. QED
    BY <2>1, <2>2, <2>3 DEF ExperimentsInv
<1>9. Steady
  BY <1>1, SameRuns
<1>10. ASSUME NEW q \in Runs PROVE HeldInv(q)'
  <2>1. CASE held'[q] = held[q]
    BY <1>9, <2>1, SteadyHeld DEF TruthInv
  <2>2. CASE q = r /\ held'[r] = new
    BY <1>1, <1>3, <1>5, <2>2 DEF HeldInv, Said, Sure, Over, Tells, Settles, Settled
  <2>3. QED
    BY <1>6, <2>1, <2>2
<1>11. PassInv'
  <2>1. \A q \in Pending : q \in Pending' /\ held'[q] = held[q]
    BY <1>6 DEF Pending
  <2>2. QED
    BY <1>1, <2>1 DEF TruthInv, PassInv, WithItem, Injected, Summaries, Tells, Settles, Settled, Over
<1>12. GradeInv' /\ MessagesInv' /\ InjectedOnce'
  BY <1>1, <1>9, GradeSteady, SteadyMessages, DeliveryIsAnActor DEF TruthInv, ExperimentsInv
<1>13. TypeOK'
  BY <1>1, <1>6, <1>7 DEF TypeOK, HeldType
<1>14. QED
  BY <1>8, <1>10, <1>11, <1>12, <1>13 DEF TruthInv

\* Steps that only move the pass.
LEMMA PassMoves ==
    ASSUME TypeOK, TruthInv, delivery' \in DeliveryType, PassInv',
           delivery.pc # "grade", left' \in LeftType,
           UNCHANGED <<run, refresh, poller, held, interpreted, presence, chat>>
    PROVE  TypeOK' /\ TruthInv'
<1>1. ExperimentsTypeOK' /\ ExperimentsInv' /\ Steady
  BY ExperimentsSame DEF TypeOK, TruthInv
<1>2. GradeInv'
  BY DEF TruthInv, GradeInv
<1>3. (\A r \in Runs : HeldInv(r))' /\ MessagesInv' /\ InjectedOnce'
  BY <1>1, SteadyHeld, SteadyMessages DEF TruthInv
<1>4. TypeOK'
  BY <1>1 DEF TypeOK, DeliveryType
<1>5. QED
  BY <1>1, <1>2, <1>3, <1>4 DEF TruthInv

LEMMA NoPassIsFine ==
    /\ NoPass \in DeliveryType
    /\ delivery' = NoPass => PassInv'
BY DEF NoPass, DeliveryType, Statuses, PassInv, WithItem

LEMMA StartPassKeepsTruth ==
    ASSUME TypeOK, TruthInv, StartPass \/ StartDelivery PROVE TypeOK' /\ TruthInv'
<1>1. CASE delivery' = NoPass
  BY <1>1, NoPassIsFine, PassMoves, TypesUnfold
     DEF StartPass, StartDelivery, experimentVars, TypeOK
<1>2. CASE delivery'.pc \in {"summarise", "deliver"} /\ delivery'.todo = Pending
           /\ delivery' \in DeliveryType
  <2>1. UNCHANGED <<run, refresh, poller, left, held, interpreted, presence, chat>>
    BY DEF StartPass, StartDelivery, experimentVars
  <2>2. PassInv'
    BY <1>2, <2>1 DEF PassInv, Pending, WithItem
  <2>3. delivery.pc # "grade" /\ left' \in LeftType
    BY <2>1, TypesUnfold DEF StartPass, StartDelivery, TypeOK
  <2>4. QED
    BY <1>2, <2>1, <2>2, <2>3, PassMoves
<1>3. Pending \subseteq Runs
  BY DEF Pending
<1>4. \A label \in {"summarise", "deliver"} :
         LET d == [NoPass EXCEPT !.pc = label, !.todo = Pending]
         IN  d \in DeliveryType /\ d.pc = label /\ d.todo = Pending
  BY <1>3, NoPassIsFine DEF DeliveryType
<1>5. QED
  BY <1>1, <1>2, <1>4 DEF StartPass, StartDelivery

LEMMA SummariseKeepsTruth ==
    ASSUME TypeOK, TruthInv, Summarise PROVE TypeOK' /\ TruthInv'
<1>1. PICK r \in delivery.todo :
         /\ delivery' = [delivery EXCEPT !.todo = @ \ {r}]
         /\ \/ held' = held
            \/ /\ held[r].summary = "none"
               /\ held' = [held EXCEPT ![r].summary = Reconciled(r, held[r].status)]
  BY DEF Summarise, First
<1>2. /\ delivery.pc = "summarise"
      /\ UNCHANGED <<run, refresh, poller, interpreted, presence, chat>>
      /\ left' \in LeftType
  BY TypesUnfold, FaultType DEF Summarise, TypeOK
<1>3. /\ held \in [Runs -> HeldType] /\ delivery \in DeliveryType
      /\ run \in [Runs -> RunType]
  BY InterpretTypes, TypesUnfold DEF RunsFit
<1>4. r \in Runs /\ held[r].in /\ HeldInv(r)
  BY <1>1 DEF TruthInv, PassInv, Pending
<1>5. PICK word \in Ended : word = Reconciled(r, held[r].status) /\ Tells(r, word)
  <2>1. /\ held[r].status \in Ended /\ Settles(r, held[r].status) /\ Sure(r)
        /\ held[r].status \in Statuses
    BY <1>4 DEF HeldInv, Statuses
  <2>2. QED
    BY <1>3, <1>4, <2>1, ReconciledTells
<1>6. /\ held' \in [Runs -> HeldType]
      /\ \A q \in Runs \ {r} : held'[q] = held[q]
      /\ held'[r].in = held[r].in /\ held'[r].status = held[r].status
      /\ held'[r].summary \in {held[r].summary, word}
  <2>1. CASE held' = held
    BY <1>3, <1>4, <2>1
  <2>2. CASE held' = [held EXCEPT ![r].summary = word]
    <3>1. held[r] \in HeldType /\ word \in Ended
      BY <1>3, <1>4, <1>5
    <3>2. [held[r] EXCEPT !.summary = word] \in HeldType
      BY <3>1 DEF HeldType
    <3>3. held' = [held EXCEPT ![r] = [held[r] EXCEPT !.summary = word]]
      BY <2>2
    <3>4. QED
      BY <1>3, <1>4, <3>1, <3>2, <3>3 DEF HeldType
  <2>3. QED
    BY <1>1, <1>5, <2>1, <2>2
<1>7. ExperimentsTypeOK' /\ ExperimentsInv' /\ Steady
  BY <1>2, ExperimentsSame DEF TypeOK, TruthInv
<1>8. ASSUME NEW q \in Runs PROVE HeldInv(q)'
  <2>1. CASE q # r
    BY <1>6, <1>7, <2>1, SteadyHeld DEF TruthInv
  <2>2. CASE q = r
    <3>1. PICK status, summary :
             /\ held[r].status = status /\ held'[r].status = status
             /\ held'[r].summary = summary
             /\ summary # "none" => Tells(r, summary)
      BY <1>4, <1>5, <1>6 DEF HeldInv
    <3>2. QED
      BY <1>2, <1>4, <1>6, <2>2, <3>1 DEF HeldInv, Said, Sure, Over, Tells, Settles, Settled
  <2>3. QED
    BY <2>1, <2>2
<1>9. delivery' \in DeliveryType /\ delivery'.pc = "summarise"
      /\ delivery'.todo \subseteq delivery.todo
  BY <1>1, <1>2, <1>3 DEF DeliveryType
<1>10. PassInv'
  <2>1. Pending' = Pending
    BY <1>6 DEF Pending
  <2>2. QED
    BY <1>9, <2>1 DEF TruthInv, PassInv, WithItem
<1>11. GradeInv'
  BY <1>2 DEF TruthInv, GradeInv
<1>12. MessagesInv' /\ InjectedOnce'
  BY <1>2, <1>7, SteadyMessages DEF TruthInv
<1>13. TypeOK'
  BY <1>2, <1>6, <1>7, <1>9 DEF TypeOK, HeldType, DeliveryType
<1>14. QED
  BY <1>7, <1>8, <1>10, <1>11, <1>12, <1>13 DEF TruthInv

LEMMA TakeItemKeepsTruth ==
    ASSUME TypeOK, TruthInv, TakeItem PROVE TypeOK' /\ TruthInv'
<1>1. /\ delivery.pc = "deliver" /\ left' \in LeftType
      /\ UNCHANGED <<run, refresh, poller, held, interpreted, presence, chat>>
  BY TypesUnfold DEF TakeItem, experimentVars, TypeOK
<1>2. CASE delivery' = NoPass
  BY <1>1, <1>2, NoPassIsFine, PassMoves
<1>3. ASSUME NEW r \in delivery.todo,
             delivery' = IF held[r].summary = "none"
                         THEN [delivery EXCEPT !.todo = @ \ {r}]
                         ELSE [delivery EXCEPT !.pc = "session", !.todo = @ \ {r},
                                               !.run = r]
      PROVE  TypeOK' /\ TruthInv'
  <2>1. delivery \in DeliveryType /\ r \in Runs /\ r \in Pending
        /\ delivery.todo \subseteq Pending /\ Pending' = Pending
    BY <1>1, <1>3, InterpretTypes DEF TruthInv, PassInv, Pending
  <2>2. CASE held[r].summary = "none"
    <3>1. delivery' \in DeliveryType /\ delivery'.pc = "deliver"
          /\ delivery'.todo = delivery.todo \ {r}
      BY <1>1, <1>3, <2>1, <2>2 DEF DeliveryType
    <3>2. PassInv'
      BY <2>1, <3>1 DEF PassInv, WithItem
    <3>3. QED
      BY <1>1, <3>1, <3>2, PassMoves
  <2>3. CASE held[r].summary # "none"
    <3>1. delivery' \in DeliveryType /\ delivery'.pc = "session"
          /\ delivery'.todo = delivery.todo \ {r} /\ delivery'.run = r
      BY <1>1, <1>3, <2>1, <2>3 DEF DeliveryType
    <3>2. PassInv'
      BY <1>1, <2>1, <2>3, <3>1 DEF PassInv, WithItem
    <3>3. QED
      BY <1>1, <3>1, <3>2, PassMoves
  <2>4. QED
    BY <2>2, <2>3
<1>4. QED
  BY <1>2, <1>3 DEF TakeItem, First

\* The pass goes on with its item.
LEMMA GotoEffect ==
    ASSUME TypeOK, NEW label \in WithItem, Goto(label)
    PROVE  /\ delivery' \in DeliveryType
           /\ delivery'.pc = label /\ delivery'.todo = delivery.todo
           /\ delivery'.run = delivery.run /\ delivery'.summary = delivery.summary
BY InterpretTypes DEF Goto, DeliveryType, WithItem

\* An item's turn ends in a step that leaves the conversation's messages alone.
LEMMA ItemOverKeepsTruth ==
    ASSUME TypeOK, TruthInv, delivery.pc \in WithItem \ {"grade"},
           Retire(delivery.run) \/ Refused(delivery.run) \/ Silent(delivery.run),
           left' \in LeftType, UNCHANGED <<run, refresh, poller, presence, chat>>
    PROVE  TypeOK' /\ TruthInv'
<1>1. /\ held' \in [Runs -> HeldType] /\ interpreted' \subseteq Runs
      /\ delivery' \in DeliveryType
      /\ (\A r \in Runs : HeldInv(r))' /\ PassInv' /\ GradeInv'
  BY ItemOver
<1>2. ExperimentsTypeOK' /\ ExperimentsInv' /\ Steady
  BY ExperimentsSame DEF TypeOK, TruthInv
<1>3. MessagesInv' /\ InjectedOnce'
  BY <1>2, SteadyMessages DEF TruthInv
<1>4. TypeOK'
  BY <1>1, <1>2 DEF TypeOK, HeldType, DeliveryType
<1>5. QED
  BY <1>1, <1>2, <1>3, <1>4 DEF TruthInv

LEMMA FindSessionKeepsTruth ==
    ASSUME TypeOK, TruthInv, FindSession PROVE TypeOK' /\ TruthInv'
<1> DEFINE r == delivery.run
<1>1. /\ delivery.pc = "session" /\ delivery.pc \in WithItem
      /\ UNCHANGED <<run, poller, presence, chat>>
      /\ left' \in LeftType
  BY TypesUnfold, FaultType DEF FindSession, WithItem, TypeOK
<1>2. CASE (Retire(r) \/ Refused(r)) /\ UNCHANGED refresh
  BY <1>1, <1>2, ItemOverKeepsTruth
<1>3. CASE /\ refresh' = Begun(Delivery, r, run[r].record, "results")
           /\ Goto("grade") /\ UNCHANGED <<held, interpreted>>
  <2>1. /\ delivery' \in DeliveryType /\ delivery'.pc = "grade"
        /\ delivery'.todo = delivery.todo /\ delivery'.run = r
    BY <1>3, GotoEffect DEF WithItem
  <2>2. PICK item, status : item \in Runs /\ item = r /\ status = run[r].record
    BY <1>1 DEF TruthInv, PassInv, Pending
  <2>3. /\ HeldInv(item) /\ RunInv(item) /\ item \in Pending
        /\ run \in [Runs -> RunType] /\ refresh \in [Actors -> RefreshType]
        /\ Delivery \in Actors
    BY <1>1, <2>2, TypesUnfold, DeliveryIsAnActor
       DEF TruthInv, PassInv, ExperimentsInv, TypeOK, RunsFit
  <2>4. /\ Said(item) /\ Sure(item) /\ status \in Statuses \ {"none"}
        /\ status \in Ended => Settles(item, status)
        /\ status \notin Ended => run[item].launch = "done" /\ Over(item)
    <3>1. Said(item) /\ Sure(item) /\ status \in Statuses \ {"none"}
      BY <2>2, <2>3 DEF HeldInv, Pending, RunType, Said
    <3>2. status \notin Ended => status = Open
      BY <3>1 DEF Statuses
    <3>3. status \in Ended => Settles(item, status)
      BY <2>2, <2>3 DEF RunInv
    <3>4. status \notin Ended => run[item].launch = "done" /\ Over(item)
      BY <2>2, <2>3, <3>1, <3>2, OpenIsLaunched DEF Sure, Ended, Open
    <3>5. QED
      BY <3>1, <3>3, <3>4
  <2>5. Said(item)' /\ (status \in Ended => Settles(item, status)') /\ run' = run
    BY <1>1, <2>4 DEF Said, Settles, Settled, Over
  <2>6. /\ refresh' \in [Actors -> RefreshType]
        /\ \A b \in Actors \ {Delivery} : refresh'[b] = refresh[b]
        /\ RefreshInv(Delivery)'
    <3>1. refresh' = Begun(Delivery, item, status, "results")
      BY <1>3, <2>2
    <3>2. QED
      BY <2>2, <2>3, <2>4, <2>5, <3>1, BegunEffect
  <2>7. GradeInv'
    <3>1. /\ refresh'[Delivery].run = item /\ refresh'[Delivery].status = status
          /\ refresh'[Delivery].pc = IF status \in Ended THEN "results" ELSE "ask"
      BY <1>3, <2>2, <2>3 DEF Begun
    <3>2. QED
      BY <1>1, <2>1, <2>2, <2>4, <3>1 DEF GradeInv, Over
  <2>8. Steady /\ \A q \in Runs : RunInv(q)'
    BY <1>1, SameRuns DEF TruthInv, ExperimentsInv
  <2>9. ExperimentsTypeOK' /\ ExperimentsInv'
    <3>1. ExperimentsTypeOK /\ ExperimentsInv
      BY DEF TypeOK, TruthInv
    <3>2. QED
      BY <1>1, <2>3, <2>6, <2>8, <3>1, TypesUnfold, SameLatest, OneActorMoves
  <2>10. (\A q \in Runs : HeldInv(q))' /\ MessagesInv' /\ InjectedOnce'
    BY <1>1, <1>3, <2>8, SteadyHeld, SteadyMessages DEF TruthInv
  <2>11. PassInv'
    BY <1>1, <1>3, <2>1 DEF TruthInv, PassInv, WithItem, Pending
  <2>12. TypeOK'
    BY <1>1, <1>3, <2>1, <2>9 DEF TypeOK, DeliveryType
  <2>13. QED
    BY <2>7, <2>9, <2>10, <2>11, <2>12 DEF TruthInv
<1>4. QED
  BY <1>2, <1>3 DEF FindSession

LEMMA GradedKeepsTruth ==
    ASSUME TypeOK, TruthInv, Graded PROVE TypeOK' /\ TruthInv'
<1> DEFINE r == delivery.run
           x == refresh[Delivery]
<1>1. /\ delivery.pc = "grade" /\ x.pc = "answered"
      /\ UNCHANGED <<run, poller, left, held, interpreted, presence, chat>>
      /\ refresh' = [refresh EXCEPT ![Delivery] = NoRefresh]
  BY DEF Graded
<1>2. /\ run \in [Runs -> RunType] /\ refresh \in [Actors -> RefreshType]
      /\ left \in LeftType /\ Delivery \in Actors /\ delivery \in DeliveryType
      /\ held \in [Runs -> HeldType]
  BY TypesUnfold, InterpretTypes, DeliveryIsAnActor DEF TypeOK, RunsFit
<1>3. r \in Runs /\ held[r].summary # "none" /\ HeldInv(r)
  BY <1>1 DEF TruthInv, PassInv, WithItem, Pending
<1>4. PICK word \in Ended :
         /\ delivery' = [delivery EXCEPT !.pc = "read", !.summary = word]
         /\ Tells(r, word)
  <2>1. CASE x.status # "none"
    <3>1. x.status \in Ended /\ Claims(r, x.status)
      BY <1>1, <1>2, <2>1 DEF TruthInv, GradeInv, ExperimentsInv, RefreshInv
    <3>3. Tells(r, x.status)
      BY <1>3, <3>1, Words DEF HeldInv
    <3>2. QED
      BY <2>1, <3>1, <3>3 DEF Graded
  <2>2. CASE x.status = "none"
    BY <1>2, <1>3, <2>2 DEF Graded, HeldInv, HeldType
  <2>3. QED
    BY <2>1, <2>2
<1>5. /\ delivery' \in DeliveryType /\ delivery'.pc = "read" /\ delivery'.run = r
      /\ delivery'.todo = delivery.todo /\ delivery'.summary = word
  BY <1>2, <1>4 DEF DeliveryType, Statuses
<1>6. /\ refresh' \in [Actors -> RefreshType]
      /\ \A b \in Actors \ {Delivery} : refresh'[b] = refresh[b]
      /\ refresh'[Delivery].pc = "idle"
  BY <1>1, <1>2 DEF NoRefresh, RefreshType, Statuses
<1>7. RefreshInv(Delivery)' /\ GradeInv'
  BY <1>6 DEF RefreshInv, GradeInv
<1>8. Steady /\ \A q \in Runs : RunInv(q)'
  BY <1>1, SameRuns DEF TruthInv, ExperimentsInv
<1>9. ExperimentsTypeOK' /\ ExperimentsInv'
  <2>1. ExperimentsTypeOK /\ ExperimentsInv
    BY DEF TypeOK, TruthInv
  <2>2. QED
    BY <1>1, <1>2, <1>6, <1>7, <1>8, <2>1, TypesUnfold, SameLatest, OneActorMoves
<1>10. (\A q \in Runs : HeldInv(q))' /\ MessagesInv' /\ InjectedOnce'
  BY <1>1, <1>8, SteadyHeld, SteadyMessages DEF TruthInv
<1>11. PassInv'
  <2>1. Tells(r, word)' <=> Tells(r, word)
    BY <1>1, <1>5 DEF Tells, Settles, Settled, Over
  <2>2. QED
    BY <1>1, <1>3, <1>4, <1>5, <2>1 DEF TruthInv, PassInv, WithItem, Pending
<1>12. TypeOK'
  BY <1>1, <1>5, <1>9 DEF TypeOK, DeliveryType
<1>13. QED
  BY <1>7, <1>9, <1>10, <1>11, <1>12 DEF TruthInv

\* The pass looks at the conversation, or waits.
LEMMA LooksKeepTruth ==
    ASSUME TypeOK, TruthInv, ReadMessages \/ Wait \/ Reread PROVE TypeOK' /\ TruthInv'
<1>1. /\ delivery.pc \in {"read", "wait", "reread"}
      /\ UNCHANGED <<run, refresh, poller, presence, chat>>
      /\ left' \in LeftType
  BY TypesUnfold, FaultType DEF ReadMessages, Wait, Reread, TypeOK
<1>2. CASE Retire(delivery.run) \/ Refused(delivery.run) \/ Silent(delivery.run)
  BY <1>1, <1>2, ItemOverKeepsTruth DEF WithItem
<1>3. ASSUME NEW label \in {"continue", "send", "reread"}, Goto(label),
             label = "send" => ~Injected(delivery.run),
             UNCHANGED <<held, interpreted>>
      PROVE  TypeOK' /\ TruthInv'
  <2>1. /\ delivery' \in DeliveryType
        /\ delivery'.pc = label /\ delivery'.todo = delivery.todo
        /\ delivery'.run = delivery.run /\ delivery'.summary = delivery.summary
    BY <1>3, GotoEffect DEF WithItem
  <2>2. PassInv'
    BY <1>1, <1>3, <2>1
       DEF TruthInv, PassInv, WithItem, Pending, Injected, Summaries, Tells, Settles, Settled, Over
  <2>3. QED
    BY <1>1, <1>3, <2>1, <2>2, PassMoves
<1>4. CASE ReadMessages
  BY <1>2, <1>3, <1>4 DEF ReadMessages
<1>5. CASE Wait
  BY <1>2, <1>3, <1>5 DEF Wait
<1>6. CASE Reread
  BY <1>2, <1>6 DEF Reread
<1>7. QED
  BY <1>4, <1>5, <1>6

\* A message more: a text, or the summary of a run that has none in the conversation.
LEMMA MessageAdded ==
    ASSUME TypeOK, MessagesInv, InjectedOnce, Steady, NEW m \in Message,
           chat'.messages = Append(chat.messages, m),
           m.about # 0 => /\ Said(m.about) /\ ~Injected(m.about)
                          /\ m.status \in Ended /\ Tells(m.about, m.status)
    PROVE  MessagesInv' /\ InjectedOnce'
<1> DEFINE n == Len(chat.messages)
<1>1. /\ chat.messages \in Seq(Message) /\ n \in Nat
      /\ DOMAIN chat.messages = 1..n
  BY InterpretTypes DEF ChatType
<1>2. /\ DOMAIN chat'.messages = 1..(n + 1)
      /\ \A i \in 1..n : chat'.messages[i] = chat.messages[i]
      /\ chat'.messages[n + 1] = m
  BY <1>1, AppendProperties
<1>3. /\ \A i \in 1..n : chat.messages[i].about \in Runs \union {0}
      /\ m.about \in Runs \union {0}
  BY <1>1, InterpretTypes, MessagesAre DEF Message
<1>4. ASSUME NEW i \in 1..(n + 1), chat'.messages[i].about # 0
      PROVE  \E about \in Runs, status \in Ended :
                /\ chat'.messages[i].about = about
                /\ chat'.messages[i].status = status
                /\ Said(about)' /\ Tells(about, status)'
  <2>1. \E about \in Runs, status \in Ended :
           /\ chat'.messages[i].about = about
           /\ chat'.messages[i].status = status
           /\ Said(about) /\ Tells(about, status)
    <3>1. CASE i \in 1..n
      BY <1>1, <1>2, <1>3, <1>4, <3>1 DEF MessagesInv
    <3>2. CASE i = n + 1
      BY <1>2, <1>3, <1>4, <3>2
    <3>3. QED
      BY <1>1, <3>1, <3>2
  <2>2. PICK about \in Runs, status \in Ended :
           /\ chat'.messages[i].about = about
           /\ chat'.messages[i].status = status
           /\ Said(about) /\ Tells(about, status)
    BY <2>1
  <2>3. Said(about)' /\ Tells(about, status)'
    BY <2>2 DEF Steady
  <2>4. QED
    BY <2>2, <2>3
<1>5. MessagesInv'
  <2>1. SUFFICES ASSUME NEW i \in 1..(n + 1), chat'.messages[i].about # 0
                 PROVE  /\ Said(chat.messages[i].about)'
                        /\ chat'.messages[i].status \in Ended
                        /\ Tells(chat.messages[i].about, chat.messages[i].status)'
    BY <1>2 DEF MessagesInv
  <2>2. PICK about \in Runs, status \in Ended :
           /\ chat'.messages[i].about = about
           /\ chat'.messages[i].status = status
           /\ Said(about)' /\ Tells(about, status)'
    BY <1>4, <2>1
  <2>3. QED
    BY <2>2 DEF Said, Tells, Settles, Settled, Over
<1>6. ASSUME NEW i \in 1..(n + 1), NEW j \in 1..(n + 1),
             chat'.messages[i].about = chat'.messages[j].about,
             chat'.messages[i].about # 0
      PROVE  i = j
  <2>1. ASSUME NEW k \in 1..n PROVE m.about # 0 => chat.messages[k].about # m.about
    BY <1>1 DEF Injected, Summaries
  <2>2. CASE i \in 1..n /\ j \in 1..n
    BY <1>1, <1>2, <1>6, <2>2 DEF InjectedOnce
  <2>3. CASE i = n + 1 /\ j = n + 1
    BY <2>3
  <2>4. CASE i \in 1..n /\ j = n + 1
    BY <1>2, <1>6, <2>1, <2>4
  <2>5. CASE i = n + 1 /\ j \in 1..n
    BY <1>2, <1>6, <2>1, <2>5
  <2>6. QED
    BY <1>1, <2>2, <2>3, <2>4, <2>5
<1>7. InjectedOnce'
  BY <1>2, <1>6 DEF InjectedOnce
<1>8. QED
  BY <1>5, <1>7

LEMMA StartTurnKeepsTruth ==
    ASSUME TypeOK, TruthInv, StartTurn PROVE TypeOK' /\ TruthInv'
<1> DEFINE r == delivery.run
           sent == IF delivery.pc = "send"
                   THEN Append(chat.messages, Summary(r, delivery.summary))
                   ELSE chat.messages
<1>1. /\ delivery.pc \in {"send", "continue"}
      /\ UNCHANGED <<run, refresh, poller, presence>>
      /\ left' \in LeftType
  BY TypesUnfold, FaultType DEF StartTurn, TypeOK
<1>2. /\ chat \in ChatType /\ delivery \in DeliveryType /\ r \in Runs
      /\ delivery.summary \in Ended /\ Tells(r, delivery.summary) /\ Said(r)
      /\ delivery.pc = "send" => ~Injected(r)
  BY <1>1, InterpretTypes DEF TruthInv, PassInv, WithItem, Pending, HeldInv
<1>3. ExperimentsTypeOK' /\ ExperimentsInv' /\ Steady
  BY <1>1, ExperimentsSame DEF TypeOK, TruthInv
<1>4. Summary(r, delivery.summary) \in Message
  BY <1>2 DEF Summary, Message, Statuses
<1>5. sent \in Seq(Message)
  BY <1>2, <1>4, AppendProperties DEF ChatType
<1>6. ASSUME chat'.messages = chat.messages \/ chat'.messages = sent
      PROVE  MessagesInv' /\ InjectedOnce'
  <2>1. CASE chat'.messages = chat.messages
    BY <1>3, <2>1, SteadyMessages DEF TruthInv
  <2>2. CASE delivery.pc = "send" /\ chat'.messages = sent
    <3>1. PICK m \in Message : /\ m.about = r /\ m.status = delivery.summary
                               /\ chat'.messages = Append(chat.messages, m)
      BY <1>4, <2>2 DEF Summary
    <3>2. QED
      BY <1>2, <1>3, <2>2, <3>1, MessageAdded DEF TruthInv
  <2>3. QED
    BY <1>6, <2>1, <2>2
<1>7. ASSUME Refused(delivery.run),
             \/ UNCHANGED chat
             \/ \E messages \in {chat.messages, sent} :
                   chat' = [chat EXCEPT !.messages = messages]
      PROVE  TypeOK' /\ TruthInv'
  <2>1. /\ chat' \in ChatType
        /\ chat'.messages = chat.messages \/ chat'.messages = sent
    BY <1>2, <1>5, <1>7 DEF ChatType
  <2>2. /\ held' \in [Runs -> HeldType] /\ interpreted' \subseteq Runs
        /\ delivery' \in DeliveryType
        /\ (\A q \in Runs : HeldInv(q))' /\ PassInv' /\ GradeInv'
    <3>1. delivery.pc \in WithItem \ {"grade"} /\ UNCHANGED <<run, refresh>>
      BY <1>1 DEF WithItem
    <3>2. QED
      BY <1>7, <3>1, ItemOver
  <2>3. TypeOK'
    BY <1>1, <1>3, <2>1, <2>2 DEF TypeOK, HeldType, DeliveryType, ChatType, Message
  <2>4. QED
    BY <1>3, <1>6, <2>1, <2>2, <2>3 DEF TruthInv
<1>8. CASE /\ chat' = [chat EXCEPT !.messages = sent, !.turn = "delivery", !.for = r]
           /\ Goto("wait") /\ UNCHANGED <<held, interpreted>>
  <2>1. chat' \in ChatType /\ chat'.messages = sent
    BY <1>2, <1>5, <1>8 DEF ChatType
  <2>2. /\ delivery' \in DeliveryType
        /\ delivery'.pc = "wait" /\ delivery'.todo = delivery.todo
        /\ delivery'.run = delivery.run /\ delivery'.summary = delivery.summary
    BY <1>8, GotoEffect DEF WithItem
  <2>3. (\A q \in Runs : HeldInv(q))'
    BY <1>3, <1>8, SteadyHeld DEF TruthInv
  <2>4. PassInv'
    BY <1>1, <1>8, <2>2 DEF TruthInv, PassInv, WithItem, Pending, Tells, Settles, Settled, Over
  <2>5. GradeInv'
    BY <1>1 DEF TruthInv, GradeInv
  <2>6. TypeOK'
    BY <1>1, <1>3, <1>8, <2>1, <2>2 DEF TypeOK, DeliveryType, ChatType, Message
  <2>7. QED
    BY <1>3, <1>6, <2>1, <2>3, <2>4, <2>5, <2>6 DEF TruthInv
<1>9. QED
  BY <1>7, <1>8 DEF StartTurn

-----------------------------------------------------------------------------
(* The conversation, the developer, and a restart.                          *)

\* Steps of the conversation and of the developer.
LEMMA ChatMoves ==
    ASSUME TypeOK, TruthInv, left' \in LeftType, chat' \in ChatType,
           presence' \subseteq Connections,
           \/ chat'.messages = chat.messages
           \/ chat'.messages = <<>>
           \/ chat'.messages = Append(chat.messages, Text),
           UNCHANGED <<run, refresh, poller, held, interpreted, delivery>>
    PROVE  TypeOK' /\ TruthInv'
<1>1. ExperimentsTypeOK' /\ ExperimentsInv' /\ Steady
  BY ExperimentsSame DEF TypeOK, TruthInv
<1>2. GradeInv' /\ (\A r \in Runs : HeldInv(r))'
  BY <1>1, SteadyHeld DEF TruthInv, GradeInv, Over
<1>3. Text \in Message /\ Text.about = 0 /\ 0 \notin Runs
  BY RunsAssumption DEF Text, Message, Statuses
<1>4. MessagesInv' /\ InjectedOnce'
  <2>1. CASE chat'.messages = chat.messages
    BY <1>1, <2>1, SteadyMessages DEF TruthInv
  <2>2. CASE chat'.messages = <<>>
    BY <2>2 DEF MessagesInv, InjectedOnce
  <2>3. CASE chat'.messages = Append(chat.messages, Text)
    BY <1>1, <1>3, <2>3, MessageAdded DEF TruthInv
  <2>4. QED
    BY <2>1, <2>2, <2>3
<1>5. ASSUME NEW r \in Runs, ~Injected(r) PROVE ~Injected(r)'
  <2>1. \A i \in DOMAIN chat.messages : chat.messages[i].about # r
    BY <1>5 DEF Injected, Summaries
  <2>2. CASE chat'.messages = Append(chat.messages, Text)
    <3>1. chat.messages \in Seq(Message)
      BY InterpretTypes DEF ChatType
    <3>2. \A i \in DOMAIN chat'.messages :
            \/ i \in DOMAIN chat.messages /\ chat'.messages[i] = chat.messages[i]
            \/ chat'.messages[i] = Text
      BY <1>3, <2>2, <3>1, AppendProperties
    <3>3. QED
      BY <1>3, <2>1, <3>2 DEF Injected, Summaries
  <2>3. CASE chat'.messages = chat.messages \/ chat'.messages = <<>>
    BY <2>1, <2>3 DEF Injected, Summaries
  <2>4. QED
    BY <2>2, <2>3
<1>6. PassInv'
  <2>1. Pending' = Pending /\ Pending \subseteq Runs
    BY DEF Pending
  <2>2. delivery.pc = "send" => ~Injected(delivery.run)'
    BY <1>5, <2>1 DEF TruthInv, PassInv, WithItem
  <2>3. QED
    BY <2>1, <2>2 DEF TruthInv, PassInv, WithItem, Tells, Settles, Settled, Over
<1>7. TypeOK'
  BY <1>1 DEF TypeOK, ChatType, Message
<1>8. QED
  BY <1>1, <1>2, <1>4, <1>6, <1>7 DEF TruthInv

LEMMA ChatKeepsTruth ==
    ASSUME TypeOK, TruthInv,
           Speak \/ TurnEnds \/ Ask \/ DeleteSession \/ Connect \/ Disconnect
    PROVE  TypeOK' /\ TruthInv'
<1>1. /\ chat \in ChatType /\ left \in LeftType /\ presence \subseteq Connections
  BY InterpretTypes, TypesUnfold
<1>2. Text \in Message
  BY DEF Text, Message, Statuses
<1>3. CASE Speak
  <2>1. Append(chat.messages, Text) \in Seq(Message)
    BY <1>1, <1>2, AppendProperties DEF ChatType
  <2>2. /\ chat' \in ChatType /\ chat'.messages = Append(chat.messages, Text)
    BY <1>1, <1>3, <2>1 DEF Speak, ChatType
  <2>3. QED
    BY <1>1, <1>3, <2>2, ChatMoves DEF Speak, experimentVars
<1>4. CASE TurnEnds
  <2>1. PICK unread \in [Runs -> 0..maxSilentTurns] :
           chat' = [chat EXCEPT !.turn = "none", !.for = 0, !.spoke = FALSE,
                                !.unread = unread]
    <3>1. chat.unread \in [Runs -> 0..maxSilentTurns]
      BY <1>1 DEF ChatType
    <3>2. [r \in Runs |-> IF r = chat.for /\ ~Answered(r) /\ chat.unread[r] < maxSilentTurns
                          THEN chat.unread[r] + 1 ELSE chat.unread[r]]
             \in [Runs -> 0..maxSilentTurns]
      BY <3>1, InterpretAssumption
    <3>3. QED
      BY <1>4, <3>2 DEF TurnEnds
  <2>2. chat' \in ChatType /\ chat'.messages = chat.messages
    BY <1>1, <2>1 DEF ChatType
  <2>3. QED
    BY <1>1, <1>4, <2>2, ChatMoves DEF TurnEnds, experimentVars
<1>5. CASE Ask
  <2>1. chat' \in ChatType /\ chat'.messages = chat.messages /\ left' \in LeftType
    <3>1. left' \in LeftType
      BY <1>1, <1>5 DEF Ask, LeftType
    <3>2. chat' = [chat EXCEPT !.turn = "developer"]
      BY <1>5 DEF Ask
    <3>3. QED
      BY <1>1, <3>1, <3>2 DEF ChatType
  <2>2. QED
    BY <1>1, <1>5, <2>1, ChatMoves DEF Ask
<1>6. CASE DeleteSession
  <2>1. chat' \in ChatType /\ chat'.messages = <<>> /\ left' \in LeftType
    <3>1. left' \in LeftType
      BY <1>1, <1>6, FaultType DEF DeleteSession
    <3>2. chat' = [chat EXCEPT !.gone = TRUE, !.messages = <<>>] /\ <<>> \in Seq(Message)
      BY <1>6 DEF DeleteSession
    <3>3. QED
      BY <1>1, <3>1, <3>2 DEF ChatType
  <2>2. QED
    BY <1>1, <1>6, <2>1, ChatMoves DEF DeleteSession
<1>7. CASE Connect
  BY <1>1, <1>7, ChatMoves DEF Connect, experimentVars
<1>8. CASE Disconnect
  BY <1>1, <1>8, FaultType, ChatMoves DEF Disconnect
<1>9. QED
  BY <1>3, <1>4, <1>5, <1>6, <1>7, <1>8

\* A launch that is cut off is one nobody talks about.
LEMMA RestartKeepsTruth ==
    ASSUME TypeOK, TruthInv, Restart PROVE TypeOK' /\ TruthInv'
<1>1. /\ run \in [Runs -> RunType] /\ left' \in LeftType /\ chat \in ChatType
      /\ RunsFit /\ \A r \in Runs : RunInv(r)
  BY TypesUnfold, InterpretTypes, FaultType DEF Restart, TruthInv, ExperimentsInv, RunsFit
<1>2. /\ refresh' = [a \in Actors |-> NoRefresh] /\ poller' = NoTick
      /\ held' = [r \in Runs |-> NotHeld] /\ interpreted' = {} /\ presence' = {}
      /\ delivery' = NoPass
  BY DEF Restart
<1>3. ASSUME NEW r \in Runs
      PROVE  /\ run'[r] \in RunType
             /\ run'[r].ray = run[r].ray /\ run'[r].known = run[r].known
             /\ run'[r].mlflow = run[r].mlflow /\ run'[r].record = run[r].record
             /\ run'[r].kept = run[r].kept /\ run'[r].at = run[r].at
             /\ run'[r].launch = run[r].launch \/ (~Said(r) /\ run'[r].launch = "done")
  <2>1. run[r] \in RunType
    BY <1>1
  <2>2. CASE run[r].launch \in {"created", "accepted", "refused", "failing"}
    <3>1. run'[r] = [run[r] EXCEPT !.launch = "done"]
      BY <2>2 DEF Restart
    <3>2. ~Said(r)
      BY <1>1, <2>2 DEF RunInv
    <3>3. QED
      BY <2>1, <3>1, <3>2 DEF RunType
  <2>3. CASE run[r].launch \notin {"created", "accepted", "refused", "failing"}
    <3>1. run'[r] = run[r]
      BY <2>3 DEF Restart
    <3>2. QED
      BY <2>1, <3>1
  <2>4. QED
    BY <2>2, <2>3
<1>4. run' \in [Runs -> RunType]
  <2>1. DOMAIN run' = Runs /\ run' = [r \in Runs |-> run'[r]]
    BY DEF Restart
  <2>2. QED
    BY <1>3, <2>1
<1>13. RunsFit'
  BY <1>1, <1>3, <1>4 DEF RunsFit, SomeLatest, Latest
<1>5. Steady
  BY <1>3 DEF Steady, Said, Over, Sure, Claims, Tells, Settles, Settled
<1>6. ASSUME NEW r \in Runs PROVE RunInv(r)'
  BY <1>1, <1>3 DEF RunInv, Said, Over, Sure, Claims, Tells, Settles, Settled
<1>7. /\ ExperimentsInv' /\ GradeInv'
  <2>1. \A a \in Actors : refresh'[a].pc = "idle"
    BY <1>2 DEF NoRefresh
  <2>2. PollerInv'
    BY <1>2 DEF PollerInv, NoTick
  <2>3. QED
    BY <1>6, <2>1, <2>2, DeliveryIsAnActor DEF ExperimentsInv, RefreshInv, GradeInv
<1>8. chat' \in ChatType /\ chat'.messages = chat.messages
  <2>1. [r \in Runs |-> 0] \in [Runs -> 0..maxSilentTurns]
    BY InterpretAssumption
  <2>2. QED
    BY <1>1, <2>1 DEF Restart, ChatType
<1>9. MessagesInv' /\ InjectedOnce'
  BY <1>5, <1>8, SteadyMessages DEF TruthInv
<1>10. (\A r \in Runs : HeldInv(r))' /\ PassInv'
  BY <1>2, NoPassIsFine DEF HeldInv, NotHeld
<1>11. TypeOK'
  <2>1. NotHeld \in HeldType /\ NoRefresh \in RefreshType
    BY InterpretAssumption DEF NotHeld, HeldType, NoRefresh, RefreshType, Statuses
  <2>2. ExperimentsTypeOK'
    <3>1. refresh' \in [Actors -> RefreshType] /\ left' \in LeftType
      BY <1>1, <1>2, <2>1
    <3>2. poller' \in [pc : {"offer"}, todo : SUBSET (Runs \X Ended)]
      BY <1>2 DEF NoTick
    <3>3. QED
      BY <1>13, <3>1, <3>2
         DEF ExperimentsTypeOK, RunsFit, SomeLatest, RunType, RefreshType, LeftType
  <2>3. QED
    BY <1>2, <1>8, <2>1, <2>2, NoPassIsFine
       DEF TypeOK, HeldType, DeliveryType, ChatType, Message
<1>12. QED
  BY <1>7, <1>9, <1>10, <1>11 DEF TruthInv

LEMMA StartIsTrue == ASSUME Init PROVE TypeOK /\ TruthInv
<1>1. /\ ExperimentsTypeOK /\ ExperimentsInv /\ refresh[Delivery].pc = "idle"
  BY ExperimentsStart DEF Init
<1>2. /\ held = [r \in Runs |-> NotHeld] /\ interpreted = {} /\ presence = {}
      /\ delivery = NoPass
  BY DEF Init
<1>3. chat \in ChatType /\ chat.messages = <<>>
  <2>1. [r \in Runs |-> 0] \in [Runs -> 0..maxSilentTurns]
    BY InterpretAssumption
  <2>2. QED
    BY <2>1 DEF Init, ChatType
<1>4. NotHeld \in HeldType
  BY InterpretAssumption DEF NotHeld, HeldType
<1>5. TypeOK
  BY <1>1, <1>2, <1>3, <1>4, NoPassIsFine, InterpretTypes
<1>6. (\A r \in Runs : HeldInv(r)) /\ PassInv
  BY <1>2 DEF HeldInv, NotHeld, PassInv, NoPass, WithItem
<1>7. MessagesInv /\ InjectedOnce /\ GradeInv
  BY <1>1, <1>3 DEF MessagesInv, InjectedOnce, GradeInv
<1>8. QED
  BY <1>1, <1>5, <1>6, <1>7 DEF TruthInv

\* Every step keeps the types and the truth.
LEMMA StepKeepsTruth ==
    ASSUME TypeOK, TruthInv, [Next]_vars PROVE TypeOK' /\ TruthInv'
<1>1. CASE ExperimentsStep /\ UNCHANGED interpretVars
  BY <1>1, ExperimentsKeepTruth
<1>2. CASE RunFinished
  BY <1>2, RunFinishedKeepsTruth
<1>3. CASE DeliveryStep
  BY <1>3, RefreshKeepsTruth, StartPassKeepsTruth, SummariseKeepsTruth,
     TakeItemKeepsTruth, FindSessionKeepsTruth, GradedKeepsTruth, LooksKeepTruth,
     StartTurnKeepsTruth DEF DeliveryStep
<1>4. CASE Speak \/ TurnEnds \/ Ask \/ DeleteSession \/ Connect \/ Disconnect
  BY <1>4, ChatKeepsTruth
<1>5. CASE Restart
  BY <1>5, RestartKeepsTruth
<1>6. CASE UNCHANGED vars
  <2>1. UNCHANGED <<experimentVars, interpretVars>>
    BY <1>6 DEF vars, experimentVars, interpretVars
  <2>2. ExperimentsTypeOK' /\ ExperimentsInv' /\ Steady
    BY <2>1, ExperimentsSame, TypesUnfold DEF TypeOK, TruthInv, experimentVars
  <2>3. TypeOK'
    BY <2>1, <2>2 DEF TypeOK, interpretVars
  <2>4. QED
    BY <2>1, <2>2, <2>3, GradeSteady, DeliveryIsAnActor, SteadyHeld, SteadyPass,
       SteadyMessages
       DEF TruthInv, ExperimentsInv, experimentVars, interpretVars
<1>7. QED
  BY <1>1, <1>2, <1>3, <1>4, <1>5, <1>6 DEF Next

\* Every variable keeps its type.
THEOREM TypeCorrect == Spec => []TypeOK
<1>1. Init => TypeOK /\ TruthInv
  BY StartIsTrue
<1>2. TypeOK /\ TruthInv /\ [Next]_vars => (TypeOK /\ TruthInv)'
  BY StepKeepsTruth
<1>3. QED
  BY <1>1, <1>2, PTL DEF Spec

\* What is held, shown, recorded or about to be of a run is true of it.
THEOREM TruthInvariant == Spec => []TruthInv
<1>1. Init => TypeOK /\ TruthInv
  BY StartIsTrue
<1>2. TypeOK /\ TruthInv /\ [Next]_vars => (TypeOK /\ TruthInv)'
  BY StepKeepsTruth
<1>3. QED
  BY <1>1, <1>2, PTL DEF Spec

\* A run's summary is put into the conversation at most once.
THEOREM OneInjection == Spec => []InjectedOnce
<1>1. TruthInv => InjectedOnce
  BY DEF TruthInv
<1>2. QED
  BY <1>1, TruthInvariant, PTL

\* A record of a job that was submitted says that it ended only if it did, with a word
\* that is true of its end; one of a submission that returned an error says failed.
THEOREM RecordsAreTrue == Spec => []RecordTellsTheEnd
<1>1. TruthInv => RecordTellsTheEnd
  BY DEF TruthInv, ExperimentsInv, RunInv, RecordTellsTheEnd
<1>2. QED
  BY <1>1, TruthInvariant, PTL

\* The assistant is shown of a run what is true of its end, or that its submission
\* failed; a kept summary says that, or that the run failed because MLflow says so.
THEOREM SummariesAreTrue == Spec => []SummaryTellsTheEnd
<1>1. TruthInv => SummaryTellsTheEnd
  BY DEF TruthInv, ExperimentsInv, RunInv, MessagesInv, SummaryTellsTheEnd, Claims
<1>2. QED
  BY <1>1, TruthInvariant, PTL

-----------------------------------------------------------------------------
(* A run is let go of for a reason.                                         *)

\* As many turns left a run unread as were counted silent; the one that was just
\* waited for is not counted yet.
SilenceInv ==
    /\ \A r \in Runs : held[r].silent <= chat.unread[r]
    /\ delivery.pc = "wait" /\ chat.turn = "delivery" => chat.for = delivery.run
    /\ delivery.pc = "reread" \/ (delivery.pc = "wait" /\ chat.turn # "delivery") =>
          \/ chat.gone
          \/ Answered(delivery.run)
          \/ held[delivery.run].silent < chat.unread[delivery.run]

\* An answer stays one when a message is added that is no second summary.
LEMMA AnswerStays ==
    ASSUME chat \in ChatType, NEW m \in Message, NEW r \in Runs, Answered(r),
           chat'.messages = Append(chat.messages, m),
           m.about = r => ~Injected(r)
    PROVE  Answered(r)'
<1> DEFINE n == Len(chat.messages)
<1>1. /\ chat.messages \in Seq(Message) /\ n \in Nat /\ DOMAIN chat.messages = 1..n
  BY DEF ChatType
<1>2. /\ DOMAIN chat'.messages = 1..(n + 1)
      /\ \A i \in 1..n : chat'.messages[i] = chat.messages[i]
      /\ chat'.messages[n + 1] = m
  BY <1>1, AppendProperties
<1>3. PICK i \in Window(r) : ~\E k \in Summaries(r) : k > i /\ ~Closed(r, k)
  BY DEF Answered
<1>4. i \in 1..n /\ (\E k \in Summaries(r) : k < i) /\ chat.messages[i] = Text
      /\ ~Closed(r, i) /\ Summaries(r) \subseteq 1..n
  BY <1>1, <1>3 DEF Window, Summaries
<1>5. Summaries(r)' = Summaries(r)
  <2>1. m.about # r
    BY <1>4 DEF Injected
  <2>2. QED
    BY <1>1, <1>2, <2>1 DEF Summaries
<1>6. ASSUME NEW j \in 1..n PROVE Closed(r, j)' <=> Closed(r, j)
  <2>1. Closed(r, j) => Closed(r, j)'
    BY <1>1, <1>2, <1>5 DEF Closed
  <2>2. ASSUME NEW l \in 1..(n + 1), NEW k \in Summaries(r), k < l, l < j,
               chat'.messages[l].about \notin {0, r}
        PROVE  Closed(r, j)
    <3>1. l \in 1..n
      BY <1>1, <1>6, <2>2
    <3>2. QED
      BY <1>1, <1>2, <2>2, <3>1 DEF Closed
  <2>3. Closed(r, j)' => Closed(r, j)
    BY <1>2, <1>5, <2>2 DEF Closed
  <2>4. QED
    BY <2>1, <2>3
<1>7. i \in Window(r)'
  BY <1>1, <1>2, <1>4, <1>5, <1>6 DEF Window, Text
<1>8. ~\E k \in Summaries(r)' : k > i /\ ~Closed(r, k)'
  BY <1>3, <1>4, <1>5, <1>6
<1>9. QED
  BY <1>7, <1>8 DEF Answered

LEMMA SameMessages ==
    ASSUME UNCHANGED chat.messages, NEW r \in Runs
    PROVE  Answered(r)' <=> Answered(r)
BY DEF Answered, Window, Summaries, Closed

\* Steps that count nobody silent, and begin or end no wait.
LEMMA SilenceFrame ==
    ASSUME TypeOK, PassInv, SilenceInv, LetGoForAReason,
           \A r \in Runs : held'[r].silent \in Nat /\ held'[r].silent <= held[r].silent,
           \/ delivery'.pc \notin {"wait", "reread"}
           \/ delivery'.pc = delivery.pc /\ delivery'.run = delivery.run,
           UNCHANGED <<chat, interpreted>>
    PROVE  SilenceInv' /\ LetGoForAReason'
<1>1. /\ held \in [Runs -> HeldType] /\ chat \in ChatType /\ interpreted \subseteq Runs
  BY InterpretTypes
<1>2. /\ chat.unread \in [Runs -> 0..maxSilentTurns]
      /\ \A r \in Runs : held[r].silent \in 0..(maxSilentTurns - 1)
  BY <1>1 DEF HeldType, ChatType
<1>3. \A r \in Runs : Answered(r)' <=> Answered(r)
  BY SameMessages
<1>4. delivery.pc \in {"wait", "reread"} => delivery.run \in Runs
  BY DEF PassInv, WithItem, Pending
<1>5. SilenceInv'
  BY <1>2, <1>3, <1>4, InterpretAssumption DEF SilenceInv
<1>6. LetGoForAReason'
  BY <1>1, <1>3 DEF LetGoForAReason
<1>7. QED
  BY <1>5, <1>6

\* What a reason for letting go is stays one while answers stay.
LEMMA ReasonsStay ==
    ASSUME TypeOK, LetGoForAReason,
           chat.gone => chat'.gone,
           \A r \in Runs : Answered(r) => Answered(r)' \/ chat'.gone,
           chat' \in ChatType,
           \A r \in Runs : chat.unread[r] <= chat'.unread[r],
           \A r \in interpreted' \ interpreted :
              chat'.gone \/ Answered(r)' \/ chat'.unread[r] >= maxSilentTurns,
           interpreted' \subseteq Runs
    PROVE  LetGoForAReason'
<1>1. /\ \A r \in Runs : chat.unread[r] \in Nat /\ chat'.unread[r] \in Nat
      /\ interpreted \subseteq Runs
  BY InterpretTypes, InterpretAssumption DEF ChatType
<1>2. SUFFICES ASSUME NEW r \in Runs, r \in interpreted'
               PROVE  \/ chat'.gone
                      \/ Answered(r)'
                      \/ chat'.unread[r] >= maxSilentTurns
  BY <1>1 DEF LetGoForAReason, Answered, Window, Summaries, Closed
<1>3. CASE r \in interpreted
  <2>1. chat.gone \/ Answered(r) \/ chat.unread[r] >= maxSilentTurns
    BY <1>3 DEF LetGoForAReason
  <2>2. QED
    BY <1>1, <2>1, InterpretAssumption
<1>4. QED
  BY <1>2, <1>3

\* An item's turn ends: it is let go of for a reason, or counted silent when a turn
\* has left it unread.
LEMMA ItemOverSilence ==
    ASSUME TypeOK, TruthInv, SilenceInv, LetGoForAReason,
           NEW r \in Pending,
           Retire(r) => \/ chat'.gone \/ Answered(r)'
                        \/ chat'.unread[r] >= maxSilentTurns,
           \/ Retire(r) \/ Refused(r)
           \/ Silent(r) /\ (Retire(r) \/ held[r].silent < chat.unread[r]),
           chat' \in ChatType, chat'.gone = chat.gone, chat'.unread = chat.unread,
           \A q \in Runs : Answered(q) => Answered(q)'
    PROVE  SilenceInv' /\ LetGoForAReason'
<1>1. /\ held \in [Runs -> HeldType] /\ chat \in ChatType /\ interpreted \subseteq Runs
      /\ r \in Runs
  BY InterpretTypes DEF Pending
<1>2. /\ chat.unread \in [Runs -> 0..maxSilentTurns]
      /\ \A q \in Runs : held[q].silent \in 0..(maxSilentTurns - 1)
      /\ \A q \in Runs : held[q].silent <= chat.unread[q]
  BY <1>1 DEF HeldType, ChatType, SilenceInv
<1>3. /\ \A q \in Runs \ {r} : held'[q] = held[q]
      /\ interpreted' \subseteq Runs
      /\ delivery' = [delivery EXCEPT !.pc = "deliver", !.run = 0, !.summary = "none"]
  BY <1>1, ItemEnds
<1>4. held'[r].silent <= chat.unread[r]
  <2>1. CASE Retire(r)
    BY <1>1, <1>2, <2>1, InterpretAssumption DEF Retire, NotHeld
  <2>2. CASE Refused(r)
    <3>1. CASE held' = [held EXCEPT ![r] = NotHeld]
      BY <1>1, <1>2, <3>1, InterpretAssumption DEF NotHeld
    <3>2. CASE held' = [held EXCEPT ![r].attempts = @ + 1]
      BY <1>1, <1>2, <3>2 DEF HeldType
    <3>3. QED
      BY <2>2, <3>1, <3>2 DEF Refused
  <2>3. CASE Silent(r) /\ ~Retire(r) /\ held[r].silent < chat.unread[r]
    <3>1. held' = [held EXCEPT ![r].silent = @ + 1, ![r].attempts = @ + 1]
      BY <2>3 DEF Silent
    <3>2. held'[r].silent = held[r].silent + 1
      BY <1>1, <3>1 DEF HeldType
    <3>3. QED
      BY <1>1, <1>2, <2>3, <3>2, InterpretAssumption
  <2>4. QED
    BY <2>1, <2>2, <2>3
<1>5. delivery'.pc = "deliver"
  BY <1>3, InterpretTypes DEF DeliveryType
<1>6. SilenceInv'
  BY <1>2, <1>3, <1>4, <1>5 DEF SilenceInv
<1>7. interpreted' = interpreted \/ (Retire(r) /\ interpreted' = interpreted \union {r})
  BY DEF Retire, Refused, Silent
<1>8. LetGoForAReason'
  <2>1. \A q \in Runs : chat.unread[q] <= chat'.unread[q]
    BY <1>2, InterpretAssumption
  <2>2. \A q \in interpreted' \ interpreted :
           chat'.gone \/ Answered(q)' \/ chat'.unread[q] >= maxSilentTurns
    BY <1>1, <1>7
  <2>3. QED
    BY <1>3, <2>1, <2>2, ReasonsStay
<1>9. QED
  BY <1>6, <1>8

LEMMA SilentActions ==
    ASSUME TypeOK, TruthInv, SilenceInv, LetGoForAReason,
           \/ ExperimentsStep /\ UNCHANGED interpretVars
           \/ RefreshStep(Delivery) /\ UNCHANGED interpretVars
           \/ RunFinished \/ StartPass \/ Summarise \/ StartDelivery \/ TakeItem
           \/ Graded \/ Connect \/ Disconnect \/ UNCHANGED vars
    PROVE  SilenceInv' /\ LetGoForAReason'
<1>1. held \in [Runs -> HeldType] /\ PassInv /\ delivery \in DeliveryType
  BY InterpretTypes DEF TruthInv
<1>2. \A r \in Runs : held[r].silent \in Nat
  BY <1>1, InterpretAssumption DEF HeldType
<1>3. UNCHANGED <<chat, interpreted>>
  BY DEF interpretVars, RunFinished, StartPass, Summarise, StartDelivery, TakeItem,
         Graded, Connect, Disconnect, vars
<1>4. CASE UNCHANGED <<held, delivery>>
  BY <1>2, <1>3, <1>4, SilenceFrame, <1>1
<1>5. CASE RunFinished
  <2>1. PICK x \in poller.todo :
           held' = held \/ held' = [held EXCEPT ![x[1]] = [NotHeld EXCEPT !.in = TRUE,
                                                                          !.status = x[2]]]
    BY <1>5 DEF RunFinished
  <2>2. \A r \in Runs : held'[r].silent = held[r].silent \/ held'[r].silent = 0
    BY <1>1, <2>1 DEF NotHeld
  <2>3. \A r \in Runs : held'[r].silent \in Nat /\ held'[r].silent <= held[r].silent
    BY <1>2, <2>2
  <2>4. UNCHANGED delivery
    BY <1>5 DEF RunFinished
  <2>5. QED
    BY <1>1, <1>3, <2>3, <2>4, SilenceFrame
<1>6. CASE Summarise
  <2>1. PICK r \in Runs : held' = held
                          \/ held' = [held EXCEPT ![r].summary =
                                                    Reconciled(r, held[r].status)]
    BY <1>1, <1>6 DEF Summarise, First, DeliveryType
  <2>2. \A q \in Runs : held'[q].silent = held[q].silent
    BY <1>1, <2>1 DEF HeldType
  <2>3. delivery'.pc = "summarise"
    BY <1>1, <1>6 DEF Summarise, DeliveryType
  <2>4. \A q \in Runs : held'[q].silent \in Nat /\ held'[q].silent <= held[q].silent
    BY <1>2, <2>2
  <2>5. QED
    BY <1>1, <1>3, <2>3, <2>4, SilenceFrame
<1>7. CASE StartPass \/ StartDelivery \/ TakeItem \/ Graded
  <2>1. delivery'.pc \notin {"wait", "reread"} /\ UNCHANGED held
    <3>1. CASE StartPass
      BY <3>1 DEF StartPass, NoPass
    <3>2. CASE StartDelivery
      BY <3>2 DEF StartDelivery, NoPass
    <3>3. CASE TakeItem
      <4>1. \/ delivery' = NoPass
            \/ \E r \in First(delivery.todo) :
                  \/ delivery' = [delivery EXCEPT !.todo = @ \ {r}]
                  \/ delivery' = [delivery EXCEPT !.pc = "session",
                                                 !.todo = @ \ {r}, !.run = r]
        BY <3>3 DEF TakeItem
      <4>2. delivery.pc = "deliver"
        BY <3>3 DEF TakeItem
      <4>3. delivery'.pc \notin {"wait", "reread"}
        <5>1. CASE delivery' = NoPass
          BY <5>1 DEF NoPass
        <5>2. ASSUME NEW r,
                     \/ delivery' = [delivery EXCEPT !.todo = @ \ {r}]
                     \/ delivery' = [delivery EXCEPT !.pc = "session",
                                                    !.todo = @ \ {r}, !.run = r]
              PROVE  delivery'.pc \notin {"wait", "reread"}
          BY <1>1, <4>2, <5>2 DEF DeliveryType
        <5>3. QED
          BY <4>1, <5>1, <5>2
      <4>4. UNCHANGED held
        BY <3>3 DEF TakeItem
      <4>5. QED
        BY <4>3, <4>4
    <3>4. CASE Graded
      <4>1. PICK word : delivery' = [delivery EXCEPT !.pc = "read", !.summary = word]
        BY <3>4 DEF Graded
      <4>2. QED
        BY <1>1, <3>4, <4>1 DEF Graded, DeliveryType
    <3>5. QED
      BY <1>7, <3>1, <3>2, <3>3, <3>4
  <2>2. QED
    BY <1>1, <1>2, <1>3, <2>1, SilenceFrame
<1>8. QED
  BY <1>4, <1>5, <1>6, <1>7 DEF interpretVars, Connect, Disconnect, vars

\* The steps of a pass that look at the conversation, and may be over with the item.
LEMMA ItemActions ==
    ASSUME TypeOK, TruthInv, SilenceInv, LetGoForAReason,
           FindSession \/ ReadMessages \/ Wait \/ Reread
    PROVE  SilenceInv' /\ LetGoForAReason'
<1> DEFINE r == delivery.run
<1>1. /\ delivery.pc \in WithItem \ {"grade"} /\ chat \in ChatType
      /\ UNCHANGED chat /\ r \in Pending /\ PassInv
      /\ delivery \in DeliveryType /\ held \in [Runs -> HeldType]
      /\ chat' \in ChatType
  BY InterpretTypes
     DEF FindSession, ReadMessages, Wait, Reread, TruthInv, PassInv, WithItem
<1>2. \A q \in Runs : Answered(q)' <=> Answered(q)
  BY <1>1, SameMessages
<1>3. r \in Runs
  BY <1>1 DEF Pending
<1>4. ASSUME Retire(r), chat.gone \/ Answered(r) \/ chat.unread[r] >= maxSilentTurns
      PROVE  SilenceInv' /\ LetGoForAReason'
  BY <1>1, <1>2, <1>3, <1>4, ItemOverSilence
<1>5. ASSUME Refused(r) PROVE SilenceInv' /\ LetGoForAReason'
  <2>1. ~Retire(r) \/ r \in interpreted
    BY <1>5 DEF Refused, Retire
  <2>2. r \in interpreted => \/ chat.gone \/ Answered(r)
                             \/ chat.unread[r] >= maxSilentTurns
    BY DEF LetGoForAReason
  <2>3. QED
    BY <1>1, <1>2, <1>3, <1>5, <2>1, <2>2, ItemOverSilence
<1>6. ASSUME NEW label \in WithItem, Goto(label), UNCHANGED <<held, interpreted>>,
             label = "reread" => delivery.pc = "wait" /\ chat.turn # "delivery",
             label # "wait"
      PROVE  SilenceInv' /\ LetGoForAReason'
  <2>1. delivery'.pc = label /\ delivery'.run = r
    BY <1>6, GotoEffect
  <2>2. LetGoForAReason'
    BY <1>1, <1>2, <1>6, InterpretTypes DEF LetGoForAReason
  <2>3. SilenceInv'
    BY <1>1, <1>2, <1>3, <1>6, <2>1 DEF SilenceInv
  <2>4. QED
    BY <2>2, <2>3
<1>7. CASE FindSession
  BY <1>4, <1>5, <1>6, <1>7 DEF FindSession, WithItem
<1>8. CASE ReadMessages
  BY <1>4, <1>5, <1>6, <1>8 DEF ReadMessages, WithItem
<1>9. CASE Wait
  BY <1>5, <1>6, <1>9 DEF Wait, WithItem
<1>10. CASE Reread
  <2>1. CASE Refused(r)
    BY <1>5, <2>1
  <2>2. CASE Retire(r) /\ Answered(r)
    BY <1>4, <2>2
  <2>3. CASE ~chat.gone /\ ~Answered(r) /\ Silent(r)
    <3>1. /\ held[r].silent < chat.unread[r]
          /\ held[r].silent \in Nat /\ chat.unread[r] \in Nat
      BY <1>1, <1>3, <1>10, <2>3, InterpretAssumption
         DEF Reread, SilenceInv, HeldType, ChatType
    <3>2. held[r].silent + 1 >= maxSilentTurns => chat.unread[r] >= maxSilentTurns
      BY <3>1, InterpretAssumption
    <3>3. CASE held[r].silent + 1 >= maxSilentTurns
      BY <1>4, <2>3, <3>2, <3>3 DEF Silent
    <3>4. CASE ~(held[r].silent + 1 >= maxSilentTurns)
      <4>1. ~Retire(r) \/ r \in interpreted
        BY <2>3, <3>4 DEF Silent, Retire
      <4>2. r \in interpreted => \/ chat.gone \/ Answered(r)
                                 \/ chat.unread[r] >= maxSilentTurns
        BY DEF LetGoForAReason
      <4>3. QED
        BY <1>1, <1>2, <1>3, <2>3, <3>1, <4>1, <4>2, ItemOverSilence
    <3>5. QED
      BY <3>3, <3>4
  <2>4. QED
    BY <1>10, <2>1, <2>2, <2>3 DEF Reread
<1>11. QED
  BY <1>7, <1>8, <1>9, <1>10

\* Steps that change the conversation and end no item's turn.
LEMMA ChatFrame ==
    ASSUME TypeOK, TruthInv, SilenceInv, LetGoForAReason, chat' \in ChatType,
           UNCHANGED <<held, interpreted, delivery>>,
           chat.gone => chat'.gone,
           \A r \in Runs : Answered(r) => Answered(r)' \/ chat'.gone,
           \A r \in Runs : chat.unread[r] <= chat'.unread[r],
           chat'.turn = "delivery" <=> chat.turn = "delivery",
           chat'.turn = "delivery" => chat'.for = chat.for
    PROVE  SilenceInv' /\ LetGoForAReason'
<1>1. /\ held \in [Runs -> HeldType] /\ chat \in ChatType /\ interpreted \subseteq Runs
      /\ PassInv
  BY InterpretTypes DEF TruthInv
<1>2. LetGoForAReason'
  BY <1>1, ReasonsStay
<1>3. \A r \in Runs : /\ held[r].silent \in Nat /\ chat.unread[r] \in Nat
                      /\ chat'.unread[r] \in Nat
                      /\ chat.unread[r] <= chat'.unread[r]
  BY <1>1, InterpretAssumption DEF HeldType, ChatType
<1>4. delivery.pc \in {"wait", "reread"} => delivery.run \in Runs
  BY <1>1 DEF PassInv, WithItem, Pending
<1>5. (\A r \in Runs : held[r].silent <= chat.unread[r])'
  BY <1>3 DEF SilenceInv
<1>6. (delivery.pc = "wait" /\ chat.turn = "delivery" => chat.for = delivery.run)'
  BY DEF SilenceInv
<1>7. SUFFICES ASSUME \/ delivery.pc = "reread"
                      \/ delivery.pc = "wait" /\ chat.turn # "delivery"
               PROVE  \/ chat'.gone \/ Answered(delivery.run)'
                      \/ held[delivery.run].silent < chat'.unread[delivery.run]
  BY <1>2, <1>5, <1>6 DEF SilenceInv, Answered, Window, Summaries, Closed
<1>8. QED
  BY <1>3, <1>4, <1>7 DEF SilenceInv

\* The turn that ends has answered its run, or left it unread once more.
LEMMA TurnEndsSilence ==
    ASSUME TypeOK, TruthInv, SilenceInv, LetGoForAReason, TurnEnds
    PROVE  SilenceInv' /\ LetGoForAReason'
<1>1. /\ held \in [Runs -> HeldType] /\ chat \in ChatType /\ interpreted \subseteq Runs
      /\ PassInv /\ UNCHANGED <<held, interpreted, delivery>>
  BY InterpretTypes DEF TruthInv, TurnEnds
<1>2. PICK unread :
         /\ unread = [r \in Runs |->
               IF r = chat.for /\ ~Answered(r) /\ chat.unread[r] < maxSilentTurns
               THEN chat.unread[r] + 1 ELSE chat.unread[r]]
         /\ chat' = [chat EXCEPT !.turn = "none", !.for = 0, !.spoke = FALSE,
                                 !.unread = unread]
  BY DEF TurnEnds
<1>3. /\ chat.unread \in [Runs -> 0..maxSilentTurns]
      /\ \A r \in Runs : held[r].silent \in 0..(maxSilentTurns - 1)
  BY <1>1 DEF HeldType, ChatType
<1>4. unread \in [Runs -> 0..maxSilentTurns]
  BY <1>2, <1>3, InterpretAssumption
<1>5. /\ chat' \in ChatType /\ chat'.turn = "none" /\ chat'.unread = unread
      /\ chat'.messages = chat.messages /\ chat'.gone = chat.gone
  BY <1>1, <1>2, <1>4 DEF ChatType
<1>6. \A r \in Runs : Answered(r)' <=> Answered(r)
  BY <1>5, SameMessages
<1>7. \A r \in Runs : chat.unread[r] <= chat'.unread[r]
  BY <1>2, <1>3, <1>5, InterpretAssumption
<1>8. LetGoForAReason'
  BY <1>1, <1>5, <1>6, <1>7, ReasonsStay
<1>9. (\A r \in Runs : held[r].silent <= chat.unread[r])'
  BY <1>1, <1>3, <1>4, <1>5, <1>7, InterpretAssumption DEF SilenceInv
<1>10. ASSUME NEW r \in Runs, r = delivery.run, delivery.pc \in {"wait", "reread"}
       PROVE  chat'.gone \/ Answered(r)' \/ held[r].silent < chat'.unread[r]
  <2>1. CASE delivery.pc = "wait" /\ chat.turn = "delivery"
    <3>1. chat.for = r
      BY <1>10, <2>1 DEF SilenceInv
    <3>2. CASE ~Answered(r)
      <4>1. /\ held[r].silent <= chat.unread[r]
            /\ held[r].silent \in 0..(maxSilentTurns - 1)
            /\ chat.unread[r] \in 0..maxSilentTurns
        BY <1>3 DEF SilenceInv
      <4>2. chat'.unread[r] = IF chat.unread[r] < maxSilentTurns
                              THEN chat.unread[r] + 1 ELSE chat.unread[r]
        BY <1>2, <1>5, <3>1, <3>2
      <4>3. QED
        BY <4>1, <4>2, InterpretAssumption
    <3>3. QED
      BY <1>6, <3>2
  <2>2. CASE ~(delivery.pc = "wait" /\ chat.turn = "delivery")
    <3>1. chat.gone \/ Answered(r) \/ held[r].silent < chat.unread[r]
      BY <1>10, <2>2 DEF SilenceInv
    <3>2. /\ held[r].silent \in Nat /\ chat.unread[r] \in Nat /\ chat'.unread[r] \in Nat
          /\ chat.unread[r] <= chat'.unread[r]
      BY <1>3, <1>4, <1>5, <1>7, InterpretAssumption
    <3>3. QED
      BY <1>5, <1>6, <3>1, <3>2
  <2>3. QED
    BY <2>1, <2>2
<1>11. SilenceInv'
  <2>1. CASE delivery.pc \notin {"wait", "reread"}
    BY <1>1, <1>5, <1>9, <2>1 DEF SilenceInv
  <2>2. CASE delivery.pc \in {"wait", "reread"}
    <3>1. PICK r \in Runs : r = delivery.run
      BY <2>2 DEF TruthInv, PassInv, WithItem, Pending
    <3>2. /\ r = delivery'.run /\ UNCHANGED held
          /\ chat'.gone \/ Answered(r)' \/ held[r].silent < chat'.unread[r]
      BY <1>1, <1>10, <2>2, <3>1
    <3>3. Answered(r)' => Answered(delivery.run)'
      BY <3>2 DEF Answered, Window, Summaries, Closed
    <3>4. QED
      BY <1>5, <1>9, <3>2, <3>3 DEF SilenceInv
  <2>3. QED
    BY <2>1, <2>2
<1>12. QED
  BY <1>8, <1>11

LEMMA StartTurnSilence ==
    ASSUME TypeOK, TruthInv, SilenceInv, LetGoForAReason, StartTurn
    PROVE  SilenceInv' /\ LetGoForAReason'
<1> DEFINE r == delivery.run
           sent == IF delivery.pc = "send"
                   THEN Append(chat.messages, Summary(r, delivery.summary))
                   ELSE chat.messages
<1>1. /\ delivery.pc \in {"send", "continue"} /\ delivery.pc \in WithItem
      /\ chat \in ChatType /\ r \in Pending /\ r \in Runs /\ PassInv
      /\ held \in [Runs -> HeldType] /\ interpreted \subseteq Runs
      /\ delivery.pc = "send" => ~Injected(r)
      /\ delivery.summary \in Ended
  BY InterpretTypes DEF StartTurn, TruthInv, PassInv, WithItem, Pending
<1>2. chat' \in ChatType
  BY StartTurnKeepsTruth, TypesUnfold DEF TypeOK, ChatType, Message
<1>3. PICK m \in Message : m.about = r /\ m = Summary(r, delivery.summary)
  BY <1>1 DEF Summary, Message, Statuses
<1>4. ASSUME chat'.messages = chat.messages \/ chat'.messages = sent
      PROVE  \A q \in Runs : Answered(q) => Answered(q)'
  <2>1. CASE chat'.messages = chat.messages
    BY <2>1, SameMessages
  <2>2. CASE delivery.pc = "send" /\ chat'.messages = Append(chat.messages, m)
    BY <1>1, <1>3, <2>2, AnswerStays
  <2>3. QED
    BY <1>3, <1>4, <2>1, <2>2
<1>5. CASE /\ Refused(r)
           /\ \/ UNCHANGED chat
              \/ \E messages \in {chat.messages, sent} :
                    chat' = [chat EXCEPT !.messages = messages]
  <2>1. /\ chat'.messages = chat.messages \/ chat'.messages = sent
        /\ chat'.gone = chat.gone /\ chat'.unread = chat.unread
    BY <1>1, <1>5 DEF ChatType
  <2>2. ~Retire(r) \/ r \in interpreted
    BY <1>5 DEF Refused, Retire
  <2>3. r \in interpreted => \/ chat.gone \/ Answered(r)
                             \/ chat.unread[r] >= maxSilentTurns
    BY DEF LetGoForAReason
  <2>4. \A q \in Runs : Answered(q) => Answered(q)'
    BY <1>4, <2>1
  <2>5. QED
    BY <1>1, <1>2, <1>5, <2>1, <2>2, <2>3, <2>4, ItemOverSilence
<1>6. CASE /\ chat' = [chat EXCEPT !.messages = sent, !.turn = "delivery", !.for = r]
           /\ Goto("wait") /\ UNCHANGED <<held, interpreted>>
  <2>1. /\ chat'.messages = sent /\ chat'.gone = chat.gone
        /\ chat'.unread = chat.unread /\ chat'.turn = "delivery" /\ chat'.for = r
    BY <1>1, <1>6 DEF ChatType
  <2>2. delivery'.pc = "wait" /\ delivery'.run = r
    BY <1>6, GotoEffect DEF WithItem
  <2>3. \A q \in Runs : Answered(q) => Answered(q)'
    BY <1>4, <2>1
  <2>4. \A q \in Runs : chat.unread[q] <= chat'.unread[q]
    BY <1>1, <2>1, InterpretAssumption DEF ChatType
  <2>5. LetGoForAReason'
    BY <1>1, <1>2, <1>6, <2>1, <2>3, <2>4, ReasonsStay
  <2>6. SilenceInv'
    BY <1>6, <2>1, <2>2 DEF SilenceInv
  <2>7. QED
    BY <2>5, <2>6
<1>7. QED
  BY <1>5, <1>6 DEF StartTurn

LEMMA ChatSilence ==
    ASSUME TypeOK, TruthInv, SilenceInv, LetGoForAReason,
           Speak \/ Ask \/ DeleteSession
    PROVE  SilenceInv' /\ LetGoForAReason'
<1>1. /\ chat \in ChatType /\ UNCHANGED <<held, interpreted, delivery>>
  BY InterpretTypes DEF Speak, Ask, DeleteSession
<1>2. chat' \in ChatType
  BY ChatKeepsTruth DEF TypeOK, ChatType, Message
<1>3. \A r \in Runs : chat.unread[r] \in Nat
  BY <1>1, InterpretAssumption DEF ChatType
<1>4. CASE Speak
  <2>1. /\ chat'.messages = Append(chat.messages, Text)
        /\ chat'.gone = chat.gone /\ chat'.unread = chat.unread
        /\ chat'.turn = chat.turn /\ chat'.for = chat.for
    BY <1>1, <1>4 DEF Speak, ChatType
  <2>2. Text \in Message /\ Text.about = 0 /\ 0 \notin Runs
    BY RunsAssumption DEF Text, Message, Statuses
  <2>3. PICK m \in Message : m = Text
    BY <2>2
  <2>4. \A r \in Runs : Answered(r) => Answered(r)'
    BY <1>1, <2>1, <2>2, <2>3, AnswerStays
  <2>5. QED
    BY <1>1, <1>2, <1>3, <2>1, <2>4, ChatFrame
<1>5. CASE Ask
  <2>1. /\ chat.turn = "none" /\ chat' = [chat EXCEPT !.turn = "developer"]
    BY <1>5 DEF Ask
  <2>2. /\ chat'.messages = chat.messages /\ chat'.gone = chat.gone
        /\ chat'.unread = chat.unread /\ chat'.turn = "developer"
    BY <1>1, <2>1 DEF ChatType
  <2>3. \A r \in Runs : Answered(r) => Answered(r)'
    BY <2>2, SameMessages
  <2>4. QED
    BY <1>1, <1>2, <1>3, <2>1, <2>2, <2>3, ChatFrame
<1>6. CASE DeleteSession
  <2>1. /\ chat'.gone /\ chat'.unread = chat.unread
        /\ chat'.turn = chat.turn /\ chat'.for = chat.for
    BY <1>1, <1>6 DEF DeleteSession, ChatType
  <2>2. QED
    BY <1>1, <1>2, <1>3, <2>1, ChatFrame
<1>7. QED
  BY <1>4, <1>5, <1>6

LEMMA RestartSilence ==
    ASSUME TypeOK, TruthInv, SilenceInv, LetGoForAReason, Restart
    PROVE  SilenceInv' /\ LetGoForAReason'
<1>1. chat \in ChatType
  BY InterpretTypes
<1>2. /\ held' = [r \in Runs |-> NotHeld] /\ interpreted' = {}
      /\ delivery' = NoPass
      /\ chat' = [chat EXCEPT !.turn = "none", !.for = 0, !.spoke = FALSE,
                              !.unread = [r \in Runs |-> 0]]
  BY DEF Restart
<1>3. chat'.unread = [r \in Runs |-> 0]
  BY <1>1, <1>2 DEF ChatType
<1>4. QED
  BY <1>2, <1>3 DEF SilenceInv, LetGoForAReason, NotHeld, NoPass

LEMMA SilenceIsKept == Spec => []SilenceInv /\ []LetGoForAReason
<1> DEFINE Inv == TypeOK /\ TruthInv /\ SilenceInv /\ LetGoForAReason
<1>1. Init => Inv
  <2>1. SUFFICES ASSUME Init PROVE SilenceInv /\ LetGoForAReason
    BY StartIsTrue
  <2>2. /\ held = [r \in Runs |-> NotHeld] /\ interpreted = {} /\ delivery = NoPass
        /\ chat.unread = [r \in Runs |-> 0]
    BY <2>1 DEF Init
  <2>3. QED
    BY <2>2 DEF SilenceInv, LetGoForAReason, NotHeld, NoPass
<1>2. Inv /\ [Next]_vars => Inv'
  <2>1. SUFFICES ASSUME TypeOK, TruthInv, SilenceInv, LetGoForAReason, [Next]_vars
                 PROVE  SilenceInv' /\ LetGoForAReason'
    BY StepKeepsTruth
  <2>2. QED
    BY <2>1, SilentActions, ItemActions, TurnEndsSilence, StartTurnSilence,
       ChatSilence, RestartSilence DEF Next, DeliveryStep
<1>3. Inv => SilenceInv /\ LetGoForAReason
  OBVIOUS
<1>4. QED
  BY <1>1, <1>2, <1>3, PTL DEF Spec

\* A run is let go of for good only for a reason.
THEOREM GivenUpForAReason == Spec => []LetGoForAReason
BY SilenceIsKept, PTL

-----------------------------------------------------------------------------
(* A settled record comes back only by an answer that is late.              *)

\* An answer is on its way to the record that says the job still runs.
Late(a, r) ==
    /\ refresh[a].pc \in {"put", "settle"}
    /\ refresh[a].run = r /\ refresh[a].status = Open

\* Of a run that is over and has a record: no new answer says that it runs; and one
\* that is on its way takes the record back once, and is gone then (refresh, Stop,
\* the poller).  So a record is taken back at most as often as there were such
\* answers when the job ended.
OnlyLateAnswersReopen ==
    \A r \in Runs : Said(r) /\ Over(r) =>
        /\ Said(r)' /\ Over(r)'
        /\ \A a \in Actors : Late(a, r)' => Late(a, r)
        /\ run[r].record \in Ended /\ run'[r].record \notin Ended =>
              \E a \in Actors : Late(a, r) /\ ~Late(a, r)'

\* A step that writes no record, and after which no answer is new.
LEMMA NothingReopens ==
    ASSUME \A r \in Runs : Said(r) /\ Over(r) =>
              /\ run'[r].record = run[r].record
              /\ Over(r)',
           \A a \in Actors : \/ refresh'[a] = refresh[a]
                             \/ refresh'[a].pc \notin {"put", "settle"}
    PROVE  OnlyLateAnswersReopen
BY DEF OnlyLateAnswersReopen, Late, Said

LEMMA RefreshReopensLate ==
    ASSUME ExperimentsTypeOK, NEW a \in Actors, RefreshInv(a), RefreshStep(a)
    PROVE  OnlyLateAnswersReopen
<1>1. run \in [Runs -> RunType] /\ refresh \in [Actors -> RefreshType]
  BY TypesUnfold DEF RunsFit
<1>2. CASE AskRay(a)
  <2>1. PICK r \in Runs : refresh[a].run = r /\ UNCHANGED run
    BY <1>2 DEF AskRay, RefreshInv
  <2>2. CASE Reply(a, "none")
    <3>1. "none" \in Statuses
      BY DEF Statuses
    <3>2. /\ \A b \in Actors \ {a} : refresh'[b] = refresh[b]
          /\ refresh'[a].pc \notin {"put", "settle"}
      BY <1>1, <2>2, <3>1, ReplyEffect DEF NoRefresh
    <3>3. QED
      BY <2>1, <3>2, NothingReopens DEF Over
  <2>3. CASE refresh' = [refresh EXCEPT ![a].pc = "mlflow"]
    <3>1. /\ \A b \in Actors \ {a} : refresh'[b] = refresh[b]
          /\ refresh'[a].pc \notin {"put", "settle"}
      BY <1>1, <2>3 DEF RefreshType
    <3>2. QED
      BY <2>1, <3>1, NothingReopens DEF Over
  <2>4. CASE refresh' = [refresh EXCEPT ![a].pc = "put", ![a].status = run[r].ray]
    <3>1. /\ \A b \in Actors \ {a} : refresh'[b] = refresh[b]
          /\ refresh'[a].status = run[r].ray /\ refresh'[a].run = r
      BY <1>1, <2>1, <2>4 DEF RefreshType
    <3>2. \A q \in Runs : Over(q) => ~Late(a, q)'
      BY <3>1 DEF Late, Over, Open, Ended
    <3>3. \A b \in Actors \ {a} : \A q \in Runs : Late(b, q)' => Late(b, q)
      BY <3>1 DEF Late
    <3>4. QED
      BY <2>1, <3>2, <3>3 DEF OnlyLateAnswersReopen, Said, Over
  <2>5. QED
    BY <1>2, <2>1, <2>2, <2>3, <2>4 DEF AskRay
<1>3. CASE SettleForgotten(a)
  <2>1. PICK status \in Ended :
           refresh' = [refresh EXCEPT ![a].pc = "settle", ![a].status = status]
    <3>1. {Settled(refresh[a].run), "stopped"} \subseteq Ended
      BY DEF Settled, Ended
    <3>2. QED
      BY <1>3, <3>1 DEF SettleForgotten
  <2>2. /\ \A b \in Actors \ {a} : refresh'[b] = refresh[b]
        /\ refresh'[a].status = status /\ UNCHANGED run
    BY <1>1, <1>3, <2>1 DEF RefreshType, SettleForgotten
  <2>3. \A q \in Runs : ~Late(a, q)'
    BY <2>2 DEF Late, Open, Ended
  <2>4. \A b \in Actors \ {a} : \A q \in Runs : Late(b, q)' => Late(b, q)
    BY <2>2 DEF Late
  <2>5. QED
    BY <2>2, <2>3, <2>4 DEF OnlyLateAnswersReopen, Said, Over
<1>4. CASE PutRecord(a)
  <2>1. PICK r \in Runs, status \in Statuses :
           /\ refresh[a].run = r /\ refresh[a].status = status /\ status # "none"
           /\ refresh[a].pc \in {"put", "settle"}
    BY <1>1, <1>4 DEF PutRecord, RefreshInv, RefreshType
  <2>2. /\ \A b \in Actors \ {a} : refresh'[b] = refresh[b]
        /\ refresh'[a].pc \notin {"put", "settle"}
    <3>1. "none" \in Statuses
      BY DEF Statuses
    <3>2. Refreshed(a, status) \/ Reply(a, "none")
      BY <1>4, <2>1 DEF PutRecord
    <3>3. QED
      BY <1>1, <3>1, <3>2, RefreshedEffect, ReplyEffect DEF NoRefresh
  <2>3. CASE UNCHANGED run
    BY <2>2, <2>3, NothingReopens DEF Over
  <2>4. CASE run' = [run EXCEPT ![r].record = status]
    <3>1. /\ \A q \in Runs \ {r} : run'[q] = run[q]
          /\ run'[r].record = status /\ run'[r].ray = run[r].ray
      BY <1>1, <2>4 DEF RunType
    <3>2. \A b \in Actors : \A q \in Runs : Late(b, q)' => b # a /\ Late(b, q)
      BY <2>2 DEF Late
    <3>3. run'[r].record \notin Ended => Late(a, r) /\ ~Late(a, r)'
      BY <2>1, <2>2, <3>1 DEF Late, Statuses
    <3>4. QED
      BY <2>1, <3>1, <3>2, <3>3 DEF OnlyLateAnswersReopen, Said, Over
  <2>5. QED
    BY <1>4, <2>1, <2>3, <2>4 DEF PutRecord
<1>5. CASE Results(a)
  <2>1. PICK r \in Runs : refresh[a].run = r
    BY <1>5 DEF Results, RefreshInv
  <2>2. /\ \A q \in Runs \ {r} : run'[q] = run[q]
        /\ run'[r].record = run[r].record /\ run'[r].ray = run[r].ray
    <3>1. UNCHANGED run \/ \E word : run' = [run EXCEPT ![r].kept = word]
      BY <1>5, <2>1 DEF Results
    <3>2. QED
      BY <1>1, <3>1 DEF RunType
  <2>3. PICK word : Reply(a, word)
    BY <1>5 DEF Results
  <2>4. /\ \A b \in Actors \ {a} : refresh'[b] = refresh[b]
        /\ refresh'[a].pc \notin {"put", "settle"}
    BY <1>1, <2>3 DEF Reply, NoRefresh, RefreshType
  <2>5. QED
    BY <2>2, <2>4, NothingReopens DEF Over
<1>6. QED
  BY <1>2, <1>3, <1>4, <1>5 DEF RefreshStep

\* A refresh begins by asking, or has nothing to ask.
LEMMA BegunAsks ==
    ASSUME refresh \in [Actors -> RefreshType], NEW a \in Actors, NEW r, NEW status,
           NEW op, refresh' = Begun(a, r, status, op)
    PROVE  \A b \in Actors : \/ refresh'[b] = refresh[b]
                             \/ refresh'[b].pc \notin {"put", "settle"}
BY DEF Begun

LEMMA ExperimentsReopenLate ==
    ASSUME ExperimentsTypeOK, ExperimentsInv, ExperimentsStep
    PROVE  OnlyLateAnswersReopen
<1>1. /\ RunsFit /\ run \in [Runs -> RunType] /\ refresh \in [Actors -> RefreshType]
      /\ left \in LeftType
  BY TypesUnfold DEF RunsFit
<1>2. Poller \in Actors /\ Readers \subseteq Actors
  BY DEF Actors
<1>3. ASSUME NEW r \in Runs, LaunchStep(r) PROVE OnlyLateAnswersReopen
  <2>1. /\ \A q \in Runs \ {r} : run'[q] = run[q]
        /\ ~Said(r) /\ UNCHANGED refresh
    BY <1>1, <1>3, LaunchEffect DEF ExperimentsInv
  <2>2. QED
    BY <2>1, NothingReopens DEF Over
<1>4. ASSUME NEW r \in Runs,
             JobReports(r) \/ JobEnds(r) \/ JobForgotten(r) \/ OutOfWindow(r)
      PROVE  OnlyLateAnswersReopen
  <2>1. /\ \A q \in Runs \ {r} : run'[q] = run[q]
        /\ run'[r].record = run[r].record /\ UNCHANGED refresh
        /\ run'[r].ray = run[r].ray \/ run[r].ray = Open
    <3>1. CASE JobReports(r)
      BY <1>1, <3>1 DEF JobReports, RunType
    <3>2. CASE JobEnds(r)
      BY <1>1, <3>2 DEF JobEnds, RunType
    <3>3. CASE JobForgotten(r)
      BY <1>1, <3>3 DEF JobForgotten, RunType
    <3>4. CASE OutOfWindow(r)
      BY <1>1, <3>4 DEF OutOfWindow, RunType
    <3>5. QED
      BY <1>4, <3>1, <3>2, <3>3, <3>4
  <2>2. QED
    BY <2>1, NothingReopens DEF Over, Open, Ended
<1>5. ASSUME NEW a \in Readers, Look(a) PROVE OnlyLateAnswersReopen
  <2>1. PICK r \in Runs, op \in {"get", "results"} :
           refresh' = Begun(a, r, run[r].record, op) /\ UNCHANGED run
    BY <1>5 DEF Look
  <2>2. QED
    BY <1>1, <1>2, <2>1, BegunAsks, NothingReopens DEF Over
<1>6. ASSUME NEW a \in Readers, Stop(a) PROVE OnlyLateAnswersReopen
  <2>1. PICK r \in Runs :
           /\ run' = [run EXCEPT
                 ![r].ray = IF @ = Open THEN "stopped" ELSE @,
                 ![r].at = IF run[r].ray = Open THEN EndOf(r) ELSE @]
           /\ refresh' = Begun(a, r, Open, "get")
    BY <1>6 DEF Stop
  <2>2. /\ \A q \in Runs \ {r} : run'[q] = run[q]
        /\ run'[r].record = run[r].record
        /\ run'[r].ray = run[r].ray \/ run[r].ray = Open
    BY <1>1, <2>1 DEF RunType
  <2>3. \A q \in Runs : Said(q) /\ Over(q) => run'[q].record = run[q].record /\ Over(q)'
    BY <2>2 DEF Over, Open, Ended
  <2>4. QED
    BY <1>1, <1>2, <2>1, <2>3, BegunAsks, NothingReopens
<1>7. ASSUME NEW a \in Actors, RefreshStep(a) PROVE OnlyLateAnswersReopen
  BY <1>7, RefreshReopensLate DEF ExperimentsInv
<1>8. CASE SettleNext
  <2>1. PICK r : refresh' = Begun(Poller, r, Open, "get") /\ UNCHANGED run
    BY <1>8 DEF SettleNext
  <2>2. QED
    BY <1>1, <1>2, <2>1, BegunAsks, NothingReopens DEF Over
<1>9. CASE Tick \/ FindFinished
  BY <1>9, NothingReopens DEF Tick, FindFinished, Over
<1>10. CASE TickCut
  <2>1. refresh' = [refresh EXCEPT ![Poller] = NoRefresh] /\ UNCHANGED run
    BY <1>10 DEF TickCut
  <2>2. QED
    BY <1>1, <1>2, <2>1, NothingReopens DEF Over, NoRefresh
<1>11. QED
  BY <1>2, <1>3, <1>4, <1>5, <1>6, <1>7, <1>8, <1>9, <1>10
     DEF ExperimentsStep, PollerStep

\* Whoever looks at a run that is over, its record goes back to running only by an
\* answer that was heard before it ended, and by each of them once.
THEOREM SettledRecordsStay == Spec => [][OnlyLateAnswersReopen]_vars
<1>1. ASSUME TypeOK, TruthInv, Next PROVE OnlyLateAnswersReopen
  <2>1. ExperimentsTypeOK /\ ExperimentsInv /\ refresh \in [Actors -> RefreshType]
    BY <1>1, TypesUnfold DEF TypeOK, TruthInv
  <2>2. CASE UNCHANGED <<run, refresh>>
    BY <2>2, NothingReopens DEF Over
  <2>3. CASE ExperimentsStep
    BY <2>1, <2>3, ExperimentsReopenLate
  <2>4. CASE RefreshStep(Delivery)
    BY <2>1, <2>4, DeliveryIsAnActor, RefreshReopensLate DEF ExperimentsInv
  <2>5. CASE FindSession
    <3>1. UNCHANGED run
      BY <2>5 DEF FindSession
    <3>2. \/ UNCHANGED refresh
          \/ refresh' = Begun(Delivery, delivery.run, run[delivery.run].record, "results")
      BY <2>5 DEF FindSession
    <3>3. QED
      BY <2>1, <3>1, <3>2, DeliveryIsAnActor, BegunAsks, NothingReopens DEF Over
  <2>6. CASE Graded
    <3>1. refresh' = [refresh EXCEPT ![Delivery] = NoRefresh] /\ UNCHANGED run
      BY <2>6 DEF Graded
    <3>2. QED
      BY <2>1, <3>1, DeliveryIsAnActor, NothingReopens DEF Over, NoRefresh
  <2>7. CASE Restart
    <3>1. \A a \in Actors : refresh'[a].pc \notin {"put", "settle"}
      BY <2>7 DEF Restart, NoRefresh
    <3>2. ASSUME NEW r \in Runs
          PROVE  run'[r].record = run[r].record /\ run'[r].ray = run[r].ray
      <4>1. run[r] \in RunType
        BY <2>1, TypesUnfold DEF RunsFit
      <4>2. run'[r] = run[r] \/ run'[r] = [run[r] EXCEPT !.launch = "done"]
        BY <2>7 DEF Restart
      <4>3. QED
        BY <4>1, <4>2 DEF RunType
    <3>3. QED
      BY <3>1, <3>2, NothingReopens DEF Over
  <2>8. QED
    BY <1>1, <2>2, <2>3, <2>4, <2>5, <2>6, <2>7
       DEF Next, DeliveryStep, RunFinished, StartPass, Summarise, StartDelivery, TakeItem,
           ReadMessages, StartTurn, Wait, Reread, Speak, TurnEnds, Ask, DeleteSession,
           Connect, Disconnect, experimentVars
<1>2. TypeOK /\ TruthInv /\ [Next]_vars => [OnlyLateAnswersReopen]_vars
  BY <1>1
<1>3. QED
  BY <1>2, TypeCorrect, TruthInvariant, PTL DEF Spec

-----------------------------------------------------------------------------
(* A run is not tried for ever.                                             *)

\* Refusals are counted up to MaxAttempts, and silent turns beside them.
TriesInv == \A r \in Runs : held[r].attempts < MaxAttempts + held[r].silent

\* No run is held after so many tries, whatever refused them (refused, silent).
TriesAreBounded == \A r \in Runs : held[r].attempts <= MaxAttempts + maxSilentTurns - 2

\* A pass that looked at a run has counted a try before it looks at the next one, or
\* the run is held no more; and nothing takes a try back while the run is held, so
\* that no run is tried for ever (Deliver, RunFinished).
TriesAreCounted ==
    /\ \A r \in Runs : held[r].in /\ held'[r].in =>
          held'[r].attempts >= held[r].attempts
    /\ delivery.pc \in WithItem /\ delivery'.pc \notin WithItem =>
          \/ ~held'[delivery.run].in
          \/ held'[delivery.run].attempts = held[delivery.run].attempts + 1

\* The queue is bounded (MaxPending), whatever the poller offers.
QueueIsBounded == IsFiniteSet(Pending) /\ Cardinality(Pending) <= MaxPending

-----------------------------------------------------------------------------
(* A pass comes to its end.                                                 *)

\* The steps a refresh still takes.
RefreshSteps(a) ==
    CASE refresh[a].pc = "ask" -> 5
      [] refresh[a].pc = "mlflow" -> 4
      [] refresh[a].pc \in {"put", "settle"} -> 3
      [] refresh[a].pc = "results" -> 2
      [] refresh[a].pc = "answered" -> 1
      [] OTHER -> 0

\* The steps a pass still takes with the item it looks at ...
ItemSteps ==
    CASE delivery.pc = "session" -> 10
      [] delivery.pc = "grade" -> 4 + RefreshSteps(Delivery)
      [] delivery.pc = "read" -> 4
      [] delivery.pc \in {"send", "continue"} -> 3
      [] delivery.pc = "wait" -> 2
      [] delivery.pc = "reread" -> 1
      [] OTHER -> 0

\* ... and at most in all.
PassSteps ==
    CASE delivery.pc = "idle" -> 0
      [] delivery.pc = "summarise" -> Cardinality(delivery.todo) + 2 + 11 * MaxPending
      [] OTHER -> 1 + 11 * Cardinality(delivery.todo) + ItemSteps

\* What a pass has left to do is bounded by the queue's bound.
PassesAreFinite == PassSteps \in 0..(12 * MaxPending + 2)

\* Each step of a pass brings it nearer to its end, and nothing else takes it back: a
\* pass is over after 12 * MaxPending + 3 steps of its own (Deliver).
PassesComeToAnEnd ==
    /\ DeliveryStep /\ ~StartPass => PassSteps' < PassSteps
    /\ ~DeliveryStep => PassSteps' <= PassSteps

\* Wherever a pass is, it can go on by itself; but for the exchange it waits for,
\* which is a turn for its own item and can end (Deliver, runTurn).
PassMayGoOn ==
    delivery.pc # "idle" =>
        \/ delivery.pc = "summarise" /\ (delivery.todo = {} \/ First(delivery.todo) # {})
        \/ /\ delivery.pc = "deliver"
           /\ delivery.todo = {} \/ presence = {} \/ First(delivery.todo) # {}
        \/ delivery.pc = "grade" /\ refresh[Delivery].pc # "idle"
        \/ delivery.pc \in {"session", "read", "send", "continue", "reread"}
        \/ delivery.pc = "wait" /\ (chat.turn = "delivery" => chat.for = delivery.run)

-----------------------------------------------------------------------------
(* A tick comes to its end.                                                 *)

\* The steps a tick still takes, its announcements included.
TickSteps ==
    IF poller.pc = "settle"
    THEN Cardinality(Runs) + 1 + 6 * Cardinality(poller.todo) + RefreshSteps(Poller)
    ELSE Cardinality(poller.todo)

\* What a tick has left to do is bounded by the number of runs.
TicksAreFinite == TickSteps \in 0..(7 * Cardinality(Runs) + 1)

\* A step of the tick brings it nearer to its end, unless it begins one, and nothing
\* else takes it back: with K runs a tick is over after 7 * K + 2 steps of its own
\* (Tick, refresh, RunFinished).
TicksComeToAnEnd ==
    /\ PollerStep \/ RunFinished => Tick \/ TickSteps' < TickSteps
    /\ ~(PollerStep \/ RunFinished) => TickSteps' <= TickSteps

\* Wherever a tick is, it can go on by itself: the refresh it waits for is its own,
\* is not answered to anybody else, and is over before it announces.
TickMayGoOn ==
    refresh[Poller].pc # "idle" =>
        poller.pc = "settle" /\ refresh[Poller].pc # "answered"

\* A run that was held is held no more, or no try is taken back.
LEMMA TriesOfAnItem ==
    ASSUME TypeOK, TriesInv, NEW r \in Runs, r \in Pending,
           Retire(r) \/ Refused(r) \/ Silent(r)
    PROVE  /\ \A q \in Runs \ {r} : held'[q] = held[q]
           /\ \/ held'[r] = NotHeld
              \/ /\ held'[r].in
                 /\ held'[r].attempts = held[r].attempts + 1
                 /\ held'[r].attempts < MaxAttempts + held'[r].silent
<1>1. /\ held \in [Runs -> HeldType] /\ held[r] \in HeldType /\ held[r].in
      /\ held[r].attempts \in Nat /\ held[r].silent \in 0..(maxSilentTurns - 1)
  BY InterpretTypes DEF HeldType, Pending
<1>2. held[r].attempts < MaxAttempts + held[r].silent
  BY DEF TriesInv
<1>3. CASE Retire(r)
  BY <1>1, <1>3 DEF Retire
<1>4. CASE Refused(r)
  <2>1. CASE held[r].attempts + 1 >= MaxAttempts
    BY <1>1, <1>4, <2>1 DEF Refused
  <2>2. CASE ~(held[r].attempts + 1 >= MaxAttempts)
    <3>1. held' = [held EXCEPT ![r].attempts = @ + 1]
      BY <1>4, <2>2 DEF Refused
    <3>2. /\ \A q \in Runs \ {r} : held'[q] = held[q]
          /\ held'[r].in /\ held'[r].attempts = held[r].attempts + 1
          /\ held'[r].silent = held[r].silent
      BY <1>1, <3>1 DEF HeldType
    <3>3. QED
      BY <1>1, <2>2, <3>2, InterpretAssumption
  <2>3. QED
    BY <2>1, <2>2
<1>5. CASE Silent(r) /\ ~Retire(r)
  <2>1. held' = [held EXCEPT ![r].silent = @ + 1, ![r].attempts = @ + 1]
    BY <1>5 DEF Silent
  <2>2. /\ \A q \in Runs \ {r} : held'[q] = held[q]
        /\ held'[r].in /\ held'[r].attempts = held[r].attempts + 1
        /\ held'[r].silent = held[r].silent + 1
    BY <1>1, <2>1 DEF HeldType
  <2>3. QED
    BY <1>1, <1>2, <2>2, InterpretAssumption
<1>6. QED
  BY <1>3, <1>4, <1>5

\* What the steps do to the queue.
SameTries ==
    /\ \A q \in Runs : /\ held'[q].in = held[q].in
                       /\ held'[q].attempts = held[q].attempts
                       /\ held'[q].silent = held[q].silent
    /\ delivery.pc \in WithItem => delivery'.pc \in WithItem

ItemIsOver ==
    /\ delivery.pc \in WithItem
    /\ Retire(delivery.run) \/ Refused(delivery.run) \/ Silent(delivery.run)

LEMMA QueueMoves ==
    ASSUME TypeOK, TruthInv, [Next]_vars
    PROVE  SameTries \/ ItemIsOver \/ RunFinished \/ Restart
<1>1. held \in [Runs -> HeldType] /\ delivery \in DeliveryType
  BY InterpretTypes
<1>2. CASE UNCHANGED <<held, delivery>>
  BY <1>2 DEF SameTries
<1>3. CASE StartPass \/ StartDelivery \/ TakeItem
  BY <1>3 DEF SameTries, StartPass, StartDelivery, TakeItem, WithItem
<1>4. CASE Summarise
  <2>1. PICK r \in First(delivery.todo) :
           \/ held' = held
           \/ held' = [held EXCEPT ![r].summary = Reconciled(r, held[r].status)]
    BY <1>4 DEF Summarise
  <2>2. \A q \in Runs : /\ held'[q].in = held[q].in
                        /\ held'[q].attempts = held[q].attempts
                        /\ held'[q].silent = held[q].silent
    BY <1>1, <2>1 DEF HeldType
  <2>3. QED
    BY <1>4, <2>2 DEF SameTries, Summarise, WithItem
<1>5. ASSUME NEW label \in WithItem, Goto(label), UNCHANGED held PROVE SameTries
  BY <1>5, GotoEffect DEF SameTries
<1>6. CASE Graded
  <2>1. delivery'.pc = "read" /\ UNCHANGED held
    BY <1>1, <1>6 DEF Graded, DeliveryType
  <2>2. QED
    BY <2>1 DEF SameTries, WithItem
<1>7. CASE FindSession
  BY <1>5, <1>7 DEF FindSession, ItemIsOver, WithItem
<1>8. CASE ReadMessages
  BY <1>5, <1>8 DEF ReadMessages, ItemIsOver, WithItem
<1>9. CASE StartTurn
  BY <1>5, <1>9 DEF StartTurn, ItemIsOver, WithItem
<1>10. CASE Wait
  BY <1>5, <1>10 DEF Wait, ItemIsOver, WithItem
<1>11. CASE Reread
  BY <1>11 DEF Reread, ItemIsOver, WithItem
<1>12. CASE RefreshStep(Delivery) /\ UNCHANGED interpretVars
  BY <1>2, <1>12 DEF interpretVars
<1>13. CASE ExperimentsStep /\ UNCHANGED interpretVars
  BY <1>2, <1>13 DEF interpretVars
<1>14. CASE Speak \/ TurnEnds \/ Ask \/ DeleteSession \/ Connect \/ Disconnect
            \/ UNCHANGED vars
  BY <1>2, <1>14 DEF Speak, TurnEnds, Ask, DeleteSession, Connect, Disconnect, vars
<1>15. QED
  BY <1>3, <1>4, <1>6, <1>7, <1>8, <1>9, <1>10, <1>11, <1>12, <1>13, <1>14
     DEF Next, DeliveryStep

\* The run that is offered is in the queue already, or has no try there.
LEMMA OfferedTries ==
    ASSUME TypeOK, RunFinished
    PROVE  /\ UNCHANGED delivery
           /\ \/ held' = held
              \/ \E r \in Runs \ Pending :
                    /\ ~(Cardinality(Pending) >= MaxPending)
                    /\ \A q \in Runs \ {r} : held'[q] = held[q]
                    /\ held'[r].in /\ held'[r].attempts = 0 /\ held'[r].silent = 0
<1>1. held \in [Runs -> HeldType] /\ poller.todo \subseteq Runs \X Ended
  BY InterpretTypes DEF RunFinished, TypeOK, ExperimentsTypeOK
<1>2. PICK x \in poller.todo :
         held' = IF \/ x[1] \in interpreted \union Pending
                    \/ Cardinality(Pending) >= MaxPending
                 THEN held
                 ELSE [held EXCEPT ![x[1]] = [NotHeld EXCEPT !.in = TRUE,
                                                             !.status = x[2]]]
  BY DEF RunFinished
<1>3. x[1] \in Runs
  BY <1>1, <1>2
<1>4. CASE held' = held
  BY <1>4 DEF RunFinished
<1>5. CASE /\ x[1] \notin Pending /\ ~(Cardinality(Pending) >= MaxPending)
           /\ held' = [held EXCEPT ![x[1]] = [NotHeld EXCEPT !.in = TRUE,
                                                             !.status = x[2]]]
  <2>1. /\ \A q \in Runs \ {x[1]} : held'[q] = held[q]
        /\ held'[x[1]].in /\ held'[x[1]].attempts = 0 /\ held'[x[1]].silent = 0
    BY <1>1, <1>3, <1>5 DEF NotHeld
  <2>2. x[1] \in Runs \ Pending
    BY <1>3, <1>5
  <2>3. QED
    BY <1>5, <2>1, <2>2 DEF RunFinished
<1>6. QED
  BY <1>2, <1>4, <1>5

\* The bound on the tries is kept.
LEMMA TriesStayBounded ==
    ASSUME TypeOK, TruthInv, TriesInv, TypeOK', [Next]_vars PROVE TriesInv'
<1>1. held \in [Runs -> HeldType] /\ held' \in [Runs -> HeldType]
  BY InterpretTypes DEF TypeOK, HeldType
<1>2. NotHeld.attempts = 0 /\ NotHeld.silent = 0
  BY DEF NotHeld
<1>3. CASE SameTries
  BY <1>3 DEF SameTries, TriesInv
<1>4. CASE ItemIsOver
  <2>1. delivery.run \in Pending /\ delivery.run \in Runs
    BY <1>4 DEF ItemIsOver, TruthInv, PassInv, Pending
  <2>2. /\ \A q \in Runs \ {delivery.run} : held'[q] = held[q]
        /\ \/ held'[delivery.run] = NotHeld
           \/ held'[delivery.run].attempts < MaxAttempts + held'[delivery.run].silent
    BY <1>4, <2>1, TriesOfAnItem DEF ItemIsOver
  <2>3. QED
    BY <1>2, <2>2, InterpretAssumption DEF TriesInv
<1>5. CASE RunFinished
  BY <1>5, OfferedTries, InterpretAssumption DEF TriesInv
<1>6. CASE Restart
  <2>1. \A q \in Runs : held'[q] = NotHeld
    BY <1>6 DEF Restart
  <2>2. QED
    BY <1>2, <2>1, InterpretAssumption DEF TriesInv
<1>7. QED
  BY <1>3, <1>4, <1>5, <1>6, QueueMoves

LEMMA TriesCount ==
    ASSUME TypeOK, TruthInv, TriesInv, [Next]_vars PROVE TriesAreCounted
<1>1. /\ held \in [Runs -> HeldType]
      /\ \A q \in Runs : held[q].attempts \in Nat
  BY InterpretTypes DEF HeldType
<1>2. ~NotHeld.in
  BY DEF NotHeld
<1>3. delivery.pc \in WithItem => delivery.run \in Pending /\ delivery.run \in Runs
  BY DEF TruthInv, PassInv, Pending
<1>4. CASE SameTries
  BY <1>1, <1>4 DEF SameTries, TriesAreCounted
<1>5. CASE ItemIsOver
  <2>1. /\ \A q \in Runs \ {delivery.run} : held'[q] = held[q]
        /\ \/ held'[delivery.run] = NotHeld
           \/ held'[delivery.run].attempts = held[delivery.run].attempts + 1
    BY <1>3, <1>5, TriesOfAnItem DEF ItemIsOver
  <2>2. QED
    BY <1>1, <1>2, <2>1 DEF TriesAreCounted
<1>6. CASE RunFinished
  <2>1. UNCHANGED delivery
    BY <1>6, OfferedTries
  <2>2. \A q \in Runs : held[q].in => held'[q] = held[q]
    BY <1>6, OfferedTries DEF Pending
  <2>3. QED
    BY <1>1, <2>1, <2>2 DEF TriesAreCounted
<1>7. CASE Restart
  <2>1. \A q \in Runs : held'[q] = NotHeld
    BY <1>7 DEF Restart
  <2>2. QED
    BY <1>2, <1>3, <2>1 DEF TriesAreCounted
<1>8. QED
  BY <1>4, <1>5, <1>6, <1>7, QueueMoves

\* The queue is kept within its bound.
LEMMA QueueKeepsItsBound ==
    ASSUME TypeOK, TruthInv, TriesInv, QueueIsBounded, [Next]_vars PROVE QueueIsBounded'
<1>1. IsFiniteSet(Pending) /\ Cardinality(Pending) \in Nat /\ Cardinality(Pending) <= MaxPending
  BY FS_CardinalityType DEF QueueIsBounded
<1>2. ASSUME Pending' \subseteq Pending PROVE QueueIsBounded'
  <2>1. IsFiniteSet(Pending') /\ Cardinality(Pending') <= Cardinality(Pending)
    BY <1>1, <1>2, FS_Subset
  <2>2. Cardinality(Pending') \in Nat
    BY <2>1, FS_CardinalityType
  <2>3. QED
    BY <1>1, <2>1, <2>2, InterpretAssumption DEF QueueIsBounded
<1>3. CASE SameTries
  BY <1>2, <1>3 DEF SameTries, Pending
<1>4. CASE ItemIsOver
  <2>1. delivery.run \in Pending /\ delivery.run \in Runs
    BY <1>4 DEF ItemIsOver, TruthInv, PassInv, Pending
  <2>2. \A q \in Runs \ {delivery.run} : held'[q] = held[q]
    BY <1>4, <2>1, TriesOfAnItem DEF ItemIsOver
  <2>3. QED
    BY <1>2, <2>1, <2>2 DEF Pending
<1>5. CASE RunFinished
  <2>1. CASE held' = held
    BY <1>2, <2>1 DEF Pending
  <2>2. ASSUME NEW r \in Runs \ Pending, ~(Cardinality(Pending) >= MaxPending),
               \A q \in Runs \ {r} : held'[q] = held[q], held'[r].in
        PROVE  QueueIsBounded'
    <3>1. Pending' = Pending \union {r}
      BY <2>2 DEF Pending
    <3>2. IsFiniteSet(Pending') /\ Cardinality(Pending') = Cardinality(Pending) + 1
      BY <1>1, <2>2, <3>1, FS_AddElement
    <3>3. QED
      BY <1>1, <2>2, <3>2, InterpretAssumption DEF QueueIsBounded
  <2>3. QED
    BY <1>5, <2>1, <2>2, OfferedTries
<1>6. CASE Restart
  <2>1. \A q \in Runs : held'[q] = NotHeld
    BY <1>6 DEF Restart
  <2>2. QED
    BY <1>2, <2>1 DEF Pending, NotHeld
<1>7. QED
  BY <1>3, <1>4, <1>5, <1>6, QueueMoves

LEMMA QueueStartsEmpty == ASSUME Init PROVE TriesInv /\ QueueIsBounded
<1>1. \A r \in Runs : held[r] = NotHeld
  BY DEF Init
<1>2. Pending = {}
  BY <1>1 DEF Pending, NotHeld
<1>3. QED
  BY <1>1, <1>2, FS_EmptySet, InterpretAssumption DEF TriesInv, QueueIsBounded, NotHeld

\* No run is tried for ever: each pass that looks at it counts a try or lets go of it,
\* no try is taken back, and there are at most MaxAttempts + maxSilentTurns - 1.
THEOREM TriesRunOut == Spec => []TriesAreBounded /\ [][TriesAreCounted]_vars
<1>1. Init => TriesInv
  BY QueueStartsEmpty
<1>2. TypeOK /\ TruthInv /\ TypeOK' /\ TriesInv /\ [Next]_vars => TriesInv'
  BY TriesStayBounded
<1>3. TypeOK /\ TriesInv => TriesAreBounded
  <2>1. SUFFICES ASSUME TypeOK, TriesInv, NEW r \in Runs
                 PROVE  held[r].attempts <= MaxAttempts + maxSilentTurns - 2
    BY DEF TriesAreBounded
  <2>2. held[r].attempts \in Nat /\ held[r].silent \in 0..(maxSilentTurns - 1)
    BY <2>1, InterpretTypes DEF HeldType
  <2>3. QED
    BY <2>1, <2>2, InterpretAssumption DEF TriesInv
<1>4. TypeOK /\ TruthInv /\ TriesInv /\ [Next]_vars => [TriesAreCounted]_vars
  BY TriesCount
<1>5. QED
  BY <1>1, <1>2, <1>3, <1>4, TypeCorrect, TruthInvariant, PTL DEF Spec

\* The queue stays within its bound, however many runs end.
THEOREM QueueStaysBounded == Spec => []QueueIsBounded
<1>1. Init => TriesInv /\ QueueIsBounded
  BY QueueStartsEmpty
<1>2. TypeOK /\ TruthInv /\ TypeOK' /\ TriesInv /\ QueueIsBounded /\ [Next]_vars
         => TriesInv' /\ QueueIsBounded'
  BY TriesStayBounded, QueueKeepsItsBound
<1>3. QED
  BY <1>1, <1>2, TypeCorrect, TruthInvariant, PTL DEF Spec

-----------------------------------------------------------------------------
(* Refreshes and passes come to their end.                                  *)

LEMMA OldestThereIs == ASSUME NEW S, S \subseteq Runs, S # {} PROVE First(S) # {}
<1>1. S \subseteq Nat
  BY RunsAssumption
<1>2. \E x \in S : \A y \in S : ~(y < x)
  <2>1. PICK x \in S : \A y \in S : <<y, x>> \notin OpToRel(<, Nat)
    BY <1>1, NatLessThanWellFounded, WFMin
  <2>2. \A y \in S : ~(y < x)
    BY <1>1, <2>1 DEF OpToRel
  <2>3. QED
    BY <2>2
<1>3. PICK x \in S : \A y \in S : ~(y < x)
  BY <1>2
<1>4. \A y \in S : x <= y
  BY <1>1, <1>3
<1>5. QED
  BY <1>4 DEF First

\* What a refresh's step does to it.
LEMMA RefreshGoesOn ==
    ASSUME ExperimentsTypeOK, ExperimentsInv, NEW a \in Actors, RefreshStep(a)
    PROVE  /\ RefreshSteps(a)' < RefreshSteps(a)
           /\ \A b \in Actors \ {a} : refresh'[b] = refresh[b]
           /\ refresh[a].pc \notin {"idle", "answered"}
           /\ refresh'[a].pc = "idle" \/ refresh'[a].op = refresh[a].op
           /\ a # Delivery => refresh'[a].pc # "answered"
           /\ a = Delivery => refresh'[a].pc # "idle"
<1>1. /\ run \in [Runs -> RunType] /\ refresh \in [Actors -> RefreshType]
      /\ refresh[a] \in RefreshType
      /\ \A q \in Runs : RunInv(q)
      /\ RefreshInv(a)
  BY TypesUnfold DEF ExperimentsInv, RunsFit
<1>2. \A b \in Actors \ {a} : refresh'[b] = refresh[b]
  BY <1>1, RefreshEffect
<1>3. ASSUME NEW word, Reply(a, word), refresh[a].pc \notin {"idle", "answered"}
      PROVE  /\ refresh'[a].pc = IF a = Delivery THEN "answered" ELSE "idle"
             /\ refresh'[a].pc = "idle" \/ refresh'[a].op = refresh[a].op
  <2>1. CASE a = Delivery
    <3>1. refresh' = [refresh EXCEPT ![a] = [@ EXCEPT !.pc = "answered", !.status = word]]
      BY <1>3, <2>1 DEF Reply
    <3>2. QED
      BY <1>1, <2>1, <3>1 DEF RefreshType
  <2>2. CASE a # Delivery
    <3>1. refresh' = [refresh EXCEPT ![a] = NoRefresh]
      BY <1>3, <2>2 DEF Reply
    <3>2. refresh'[a] = NoRefresh
      BY <1>1, <3>1
    <3>3. QED
      BY <2>2, <3>2 DEF NoRefresh
  <2>3. QED
    BY <2>1, <2>2
<1>4. ASSUME NEW word, Refreshed(a, word), refresh[a].pc \notin {"idle", "answered"}
      PROVE  \/ /\ refresh'[a].pc = "results" /\ refresh'[a].op = refresh[a].op
             \/ Reply(a, word)
  <2>1. CASE refresh[a].op = "results"
    <3>1. refresh' = [refresh EXCEPT ![a].pc = "results", ![a].status = word]
      BY <1>4, <2>1 DEF Refreshed
    <3>2. QED
      BY <1>1, <3>1 DEF RefreshType
  <2>2. CASE refresh[a].op # "results"
    BY <1>4, <2>2 DEF Refreshed
  <2>3. QED
    BY <2>1, <2>2
<1>5. CASE AskRay(a)
  <2>1. CASE Reply(a, "none")
    BY <1>2, <1>3, <1>5, <2>1 DEF AskRay, RefreshSteps
  <2>2. ASSUME NEW label \in {"mlflow", "put"}, NEW word,
               \/ refresh' = [refresh EXCEPT ![a].pc = label]
               \/ refresh' = [refresh EXCEPT ![a].pc = label, ![a].status = word]
        PROVE  refresh'[a].pc = label /\ refresh'[a].op = refresh[a].op
    BY <1>1, <2>2 DEF RefreshType
  <2>3. \/ Reply(a, "none")
        \/ refresh'[a].pc \in {"mlflow", "put"} /\ refresh'[a].op = refresh[a].op
    BY <1>5, <2>2 DEF AskRay
  <2>4. QED
    BY <1>2, <1>5, <2>1, <2>3 DEF AskRay, RefreshSteps
<1>6. CASE SettleForgotten(a)
  <2>1. PICK word : refresh' = [refresh EXCEPT ![a].pc = "settle", ![a].status = word]
    BY <1>6 DEF SettleForgotten
  <2>2. refresh'[a].pc = "settle" /\ refresh'[a].op = refresh[a].op
    BY <1>1, <2>1 DEF RefreshType
  <2>3. refresh[a].pc = "mlflow"
    BY <1>6 DEF SettleForgotten
  <2>4. QED
    BY <1>2, <2>2, <2>3 DEF RefreshSteps
<1>7. CASE PutRecord(a)
  <2>1. refresh[a].pc \in {"put", "settle"}
    BY <1>7 DEF PutRecord
  <2>2. \/ \E word : Reply(a, word)
        \/ refresh'[a].pc = "results" /\ refresh'[a].op = refresh[a].op
    BY <1>4, <1>7, <2>1 DEF PutRecord
  <2>3. QED
    BY <1>2, <1>3, <2>1, <2>2 DEF RefreshSteps
<1>8. CASE Results(a)
  <2>1. refresh[a].pc = "results" /\ \E word : Reply(a, word)
    BY <1>8 DEF Results
  <2>2. QED
    BY <1>2, <1>3, <2>1 DEF RefreshSteps
<1>9. QED
  BY <1>5, <1>6, <1>7, <1>8 DEF RefreshStep

LEMMA RefreshStepsCount == \A a \in Actors : RefreshSteps(a) \in 0..5
BY DEF RefreshSteps

\* A pass that is at grading has its refresh; with GradeInv, nothing else has one.
GradeGoesOn == delivery.pc = "grade" => refresh[Delivery].pc # "idle"

LEMMA PassCount ==
    ASSUME TypeOK, TruthInv, QueueIsBounded
    PROVE  /\ IsFiniteSet(delivery.todo) /\ Cardinality(delivery.todo) \in Nat
           /\ Cardinality(delivery.todo) <= MaxPending
           /\ PassSteps \in Nat
<1>1. IsFiniteSet(Pending) /\ delivery.todo \subseteq Pending
      /\ Cardinality(Pending) \in Nat /\ Cardinality(Pending) <= MaxPending
  BY FS_CardinalityType DEF QueueIsBounded, TruthInv, PassInv
<1>2. IsFiniteSet(delivery.todo) /\ Cardinality(delivery.todo) <= Cardinality(Pending)
  BY <1>1, FS_Subset
<1>3. Cardinality(delivery.todo) \in Nat
  BY <1>2, FS_CardinalityType
<1>4. ItemSteps \in Nat
  <2>1. RefreshSteps(Delivery) \in 0..5
    BY RefreshStepsCount, DeliveryIsAnActor
  <2>2. QED
    BY <2>1 DEF ItemSteps
<1>5. PassSteps \in Nat
  BY <1>3, <1>4, InterpretAssumption DEF PassSteps
<1>6. QED
  BY <1>1, <1>2, <1>3, <1>5, InterpretAssumption

\* An item less.
LEMMA OneItemLess ==
    ASSUME TypeOK, TruthInv, QueueIsBounded, NEW r \in delivery.todo,
           delivery'.todo = delivery.todo \ {r}
    PROVE  /\ Cardinality(delivery'.todo) = Cardinality(delivery.todo) - 1
           /\ Cardinality(delivery'.todo) \in Nat
<1>1. IsFiniteSet(delivery.todo) /\ Cardinality(delivery.todo) \in Nat
  BY PassCount
<1>2. /\ IsFiniteSet(delivery'.todo)
      /\ Cardinality(delivery'.todo) = Cardinality(delivery.todo) - 1
  BY <1>1, FS_RemoveElement
<1>3. Cardinality(delivery'.todo) \in Nat
  BY <1>2, FS_CardinalityType
<1>4. QED
  BY <1>2, <1>3

\* An item's turn is over before the count of its steps is.
LEMMA ItemOverSteps ==
    ASSUME TypeOK, TruthInv, QueueIsBounded,
           delivery.pc \in WithItem \ {"grade"},
           Retire(delivery.run) \/ Refused(delivery.run) \/ Silent(delivery.run)
    PROVE  PassSteps' < PassSteps /\ delivery'.pc = "deliver"
<1>1. delivery.run \in Pending /\ delivery.run \in Runs /\ delivery \in DeliveryType
  BY InterpretTypes DEF TruthInv, PassInv, Pending
<1>2. delivery' = [delivery EXCEPT !.pc = "deliver", !.run = 0, !.summary = "none"]
  BY <1>1, ItemEnds
<1>3. delivery'.pc = "deliver" /\ delivery'.todo = delivery.todo
  BY <1>1, <1>2 DEF DeliveryType
<1>4. Cardinality(delivery.todo) \in Nat
  BY PassCount
<1>5. PassSteps' = 1 + 11 * Cardinality(delivery.todo)
  BY <1>3, <1>4 DEF PassSteps, ItemSteps
<1>6. PassSteps > 1 + 11 * Cardinality(delivery.todo)
  BY <1>4 DEF PassSteps, ItemSteps, WithItem
<1>7. QED
  BY <1>3, <1>4, <1>5, <1>6

\* The item goes on to its next step.
LEMMA ItemGoesOnSteps ==
    ASSUME TypeOK, TruthInv, QueueIsBounded, delivery.pc \in WithItem,
           NEW label \in WithItem, delivery'.pc = label, delivery'.todo = delivery.todo,
           ItemSteps' < ItemSteps, ItemSteps \in Nat, ItemSteps' \in Nat
    PROVE  PassSteps' < PassSteps
<1>1. Cardinality(delivery.todo) \in Nat
  BY PassCount
<1>2. PassSteps = 1 + 11 * Cardinality(delivery.todo) + ItemSteps
  BY DEF PassSteps, WithItem
<1>3. PassSteps' = 1 + 11 * Cardinality(delivery.todo) + ItemSteps'
  BY DEF PassSteps, WithItem
<1>4. QED
  BY <1>1, <1>2, <1>3

LEMMA StartPassSteps ==
    ASSUME TypeOK, TruthInv, QueueIsBounded, StartPass
    PROVE  PassSteps' <= 12 * MaxPending + 2 /\ delivery'.pc = "summarise"
<1>1. delivery'.pc = "summarise" /\ delivery'.todo = Pending
  BY DEF StartPass, NoPass
<1>2. Cardinality(Pending) \in Nat /\ Cardinality(Pending) <= MaxPending
  BY FS_CardinalityType DEF QueueIsBounded
<1>3. PassSteps' = Cardinality(Pending) + 2 + 11 * MaxPending
  BY <1>1 DEF PassSteps
<1>4. QED
  BY <1>1, <1>2, <1>3, InterpretAssumption

LEMMA SummariseSteps ==
    ASSUME TypeOK, TruthInv, QueueIsBounded, Summarise
    PROVE  PassSteps' < PassSteps /\ delivery'.pc = "summarise"
<1>1. PICK r \in delivery.todo : delivery' = [delivery EXCEPT !.todo = @ \ {r}]
  BY DEF Summarise, First
<1>2. /\ delivery.pc = "summarise" /\ delivery'.pc = "summarise"
      /\ delivery'.todo = delivery.todo \ {r}
  BY <1>1, InterpretTypes DEF Summarise, DeliveryType
<1>3. /\ Cardinality(delivery'.todo) = Cardinality(delivery.todo) - 1
      /\ Cardinality(delivery'.todo) \in Nat /\ Cardinality(delivery.todo) \in Nat
  BY <1>2, OneItemLess, PassCount
<1>4. PassSteps = Cardinality(delivery.todo) + 2 + 11 * MaxPending
  BY <1>2 DEF PassSteps
<1>5. PassSteps' = Cardinality(delivery'.todo) + 2 + 11 * MaxPending
  BY <1>2 DEF PassSteps
<1>6. QED
  BY <1>2, <1>3, <1>4, <1>5, InterpretAssumption

LEMMA StartDeliverySteps ==
    ASSUME TypeOK, TruthInv, QueueIsBounded, StartDelivery
    PROVE  PassSteps' < PassSteps /\ delivery'.pc \in {"idle", "deliver"}
<1>1. delivery.pc = "summarise" /\ delivery.todo = {}
  BY DEF StartDelivery
<1>2. Cardinality(Pending) \in Nat /\ Cardinality(Pending) <= MaxPending
  BY FS_CardinalityType DEF QueueIsBounded
<1>3. PassSteps = 2 + 11 * MaxPending
  BY <1>1, FS_EmptySet, InterpretAssumption DEF PassSteps
<1>4. CASE delivery' = NoPass
  <2>1. PassSteps' = 0 /\ delivery'.pc = "idle"
    BY <1>4 DEF PassSteps, NoPass
  <2>2. QED
    BY <1>3, <2>1, InterpretAssumption
<1>5. CASE delivery' = [NoPass EXCEPT !.pc = "deliver", !.todo = Pending]
  <2>1. delivery'.pc = "deliver" /\ delivery'.todo = Pending
    BY <1>5 DEF NoPass
  <2>2. PassSteps' = 1 + 11 * Cardinality(Pending)
    BY <1>2, <2>1 DEF PassSteps, ItemSteps
  <2>3. QED
    BY <1>2, <1>3, <2>1, <2>2, InterpretAssumption
<1>6. QED
  BY <1>4, <1>5 DEF StartDelivery

LEMMA TakeItemSteps ==
    ASSUME TypeOK, TruthInv, QueueIsBounded, TakeItem
    PROVE  PassSteps' < PassSteps /\ delivery'.pc \in {"idle", "deliver", "session"}
<1>1. /\ delivery.pc = "deliver" /\ delivery \in DeliveryType
      /\ Cardinality(delivery.todo) \in Nat
  BY InterpretTypes, PassCount DEF TakeItem
<1>2. PassSteps = 1 + 11 * Cardinality(delivery.todo)
  BY <1>1 DEF PassSteps, ItemSteps
<1>3. CASE delivery' = NoPass
  <2>1. PassSteps' = 0 /\ delivery'.pc = "idle"
    BY <1>3 DEF PassSteps, NoPass
  <2>2. QED
    BY <1>1, <1>2, <2>1
<1>4. ASSUME NEW r \in delivery.todo,
             delivery' = IF held[r].summary = "none"
                         THEN [delivery EXCEPT !.todo = @ \ {r}]
                         ELSE [delivery EXCEPT !.pc = "session", !.todo = @ \ {r},
                                               !.run = r]
      PROVE  PassSteps' < PassSteps /\ delivery'.pc \in {"deliver", "session"}
  <2>1. delivery'.pc \in {"deliver", "session"} /\ delivery'.todo = delivery.todo \ {r}
    BY <1>1, <1>4 DEF DeliveryType
  <2>2. /\ Cardinality(delivery'.todo) = Cardinality(delivery.todo) - 1
        /\ Cardinality(delivery'.todo) \in Nat
    BY <2>1, OneItemLess
  <2>3. ItemSteps' \in 0..10
    BY <2>1 DEF ItemSteps
  <2>4. PassSteps' = 1 + 11 * Cardinality(delivery'.todo) + ItemSteps'
    BY <2>1 DEF PassSteps
  <2>5. QED
    BY <1>1, <1>2, <2>1, <2>2, <2>3, <2>4
<1>5. QED
  BY <1>3, <1>4 DEF TakeItem, First

LEMMA FindSessionSteps ==
    ASSUME TypeOK, TruthInv, QueueIsBounded, FindSession
    PROVE  /\ PassSteps' < PassSteps
           /\ delivery'.pc \in {"deliver", "grade"}
           /\ delivery'.pc = "grade" => refresh'[Delivery].pc # "idle"
<1>1. delivery.pc = "session" /\ refresh \in [Actors -> RefreshType]
  BY TypesUnfold DEF FindSession, TypeOK
<1>2. CASE Retire(delivery.run) \/ Refused(delivery.run)
  BY <1>1, <1>2, ItemOverSteps DEF WithItem
<1>3. CASE /\ Goto("grade")
           /\ refresh' = Begun(Delivery, delivery.run, run[delivery.run].record, "results")
  <2>1. delivery'.pc = "grade" /\ delivery'.todo = delivery.todo
    BY <1>3, GotoEffect DEF WithItem
  <2>2. refresh'[Delivery].pc \in {"ask", "results"}
    BY <1>1, <1>3, DeliveryIsAnActor DEF Begun
  <2>3. ItemSteps = 10 /\ ItemSteps' \in 4..9
    BY <1>1, <2>1, <2>2 DEF ItemSteps, RefreshSteps
  <2>4. PassSteps' < PassSteps
    BY <1>1, <2>1, <2>3, ItemGoesOnSteps DEF WithItem
  <2>5. QED
    BY <2>1, <2>2, <2>4
<1>4. QED
  BY <1>2, <1>3 DEF FindSession

LEMMA GradeSteps ==
    ASSUME TypeOK, TruthInv, QueueIsBounded,
           Graded \/ (RefreshStep(Delivery) /\ UNCHANGED interpretVars)
    PROVE  /\ PassSteps' < PassSteps
           /\ delivery'.pc \in {"grade", "read"}
           /\ delivery'.pc = "grade" => refresh'[Delivery].pc # "idle"
<1>1. CASE Graded
  <2>1. delivery.pc = "grade" /\ delivery'.pc = "read" /\ delivery'.todo = delivery.todo
    BY <1>1, InterpretTypes DEF Graded, DeliveryType
  <2>2. ItemSteps = 5 /\ ItemSteps' = 4
    BY <1>1, <2>1 DEF Graded, ItemSteps, RefreshSteps
  <2>3. PassSteps' < PassSteps
    BY <2>1, <2>2, ItemGoesOnSteps DEF WithItem
  <2>4. QED
    BY <2>1, <2>3
<1>2. CASE RefreshStep(Delivery) /\ UNCHANGED interpretVars
  <2>1. /\ RefreshSteps(Delivery)' < RefreshSteps(Delivery)
        /\ refresh[Delivery].pc # "idle" /\ refresh'[Delivery].pc # "idle"
    BY <1>2, RefreshGoesOn, DeliveryIsAnActor DEF TypeOK, TruthInv
  <2>2. delivery.pc = "grade" /\ delivery' = delivery
    BY <1>2, <2>1 DEF TruthInv, GradeInv, interpretVars
  <2>3. RefreshSteps(Delivery) \in 0..5 /\ RefreshSteps(Delivery)' \in 0..5
    BY RefreshStepsCount, DeliveryIsAnActor DEF RefreshSteps
  <2>4. /\ ItemSteps = 4 + RefreshSteps(Delivery)
        /\ ItemSteps' = 4 + RefreshSteps(Delivery)'
    BY <2>2 DEF ItemSteps
  <2>5. PassSteps' < PassSteps
    BY <2>1, <2>2, <2>3, <2>4, ItemGoesOnSteps DEF WithItem
  <2>6. QED
    BY <2>1, <2>2, <2>5
<1>3. QED
  BY <1>1, <1>2

LEMMA TurnSteps ==
    ASSUME TypeOK, TruthInv, QueueIsBounded,
           ReadMessages \/ StartTurn \/ Wait \/ Reread
    PROVE  PassSteps' < PassSteps /\ delivery'.pc # "grade"
<1>1. delivery.pc \in {"read", "send", "continue", "wait", "reread"}
  BY DEF ReadMessages, StartTurn, Wait, Reread
<1>2. CASE Retire(delivery.run) \/ Refused(delivery.run) \/ Silent(delivery.run)
  BY <1>1, <1>2, ItemOverSteps DEF WithItem
<1>3. ASSUME NEW label \in {"send", "continue", "wait", "reread"}, Goto(label),
             \/ delivery.pc = "read" /\ label \in {"send", "continue"}
             \/ delivery.pc \in {"send", "continue"} /\ label = "wait"
             \/ delivery.pc = "wait" /\ label = "reread"
      PROVE  PassSteps' < PassSteps /\ delivery'.pc # "grade"
  <2>1. delivery'.pc = label /\ delivery'.todo = delivery.todo
    BY <1>3, GotoEffect DEF WithItem
  <2>2. ItemSteps \in Nat /\ ItemSteps' \in Nat /\ ItemSteps' < ItemSteps
    BY <1>3, <2>1 DEF ItemSteps
  <2>3. PassSteps' < PassSteps
    BY <1>1, <2>1, <2>2, ItemGoesOnSteps DEF WithItem
  <2>4. QED
    BY <2>1, <2>3
<1>4. CASE ReadMessages
  BY <1>2, <1>3, <1>4 DEF ReadMessages
<1>5. CASE StartTurn
  BY <1>2, <1>3, <1>5 DEF StartTurn
<1>6. CASE Wait
  BY <1>2, <1>3, <1>6 DEF Wait
<1>7. CASE Reread
  BY <1>2, <1>7 DEF Reread
<1>8. QED
  BY <1>4, <1>5, <1>6, <1>7

\* What is not a step of the pass leaves it alone, or ends it.
LEMMA PassLeftAlone ==
    ASSUME TypeOK, TruthInv, [Next]_vars, ~DeliveryStep
    PROVE  \/ delivery' = NoPass
           \/ delivery' = delivery /\ refresh'[Delivery] = refresh[Delivery]
<1>1. CASE ExperimentsStep /\ UNCHANGED interpretVars
  BY <1>1, ExperimentsKeep DEF TypeOK, TruthInv, interpretVars
<1>2. CASE RunFinished
  BY <1>2 DEF RunFinished
<1>3. CASE Speak \/ TurnEnds \/ Ask \/ DeleteSession \/ Connect \/ Disconnect
  BY <1>3 DEF Speak, TurnEnds, Ask, DeleteSession, Connect, Disconnect, experimentVars
<1>4. CASE Restart
  BY <1>4 DEF Restart
<1>5. CASE UNCHANGED vars
  BY <1>5 DEF vars
<1>6. QED
  BY <1>1, <1>2, <1>3, <1>4, <1>5 DEF Next

LEMMA OthersLeavePass ==
    ASSUME TypeOK, TruthInv, QueueIsBounded, [Next]_vars, ~DeliveryStep
    PROVE  /\ PassSteps' <= PassSteps
           /\ GradeGoesOn => GradeGoesOn'
<1>1. PassSteps \in Nat
  BY PassCount
<1>2. CASE delivery' = NoPass
  BY <1>1, <1>2 DEF PassSteps, NoPass, GradeGoesOn
<1>3. CASE delivery' = delivery /\ refresh'[Delivery] = refresh[Delivery]
  <2>1. PassSteps' = PassSteps
    BY <1>3 DEF PassSteps, ItemSteps, RefreshSteps
  <2>2. QED
    BY <1>1, <1>3, <2>1 DEF GradeGoesOn
<1>4. QED
  BY <1>2, <1>3, PassLeftAlone

LEMMA PassStepsGoDown ==
    ASSUME TypeOK, TruthInv, QueueIsBounded, DeliveryStep
    PROVE  /\ StartPass \/ PassSteps' < PassSteps
           /\ GradeGoesOn'
<1>1. CASE StartPass
  BY <1>1, StartPassSteps DEF GradeGoesOn
<1>2. CASE Summarise \/ StartDelivery \/ TakeItem
  BY <1>2, SummariseSteps, StartDeliverySteps, TakeItemSteps DEF GradeGoesOn
<1>3. CASE FindSession \/ Graded \/ (RefreshStep(Delivery) /\ UNCHANGED interpretVars)
  BY <1>3, FindSessionSteps, GradeSteps DEF GradeGoesOn
<1>4. CASE ReadMessages \/ StartTurn \/ Wait \/ Reread
  BY <1>4, TurnSteps DEF GradeGoesOn
<1>5. QED
  BY <1>1, <1>2, <1>3, <1>4 DEF DeliveryStep

PassIsCounted == PassSteps \in Nat

LEMMA PassesStayFinite ==
    ASSUME TypeOK, TruthInv, QueueIsBounded, PassesAreFinite, GradeGoesOn, [Next]_vars,
           PassIsCounted'
    PROVE  PassesAreFinite' /\ GradeGoesOn' /\ PassesComeToAnEnd
<1>1. PassSteps \in 0..(12 * MaxPending + 2) /\ PassSteps' \in Nat
  BY DEF PassesAreFinite, PassIsCounted
<1>2. CASE StartPass
  BY <1>1, <1>2, StartPassSteps, InterpretAssumption
     DEF PassesAreFinite, PassesComeToAnEnd, GradeGoesOn, DeliveryStep
<1>3. CASE DeliveryStep /\ ~StartPass
  BY <1>1, <1>3, PassStepsGoDown, InterpretAssumption
     DEF PassesAreFinite, PassesComeToAnEnd
<1>4. CASE ~DeliveryStep
  BY <1>1, <1>4, OthersLeavePass, InterpretAssumption
     DEF PassesAreFinite, PassesComeToAnEnd
<1>5. QED
  BY <1>2, <1>3, <1>4

\* A pass takes no more steps than it counts, and can take each of them.
THEOREM PassesEnd ==
    Spec => [](PassesAreFinite /\ PassMayGoOn) /\ [][PassesComeToAnEnd]_vars
<1> DEFINE Inv == PassesAreFinite /\ GradeGoesOn
<1>1. Init => Inv
  <2>1. SUFFICES ASSUME Init PROVE Inv
    OBVIOUS
  <2>2. delivery.pc = "idle"
    BY <2>1 DEF Init, NoPass
  <2>3. QED
    BY <2>2, InterpretAssumption DEF PassesAreFinite, PassSteps, GradeGoesOn
<1>2. TypeOK /\ TruthInv /\ QueueIsBounded => PassIsCounted
  BY PassCount DEF PassIsCounted
<1>3. TypeOK /\ TruthInv /\ QueueIsBounded /\ Inv /\ [Next]_vars /\ PassIsCounted' => Inv'
  BY PassesStayFinite
<1>4. TypeOK /\ TruthInv /\ QueueIsBounded /\ Inv /\ [Next]_vars /\ PassIsCounted'
         => [PassesComeToAnEnd]_vars
  BY PassesStayFinite
<1>5. TypeOK /\ Inv /\ SilenceInv => PassMayGoOn
  <2>1. SUFFICES ASSUME TypeOK, Inv, SilenceInv, delivery.pc # "idle"
                 PROVE  PassMayGoOn
    BY DEF PassMayGoOn
  <2>2. delivery \in DeliveryType
    BY <2>1, InterpretTypes
  <2>3. delivery.todo = {} \/ First(delivery.todo) # {}
    BY <2>2, OldestThereIs DEF DeliveryType
  <2>4. QED
    BY <2>1, <2>2, <2>3 DEF PassMayGoOn, DeliveryType, GradeGoesOn, SilenceInv
<1>6. QED
  BY <1>1, <1>2, <1>3, <1>4, <1>5, TypeCorrect, TruthInvariant, QueueStaysBounded, SilenceIsKept, PTL
     DEF Spec

-----------------------------------------------------------------------------
(* Ticks come to their end.                                                 *)

LEMMA PollerIsAnActor == Poller \in Actors /\ Poller # Delivery /\ Poller \notin Readers
BY ReadersAssumption DEF Actors, Delivery, Poller

TickInv ==
    /\ IsFiniteSet(poller.todo)
    /\ TickMayGoOn
    /\ refresh[Poller].pc # "idle" => refresh[Poller].op = "get"

LEMMA TickCount ==
    ASSUME IsFiniteSet(Runs), TypeOK, TickInv
    PROVE  /\ Cardinality(Runs) \in Nat /\ Cardinality(poller.todo) \in Nat
           /\ RefreshSteps(Poller) \in 0..5 /\ TickSteps \in Nat
<1>1. Cardinality(Runs) \in Nat /\ Cardinality(poller.todo) \in Nat
  BY FS_CardinalityType DEF TickInv
<1>2. RefreshSteps(Poller) \in 0..5
  BY RefreshStepsCount, PollerIsAnActor
<1>3. QED
  BY <1>1, <1>2 DEF TickSteps

\* A tick begins with no more to do than there are runs.
LEMMA TickBegins ==
    ASSUME IsFiniteSet(Runs), TypeOK, TickInv, Tick
    PROVE  TickInv' /\ TickSteps' \in 0..(7 * Cardinality(Runs) + 1)
<1>1. /\ poller'.pc = "settle" /\ poller'.todo \subseteq Runs /\ poller.pc = "offer"
      /\ UNCHANGED refresh
  BY DEF Tick, NoTick
<1>2. /\ IsFiniteSet(poller'.todo) /\ Cardinality(poller'.todo) <= Cardinality(Runs)
      /\ Cardinality(poller'.todo) \in Nat /\ Cardinality(Runs) \in Nat
  <2>1. IsFiniteSet(poller'.todo) /\ Cardinality(poller'.todo) <= Cardinality(Runs)
    BY <1>1, FS_Subset
  <2>2. QED
    BY <2>1, FS_CardinalityType
<1>3. refresh[Poller].pc = "idle" /\ refresh'[Poller].pc = "idle"
  BY <1>1 DEF TickInv, TickMayGoOn
<1>4. TickSteps' = Cardinality(Runs) + 1 + 6 * Cardinality(poller'.todo)
  BY <1>1, <1>2, <1>3 DEF TickSteps, RefreshSteps
<1>5. TickInv'
  BY <1>2, <1>3 DEF TickInv, TickMayGoOn
<1>6. QED
  BY <1>2, <1>4, <1>5

LEMMA SettleNextSteps ==
    ASSUME IsFiniteSet(Runs), TypeOK, TickInv, SettleNext
    PROVE  TickInv' /\ TickSteps' < TickSteps
<1>1. /\ refresh \in [Actors -> RefreshType] /\ Poller \in Actors
      /\ poller.pc = "settle" /\ refresh[Poller].pc = "idle"
      /\ poller \in [pc : {"settle"}, todo : SUBSET Runs]
  BY TypesUnfold, PollerIsAnActor DEF SettleNext, TypeOK
<1>2. PICK r \in poller.todo : /\ refresh' = Begun(Poller, r, Open, "get")
                               /\ poller' = [poller EXCEPT !.todo = @ \ {r}]
  BY DEF SettleNext
<1>3. refresh'[Poller].pc = "ask" /\ refresh'[Poller].op = "get"
  BY <1>1, <1>2 DEF Begun, Open, Ended
<1>4. poller'.pc = "settle" /\ poller'.todo = poller.todo \ {r}
  BY <1>1, <1>2
<1>5. /\ IsFiniteSet(poller'.todo)
      /\ Cardinality(poller'.todo) = Cardinality(poller.todo) - 1
  BY <1>4, FS_RemoveElement DEF TickInv
<1>6. Cardinality(poller'.todo) \in Nat /\ Cardinality(poller.todo) \in Nat
      /\ Cardinality(Runs) \in Nat
  BY <1>5, FS_CardinalityType DEF TickInv
<1>7. TickSteps = Cardinality(Runs) + 1 + 6 * Cardinality(poller.todo)
  BY <1>1, <1>6 DEF TickSteps, RefreshSteps
<1>8. TickSteps' = Cardinality(Runs) + 1 + 6 * Cardinality(poller'.todo) + 5
  BY <1>3, <1>4, <1>6 DEF TickSteps, RefreshSteps
<1>9. TickInv'
  BY <1>3, <1>4, <1>5 DEF TickInv, TickMayGoOn
<1>10. QED
  BY <1>5, <1>6, <1>7, <1>8, <1>9

\* There are no more announcements than runs.
LEMMA FindFinishedSteps ==
    ASSUME IsFiniteSet(Runs), TypeOK, TickInv, FindFinished
    PROVE  TickInv' /\ TickSteps' < TickSteps
<1> DEFINE over == Offered
           announced == {<<r, run[r].record>> : r \in over}
           f == [r \in over |-> <<r, run[r].record>>]
<1>1. /\ poller.pc = "settle" /\ refresh[Poller].pc = "idle" /\ poller.todo = {}
      /\ poller'.pc = "offer" /\ poller'.todo = announced /\ UNCHANGED refresh
  BY DEF FindFinished
<1>2. IsFiniteSet(over) /\ Cardinality(over) <= Cardinality(Runs)
  <2>1. over \in SUBSET Runs
    BY DEF Offered, Recent
  <2>2. QED
    BY <2>1, FS_Subset
<1>3. f \in Surjection(over, announced)
  BY DEF Surjection
<1>4. IsFiniteSet(announced) /\ Cardinality(announced) <= Cardinality(over)
  BY <1>2, <1>3, FS_Surjection
<1>5. /\ Cardinality(announced) \in Nat /\ Cardinality(over) \in Nat
      /\ Cardinality(Runs) \in Nat
  BY <1>2, <1>4, FS_CardinalityType
<1>6. TickSteps = Cardinality(Runs) + 1
  BY <1>1, <1>5, FS_EmptySet DEF TickSteps, RefreshSteps
<1>7. TickSteps' = Cardinality(announced)
  BY <1>1 DEF TickSteps
<1>8. TickInv'
  BY <1>1, <1>4 DEF TickInv, TickMayGoOn
<1>9. QED
  BY <1>2, <1>4, <1>5, <1>6, <1>7, <1>8

LEMMA PollerRefreshSteps ==
    ASSUME IsFiniteSet(Runs), TypeOK, TruthInv, TickInv, RefreshStep(Poller)
    PROVE  TickInv' /\ TickSteps' < TickSteps
<1>1. /\ RefreshSteps(Poller)' < RefreshSteps(Poller)
      /\ refresh[Poller].pc # "idle"
      /\ refresh'[Poller].pc = "idle" \/ refresh'[Poller].op = refresh[Poller].op
      /\ refresh'[Poller].pc # "answered"
  BY RefreshGoesOn, PollerIsAnActor DEF TypeOK, TruthInv
<1>2. UNCHANGED poller
  BY DEF RefreshStep, AskRay, SettleForgotten, PutRecord, Results
<1>3. poller.pc = "settle"
  BY <1>1 DEF TickInv, TickMayGoOn
<1>4. TickInv'
  BY <1>1, <1>2, <1>3 DEF TickInv, TickMayGoOn
<1>5. RefreshSteps(Poller) \in 0..5 /\ RefreshSteps(Poller)' \in 0..5
  BY RefreshStepsCount, PollerIsAnActor DEF RefreshSteps
<1>6. Cardinality(Runs) \in Nat /\ Cardinality(poller.todo) \in Nat
  BY TickCount
<1>7. /\ TickSteps = Cardinality(Runs) + 1 + 6 * Cardinality(poller.todo)
                        + RefreshSteps(Poller)
      /\ TickSteps' = Cardinality(Runs) + 1 + 6 * Cardinality(poller.todo)
                        + RefreshSteps(Poller)'
  BY <1>2, <1>3 DEF TickSteps
<1>8. QED
  BY <1>1, <1>4, <1>5, <1>6, <1>7

LEMMA OfferSteps ==
    ASSUME IsFiniteSet(Runs), TypeOK, TickInv, RunFinished
    PROVE  TickInv' /\ TickSteps' < TickSteps
<1>1. PICK x \in poller.todo : poller' = [poller EXCEPT !.todo = @ \ {x}]
  BY DEF RunFinished
<1>2. /\ poller.pc = "offer" /\ UNCHANGED refresh
      /\ poller \in [pc : {"offer"}, todo : SUBSET (Runs \X Ended)]
  BY DEF RunFinished, TypeOK, ExperimentsTypeOK
<1>3. poller'.pc = "offer" /\ poller'.todo = poller.todo \ {x}
  BY <1>1, <1>2
<1>4. /\ IsFiniteSet(poller'.todo)
      /\ Cardinality(poller'.todo) = Cardinality(poller.todo) - 1
  BY <1>3, FS_RemoveElement DEF TickInv
<1>5. Cardinality(poller'.todo) \in Nat /\ Cardinality(poller.todo) \in Nat
  BY <1>4, FS_CardinalityType DEF TickInv
<1>6. TickSteps = Cardinality(poller.todo) /\ TickSteps' = Cardinality(poller'.todo)
  BY <1>2, <1>3 DEF TickSteps
<1>7. TickInv'
  BY <1>2, <1>3, <1>4 DEF TickInv, TickMayGoOn
<1>8. QED
  BY <1>4, <1>5, <1>6, <1>7

\* What is not a step of the tick leaves it alone, or cuts it off.
LEMMA TickLeftAlone ==
    ASSUME TypeOK, TruthInv, [Next]_vars, ~(PollerStep \/ RunFinished)
    PROVE  \/ poller' = NoTick /\ refresh'[Poller].pc = "idle"
           \/ poller' = poller /\ refresh'[Poller] = refresh[Poller]
<1>1. refresh \in [Actors -> RefreshType] /\ Poller \in Actors /\ Poller # Delivery
  BY TypesUnfold, PollerIsAnActor DEF TypeOK
<1>2. CASE UNCHANGED <<poller, refresh>>
  BY <1>2
<1>3. ASSUME NEW a \in Actors \ {Poller}, RefreshStep(a)
      PROVE  poller' = poller /\ refresh'[Poller] = refresh[Poller]
  <2>1. refresh'[Poller] = refresh[Poller]
    BY <1>1, <1>3, RefreshGoesOn DEF TypeOK, TruthInv
  <2>2. UNCHANGED poller
    BY <1>3 DEF RefreshStep, AskRay, SettleForgotten, PutRecord, Results
  <2>3. QED
    BY <2>1, <2>2
<1>4. CASE ExperimentsStep
  <2>1. CASE \E r \in Runs :
                LaunchStep(r) \/ JobReports(r) \/ JobEnds(r) \/ JobForgotten(r)
                \/ OutOfWindow(r)
    BY <1>2, <2>1 DEF LaunchStep, CreateRun, LaunchAborted, Submit, CloseRun, StoreLaunch,
                      JobReports, JobEnds, JobForgotten, OutOfWindow
  <2>2. ASSUME NEW a \in Readers, Look(a) \/ Stop(a)
        PROVE  poller' = poller /\ refresh'[Poller] = refresh[Poller]
    <3>1. a # Poller /\ a \in Actors
      BY PollerIsAnActor DEF Actors
    <3>2. UNCHANGED poller /\ \E r, status, op : refresh' = Begun(a, r, status, op)
      BY <2>2 DEF Look, Stop
    <3>3. QED
      BY <1>1, <3>1, <3>2 DEF Begun
  <2>3. ASSUME NEW a \in Readers, RefreshStep(a)
        PROVE  poller' = poller /\ refresh'[Poller] = refresh[Poller]
    <3>1. a \in Actors \ {Poller}
      BY PollerIsAnActor DEF Actors
    <3>2. QED
      BY <1>3, <2>3, <3>1
  <2>4. CASE TickCut
    BY <1>1, <2>4 DEF TickCut, NoRefresh
  <2>5. QED
    BY <1>4, <2>1, <2>2, <2>3, <2>4 DEF ExperimentsStep
<1>5. CASE RefreshStep(Delivery)
  BY <1>1, <1>3, <1>5, DeliveryIsAnActor
<1>6. CASE FindSession
  <2>1. UNCHANGED poller
    BY <1>6 DEF FindSession
  <2>2. \/ UNCHANGED refresh
        \/ refresh' = Begun(Delivery, delivery.run, run[delivery.run].record, "results")
    BY <1>6 DEF FindSession
  <2>3. QED
    BY <1>1, <2>1, <2>2 DEF Begun
<1>7. CASE Graded
  BY <1>1, <1>7 DEF Graded
<1>8. CASE Restart
  BY <1>1, <1>8 DEF Restart, NoRefresh
<1>9. QED
  BY <1>2, <1>4, <1>5, <1>6, <1>7, <1>8
     DEF Next, DeliveryStep, StartPass, Summarise, StartDelivery, TakeItem, ReadMessages,
         StartTurn, Wait, Reread, Speak, TurnEnds, Ask, DeleteSession, Connect,
         Disconnect, experimentVars, vars

LEMMA OthersLeaveTick ==
    ASSUME IsFiniteSet(Runs), TypeOK, TruthInv, TickInv, [Next]_vars,
           ~(PollerStep \/ RunFinished)
    PROVE  TickInv' /\ TickSteps' <= TickSteps
<1>1. TickSteps \in Nat
  BY TickCount
<1>2. CASE poller' = NoTick /\ refresh'[Poller].pc = "idle"
  <2>1. poller'.pc = "offer" /\ poller'.todo = {}
    BY <1>2 DEF NoTick
  <2>2. TickSteps' = 0 /\ IsFiniteSet(poller'.todo)
    BY <2>1, FS_EmptySet DEF TickSteps
  <2>3. TickInv'
    BY <1>2, <2>2 DEF TickInv, TickMayGoOn
  <2>4. QED
    BY <1>1, <2>2, <2>3
<1>3. CASE poller' = poller /\ refresh'[Poller] = refresh[Poller]
  <2>1. TickSteps' = TickSteps
    BY <1>3 DEF TickSteps, RefreshSteps
  <2>2. TickInv'
    BY <1>3 DEF TickInv, TickMayGoOn
  <2>3. QED
    BY <1>1, <2>1, <2>2
<1>4. QED
  BY <1>2, <1>3, TickLeftAlone

TickIsCounted == TickSteps \in Nat

LEMMA TicksStayFinite ==
    ASSUME IsFiniteSet(Runs), TypeOK, TruthInv, TickInv, TicksAreFinite, [Next]_vars
    PROVE  /\ TickInv' /\ TicksComeToAnEnd
           /\ TickIsCounted' => TicksAreFinite'
<1>1. Cardinality(Runs) \in Nat /\ TickSteps \in 0..(7 * Cardinality(Runs) + 1)
  BY TickCount DEF TicksAreFinite
<1>2. CASE Tick
  BY <1>1, <1>2, TickBegins DEF TicksAreFinite, TicksComeToAnEnd, PollerStep
<1>3. CASE SettleNext \/ FindFinished \/ RefreshStep(Poller) \/ RunFinished
  <2>1. TickInv' /\ TickSteps' < TickSteps
    BY <1>3, SettleNextSteps, FindFinishedSteps, PollerRefreshSteps, OfferSteps
  <2>2. QED
    BY <1>1, <1>3, <2>1 DEF TicksAreFinite, TicksComeToAnEnd, TickIsCounted, PollerStep
<1>4. CASE ~(PollerStep \/ RunFinished)
  BY <1>1, <1>4, OthersLeaveTick DEF TicksAreFinite, TicksComeToAnEnd, TickIsCounted
<1>5. QED
  BY <1>2, <1>3, <1>4 DEF PollerStep

\* Of finitely many runs, a tick takes no more steps than it counts, its announcements
\* included, and nothing outside it keeps it from one.
THEOREM TicksEnd ==
    ASSUME IsFiniteSet(Runs)
    PROVE  Spec => [](TicksAreFinite /\ TickMayGoOn) /\ [][TicksComeToAnEnd]_vars
<1> DEFINE Inv == TickInv /\ TicksAreFinite
<1>1. Init => Inv
  <2>1. SUFFICES ASSUME Init PROVE Inv
    OBVIOUS
  <2>2. poller.pc = "offer" /\ poller.todo = {} /\ refresh[Poller].pc = "idle"
    BY <2>1, PollerIsAnActor DEF Init, ExperimentsInit, NoTick, NoRefresh
  <2>3. Cardinality(Runs) \in Nat /\ IsFiniteSet({}) /\ Cardinality({}) = 0
    BY FS_CardinalityType, FS_EmptySet
  <2>4. QED
    BY <2>2, <2>3 DEF TickInv, TicksAreFinite, TickMayGoOn, TickSteps
<1>2. TypeOK /\ TickInv => TickIsCounted
  BY TickCount DEF TickIsCounted
<1>3. TypeOK /\ TruthInv /\ Inv /\ [Next]_vars => TickInv'
  BY TicksStayFinite
<1>4. TypeOK /\ TruthInv /\ Inv /\ [Next]_vars /\ TickIsCounted' => TicksAreFinite'
  BY TicksStayFinite
<1>5. TypeOK /\ TruthInv /\ Inv /\ [Next]_vars => [TicksComeToAnEnd]_vars
  BY TicksStayFinite
<1>6. TickInv => TickMayGoOn
  BY DEF TickInv
<1>7. QED
  BY <1>1, <1>2, <1>3, <1>4, <1>5, <1>6, TypeCorrect, TruthInvariant, PTL DEF Spec
=============================================================================
