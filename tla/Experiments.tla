------------------------------ MODULE Experiments ------------------------------
(***************************************************************************)
(* Experiments (pkg/experiments): a launch leaves an MLflow run, a Ray job    *)
(* and a record, each of which may fail after the ones before it; afterwards  *)
(* the record is reconciled with Ray's view of the job by whoever looks, the  *)
(* poller among them.  Ray and MLflow are external.  Launch's checks and the  *)
(* building of its package come before anything that lasts.                   *)
(***************************************************************************)
EXTENDS Integers, FiniteSets

CONSTANTS
    Runs,       \* the experiments, numbered in the order of their submission
    Readers,    \* requests that look at an experiment (Get, List, Stop, Results)
    Batch,      \* PollerOptions.Batch: the most records that one tick offers
    Situations  \* bound: where the model begins, and how often what it has no
                \* other bound for may happen from there

ASSUME RunsAssumption == Runs \subseteq Nat \ {0}
ASSUME BatchAssumption == Batch \in Nat \ {0}

\* Who refreshes records beside the readers.
Poller   == "poller"
Delivery == "delivery"

ASSUME ReadersAssumption == {Poller, Delivery} \intersect Readers = {}

Actors == Readers \union {Poller, Delivery}

VARIABLES
    run,      \* an experiment: its launch, Ray's job, MLflow's run, ODE's record,
              \* the summary that is kept of it, the place of its end among the ends
              \* (terminalAt), and whether that is inside PollerOptions.Window
    refresh,  \* the refresh an actor is in
    poller,   \* the poller's tick
    left      \* what may still happen: looks at a record, turns the developer asks
              \* for, and upsets (failed calls, lost answers, time limits, restarts,
              \* and ends that are too long ago)

experimentVars == <<run, refresh, poller, left>>

\* The statuses: PENDING and RUNNING are open, the others Terminal.
Open  == "open"
Ended == {"succeeded", "failed", "stopped"}

\* Runs a model may begin with: still to be launched, or never, running, ended and
\* recorded.
NewRun == [launch |-> "new", ray |-> "none", known |-> FALSE, mlflow |-> "none",
           record |-> "none", kept |-> "none", at |-> 0, recent |-> TRUE]

NoRun == [NewRun EXCEPT !.launch = "never"]

RunningRun == [launch |-> "done", ray |-> Open, known |-> TRUE, mlflow |-> Open,
               record |-> Open, kept |-> "none", at |-> 0, recent |-> TRUE]

\* Runs that have ended before the model begins ended in the order of their numbers.
EndedRun == [RunningRun EXCEPT !.ray = "succeeded", !.mlflow = "finished",
                               !.record = "succeeded"]

\* Bound: what a tick settles fits into a batch.
ASSUME SituationsAssumption ==
    /\ Situations \subseteq
         [run : [Runs -> {NewRun, NoRun, RunningRun, EndedRun}],
          left : [looks : Nat, asks : Nat, upsets : Nat, developer : BOOLEAN]]
    /\ \A s \in Situations :
          Cardinality({r \in Runs : s.run[r] \in {NewRun, RunningRun}}) <= Batch

NoTick == [pc |-> "offer", todo |-> {}]

NoRefresh == [pc |-> "idle", run |-> 0, op |-> "none", status |-> "none"]

ExperimentsInit ==
    /\ \E s \in Situations : run = s.run /\ left = s.left
    /\ refresh = [a \in Actors |-> NoRefresh]
    /\ poller = NoTick

Fault == left.upsets > 0 /\ left' = [left EXCEPT !.upsets = @ - 1]
NoFault == UNCHANGED left

Over(r) == run[r].ray \in Ended

\* terminalAt: when a run's end is known to ODE, as its place among the ends.
Latest(q) == \A p \in Runs : run[p].at <= run[q].at
Now == 1 + run[CHOOSE q \in Runs : Latest(q)].at

Before(q, r) == run[q].at < run[r].at \/ (run[q].at = run[r].at /\ q < r)

\* The submission returned an error, which is the end of the run for ODE.
SubmissionFailed(r) == run[r].launch \in {"refused", "failing", "failed"}

\* The job is over, at a time that Ray will tell.
EndOf(r) == IF SubmissionFailed(r) THEN run[r].at ELSE Now

-------------------------------------------------------------------------------
(* Launch, from its first lasting effect on.                                *)

\* mlflow.createRun; when its answer is lost the run is there all the same.
CreateRun(r) ==
    /\ run[r].launch = "new"
    /\ \/ /\ NoFault
          /\ run' = [run EXCEPT ![r].launch = "created", ![r].mlflow = Open]
       \/ /\ Fault
          /\ \E made \in {"none", Open} :
                run' = [run EXCEPT ![r].launch = "done", ![r].mlflow = made]
    /\ UNCHANGED <<refresh, poller>>

\* deploymentEnvironment fails: the run stays as it is.
LaunchAborted(r) ==
    /\ run[r].launch = "created"
    /\ Fault
    /\ run' = [run EXCEPT ![r].launch = "done"]
    /\ UNCHANGED <<refresh, poller>>

\* ray.submit; an error does not say that the job was not accepted.
Submit(r) ==
    /\ run[r].launch = "created"
    /\ \/ /\ NoFault
          /\ run' = [run EXCEPT ![r].launch = "accepted", ![r].ray = Open,
                                ![r].known = TRUE]
       \/ /\ Fault
          /\ \E accepted \in BOOLEAN :
                run' = [run EXCEPT ![r].launch = "refused",
                                   ![r].ray = IF accepted THEN Open ELSE "none",
                                   ![r].known = accepted, ![r].at = Now]
    /\ UNCHANGED <<refresh, poller>>

\* The run of a refused submission is closed, or that fails too.
CloseRun(r) ==
    /\ run[r].launch = "refused"
    /\ \/ NoFault /\ run' = [run EXCEPT ![r].launch = "failing", ![r].mlflow = "failed"]
       \/ Fault /\ run' = [run EXCEPT ![r].launch = "failing"]
    /\ UNCHANGED <<refresh, poller>>

\* store.Put of the record, which may fail; nothing is undone then.
StoreLaunch(r) ==
    /\ run[r].launch \in {"accepted", "failing"}
    /\ \/ /\ NoFault
          /\ run' = IF run[r].launch = "failing"
                    THEN [run EXCEPT ![r].launch = "failed", ![r].record = "failed"]
                    ELSE [run EXCEPT ![r].launch = "done", ![r].record = Open]
       \/ Fault /\ run' = [run EXCEPT ![r].launch = "done"]
    /\ UNCHANGED <<refresh, poller>>

LaunchStep(r) ==
    \/ CreateRun(r) \/ LaunchAborted(r) \/ Submit(r) \/ CloseRun(r)
    \/ StoreLaunch(r)

-------------------------------------------------------------------------------
(* The job, at Ray and in MLflow.                                           *)

\* The job's own code closes its run, or is killed before it can.
JobReports(r) ==
    /\ run[r].ray = Open /\ run[r].mlflow = Open
    /\ \E status \in {"finished", "failed"} :
          run' = [run EXCEPT ![r].mlflow = status]
    /\ UNCHANGED <<refresh, poller, left>>

JobEnds(r) ==
    /\ run[r].ray = Open
    /\ \E status \in {"succeeded", "failed"} :
          run' = [run EXCEPT ![r].ray = status, ![r].at = EndOf(r)]
    /\ UNCHANGED <<refresh, poller, left>>

\* Ray forgets a job that ended, or restarts and loses one that runs.
JobForgotten(r) ==
    /\ run[r].known /\ run[r].ray # "none"
    /\ Fault
    /\ run' = [run EXCEPT ![r].known = FALSE,
                          ![r].ray = IF @ = Open THEN "stopped" ELSE @,
                          ![r].at = IF run[r].ray = Open THEN EndOf(r) ELSE @]
    /\ UNCHANGED <<refresh, poller>>

\* Time: the oldest of the ends falls out of the poller's window.
OutOfWindow(r) ==
    LET InWindow(q) == run[q].recent /\ (Over(q) \/ SubmissionFailed(q))
    IN  /\ InWindow(r)
        /\ \A q \in Runs : InWindow(q) => ~Before(q, r)
        /\ Fault
        /\ run' = [run EXCEPT ![r].recent = FALSE]
        /\ UNCHANGED <<refresh, poller>>

-------------------------------------------------------------------------------
(* refresh, and results after it.                                           *)

\* A record that was read with this status: refreshed if it is open.
Begun(a, r, status, op) ==
    [refresh EXCEPT ![a] =
       [pc |-> IF status \in Ended THEN "results" ELSE "ask",
        run |-> r, op |-> op, status |-> status]]

\* Get, List or Results: a look at an ended record ends there, unless the results
\* were asked for.
Look(a) ==
    /\ refresh[a].pc = "idle"
    /\ left.looks > 0 /\ left' = [left EXCEPT !.looks = @ - 1]
    /\ \E r \in Runs, op \in {"get", "results"} :
          /\ \/ run[r].record = Open
             \/ run[r].record \in Ended /\ op = "results"
          /\ refresh' = Begun(a, r, run[r].record, op)
    /\ UNCHANGED <<run, poller>>

\* Stop: Ray stops the job, then the record is refreshed.
Stop(a) ==
    /\ refresh[a].pc = "idle"
    /\ left.looks > 0 /\ left' = [left EXCEPT !.looks = @ - 1]
    /\ \E r \in Runs :
          /\ run[r].record = Open /\ run[r].known
          /\ run' = [run EXCEPT ![r].ray = IF @ = Open THEN "stopped" ELSE @,
                                ![r].at = IF run[r].ray = Open THEN EndOf(r) ELSE @]
          /\ refresh' = Begun(a, r, Open, "get")
    /\ UNCHANGED poller

\* The refresh answers: an error is "none".  Delivery takes its answer itself.
Reply(a, status) ==
    refresh' = [refresh EXCEPT ![a] =
       IF a = Delivery THEN [@ EXCEPT !.pc = "answered", !.status = status]
       ELSE NoRefresh]

\* The refresh has succeeded: its caller goes on to results, or is answered.
Refreshed(a, status) ==
    IF refresh[a].op = "results"
    THEN refresh' = [refresh EXCEPT ![a].pc = "results", ![a].status = status]
    ELSE Reply(a, status)

\* Mutant: Ray that cannot be reached is taken for Ray that does not know the job.
AskRayAnyError(a) ==
    /\ refresh[a].pc = "ask"
    /\ \/ /\ (Fault \/ (NoFault /\ ~run[refresh[a].run].known))
          /\ refresh' = [refresh EXCEPT ![a].pc = "mlflow"]
       \/ /\ NoFault /\ run[refresh[a].run].known
          /\ refresh' = [refresh EXCEPT ![a].pc = "put",
                                        ![a].status = run[refresh[a].run].ray]
    /\ UNCHANGED <<run, poller>>

\* ray.details: the job's status, a 404, or an error.
AskRay(a) ==
    /\ refresh[a].pc = "ask"
    /\ LET r == refresh[a].run
       IN  \/ Fault /\ Reply(a, "none")
           \/ /\ NoFault /\ ~run[r].known
              /\ refresh' = [refresh EXCEPT ![a].pc = "mlflow"]
           \/ /\ NoFault /\ run[r].known
              /\ refresh' = [refresh EXCEPT ![a].pc = "put", ![a].status = run[r].ray]
    /\ UNCHANGED <<run, poller>>

\* Mutant: the record of a forgotten job is returned untouched.
LeaveForgotten(a) ==
    /\ refresh[a].pc = "mlflow"
    /\ Refreshed(a, refresh[a].status)
    /\ UNCHANGED <<run, poller, left>>

\* What MLflow says of a job Ray forgot; "stopped" claims nothing.
Settled(r) == CASE run[r].mlflow = "finished" -> "succeeded"
                [] run[r].mlflow = "failed" -> "failed"
                [] OTHER -> "stopped"

\* settleForgotten; MLflow may be out of reach.
SettleForgotten(a) ==
    /\ refresh[a].pc = "mlflow"
    /\ \E status \in {Settled(refresh[a].run), "stopped"} :
          /\ IF status = Settled(refresh[a].run) THEN NoFault ELSE Fault
          /\ refresh' = [refresh EXCEPT ![a].pc = "settle", ![a].status = status]
    /\ UNCHANGED <<run, poller>>

\* The end of a job that was forgotten, and that MLflow knows no end of, is when it is
\* recorded.
EndsHere(a) == refresh[a].pc = "settle" /\ refresh[a].status = "stopped"

\* store.Put, whatever the row says by now.  A failure is an error, or for a job
\* that was forgotten only logged.
PutRecord(a) ==
    /\ refresh[a].pc \in {"put", "settle"}
    /\ \/ /\ NoFault
          /\ run' = [run EXCEPT
                ![refresh[a].run].record = refresh[a].status,
                ![refresh[a].run].at = IF EndsHere(a) THEN Now ELSE @,
                ![refresh[a].run].recent = @ \/ EndsHere(a)]
          /\ Refreshed(a, refresh[a].status)
       \/ /\ Fault
          /\ IF refresh[a].pc = "settle" THEN Refreshed(a, refresh[a].status)
             ELSE Reply(a, "none")
          /\ UNCHANGED run
    /\ UNCHANGED poller

\* reconcile: MLflow's failure is believed over any status of Ray's.
Reconciled(r, status) == IF run[r].mlflow = "failed" THEN "failed" ELSE status

\* results: the kept summary; or one that is built (there is none, or the store does
\* not say) and, when it is settled, kept.  MLflow may be out of reach, and the
\* criteria unread.
Results(a) ==
    /\ refresh[a].pc = "results"
    /\ LET r == refresh[a].run
           summary == Reconciled(r, refresh[a].status)
       IN  \/ /\ run[r].kept # "none" /\ NoFault
              /\ Reply(a, run[r].kept)
              /\ UNCHANGED run
           \/ /\ IF run[r].kept = "none" THEN NoFault ELSE Fault
              /\ Reply(a, summary)
              /\ \/ /\ summary \in Ended
                    /\ run' = [run EXCEPT ![r].kept = summary]
                 \/ UNCHANGED run
           \/ /\ run[r].kept = "none" /\ Fault
              /\ Reply(a, "none")
              /\ UNCHANGED run
    /\ UNCHANGED poller

RefreshStep(a) == AskRay(a) \/ SettleForgotten(a) \/ PutRecord(a) \/ Results(a)

-------------------------------------------------------------------------------
(* The poller.                                                              *)

\* The open records are read in one batch, which has room for them ...
Tick ==
    /\ poller = NoTick
    /\ poller' = [pc |-> "settle", todo |-> {r \in Runs : run[r].record = Open}]
    /\ UNCHANGED <<run, refresh, left>>

\* ... and refreshed one after the other, as they were read.
SettleNext ==
    /\ poller.pc = "settle" /\ refresh[Poller].pc = "idle"
    /\ \E r \in poller.todo :
          /\ refresh' = Begun(Poller, r, Open, "get")
          /\ poller' = [poller EXCEPT !.todo = @ \ {r}]
    /\ UNCHANGED <<run, left>>

\* recentlyTerminal, of runs that all have a conversation and an MLflow run.
Recent == {r \in Runs : run[r].record \in Ended /\ run[r].recent}

\* RecentlyTerminal: a batch of them, those that ended first.
Offered == {r \in Recent : Cardinality({q \in Recent : Before(q, r)}) < Batch}

\* Mutant: a run whose summary somebody has read is taken for delivered.
FindUnread ==
    /\ poller.pc = "settle" /\ refresh[Poller].pc = "idle"
    /\ poller.todo = {}
    /\ poller' = [pc |-> "offer",
                  todo |-> {<<r, run[r].record>> :
                               r \in {s \in Offered : run[s].kept = "none"}}]
    /\ UNCHANGED <<run, refresh, left>>

\* Then the finished ones are read, to be announced: pairs of a run and its status.
FindFinished ==
    /\ poller.pc = "settle" /\ refresh[Poller].pc = "idle"
    /\ poller.todo = {}
    /\ poller' = [pc |-> "offer",
                  todo |-> {<<r, run[r].record>> : r \in Offered}]
    /\ UNCHANGED <<run, refresh, left>>

\* The tick's time is up, or the store does not answer.
TickCut ==
    /\ poller # NoTick
    /\ Fault
    /\ poller' = NoTick
    /\ refresh' = [refresh EXCEPT ![Poller] = NoRefresh]
    /\ UNCHANGED run

PollerStep == Tick \/ SettleNext \/ FindFinished \/ RefreshStep(Poller)

ExperimentsStep ==
    \/ \E r \in Runs :
          LaunchStep(r) \/ JobReports(r) \/ JobEnds(r) \/ JobForgotten(r) \/ OutOfWindow(r)
    \/ \E a \in Readers : Look(a) \/ Stop(a) \/ RefreshStep(a)
    \/ PollerStep \/ TickCut

-------------------------------------------------------------------------------
Statuses == {"none", Open} \union Ended

ExperimentsTypeOK ==
    /\ run \in [Runs -> [launch : {"new", "never", "created", "accepted", "refused",
                                  "failing", "done", "failed"},
                        ray : Statuses, known : BOOLEAN,
                        mlflow : {"none", Open, "finished", "failed"},
                        record : Statuses, kept : {"none"} \union Ended,
                        at : Nat, recent : BOOLEAN]]
    /\ Runs = {} \/ \E q \in Runs : Latest(q)
    /\ refresh \in [Actors -> [pc : {"idle", "ask", "mlflow", "put", "settle",
                                    "results", "answered"},
                              run : Runs \union {0},
                              op : {"none", "get", "results"},
                              status : Statuses]]
    /\ poller \in [pc : {"settle"}, todo : SUBSET Runs]
                  \union [pc : {"offer"}, todo : SUBSET (Runs \X Ended)]
    /\ left \in [looks : Nat, asks : Nat, upsets : Nat, developer : BOOLEAN]

(* What is true of a run, to compare with what is said of it.               *)

\* How a record may say that run r ended.  The job is over, and the word is Ray's, or
\* for a job that Ray forgot MLflow's, or "stopped", which claims nothing.  Apart from
\* these is a submission that returned an error: it is recorded as failed, and Ray may
\* have accepted the job.
Settles(r, word) ==
    \/ /\ Over(r)
       /\ word = run[r].ray \/ (~run[r].known /\ word \in {"stopped", Settled(r)})
    \/ run[r].launch = "failed" /\ word = "failed"

\* How a summary may: as its record, or failed if MLflow says so (reconcile).
Tells(r, word) ==
    \/ Settles(r, word)
    \/ Over(r) /\ word = "failed" /\ run[r].mlflow = "failed"
===============================================================================
