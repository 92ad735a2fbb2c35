------------------------- MODULE Experiments_proofs -------------------------
(***************************************************************************)
(* Lemmas about Experiments, for any runs and readers: its types, and that  *)
(* what a record, a summary that is kept, a refresh or the poller says of a *)
(* run that ended is true of it.  The module above Experiments cites them.  *)
(***************************************************************************)
EXTENDS Experiments, TLAPS

\* A run is talked about from its record's first write on, which is the last thing
\* its launch does.
Said(r) == run[r].record # "none"

\* There is no more to come for the record: the job is over, or it is the record of a
\* refused submission, which is not refreshed.
Sure(r) == Over(r) \/ (run[r].launch = "failed" /\ run[r].record = "failed")

\* What a summary may say that is built while Ray still runs the job, too.
Claims(r, word) == Tells(r, word) \/ (word = "failed" /\ run[r].mlflow = "failed")

\* A job that was submitted is only unknown to Ray once it is over.
RunInv(r) ==
    /\ Said(r) => run[r].launch \in {"done", "failed"}
    /\ run[r].launch = "failed" => run[r].record = "failed"
    /\ run[r].known => run[r].ray # "none"
    /\ run[r].launch = "accepted" \/ (run[r].launch = "done" /\ Said(r)) =>
          run[r].known \/ Over(r)
    /\ run[r].record \in Ended => Settles(r, run[r].record) /\ Sure(r)
    /\ run[r].kept # "none" => Said(r) /\ Claims(r, run[r].kept)

RefreshInv(a) ==
    LET x == refresh[a]
    IN  x.pc # "idle" =>
          /\ x.run \in Runs /\ Said(x.run)
          /\ x.pc \in {"ask", "mlflow", "put", "settle"} => run[x.run].launch = "done"
          /\ x.pc = "mlflow" => ~run[x.run].known
          /\ x.pc # "answered" => x.status # "none"
          /\ x.status \in Ended =>
                IF x.pc = "answered" THEN Claims(x.run, x.status)
                ELSE Settles(x.run, x.status)
          /\ x.pc \in {"put", "settle"} /\ x.status \in Ended => Over(x.run)

PollerInv ==
    /\ poller.pc = "settle" =>
          \A r \in poller.todo : Said(r) /\ run[r].launch = "done"
    /\ poller.pc = "offer" =>
          \A x \in poller.todo : Said(x[1]) /\ Settles(x[1], x[2]) /\ Sure(x[1])

ExperimentsInv ==
    /\ \A r \in Runs : RunInv(r)
    /\ \A a \in Actors : RefreshInv(a)
    /\ PollerInv

\* What a step keeps of every run that is talked about.
Steady ==
    \A r \in Runs : Said(r) =>
        /\ Said(r)'
        /\ run'[r].launch = run[r].launch
        /\ ~run[r].known => ~run'[r].known
        /\ Over(r) => Over(r)'
        /\ Sure(r) => Sure(r)'
        /\ \A word \in Ended :
              /\ Settles(r, word) => Settles(r, word)'
              /\ Tells(r, word) => Tells(r, word)'
              /\ Claims(r, word) => Claims(r, word)'

RunType == [launch : {"new", "never", "created", "accepted", "refused",
                      "failing", "done", "failed"},
            ray : Statuses, known : BOOLEAN,
            mlflow : {"none", Open, "finished", "failed"},
            record : Statuses, kept : {"none"} \union Ended,
            at : Nat, recent : BOOLEAN]

\* The runs have their types, and one of them ended last.
SomeLatest == Runs = {} \/ \E q \in Runs : Latest(q)

RunsFit == run \in [Runs -> RunType] /\ SomeLatest

RefreshType == [pc : {"idle", "ask", "mlflow", "put", "settle", "results", "answered"},
                run : Runs \union {0}, op : {"none", "get", "results"},
                status : Statuses]

LeftType == [looks : Nat, asks : Nat, upsets : Nat, developer : BOOLEAN]

-----------------------------------------------------------------------------
LEMMA FaultType == ASSUME left \in LeftType, Fault \/ NoFault PROVE left' \in LeftType
BY DEF Fault, NoFault, LeftType

LEMMA TypesUnfold ==
    ExperimentsTypeOK <=>
        /\ RunsFit
        /\ refresh \in [Actors -> RefreshType]
        /\ poller \in [pc : {"settle"}, todo : SUBSET Runs]
                      \union [pc : {"offer"}, todo : SUBSET (Runs \X Ended)]
        /\ left \in LeftType
BY DEF ExperimentsTypeOK, RunsFit, SomeLatest, RunType, RefreshType, LeftType

\* What a word means: a record's is good for a summary, and a summary's for one that
\* is kept; of a run that nothing more comes of they are the same.
LEMMA Words ==
    ASSUME NEW r \in Runs, NEW word \in Ended
    PROVE  /\ Settles(r, word) => Tells(r, word)
           /\ Tells(r, word) => Claims(r, word)
           /\ Claims(r, word) /\ Sure(r) => Tells(r, word)
BY DEF Claims, Tells, Settles, Sure

\* Now is after the ends so far.
LEMMA NowIsLast ==
    ASSUME RunsFit, Runs # {}
    PROVE  Now \in Nat /\ \A p \in Runs : run[p].at < Now
<1>1. PICK q : q = CHOOSE q0 \in Runs : Latest(q0)
  OBVIOUS
<1>2. q \in Runs /\ Latest(q) /\ Now = 1 + run[q].at
  BY <1>1 DEF RunsFit, SomeLatest, Now
<1>3. \A p \in Runs : run[p].at \in Nat
  BY DEF RunsFit, RunType
<1>4. QED
  BY <1>2, <1>3 DEF Latest

LEMMA EndOfType ==
    ASSUME RunsFit, NEW r \in Runs
    PROVE  EndOf(r) \in {run[r].at, Now} /\ EndOf(r) \in Nat
BY NowIsLast DEF EndOf, RunsFit, RunType

\* One run ends, or none.
LEMMA StillLatest ==
    ASSUME RunsFit, NEW r \in Runs, run' \in [Runs -> RunType],
           \A q \in Runs \ {r} : run'[q] = run[q],
           run'[r].at \in {run[r].at, Now}
    PROVE  RunsFit'
<1>1. Now \in Nat /\ \A p \in Runs : run[p].at < Now
  BY NowIsLast
<1>2. \A p \in Runs : run[p].at \in Nat /\ run'[p].at \in Nat
  BY DEF RunsFit, RunType
<1>3. CASE run'[r].at = Now
  <2>1. \A p \in Runs : run'[p].at <= run'[r].at
    BY <1>1, <1>2, <1>3
  <2>2. QED
    BY <2>1 DEF RunsFit, SomeLatest, Latest
<1>4. CASE run'[r].at = run[r].at
  <2>1. PICK q \in Runs : Latest(q)
    BY DEF RunsFit, SomeLatest
  <2>2. \A p \in Runs : run'[p].at <= run'[q].at
    BY <1>4, <2>1 DEF Latest
  <2>3. QED
    BY <2>2 DEF RunsFit, SomeLatest, Latest
<1>5. QED
  BY <1>3, <1>4

LEMMA SameLatest == ASSUME RunsFit, UNCHANGED run PROVE RunsFit'
BY DEF RunsFit, SomeLatest, Latest

\* A launch changes its own run only, which nobody talks about yet.
LEMMA LaunchEffect ==
    ASSUME RunsFit, left \in LeftType,
           NEW r \in Runs, RunInv(r), LaunchStep(r)
    PROVE  /\ RunsFit'
           /\ \A q \in Runs \ {r} : run'[q] = run[q]
           /\ ~Said(r)
           /\ RunInv(r)'
           /\ left' \in LeftType
           /\ UNCHANGED <<refresh, poller>>
<1> USE DEF RunType, Statuses, Open, Ended
<1> run \in [Runs -> RunType]
  BY DEF RunsFit
<1>1. CASE CreateRun(r)
  <2>1. PICK label \in {"created", "done"}, made \in {"none", Open} :
           run' = [run EXCEPT ![r] = [run[r] EXCEPT !.launch = label, !.mlflow = made]]
    BY <1>1 DEF CreateRun
  <2>2. RunsFit' /\ \A q \in Runs \ {r} : run'[q] = run[q]
    <3>1. [run[r] EXCEPT !.launch = label, !.mlflow = made] \in RunType
      OBVIOUS
    <3>2. run' \in [Runs -> RunType] /\ run'[r].at = run[r].at
      BY <2>1, <3>1
    <3>3. QED
      BY <2>1, <3>2, StillLatest
  <2>3. RunInv(r)' /\ ~Said(r)
    BY <1>1, <2>1 DEF CreateRun, RunInv, Said, Over, Sure, Claims, Tells, Settles, Settled
  <2>4. QED
    BY <1>1, <2>2, <2>3, FaultType DEF CreateRun
<1>2. CASE LaunchAborted(r)
  <2>1. RunsFit' /\ \A q \in Runs \ {r} : run'[q] = run[q]
    <3>1. /\ run' \in [Runs -> RunType] /\ run'[r].at = run[r].at
          /\ \A q \in Runs \ {r} : run'[q] = run[q]
      BY <1>2 DEF LaunchAborted
    <3>2. QED
      BY <3>1, StillLatest
  <2>2. RunInv(r)' /\ ~Said(r)
    BY <1>2 DEF LaunchAborted, RunInv, Said, Over, Sure, Claims, Tells, Settles, Settled
  <2>3. QED
    BY <1>2, <2>1, <2>2, FaultType DEF LaunchAborted
<1>3. CASE Submit(r)
  <2>1. PICK label \in {"accepted", "refused"}, job \in {"none", Open}, known \in BOOLEAN,
             at \in {run[r].at, Now} :
           /\ run' = [run EXCEPT ![r] = [run[r] EXCEPT !.launch = label, !.ray = job,
                                                      !.known = known, !.at = at]]
           /\ known <=> job = Open
           /\ label = "accepted" => known
    <3>1. CASE run' = [run EXCEPT ![r].launch = "accepted", ![r].ray = Open,
                                  ![r].known = TRUE]
      <4>1. run' = [run EXCEPT ![r] = [run[r] EXCEPT !.launch = "accepted", !.ray = Open,
                                                     !.known = TRUE, !.at = run[r].at]]
        BY <3>1
      <4>2. QED
        BY <4>1
    <3>2. ASSUME NEW accepted \in BOOLEAN,
                 run' = [run EXCEPT ![r].launch = "refused",
                                    ![r].ray = IF accepted THEN Open ELSE "none",
                                    ![r].known = accepted, ![r].at = Now]
          PROVE  \E job \in {"none", Open} :
                    /\ run' = [run EXCEPT ![r] = [run[r] EXCEPT
                          !.launch = "refused", !.ray = job, !.known = accepted,
                          !.at = Now]]
                    /\ accepted <=> job = Open
      BY <3>2
    <3>3. QED
      BY <1>3, <3>1, <3>2 DEF Submit
  <2> DEFINE new == [run[r] EXCEPT !.launch = label, !.ray = job, !.known = known,
                                   !.at = at]
  <2>2. new \in RunType /\ new.launch = label /\ new.ray = job /\ new.known = known
        /\ new.record = run[r].record /\ new.kept = run[r].kept /\ new.at = at
    <3>1. run[r] \in RunType /\ at \in Nat
      BY NowIsLast
    <3>2. QED
      BY <3>1
  <2>3. run' = [run EXCEPT ![r] = new]
    BY <2>1
  <2> HIDE DEF new
  <2>4. /\ run' \in [Runs -> RunType]
        /\ \A q \in Runs \ {r} : run'[q] = run[q]
        /\ run'[r] = new
    BY <2>2, <2>3
  <2>5. RunsFit'
    BY <2>2, <2>4, StillLatest
  <2>6. RunInv(r)' /\ ~Said(r)
    <3>1. run[r].launch = "created" /\ run[r].record = "none" /\ run[r].kept = "none"
      BY <1>3 DEF Submit, RunInv, Said
    <3>2. QED
      BY <2>1, <2>2, <2>4, <3>1 DEF RunInv, Said, Over, Sure, Claims, Tells, Settles, Settled
  <2>7. QED
    BY <1>3, <2>4, <2>5, <2>6, FaultType DEF Submit
<1>4. CASE CloseRun(r)
  <2>1. RunsFit' /\ \A q \in Runs \ {r} : run'[q] = run[q]
    <3>1. /\ run' \in [Runs -> RunType] /\ run'[r].at = run[r].at
          /\ \A q \in Runs \ {r} : run'[q] = run[q]
      BY <1>4 DEF CloseRun
    <3>2. QED
      BY <3>1, StillLatest
  <2>2. RunInv(r)' /\ ~Said(r)
    BY <1>4 DEF CloseRun, RunInv, Said, Over, Sure, Claims, Tells, Settles, Settled
  <2>3. QED
    BY <1>4, <2>1, <2>2, FaultType DEF CloseRun
<1>5. CASE StoreLaunch(r)
  <2>1. RunsFit' /\ \A q \in Runs \ {r} : run'[q] = run[q]
    <3>1. /\ run' \in [Runs -> RunType] /\ run'[r].at = run[r].at
          /\ \A q \in Runs \ {r} : run'[q] = run[q]
      BY <1>5 DEF StoreLaunch
    <3>2. QED
      BY <3>1, StillLatest
  <2>2. RunInv(r)' /\ ~Said(r)
    BY <1>5 DEF StoreLaunch, RunInv, Said, Over, Sure, Claims, Tells, Settles, Settled
  <2>3. QED
    BY <1>5, <2>1, <2>2, FaultType DEF StoreLaunch
<1>6. QED
  BY <1>1, <1>2, <1>3, <1>4, <1>5 DEF LaunchStep

\* What is steady is what is said by whoever does not move.
LEMMA SteadyRefresh ==
    ASSUME Steady, NEW a \in Actors, RefreshInv(a), UNCHANGED refresh[a],
           refresh[a].status \in Statuses
    PROVE  RefreshInv(a)'
BY DEF Steady, RefreshInv

LEMMA SteadyPoller ==
    ASSUME ExperimentsTypeOK, Steady, PollerInv, UNCHANGED poller
    PROVE  PollerInv'
<1>1. CASE poller.pc = "settle"
  <2>1. poller.todo \subseteq Runs
    BY <1>1 DEF ExperimentsTypeOK
  <2>2. QED
    BY <1>1, <2>1 DEF Steady, PollerInv
<1>2. CASE poller.pc = "offer"
  <2>1. poller.todo \subseteq Runs \X Ended
    BY <1>2 DEF ExperimentsTypeOK
  <2>2. ASSUME NEW x \in poller.todo
        PROVE  (Said(x[1]) /\ Settles(x[1], x[2]) /\ Sure(x[1]))'
    <3>1. x[1] \in Runs /\ x[2] \in Ended
      BY <2>1, <2>2
    <3>2. QED
      BY <1>2, <2>2, <3>1 DEF Steady, PollerInv
  <2>3. QED
    BY <1>2, <2>2 DEF PollerInv
<1>3. QED
  BY <1>1, <1>2 DEF PollerInv

\* A step that leaves the runs alone is steady, and keeps what is true of them.
LEMMA SameRuns ==
    ASSUME UNCHANGED run
    PROVE  Steady /\ \A r \in Runs : RunInv(r) => RunInv(r)'
BY DEF Steady, RunInv, Said, Over, Sure, Claims, Tells, Settles, Settled

\* A job changes as Ray and its own code see it.
LEMMA JobEffect ==
    ASSUME RunsFit, left \in LeftType, \A q \in Runs : RunInv(q),
           NEW r \in Runs, JobReports(r) \/ JobEnds(r) \/ JobForgotten(r)
    PROVE  /\ RunsFit'
           /\ Steady
           /\ \A q \in Runs : RunInv(q)'
           /\ left' \in LeftType
           /\ UNCHANGED <<refresh, poller>>
<1> DEFINE new(mlflow, ray, known, at) ==
             [run[r] EXCEPT !.mlflow = mlflow, !.ray = ray, !.known = known, !.at = at]
<1> USE DEF Statuses, Open, Ended
<1> run \in [Runs -> RunType]
  BY DEF RunsFit
<1>1. /\ left' \in LeftType /\ UNCHANGED <<refresh, poller>>
      /\ \E mlflow \in {"none", Open, "finished", "failed"}, ray \in Statuses,
            known \in BOOLEAN, at \in {run[r].at, Now} :
            /\ run' = [run EXCEPT ![r] = new(mlflow, ray, known, at)]
            /\ at \in Nat
            /\ \/ mlflow = run[r].mlflow
               \/ run[r].mlflow = Open /\ run[r].ray = Open /\ ray = Open
            /\ ray = run[r].ray \/ (run[r].ray = Open /\ ray \in Ended)
            /\ known = run[r].known \/ (~known /\ ray \in Ended)
  <2>1. CASE JobReports(r)
    <3>1. PICK status \in {"finished", "failed"} :
             run' = [run EXCEPT ![r] = new(status, run[r].ray, run[r].known, run[r].at)]
      BY <2>1 DEF JobReports, RunType
    <3>2. QED
      BY <2>1, <3>1 DEF JobReports, RunType
  <2>2. CASE JobEnds(r)
    <3>1. PICK status \in {"succeeded", "failed"} :
             run' = [run EXCEPT ![r].ray = status, ![r].at = EndOf(r)]
      BY <2>2 DEF JobEnds
    <3>2. PICK at \in {run[r].at, Now} : at = EndOf(r) /\ at \in Nat
      BY EndOfType
    <3>3. run[r] \in RunType
      OBVIOUS
    <3>4. run' = [run EXCEPT ![r] = new(run[r].mlflow, status, run[r].known, at)]
      BY <3>1, <3>2, <3>3 DEF RunType
    <3> HIDE DEF new
    <3>5. /\ run[r].mlflow \in {"none", Open, "finished", "failed"}
          /\ run[r].known \in BOOLEAN
          /\ status \in Ended /\ run[r].ray = Open
          /\ left' \in LeftType /\ UNCHANGED <<refresh, poller>>
      BY <2>2, <3>3 DEF JobEnds, RunType
    <3>6. QED
      BY <3>2, <3>4, <3>5
  <2>3. CASE JobForgotten(r)
    <3>1. run[r] \in RunType
      OBVIOUS
    <3>2. PICK status \in Statuses : status = IF run[r].ray = Open THEN "stopped" ELSE run[r].ray
      BY <3>1 DEF RunType
    <3>3. PICK at \in {run[r].at, Now} :
             at \in Nat /\ at = IF run[r].ray = Open THEN EndOf(r) ELSE run[r].at
      BY <3>1, EndOfType DEF RunType
    <3>4. run' = [run EXCEPT ![r].known = FALSE,
                             ![r].ray = IF @ = Open THEN "stopped" ELSE @,
                             ![r].at = IF run[r].ray = Open THEN EndOf(r) ELSE @]
      BY <2>3 DEF JobForgotten
    <3>5. run' = [run EXCEPT ![r] = new(run[r].mlflow, status, FALSE, at)]
      BY <3>1, <3>2, <3>3, <3>4 DEF RunType
    <3>6. status \in Ended
      BY <2>3, <3>1, <3>2 DEF JobForgotten, RunType
    <3>7. left' \in LeftType /\ UNCHANGED <<refresh, poller>>
      BY <2>3, FaultType DEF JobForgotten
    <3>8. run[r].mlflow \in {"none", Open, "finished", "failed"}
      BY <3>1 DEF RunType
    <3> HIDE DEF new
    <3>9. status = run[r].ray \/ (run[r].ray = Open /\ status \in Ended)
      BY <3>2, <3>6
    <3>10. QED
      BY <3>3, <3>5, <3>6, <3>7, <3>8, <3>9
  <2>4. QED
    BY <2>1, <2>2, <2>3
<1>2. PICK mlflow \in {"none", Open, "finished", "failed"}, ray \in Statuses,
           known \in BOOLEAN, at \in {run[r].at, Now} :
         /\ run' = [run EXCEPT ![r] = new(mlflow, ray, known, at)]
         /\ at \in Nat
         /\ \/ mlflow = run[r].mlflow
            \/ run[r].mlflow = Open /\ run[r].ray = Open /\ ray = Open
         /\ ray = run[r].ray \/ (run[r].ray = Open /\ ray \in Ended)
         /\ known = run[r].known \/ (~known /\ ray \in Ended)
  BY <1>1
<1> DEFINE job == new(mlflow, ray, known, at)
<1>3. /\ job \in RunType
      /\ job.mlflow = mlflow /\ job.ray = ray /\ job.known = known /\ job.at = at
      /\ job.launch = run[r].launch /\ job.record = run[r].record
      /\ job.kept = run[r].kept
  <2>1. run[r] \in RunType
    OBVIOUS
  <2>2. job \in RunType
    BY <1>2, <2>1 DEF RunType
  <2>3. job.mlflow = mlflow /\ job.ray = ray /\ job.known = known /\ job.at = at
    BY <2>1 DEF RunType
  <2>4. /\ job.launch = run[r].launch /\ job.record = run[r].record
        /\ job.kept = run[r].kept
    BY <2>1 DEF RunType
  <2>5. QED
    BY <2>2, <2>3, <2>4
<1>4. run' = [run EXCEPT ![r] = job]
  BY <1>2
<1> HIDE DEF job, new
<1>5. /\ run' \in [Runs -> RunType]
      /\ \A q \in Runs \ {r} : run'[q] = run[q]
      /\ run'[r] = job
  BY <1>3, <1>4
<1>6. RunsFit'
  BY <1>3, <1>5, StillLatest
<1>7. /\ Over(r) => Over(r)' /\ run'[r].ray = run[r].ray /\ run'[r].mlflow = run[r].mlflow
      /\ ~run[r].known => ~run'[r].known
      /\ run[r].known => run'[r].known \/ Over(r)'
      /\ run[r].mlflow = "failed" => run'[r].mlflow = "failed"
      /\ run'[r].known => run[r].known
      /\ run'[r].ray = "none" => run[r].ray = "none"
  BY <1>2, <1>3, <1>5 DEF Over
<1>8. ASSUME NEW word \in Ended
      PROVE  /\ Settles(r, word) => Settles(r, word)'
             /\ Tells(r, word) => Tells(r, word)'
             /\ Claims(r, word) => Claims(r, word)'
  <2>1. Settles(r, word) => Settles(r, word)'
    BY <1>3, <1>5, <1>7 DEF Settles, Settled
  <2>2. QED
    BY <1>7, <2>1 DEF Tells, Claims
<1>9. Sure(r) => Sure(r)'
  BY <1>3, <1>5, <1>7 DEF Sure
<1>10. Steady
  <2>1. ASSUME NEW q \in Runs \ {r}
        PROVE  /\ Over(q) => Over(q)'
               /\ Sure(q) => Sure(q)'
               /\ Said(q) => Said(q)'
               /\ ~run[q].known => ~run'[q].known
               /\ run'[q].launch = run[q].launch
               /\ \A word \in Ended :
                     /\ Settles(q, word) => Settles(q, word)'
                     /\ Tells(q, word) => Tells(q, word)'
                     /\ Claims(q, word) => Claims(q, word)'
    BY <1>5 DEF Said, Over, Sure, Claims, Tells, Settles, Settled
  <2>2. Said(r) => Said(r)'
    BY <1>3, <1>5 DEF Said
  <2>3. run'[r].launch = run[r].launch
    BY <1>3, <1>5
  <2>4. QED
    BY <1>7, <1>8, <1>9, <2>1, <2>2, <2>3 DEF Steady
<1>11. \A q \in Runs : RunInv(q)'
  <2>1. RunInv(r)'
    <3>1. /\ Said(r)' <=> Said(r)
          /\ run'[r].launch = run[r].launch /\ run'[r].record = run[r].record
          /\ run'[r].kept = run[r].kept
      BY <1>3, <1>5 DEF Said
    <3>2. run[r].record \in Statuses /\ run[r].kept \in {"none"} \union Ended
      BY DEF RunType
    <3>3. run[r].record \in Ended => (Settles(r, run[r].record) /\ Sure(r))'
      BY <1>8, <1>9, <3>1 DEF RunInv
    <3>4. run[r].kept # "none" => Said(r)' /\ Claims(r, run[r].kept)'
      BY <1>8, <3>1, <3>2 DEF RunInv
    <3>5. run'[r].known => run'[r].ray # "none"
      BY <1>7 DEF RunInv
    <3>6. QED
      BY <1>7, <3>1, <3>3, <3>4, <3>5
         DEF RunInv, Settles, Settled, Claims, Tells, Over, Sure, Said
  <2>2. ASSUME NEW q \in Runs \ {r} PROVE RunInv(q)'
    BY <1>5, <2>2 DEF RunInv, Said, Over, Sure, Claims, Tells, Settles, Settled
  <2>3. QED
    BY <2>1, <2>2
<1>12. QED
  BY <1>1, <1>6, <1>10, <1>11

\* Falling out of the poller's window changes nothing that is said of a run.
LEMMA WindowEffect ==
    ASSUME RunsFit, left \in LeftType, \A q \in Runs : RunInv(q),
           NEW r \in Runs, OutOfWindow(r)
    PROVE  /\ RunsFit'
           /\ Steady
           /\ \A q \in Runs : RunInv(q)'
           /\ left' \in LeftType
           /\ UNCHANGED <<refresh, poller>>
<1>1. /\ run' = [run EXCEPT ![r].recent = FALSE]
      /\ left' \in LeftType /\ UNCHANGED <<refresh, poller>>
  BY FaultType DEF OutOfWindow
<1>2. run \in [Runs -> RunType]
  BY DEF RunsFit
<1>3. /\ run' \in [Runs -> RunType]
      /\ \A q \in Runs \ {r} : run'[q] = run[q]
      /\ run'[r].at = run[r].at
      /\ run'[r].record = run[r].record /\ run'[r].launch = run[r].launch
      /\ run'[r].ray = run[r].ray /\ run'[r].known = run[r].known
      /\ run'[r].mlflow = run[r].mlflow /\ run'[r].kept = run[r].kept
  BY <1>1, <1>2 DEF RunType
<1>4. RunsFit'
  BY <1>3, StillLatest
<1>5. ASSUME NEW q \in Runs
      PROVE  /\ run'[q].record = run[q].record /\ run'[q].launch = run[q].launch
             /\ run'[q].ray = run[q].ray /\ run'[q].known = run[q].known
             /\ run'[q].mlflow = run[q].mlflow /\ run'[q].kept = run[q].kept
  BY <1>3
<1>6. Steady
  BY <1>5 DEF Steady, Said, Over, Sure, Claims, Tells, Settles, Settled
<1>7. \A q \in Runs : RunInv(q)'
  BY <1>5 DEF RunInv, Said, Over, Sure, Claims, Tells, Settles, Settled
<1>8. QED
  BY <1>1, <1>4, <1>6, <1>7

-----------------------------------------------------------------------------
\* An answer is forgotten, unless it is delivery's.
LEMMA ReplyEffect ==
    ASSUME refresh \in [Actors -> RefreshType], NEW a \in Actors, NEW status \in Statuses,
           Reply(a, status)
    PROVE  /\ refresh' \in [Actors -> RefreshType]
           /\ \A b \in Actors \ {a} : refresh'[b] = refresh[b]
           /\ \/ refresh'[a] = NoRefresh
              \/ /\ a = Delivery
                 /\ refresh'[a].pc = "answered"
                 /\ refresh'[a].status = status
                 /\ refresh'[a].run = refresh[a].run
<1>1. CASE a = Delivery
  <2>1. refresh' = [refresh EXCEPT ![a] =
                       [refresh[a] EXCEPT !.pc = "answered", !.status = status]]
    BY <1>1 DEF Reply
  <2>2. refresh[a] \in RefreshType
    OBVIOUS
  <2>3. [refresh[a] EXCEPT !.pc = "answered", !.status = status] \in RefreshType
    BY <2>2 DEF RefreshType
  <2>4. refresh'[a] = [refresh[a] EXCEPT !.pc = "answered", !.status = status]
    BY <2>1
  <2>5. /\ refresh'[a].pc = "answered" /\ refresh'[a].status = status
        /\ refresh'[a].run = refresh[a].run
    BY <2>2, <2>4 DEF RefreshType
  <2>6. QED
    BY <1>1, <2>1, <2>3, <2>5
<1>2. CASE a # Delivery
  <2>1. refresh' = [refresh EXCEPT ![a] = NoRefresh]
    BY <1>2 DEF Reply
  <2>2. NoRefresh \in RefreshType
    BY DEF RefreshType, NoRefresh, Statuses
  <2>3. QED
    BY <2>1, <2>2
<1>3. QED
  BY <1>1, <1>2

LEMMA RefreshedEffect ==
    ASSUME refresh \in [Actors -> RefreshType], NEW a \in Actors, NEW status \in Statuses,
           Refreshed(a, status)
    PROVE  /\ refresh' \in [Actors -> RefreshType]
           /\ \A b \in Actors \ {a} : refresh'[b] = refresh[b]
           /\ \/ refresh'[a] = NoRefresh
              \/ /\ refresh'[a].pc \in {"answered", "results"}
                 /\ refresh'[a].status = status
                 /\ refresh'[a].run = refresh[a].run
<1>1. CASE refresh[a].op = "results"
  BY <1>1 DEF Refreshed, RefreshType
<1>2. CASE refresh[a].op # "results"
  BY <1>2, ReplyEffect DEF Refreshed
<1>3. QED
  BY <1>1, <1>2

LEMMA AskRayEffect ==
    ASSUME ExperimentsTypeOK, \A q \in Runs : RunInv(q),
           NEW a \in Actors, RefreshInv(a), AskRay(a)
    PROVE  /\ refresh' \in [Actors -> RefreshType]
           /\ \A b \in Actors \ {a} : refresh'[b] = refresh[b]
           /\ RefreshInv(a)'
           /\ left' \in LeftType
           /\ UNCHANGED <<run, poller>>
<1> DEFINE r == refresh[a].run
<1>1. /\ RunsFit /\ run \in [Runs -> RunType] /\ refresh \in [Actors -> RefreshType]
      /\ left \in LeftType
  BY TypesUnfold DEF RunsFit
<1>2. /\ refresh[a].pc = "ask" /\ r \in Runs /\ Said(r) /\ run[r].launch = "done"
      /\ refresh[a].status # "none"
      /\ refresh[a].status \in Ended => Settles(r, refresh[a].status)
      /\ UNCHANGED <<run, poller>>
  BY DEF AskRay, RefreshInv
<1>3. left' \in LeftType
  BY <1>1, FaultType DEF AskRay
<1>4. CASE Reply(a, "none")
  <2>1. "none" \in Statuses \ Ended
    BY DEF Statuses, Ended
  <2>2. /\ refresh' \in [Actors -> RefreshType]
        /\ \A b \in Actors \ {a} : refresh'[b] = refresh[b]
        /\ \/ refresh'[a] = NoRefresh
           \/ /\ refresh'[a].pc = "answered" /\ refresh'[a].status = "none"
              /\ refresh'[a].run = r
    BY <1>1, <1>4, <2>1, ReplyEffect
  <2>3. RefreshInv(a)'
    BY <1>2, <2>1, <2>2 DEF RefreshInv, NoRefresh, Said
  <2>4. QED
    BY <1>2, <1>3, <2>2, <2>3
<1>5. CASE ~run[r].known /\ refresh' = [refresh EXCEPT ![a].pc = "mlflow"]
  <2>1. RefreshInv(a)'
    BY <1>1, <1>2, <1>5 DEF RefreshInv, Said, Over, Settles, Settled, RefreshType
  <2>2. QED
    BY <1>1, <1>2, <1>3, <1>5, <2>1 DEF RefreshType
<1>6. CASE run[r].known /\ refresh' = [refresh EXCEPT ![a].pc = "put",
                                                     ![a].status = run[r].ray]
  <2>1. run[r].ray # "none" /\ run[r].ray \in Statuses
    BY <1>1, <1>2, <1>6 DEF RunInv, RunType
  <2>2. /\ refresh'[a].pc = "put" /\ refresh'[a].status = run[r].ray
        /\ refresh'[a].run = r
    BY <1>1, <1>6 DEF RefreshType
  <2>3. run[r].ray \in Ended => Settles(r, run[r].ray)' /\ Over(r)'
    BY <1>2, <2>2 DEF Settles, Over, Ended
  <2>4. RefreshInv(a)'
    BY <1>2, <2>1, <2>2, <2>3 DEF RefreshInv, Said
  <2>5. QED
    BY <1>1, <1>2, <1>3, <1>6, <2>1, <2>4 DEF RefreshType
<1>7. QED
  BY <1>4, <1>5, <1>6 DEF AskRay

LEMMA SettleForgottenEffect ==
    ASSUME ExperimentsTypeOK, \A q \in Runs : RunInv(q),
           NEW a \in Actors, RefreshInv(a), SettleForgotten(a)
    PROVE  /\ refresh' \in [Actors -> RefreshType]
           /\ \A b \in Actors \ {a} : refresh'[b] = refresh[b]
           /\ RefreshInv(a)'
           /\ left' \in LeftType
           /\ UNCHANGED <<run, poller>>
<1> DEFINE r == refresh[a].run
<1>1. refresh \in [Actors -> RefreshType] /\ left \in LeftType
  BY TypesUnfold DEF RunsFit
<1>2. PICK status \in {Settled(r), "stopped"} :
         refresh' = [refresh EXCEPT ![a].pc = "settle", ![a].status = status]
  BY DEF SettleForgotten
<1>3. /\ r \in Runs /\ Said(r) /\ run[r].launch = "done" /\ ~run[r].known
      /\ left' \in LeftType /\ UNCHANGED <<run, poller>>
  BY <1>1, FaultType DEF SettleForgotten, RefreshInv
<1>4. status \in Ended /\ Settles(r, status) /\ Over(r)
  BY <1>2, <1>3 DEF Settled, Ended, Settles, Over, RunInv
<1>5. /\ refresh' \in [Actors -> RefreshType]
      /\ \A b \in Actors \ {a} : refresh'[b] = refresh[b]
      /\ refresh'[a].pc = "settle" /\ refresh'[a].status = status /\ refresh'[a].run = r
  BY <1>1, <1>2, <1>4 DEF RefreshType, Statuses
<1>6. RefreshInv(a)'
  BY <1>3, <1>4, <1>5 DEF RefreshInv, Said, Settles, Settled, Over, Ended
<1>7. QED
  BY <1>3, <1>5, <1>6

LEMMA PutRecordEffect ==
    ASSUME ExperimentsTypeOK, \A q \in Runs : RunInv(q),
           NEW a \in Actors, RefreshInv(a), PutRecord(a)
    PROVE  /\ RunsFit'
           /\ Steady /\ \A q \in Runs : RunInv(q)'
           /\ refresh' \in [Actors -> RefreshType]
           /\ \A b \in Actors \ {a} : refresh'[b] = refresh[b]
           /\ RefreshInv(a)'
           /\ left' \in LeftType
           /\ UNCHANGED poller
<1>1. /\ RunsFit /\ run \in [Runs -> RunType] /\ refresh \in [Actors -> RefreshType]
      /\ left \in LeftType
  BY TypesUnfold DEF RunsFit
<1>2. PICK r \in Runs, status \in Statuses : refresh[a].run = r /\ refresh[a].status = status
  BY <1>1 DEF PutRecord, RefreshInv, RefreshType
<1>3. /\ Said(r) /\ run[r].launch = "done" /\ status # "none"
      /\ status \in Ended => Settles(r, status) /\ Over(r)
      /\ left' \in LeftType /\ UNCHANGED poller
  BY <1>1, <1>2, FaultType DEF PutRecord, RefreshInv
<1>4. /\ RunsFit' /\ Steady /\ \A q \in Runs : RunInv(q)'
      /\ Said(r)'
      /\ status \in Ended => Settles(r, status)'
  <2>1. ASSUME NEW at \in {run[r].at, Now}, NEW recent \in BOOLEAN,
               run' = [run EXCEPT ![r] = [run[r] EXCEPT !.record = status, !.at = at,
                                                        !.recent = recent]]
        PROVE  /\ RunsFit' /\ Steady /\ \A q \in Runs : RunInv(q)'
               /\ Said(r)'
               /\ status \in Ended => Settles(r, status)'
    <3>1. at \in Nat /\ run[r] \in RunType
      BY <1>1, NowIsLast DEF RunType
    <3> DEFINE new == [run[r] EXCEPT !.record = status, !.at = at, !.recent = recent]
    <3>2. /\ new \in RunType
          /\ new.record = status /\ new.launch = run[r].launch
          /\ new.ray = run[r].ray /\ new.known = run[r].known
          /\ new.mlflow = run[r].mlflow /\ new.kept = run[r].kept /\ new.at = at
      BY <3>1 DEF RunType
    <3>3. run' = [run EXCEPT ![r] = new]
      BY <2>1
    <3> HIDE DEF new
    <3>4. /\ run' \in [Runs -> RunType]
          /\ \A q \in Runs \ {r} : run'[q] = run[q]
          /\ run'[r] = new
      BY <1>1, <3>2, <3>3
    <3>5. RunsFit'
      BY <1>1, <2>1, <3>2, <3>4, StillLatest
    <3>6. \A word \in Ended : /\ Settles(r, word)' <=> Settles(r, word)
                              /\ Tells(r, word)' <=> Tells(r, word)
                              /\ Claims(r, word)' <=> Claims(r, word)
      BY <3>2, <3>4 DEF Claims, Tells, Settles, Settled, Over
    <3>7. (Over(r)' <=> Over(r)) /\ (Sure(r) => Sure(r)')
      BY <1>3, <3>2, <3>4 DEF Sure, Over
    <3>8. \A q \in Runs \ {r} :
             /\ Said(q) => Said(q)'
             /\ run'[q].launch = run[q].launch
             /\ ~run[q].known => ~run'[q].known
             /\ Over(q) => Over(q)'
             /\ Sure(q) => Sure(q)'
             /\ \A word \in Ended : /\ Settles(q, word) => Settles(q, word)'
                                    /\ Tells(q, word) => Tells(q, word)'
                                    /\ Claims(q, word) => Claims(q, word)'
      BY <3>4 DEF Said, Over, Sure, Claims, Tells, Settles, Settled
    <3>9. Steady
      BY <1>3, <3>2, <3>4, <3>6, <3>7, <3>8 DEF Steady, Said
    <3>10. RunInv(r)'
      <4>1. run[r].kept # "none" => Claims(r, run[r].kept)'
        BY <1>1, <3>2, <3>4, <3>6 DEF RunInv, RunType
      <4>2. status \in Ended => (Settles(r, run[r].record) /\ Sure(r))'
        BY <1>3, <3>2, <3>4, <3>6, <3>7 DEF Sure
      <4>3. QED
        BY <1>3, <3>2, <3>4, <3>7, <4>1, <4>2 DEF RunInv, Said
    <3>11. \A q \in Runs \ {r} : RunInv(q)'
      BY <3>4 DEF RunInv, Said, Over, Sure, Claims, Tells, Settles, Settled
    <3>12. QED
      BY <1>3, <3>2, <3>4, <3>5, <3>6, <3>9, <3>10, <3>11 DEF Said
  <2>2. CASE run' = run
    BY <1>1, <1>3, <2>2, SameRuns, SameLatest DEF Said, Settles, Settled, Over
  <2>3. CASE run' = [run EXCEPT ![r].record = status,
                                ![r].at = IF EndsHere(a) THEN Now ELSE @,
                                ![r].recent = @ \/ EndsHere(a)]
    <3>1. PICK at \in {run[r].at, Now} : at = IF EndsHere(a) THEN Now ELSE run[r].at
      OBVIOUS
    <3>2. PICK recent \in BOOLEAN : recent = (run[r].recent \/ EndsHere(a))
      OBVIOUS
    <3>3. run' = [run EXCEPT ![r] = [run[r] EXCEPT !.record = status, !.at = at,
                                                   !.recent = recent]]
      BY <2>3, <3>1, <3>2
    <3>4. QED
      BY <2>1, <3>3
  <2>4. QED
    BY <1>2, <2>2, <2>3 DEF PutRecord
<1>5. CASE Refreshed(a, status)
  <2>1. /\ refresh' \in [Actors -> RefreshType]
        /\ \A b \in Actors \ {a} : refresh'[b] = refresh[b]
        /\ \/ refresh'[a] = NoRefresh
           \/ /\ refresh'[a].pc \in {"answered", "results"}
              /\ refresh'[a].status = status /\ refresh'[a].run = r
    BY <1>1, <1>2, <1>5, RefreshedEffect
  <2>2. RefreshInv(a)'
    <3>1. status \in Ended => Settles(r, status)' /\ Claims(r, status)'
      BY <1>4 DEF Claims, Tells
    <3>2. QED
      BY <1>3, <1>4, <2>1, <3>1 DEF RefreshInv, NoRefresh
  <2>3. QED
    BY <1>3, <1>4, <2>1, <2>2
<1>6. CASE Reply(a, "none")
  <2>1. "none" \in Statuses \ Ended
    BY DEF Statuses, Ended
  <2>2. /\ refresh' \in [Actors -> RefreshType]
        /\ \A b \in Actors \ {a} : refresh'[b] = refresh[b]
        /\ \/ refresh'[a] = NoRefresh
           \/ /\ refresh'[a].pc = "answered"
              /\ refresh'[a].status = "none" /\ refresh'[a].run = r
    BY <1>1, <1>2, <1>6, <2>1, ReplyEffect
  <2>3. RefreshInv(a)'
    BY <1>4, <2>1, <2>2 DEF RefreshInv, NoRefresh
  <2>4. QED
    BY <1>3, <1>4, <2>2, <2>3
<1>7. QED
  BY <1>2, <1>5, <1>6 DEF PutRecord

\* What is said of a run in a summary is true of it, if its record's status is.
LEMMA ReconciledTells ==
    ASSUME run \in [Runs -> RunType], NEW r \in Runs, NEW status \in Statuses,
           status \in Ended => Settles(r, status)
    PROVE  /\ Reconciled(r, status) \in Statuses
           /\ Reconciled(r, status) \in Ended =>
                 /\ Claims(r, Reconciled(r, status))
                 /\ Sure(r) => Tells(r, Reconciled(r, status))
           /\ status \in Ended => Reconciled(r, status) \in Ended
BY DEF Reconciled, Statuses, Ended, Claims, Tells, Settles, Settled, Sure, Over

LEMMA ResultsEffect ==
    ASSUME ExperimentsTypeOK, \A q \in Runs : RunInv(q),
           NEW a \in Actors, RefreshInv(a), Results(a)
    PROVE  /\ RunsFit'
           /\ Steady /\ \A q \in Runs : RunInv(q)'
           /\ refresh' \in [Actors -> RefreshType]
           /\ \A b \in Actors \ {a} : refresh'[b] = refresh[b]
           /\ RefreshInv(a)'
           /\ left' \in LeftType
           /\ UNCHANGED poller
<1>1. /\ RunsFit /\ run \in [Runs -> RunType] /\ refresh \in [Actors -> RefreshType]
      /\ left \in LeftType
  BY TypesUnfold DEF RunsFit
<1>2. PICK r \in Runs, status \in Statuses : refresh[a].run = r /\ refresh[a].status = status
  BY <1>1 DEF Results, RefreshInv, RefreshType
<1>3. /\ Said(r) /\ (status \in Ended => Settles(r, status))
      /\ left' \in LeftType /\ UNCHANGED poller
  BY <1>1, <1>2, FaultType DEF Results, RefreshInv
<1>4. PICK summary \in Statuses : summary = Reconciled(r, status)
  BY <1>1, <1>3, ReconciledTells
<1>5. summary \in Ended => Claims(r, summary)
  BY <1>1, <1>3, <1>4, ReconciledTells
<1>6. PICK word \in Statuses :
         /\ Reply(a, word)
         /\ \/ run' = run
            \/ word \in Ended /\ run' = [run EXCEPT ![r].kept = word]
         /\ word \in Ended => Claims(r, word)
  <2>1. CASE /\ run[r].kept # "none" /\ Reply(a, run[r].kept) /\ UNCHANGED run
    <3>1. run[r].kept \in Statuses
      BY <1>1 DEF RunType, Statuses
    <3>2. QED
      BY <2>1, <3>1 DEF RunInv
  <2>2. CASE /\ Reply(a, summary)
             /\ \/ summary \in Ended /\ run' = [run EXCEPT ![r].kept = summary]
                \/ UNCHANGED run
    BY <1>5, <2>2
  <2>3. CASE Reply(a, "none") /\ UNCHANGED run
    BY <2>3 DEF Statuses, Ended
  <2>4. QED
    BY <1>2, <1>4, <2>1, <2>2, <2>3 DEF Results
<1>7. /\ RunsFit' /\ Steady /\ \A q \in Runs : RunInv(q)'
      /\ Said(r)'
      /\ word \in Ended => Claims(r, word)'
  <2>1. CASE word \in Ended /\ run' = [run EXCEPT ![r].kept = word]
    <3>1. run' \in [Runs -> RunType]
      BY <1>1, <2>1 DEF RunType
    <3>2. /\ \A q \in Runs \ {r} : run'[q] = run[q]
          /\ run'[r].kept = word /\ run'[r].launch = run[r].launch
          /\ run'[r].ray = run[r].ray /\ run'[r].known = run[r].known
          /\ run'[r].mlflow = run[r].mlflow /\ run'[r].record = run[r].record
          /\ run'[r].at = run[r].at
      BY <1>1, <2>1 DEF RunType
    <3>3. RunsFit'
      BY <1>1, <3>1, <3>2, StillLatest
    <3>4. Steady
      BY <3>2 DEF Steady, Said, Over, Sure, Claims, Tells, Settles, Settled
    <3>5. RunInv(r)'
      BY <1>3, <1>6, <2>1, <3>2
         DEF RunInv, Said, Over, Sure, Claims, Tells, Settles, Settled
    <3>6. \A q \in Runs \ {r} : RunInv(q)'
      BY <3>2 DEF RunInv, Said, Over, Sure, Claims, Tells, Settles, Settled
    <3>7. QED
      BY <1>3, <1>6, <3>2, <3>3, <3>4, <3>5, <3>6
         DEF Said, Claims, Tells, Settles, Settled, Over
  <2>2. CASE run' = run
    BY <1>1, <1>3, <1>6, <2>2, SameRuns, SameLatest
       DEF Said, Claims, Tells, Settles, Settled, Over
  <2>3. QED
    BY <1>6, <2>1, <2>2
<1>8. /\ refresh' \in [Actors -> RefreshType]
      /\ \A b \in Actors \ {a} : refresh'[b] = refresh[b]
      /\ \/ refresh'[a] = NoRefresh
         \/ /\ refresh'[a].pc = "answered"
            /\ refresh'[a].status = word /\ refresh'[a].run = r
  BY <1>1, <1>2, <1>6, ReplyEffect
<1>9. RefreshInv(a)'
  BY <1>7, <1>8 DEF RefreshInv, NoRefresh
<1>10. QED
  BY <1>3, <1>7, <1>8, <1>9

\* Whatever a refresh does, it does to its own run's record or summary.
LEMMA RefreshEffect ==
    ASSUME ExperimentsTypeOK, \A q \in Runs : RunInv(q),
           NEW a \in Actors, RefreshInv(a), RefreshStep(a)
    PROVE  /\ RunsFit'
           /\ Steady /\ \A q \in Runs : RunInv(q)'
           /\ refresh' \in [Actors -> RefreshType]
           /\ \A b \in Actors \ {a} : refresh'[b] = refresh[b]
           /\ RefreshInv(a)'
           /\ left' \in LeftType
           /\ UNCHANGED poller
<1>1. CASE AskRay(a)
  BY <1>1, AskRayEffect, SameRuns, SameLatest, TypesUnfold
<1>2. CASE SettleForgotten(a)
  BY <1>2, SettleForgottenEffect, SameRuns, SameLatest, TypesUnfold
<1>3. CASE PutRecord(a)
  BY <1>3, PutRecordEffect
<1>4. CASE Results(a)
  BY <1>4, ResultsEffect
<1>5. QED
  BY <1>1, <1>2, <1>3, <1>4 DEF RefreshStep

-----------------------------------------------------------------------------
\* A refresh begins with a record that was read.
LEMMA BegunEffect ==
    ASSUME refresh \in [Actors -> RefreshType], NEW a \in Actors, NEW r \in Runs,
           NEW status \in Statuses \ {"none"}, NEW op \in {"get", "results"},
           Said(r)', status \in Ended => Settles(r, status)',
           status \notin Ended => run'[r].launch = "done",
           refresh' = Begun(a, r, status, op)
    PROVE  /\ refresh' \in [Actors -> RefreshType]
           /\ \A b \in Actors \ {a} : refresh'[b] = refresh[b]
           /\ RefreshInv(a)'
           /\ refresh'[a].pc \in {"ask", "results"} /\ refresh'[a].run = r
<1> DEFINE new == [pc |-> IF status \in Ended THEN "results" ELSE "ask",
                   run |-> r, op |-> op, status |-> status]
<1>1. refresh' = [refresh EXCEPT ![a] = new] /\ new \in RefreshType
  BY DEF Begun, RefreshType
<1>2. refresh'[a] = new
  BY <1>1
<1>3. RefreshInv(a)'
  BY <1>2 DEF RefreshInv
<1>4. QED
  BY <1>1, <1>2, <1>3

\* A record that is open was stored by a launch that went well.
LEMMA OpenIsLaunched ==
    ASSUME NEW r \in Runs, RunInv(r), run[r].record = Open
    PROVE  Said(r) /\ run[r].launch = "done"
BY DEF RunInv, Said, Open

LEMMA LookEffect ==
    ASSUME ExperimentsTypeOK, \A q \in Runs : RunInv(q), NEW a \in Readers, Look(a)
    PROVE  /\ refresh' \in [Actors -> RefreshType]
           /\ \A b \in Actors \ {a} : refresh'[b] = refresh[b]
           /\ RefreshInv(a)'
           /\ left' \in LeftType
           /\ UNCHANGED <<run, poller>>
<1>1. /\ RunsFit /\ run \in [Runs -> RunType] /\ refresh \in [Actors -> RefreshType]
      /\ left \in LeftType
  BY TypesUnfold DEF RunsFit
<1>2. PICK r \in Runs, op \in {"get", "results"} :
         /\ run[r].record = Open \/ run[r].record \in Ended
         /\ refresh' = Begun(a, r, run[r].record, op)
  BY DEF Look
<1>3. run' = run /\ poller' = poller /\ left' \in LeftType
  BY <1>1 DEF Look, LeftType
<1> DEFINE status == run[r].record
<1>4. /\ status \in Statuses \ {"none"} /\ Said(r)'
      /\ status \in Ended => Settles(r, run[r].record)
      /\ status \notin Ended => run'[r].launch = "done"
  BY <1>1, <1>2, <1>3, OpenIsLaunched DEF RunInv, Said, Statuses, Open, Ended
<1>5. PICK word : word = status
  OBVIOUS
<1>6. word \in Ended => Settles(r, word)'
  BY <1>3, <1>4, <1>5 DEF Settles, Settled, Over
<1>7. a \in Actors
  BY DEF Actors
<1>8. /\ refresh' \in [Actors -> RefreshType]
      /\ \A b \in Actors \ {a} : refresh'[b] = refresh[b]
      /\ RefreshInv(a)'
  <2>1. refresh' = Begun(a, r, word, op)
    BY <1>2, <1>5
  <2> HIDE DEF status
  <2>2. word \in Statuses \ {"none"} /\ (word \notin Ended => run'[r].launch = "done")
    BY <1>4, <1>5
  <2>3. QED
    BY <1>1, <1>4, <1>6, <1>7, <2>1, <2>2, BegunEffect
<1>9. QED
  BY <1>3, <1>8

LEMMA StopEffect ==
    ASSUME ExperimentsTypeOK, \A q \in Runs : RunInv(q), NEW a \in Readers, Stop(a)
    PROVE  /\ RunsFit'
           /\ Steady /\ \A q \in Runs : RunInv(q)'
           /\ refresh' \in [Actors -> RefreshType]
           /\ \A b \in Actors \ {a} : refresh'[b] = refresh[b]
           /\ RefreshInv(a)'
           /\ left' \in LeftType
           /\ UNCHANGED poller
<1>1. /\ RunsFit /\ run \in [Runs -> RunType] /\ refresh \in [Actors -> RefreshType]
      /\ left \in LeftType
  BY TypesUnfold DEF RunsFit
<1>2. PICK r \in Runs :
         /\ run[r].record = Open /\ run[r].known
         /\ run' = [run EXCEPT ![r].ray = IF @ = Open THEN "stopped" ELSE @,
                               ![r].at = IF run[r].ray = Open THEN EndOf(r) ELSE @]
         /\ refresh' = Begun(a, r, Open, "get")
  BY DEF Stop
<1>3. poller' = poller /\ left' \in LeftType /\ a \in Actors
  BY <1>1 DEF Stop, LeftType, Actors
<1>4. PICK ray \in Statuses, at \in {run[r].at, Now} :
         /\ at \in Nat
         /\ ray = IF run[r].ray = Open THEN "stopped" ELSE run[r].ray
         /\ run' = [run EXCEPT ![r] = [run[r] EXCEPT !.ray = ray, !.at = at]]
  <2>1. run[r] \in RunType
    BY <1>1
  <2>2. PICK ray \in Statuses : ray = IF run[r].ray = Open THEN "stopped" ELSE run[r].ray
    BY <2>1 DEF RunType, Statuses, Ended
  <2>3. PICK at \in {run[r].at, Now} :
           at \in Nat /\ at = IF run[r].ray = Open THEN EndOf(r) ELSE run[r].at
    BY <1>1, <2>1, EndOfType DEF RunType
  <2>4. run' = [run EXCEPT ![r] = [run[r] EXCEPT !.ray = ray, !.at = at]]
    BY <1>2, <2>2, <2>3
  <2>5. QED
    BY <2>2, <2>3, <2>4
<1>5. /\ run' \in [Runs -> RunType]
      /\ \A q \in Runs \ {r} : run'[q] = run[q]
      /\ run'[r].record = run[r].record /\ run'[r].launch = run[r].launch
      /\ run'[r].ray = ray /\ run'[r].known = run[r].known
      /\ run'[r].mlflow = run[r].mlflow /\ run'[r].kept = run[r].kept
      /\ run'[r].at = at
  <2>1. run[r] \in RunType
    BY <1>1
  <2>2. [run[r] EXCEPT !.ray = ray, !.at = at] \in RunType
    BY <1>4, <2>1 DEF RunType
  <2>3. QED
    BY <1>1, <1>4, <2>1, <2>2 DEF RunType
<1>12. RunsFit'
  BY <1>1, <1>5, StillLatest
<1>6. Steady
  <2>1. /\ Said(r) => Said(r)'
        /\ run'[r].launch = run[r].launch
        /\ ~run[r].known => ~run'[r].known
        /\ Over(r) => Over(r)'
        /\ Over(r) => run'[r].ray = run[r].ray
        /\ Sure(r) => Sure(r)'
    BY <1>2, <1>4, <1>5 DEF Said, Over, Sure, Open, Ended
  <2>2. ASSUME NEW word \in Ended
        PROVE  /\ Settles(r, word) => Settles(r, word)'
               /\ Tells(r, word) => Tells(r, word)'
               /\ Claims(r, word) => Claims(r, word)'
    <3>1. Settles(r, word) => Settles(r, word)'
      BY <1>5, <2>1 DEF Settles, Settled
    <3>2. QED
      BY <1>5, <2>1, <3>1 DEF Tells, Claims
  <2>3. \A q \in Runs \ {r} :
           /\ Said(q) => Said(q)'
           /\ run'[q].launch = run[q].launch
           /\ ~run[q].known => ~run'[q].known
           /\ Over(q) => Over(q)'
           /\ Sure(q) => Sure(q)'
           /\ \A word \in Ended : /\ Settles(q, word) => Settles(q, word)'
                                  /\ Tells(q, word) => Tells(q, word)'
                                  /\ Claims(q, word) => Claims(q, word)'
    BY <1>5 DEF Said, Over, Sure, Claims, Tells, Settles, Settled
  <2>4. QED
    BY <2>1, <2>2, <2>3 DEF Steady
<1>7. RunInv(r)'
  <2>1. run[r].kept \in {"none"} \union Ended
    BY <1>1 DEF RunType
  <2>2. run[r].kept # "none" => Said(r)' /\ Claims(r, run[r].kept)'
    BY <1>5, <1>6, <2>1 DEF RunInv, Steady
  <2>3. run[r].record \notin Ended /\ run'[r].record \notin Ended
    BY <1>2, <1>5 DEF Open, Ended
  <2>4. run'[r].launch = "done" /\ run'[r].known
    BY <1>2, <1>5, OpenIsLaunched
  <2>5. run'[r].ray # "none"
    BY <1>2, <1>4, <1>5 DEF RunInv
  <2>6. run'[r].kept # "none" => Said(r)' /\ (Claims(r, run[r].kept))'
    BY <1>5, <2>2
  <2>7. QED
    BY <2>3, <2>4, <2>5, <2>6 DEF RunInv, Said
<1>8. \A q \in Runs \ {r} : RunInv(q)'
  BY <1>5 DEF RunInv, Said, Over, Sure, Claims, Tells, Settles, Settled
<1>9. Said(r)' /\ run'[r].launch = "done"
  BY <1>2, <1>5, OpenIsLaunched DEF Said
<1>10. /\ refresh' \in [Actors -> RefreshType]
       /\ \A b \in Actors \ {a} : refresh'[b] = refresh[b]
       /\ RefreshInv(a)'
  <2>1. Open \in Statuses \ {"none"} /\ Open \notin Ended
    BY DEF Statuses, Open, Ended
  <2>2. QED
    BY <1>1, <1>2, <1>3, <1>9, <2>1, BegunEffect
<1>11. QED
  BY <1>3, <1>5, <1>6, <1>7, <1>8, <1>10, <1>12

LEMMA PollerEffect ==
    ASSUME ExperimentsTypeOK, \A q \in Runs : RunInv(q), PollerInv,
           Tick \/ SettleNext \/ FindFinished \/ TickCut, RefreshInv(Poller)
    PROVE  /\ ExperimentsTypeOK'
           /\ \A b \in Actors \ {Poller} : refresh'[b] = refresh[b]
           /\ RefreshInv(Poller)' /\ PollerInv'
           /\ UNCHANGED run
<1>1. /\ RunsFit /\ run \in [Runs -> RunType] /\ refresh \in [Actors -> RefreshType]
      /\ left \in LeftType
      /\ poller \in [pc : {"settle"}, todo : SUBSET Runs]
                   \union [pc : {"offer"}, todo : SUBSET (Runs \X Ended)]
  BY TypesUnfold DEF RunsFit
<1>2. Poller \in Actors
  BY DEF Actors
<1>3. CASE Tick
  <2>1. poller' \in [pc : {"settle"}, todo : SUBSET Runs] /\ UNCHANGED <<run, refresh, left>>
    BY <1>3 DEF Tick
  <2>2. PollerInv'
    <3>1. poller'.pc = "settle" /\ poller'.todo = {r \in Runs : run[r].record = Open}
      BY <1>3 DEF Tick
    <3>2. QED
      BY <2>1, <3>1, OpenIsLaunched DEF PollerInv, Said
  <2>3. RefreshInv(Poller)'
    BY <2>1 DEF RefreshInv, Said, Over, Claims, Tells, Settles, Settled
  <2>4. QED
    BY <1>1, <2>1, <2>2, <2>3 DEF ExperimentsTypeOK, RunsFit, SomeLatest, Latest, RunType, RefreshType, LeftType
<1>4. CASE SettleNext
  <2>1. poller.todo \subseteq Runs
    BY <1>1, <1>4 DEF SettleNext
  <2>2. PICK r \in poller.todo :
           /\ refresh' = Begun(Poller, r, Open, "get")
           /\ poller' = [poller EXCEPT !.todo = @ \ {r}]
    BY <1>4 DEF SettleNext
  <2>3. /\ r \in Runs /\ Said(r) /\ run[r].launch = "done" /\ UNCHANGED <<run, left>>
        /\ poller.pc = "settle"
    BY <1>4, <2>1 DEF SettleNext, PollerInv
  <2>4. /\ refresh' \in [Actors -> RefreshType]
        /\ \A b \in Actors \ {Poller} : refresh'[b] = refresh[b]
        /\ RefreshInv(Poller)'
    <3>1. Open \in Statuses \ {"none"} /\ Open \notin Ended /\ Said(r)'
      BY <2>3 DEF Statuses, Open, Ended, Said
    <3>2. QED
      BY <1>1, <1>2, <2>2, <2>3, <3>1, BegunEffect
  <2>5. poller' \in [pc : {"settle"}, todo : SUBSET Runs] /\ PollerInv'
    BY <1>1, <2>2, <2>3 DEF PollerInv, Said
  <2>6. QED
    BY <1>1, <2>3, <2>4, <2>5 DEF ExperimentsTypeOK, RunsFit, SomeLatest, Latest, RunType, RefreshType, LeftType
<1>5. CASE FindFinished
  <2>1. /\ poller'.pc = "offer"
        /\ poller' = [pc |-> "offer", todo |-> poller'.todo]
        /\ \A x \in poller'.todo : \E r \in Runs :
              run[r].record \in Ended /\ x = <<r, run[r].record>>
        /\ UNCHANGED <<run, refresh, left>>
    BY <1>5 DEF FindFinished, Offered, Recent
  <2>2. poller' \in [pc : {"offer"}, todo : SUBSET (Runs \X Ended)]
    BY <2>1
  <2>3. ASSUME NEW x \in poller'.todo
        PROVE  (Said(x[1]) /\ Settles(x[1], x[2]) /\ Sure(x[1]))'
    <3>1. PICK r \in Runs : run[r].record \in Ended /\ x[1] = r /\ x[2] = run[r].record
      BY <2>1, <2>3
    <3>2. Said(r) /\ Settles(r, x[2]) /\ Sure(r)
      BY <3>1 DEF RunInv, Said, Ended
    <3>3. QED
      BY <2>1, <3>1, <3>2 DEF Said, Settles, Settled, Sure, Over
  <2>4. PollerInv' /\ RefreshInv(Poller)'
    BY <2>1, <2>3 DEF PollerInv, RefreshInv, Said, Over, Claims, Tells, Settles, Settled
  <2>5. QED
    BY <1>1, <2>1, <2>2, <2>4 DEF ExperimentsTypeOK, RunsFit, SomeLatest, Latest, RunType, RefreshType, LeftType
<1>6. CASE TickCut
  <2>1. /\ poller' = NoTick /\ refresh' = [refresh EXCEPT ![Poller] = NoRefresh]
        /\ run' = run /\ left' \in LeftType
    BY <1>1, <1>6, FaultType DEF TickCut
  <2>2. /\ refresh' \in [Actors -> RefreshType]
        /\ \A b \in Actors \ {Poller} : refresh'[b] = refresh[b]
        /\ refresh'[Poller] = NoRefresh
    BY <1>1, <1>2, <2>1 DEF RefreshType, NoRefresh, Statuses
  <2>3. PollerInv' /\ RefreshInv(Poller)'
    BY <2>1, <2>2 DEF PollerInv, RefreshInv, NoTick, NoRefresh
  <2>4. QED
    BY <1>1, <2>1, <2>2, <2>3
       DEF ExperimentsTypeOK, RunsFit, SomeLatest, Latest, RunType, RefreshType, LeftType, NoTick
<1>7. QED
  BY <1>3, <1>4, <1>5, <1>6

-----------------------------------------------------------------------------
\* What is left to show of a step that refreshes at most actor a.
LEMMA OneActorMoves ==
    ASSUME ExperimentsTypeOK, ExperimentsInv, NEW a \in Actors,
           RunsFit', Steady, \A q \in Runs : RunInv(q)',
           refresh' \in [Actors -> RefreshType],
           \A b \in Actors \ {a} : refresh'[b] = refresh[b],
           RefreshInv(a)', left' \in LeftType, UNCHANGED poller
    PROVE  ExperimentsTypeOK' /\ ExperimentsInv'
<1>1. ExperimentsTypeOK'
  BY TypesUnfold DEF ExperimentsTypeOK, RunsFit, SomeLatest, RunType, RefreshType, LeftType
<1>2. ASSUME NEW b \in Actors \ {a} PROVE RefreshInv(b)'
  <2>1. UNCHANGED refresh[b] /\ refresh[b].status \in Statuses /\ RefreshInv(b)
    BY <1>2, TypesUnfold DEF RefreshType, ExperimentsInv
  <2>2. QED
    BY <1>2, <2>1, SteadyRefresh
<1>3. PollerInv'
  BY SteadyPoller DEF ExperimentsInv
<1>4. QED
  BY <1>1, <1>2, <1>3 DEF ExperimentsInv

LEMMA ExperimentsStart ==
    ASSUME ExperimentsInit
    PROVE  ExperimentsTypeOK /\ ExperimentsInv /\ refresh[Delivery].pc = "idle"
<1>1. PICK s \in Situations : run = s.run /\ left = s.left
  BY DEF ExperimentsInit
<1>2. /\ run \in [Runs -> {NewRun, NoRun, RunningRun, EndedRun}]
      /\ left \in LeftType
  BY <1>1, SituationsAssumption DEF LeftType
<1>3. NewRun \in RunType /\ RunningRun \in RunType
  BY DEF NewRun, RunningRun, RunType, Statuses
<1>4. /\ NoRun \in RunType /\ EndedRun \in RunType
      /\ NoRun.record = "none" /\ NoRun.kept = "none" /\ NoRun.launch = "never" /\ ~NoRun.known
      /\ EndedRun.record = "succeeded" /\ EndedRun.ray = "succeeded"
      /\ EndedRun.kept = "none" /\ EndedRun.launch = "done"
      /\ NoRun.at = 0 /\ EndedRun.at = 0
  BY <1>3 DEF NoRun, EndedRun, NewRun, RunningRun, RunType, Statuses, Ended
<1>5. /\ refresh = [a \in Actors |-> NoRefresh] /\ NoRefresh \in RefreshType
      /\ \A a \in Actors : refresh[a].pc = "idle"
  BY DEF ExperimentsInit, NoRefresh, RefreshType, Statuses
<1>6. poller \in [pc : {"offer"}, todo : SUBSET (Runs \X Ended)] /\ PollerInv
  BY DEF ExperimentsInit, NoTick, PollerInv
<1>7. ExperimentsTypeOK
  <2>1. \A q \in Runs : run[q].at = 0
    BY <1>2, <1>4 DEF NewRun, RunningRun
  <2>2. SomeLatest
    BY <2>1 DEF SomeLatest, Latest
  <2>3. run \in [Runs -> RunType]
    BY <1>2, <1>3, <1>4
  <2>4. QED
    BY <1>2, <1>5, <1>6, <2>2, <2>3, TypesUnfold DEF RunsFit
<1>8. ASSUME NEW r \in Runs PROVE RunInv(r)
  <2>1. run[r] \in {NewRun, NoRun, RunningRun, EndedRun}
    BY <1>2
  <2>2. QED
    BY <1>4, <2>1
       DEF RunInv, Said, Over, Sure, Claims, Tells, Settles, Settled, Open, Ended, NewRun,
           RunningRun
<1>9. QED
  BY <1>5, <1>6, <1>7, <1>8 DEF ExperimentsInv, RefreshInv, Actors

\* Every step of the launches, the readers and the poller keeps the types and what
\* is true, and leaves delivery's refresh alone.
LEMMA ExperimentsKeep ==
    ASSUME ExperimentsTypeOK, ExperimentsInv, ExperimentsStep
    PROVE  /\ ExperimentsTypeOK' /\ ExperimentsInv' /\ Steady
           /\ refresh'[Delivery] = refresh[Delivery]
<1>1. /\ RunsFit /\ run \in [Runs -> RunType] /\ refresh \in [Actors -> RefreshType]
      /\ left \in LeftType
      /\ \A q \in Runs : RunInv(q)
      /\ \A a \in Actors : RefreshInv(a)
      /\ PollerInv
  BY TypesUnfold DEF ExperimentsInv, RunsFit
<1>2. Poller \in Actors /\ Delivery \in Actors /\ Poller # Delivery /\ Readers \subseteq Actors
      /\ Delivery \notin Readers
  BY ReadersAssumption DEF Actors, Poller, Delivery
<1>3. ASSUME NEW r \in Runs, LaunchStep(r) PROVE ExperimentsTypeOK' /\ ExperimentsInv' /\ Steady
                                                /\ refresh' = refresh
  <2>1. /\ RunsFit'
        /\ \A q \in Runs \ {r} : run'[q] = run[q]
        /\ ~Said(r) /\ RunInv(r)'
        /\ left' \in LeftType
        /\ UNCHANGED <<refresh, poller>>
    BY <1>1, <1>3, LaunchEffect
  <2>2. Steady
    BY <2>1 DEF Steady, Said, Over, Sure, Claims, Tells, Settles, Settled
  <2>3. \A q \in Runs \ {r} : RunInv(q)'
    BY <1>1, <2>1 DEF RunInv, Said, Over, Sure, Claims, Tells, Settles, Settled
  <2>4. RefreshInv(Delivery)'
    <3>1. refresh[Delivery].status \in Statuses
      BY <1>1, <1>2 DEF RefreshType
    <3>2. QED
      BY <1>1, <1>2, <2>1, <2>2, <3>1, SteadyRefresh
  <2>5. QED
    BY <1>1, <1>2, <2>1, <2>2, <2>3, <2>4, OneActorMoves
<1>4. ASSUME NEW r \in Runs, JobReports(r) \/ JobEnds(r) \/ JobForgotten(r) \/ OutOfWindow(r)
      PROVE  ExperimentsTypeOK' /\ ExperimentsInv' /\ Steady /\ refresh' = refresh
  <2>1. /\ RunsFit' /\ Steady /\ \A q \in Runs : RunInv(q)'
        /\ left' \in LeftType /\ UNCHANGED <<refresh, poller>>
    BY <1>1, <1>4, JobEffect, WindowEffect
  <2>2. RefreshInv(Delivery)'
    <3>1. refresh[Delivery].status \in Statuses
      BY <1>1, <1>2 DEF RefreshType
    <3>2. QED
      BY <1>1, <1>2, <2>1, <3>1, SteadyRefresh
  <2>3. QED
    BY <1>1, <1>2, <2>1, <2>2, OneActorMoves
<1>5. ASSUME NEW a \in Readers, Look(a) \/ Stop(a) \/ RefreshStep(a)
      PROVE  /\ ExperimentsTypeOK' /\ ExperimentsInv' /\ Steady
             /\ refresh'[Delivery] = refresh[Delivery]
  <2>1. /\ RunsFit'
        /\ Steady /\ \A q \in Runs : RunInv(q)'
        /\ refresh' \in [Actors -> RefreshType]
        /\ \A b \in Actors \ {a} : refresh'[b] = refresh[b]
        /\ RefreshInv(a)'
        /\ left' \in LeftType
        /\ UNCHANGED poller
    <3>1. CASE Look(a)
      BY <1>1, <3>1, LookEffect, SameRuns, SameLatest
    <3>2. CASE Stop(a)
      BY <1>1, <3>2, StopEffect
    <3>3. CASE RefreshStep(a)
      BY <1>1, <1>2, <3>3, RefreshEffect
    <3>4. QED
      BY <1>5, <3>1, <3>2, <3>3
  <2>2. QED
    BY <1>2, <1>5, <2>1, OneActorMoves
<1>6. CASE RefreshStep(Poller)
  <2>1. /\ RunsFit'
        /\ Steady /\ \A q \in Runs : RunInv(q)'
        /\ refresh' \in [Actors -> RefreshType]
        /\ \A b \in Actors \ {Poller} : refresh'[b] = refresh[b]
        /\ RefreshInv(Poller)'
        /\ left' \in LeftType
        /\ UNCHANGED poller
    BY <1>1, <1>2, <1>6, RefreshEffect
  <2>2. QED
    BY <1>2, <2>1, OneActorMoves
<1>7. CASE Tick \/ SettleNext \/ FindFinished \/ TickCut
  <2>1. /\ ExperimentsTypeOK'
        /\ \A b \in Actors \ {Poller} : refresh'[b] = refresh[b]
        /\ RefreshInv(Poller)' /\ PollerInv' /\ UNCHANGED run
    BY <1>1, <1>2, <1>7, PollerEffect
  <2>2. Steady /\ \A q \in Runs : RunInv(q)'
    BY <1>1, <2>1, SameRuns
  <2>3. ASSUME NEW b \in Actors \ {Poller} PROVE RefreshInv(b)'
    <3>1. UNCHANGED refresh[b] /\ refresh[b].status \in Statuses
      BY <1>1, <2>1, <2>3 DEF RefreshType
    <3>2. QED
      BY <1>1, <2>2, <2>3, <3>1, SteadyRefresh
  <2>4. QED
    BY <1>2, <2>1, <2>2, <2>3 DEF ExperimentsInv
<1>8. QED
  BY <1>2, <1>3, <1>4, <1>5, <1>6, <1>7 DEF ExperimentsStep, PollerStep
=============================================================================
