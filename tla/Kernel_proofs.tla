----------------------------- MODULE Kernel_proofs -----------------------------
(***************************************************************************)
(* Proofs about Kernel, for any workbenches, requests and bounds: its types;  *)
(* that a kernel executes one run at a time and a busy bench has its run;     *)
(* that nobody waits for a free kernel; that the counts of waiters and of     *)
(* holds are exact; that locks are waited for in a circle, and requests       *)
(* stand still, only when two of them count the developer's kernels; and      *)
(* that a request runs out of steps.                                          *)
(***************************************************************************)
EXTENDS Kernel, FiniteSetTheorems, TLAPS

\* A request's run is on its kernel or about to let go of it.
Running == {"executing", "finishing"}

\* Where a request holds its bench's lock.
BringsUp == {"pod", "kernel", "ask", "drop"}

\* Where a request is at a bench in any case.
AtBench == States \ {"new", "status", "count", "done"}

\* The record of a bench by itself.
Sound(x) == x.idle = x.running /\ x.running <= x.runs /\ x.kernel <= x.started

\* What a request may rely on, where it is.
Place(r) ==
    /\ req[r].pc \in AtBench => Here(r) \in Benches
    /\ req[r].pc \in BringsUp => lock[Here(r)] = r
    /\ req[r].pc \in BringsUp /\ req[r].op = "claim" => bench[Here(r)].running = 0
    /\ req[r].pc \in {"status", "count"} =>
          Here(r) = NoBench \/ (Here(r) \in Benches /\ lock[Here(r)] = r)
    /\ req[r].pc \in {"enqueue", "queued"} => req[r].idle # 0
    /\ req[r].pc \in Running => 0 < req[r].run /\ req[r].run <= bench[Here(r)].runs
    /\ OnKernel(r) =>
          /\ 0 < req[r].kernel /\ req[r].kernel <= bench[Here(r)].started
          /\ bench[Here(r)].kernel = req[r].kernel =>
                bench[Here(r)].running = req[r].run

\* No two requests have the same run, nor cells on the same kernel.
RunsApart ==
    \A q, r \in Requests : Here(q) = Here(r) =>
       /\ req[q].pc \in Running /\ req[r].pc \in Running /\ req[q].run = req[r].run
          => q = r
       /\ OnKernel(q) /\ OnKernel(r) /\ req[q].kernel = req[r].kernel => q = r

KernelInv ==
    /\ \A b \in Benches : Sound(bench[b])
    /\ \A k \in hub.kernels : k[2] # 0
    /\ \A r \in Requests : Place(r)
    /\ RunsApart
    /\ BusyBenchHasItsRun

BenchType == [generation : Nat, kernel : Nat, started : Nat,
              socket : {"none", "open", "closed"}, held : BOOLEAN,
              running : Nat, runs : Nat, idle : Nat, waiting : Int]

PodType == [remembered : BOOLEAN, generation : Nat, live : Nat, keepalive : BOOLEAN]

HubType == [ready : BOOLEAN, kernels : SUBSET (Benches \X Nat), culls : Nat]

Ops == {"none", "claim", "ensure", "restart", "status", "shutdown"}

ReqType == [pc : States, op : Ops, at : Benches \union {NoBench}, patient : BOOLEAN,
            attempt : 0..2, idle : Nat, back : {"none", "lock", "done"}, run : Nat,
            kernel : Nat, todo : SUBSET Benches]

ReaperType == [pc : {"idle", "walk", "forget"}, sweeps : Nat, todo : SUBSET Benches,
               at : Benches \union {NoBench}]

LEMMA TypesUnfold ==
    TypeOK <=> /\ registered \in [Workbenches -> 0..(MaxSweeps + 1)]
               /\ made \in [Workbenches -> 0..(MaxSweeps + 1)]
               /\ pod \in PodType
               /\ bench \in [Benches -> BenchType]
               /\ lock \in [Benches -> Requests \union {Free}]
               /\ hub \in HubType
               /\ req \in [Requests -> ReqType]
               /\ reaper \in ReaperType
               /\ upsets \in Nat
BY DEF TypeOK, BenchType, PodType, HubType, Ops, ReqType, ReaperType

-----------------------------------------------------------------------------
(* What becomes of a bench's record.                                        *)

\* No run is begun; and one that ends before its request says so takes the kernel
\* with it.
Quiet(x, y) ==
    /\ y \in BenchType
    /\ y.runs = x.runs /\ x.started <= y.started
    /\ y.idle = y.running /\ y.kernel <= y.started
    /\ y.kernel \in {x.kernel, 0} \/ x.started < y.kernel
    /\ \/ y.running = x.running
       \/ y.running = 0 /\ (y.kernel = 0 \/ x.started < y.kernel)

\* Its hold on the pod and its count of waiters stay.
Counted(x, y) == y.held = x.held /\ y.waiting = x.waiting

LEMMA QuietSame ==
    ASSUME NEW x \in BenchType, Sound(x) PROVE Quiet(x, x) /\ Counted(x, x)
BY DEF Quiet, Counted, Sound, BenchType

LEMMA DroppedFields ==
    ASSUME NEW x \in BenchType
    PROVE  /\ Dropped(x) \in BenchType
           /\ Dropped(x).kernel = 0 /\ Dropped(x).running = 0 /\ Dropped(x).idle = 0
           /\ Dropped(x).runs = x.runs /\ Dropped(x).started = x.started
           /\ Dropped(x).held = x.held /\ Dropped(x).waiting = x.waiting
           /\ Dropped(x).generation = x.generation /\ Dropped(x).socket = "none"
BY DEF Dropped, Freed, BenchType

LEMMA FreedFields ==
    ASSUME NEW x \in BenchType
    PROVE  /\ Freed(x) \in BenchType
           /\ Freed(x).kernel = x.kernel /\ Freed(x).running = 0 /\ Freed(x).idle = 0
           /\ Freed(x).runs = x.runs /\ Freed(x).started = x.started
           /\ Freed(x).held = x.held /\ Freed(x).waiting = x.waiting
BY DEF Freed, BenchType

LEMMA TakenFields ==
    ASSUME NEW x \in BenchType
    PROVE  /\ Taken(x) \in BenchType
           /\ Taken(x).kernel = x.kernel /\ Taken(x).running = x.runs + 1
           /\ Taken(x).idle = x.runs + 1 /\ Taken(x).runs = x.runs + 1
           /\ Taken(x).started = x.started
           /\ Taken(x).held = x.held /\ Taken(x).waiting = x.waiting
<1>1. PICK n \in Nat : n = x.runs + 1
  BY DEF BenchType
<1>2. Taken(x) = [x EXCEPT !.runs = n, !.running = n, !.idle = n]
  BY <1>1 DEF Taken
<1>3. QED
  BY <1>1, <1>2 DEF BenchType

LEMMA DroppedIsQuiet ==
    ASSUME NEW x \in BenchType, Sound(x)
    PROVE  Quiet(x, Dropped(x)) /\ Counted(x, Dropped(x))
<1>1. x.started \in Nat
  BY DEF BenchType
<1>2. QED
  BY <1>1, DroppedFields DEF Quiet, Counted

LEMMA KernelAfterFields ==
    ASSUME TypeOK, KernelInv, NEW b \in Benches, NEW moved \in BOOLEAN,
           NEW stage \in {"none", "create", "dial", "push"}
    PROVE  /\ Quiet(bench[b], KernelAfter(b, stage, moved))
           /\ Counted(bench[b], KernelAfter(b, stage, moved))
           /\ stage # "create" => KernelAfter(b, stage, moved).kernel # 0
<1>1. PICK x \in BenchType : x = bench[b]
  BY TypesUnfold
<1>2. Sound(x) /\ x.kernel \in Nat /\ x.started \in Nat
  BY <1>1 DEF KernelInv, BenchType
<1>3. PICK d \in BenchType : d = Dropped(x)
  BY <1>1, DroppedFields
<1>4. PICK m \in Nat : m = x.started + 1
  BY <1>2
<1> DEFINE n == [d EXCEPT !.kernel = m, !.started = m]
<1>5. /\ n \in BenchType /\ Quiet(x, n) /\ Counted(x, n) /\ n.kernel # 0
  <2>1. /\ n \in BenchType
        /\ n.kernel = x.started + 1 /\ n.started = x.started + 1
        /\ n.running = d.running /\ n.idle = d.idle /\ n.runs = d.runs
        /\ n.held = d.held /\ n.waiting = d.waiting
    BY <1>2, <1>4 DEF BenchType
  <2>2. QED
    BY <1>2, <1>3, <2>1, DroppedFields DEF Quiet, Counted
<1> HIDE DEF n
<1>6. PICK y : y = IF Kept(b, moved) THEN x
                   ELSE IF stage = "create" THEN d ELSE n
  OBVIOUS
<1>7. /\ y \in BenchType /\ Quiet(x, y) /\ Counted(x, y)
      /\ stage # "create" => y.kernel # 0
  <2>1. Kept(b, moved) => x.kernel # 0
    BY <1>1 DEF Kept, KernelInv
  <2>2. QED
    BY <1>2, <1>3, <1>5, <1>6, <2>1, QuietSame, DroppedIsQuiet
<1>8. PICK socket \in {"none", "open"} :
         \/ KernelAfter(b, stage, moved) = y
         \/ KernelAfter(b, stage, moved) = [y EXCEPT !.socket = socket]
  BY <1>1, <1>3, <1>4, <1>6 DEF KernelAfter, n
<1>9. CASE KernelAfter(b, stage, moved) = y
  BY <1>1, <1>7, <1>9
<1>10. CASE KernelAfter(b, stage, moved) = [y EXCEPT !.socket = socket]
  <2>1. PICK z : z = [y EXCEPT !.socket = socket]
    OBVIOUS
  <2>2. /\ z \in BenchType /\ z.kernel = y.kernel /\ z.started = y.started
        /\ z.running = y.running /\ z.idle = y.idle /\ z.runs = y.runs
        /\ z.held = y.held /\ z.waiting = y.waiting
    BY <1>7, <2>1 DEF BenchType
  <2>3. QED
    BY <1>1, <1>7, <1>10, <2>1, <2>2 DEF Quiet, Counted
<1>11. QED
  BY <1>8, <1>9, <1>10

-----------------------------------------------------------------------------
(* Steps that begin no run and end none.                                    *)

\* A request that does not move is where it was, whatever becomes of the benches.
LEMMA PlaceStays ==
    ASSUME TypeOK, NEW r \in Requests, Place(r), UNCHANGED req[r],
           \A b \in Benches : Quiet(bench[b], bench'[b]),
           \A b \in Benches : lock[b] = r => lock'[b] = r
    PROVE  Place(r)'
<1>1. PICK x \in ReqType : x = req[r] /\ x = req'[r]
  BY TypesUnfold
<1>2. x.pc \in States
  BY <1>1 DEF ReqType
<1>3. CASE x.at \in Benches
  <2>1. PICK y \in BenchType, z \in BenchType :
           y = bench[x.at] /\ z = bench'[x.at] /\ Quiet(y, z)
    BY <1>3, TypesUnfold DEF Quiet
  <2>2. /\ y.started \in Nat /\ y.running \in Nat /\ z.started \in Nat
        /\ x.run \in Nat /\ x.kernel \in Nat
    BY <1>1, <2>1 DEF BenchType, ReqType
  <2>3. QED
    BY <1>1, <1>3, <2>1, <2>2 DEF Place, Here, OnKernel, Quiet
<1>4. CASE x.at \notin Benches
  <2>1. x.pc \notin AtBench
    BY <1>1, <1>4 DEF Place, Here
  <2>2. x.pc \notin BringsUp \union Running \union {"enqueue", "queued", "executing"}
    BY <2>1 DEF AtBench, States, BringsUp, Running
  <2>3. x.pc \in {"status", "count"} => x.at = NoBench
    BY <1>1, <1>4 DEF Place, Here
  <2>4. QED
    BY <1>1, <2>1, <2>2, <2>3 DEF Place, Here, OnKernel
<1>5. QED
  BY <1>3, <1>4

\* R are the requests that move, one or none.
LEMMA QuietStep ==
    ASSUME TypeOK, KernelInv, NEW R \in SUBSET Requests,
           \A b \in Benches : Quiet(bench[b], bench'[b]),
           \A k \in hub'.kernels : k[2] # 0,
           \A q \in Requests \ R : req'[q] = req[q],
           \A q \in Requests \ R : \A b \in Benches : lock[b] = q => lock'[b] = q,
           \A r \in R : /\ Place(r)'
                        /\ req'[r].pc # "executing"
                        /\ req[r].pc \in Running <=> req'[r].pc \in Running
                        /\ req'[r].pc \in Running =>
                              req'[r].at = req[r].at /\ req'[r].run = req[r].run
    PROVE  KernelInv'
<1>1. \A b \in Benches : Sound(bench'[b])
  <2>1. SUFFICES ASSUME NEW b \in Benches PROVE Sound(bench'[b])
    OBVIOUS
  <2>2. PICK x \in BenchType, y \in BenchType :
           x = bench[b] /\ y = bench'[b] /\ Quiet(x, y) /\ Sound(x)
    BY TypesUnfold DEF Quiet, KernelInv
  <2>3. QED
    BY <2>2 DEF Quiet, Sound, BenchType
<1>2. \A r \in Requests : Place(r)'
  <2>1. \A r \in Requests \ R : Place(r)'
    BY PlaceStays DEF KernelInv
  <2>2. QED
    BY <2>1
<1>3. \A r \in Requests :
         /\ req'[r].pc \in Running => /\ req[r].pc \in Running
                                      /\ req'[r].at = req[r].at
                                      /\ req'[r].run = req[r].run
         /\ req'[r].pc = "executing" => req'[r] = req[r]
  OBVIOUS
<1>4. RunsApart'
  BY <1>3 DEF RunsApart, KernelInv, Here, OnKernel
<1>5. BusyBenchHasItsRun'
  <2>1. SUFFICES ASSUME NEW b \in Benches, bench'[b].running # 0
                 PROVE  \E r \in Requests : /\ req'[r].pc \in Running
                                            /\ req'[r].at = b
                                            /\ req'[r].run = bench'[b].running
    BY DEF BusyBenchHasItsRun, Here, Running
  <2>2. bench'[b].running = bench[b].running
    BY <2>1 DEF Quiet
  <2>3. PICK r \in Requests : /\ req[r].pc \in Running /\ req[r].at = b
                              /\ req[r].run = bench[b].running
    BY <2>1, <2>2 DEF KernelInv, BusyBenchHasItsRun, Here, Running
  <2>4. req'[r].pc \in Running /\ req'[r].at = req[r].at /\ req'[r].run = req[r].run
    BY <2>3
  <2>5. QED
    BY <2>2, <2>3, <2>4
<1>6. QED
  BY <1>1, <1>2, <1>4, <1>5 DEF KernelInv

LEMMA AllQuiet ==
    ASSUME TypeOK, KernelInv
    PROVE  \A b \in Benches : Quiet(bench[b], bench[b]) /\ Counted(bench[b], bench[b])
BY TypesUnfold, QuietSame DEF KernelInv

\* One bench changes, quietly.
LEMMA OneBench ==
    ASSUME TypeOK, KernelInv, NEW b \in Benches, NEW y, Quiet(bench[b], y),
           bench' = [bench EXCEPT ![b] = y]
    PROVE  /\ bench' \in [Benches -> BenchType]
           /\ \A a \in Benches : Quiet(bench[a], bench'[a])
           /\ bench'[b] = y /\ \A a \in Benches \ {b} : bench'[a] = bench[a]
<1>1. bench \in [Benches -> BenchType] /\ y \in BenchType
  BY TypesUnfold DEF Quiet
<1>2. QED
  BY <1>1, AllQuiet

\* One request moves, quietly.
LEMMA RequestMoves ==
    ASSUME TypeOK, KernelInv, NEW r \in Requests,
           registered' \in [Workbenches -> 0..(MaxSweeps + 1)],
           made' \in [Workbenches -> 0..(MaxSweeps + 1)],
           pod' \in PodType, bench' \in [Benches -> BenchType],
           lock' \in [Benches -> Requests \union {Free}],
           hub' \in HubType, reaper' \in ReaperType, upsets' \in Nat,
           req' \in [Requests -> ReqType],
           \A q \in Requests \ {r} : req'[q] = req[q],
           \A b \in Benches : Quiet(bench[b], bench'[b]),
           \A k \in hub'.kernels : k[2] # 0,
           \A q \in Requests \ {r} : \A b \in Benches : lock[b] = q => lock'[b] = q,
           Place(r)',
           req'[r].pc # "executing",
           req[r].pc \in Running <=> req'[r].pc \in Running,
           req'[r].pc \in Running => req'[r].at = req[r].at /\ req'[r].run = req[r].run
    PROVE  TypeOK' /\ KernelInv'
<1>1. KernelInv'
  <2>1. PICK R \in SUBSET Requests : R = {r}
    OBVIOUS
  <2>2. QED
    BY <2>1, QuietStep
<1>2. TypeOK'
  BY DEF TypeOK, BenchType, PodType, HubType, Ops, ReqType, ReaperType
<1>3. QED
  BY <1>1, <1>2

\* What the variables are before a step.
LEMMA Before ==
    ASSUME TypeOK, KernelInv
    PROVE  /\ registered \in [Workbenches -> 0..(MaxSweeps + 1)]
           /\ made \in [Workbenches -> 0..(MaxSweeps + 1)]
           /\ pod \in PodType /\ bench \in [Benches -> BenchType]
           /\ lock \in [Benches -> Requests \union {Free}]
           /\ hub \in HubType /\ req \in [Requests -> ReqType] /\ reaper \in ReaperType
           /\ upsets \in Nat
           /\ \A b \in Benches : Quiet(bench[b], bench[b])
           /\ \A k \in hub.kernels : k[2] # 0
           /\ \A r \in Requests : Place(r)
BY TypesUnfold, AllQuiet DEF KernelInv

LEMMA LockTaken ==
    ASSUME lock \in [Benches -> Requests \union {Free}], NEW b \in Benches,
           NEW r \in Requests, lock[b] = Free, lock' = [lock EXCEPT ![b] = r]
    PROVE  /\ lock' \in [Benches -> Requests \union {Free}] /\ lock'[b] = r
           /\ \A q \in Requests : \A a \in Benches : lock[a] = q => lock'[a] = q
BY RequestAssumption

LEMMA LockFreed ==
    ASSUME lock \in [Benches -> Requests \union {Free}], NEW b \in Benches,
           NEW r \in Requests, lock[b] = r, Unlock(b)
    PROVE  /\ lock' \in [Benches -> Requests \union {Free}]
           /\ \A q \in Requests \ {r} : \A a \in Benches : lock[a] = q => lock'[a] = q
BY DEF Unlock

LEMMA FreshRequests ==
    /\ NewRequest \in ReqType /\ NewRequest.pc = "new"
    /\ Answered \in ReqType /\ Answered.pc = "done"
    /\ NewRequest.at = NoBench
<1>1. /\ {"new", "lock", "status", "executing", "done"} \subseteq States
      /\ "none" \in Ops /\ NoBench \in Benches \union {NoBench}
      /\ FALSE \in BOOLEAN /\ 0 \in 0..2 /\ 0 \in Nat
      /\ "none" \in {"none", "lock", "done"} /\ {} \in SUBSET Benches
  BY DEF States, Ops
<1>2. NewRequest \in ReqType /\ NewRequest.pc = "new" /\ NewRequest.at = NoBench
  BY <1>1 DEF NewRequest, ReqType
<1>3. QED
  BY <1>1, <1>2 DEF Answered, ReqType

\* A request goes to a place that asks nothing of it.
LEMMA Returns ==
    ASSUME TypeOK, NEW r \in Requests, Return(r)
    PROVE  /\ req' \in [Requests -> ReqType] /\ req'[r].pc = "done"
           /\ \A q \in Requests \ {r} : req'[q] = req[q]
           /\ Place(r)'
<1>1. req \in [Requests -> ReqType]
  BY TypesUnfold
<1>2. req' = [req EXCEPT ![r] = Answered]
  BY DEF Return
<1>3. /\ req' \in [Requests -> ReqType] /\ req'[r].pc = "done"
      /\ \A q \in Requests \ {r} : req'[q] = req[q]
  BY <1>1, <1>2, FreshRequests
<1>4. QED
  BY <1>3 DEF Place, OnKernel, AtBench, BringsUp, Running

\* A step to another label.
LEMMA GoesTo ==
    ASSUME TypeOK, NEW r \in Requests, NEW label \in States, Goto(r, label)
    PROVE  /\ req' \in [Requests -> ReqType]
           /\ \A q \in Requests \ {r} : req'[q] = req[q]
           /\ req'[r].pc = label /\ req'[r].op = req[r].op /\ req'[r].at = req[r].at
           /\ req'[r].idle = req[r].idle /\ req'[r].run = req[r].run
           /\ req'[r].kernel = req[r].kernel
BY TypesUnfold DEF Goto, ReqType

-----------------------------------------------------------------------------
(* Arriving, and the queue.                                                 *)

\* Arrivals.
LEMMA FindKeeps ==
    ASSUME TypeOK, KernelInv, NEW r \in Requests, NEW w \in Workbenches,
           NEW op \in Ops, NEW patient \in BOOLEAN, Find(r, w, op, patient)
    PROVE  TypeOK' /\ KernelInv'
<1>1. PICK n : /\ n = IF registered[w] # 0 THEN registered[w] ELSE made[w] + 1
               /\ registered' = [registered EXCEPT ![w] = n]
               /\ made' = [made EXCEPT ![w] = IF registered[w] # 0 THEN @ ELSE n]
               /\ req' = [req EXCEPT ![r] = [NewRequest EXCEPT
                            !.pc = "lock", !.op = op, !.at = <<w, n>>,
                            !.patient = patient]]
  BY DEF Find
<1>2. /\ req[r].pc = "new"
      /\ registered[w] # 0 \/ made[w] <= MaxSweeps
      /\ UNCHANGED <<pod, bench, lock, hub, reaper, upsets>>
  BY DEF Find
<1>3. n \in 1..(MaxSweeps + 1)
  BY <1>1, <1>2, Before, KernelAssumption
<1>4. PICK y : y = [NewRequest EXCEPT !.pc = "lock", !.op = op, !.at = <<w, n>>,
                                      !.patient = patient]
  OBVIOUS
<1>5. y \in ReqType /\ y.pc = "lock" /\ y.at \in Benches
  <2>1. <<w, n>> \in Benches
    BY <1>3 DEF Benches
  <2>2. "lock" \in States
    BY DEF States
  <2>3. QED
    BY <1>4, <2>1, <2>2, FreshRequests DEF ReqType
<1>6. /\ req' \in [Requests -> ReqType] /\ req'[r] = y
      /\ \A q \in Requests \ {r} : req'[q] = req[q]
  BY <1>1, <1>4, <1>5, Before
<1>7. Place(r)'
  BY <1>5, <1>6 DEF Place, Here, OnKernel, AtBench, BringsUp, Running
<1>8. /\ registered' \in [Workbenches -> 0..(MaxSweeps + 1)]
      /\ made' \in [Workbenches -> 0..(MaxSweeps + 1)]
  BY <1>1, <1>3, Before, KernelAssumption
<1>9. /\ \A b \in Benches : Quiet(bench[b], bench'[b])
      /\ \A k \in hub'.kernels : k[2] # 0
      /\ req'[r].pc \notin Running /\ req[r].pc \notin Running
  <2>1. req'[r].pc \notin Running /\ req[r].pc \notin Running
    BY <1>2, <1>5, <1>6 DEF Running
  <2>2. QED
    BY <1>2, <2>1, Before
<1>10. QED
  BY <1>2, <1>5, <1>6, <1>7, <1>8, <1>9, Before, RequestMoves DEF Running

LEMMA LookUpKeeps ==
    ASSUME TypeOK, KernelInv, NEW r \in Requests, NEW op \in Ops, LookUp(r, op)
    PROVE  TypeOK' /\ KernelInv'
<1>1. /\ req[r].pc = "new"
      /\ UNCHANGED <<registered, made, pod, bench, lock, hub, reaper, upsets>>
  BY DEF LookUp
<1>2. PICK w \in Workbenches :
         \/ registered[w] # 0 /\ req' = [req EXCEPT ![r] = [NewRequest EXCEPT
               !.pc = "lock", !.op = op, !.at = <<w, registered[w]>>]]
         \/ req' = [req EXCEPT ![r] = [NewRequest EXCEPT !.pc = "status", !.op = op]]
         \/ Return(r)
  BY RequestAssumption DEF LookUp, Return
<1>3. CASE Return(r)
  BY <1>1, <1>3, Before, Returns, RequestMoves DEF Running
<1>4. ASSUME NEW y \in ReqType, req' = [req EXCEPT ![r] = y],
             \/ y.pc = "lock" /\ y.at \in Benches
             \/ y.pc = "status" /\ y.at = NoBench
      PROVE  TypeOK' /\ KernelInv'
  <2>1. /\ req' \in [Requests -> ReqType] /\ req'[r] = y
        /\ \A q \in Requests \ {r} : req'[q] = req[q]
    BY <1>4, Before
  <2>2. Place(r)'
    BY <1>4, <2>1 DEF Place, Here, OnKernel, AtBench, BringsUp, Running
  <2>3. QED
    BY <1>1, <1>4, <2>1, <2>2, Before, RequestMoves DEF Running
<1>5. CASE registered[w] # 0 /\ req' = [req EXCEPT ![r] = [NewRequest EXCEPT
               !.pc = "lock", !.op = op, !.at = <<w, registered[w]>>]]
  <2>1. <<w, registered[w]>> \in Benches
    BY <1>5, Before, KernelAssumption DEF Benches
  <2>2. PICK y : y = [NewRequest EXCEPT !.pc = "lock", !.op = op,
                                        !.at = <<w, registered[w]>>]
    OBVIOUS
  <2>3. y \in ReqType /\ y.pc = "lock" /\ y.at \in Benches
    <3>1. "lock" \in States
      BY DEF States
    <3>2. QED
      BY <2>1, <2>2, <3>1, FreshRequests DEF ReqType
  <2>4. QED
    BY <1>4, <1>5, <2>2, <2>3
<1>6. CASE req' = [req EXCEPT ![r] = [NewRequest EXCEPT !.pc = "status", !.op = op]]
  <2>1. PICK y : y = [NewRequest EXCEPT !.pc = "status", !.op = op]
    OBVIOUS
  <2>2. y \in ReqType /\ y.pc = "status" /\ y.at = NoBench
    <3>1. "status" \in States
      BY DEF States
    <3>2. QED
      BY <2>1, <3>1, FreshRequests DEF ReqType
  <2>3. QED
    BY <1>4, <1>6, <2>1, <2>2
<1>7. QED
  BY <1>2, <1>3, <1>5, <1>6

\* A request that is granted the lock of a bench that is free to it.
LEMMA TakesKeeps ==
    ASSUME TypeOK, KernelInv, NEW r \in Requests, NEW attempt \in 0..2,
           NEW label \in {"pod", "status"}, Locks(r), Takes(r, label, attempt),
           bench' \in [Benches -> BenchType], hub' \in HubType,
           \A b \in Benches : Quiet(bench[b], bench'[b]),
           \A k \in hub'.kernels : k[2] # 0,
           req[r].op = "claim" => bench'[Here(r)].running = 0,
           UNCHANGED <<registered, made, pod, reaper, upsets>>
    PROVE  TypeOK' /\ KernelInv'
<1>1. req[r].pc = "lock" /\ Here(r) \in Benches /\ lock[Here(r)] = Free
  BY Before DEF Locks, Place, AtBench, States
<1>2. PICK b \in Benches : b = Here(r) /\ b = req[r].at
  BY <1>1 DEF Here
<1>3. /\ lock' \in [Benches -> Requests \union {Free}] /\ lock'[b] = r
      /\ \A q \in Requests : \A a \in Benches : lock[a] = q => lock'[a] = q
  BY <1>1, <1>2, Before, LockTaken DEF Takes
<1>4. /\ req' \in [Requests -> ReqType]
      /\ \A q \in Requests \ {r} : req'[q] = req[q]
      /\ req'[r].pc = label /\ req'[r].op = req[r].op /\ req'[r].at = b
  <2>1. req' = [req EXCEPT ![r].pc = label, ![r].attempt = attempt, ![r].patient = FALSE]
    BY DEF Takes
  <2>2. label \in States /\ FALSE \in BOOLEAN
    BY DEF States
  <2>3. req \in [Requests -> ReqType]
    BY TypesUnfold
  <2>4. PICK y : y = [req[r] EXCEPT !.pc = label, !.attempt = attempt, !.patient = FALSE]
    OBVIOUS
  <2>5. y \in ReqType /\ y.pc = label /\ y.op = req[r].op /\ y.at = b
    BY <1>2, <2>2, <2>3, <2>4 DEF ReqType
  <2>6. req' = [req EXCEPT ![r] = y]
    BY <2>1, <2>3, <2>4
  <2>7. QED
    BY <2>3, <2>5, <2>6
<1>5. Place(r)'
  BY <1>2, <1>3, <1>4 DEF Place, Here, OnKernel, AtBench, BringsUp, Running
<1>6. QED
  BY <1>1, <1>3, <1>4, <1>5, Before, RequestMoves DEF Running

LEMMA LocksKeep ==
    ASSUME TypeOK, KernelInv, NEW r \in Requests,
           ClaimFree(r) \/ EnsureLocks(r) \/ StatusLocks(r) \/ RestartLocks(r)
    PROVE  TypeOK' /\ KernelInv'
<1>1. CASE ClaimFree(r) \/ EnsureLocks(r) \/ StatusLocks(r)
  <2>1. PICK label \in {"pod", "status"}, attempt \in 0..2 :
           /\ Locks(r) /\ Takes(r, label, attempt)
           /\ req[r].op = "claim" => bench[Here(r)].running = 0
    BY <1>1 DEF ClaimFree, EnsureLocks, StatusLocks
  <2>2. UNCHANGED <<registered, made, pod, bench, hub, reaper, upsets>>
    BY <1>1 DEF ClaimFree, EnsureLocks, StatusLocks
  <2>3. QED
    BY <2>1, <2>2, Before, TakesKeeps
<1>2. CASE RestartLocks(r)
  <2>1. /\ Locks(r) /\ req[r].op = "restart" /\ Takes(r, "pod", 1)
        /\ ShutDown(Here(r))
        /\ UNCHANGED <<registered, made, pod, reaper, upsets>>
    BY <1>2 DEF RestartLocks
  <2>2. PICK b \in Benches : b = Here(r)
    BY <2>1, Before DEF Locks, Place, AtBench, States
  <2>3. /\ bench' = [bench EXCEPT ![b] = Dropped(bench[b])]
        /\ hub' = [hub EXCEPT !.kernels = hub.kernels \ {<<b, bench[b].kernel>>}]
    BY <2>1, <2>2 DEF ShutDown
  <2>4. /\ bench' \in [Benches -> BenchType]
        /\ \A a \in Benches : Quiet(bench[a], bench'[a])
    <3>1. Quiet(bench[b], Dropped(bench[b]))
      BY Before, DroppedIsQuiet DEF KernelInv
    <3>2. QED
      BY <2>3, <3>1, OneBench
  <2>5. hub' \in HubType /\ \A k \in hub'.kernels : k[2] # 0
    BY <2>3, Before DEF HubType
  <2>6. QED
    BY <2>1, <2>4, <2>5, TakesKeeps
<1>3. QED
  BY <1>1, <1>2

\* The steps of a request through the queue, and of a cell that ends.
LEMMA QueueKeeps ==
    ASSUME TypeOK, KernelInv, NEW r \in Requests,
           ClaimBusy(r) \/ Enqueue(r) \/ Woken(r) \/ GiveUp(r) \/ Dequeue(r)
    PROVE  TypeOK' /\ KernelInv'
<1>1. /\ req[r].pc \in {"lock", "enqueue", "queued", "dequeue"}
      /\ UNCHANGED <<registered, made, pod, lock, hub, reaper, upsets>>
  BY DEF ClaimBusy, Locks, Enqueue, Woken, GiveUp, Dequeue
<1>2. PICK b \in Benches : b = Here(r) /\ b = req[r].at
  BY <1>1, Before DEF Place, AtBench, States, Here
<1>3. /\ bench' \in [Benches -> BenchType]
      /\ \A a \in Benches : Quiet(bench[a], bench'[a])
  <2>1. CASE UNCHANGED bench
    BY <2>1, Before
  <2>2. ASSUME NEW n \in Int, bench' = [bench EXCEPT ![b].waiting = n]
        PROVE  /\ bench' \in [Benches -> BenchType]
               /\ \A a \in Benches : Quiet(bench[a], bench'[a])
    <3>1. PICK x, y : x \in BenchType /\ x = bench[b] /\ y = [x EXCEPT !.waiting = n]
      BY Before
    <3>2. /\ y \in BenchType /\ y.runs = x.runs /\ y.started = x.started
          /\ y.idle = x.idle /\ y.running = x.running /\ y.kernel = x.kernel
      BY <2>2, <3>1 DEF BenchType
    <3>3. Quiet(x, y)
      BY <3>1, <3>2, Before DEF Quiet
    <3>4. bench' = [bench EXCEPT ![b] = y]
      BY <2>2, <3>1
    <3>5. QED
      BY <3>1, <3>3, <3>4, OneBench
  <2>3. bench[b].waiting + 1 \in Int /\ bench[b].waiting - 1 \in Int
    BY Before DEF BenchType
  <2>4. QED
    BY <1>2, <2>1, <2>2, <2>3
       DEF ClaimBusy, Enqueue, Woken, GiveUp, Dequeue
<1>4. PICK x \in ReqType : x = req[r]
  BY Before
<1>5. ASSUME NEW y \in ReqType, req' = [req EXCEPT ![r] = y], y.at = b,
             \/ y.pc \in {"lock", "dequeue", "done"}
             \/ y.pc \in {"enqueue", "queued"} /\ y.idle # 0
      PROVE  TypeOK' /\ KernelInv'
  <2>1. /\ req' \in [Requests -> ReqType] /\ req'[r] = y
        /\ \A q \in Requests \ {r} : req'[q] = req[q]
    BY <1>5, Before
  <2>2. Place(r)'
    BY <1>5, <2>1 DEF Place, Here, OnKernel, AtBench, BringsUp, Running
  <2>3. req[r].pc \notin Running /\ req'[r].pc \notin Running
    BY <1>1, <1>5, <2>1 DEF Running
  <2>4. QED
    BY <1>1, <1>3, <1>5, <2>1, <2>2, <2>3, Before, RequestMoves DEF Running
<1>6. ASSUME Return(r) PROVE TypeOK' /\ KernelInv'
  <2>1. req[r].pc \notin Running
    BY <1>1 DEF Running
  <2>2. QED
    BY <1>1, <1>3, <1>6, <2>1, Before, Returns, RequestMoves DEF Running
<1>7. {"lock", "enqueue", "queued", "dequeue"} \subseteq States
  BY DEF States
<1>8. CASE ClaimBusy(r) /\ ~Return(r)
  <2>1. /\ bench[b].idle # 0
        /\ req' = [req EXCEPT ![r].pc = "enqueue", ![r].idle = bench[b].idle]
    BY <1>2, <1>8 DEF ClaimBusy
  <2>2. PICK n, y : /\ n \in Nat
                    /\ n = bench[b].idle
                    /\ y = [x EXCEPT !.pc = "enqueue", !.idle = n]
    BY Before DEF BenchType
  <2>3. y \in ReqType /\ y.pc = "enqueue" /\ y.idle # 0 /\ y.at = b
    BY <1>2, <1>4, <1>7, <2>1, <2>2 DEF ReqType
  <2>4. req' = [req EXCEPT ![r] = y]
    BY <1>4, <2>1, <2>2, Before
  <2>5. QED
    BY <1>5, <2>3, <2>4
<1>9. CASE Enqueue(r)
  <2>1. PICK y : y = [x EXCEPT !.pc = "queued"]
    OBVIOUS
  <2>2. y \in ReqType /\ y.pc = "queued" /\ y.idle # 0 /\ y.at = b
    BY <1>2, <1>4, <1>7, <1>9, <2>1, Before DEF ReqType, Enqueue, Place
  <2>3. req' = [req EXCEPT ![r] = y]
    BY <1>4, <1>9, <2>1, Before DEF Enqueue, Goto
  <2>4. QED
    BY <1>5, <2>2, <2>3
<1>10. CASE Woken(r) \/ GiveUp(r)
  <2>1. \E patient \in BOOLEAN, back \in {"lock", "done"} :
           req' = [req EXCEPT ![r] = [x EXCEPT !.pc = "dequeue", !.back = back,
                                               !.patient = patient, !.idle = 0]]
    <3>1. CASE Woken(r)
      <4>1. PICK patient \in BOOLEAN :
               req' = [req EXCEPT ![r].pc = "dequeue", ![r].back = "lock",
                                  ![r].patient = patient, ![r].idle = 0]
        BY <3>1 DEF Woken
      <4>2. QED
        BY <1>4, <4>1, Before
    <3>2. CASE GiveUp(r)
      <4>1. req' = [req EXCEPT ![r].pc = "dequeue", ![r].back = "done", ![r].idle = 0]
        BY <3>2 DEF GiveUp
      <4>2. /\ x.patient \in BOOLEAN
            /\ [x EXCEPT !.pc = "dequeue", !.back = "done", !.patient = x.patient,
                         !.idle = 0]
               = [x EXCEPT !.pc = "dequeue", !.back = "done", !.idle = 0]
        BY DEF ReqType
      <4>3. req' = [req EXCEPT ![r] = [x EXCEPT !.pc = "dequeue", !.back = "done",
                                                !.patient = x.patient, !.idle = 0]]
        BY <1>4, <4>1, <4>2, Before
      <4>4. QED
        BY <4>2, <4>3
    <3>3. QED
      BY <1>10, <3>1, <3>2
  <2>2. PICK patient \in BOOLEAN, back \in {"lock", "done"} :
           req' = [req EXCEPT ![r] = [x EXCEPT !.pc = "dequeue", !.back = back,
                                               !.patient = patient, !.idle = 0]]
    BY <2>1
  <2>3. PICK y : y = [x EXCEPT !.pc = "dequeue", !.back = back,
                               !.patient = patient, !.idle = 0]
    OBVIOUS
  <2>4. y \in ReqType /\ y.pc = "dequeue" /\ y.at = b
    BY <1>2, <1>4, <1>7, <2>3 DEF ReqType
  <2>5. QED
    BY <1>5, <2>2, <2>3, <2>4
<1>11. CASE Dequeue(r) /\ ~Return(r)
  <2>1. PICK y : y = [x EXCEPT !.pc = "lock", !.back = "none"]
    OBVIOUS
  <2>2. y \in ReqType /\ y.pc = "lock" /\ y.at = b
    BY <1>2, <1>4, <1>7, <2>1 DEF ReqType
  <2>3. req' = [req EXCEPT ![r] = y]
    BY <1>4, <1>11, <2>1, Before DEF Dequeue
  <2>4. QED
    BY <1>5, <2>2, <2>3
<1>12. QED
  BY <1>6, <1>8, <1>9, <1>10, <1>11

-----------------------------------------------------------------------------
(* Bringing the kernel up.                                                  *)

\* A request that holds its bench's lock.
LEMMA Holds ==
    ASSUME TypeOK, KernelInv, NEW r \in Requests, req[r].pc \in BringsUp
    PROVE  /\ req[r].at \in Benches /\ Here(r) = req[r].at /\ lock[req[r].at] = r
           /\ req[r].op = "claim" => bench[req[r].at].running = 0
BY Before DEF Place, AtBench, States, BringsUp, Here

\* A step of a bring-up that goes on with the lock held, or is over.
LEMMA BringUpKeeps ==
    ASSUME TypeOK, KernelInv, NEW r \in Requests, req[r].pc \in BringsUp,
           bench' \in [Benches -> BenchType],
           \A b \in Benches : Quiet(bench[b], bench'[b]),
           hub' \in HubType, \A k \in hub'.kernels : k[2] # 0,
           pod' \in PodType, upsets' \in Nat,
           UNCHANGED <<registered, made, reaper>>,
           \/ /\ UNCHANGED lock
              /\ req' \in [Requests -> ReqType]
              /\ \A q \in Requests \ {r} : req'[q] = req[q]
              /\ req'[r].pc \in BringsUp \/ (req'[r].pc = "status" /\ req[r].op # "claim")
              /\ req'[r].op = req[r].op /\ req'[r].at = req[r].at
           \/ Unlock(Here(r)) /\ Return(r)
    PROVE  TypeOK' /\ KernelInv'
<1>1. PICK b \in Benches : /\ b = req[r].at /\ b = Here(r) /\ lock[b] = r
                           /\ req[r].op = "claim" => bench[b].running = 0
  BY Holds
<1>2. req[r].pc \notin Running
  BY DEF Running, BringsUp
<1>3. CASE /\ UNCHANGED lock
           /\ req' \in [Requests -> ReqType]
           /\ \A q \in Requests \ {r} : req'[q] = req[q]
           /\ req'[r].pc \in BringsUp \/ (req'[r].pc = "status" /\ req[r].op # "claim")
           /\ req'[r].op = req[r].op /\ req'[r].at = req[r].at
  <2>1. req[r].op = "claim" => bench'[b].running = 0
    BY <1>1 DEF Quiet
  <2>2. /\ req'[r].pc \notin Running \union {"enqueue", "queued", "count"}
        /\ req'[r].pc # "executing"
    BY <1>3 DEF BringsUp, Running
  <2>3. Place(r)'
    BY <1>1, <1>3, <2>1, <2>2 DEF Place, Here, OnKernel, AtBench, BringsUp, Running
  <2>4. QED
    BY <1>2, <1>3, <2>2, <2>3, Before, RequestMoves
<1>4. CASE Unlock(Here(r)) /\ Return(r)
  <2>1. /\ lock' \in [Benches -> Requests \union {Free}]
        /\ \A q \in Requests \ {r} : \A a \in Benches : lock[a] = q => lock'[a] = q
    BY <1>1, <1>4, Before, LockFreed
  <2>2. req'[r].pc \notin Running /\ req'[r].pc # "executing"
    BY <1>4, Returns DEF Running
  <2>3. QED
    BY <1>2, <1>4, <2>1, <2>2, Before, Returns, RequestMoves
<1>5. QED
  BY <1>3, <1>4

\* A failed attempt is such a step.
LEMMA MissesMove ==
    ASSUME TypeOK, NEW r \in Requests, NEW remembered, Misses(r, remembered)
    PROVE  \/ /\ UNCHANGED lock
              /\ req' \in [Requests -> ReqType]
              /\ \A q \in Requests \ {r} : req'[q] = req[q]
              /\ req'[r].pc \in BringsUp
              /\ req'[r].op = req[r].op /\ req'[r].at = req[r].at
           \/ Unlock(Here(r)) /\ Return(r)
<1>1. "ask" \in States /\ "ask" \in BringsUp
  BY DEF States, BringsUp
<1>2. QED
  BY <1>1, GoesTo DEF Misses

LEMMA PodStepsKeep ==
    ASSUME TypeOK, KernelInv, NEW r \in Requests,
           ReachPod(r) \/ MissPod(r) \/ NotGone(r) \/ HearGone(r) \/ DropServer(r)
    PROVE  TypeOK' /\ KernelInv'
<1>1. /\ req[r].pc \in BringsUp /\ UNCHANGED <<registered, made, reaper>>
  BY DEF ReachPod, MissPod, NotGone, HearGone, DropServer, BringsUp
<1>2. {"pod", "kernel", "drop"} \subseteq States /\ {"pod", "kernel", "drop"} \subseteq BringsUp
  BY DEF States, BringsUp
<1>3. CASE ReachPod(r)
  <2>1. PICK b \in Benches, g \in Nat : b = Here(r) /\ g = pod.generation
    BY <1>1, Holds, Before DEF PodType
  <2>2. bench' \in [Benches -> BenchType] /\ \A a \in Benches : Quiet(bench[a], bench'[a])
    <3>1. PICK d, y : d = Dropped(bench[b]) /\ y = [d EXCEPT !.generation = g]
      OBVIOUS
    <3>2. /\ y \in BenchType /\ Quiet(bench[b], y)
      <4>1. PICK x \in BenchType : x = bench[b]
        BY Before
      <4>2. d \in BenchType /\ Quiet(x, d)
        BY <3>1, <4>1, Before, DroppedFields, DroppedIsQuiet DEF KernelInv
      <4>3. /\ y \in BenchType /\ y.runs = d.runs /\ y.started = d.started
            /\ y.idle = d.idle /\ y.running = d.running /\ y.kernel = d.kernel
        BY <3>1, <4>2 DEF BenchType
      <4>4. QED
        BY <4>1, <4>2, <4>3 DEF Quiet
    <3>3. bench' = bench \/ bench' = [bench EXCEPT ![b] = y]
      BY <1>3, <2>1, <3>1, Before DEF ReachPod
    <3>4. QED
      BY <3>2, <3>3, Before, OneBench
  <2>3. pod' \in PodType /\ hub' \in HubType /\ hub'.kernels = hub.kernels
    BY <1>3, Before DEF ReachPod, PodType, HubType
  <2>4. Goto(r, "kernel") /\ UNCHANGED <<lock, upsets>>
    BY <1>3 DEF ReachPod
  <2>5. QED
    BY <1>1, <1>2, <2>2, <2>3, <2>4, Before, GoesTo, BringUpKeeps
<1>4. CASE MissPod(r)
  <2>1. PICK spawned \in BOOLEAN :
          /\ pod' = [pod EXCEPT !.remembered = @ \/ spawned]
          /\ hub' = [hub EXCEPT !.ready = @ \/ (spawned /\ ~pod.remembered)]
          /\ Misses(r, pod.remembered \/ spawned)
    BY <1>4 DEF MissPod
  <2>2. pod' \in PodType /\ hub' \in HubType /\ hub'.kernels = hub.kernels
    BY <2>1, Before DEF PodType, HubType
  <2>3. upsets' \in Nat /\ UNCHANGED bench
    BY <1>4, Before DEF MissPod, Upset
  <2>4. QED
    BY <1>1, <2>1, <2>2, <2>3, Before, MissesMove, BringUpKeeps
<1>5. CASE NotGone(r)
  BY <1>1, <1>5, Before, BringUpKeeps DEF NotGone
<1>6. CASE HearGone(r)
  <2>1. Goto(r, "drop") /\ UNCHANGED <<pod, bench, lock, hub, upsets>>
    BY <1>6 DEF HearGone
  <2>2. QED
    BY <1>1, <1>2, <2>1, Before, GoesTo, BringUpKeeps
<1>7. CASE DropServer(r)
  <2>1. /\ pod' \in PodType /\ UNCHANGED <<bench, lock, hub, upsets>>
    <3>1. PICK g \in Nat : g = pod.generation + 1
      BY Before DEF PodType
    <3>2. pod' = [pod EXCEPT !.remembered = FALSE, !.generation = g]
      BY <1>7, <3>1 DEF DropServer
    <3>3. pod' \in PodType
      BY <3>2, Before DEF PodType
    <3>4. QED
      BY <1>7, <3>3 DEF DropServer
  <2>2. PICK x, y : /\ x \in ReqType
                    /\ x = req[r] /\ y = [x EXCEPT !.pc = "pod", !.attempt = 2]
    BY Before
  <2>3. y \in ReqType /\ y.pc = "pod" /\ y.op = x.op /\ y.at = x.at
    <3>1. 2 \in 0..2
      OBVIOUS
    <3>2. QED
      BY <1>2, <2>2, <3>1 DEF ReqType
  <2>4. req' = [req EXCEPT ![r] = y]
    BY <1>7, <2>2, Before DEF DropServer
  <2>5. QED
    BY <1>1, <1>2, <2>1, <2>2, <2>3, <2>4, Before, BringUpKeeps
<1>8. QED
  BY <1>3, <1>4, <1>5, <1>6, <1>7

LEMMA KernelsAfterType ==
    ASSUME TypeOK, KernelInv, NEW b \in Benches, NEW x \in BenchType
    PROVE  /\ KernelsAfter(b, x) \in SUBSET (Benches \X Nat)
           /\ \A k \in KernelsAfter(b, x) : k[2] # 0
<1>1. /\ hub.kernels \in SUBSET (Benches \X Nat) /\ \A k \in hub.kernels : k[2] # 0
      /\ x.kernel \in Nat
  BY Before DEF HubType, BenchType
<1>2. x.kernel # 0 => <<b, x.kernel>> \in Benches \X Nat /\ <<b, x.kernel>>[2] # 0
  BY <1>1
<1>3. \A k \in KernelsAfter(b, x) : k \in hub.kernels \/ (x.kernel # 0 /\ k = <<b, x.kernel>>)
  BY DEF KernelsAfter
<1>4. QED
  BY <1>1, <1>2, <1>3

LEMMA UpsetType ==
    ASSUME upsets \in Nat, NEW cost \in Nat, Upset(cost) PROVE upsets' \in Nat
BY DEF Upset

LEMMA KernelMissedKeeps ==
    ASSUME TypeOK, KernelInv, NEW r \in Requests, KernelMissed(r)
    PROVE  TypeOK' /\ KernelInv'
<1>1. /\ req[r].pc = "kernel" /\ req[r].pc \in BringsUp
      /\ UNCHANGED <<registered, made, pod, reaper>>
  BY DEF KernelMissed, BringsUp
<1>2. PICK b \in Benches : b = Here(r)
  BY <1>1, Holds
<1>3. PICK x : /\ \E moved \in BOOLEAN, stage \in {"create", "dial", "push"} :
                    /\ x = KernelAfter(b, stage, moved)
                    /\ Upset(Moves(b, moved) + IF hub.ready THEN 1 ELSE 0)
               /\ bench' = [bench EXCEPT ![b] = x]
               /\ hub' = [hub EXCEPT !.kernels = IF hub.ready
                                                 THEN KernelsAfter(b, x) ELSE hub.kernels]
               /\ Misses(r, pod.remembered)
  BY <1>2 DEF KernelMissed, Stages
<1>4. Quiet(bench[b], x) /\ x \in BenchType
  <2>1. PICK moved \in BOOLEAN, stage \in {"create", "dial", "push"} :
           x = KernelAfter(b, stage, moved)
    BY <1>3
  <2>2. QED
    BY <2>1, KernelAfterFields DEF Quiet
<1>5. bench' \in [Benches -> BenchType] /\ \A a \in Benches : Quiet(bench[a], bench'[a])
  BY <1>3, <1>4, OneBench
<1>6. hub' \in HubType /\ \A k \in hub'.kernels : k[2] # 0
  <2>1. PICK kernels \in SUBSET (Benches \X Nat) :
           hub' = [hub EXCEPT !.kernels = kernels] /\ \A k \in kernels : k[2] # 0
    BY <1>3, <1>4, KernelsAfterType, Before DEF HubType
  <2>2. QED
    BY <2>1, Before DEF HubType
<1>7. upsets' \in Nat
  BY <1>3, Before, UpsetType DEF Moves
<1>8. QED
  BY <1>1, <1>3, <1>5, <1>6, <1>7, Before, MissesMove, BringUpKeeps

LEMMA PodHeldType ==
    ASSUME pod \in PodType, NEW b \in Benches
    PROVE  PodHeldBy(b) \in PodType /\ PodReleasedBy(b) \in PodType
<1>1. PICK n \in Nat, m \in Nat : /\ n = pod.live + 1
                                  /\ m = IF pod.live > 0 THEN pod.live - 1 ELSE 0
  BY DEF PodType
<1>2. PodHeldBy(b) \in PodType
  BY <1>1 DEF PodHeldBy, PodType
<1>3. PodReleasedBy(b) = pod
      \/ PodReleasedBy(b) = [pod EXCEPT !.live = m, !.keepalive = @ /\ m # 0]
  BY <1>1 DEF PodReleasedBy
<1>4. QED
  BY <1>2, <1>3 DEF PodType

\* What KernelUp makes of the bench before a claim takes it.
LEMMA KernelUpEffect ==
    ASSUME TypeOK, KernelInv, NEW r \in Requests, KernelUp(r)
    PROVE  \E b \in Benches, x \in BenchType :
              /\ b = req[r].at /\ b = Here(r) /\ lock[b] = r
              /\ Quiet(bench[b], x) /\ x.kernel # 0
              /\ x.held /\ x.waiting = bench[b].waiting
              /\ pod' = PodHeldBy(b) /\ hub' \in HubType
              /\ \A k \in hub'.kernels : k[2] # 0
              /\ upsets' \in Nat /\ UNCHANGED <<registered, made, reaper>>
              /\ \/ /\ req[r].op = "claim"
                    /\ bench' = [bench EXCEPT ![b] = Taken(x)]
                    /\ Unlock(b)
                    /\ req' = [req EXCEPT ![r] = [NewRequest EXCEPT
                                  !.pc = "executing", !.op = "claim", !.at = b,
                                  !.run = Taken(x).running, !.kernel = x.kernel]]
                 \/ /\ req[r].op # "claim"
                    /\ bench' = [bench EXCEPT ![b] = x]
                    /\ req' = [req EXCEPT ![r].pc = "status", ![r].attempt = 0]
                    /\ UNCHANGED lock
<1>1. /\ req[r].pc = "kernel" /\ req[r].pc \in BringsUp
      /\ UNCHANGED <<registered, made, reaper>>
  BY DEF KernelUp, BringsUp
<1>2. PICK b \in Benches : b = Here(r) /\ b = req[r].at /\ lock[b] = r
  BY <1>1, Holds
<1>up. PICK moved \in BOOLEAN :
          LET x == [KernelAfter(Here(r), "none", moved) EXCEPT !.held = TRUE]
          IN  /\ Upset(Moves(Here(r), moved))
              /\ pod' = PodHeldBy(Here(r))
              /\ hub' = [hub EXCEPT !.kernels = KernelsAfter(Here(r), x)]
              /\ IF req[r].op = "claim"
                 THEN /\ bench' = [bench EXCEPT ![Here(r)] = Taken(x)]
                      /\ Unlock(Here(r))
                      /\ req' = [req EXCEPT ![r] = [NewRequest EXCEPT
                                    !.pc = "executing", !.op = "claim", !.at = Here(r),
                                    !.run = Taken(x).running, !.kernel = x.kernel]]
                 ELSE /\ bench' = [bench EXCEPT ![Here(r)] = x]
                      /\ req' = [req EXCEPT ![r].pc = "status", ![r].attempt = 0]
                      /\ UNCHANGED lock
  BY DEF KernelUp
<1>3. PICK x : /\ x = [KernelAfter(b, "none", moved) EXCEPT !.held = TRUE]
               /\ Upset(Moves(b, moved))
               /\ pod' = PodHeldBy(b)
               /\ hub' = [hub EXCEPT !.kernels = KernelsAfter(b, x)]
               /\ \/ /\ req[r].op = "claim"
                     /\ bench' = [bench EXCEPT ![b] = Taken(x)]
                     /\ Unlock(b)
                     /\ req' = [req EXCEPT ![r] = [NewRequest EXCEPT
                                   !.pc = "executing", !.op = "claim", !.at = b,
                                   !.run = Taken(x).running, !.kernel = x.kernel]]
                  \/ /\ req[r].op # "claim"
                     /\ bench' = [bench EXCEPT ![b] = x]
                     /\ req' = [req EXCEPT ![r].pc = "status", ![r].attempt = 0]
                     /\ UNCHANGED lock
  BY <1>2, <1>up
<1>4. PICK y \in BenchType : /\ y = KernelAfter(b, "none", moved) /\ Quiet(bench[b], y)
                             /\ Counted(bench[b], y) /\ y.kernel # 0
  BY <1>3, KernelAfterFields DEF Quiet
<1>5. x = [y EXCEPT !.held = TRUE]
  BY <1>3, <1>4
<1>6. /\ x \in BenchType /\ x.runs = y.runs /\ x.started = y.started /\ x.idle = y.idle
      /\ x.running = y.running /\ x.kernel = y.kernel /\ x.held
      /\ x.waiting = y.waiting
  BY <1>5 DEF BenchType
<1>7. Quiet(bench[b], x) /\ x.kernel # 0 /\ x.waiting = bench[b].waiting
  BY <1>4, <1>6 DEF Quiet, Counted
<1>8. hub' \in HubType /\ \A k \in hub'.kernels : k[2] # 0
  <2>1. PICK kernels \in SUBSET (Benches \X Nat) :
           hub' = [hub EXCEPT !.kernels = kernels] /\ \A k \in kernels : k[2] # 0
    <3>1. PICK kernels : kernels = KernelsAfter(b, x)
      OBVIOUS
    <3>2. kernels \in SUBSET (Benches \X Nat) /\ \A k \in kernels : k[2] # 0
      BY <1>6, <3>1, KernelsAfterType
    <3>3. QED
      BY <1>3, <3>1, <3>2
  <2>2. QED
    BY <2>1, Before DEF HubType
<1>9. upsets' \in Nat
  BY <1>3, Before, UpsetType DEF Moves
<1>10. QED
  BY <1>1, <1>2, <1>3, <1>6, <1>7, <1>8, <1>9

\* A claim takes the kernel: no cell is on it, and the run is a new one.
LEMMA ClaimTakes ==
    ASSUME TypeOK, KernelInv, NEW r \in Requests, req[r].pc = "kernel",
           req[r].op = "claim", NEW b \in Benches, NEW x \in BenchType,
           b = req[r].at, b = Here(r), lock[b] = r, Quiet(bench[b], x), x.kernel # 0,
           pod' \in PodType, hub' \in HubType, \A k \in hub'.kernels : k[2] # 0,
           upsets' \in Nat, UNCHANGED <<registered, made, reaper>>,
           bench' = [bench EXCEPT ![b] = Taken(x)], Unlock(b),
           req' = [req EXCEPT ![r] = [NewRequest EXCEPT
                         !.pc = "executing", !.op = "claim", !.at = b,
                         !.run = Taken(x).running, !.kernel = x.kernel]]
    PROVE  TypeOK' /\ KernelInv'
<1>1. PICK v \in BenchType, y \in BenchType : v = bench[b] /\ y = Taken(x)
  BY Before, TakenFields
<1>2. /\ v.running = 0 /\ v.kernel <= v.started
      /\ v.kernel \in Nat /\ v.started \in Nat /\ v.runs \in Nat
      /\ x.kernel \in Nat /\ x.started \in Nat /\ x.runs \in Nat
  <2>1. req[r].pc \in BringsUp
    BY DEF BringsUp
  <2>2. v.running = 0
    BY <1>1, <2>1, Holds
  <2>3. Sound(v)
    BY <1>1 DEF KernelInv
  <2>4. QED
    BY <2>2, <2>3 DEF Sound, BenchType
<1>3. /\ y.runs = v.runs + 1 /\ y.running = v.runs + 1 /\ y.idle = v.runs + 1
      /\ y.kernel = x.kernel /\ y.kernel <= y.started /\ v.started <= y.started
      /\ y.kernel = v.kernel \/ v.started < y.kernel
      /\ y.started \in Nat /\ y.runs \in Nat /\ y.running \in Nat
  BY <1>1, <1>2, TakenFields DEF Quiet
<1>4. /\ bench' \in [Benches -> BenchType] /\ bench'[b] = y
      /\ \A a \in Benches \ {b} : bench'[a] = bench[a]
  BY <1>1, Before
<1>5. PICK z \in ReqType : /\ req' = [req EXCEPT ![r] = z]
                           /\ z.pc = "executing" /\ z.op = "claim" /\ z.at = b
                           /\ z.run = y.running /\ z.kernel = y.kernel
  <2>1. PICK n \in Nat, k \in Nat : n = Taken(x).running /\ k = x.kernel
    BY <1>1, <1>2, <1>3
  <2>2. PICK z : z = [NewRequest EXCEPT !.pc = "executing", !.op = "claim", !.at = b,
                                        !.run = n, !.kernel = k]
    OBVIOUS
  <2>3. "executing" \in States /\ "claim" \in Ops /\ b \in Benches \union {NoBench}
    BY DEF States, Ops
  <2>4. /\ z \in ReqType /\ z.pc = "executing" /\ z.op = "claim" /\ z.at = b
        /\ z.run = n /\ z.kernel = k
    BY <2>2, <2>3, FreshRequests DEF ReqType
  <2>5. QED
    BY <1>1, <1>3, <2>1, <2>2, <2>4
<1>6. /\ req' \in [Requests -> ReqType] /\ req'[r] = z
      /\ \A q \in Requests \ {r} : req'[q] = req[q]
  BY <1>5, Before
<1>7. /\ lock' \in [Benches -> Requests \union {Free}]
      /\ \A q \in Requests \ {r} : \A a \in Benches : lock[a] = q => lock'[a] = q
  BY Before, LockFreed
<1>8. TypeOK'
  BY <1>4, <1>6, <1>7, Before
     DEF TypeOK, BenchType, PodType, HubType, Ops, ReqType, ReaperType
<1>9. ASSUME NEW q \in Requests, Here(q) = b
      PROVE  /\ req[q].pc \in Running => req[q].run \in Nat /\ req[q].run <= v.runs
             /\ OnKernel(q) => /\ req[q].kernel \in Nat
                               /\ req[q].kernel <= v.started
                               /\ req[q].kernel # y.kernel
  <2>1. Place(q) /\ req[q].run \in Nat /\ req[q].kernel \in Nat
    BY Before DEF ReqType
  <2>2. req[q].pc \in Running => req[q].run <= v.runs /\ 0 < req[q].run
    BY <1>1, <1>9, <2>1 DEF Place
  <2>3. OnKernel(q) => /\ req[q].kernel <= v.started /\ 0 < req[q].kernel
                       /\ v.kernel = req[q].kernel => v.running = req[q].run
                       /\ req[q].pc \in Running
    BY <1>1, <1>9, <2>1 DEF Place, OnKernel, Running
  <2>4. QED
    BY <1>2, <1>3, <2>1, <2>2, <2>3
<1>10. Place(r)'
  BY <1>2, <1>3, <1>4, <1>6, <1>5 DEF Place, Here, OnKernel, AtBench, BringsUp, Running
<1>11. ASSUME NEW q \in Requests \ {r} PROVE Place(q)'
  <2>1. PICK w \in ReqType : w = req[q] /\ w = req'[q] /\ w.pc \in States
    BY <1>6, Before DEF ReqType
  <2>2. Place(q) /\ Here(q) = w.at
    BY <2>1, Before DEF Here
  <2>3. CASE w.at = b
    <3>1. w.pc \notin BringsUp /\ (w.pc \in {"status", "count"} => b = NoBench)
      BY <2>1, <2>2, <2>3, <1>11 DEF Place
    <3>2. CASE w.pc \in Running
      <4>1. /\ w.run <= v.runs /\ 0 < w.run /\ w.run \in Nat /\ w.kernel \in Nat
            /\ OnKernel(q) => /\ w.kernel <= v.started /\ w.kernel # y.kernel
                              /\ 0 < w.kernel
        <5>1. /\ req[q].run <= v.runs
              /\ OnKernel(q) => /\ req[q].kernel <= v.started
                                /\ req[q].kernel # y.kernel
          BY <1>9, <2>1, <2>2, <2>3, <3>2
        <5>2. 0 < req[q].run /\ (OnKernel(q) => 0 < req[q].kernel)
          BY <2>1, <2>2, <3>2 DEF Place
        <5>3. w.run \in Nat /\ w.kernel \in Nat
          BY DEF ReqType
        <5>4. QED
          BY <2>1, <5>1, <5>2, <5>3
      <4>2. QED
        BY <1>2, <1>3, <1>4, <2>1, <2>2, <2>3, <3>1, <3>2, <4>1
           DEF Place, Here, OnKernel, Running
    <3>3. CASE w.pc \notin Running
      <4>1. w.pc # "executing"
        BY <3>3 DEF Running
      <4>2. QED
        BY <2>1, <2>2, <2>3, <3>1, <3>3, <4>1 DEF Place, Here, OnKernel
    <3>4. QED
      BY <3>2, <3>3
  <2>4. CASE w.at \in Benches \ {b}
    <3>1. bench'[w.at] = bench[w.at] /\ (lock[w.at] = q => lock'[w.at] = q)
      BY <1>4, <1>7, <1>11, <2>4
    <3>2. QED
      BY <2>1, <2>2, <2>4, <3>1 DEF Place, Here, OnKernel
  <2>5. CASE w.at \notin Benches
    <3>1. w.pc \notin AtBench
      BY <2>2, <2>5, <2>1 DEF Place
    <3>2. w.pc \notin BringsUp \union Running \union {"enqueue", "queued", "executing"}
      BY <3>1 DEF AtBench, States, BringsUp, Running
    <3>3. w.pc \in {"status", "count"} => w.at = NoBench
      BY <2>1, <2>2, <2>5 DEF Place
    <3>4. QED
      BY <2>1, <3>1, <3>2, <3>3 DEF Place, Here, OnKernel
  <2>6. QED
    BY <2>3, <2>4, <2>5
<1>12. RunsApart'
  <2>1. SUFFICES ASSUME NEW p \in Requests, NEW q \in Requests, p # q,
                        req'[p].at = req'[q].at,
                        req'[p].pc \in Running, req'[q].pc \in Running
                 PROVE  /\ req'[p].run # req'[q].run
                        /\ req'[p].pc = "executing" /\ req'[q].pc = "executing"
                           => req'[p].kernel # req'[q].kernel
    BY DEF RunsApart, Here, OnKernel, Running
  <2>2. CASE p # r /\ q # r
    BY <1>6, <2>1, <2>2 DEF KernelInv, RunsApart, Here, OnKernel
  <2>3. ASSUME NEW o \in Requests \ {r}, req[o].at = b, req[o].pc \in Running
        PROVE  /\ req[o].run # z.run
               /\ req[o].pc = "executing" => req[o].kernel # z.kernel
    <3>1. /\ req[o].run \in Nat /\ req[o].run <= v.runs
          /\ req[o].pc = "executing" => req[o].kernel # y.kernel
      BY <1>9, <2>3 DEF Here, OnKernel
    <3>2. QED
      BY <1>2, <1>3, <1>5, <3>1
  <2>4. CASE p = r
    <3>1. q \in Requests \ {r} /\ req'[q] = req[q] /\ req'[p] = z
      BY <1>6, <2>1, <2>4
    <3>2. req[q].at = b /\ req[q].pc \in Running
      BY <1>5, <2>1, <3>1
    <3>3. req[q].run # z.run /\ (req[q].pc = "executing" => req[q].kernel # z.kernel)
      BY <2>3, <3>1, <3>2
    <3>4. QED
      BY <3>1, <3>3
  <2>5. CASE q = r
    <3>1. p \in Requests \ {r} /\ req'[p] = req[p] /\ req'[q] = z
      BY <1>6, <2>1, <2>5
    <3>2. req[p].at = b /\ req[p].pc \in Running
      BY <1>5, <2>1, <3>1
    <3>3. req[p].run # z.run /\ (req[p].pc = "executing" => req[p].kernel # z.kernel)
      BY <2>3, <3>1, <3>2
    <3>4. QED
      BY <3>1, <3>3
  <2>6. QED
    BY <2>2, <2>4, <2>5
<1>13. BusyBenchHasItsRun'
  <2>1. SUFFICES ASSUME NEW a \in Benches, bench'[a].running # 0
                 PROVE  \E q \in Requests : /\ req'[q].pc \in Running
                                            /\ req'[q].at = a
                                            /\ req'[q].run = bench'[a].running
    BY DEF BusyBenchHasItsRun, Here, Running
  <2>2. CASE a = b
    BY <1>4, <1>5, <1>6, <2>2 DEF Running
  <2>3. CASE a # b
    <3>1. PICK q \in Requests : /\ req[q].pc \in Running /\ req[q].at = a
                                /\ req[q].run = bench[a].running
      BY <1>4, <2>1, <2>3 DEF KernelInv, BusyBenchHasItsRun, Here, Running
    <3>2. q # r
      BY <2>3, <3>1
    <3>3. QED
      BY <1>4, <1>6, <2>3, <3>1, <3>2
  <2>4. QED
    BY <2>2, <2>3
<1>14. \A a \in Benches : Sound(bench'[a])
  <2>1. Sound(y)
    BY <1>2, <1>3 DEF Sound
  <2>2. QED
    BY <1>4, <2>1 DEF KernelInv
<1>15. QED
  BY <1>8, <1>10, <1>11, <1>12, <1>13, <1>14 DEF KernelInv

LEMMA KernelUpKeeps ==
    ASSUME TypeOK, KernelInv, NEW r \in Requests, KernelUp(r)
    PROVE  TypeOK' /\ KernelInv'
<1>1. req[r].pc = "kernel" /\ req[r].pc \in BringsUp
  BY DEF KernelUp, BringsUp
<1>2. PICK b \in Benches, x \in BenchType :
              /\ b = req[r].at /\ b = Here(r) /\ lock[b] = r
              /\ Quiet(bench[b], x) /\ x.kernel # 0
              /\ x.held /\ x.waiting = bench[b].waiting
              /\ pod' = PodHeldBy(b) /\ hub' \in HubType
              /\ \A k \in hub'.kernels : k[2] # 0
              /\ upsets' \in Nat /\ UNCHANGED <<registered, made, reaper>>
              /\ \/ /\ req[r].op = "claim"
                    /\ bench' = [bench EXCEPT ![b] = Taken(x)]
                    /\ Unlock(b)
                    /\ req' = [req EXCEPT ![r] = [NewRequest EXCEPT
                                  !.pc = "executing", !.op = "claim", !.at = b,
                                  !.run = Taken(x).running, !.kernel = x.kernel]]
                 \/ /\ req[r].op # "claim"
                    /\ bench' = [bench EXCEPT ![b] = x]
                    /\ req' = [req EXCEPT ![r].pc = "status", ![r].attempt = 0]
                    /\ UNCHANGED lock
  BY KernelUpEffect
<1>3. pod' \in PodType
  BY <1>2, Before, PodHeldType
<1>4. CASE req[r].op = "claim"
  BY <1>1, <1>2, <1>3, <1>4, ClaimTakes
<1>5. CASE req[r].op # "claim"
  <2>1. bench' \in [Benches -> BenchType] /\ \A a \in Benches : Quiet(bench[a], bench'[a])
    BY <1>2, <1>5, OneBench
  <2>2. PICK w, y : /\ w \in ReqType
                    /\ w = req[r] /\ y = [w EXCEPT !.pc = "status", !.attempt = 0]
    BY Before
  <2>3. y \in ReqType /\ y.pc = "status" /\ y.op = w.op /\ y.at = w.at
    <3>1. "status" \in States /\ 0 \in 0..2
      BY DEF States
    <3>2. QED
      BY <2>2, <3>1 DEF ReqType
  <2>4. req' = [req EXCEPT ![r] = y]
    BY <1>2, <1>5, <2>2, Before
  <2>5. QED
    BY <1>1, <1>2, <1>3, <1>5, <2>1, <2>2, <2>3, <2>4, Before, BringUpKeeps
<1>6. QED
  BY <1>4, <1>5

-----------------------------------------------------------------------------
(* Reports, ends, cells, and what happens beside the requests.              *)

LEMMA StatusKeeps ==
    ASSUME TypeOK, KernelInv, NEW r \in Requests,
           CountKernels(r) \/ CountOne(r) \/ StatusAnswered(r)
    PROVE  TypeOK' /\ KernelInv'
<1>1. /\ req[r].pc \in {"status", "count"} /\ req[r].pc \notin Running
      /\ UNCHANGED <<registered, made, pod, bench, hub, reaper, upsets>>
  BY DEF CountKernels, CountOne, StatusAnswered, Running
<1>2. PICK w \in ReqType : w = req[r] /\ w.todo \in SUBSET Benches
  BY Before DEF ReqType
<1>3. w.at = NoBench \/ (w.at \in Benches /\ lock[w.at] = r)
  BY <1>1, <1>2, Before DEF Place, Here
<1>4. Registered \in SUBSET Benches
  BY Before, KernelAssumption DEF Registered, Benches
<1>5. CASE CountKernels(r) \/ CountOne(r)
  <2>1. PICK todo, y : /\ todo \in SUBSET Benches
                       /\ y = [w EXCEPT !.pc = "count", !.todo = todo]
                       /\ req' = [req EXCEPT ![r] = y]
    <3>1. CASE CountKernels(r)
      <4>1. PICK todo \in SUBSET Benches : todo = Registered \ {Here(r)}
        BY <1>4
      <4>2. req' = [req EXCEPT ![r].pc = "count", ![r].todo = todo]
        BY <3>1, <4>1 DEF CountKernels
      <4>3. QED
        BY <1>2, <4>2, Before
    <3>2. CASE CountOne(r)
      <4>1. PICK b \in w.todo : req' = [req EXCEPT ![r].todo = @ \ {b}]
        BY <1>2, <3>2 DEF CountOne
      <4>2. PICK todo \in SUBSET Benches : todo = w.todo \ {b}
        BY <1>2
      <4>3. [w EXCEPT !.todo = todo] = [w EXCEPT !.pc = "count", !.todo = todo]
        BY <1>2, <3>2 DEF CountOne, ReqType
      <4>4. QED
        BY <1>2, <4>1, <4>2, <4>3, Before
    <3>3. QED
      BY <1>5, <3>1, <3>2
  <2>2. y \in ReqType /\ y.pc = "count" /\ y.at = w.at
    <3>1. "count" \in States
      BY DEF States
    <3>2. QED
      BY <2>1, <3>1 DEF ReqType
  <2>3. /\ req' \in [Requests -> ReqType] /\ req'[r] = y
        /\ \A q \in Requests \ {r} : req'[q] = req[q]
    BY <2>1, <2>2, Before
  <2>4. UNCHANGED lock
    BY <1>5 DEF CountKernels, CountOne
  <2>5. Place(r)'
    BY <1>3, <2>2, <2>3, <2>4 DEF Place, Here, OnKernel, AtBench, BringsUp, Running
  <2>6. req'[r].pc \notin Running /\ req'[r].pc # "executing"
    BY <2>2, <2>3 DEF Running
  <2>7. QED
    BY <1>1, <2>3, <2>4, <2>5, <2>6, Before, RequestMoves
<1>6. CASE StatusAnswered(r)
  <2>1. /\ lock' \in [Benches -> Requests \union {Free}]
        /\ \A q \in Requests \ {r} : \A a \in Benches : lock[a] = q => lock'[a] = q
    <3>1. CASE UNCHANGED lock
      BY <3>1, Before
    <3>2. CASE Here(r) # NoBench /\ Unlock(Here(r))
      BY <1>2, <1>3, <3>2, Before, LockFreed DEF Here
    <3>3. QED
      BY <1>6, <3>1, <3>2 DEF StatusAnswered
  <2>2. Return(r)
    BY <1>6 DEF StatusAnswered
  <2>3. req'[r].pc \notin Running /\ req'[r].pc # "executing"
    BY <2>2, Returns DEF Running
  <2>4. QED
    BY <1>1, <2>1, <2>2, <2>3, Before, Returns, RequestMoves
<1>7. QED
  BY <1>5, <1>6

\* An end is a quiet step.
LEMMA EndKernelEffect ==
    ASSUME TypeOK, KernelInv, NEW r \in Requests, EndKernel(r)
    PROVE  \E b \in Benches :
              /\ b = req[r].at
              /\ \/ UNCHANGED <<bench, pod>>
                 \/ \E y \in BenchType :
                       /\ Quiet(bench[b], y) /\ ~y.held
                       /\ y.waiting = bench[b].waiting
                       /\ bench' = [bench EXCEPT ![b] = y]
                       /\ pod' = PodReleasedBy(b)
              /\ hub' \in HubType /\ \A k \in hub'.kernels : k[2] # 0
<1>1. PICK b \in Benches : b = Here(r) /\ b = req[r].at
  BY Before DEF EndKernel, Locks, Place, AtBench, States, Here
<1>2. CASE bench[b].kernel = 0
  BY <1>1, <1>2, Before DEF EndKernel
<1>3. CASE bench[b].kernel # 0
  <2>1. /\ bench' = [bench EXCEPT ![b] = [Dropped(bench[b]) EXCEPT !.held = FALSE]]
        /\ pod' = PodReleasedBy(b)
        /\ hub' = [hub EXCEPT !.kernels = hub.kernels \ {<<b, bench[b].kernel>>}]
    BY <1>1, <1>3 DEF EndKernel
  <2>2. PICK x, d, y : /\ x \in BenchType
                       /\ d \in BenchType
                       /\ x = bench[b] /\ d = Dropped(x) /\ y = [d EXCEPT !.held = FALSE]
                       /\ Quiet(x, d) /\ Counted(x, d)
    BY Before, DroppedFields, DroppedIsQuiet DEF KernelInv
  <2>3. /\ y \in BenchType /\ y.runs = d.runs /\ y.started = d.started
        /\ y.idle = d.idle /\ y.running = d.running /\ y.kernel = d.kernel
        /\ y.waiting = d.waiting /\ ~y.held
    BY <2>2 DEF BenchType
  <2>4. Quiet(bench[b], y) /\ y.waiting = bench[b].waiting
    BY <2>2, <2>3 DEF Quiet, Counted
  <2>5. hub' \in HubType /\ \A k \in hub'.kernels : k[2] # 0
    BY <2>1, Before DEF HubType
  <2>6. bench' = [bench EXCEPT ![b] = y]
    BY <2>1, <2>2
  <2>7. QED
    BY <1>1, <2>1, <2>3, <2>4, <2>5, <2>6
<1>4. QED
  BY <1>2, <1>3

LEMMA EndKernelKeeps ==
    ASSUME TypeOK, KernelInv, NEW r \in Requests, EndKernel(r)
    PROVE  TypeOK' /\ KernelInv'
<1>1. /\ req[r].pc = "lock" /\ req[r].pc \notin Running /\ Return(r)
      /\ UNCHANGED <<registered, made, lock, reaper, upsets>>
  BY DEF EndKernel, Locks, Running
<1>2. PICK b \in Benches :
         /\ b = req[r].at
         /\ \/ UNCHANGED <<bench, pod>>
            \/ \E y \in BenchType :
                  /\ Quiet(bench[b], y) /\ ~y.held
                  /\ y.waiting = bench[b].waiting
                  /\ bench' = [bench EXCEPT ![b] = y]
                  /\ pod' = PodReleasedBy(b)
         /\ hub' \in HubType /\ \A k \in hub'.kernels : k[2] # 0
  BY EndKernelEffect
<1>3. /\ bench' \in [Benches -> BenchType] /\ \A a \in Benches : Quiet(bench[a], bench'[a])
      /\ pod' \in PodType
  BY <1>2, Before, OneBench, PodHeldType
<1>4. req'[r].pc \notin Running /\ req'[r].pc # "executing"
  BY <1>1, Returns DEF Running
<1>5. QED
  BY <1>1, <1>2, <1>3, <1>4, Before, Returns, RequestMoves

LEMMA CellEndsKeeps ==
    ASSUME TypeOK, KernelInv, NEW r \in Requests, CellEnds(r)
    PROVE  TypeOK' /\ KernelInv'
<1>1. /\ req[r].pc = "executing" /\ req[r].pc \in Running
      /\ UNCHANGED <<registered, made, pod, bench, lock, hub, reaper, upsets>>
  BY DEF CellEnds, Running
<1>2. PICK w, y : /\ w \in ReqType
                  /\ w = req[r] /\ y = [w EXCEPT !.pc = "finishing", !.kernel = 0]
  BY Before
<1>3. y \in ReqType /\ y.pc = "finishing" /\ y.at = w.at /\ y.run = w.run
  <2>1. "finishing" \in States
    BY DEF States
  <2>2. QED
    BY <1>2, <2>1 DEF ReqType
<1>4. /\ req' \in [Requests -> ReqType] /\ req'[r] = y
      /\ \A q \in Requests \ {r} : req'[q] = req[q]
  BY <1>2, <1>3, Before DEF CellEnds
<1>5. w.at \in Benches /\ 0 < w.run /\ w.run <= bench[w.at].runs
  BY <1>1, <1>2, Before DEF Place, Here, AtBench, States
<1>6. Place(r)'
  BY <1>1, <1>3, <1>4, <1>5 DEF Place, Here, OnKernel, BringsUp, Running
<1>7. req'[r].pc \in Running /\ req'[r].pc # "executing"
  BY <1>3, <1>4 DEF Running
<1>8. QED
  BY <1>1, <1>2, <1>3, <1>4, <1>6, <1>7, Before, RequestMoves

\* A run that ends frees the bench if it is the bench's; no other cell is on its
\* kernel then.
LEMMA FinishRunKeeps ==
    ASSUME TypeOK, KernelInv, NEW r \in Requests, FinishRun(r)
    PROVE  TypeOK' /\ KernelInv'
<1>1. /\ req[r].pc = "finishing" /\ req[r].pc \in Running /\ Return(r)
      /\ UNCHANGED <<registered, made, pod, lock, hub, reaper, upsets>>
  BY DEF FinishRun, Running
<1>2. PICK b \in Benches : b = req[r].at /\ b = Here(r)
  BY <1>1, Before DEF Place, AtBench, States, Here
<1>3. PICK v \in BenchType, y \in BenchType :
         /\ v = bench[b] /\ bench' = [bench EXCEPT ![b] = y]
         /\ \/ y = v /\ v.running # req[r].run
            \/ /\ v.running = req[r].run /\ y.running = 0 /\ y.idle = 0
               /\ y.kernel = v.kernel /\ y.runs = v.runs /\ y.started = v.started
  <2>1. PICK v \in BenchType : v = bench[b]
    BY Before
  <2>2. CASE v.running = req[r].run
    <3>1. bench' = [bench EXCEPT ![b] = Freed(v)]
      BY <1>2, <2>1, <2>2 DEF FinishRun
    <3>2. QED
      BY <2>1, <2>2, <3>1, FreedFields
  <2>3. CASE v.running # req[r].run
    <3>1. bench' = bench
      BY <1>2, <2>1, <2>3 DEF FinishRun
    <3>2. bench = [bench EXCEPT ![b] = v]
      BY <2>1, Before
    <3>3. QED
      BY <2>1, <2>3, <3>1, <3>2
  <2>4. QED
    BY <2>2, <2>3
<1>4. /\ bench' \in [Benches -> BenchType] /\ bench'[b] = y
      /\ \A a \in Benches \ {b} : bench'[a] = bench[a]
  BY <1>3, Before
<1>5. /\ req' \in [Requests -> ReqType] /\ req'[r].pc = "done"
      /\ \A q \in Requests \ {r} : req'[q] = req[q]
      /\ Place(r)'
  BY <1>1, Returns
<1>6. TypeOK'
  BY <1>1, <1>4, <1>5, Before
     DEF TypeOK, BenchType, PodType, HubType, Ops, ReqType, ReaperType
<1>7. /\ v.runs \in Nat /\ v.running \in Nat /\ v.started \in Nat /\ Sound(v)
      /\ \A q \in Requests : req[q].run \in Nat /\ req[q].kernel \in Nat
  BY <1>3, Before DEF BenchType, ReqType, KernelInv
<1>8. \A a \in Benches : Sound(bench'[a])
  <2>1. Sound(y)
    BY <1>3, <1>7 DEF Sound
  <2>2. QED
    BY <1>4, <2>1 DEF KernelInv
<1>9. ASSUME NEW q \in Requests \ {r} PROVE Place(q)'
  <2>1. PICK w \in ReqType : w = req[q] /\ w = req'[q] /\ w.pc \in States
    BY <1>5, Before DEF ReqType
  <2>2. Place(q) /\ Here(q) = w.at
    BY <2>1, Before DEF Here
  <2>3. CASE w.at = b
    <3>1. w.pc = "executing" => y.kernel # w.kernel \/ y.running = w.run
      <4>1. CASE y = v
        BY <1>3, <2>1, <2>2, <2>3, <4>1 DEF Place, OnKernel
      <4>2. CASE w.pc = "executing" /\ v.running = req[r].run /\ y.kernel = v.kernel
        <5>1. w.run # req[r].run
          BY <1>1, <1>2, <1>9, <2>1, <2>2, <2>3, <4>2
             DEF KernelInv, RunsApart, Running
        <5>2. v.kernel = w.kernel => v.running = w.run
          BY <1>3, <2>1, <2>2, <2>3, <4>2 DEF Place, OnKernel
        <5>3. QED
          BY <4>2, <5>1, <5>2
      <4>3. QED
        BY <1>3, <4>1, <4>2
    <3>2. /\ y.runs = v.runs /\ y.started = v.started
          /\ y.running = v.running \/ y.running = 0
      BY <1>3
    <3>3. QED
      BY <1>1, <1>3, <1>4, <2>1, <2>2, <2>3, <3>1, <3>2 DEF Place, Here, OnKernel
  <2>4. CASE w.at \in Benches \ {b}
    <3>1. bench'[w.at] = bench[w.at]
      BY <1>4, <2>4
    <3>2. QED
      BY <1>1, <2>1, <2>2, <2>4, <3>1 DEF Place, Here, OnKernel
  <2>5. CASE w.at \notin Benches
    <3>1. w.pc \notin AtBench
      BY <2>2, <2>5, <2>1 DEF Place
    <3>2. w.pc \notin BringsUp \union Running \union {"enqueue", "queued", "executing"}
      BY <3>1 DEF AtBench, States, BringsUp, Running
    <3>3. w.pc \in {"status", "count"} => w.at = NoBench
      BY <2>1, <2>2, <2>5 DEF Place
    <3>4. QED
      BY <2>1, <3>1, <3>2, <3>3 DEF Place, Here, OnKernel
  <2>6. QED
    BY <2>3, <2>4, <2>5
<1>10. RunsApart'
  <2>1. req'[r].pc \notin Running /\ req'[r].pc # "executing"
    BY <1>5 DEF Running
  <2>2. QED
    BY <1>5, <2>1 DEF KernelInv, RunsApart, Here, OnKernel
<1>11. BusyBenchHasItsRun'
  <2>1. SUFFICES ASSUME NEW a \in Benches, bench'[a].running # 0
                 PROVE  \E q \in Requests : /\ req'[q].pc \in Running
                                            /\ req'[q].at = a
                                            /\ req'[q].run = bench'[a].running
    BY DEF BusyBenchHasItsRun, Here, Running
  <2>2. bench'[a] = bench[a] /\ (a = b => v.running # req[r].run)
    BY <1>3, <1>4, <2>1
  <2>3. PICK q \in Requests : /\ req[q].pc \in Running /\ req[q].at = a
                              /\ req[q].run = bench[a].running
    BY <2>1, <2>2 DEF KernelInv, BusyBenchHasItsRun, Here, Running
  <2>4. q # r
    BY <1>2, <1>3, <2>2, <2>3
  <2>5. QED
    BY <1>5, <2>2, <2>3, <2>4
<1>12. \A k \in hub'.kernels : k[2] # 0
  BY <1>1, Before
<1>13. QED
  BY <1>5, <1>6, <1>8, <1>9, <1>10, <1>11, <1>12 DEF KernelInv

\* Steps that are no request's.
LEMMA WorldMoves ==
    ASSUME TypeOK, KernelInv, registered' \in [Workbenches -> 0..(MaxSweeps + 1)],
           pod' \in PodType, bench' \in [Benches -> BenchType], hub' \in HubType,
           reaper' \in ReaperType, upsets' \in Nat, UNCHANGED <<made, lock, req>>,
           \A b \in Benches : Quiet(bench[b], bench'[b]),
           \A k \in hub'.kernels : k[2] # 0
    PROVE  TypeOK' /\ KernelInv'
<1>1. KernelInv'
  <2>1. PICK R \in SUBSET Requests : R = {}
    OBVIOUS
  <2>2. QED
    BY <2>1, QuietStep
<1>2. TypeOK'
  BY Before DEF TypeOK, BenchType, PodType, HubType, Ops, ReqType, ReaperType
<1>3. QED
  BY <1>1, <1>2

\* A release is a quiet step.
LEMMA ReleaseEffect ==
    ASSUME TypeOK, KernelInv, NEW b \in Benches, Release(b)
    PROVE  \E y \in BenchType :
              /\ Quiet(bench[b], y) /\ ~y.held /\ y.waiting = bench[b].waiting
              /\ bench' = [bench EXCEPT ![b] = y]
<1>1. PICK x, y : x \in BenchType /\ x = bench[b] /\ y = [x EXCEPT !.socket = "none",
                                                              !.held = FALSE]
  BY Before
<1>2. /\ y \in BenchType /\ y.runs = x.runs /\ y.started = x.started
      /\ y.idle = x.idle /\ y.running = x.running /\ y.kernel = x.kernel
      /\ y.waiting = x.waiting /\ ~y.held
  BY <1>1 DEF BenchType
<1>3. Quiet(x, y)
  BY <1>1, <1>2, Before DEF Quiet
<1>4. bench' = [bench EXCEPT ![b] = y]
  BY <1>1, Before DEF Release
<1>5. QED
  BY <1>1, <1>2, <1>3, <1>4

LEMMA BrokenIsQuiet ==
    ASSUME TypeOK, KernelInv, NEW lost, bench' = Broken(lost)
    PROVE  /\ bench' \in [Benches -> BenchType]
           /\ \A b \in Benches : Quiet(bench[b], bench'[b]) /\ Counted(bench[b], bench'[b])
<1>1. ASSUME NEW b \in Benches
      PROVE  /\ bench'[b] \in BenchType
             /\ Quiet(bench[b], bench'[b]) /\ Counted(bench[b], bench'[b])
  <2>1. PICK x, y : x \in BenchType /\ x = bench[b] /\ y = [x EXCEPT !.socket = "closed"]
    BY Before
  <2>2. /\ y \in BenchType /\ y.runs = x.runs /\ y.started = x.started
        /\ y.idle = x.idle /\ y.running = x.running /\ y.kernel = x.kernel
        /\ y.waiting = x.waiting /\ y.held = x.held
    BY <2>1 DEF BenchType
  <2>3. Quiet(x, y) /\ Counted(x, y)
    BY <2>1, <2>2, Before DEF Quiet, Counted
  <2>4. bench'[b] = x \/ bench'[b] = y
    BY <2>1 DEF Broken
  <2>5. QED
    BY <2>1, <2>2, <2>3, <2>4, AllQuiet
<1>2. QED
  BY <1>1 DEF Broken

LEMMA WorldKeeps ==
    ASSUME TypeOK, KernelInv, Sweep \/ ReaperStep \/ Cull \/ Lose
    PROVE  TypeOK' /\ KernelInv'
<1>1. Registered \in SUBSET Benches /\ reaper \in ReaperType
  BY Before, KernelAssumption DEF Registered, Benches
<1>2. CASE Sweep
  <2>1. reaper' \in ReaperType
    <3>1. PICK n \in Nat : n = reaper.sweeps + 1
      BY <1>1 DEF ReaperType
    <3>2. PICK todo \in SUBSET Benches : todo = Registered
      BY <1>1
    <3>3. reaper' = [reaper EXCEPT !.pc = "walk", !.todo = todo, !.sweeps = n]
      BY <1>2, <3>1, <3>2 DEF Sweep
    <3>4. QED
      BY <1>1, <3>3 DEF ReaperType
  <2>2. upsets' \in Nat
    BY <1>2, Before, UpsetType DEF Sweep
  <2>3. QED
    BY <1>2, <2>1, <2>2, Before, WorldMoves DEF Sweep
<1>3. ASSUME NEW b \in Benches, Release(b) PROVE TypeOK' /\ KernelInv'
  <2>1. PICK y \in BenchType :
              /\ Quiet(bench[b], y) /\ ~y.held /\ y.waiting = bench[b].waiting
              /\ bench' = [bench EXCEPT ![b] = y]
    BY <1>3, ReleaseEffect
  <2>2. bench' \in [Benches -> BenchType] /\ \A a \in Benches : Quiet(bench[a], bench'[a])
    BY <2>1, OneBench
  <2>3. pod' \in PodType
    BY <1>3, Before, PodHeldType DEF Release
  <2>4. reaper' \in ReaperType
    <3>1. reaper' = [reaper EXCEPT !.pc = "forget", !.todo = @ \ {b}, !.at = b]
      BY <1>3 DEF Release
    <3>2. QED
      BY <1>1, <3>1 DEF ReaperType
  <2>5. QED
    BY <1>3, <2>2, <2>3, <2>4, Before, WorldMoves DEF Release
<1>4. CASE Forget \/ SweepEnds
  <2>1. reaper' \in ReaperType
    BY <1>1, <1>4 DEF Forget, SweepEnds, ReaperType
  <2>2. registered' \in [Workbenches -> 0..(MaxSweeps + 1)]
    BY <1>4, Before, KernelAssumption DEF Forget, SweepEnds
  <2>3. QED
    BY <1>4, <2>1, <2>2, Before, WorldMoves DEF Forget, SweepEnds
<1>5. CASE Cull
  <2>1. hub' \in HubType /\ \A k \in hub'.kernels : k[2] # 0
    <3>1. PICK n \in Nat : n = hub.culls + 1
      BY Before DEF HubType
    <3>2. hub' = [ready |-> FALSE, kernels |-> {}, culls |-> n]
      BY <1>5, <3>1 DEF Cull
    <3>3. QED
      BY <3>2 DEF HubType
  <2>2. upsets' \in Nat
    BY <1>5, Before, UpsetType DEF Cull
  <2>3. bench' \in [Benches -> BenchType] /\ \A b \in Benches : Quiet(bench[b], bench'[b])
    BY <1>5, BrokenIsQuiet DEF Cull
  <2>4. QED
    BY <1>5, <2>1, <2>2, <2>3, Before, WorldMoves DEF Cull
<1>6. CASE Lose
  <2>1. PICK b \in Benches :
           /\ bench' = Broken({b})
           /\ hub' = hub \/ hub' = [hub EXCEPT !.kernels = @ \ {<<b, bench[b].kernel>>}]
    BY <1>6 DEF Lose
  <2>2. hub' \in HubType /\ \A k \in hub'.kernels : k[2] # 0
    BY <2>1, Before DEF HubType
  <2>3. upsets' \in Nat
    BY <1>6, Before, UpsetType DEF Lose
  <2>4. bench' \in [Benches -> BenchType] /\ \A a \in Benches : Quiet(bench[a], bench'[a])
    BY <2>1, BrokenIsQuiet
  <2>5. QED
    BY <1>6, <2>2, <2>3, <2>4, Before, WorldMoves DEF Lose
<1>7. QED
  BY <1>2, <1>3, <1>4, <1>5, <1>6 DEF ReaperStep

-----------------------------------------------------------------------------
(* The invariant.                                                           *)

LEMMA StartIsSound == ASSUME Init PROVE TypeOK /\ KernelInv
<1>1. NewBench \in BenchType /\ Sound(NewBench) /\ NewBench.running = 0
  BY DEF NewBench, BenchType, Sound
<1>2. /\ bench = [b \in Benches |-> NewBench] /\ req = [r \in Requests |-> NewRequest]
      /\ hub = [ready |-> FALSE, kernels |-> {}, culls |-> 0]
      /\ registered = [w \in Workbenches |-> 0] /\ made = [w \in Workbenches |-> 0]
      /\ pod = [remembered |-> FALSE, generation |-> 0, live |-> 0, keepalive |-> FALSE]
      /\ lock = [b \in Benches |-> Free]
      /\ reaper = [pc |-> "idle", sweeps |-> 0, todo |-> {}, at |-> NoBench]
      /\ upsets = 0
  BY DEF Init
<1>3. TypeOK
  <2>1. /\ hub \in HubType /\ pod \in PodType /\ reaper \in ReaperType /\ upsets \in Nat
    BY <1>2 DEF HubType, PodType, ReaperType
  <2>2. bench \in [Benches -> BenchType] /\ req \in [Requests -> ReqType]
    BY <1>1, <1>2, FreshRequests
  <2>3. /\ registered \in [Workbenches -> 0..(MaxSweeps + 1)]
        /\ made \in [Workbenches -> 0..(MaxSweeps + 1)]
        /\ lock \in [Benches -> Requests \union {Free}]
    BY <1>2, KernelAssumption
  <2>4. QED
    BY <2>1, <2>2, <2>3, TypesUnfold
<1>4. \A r \in Requests : req[r].pc = "new"
  BY <1>2, FreshRequests
<1>5. \A r \in Requests : Place(r)
  BY <1>4 DEF Place, OnKernel, AtBench, BringsUp, Running
<1>6. RunsApart
  BY <1>4 DEF RunsApart, OnKernel, Running
<1>7. BusyBenchHasItsRun
  BY <1>1, <1>2 DEF BusyBenchHasItsRun
<1>8. QED
  BY <1>1, <1>2, <1>3, <1>5, <1>6, <1>7 DEF KernelInv

LEMMA StepIsSound ==
    ASSUME TypeOK, KernelInv, [Next]_vars PROVE TypeOK' /\ KernelInv'
<1>1. CASE Arrive
  <2>1. /\ {"claim", "ensure", "restart", "status", "shutdown"} \subseteq Ops
        /\ \A r \in Requests : Names[r] \subseteq Workbenches
        /\ Claimers \union Reporters \union Enders = Requests
    BY RequestAssumption DEF Ops, Requests
  <2>2. QED
    BY <1>1, <2>1, FindKeeps, LookUpKeeps DEF Arrive, AskForKernel, AskForStatus
<1>2. ASSUME NEW r \in Requests, RequestStep(r) PROVE TypeOK' /\ KernelInv'
  BY <1>2, LocksKeep, QueueKeeps, PodStepsKeep, KernelUpKeeps, KernelMissedKeeps,
     StatusKeeps, EndKernelKeeps, CellEndsKeeps, FinishRunKeeps
     DEF RequestStep, EnsureStep, ClaimStep, StatusStep
<1>3. CASE Sweep \/ ReaperStep \/ Cull \/ Lose
  BY <1>3, WorldKeeps
<1>4. CASE UNCHANGED vars
  BY <1>4, Before, WorldMoves DEF vars
<1>5. QED
  BY <1>1, <1>2, <1>3, <1>4 DEF Next

\* Every variable keeps its type.
THEOREM TypeCorrect == Spec => []TypeOK
<1>1. TypeOK /\ KernelInv /\ [Next]_vars => (TypeOK /\ KernelInv)'
  BY StepIsSound
<1>2. Init => TypeOK /\ KernelInv
  BY StartIsSound
<1>3. QED
  BY <1>1, <1>2, PTL DEF Spec

\* A run, its bench and its kernel belong together; who has the lock has it alone.
THEOREM KernelInvariant == Spec => []KernelInv
<1>1. TypeOK /\ KernelInv /\ [Next]_vars => (TypeOK /\ KernelInv)'
  BY StepIsSound
<1>2. Init => TypeOK /\ KernelInv
  BY StartIsSound
<1>3. QED
  BY <1>1, <1>2, PTL DEF Spec

\* A kernel executes one run at a time, and it is the run its bench is busy with.
THEOREM RunsAreAlone == Spec => []OneRunPerKernel
<1>1. KernelInv => OneRunPerKernel
  BY DEF KernelInv, Place, RunsApart, OneRunPerKernel
<1>2. QED
  BY <1>1, KernelInvariant, PTL

\* Nobody in the queue waits on the channel of a kernel that is free.
LEMMA WaitersAreWoken == TypeOK /\ KernelInv => WaitersHearTheRelease
<1>1. SUFFICES ASSUME TypeOK, KernelInv, NEW r \in Requests,
                      req[r].pc \in {"enqueue", "queued"},
                      bench[Here(r)].idle = req[r].idle
               PROVE  bench[Here(r)].running = req[r].idle /\ req[r].idle # 0
  BY DEF WaitersHearTheRelease
<1>2. Here(r) \in Benches /\ req[r].idle # 0
  BY <1>1 DEF KernelInv, Place, AtBench, States
<1>3. Sound(bench[Here(r)])
  BY <1>1, <1>2 DEF KernelInv
<1>4. QED
  BY <1>1, <1>2, <1>3 DEF Sound

\* A kernel that was taken is freed by the run that has it, and nobody who queues for it
\* is left to the timer when it is, whatever restarts, respawns, shutdowns, lost servers
\* and sweeps come between (run, workspaceCall, takeLocked, freeLocked).
THEOREM TakenKernelsAreFreed == Spec => []TakenKernelsComeFree
<1>1. TypeOK /\ KernelInv => TakenKernelsComeFree
  BY WaitersAreWoken DEF KernelInv, TakenKernelsComeFree
<1>2. QED
  BY <1>1, TypeCorrect, KernelInvariant, PTL

-----------------------------------------------------------------------------
(* The counts.                                                              *)

InQueue(b) == {r \in Requests : Here(r) = b /\ req[r].pc \in {"queued", "dequeue"}}

Holders == {b \in Benches : bench[b].held}

QueueInv == \A b \in Benches : /\ IsFiniteSet(InQueue(b))
                               /\ bench[b].waiting = Cardinality(InQueue(b))

HoldInv == /\ IsFiniteSet(Holders)
           /\ pod.live = Cardinality(Holders)
           /\ pod.keepalive <=> Holders # {}

\* The steps that count nobody.
Uncounted(r) ==
    \/ ClaimFree(r) \/ ClaimBusy(r) \/ Woken(r) \/ GiveUp(r) \/ EnsureLocks(r)
    \/ RestartLocks(r) \/ StatusLocks(r) \/ ReachPod(r) \/ MissPod(r) \/ KernelMissed(r)
    \/ NotGone(r) \/ HearGone(r) \/ DropServer(r) \/ CountKernels(r) \/ CountOne(r)
    \/ StatusAnswered(r) \/ CellEnds(r) \/ FinishRun(r)

LEMMA UncountedKeep ==
    ASSUME TypeOK, KernelInv, NEW r \in Requests, Uncounted(r)
    PROVE  /\ \A b \in Benches : Counted(bench[b], bench'[b])
           /\ pod'.live = pod.live /\ pod'.keepalive = pod.keepalive
<1>1. ASSUME NEW b \in Benches, NEW y, Counted(bench[b], y),
             bench' = [bench EXCEPT ![b] = y]
      PROVE  \A a \in Benches : Counted(bench[a], bench'[a])
  BY <1>1, Before, AllQuiet
<1>2. CASE UNCHANGED <<bench, pod>>
  BY <1>2, AllQuiet
<1>3. \A b \in Benches : Counted(bench[b], Dropped(bench[b]))
  BY Before, DroppedFields DEF Counted
<1>4. CASE RestartLocks(r)
  <2>1. PICK b \in Benches : b = Here(r)
    BY <1>4, Before DEF RestartLocks, Locks, Place, AtBench, States
  <2>2. bench' = [bench EXCEPT ![b] = Dropped(bench[b])] /\ UNCHANGED pod
    BY <1>4, <2>1 DEF RestartLocks, ShutDown
  <2>3. QED
    BY <1>1, <1>3, <2>2
<1>5. CASE ReachPod(r)
  <2>1. PICK b \in Benches : b = Here(r)
    BY <1>5, Holds DEF ReachPod, BringsUp
  <2>2. pod'.live = pod.live /\ pod'.keepalive = pod.keepalive
    BY <1>5, Before DEF ReachPod, PodType
  <2>3. PICK d, y : /\ d \in BenchType
                    /\ d = Dropped(bench[b])
                    /\ y = [d EXCEPT !.generation = pod.generation]
    BY Before, DroppedFields
  <2>4. Counted(bench[b], y)
    <3>1. y.held = d.held /\ y.waiting = d.waiting
      BY <2>3 DEF BenchType
    <3>2. QED
      BY <1>3, <2>3, <3>1 DEF Counted
  <2>5. bench' = bench \/ bench' = [bench EXCEPT ![b] = y]
    BY <1>5, <2>1, <2>3, Before DEF ReachPod
  <2>6. QED
    BY <1>1, <2>2, <2>4, <2>5, AllQuiet
<1>6. CASE MissPod(r)
  BY <1>6, Before, AllQuiet DEF MissPod, PodType
<1>7. CASE KernelMissed(r)
  <2>1. PICK b \in Benches : b = Here(r)
    BY <1>7, Holds DEF KernelMissed, BringsUp
  <2>2. PICK moved \in BOOLEAN, stage \in {"create", "dial", "push"} :
           bench' = [bench EXCEPT ![b] = KernelAfter(b, stage, moved)] /\ UNCHANGED pod
    BY <1>7, <2>1 DEF KernelMissed, Stages
  <2>3. QED
    BY <1>1, <2>2, KernelAfterFields
<1>8. CASE DropServer(r)
  BY <1>8, Before, AllQuiet DEF DropServer, PodType
<1>9. CASE FinishRun(r)
  <2>1. PICK b \in Benches : b = Here(r)
    BY <1>9, Before DEF FinishRun, Place, AtBench, States
  <2>2. /\ bench' = bench \/ bench' = [bench EXCEPT ![b] = Freed(bench[b])]
        /\ UNCHANGED pod
    BY <1>9, <2>1 DEF FinishRun
  <2>3. Counted(bench[b], Freed(bench[b]))
    BY Before, FreedFields DEF Counted
  <2>4. QED
    BY <1>1, <2>2, <2>3, AllQuiet
<1>10. QED
  BY <1>2, <1>4, <1>5, <1>6, <1>7, <1>8, <1>9
     DEF Uncounted, ClaimFree, ClaimBusy, Woken, GiveUp, EnsureLocks, StatusLocks,
         NotGone, HearGone, CountKernels, CountOne, StatusAnswered, CellEnds

\* R are the requests that move.
LEMMA QueueStays ==
    ASSUME QueueInv, NEW R \in SUBSET Requests,
           \A b \in Benches : bench'[b].waiting = bench[b].waiting,
           \A q \in Requests \ R : req'[q] = req[q],
           \A r \in R : /\ req[r].pc \in {"queued", "dequeue"}
                              <=> req'[r].pc \in {"queued", "dequeue"}
                        /\ req[r].pc \in {"queued", "dequeue"} => req'[r].at = req[r].at
    PROVE  QueueInv'
<1>1. \A b \in Benches : InQueue(b)' = InQueue(b)
  BY DEF InQueue, Here
<1>2. QED
  BY <1>1 DEF QueueInv

LEMMA HoldStays ==
    ASSUME HoldInv, \A b \in Benches : bench'[b].held = bench[b].held,
           pod'.live = pod.live, pod'.keepalive = pod.keepalive
    PROVE  HoldInv'
<1>1. Holders' = Holders
  BY DEF Holders
<1>2. QED
  BY <1>1 DEF HoldInv

LEMMA MissesLeave ==
    ASSUME TypeOK, NEW r \in Requests, NEW remembered, Misses(r, remembered)
    PROVE  /\ \A q \in Requests \ {r} : req'[q] = req[q]
           /\ req'[r].pc \in {"ask", "done"}
<1>1. "ask" \in States
  BY DEF States
<1>2. QED
  BY <1>1, GoesTo, Returns DEF Misses

\* Where a request that is not counted goes.
LEMMA UncountedMove ==
    ASSUME TypeOK, KernelInv, NEW r \in Requests, Uncounted(r)
    PROVE  /\ \A q \in Requests \ {r} : req'[q] = req[q]
           /\ req[r].pc \in {"queued", "dequeue"}
                 <=> req'[r].pc \in {"queued", "dequeue"}
           /\ req[r].pc \in {"queued", "dequeue"} => req'[r].at = req[r].at
<1>1. req \in [Requests -> ReqType] /\ {"kernel", "drop", "ask"} \subseteq States
  BY Before DEF States
<1>2. CASE ClaimFree(r) \/ EnsureLocks(r) \/ StatusLocks(r) \/ RestartLocks(r)
  <2>1. PICK label, attempt : /\ label \in {"pod", "status"}
                              /\ Takes(r, label, attempt) /\ req[r].pc = "lock"
    BY <1>2 DEF ClaimFree, EnsureLocks, StatusLocks, RestartLocks, Locks
  <2>2. req' = [req EXCEPT ![r].pc = label, ![r].attempt = attempt, ![r].patient = FALSE]
    BY <2>1 DEF Takes
  <2>3. QED
    BY <1>1, <2>1, <2>2 DEF ReqType
<1>3. CASE ClaimBusy(r)
  <2>1. req[r].pc = "lock"
    BY <1>3 DEF ClaimBusy, Locks
  <2>2. CASE Return(r)
    BY <2>1, <2>2, Returns
  <2>3. CASE req' = [req EXCEPT ![r].pc = "enqueue", ![r].idle = bench[Here(r)].idle]
    BY <1>1, <2>1, <2>3 DEF ReqType
  <2>4. QED
    BY <1>3, <2>2, <2>3 DEF ClaimBusy
<1>4. CASE Woken(r) \/ GiveUp(r)
  <2>1. req[r].pc = "queued"
    BY <1>4 DEF Woken, GiveUp
  <2>2. CASE Woken(r)
    <3>1. PICK patient \in BOOLEAN :
             req' = [req EXCEPT ![r].pc = "dequeue", ![r].back = "lock",
                                ![r].patient = patient, ![r].idle = 0]
      BY <2>2 DEF Woken
    <3>2. QED
      BY <1>1, <2>1, <3>1 DEF ReqType
  <2>3. CASE GiveUp(r)
    BY <1>1, <2>1, <2>3 DEF GiveUp, ReqType
  <2>4. QED
    BY <1>4, <2>2, <2>3
<1>5. CASE ReachPod(r) \/ HearGone(r)
  BY <1>1, <1>5, GoesTo DEF ReachPod, HearGone
<1>6. CASE MissPod(r) \/ KernelMissed(r)
  BY <1>6, MissesLeave DEF MissPod, KernelMissed
<1>7. CASE NotGone(r) \/ StatusAnswered(r) \/ FinishRun(r)
  BY <1>7, Returns DEF NotGone, StatusAnswered, FinishRun
<1>8. CASE DropServer(r)
  BY <1>1, <1>8 DEF DropServer, ReqType
<1>9. CASE CountKernels(r)
  BY <1>1, <1>9 DEF CountKernels, ReqType
<1>10. CASE CountOne(r)
  BY <1>1, <1>10 DEF CountOne, ReqType
<1>11. CASE CellEnds(r)
  BY <1>1, <1>11 DEF CellEnds, ReqType
<1>12. QED
  BY <1>2, <1>3, <1>4, <1>5, <1>6, <1>7, <1>8, <1>9, <1>10, <1>11 DEF Uncounted

\* The two steps that count a waiter.
LEMMA QueueCounts ==
    ASSUME TypeOK, KernelInv, QueueInv, HoldInv, NEW r \in Requests,
           Enqueue(r) \/ Dequeue(r)
    PROVE  QueueInv' /\ HoldInv'
<1>1. req \in [Requests -> ReqType] /\ bench \in [Benches -> BenchType]
  BY Before
<1>2. PICK b \in Benches : b = Here(r) /\ b = req[r].at
  BY Before DEF Enqueue, Dequeue, Place, AtBench, States, Here
<1>3. ASSUME NEW n \in Int, bench' = [bench EXCEPT ![b].waiting = n]
      PROVE  /\ bench'[b].waiting = n
             /\ \A a \in Benches \ {b} : bench'[a].waiting = bench[a].waiting
             /\ \A a \in Benches : bench'[a].held = bench[a].held
  BY <1>1, <1>3 DEF BenchType
<1>4. \A a \in Benches : bench[a].waiting \in Int
  BY <1>1 DEF BenchType
<1>5. CASE Enqueue(r)
  <2>1. /\ bench' = [bench EXCEPT ![b].waiting = bench[b].waiting + 1]
        /\ Goto(r, "queued") /\ req[r].pc = "enqueue" /\ UNCHANGED pod
    BY <1>2, <1>5 DEF Enqueue
  <2>2. bench[b].waiting + 1 \in Int
    BY <1>4
  <2>3. /\ bench'[b].waiting = bench[b].waiting + 1
        /\ \A a \in Benches \ {b} : bench'[a].waiting = bench[a].waiting
        /\ \A a \in Benches : bench'[a].held = bench[a].held
    BY <1>3, <2>1, <2>2
  <2>4. "queued" \in States
    BY DEF States
  <2>5. /\ req'[r].pc = "queued" /\ req'[r].at = b
        /\ \A q \in Requests \ {r} : req'[q] = req[q]
    BY <1>2, <2>1, <2>4, GoesTo
  <2>6. /\ InQueue(b)' = InQueue(b) \union {r} /\ r \notin InQueue(b)
        /\ \A a \in Benches \ {b} : InQueue(a)' = InQueue(a)
    BY <1>2, <2>1, <2>5 DEF InQueue, Here
  <2>7. /\ IsFiniteSet(InQueue(b)') /\ Cardinality(InQueue(b)') = Cardinality(InQueue(b)) + 1
    BY <2>6, FS_AddElement DEF QueueInv
  <2>8. QueueInv'
    BY <2>3, <2>6, <2>7 DEF QueueInv
  <2>9. QED
    BY <2>1, <2>3, <2>8, HoldStays
<1>6. CASE Dequeue(r)
  <2>1. /\ bench' = [bench EXCEPT ![b].waiting = bench[b].waiting - 1]
        /\ req[r].pc = "dequeue" /\ UNCHANGED pod
    BY <1>2, <1>6 DEF Dequeue
  <2>2. bench[b].waiting - 1 \in Int
    BY <1>4
  <2>3. /\ bench'[b].waiting = bench[b].waiting - 1
        /\ \A a \in Benches \ {b} : bench'[a].waiting = bench[a].waiting
        /\ \A a \in Benches : bench'[a].held = bench[a].held
    BY <1>3, <2>1, <2>2
  <2>4. /\ req'[r].pc \notin {"queued", "dequeue"}
        /\ \A q \in Requests \ {r} : req'[q] = req[q]
    <3>1. CASE Return(r)
      BY <3>1, Returns
    <3>2. CASE req' = [req EXCEPT ![r].pc = "lock", ![r].back = "none"]
      BY <1>1, <3>2 DEF ReqType
    <3>3. QED
      BY <1>6, <3>1, <3>2 DEF Dequeue
  <2>5. /\ InQueue(b)' = InQueue(b) \ {r} /\ r \in InQueue(b)
        /\ \A a \in Benches \ {b} : InQueue(a)' = InQueue(a)
    BY <1>2, <2>1, <2>4 DEF InQueue, Here
  <2>6. /\ IsFiniteSet(InQueue(b)') /\ Cardinality(InQueue(b)') = Cardinality(InQueue(b)) - 1
    BY <2>5, FS_RemoveElement DEF QueueInv
  <2>7. QueueInv'
    BY <2>3, <2>5, <2>6 DEF QueueInv
  <2>8. QED
    BY <2>1, <2>3, <2>7, HoldStays
<1>7. QED
  BY <1>5, <1>6

\* A hold is taken once and given up once.
LEMMA HoldTaken ==
    ASSUME TypeOK, HoldInv, NEW b \in Benches, NEW y \in BenchType, y.held,
           bench' = [bench EXCEPT ![b] = y], pod' = PodHeldBy(b)
    PROVE  HoldInv'
<1>1. /\ bench \in [Benches -> BenchType] /\ pod \in PodType /\ pod.live \in Nat
  BY TypesUnfold DEF PodType
<1>2. Holders' = Holders \union {b}
  BY <1>1 DEF Holders
<1>3. CASE bench[b].held
  <2>1. pod' = pod /\ Holders' = Holders
    BY <1>2, <1>3 DEF PodHeldBy, Holders
  <2>2. QED
    BY <2>1 DEF HoldInv
<1>4. CASE ~bench[b].held
  <2>1. b \notin Holders
    BY <1>4 DEF Holders
  <2>2. /\ pod'.live = pod.live + 1
        /\ pod'.keepalive <=> (pod.keepalive \/ pod.live = 0)
    BY <1>1, <1>4 DEF PodHeldBy, PodType
  <2>3. IsFiniteSet(Holders') /\ Cardinality(Holders') = Cardinality(Holders) + 1
    BY <1>2, <2>1, FS_AddElement DEF HoldInv
  <2>4. pod.live = 0 <=> Holders = {}
    BY FS_EmptySet DEF HoldInv
  <2>5. QED
    BY <1>2, <2>2, <2>3, <2>4 DEF HoldInv
<1>5. QED
  BY <1>3, <1>4

LEMMA HoldGivenUp ==
    ASSUME TypeOK, HoldInv, NEW b \in Benches, NEW y \in BenchType, ~y.held,
           bench' = [bench EXCEPT ![b] = y], pod' = PodReleasedBy(b)
    PROVE  HoldInv'
<1>1. /\ bench \in [Benches -> BenchType] /\ pod \in PodType /\ pod.live \in Nat
  BY TypesUnfold DEF PodType
<1>2. Holders' = Holders \ {b}
  BY <1>1 DEF Holders
<1>3. CASE ~bench[b].held
  <2>1. pod' = pod /\ Holders' = Holders
    BY <1>2, <1>3 DEF PodReleasedBy, Holders
  <2>2. QED
    BY <2>1 DEF HoldInv
<1>4. CASE bench[b].held
  <2>1. b \in Holders
    BY <1>4 DEF Holders
  <2>2. IsFiniteSet(Holders') /\ Cardinality(Holders') = Cardinality(Holders) - 1
    BY <1>2, <2>1, FS_RemoveElement DEF HoldInv
  <2>3. pod.live > 0
    BY <1>1, <2>1, FS_EmptySet DEF HoldInv
  <2>4. PICK n \in Nat : n = pod.live - 1
    BY <1>1, <2>3
  <2>5. pod' = [pod EXCEPT !.live = n, !.keepalive = @ /\ n # 0]
    BY <1>1, <1>4, <2>3, <2>4 DEF PodReleasedBy
  <2>6. pod'.live = n /\ (pod'.keepalive <=> pod.keepalive /\ n # 0)
    BY <1>1, <2>5 DEF PodType
  <2>7. n = Cardinality(Holders') /\ (n = 0 <=> Holders' = {})
    BY <2>2, <2>4, FS_EmptySet DEF HoldInv
  <2>8. pod.keepalive
    BY <2>1 DEF HoldInv
  <2>9. QED
    BY <2>2, <2>6, <2>7, <2>8 DEF HoldInv
<1>5. QED
  BY <1>3, <1>4

LEMMA HoldCounts ==
    ASSUME TypeOK, KernelInv, QueueInv, HoldInv, NEW r \in Requests,
           KernelUp(r) \/ EndKernel(r)
    PROVE  QueueInv' /\ HoldInv'
<1>1. CASE KernelUp(r)
  <2>1. PICK b \in Benches, x \in BenchType :
              /\ b = req[r].at /\ b = Here(r) /\ lock[b] = r
              /\ Quiet(bench[b], x) /\ x.kernel # 0
              /\ x.held /\ x.waiting = bench[b].waiting
              /\ pod' = PodHeldBy(b) /\ hub' \in HubType
              /\ \A k \in hub'.kernels : k[2] # 0
              /\ upsets' \in Nat /\ UNCHANGED <<registered, made, reaper>>
              /\ \/ /\ req[r].op = "claim"
                    /\ bench' = [bench EXCEPT ![b] = Taken(x)]
                    /\ Unlock(b)
                    /\ req' = [req EXCEPT ![r] = [NewRequest EXCEPT
                                  !.pc = "executing", !.op = "claim", !.at = b,
                                  !.run = Taken(x).running, !.kernel = x.kernel]]
                 \/ /\ req[r].op # "claim"
                    /\ bench' = [bench EXCEPT ![b] = x]
                    /\ req' = [req EXCEPT ![r].pc = "status", ![r].attempt = 0]
                    /\ UNCHANGED lock
    BY <1>1, KernelUpEffect
  <2>2. PICK y \in BenchType : y.held /\ y.waiting = bench[b].waiting
                               /\ bench' = [bench EXCEPT ![b] = y]
    BY <2>1, TakenFields
  <2>3. HoldInv'
    BY <2>1, <2>2, HoldTaken
  <2>4. \A a \in Benches : bench'[a].waiting = bench[a].waiting
    BY <2>2, Before
  <2>5. /\ req[r].pc = "kernel" /\ req'[r].pc \in {"executing", "status"}
        /\ \A q \in Requests \ {r} : req'[q] = req[q]
    <3>1. req \in [Requests -> ReqType] /\ req[r].pc = "kernel"
      BY <1>1, Before DEF KernelUp
    <3>2. CASE req' = [req EXCEPT ![r].pc = "status", ![r].attempt = 0]
      BY <3>1, <3>2 DEF ReqType
    <3>3. CASE req' = [req EXCEPT ![r] = [NewRequest EXCEPT
                                  !.pc = "executing", !.op = "claim", !.at = b,
                                  !.run = Taken(x).running, !.kernel = x.kernel]]
      <4>1. PICK n, z : n = Taken(x).running
               /\ z = [NewRequest EXCEPT !.pc = "executing", !.op = "claim", !.at = b,
                                         !.run = n, !.kernel = x.kernel]
        OBVIOUS
      <4>2. z.pc = "executing"
        BY <4>1, FreshRequests DEF ReqType
      <4>3. req' = [req EXCEPT ![r] = z]
        BY <3>3, <4>1
      <4>4. QED
        BY <3>1, <4>2, <4>3
    <3>4. QED
      BY <2>1, <3>1, <3>2, <3>3
  <2>6. QueueInv'
    <3>1. PICK R \in SUBSET Requests : R = {r}
      OBVIOUS
    <3>2. QED
      BY <2>4, <2>5, <3>1, QueueStays
  <2>7. QED
    BY <2>3, <2>6
<1>2. CASE EndKernel(r)
  <2>1. PICK b \in Benches :
              /\ b = req[r].at
              /\ \/ UNCHANGED <<bench, pod>>
                 \/ \E y \in BenchType :
                       /\ Quiet(bench[b], y) /\ ~y.held
                       /\ y.waiting = bench[b].waiting
                       /\ bench' = [bench EXCEPT ![b] = y]
                       /\ pod' = PodReleasedBy(b)
              /\ hub' \in HubType /\ \A k \in hub'.kernels : k[2] # 0
    BY <1>2, EndKernelEffect
  <2>2. /\ HoldInv' /\ \A a \in Benches : bench'[a].waiting = bench[a].waiting
    <3>1. CASE UNCHANGED <<bench, pod>>
      BY <3>1, HoldStays
    <3>2. ASSUME NEW y \in BenchType, ~y.held, y.waiting = bench[b].waiting,
                 bench' = [bench EXCEPT ![b] = y], pod' = PodReleasedBy(b)
          PROVE  HoldInv' /\ \A a \in Benches : bench'[a].waiting = bench[a].waiting
      BY <3>2, HoldGivenUp, Before
    <3>3. QED
      BY <2>1, <3>1, <3>2
  <2>3. /\ req[r].pc = "lock" /\ req'[r].pc = "done"
        /\ \A q \in Requests \ {r} : req'[q] = req[q]
    BY <1>2, Returns DEF EndKernel, Locks
  <2>4. QueueInv'
    <3>1. PICK R \in SUBSET Requests : R = {r}
      OBVIOUS
    <3>2. QED
      BY <2>2, <2>3, <3>1, QueueStays
  <2>5. QED
    BY <2>2, <2>4
<1>3. QED
  BY <1>1, <1>2

LEMMA ArrivalsAreUncounted ==
    ASSUME TypeOK, KernelInv, QueueInv, HoldInv, Arrive
    PROVE  QueueInv' /\ HoldInv'
<1>1. UNCHANGED <<pod, bench>>
  BY DEF Arrive, AskForKernel, AskForStatus, Find, LookUp
<1>2. PICK r \in Requests :
         /\ \A q \in Requests \ {r} : req'[q] = req[q]
         /\ req[r].pc = "new" /\ req'[r].pc \in {"lock", "status", "done"}
  <2>1. ASSUME NEW r \in Requests, NEW w, NEW op, NEW patient, Find(r, w, op, patient)
        PROVE  /\ \A q \in Requests \ {r} : req'[q] = req[q]
               /\ req[r].pc = "new" /\ req'[r].pc \in {"lock", "status", "done"}
    <3>1. PICK n : req' = [req EXCEPT ![r] = [NewRequest EXCEPT
                            !.pc = "lock", !.op = op, !.at = <<w, n>>,
                            !.patient = patient]]
      BY <2>1 DEF Find
    <3>2. req \in [Requests -> ReqType] /\ req[r].pc = "new"
      BY <2>1, Before DEF Find
    <3>3. PICK y : y = [NewRequest EXCEPT !.pc = "lock", !.op = op, !.at = <<w, n>>,
                                          !.patient = patient]
      OBVIOUS
    <3>4. y.pc = "lock"
      BY <3>3, FreshRequests DEF ReqType
    <3>5. QED
      BY <3>1, <3>2, <3>3, <3>4
  <2>2. ASSUME NEW r \in Requests, NEW op, LookUp(r, op)
        PROVE  /\ \A q \in Requests \ {r} : req'[q] = req[q]
               /\ req[r].pc = "new" /\ req'[r].pc \in {"lock", "status", "done"}
    <3>1. PICK w : req' = [req EXCEPT ![r] =
             IF registered[w] # 0
             THEN [NewRequest EXCEPT !.pc = "lock", !.op = op,
                                     !.at = <<w, registered[w]>>]
             ELSE IF op = "status"
             THEN [NewRequest EXCEPT !.pc = "status", !.op = op]
             ELSE Answered]
      BY <2>2 DEF LookUp
    <3>2. PICK y : y = IF registered[w] # 0
                       THEN [NewRequest EXCEPT !.pc = "lock", !.op = op,
                                               !.at = <<w, registered[w]>>]
                       ELSE IF op = "status"
                       THEN [NewRequest EXCEPT !.pc = "status", !.op = op]
                       ELSE Answered
      OBVIOUS
    <3>3. y.pc \in {"lock", "status", "done"}
      BY <3>2, FreshRequests DEF ReqType
    <3>4. req' = [req EXCEPT ![r] = y]
      BY <3>1, <3>2
    <3>5. QED
      BY <2>2, <3>3, <3>4, Before DEF LookUp
  <2>3. Claimers \union Reporters \union Enders = Requests
    BY DEF Requests
  <2>4. QED
    BY <2>1, <2>2, <2>3 DEF Arrive, AskForKernel, AskForStatus
<1>3. QueueInv'
  <2>1. PICK R \in SUBSET Requests : R = {r}
    OBVIOUS
  <2>2. QED
    BY <1>1, <1>2, <2>1, QueueStays
<1>4. QED
  BY <1>1, <1>3, HoldStays

LEMMA WorldCounts ==
    ASSUME TypeOK, KernelInv, QueueInv, HoldInv,
           Sweep \/ ReaperStep \/ Cull \/ Lose \/ UNCHANGED vars
    PROVE  QueueInv' /\ HoldInv'
<1>1. UNCHANGED req
  BY DEF Sweep, ReaperStep, Release, Forget, SweepEnds, Cull, Lose, vars
<1>2. ASSUME \A b \in Benches : bench'[b].waiting = bench[b].waiting PROVE QueueInv'
  <2>1. PICK R \in SUBSET Requests : R = {}
    OBVIOUS
  <2>2. QED
    BY <1>1, <1>2, <2>1, QueueStays
<1>3. CASE UNCHANGED <<bench, pod>>
  BY <1>2, <1>3, HoldStays
<1>4. ASSUME NEW b \in Benches, Release(b) PROVE QueueInv' /\ HoldInv'
  <2>1. PICK y \in BenchType :
              /\ Quiet(bench[b], y) /\ ~y.held /\ y.waiting = bench[b].waiting
              /\ bench' = [bench EXCEPT ![b] = y]
    BY <1>4, ReleaseEffect
  <2>2. pod' = PodReleasedBy(b)
    BY <1>4 DEF Release
  <2>3. HoldInv'
    BY <2>1, <2>2, HoldGivenUp
  <2>4. \A a \in Benches : bench'[a].waiting = bench[a].waiting
    BY <2>1, Before
  <2>5. QED
    BY <1>2, <2>3, <2>4
<1>5. CASE Cull \/ Lose
  <2>1. \A b \in Benches : Counted(bench[b], bench'[b])
    BY <1>5, BrokenIsQuiet DEF Cull, Lose
  <2>2. UNCHANGED pod
    BY <1>5 DEF Cull, Lose
  <2>3. QED
    BY <1>2, <2>1, <2>2, HoldStays DEF Counted
<1>6. QED
  BY <1>3, <1>4, <1>5 DEF Sweep, ReaperStep, Forget, SweepEnds, vars

LEMMA StepCounts ==
    ASSUME TypeOK, KernelInv, QueueInv, HoldInv, [Next]_vars
    PROVE  QueueInv' /\ HoldInv'
<1>1. ASSUME NEW r \in Requests, Uncounted(r) PROVE QueueInv' /\ HoldInv'
  <2>1. PICK R \in SUBSET Requests : R = {r}
    OBVIOUS
  <2>2. QueueInv'
    BY <1>1, <2>1, UncountedKeep, UncountedMove, QueueStays DEF Counted
  <2>3. HoldInv'
    BY <1>1, UncountedKeep, HoldStays DEF Counted
  <2>4. QED
    BY <2>2, <2>3
<1>2. ASSUME NEW r \in Requests, RequestStep(r) PROVE QueueInv' /\ HoldInv'
  BY <1>1, <1>2, QueueCounts, HoldCounts
     DEF RequestStep, EnsureStep, ClaimStep, StatusStep, Uncounted
<1>3. QED
  BY <1>2, ArrivalsAreUncounted, WorldCounts DEF Next

\* The counts of waiters and of holds are exact.
THEOREM CountsInvariant == Spec => [](QueueInv /\ HoldInv)
<1> DEFINE Inv == TypeOK /\ KernelInv /\ QueueInv /\ HoldInv
<1>1. Init => Inv
  <2>1. SUFFICES ASSUME Init PROVE QueueInv /\ HoldInv
    BY StartIsSound
  <2>2. /\ \A b \in Benches : bench[b].waiting = 0 /\ ~bench[b].held
        /\ \A r \in Requests : req[r].pc = "new"
        /\ pod.live = 0 /\ ~pod.keepalive
    BY <2>1 DEF Init, NewBench, NewRequest
  <2>3. Holders = {} /\ \A b \in Benches : InQueue(b) = {}
    BY <2>2 DEF Holders, InQueue
  <2>4. QED
    BY <2>2, <2>3, FS_EmptySet DEF QueueInv, HoldInv
<1>2. Inv /\ [Next]_vars => Inv'
  BY StepIsSound, StepCounts
<1>3. QED
  BY <1>1, <1>2, PTL DEF Spec

\* A bench's count of its queue is the callers in it.
THEOREM QueuesAreCounted == Spec => []QueueCountsItsWaiters
<1>1. QueueInv => QueueCountsItsWaiters
  BY DEF QueueInv, InQueue, QueueCountsItsWaiters
<1>2. QED
  BY <1>1, CountsInvariant, PTL

\* The pod is kept alive for exactly the benches that hold it.
THEOREM HoldsAreCounted == Spec => []LiveCountsHolds
<1>1. HoldInv => LiveCountsHolds
  BY DEF HoldInv, Holders, LiveCountsHolds
<1>2. QED
  BY <1>1, CountsInvariant, PTL

\* Neither counter drifts.
THEOREM CountersStayExact == Spec => []CountersAreExact
BY QueuesAreCounted, HoldsAreCounted, PTL DEF CountersAreExact

-----------------------------------------------------------------------------
(* Who waits for whom.                                                      *)

\* Where a request holds its bench's lock, when it has a bench.
WithTheLock == BringsUp \union {"status", "count"}

\* Nobody leaves a lock behind, and whoever counts kernels leaves its own bench out.
LockInv ==
    /\ \A b \in Benches, q \in Requests :
          lock[b] = q => Here(q) = b /\ req[q].pc \in WithTheLock
    /\ \A q \in Requests : req[q].pc = "count" => Here(q) \notin req[q].todo

\* The locks that a request's next step may have to wait for.
WaitsAt(r, b) ==
    \/ req[r].pc \in {"lock", "enqueue", "dequeue", "finishing"} /\ Here(r) = b
    \/ req[r].pc = "count" /\ b \in req[r].todo

WaitsFor(r, q) == \E b \in Benches : WaitsAt(r, b) /\ lock[b] = q

\* Requests that wait for locks among themselves and for nobody else, in a circle
\* or in any other way (claim, finishRun, statusLocked, kernelCount), have two
\* among them that count the developer's kernels.
DeadlockTakesTwoCounts ==
    \A S \in SUBSET Requests :
       S # {} /\ (\A r \in S : \E q \in S : WaitsFor(r, q))
       => \E q, r \in S : q # r /\ req[q].pc = "count" /\ req[r].pc = "count"

\* R are the requests that move.
LEMMA LocksAreKept ==
    ASSUME LockInv, NEW R \in SUBSET Requests,
           \A q \in Requests \ R : req'[q] = req[q],
           \A q \in Requests \ R : \A b \in Benches : lock'[b] = q => lock[b] = q,
           \A r \in R : \A b \in Benches :
              lock'[b] = r => req'[r].at = b /\ req'[r].pc \in WithTheLock,
           \A r \in R : req'[r].pc = "count" => req'[r].at \notin req'[r].todo
    PROVE  LockInv'
<1>1. ASSUME NEW b \in Benches, NEW q \in Requests, lock'[b] = q
      PROVE  req'[q].at = b /\ req'[q].pc \in WithTheLock
  <2>1. CASE q \in R
    BY <1>1, <2>1
  <2>2. CASE q \notin R
    BY <1>1, <2>2 DEF LockInv, Here
  <2>3. QED
    BY <2>1, <2>2
<1>2. ASSUME NEW q \in Requests, req'[q].pc = "count"
      PROVE  req'[q].at \notin req'[q].todo
  <2>1. CASE q \in R
    BY <1>2, <2>1
  <2>2. CASE q \notin R
    BY <1>2, <2>2 DEF LockInv, Here
  <2>3. QED
    BY <2>1, <2>2
<1>3. QED
  BY <1>1, <1>2 DEF LockInv, Here

\* One request moves: it has no lock, or keeps the one it has, or lets go of it.
LEMMA OneMovesOn ==
    ASSUME TypeOK, LockInv, NEW r \in Requests,
           \A q \in Requests \ {r} : req'[q] = req[q],
           req'[r].pc = "count" => req'[r].at \notin req'[r].todo,
           \/ UNCHANGED lock /\ req[r].pc \notin WithTheLock
           \/ /\ UNCHANGED lock
              /\ req'[r].pc \in WithTheLock /\ req'[r].at = req[r].at
           \/ Here(r) \in Benches /\ Unlock(Here(r))
    PROVE  LockInv'
<1>1. lock \in [Benches -> Requests \union {Free}] /\ Free \notin Requests
  BY TypesUnfold, RequestAssumption
<1>2. \A b \in Benches : lock[b] = r => b = req[r].at /\ req[r].pc \in WithTheLock
  BY DEF LockInv, Here
<1>3. \A q \in Requests \ {r} : \A b \in Benches : lock'[b] = q => lock[b] = q
  BY <1>1 DEF Unlock
<1>4. \A b \in Benches : lock'[b] = r => req'[r].at = b /\ req'[r].pc \in WithTheLock
  <2>1. CASE UNCHANGED lock /\ req[r].pc \notin WithTheLock
    BY <1>2, <2>1
  <2>2. CASE /\ UNCHANGED lock
             /\ req'[r].pc \in WithTheLock /\ req'[r].at = req[r].at
    BY <1>2, <2>2
  <2>3. CASE Here(r) \in Benches /\ Unlock(Here(r))
    BY <1>1, <1>2, <2>3 DEF Unlock, Here
  <2>4. QED
    BY <2>1, <2>2, <2>3
<1>5. PICK R \in SUBSET Requests : R = {r}
  OBVIOUS
<1>6. QED
  BY <1>3, <1>4, <1>5, LocksAreKept

\* A lock is taken by who had none.
LEMMA TakesTheLock ==
    ASSUME TypeOK, KernelInv, LockInv, NEW r \in Requests, Locks(r),
           NEW label \in {"pod", "status"}, NEW attempt, Takes(r, label, attempt)
    PROVE  LockInv'
<1>1. PICK b \in Benches : b = req[r].at /\ b = Here(r) /\ req[r].pc = "lock"
  BY Before DEF Locks, Place, AtBench, States, Here
<1>2. lock \in [Benches -> Requests \union {Free}] /\ req \in [Requests -> ReqType]
  BY Before
<1>3. /\ \A q \in Requests \ {r} : req'[q] = req[q]
      /\ req'[r].pc = label /\ req'[r].at = b
  BY <1>1, <1>2 DEF Takes, ReqType
<1>4. \A a \in Benches : lock[a] # r
  BY <1>1 DEF LockInv, WithTheLock, BringsUp
<1>5. \A a \in Benches : lock'[a] = lock[a] \/ (a = b /\ lock'[a] = r)
  BY <1>1, <1>2 DEF Takes
<1>6. \A q \in Requests \ {r} : \A a \in Benches : lock'[a] = q => lock[a] = q
  BY <1>5
<1>7. \A a \in Benches : lock'[a] = r => a = b
  BY <1>4, <1>5
<1>8. label \in WithTheLock /\ label # "count"
  BY DEF WithTheLock, BringsUp
<1>9. PICK R \in SUBSET Requests : R = {r}
  OBVIOUS
<1>10. QED
  BY <1>3, <1>6, <1>7, <1>8, <1>9, LocksAreKept

LEMMA RequestsKeepLocks ==
    ASSUME TypeOK, KernelInv, LockInv, NEW r \in Requests, RequestStep(r)
    PROVE  LockInv'
<1>1. req \in [Requests -> ReqType] /\ {"kernel", "drop", "ask"} \subseteq States
  BY Before DEF States
<1>2. CASE ClaimFree(r) \/ EnsureLocks(r) \/ StatusLocks(r) \/ RestartLocks(r)
  <2>1. PICK label \in {"pod", "status"}, attempt \in 0..2 : Locks(r) /\ Takes(r, label, attempt)
    BY <1>2 DEF ClaimFree, EnsureLocks, StatusLocks, RestartLocks
  <2>2. QED
    BY <2>1, TakesTheLock
<1>3. CASE \/ ClaimBusy(r) \/ Woken(r) \/ GiveUp(r) \/ Enqueue(r) \/ Dequeue(r)
           \/ CellEnds(r) \/ FinishRun(r) \/ EndKernel(r)
  <2>1. /\ req[r].pc \in {"lock", "queued", "enqueue", "dequeue", "executing", "finishing"}
        /\ UNCHANGED lock
    BY <1>3 DEF ClaimBusy, Woken, GiveUp, Enqueue, Dequeue, CellEnds, FinishRun, EndKernel,
                Locks
  <2>2. /\ \A q \in Requests \ {r} : req'[q] = req[q]
        /\ req'[r].pc # "count"
    <3>1. CASE Return(r)
      BY <3>1, Returns
    <3>2. CASE ClaimBusy(r) /\ ~Return(r)
      <4>1. req' = [req EXCEPT ![r].pc = "enqueue", ![r].idle = bench[Here(r)].idle]
        BY <3>2 DEF ClaimBusy
      <4>2. QED
        BY <1>1, <4>1 DEF ReqType
    <3>3. CASE Woken(r)
      <4>1. PICK patient \in BOOLEAN :
               req' = [req EXCEPT ![r].pc = "dequeue", ![r].back = "lock",
                                  ![r].patient = patient, ![r].idle = 0]
        BY <3>3 DEF Woken
      <4>2. QED
        BY <1>1, <4>1 DEF ReqType
    <3>4. CASE GiveUp(r)
      BY <1>1, <3>4 DEF GiveUp, ReqType
    <3>5. CASE Enqueue(r)
      BY <1>1, <3>5 DEF Enqueue, Goto, ReqType
    <3>6. CASE Dequeue(r) /\ ~Return(r)
      <4>1. req' = [req EXCEPT ![r].pc = "lock", ![r].back = "none"]
        BY <3>6 DEF Dequeue
      <4>2. QED
        BY <1>1, <4>1 DEF ReqType
    <3>7. CASE CellEnds(r)
      BY <1>1, <3>7 DEF CellEnds, ReqType
    <3>8. QED
      BY <1>3, <3>1, <3>2, <3>3, <3>4, <3>5, <3>6, <3>7 DEF FinishRun, EndKernel
  <2>3. req[r].pc \notin WithTheLock
    BY <2>1 DEF WithTheLock, BringsUp
  <2>4. QED
    BY <2>1, <2>2, <2>3, OneMovesOn
<1>4. ASSUME req[r].pc \in BringsUp, Unlock(Here(r)), Return(r)
      PROVE  LockInv'
  <2>1. Here(r) \in Benches
    BY <1>4, Holds
  <2>2. QED
    BY <1>4, <2>1, Returns, OneMovesOn
<1>5. ASSUME NEW label \in BringsUp \ {"count"}, label \in States, Goto(r, label),
             UNCHANGED lock
      PROVE  LockInv'
  BY <1>5, GoesTo, OneMovesOn DEF WithTheLock, BringsUp
<1>6. ASSUME NEW remembered, req[r].pc \in BringsUp, Misses(r, remembered)
      PROVE  LockInv'
  <2>1. "ask" \in BringsUp \ {"count"}
    BY DEF BringsUp
  <2>2. QED
    BY <1>1, <1>4, <1>5, <1>6, <2>1 DEF Misses
<1>7. CASE ReachPod(r) \/ HearGone(r)
  BY <1>1, <1>5, <1>7 DEF ReachPod, HearGone, BringsUp
<1>8. CASE MissPod(r) \/ KernelMissed(r)
  BY <1>6, <1>8 DEF MissPod, KernelMissed, BringsUp
<1>9. CASE NotGone(r)
  BY <1>4, <1>9 DEF NotGone, BringsUp
<1>10. CASE DropServer(r)
  <2>1. /\ \A q \in Requests \ {r} : req'[q] = req[q]
        /\ req'[r].pc = "pod" /\ req'[r].at = req[r].at /\ UNCHANGED lock
    BY <1>1, <1>10 DEF DropServer, ReqType
  <2>2. QED
    BY <2>1, OneMovesOn DEF WithTheLock, BringsUp
<1>11. CASE KernelUp(r)
  <2>1. PICK b \in Benches, x \in BenchType :
           /\ b = req[r].at /\ b = Here(r) /\ lock[b] = r
           /\ Quiet(bench[b], x) /\ x.kernel # 0
           /\ x.held /\ x.waiting = bench[b].waiting
           /\ pod' = PodHeldBy(b) /\ hub' \in HubType
           /\ \A k \in hub'.kernels : k[2] # 0
           /\ upsets' \in Nat /\ UNCHANGED <<registered, made, reaper>>
           /\ \/ /\ req[r].op = "claim"
                 /\ bench' = [bench EXCEPT ![b] = Taken(x)]
                 /\ Unlock(b)
                 /\ req' = [req EXCEPT ![r] = [NewRequest EXCEPT
                               !.pc = "executing", !.op = "claim", !.at = b,
                               !.run = Taken(x).running, !.kernel = x.kernel]]
              \/ /\ req[r].op # "claim"
                 /\ bench' = [bench EXCEPT ![b] = x]
                 /\ req' = [req EXCEPT ![r].pc = "status", ![r].attempt = 0]
                 /\ UNCHANGED lock
    BY <1>11, KernelUpEffect
  <2>2. CASE UNCHANGED lock /\ req' = [req EXCEPT ![r].pc = "status", ![r].attempt = 0]
    <3>1. /\ \A q \in Requests \ {r} : req'[q] = req[q]
          /\ req'[r].pc = "status" /\ req'[r].at = req[r].at
      BY <1>1, <2>2 DEF ReqType
    <3>2. QED
      BY <2>2, <3>1, OneMovesOn DEF WithTheLock
  <2>3. CASE /\ Unlock(b)
             /\ req' = [req EXCEPT ![r] = [NewRequest EXCEPT
                           !.pc = "executing", !.op = "claim", !.at = b,
                           !.run = Taken(x).running, !.kernel = x.kernel]]
    <3>1. /\ \A q \in Requests \ {r} : req'[q] = req[q]
          /\ req'[r].pc = "executing"
      BY <1>1, <2>3 DEF NewRequest
    <3>2. QED
      BY <2>1, <2>3, <3>1, OneMovesOn
  <2>4. QED
    BY <2>1, <2>2, <2>3
<1>12. CASE CountKernels(r)
  <2>1. /\ \A q \in Requests \ {r} : req'[q] = req[q]
        /\ req'[r].pc = "count" /\ req'[r].at = req[r].at /\ UNCHANGED lock
        /\ req'[r].todo = Registered \ {req[r].at}
    BY <1>1, <1>12 DEF CountKernels, ReqType, Here
  <2>2. QED
    BY <2>1, OneMovesOn DEF WithTheLock
<1>13. CASE CountOne(r)
  <2>1. PICK b : req' = [req EXCEPT ![r].todo = @ \ {b}]
    BY <1>13 DEF CountOne
  <2>2. /\ \A q \in Requests \ {r} : req'[q] = req[q]
        /\ req'[r].pc = "count" /\ req'[r].at = req[r].at /\ UNCHANGED lock
        /\ req'[r].todo = req[r].todo \ {b}
    BY <1>1, <1>13, <2>1 DEF CountOne, ReqType
  <2>3. req[r].at \notin req[r].todo
    BY <1>13 DEF CountOne, LockInv, Here
  <2>4. QED
    BY <2>2, <2>3, OneMovesOn DEF WithTheLock
<1>14. CASE StatusAnswered(r)
  <2>1. Return(r) /\ req[r].pc \in {"status", "count"}
    BY <1>14 DEF StatusAnswered
  <2>2. CASE Here(r) # NoBench
    <3>1. Here(r) \in Benches
      BY <2>1, <2>2, Before DEF Place
    <3>2. QED
      BY <1>14, <2>1, <2>2, <3>1, Returns, OneMovesOn DEF StatusAnswered
  <2>3. CASE Here(r) = NoBench
    <3>1. UNCHANGED lock
      BY <1>14, <2>3 DEF StatusAnswered
    <3>2. \A b \in Benches : lock[b] # r
      <4>1. NoBench \notin Benches
        BY DEF NoBench, Benches
      <4>2. QED
        BY <2>3, <4>1 DEF LockInv
    <3>3. PICK R \in SUBSET Requests : R = {r}
      OBVIOUS
    <3>4. QED
      BY <2>1, <3>1, <3>2, <3>3, Returns, LocksAreKept
  <2>4. QED
    BY <2>2, <2>3
<1>15. QED
  BY <1>2, <1>3, <1>7, <1>8, <1>9, <1>10, <1>11, <1>12, <1>13, <1>14
     DEF RequestStep, EnsureStep, ClaimStep, StatusStep

LEMMA StepKeepsLocks ==
    ASSUME TypeOK, KernelInv, LockInv, [Next]_vars PROVE LockInv'
<1>1. ASSUME NEW r \in Requests, UNCHANGED lock, req[r].pc = "new", NEW y,
             req' = [req EXCEPT ![r] = y], y.pc # "count"
      PROVE  LockInv'
  <2>1. /\ \A q \in Requests \ {r} : req'[q] = req[q]
        /\ req'[r].pc # "count" /\ req[r].pc \notin WithTheLock
    BY <1>1, Before DEF WithTheLock, BringsUp
  <2>2. QED
    BY <1>1, <2>1, OneMovesOn
<1>2. ASSUME NEW r \in Requests, NEW w, NEW op, NEW patient, Find(r, w, op, patient)
      PROVE  LockInv'
  <2>1. PICK y, n : /\ y = [NewRequest EXCEPT !.pc = "lock", !.op = op, !.at = <<w, n>>,
                                             !.patient = patient]
                   /\ req' = [req EXCEPT ![r] = y]
    BY <1>2 DEF Find
  <2>2. y.pc = "lock"
    BY <2>1 DEF NewRequest
  <2>3. QED
    BY <1>1, <1>2, <2>1, <2>2 DEF Find
<1>3. ASSUME NEW r \in Requests, NEW op, LookUp(r, op) PROVE LockInv'
  <2>1. PICK y, n : /\ req' = [req EXCEPT ![r] = y]
                   /\ \/ y = [NewRequest EXCEPT !.pc = "lock", !.op = op, !.at = n]
                      \/ y = [NewRequest EXCEPT !.pc = "status", !.op = op]
                      \/ y = Answered
    <3>1. PICK w \in Names[r] :
             req' = [req EXCEPT ![r] =
                IF registered[w] # 0
                THEN [NewRequest EXCEPT !.pc = "lock", !.op = op,
                                        !.at = <<w, registered[w]>>]
                ELSE IF op = "status"
                THEN [NewRequest EXCEPT !.pc = "status", !.op = op]
                ELSE Answered]
      BY <1>3 DEF LookUp
    <3>2. QED
      BY <3>1
  <2>2. y.pc \in {"lock", "status", "done"}
    BY <2>1, FreshRequests DEF NewRequest
  <2>3. QED
    BY <1>1, <1>3, <2>1, <2>2 DEF LookUp
<1>4. CASE Arrive
  <2>1. Claimers \union Reporters \union Enders = Requests
    BY DEF Requests
  <2>2. QED
    BY <1>2, <1>3, <1>4, <2>1 DEF Arrive, AskForKernel, AskForStatus
<1>5. CASE UNCHANGED <<lock, req>>
  BY <1>5 DEF LockInv, Here
<1>6. CASE Sweep \/ ReaperStep \/ Cull \/ Lose \/ UNCHANGED vars
  BY <1>5, <1>6 DEF Sweep, ReaperStep, Forget, SweepEnds, Release, Cull, Lose, vars
<1>7. QED
  BY <1>4, <1>6, RequestsKeepLocks DEF Next

\* No lock is left behind by a request that answered, whatever failed under it; and
\* the one circle of locks there is runs through two requests that count kernels
\* at once, the deadlock that the run of two status reports ends in.
THEOREM OnlyCountsDeadlock == Spec => [](LockInv /\ DeadlockTakesTwoCounts)
<1> DEFINE Inv == TypeOK /\ KernelInv /\ LockInv
<1>1. Init => Inv
  <2>1. SUFFICES ASSUME Init PROVE LockInv
    BY StartIsSound
  <2>2. \A b \in Benches : lock[b] = Free
    BY <2>1 DEF Init
  <2>3. \A r \in Requests : req[r].pc = "new"
    BY <2>1, FreshRequests DEF Init
  <2>4. QED
    BY <2>2, <2>3, RequestAssumption DEF LockInv
<1>2. Inv /\ [Next]_vars => Inv'
  BY StepIsSound, StepKeepsLocks
<1>3. Inv => DeadlockTakesTwoCounts
  <2>1. SUFFICES ASSUME LockInv, NEW S \in SUBSET Requests, S # {},
                        \A r \in S : \E q \in S : WaitsFor(r, q)
                 PROVE  \E q, r \in S : /\ q # r
                                        /\ req[q].pc = "count" /\ req[r].pc = "count"
    BY DEF DeadlockTakesTwoCounts
  <2>2. ASSUME NEW r \in S, NEW q \in S, WaitsFor(r, q)
        PROVE  req[q].pc = "count" /\ (req[r].pc = "count" => q # r)
    <3>1. PICK b \in Benches : WaitsAt(r, b) /\ lock[b] = q
      BY <2>2 DEF WaitsFor
    <3>2. Here(q) = b /\ req[q].pc \in WithTheLock
      BY <2>1, <3>1 DEF LockInv
    <3>3. PICK p \in S, a \in Benches : WaitsAt(q, a) /\ lock[a] = p
      BY <2>1 DEF WaitsFor
    <3>4. req[q].pc = "count"
      BY <3>2, <3>3 DEF WaitsAt, WithTheLock, BringsUp
    <3>5. req[r].pc = "count" => b \in req[r].todo /\ Here(r) \notin req[r].todo
      BY <2>1, <3>1 DEF WaitsAt, LockInv
    <3>6. QED
      BY <3>2, <3>4, <3>5
  <2>3. PICK o \in S, q \in S : WaitsFor(o, q)
    BY <2>1
  <2>4. PICK r \in S : WaitsFor(q, r)
    BY <2>1
  <2>5. QED
    BY <2>2, <2>3, <2>4
<1>4. QED
  BY <1>1, <1>2, <1>3, PTL DEF Spec

\* What a request's next step asks for: nothing, or a lock that is free.
MayGoOn(r) ==
    \/ req[r].pc \in {"pod", "kernel", "ask", "drop", "queued", "status", "executing"}
    \/ req[r].pc \in {"lock", "enqueue", "dequeue", "finishing"} /\ lock[Here(r)] = Free
    \/ req[r].pc = "count" /\ (req[r].todo = {} \/ \E b \in req[r].todo : lock[b] = Free)

SomebodyGoesOn ==
    (\E r \in Requests : req[r].pc \notin {"new", "done"}) =>
       \/ \E r \in Requests : MayGoOn(r)
       \/ \E q, r \in Requests : q # r /\ req[q].pc = "count" /\ req[r].pc = "count"

\* As long as somebody waits, somebody may go on, unless two requests count kernels.
THEOREM StandstillTakesTwoCounts == Spec => []SomebodyGoesOn
<1>1. TypeOK /\ KernelInv /\ LockInv /\ DeadlockTakesTwoCounts => SomebodyGoesOn
  <2>1. SUFFICES ASSUME TypeOK, KernelInv, LockInv, DeadlockTakesTwoCounts,
                        NEW p \in Requests, req[p].pc \notin {"new", "done"},
                        \A r \in Requests : ~MayGoOn(r)
                 PROVE  \E q, r \in Requests : /\ q # r
                                               /\ req[q].pc = "count" /\ req[r].pc = "count"
    BY DEF SomebodyGoesOn
  <2>2. PICK S \in SUBSET Requests :
           S = {r \in Requests : req[r].pc \notin {"new", "done"}}
    OBVIOUS
  <2>3. ASSUME NEW r \in S PROVE \E q \in S : WaitsFor(r, q)
    <3>1. \E b \in Benches : WaitsAt(r, b) /\ lock[b] # Free
      <4>1. r \in Requests /\ req[r].pc \in States /\ ~MayGoOn(r)
            /\ req[r].pc \notin {"new", "done"} /\ req[r].todo \subseteq Benches
        BY <2>1, <2>2, <2>3, Before DEF ReqType
      <4>2. CASE req[r].pc \in {"lock", "enqueue", "dequeue", "finishing"}
        <5>1. Here(r) \in Benches
          BY <2>1, <4>1, <4>2, Before DEF Place, AtBench, States
        <5>2. QED
          BY <4>1, <4>2, <5>1 DEF MayGoOn, WaitsAt
      <4>3. CASE req[r].pc = "count"
        BY <4>1, <4>3 DEF MayGoOn, WaitsAt
      <4>4. QED
        BY <4>1, <4>2, <4>3 DEF MayGoOn, States
    <3>2. PICK b \in Benches : WaitsAt(r, b) /\ lock[b] # Free
      BY <3>1
    <3>3. PICK q \in Requests : lock[b] = q
      BY <2>1, <3>2, Before
    <3>4. req[q].pc \in WithTheLock
      BY <2>1, <3>3 DEF LockInv
    <3>5. q \in S
      BY <2>2, <3>4 DEF WithTheLock, BringsUp
    <3>6. QED
      BY <3>2, <3>3, <3>5 DEF WaitsFor
  <2>4. p \in S
    BY <2>1, <2>2
  <2>5. QED
    BY <2>1, <2>3, <2>4 DEF DeadlockTakesTwoCounts
<1>2. QED
  BY <1>1, TypeCorrect, KernelInvariant, OnlyCountsDeadlock, PTL

-----------------------------------------------------------------------------
(* How many steps a request has left.                                        *)

\* The requests that may still take a kernel.
Unserved == {r \in Requests : req[r].pc \notin {"executing", "finishing", "done"}}

\* On the way to the queue, in it, or back from it.
Contends(r) == \/ req[r].pc \in {"lock", "enqueue", "queued"}
               \/ req[r].pc = "dequeue" /\ req[r].back = "lock"

\* There is a run in its way, for a caller in the queue another than it waits for.
FindsARun(r) ==
    /\ bench[Here(r)].running # 0
    /\ req[r].pc \in {"enqueue", "queued"} => bench[Here(r)].idle # req[r].idle

\* How often a request may yet have to queue: for each of the others that may take
\* the kernel first, and for the run that is there.
Rounds(r) ==
    IF req[r].pc = "new" THEN Cardinality(Unserved \ {r}) + 1
    ELSE IF Contends(r)
         THEN Cardinality(Unserved \ {r}) + (IF FindsARun(r) THEN 1 ELSE 0)
         ELSE 0

\* The steps from a place to the end when nothing is in the way.
Ahead(pc, attempt) ==
    CASE pc = "new"       -> 13
      [] pc = "enqueue"   -> 12
      [] pc = "queued"    -> 11
      [] pc = "dequeue"   -> 10
      [] pc = "lock"      -> 9
      [] pc = "pod"       -> IF attempt = 1 THEN 8 ELSE 4
      [] pc = "kernel"    -> IF attempt = 1 THEN 7 ELSE 3
      [] pc = "ask"       -> 6
      [] pc = "drop"      -> 5
      [] pc = "status"    -> 2
      [] pc = "executing" -> 2
      [] pc = "finishing" -> 1
      [] OTHER            -> 0

StepsLeft(r) ==
    IF req[r].pc = "done" THEN 0
    ELSE IF req[r].pc = "count" THEN Cardinality(req[r].todo) + 1
    ELSE 4 * Rounds(r) + Ahead(req[r].pc, req[r].attempt) + Cardinality(Workbenches)

MostSteps == 4 * Cardinality(Requests) + Cardinality(Workbenches) + 13

FiniteInstance == IsFiniteSet(Requests) /\ IsFiniteSet(Workbenches)

\* A request has a number of steps left, and none only when it has answered.
StepsAreLimited ==
    \A r \in Requests : /\ StepsLeft(r) \in 0..MostSteps
                        /\ StepsLeft(r) = 0 <=> req[r].pc = "done"

\* A step of a request, its arrival included, leaves it fewer, and no step of the
\* others, of the reaper or of the pod gives it more.
StepsRunOut ==
    \A r \in Requests : /\ StepsLeft(r)' <= StepsLeft(r)
                        /\ RequestStep(r) \/ req'[r] # req[r]
                              => StepsLeft(r)' < StepsLeft(r)

LEMMA AheadType ==
    ASSUME NEW pc \in States, NEW attempt \in 0..2
    PROVE  /\ Ahead(pc, attempt) \in 0..13
           /\ pc \notin {"count", "done"} => Ahead(pc, attempt) > 0
BY DEF Ahead, States

LEMMA OthersAreCounted ==
    ASSUME FiniteInstance, NEW r \in Requests
    PROVE  /\ IsFiniteSet(Unserved \ {r}) /\ Cardinality(Unserved \ {r}) \in Nat
           /\ Cardinality(Unserved \ {r}) + 1 <= Cardinality(Requests)
           /\ Cardinality(Requests) \in Nat
<1>1. IsFiniteSet(Requests \ {r})
      /\ Cardinality(Requests \ {r}) = Cardinality(Requests) - 1
  BY FS_RemoveElement DEF FiniteInstance
<1>2. Unserved \ {r} \in SUBSET (Requests \ {r})
  BY DEF Unserved
<1>3. IsFiniteSet(Unserved \ {r})
      /\ Cardinality(Unserved \ {r}) <= Cardinality(Requests \ {r})
  BY <1>1, <1>2, FS_Subset
<1>4. Cardinality(Unserved \ {r}) \in Nat /\ Cardinality(Requests) \in Nat
  BY <1>3, FS_CardinalityType DEF FiniteInstance
<1>5. QED
  BY <1>1, <1>3, <1>4

LEMMA RoundsType ==
    ASSUME FiniteInstance, NEW r \in Requests
    PROVE  Rounds(r) \in 0..Cardinality(Requests) /\ Cardinality(Requests) \in Nat
BY OthersAreCounted DEF Rounds

LEMMA RoundsAreNumbers ==
    FiniteInstance => \A r \in Requests : Rounds(r) \in Nat
BY RoundsType

LEMMA RoundsTypeNext ==
    FiniteInstance => (\A r \in Requests : Rounds(r) \in Nat)'
<1>1. (FiniteInstance => \A r \in Requests : Rounds(r) \in Nat)'
  BY RoundsAreNumbers, PTL
<1>2. FiniteInstance' <=> FiniteInstance
  BY DEF FiniteInstance
<1>3. QED
  BY <1>1, <1>2

\* The benches in the map are no more than the workbenches.
LEMMA RegisteredBound ==
    ASSUME TypeOK, FiniteInstance, NEW b
    PROVE  /\ IsFiniteSet(Registered \ {b})
           /\ Cardinality(Registered \ {b}) \in Nat
           /\ Cardinality(Registered \ {b}) <= Cardinality(Workbenches)
<1>1. PICK f : f = [c \in Registered \ {b} |-> c[1]]
  OBVIOUS
<1>2. \A c \in Registered : c = <<c[1], registered[c[1]]>> /\ c[1] \in Workbenches
  BY DEF Registered
<1>3. f \in Injection(Registered \ {b}, Workbenches)
  BY <1>1, <1>2 DEF Injection, IsInjective
<1>4. QED
  BY <1>3, FS_Injection, FS_CardinalityType DEF FiniteInstance

\* What the types say of a request that counts.
TodoBound == \A r \in Requests : req[r].pc = "count" =>
    /\ IsFiniteSet(req[r].todo)
    /\ Cardinality(req[r].todo) <= Cardinality(Workbenches)

LEMMA StepsLimited ==
    ASSUME TypeOK, FiniteInstance, TodoBound PROVE StepsAreLimited
<1>1. SUFFICES ASSUME NEW r \in Requests
               PROVE  /\ StepsLeft(r) \in 0..MostSteps
                      /\ StepsLeft(r) = 0 <=> req[r].pc = "done"
  BY DEF StepsAreLimited
<1>2. PICK w \in Nat, n \in Nat : w = Cardinality(Workbenches) /\ n = Cardinality(Requests)
  BY FS_CardinalityType DEF FiniteInstance
<1>3. req[r].pc \in States /\ req[r].attempt \in 0..2
  BY TypesUnfold DEF ReqType
<1>4. PICK a \in 0..13 : /\ a = Ahead(req[r].pc, req[r].attempt)
                         /\ req[r].pc \notin {"count", "done"} => a > 0
  BY <1>3, AheadType
<1>5. PICK k \in 0..n : k = Rounds(r)
  BY <1>2, RoundsType
<1>6. req[r].pc = "count" => Cardinality(req[r].todo) \in 0..w
  BY <1>2, FS_CardinalityType DEF TodoBound
<1>7. QED
  BY <1>2, <1>4, <1>5, <1>6 DEF StepsLeft, MostSteps

\* A request's own part of the count.
LEMMA RestIsTheSame ==
    ASSUME TypeOK, FiniteInstance, TodoBound, NEW q \in Requests, UNCHANGED req[q],
           Rounds(q)' <= Rounds(q), Rounds(q) \in Nat, Rounds(q)' \in Nat
    PROVE  StepsLeft(q)' <= StepsLeft(q)
<1>1. PICK w \in Nat : w = Cardinality(Workbenches)
  BY FS_CardinalityType DEF FiniteInstance
<1>2. PICK a \in 0..13 : a = Ahead(req[q].pc, req[q].attempt)
  BY TypesUnfold, AheadType DEF ReqType
<1>3. req[q].pc = "count" => Cardinality(req[q].todo) \in Nat
  BY FS_CardinalityType DEF TodoBound
<1>4. QED
  BY <1>1, <1>2, <1>3 DEF StepsLeft

\* What a step may do to a bench without a run more: its kernel is let go of, or
\* stays with the run it has.
Eased(x, y) == y.running = 0 \/ (y.running = x.running /\ y.idle = x.idle)

AllEased == \A b \in Benches : Eased(bench[b], bench'[b])

LEMMA QuietEases ==
    ASSUME NEW x \in BenchType, NEW y, Sound(x), Quiet(x, y) PROVE Eased(x, y)
BY DEF Sound, Quiet, Eased

LEMMA OneBenchEased ==
    ASSUME TypeOK, NEW b \in Benches, NEW y,
           bench' = bench \/ bench' = [bench EXCEPT ![b] = y],
           bench' = bench \/ Eased(bench[b], y)
    PROVE  AllEased
<1>1. bench \in [Benches -> BenchType]
  BY TypesUnfold
<1>2. \A a \in Benches : Eased(bench[a], bench[a])
  BY DEF Eased
<1>3. QED
  BY <1>1, <1>2 DEF AllEased

\* A claim that has its kernel executes; the others leave the bench as free as it was.
LEMMA KernelUpGoes ==
    ASSUME TypeOK, KernelInv, NEW r \in Requests, KernelUp(r)
    PROVE  /\ req[r].pc = "kernel" /\ \A q \in Requests \ {r} : req'[q] = req[q]
           /\ req[r].op = "claim" => req'[r].pc = "executing"
           /\ req[r].op # "claim" => req'[r].pc = "status" /\ AllEased
<1>1. req \in [Requests -> ReqType] /\ req[r].pc = "kernel"
  BY Before DEF KernelUp
<1>2. PICK b \in Benches, x \in BenchType :
         /\ b = req[r].at /\ b = Here(r) /\ lock[b] = r
         /\ Quiet(bench[b], x) /\ x.kernel # 0
         /\ x.held /\ x.waiting = bench[b].waiting
         /\ pod' = PodHeldBy(b) /\ hub' \in HubType
         /\ \A k \in hub'.kernels : k[2] # 0
         /\ upsets' \in Nat /\ UNCHANGED <<registered, made, reaper>>
         /\ \/ /\ req[r].op = "claim"
               /\ bench' = [bench EXCEPT ![b] = Taken(x)]
               /\ Unlock(b)
               /\ req' = [req EXCEPT ![r] = [NewRequest EXCEPT
                             !.pc = "executing", !.op = "claim", !.at = b,
                             !.run = Taken(x).running, !.kernel = x.kernel]]
            \/ /\ req[r].op # "claim"
               /\ bench' = [bench EXCEPT ![b] = x]
               /\ req' = [req EXCEPT ![r].pc = "status", ![r].attempt = 0]
               /\ UNCHANGED lock
  BY KernelUpEffect
<1>3. CASE req[r].op = "claim"
  <2>1. PICK n : req' = [req EXCEPT ![r] = [NewRequest EXCEPT
                             !.pc = "executing", !.op = "claim", !.at = b,
                             !.run = n, !.kernel = x.kernel]]
    BY <1>2, <1>3
  <2>2. QED
    BY <1>1, <1>3, <2>1 DEF NewRequest
<1>4. CASE req[r].op # "claim"
  <2>1. /\ bench' = [bench EXCEPT ![b] = x]
        /\ req' = [req EXCEPT ![r].pc = "status", ![r].attempt = 0]
    BY <1>2, <1>4
  <2>2. bench[b] \in BenchType /\ Sound(bench[b])
    BY Before DEF KernelInv
  <2>3. AllEased
    BY <1>2, <2>1, <2>2, QuietEases, OneBenchEased
  <2>4. QED
    BY <1>1, <1>4, <2>1, <2>3 DEF ReqType
<1>5. QED
  BY <1>1, <1>3, <1>4

\* No step of a request makes a bench busy but the bring-up of a claim.
LEMMA RequestsEase ==
    ASSUME TypeOK, KernelInv, NEW r \in Requests, RequestStep(r),
           ~(KernelUp(r) /\ req[r].op = "claim")
    PROVE  AllEased
<1>1. ASSUME UNCHANGED bench PROVE AllEased
  BY <1>1 DEF AllEased, Eased
<1>2. ASSUME NEW b \in Benches, NEW y, Quiet(bench[b], y),
             bench' = [bench EXCEPT ![b] = y]
      PROVE  AllEased
  <2>1. bench[b] \in BenchType /\ Sound(bench[b])
    BY Before DEF KernelInv
  <2>2. QED
    BY <1>2, <2>1, QuietEases, OneBenchEased
<1>3. ASSUME NEW b \in Benches PROVE Quiet(bench[b], Dropped(bench[b]))
  BY Before, DroppedIsQuiet DEF KernelInv
<1>4. CASE RestartLocks(r)
  <2>1. PICK b \in Benches : b = Here(r)
    BY <1>4, Before DEF RestartLocks, Locks, Place, AtBench, States
  <2>2. bench' = [bench EXCEPT ![b] = Dropped(bench[b])]
    BY <1>4, <2>1 DEF RestartLocks, ShutDown
  <2>3. QED
    BY <1>2, <1>3, <2>2
<1>5. CASE EndKernel(r)
  BY <1>1, <1>2, <1>5, EndKernelEffect
<1>6. CASE ReachPod(r)
  <2>1. PICK b \in Benches : b = Here(r)
    BY <1>6, Holds DEF ReachPod, BringsUp
  <2>2. PICK d, y : /\ d \in BenchType
                    /\ d = Dropped(bench[b]) /\ d.running = 0
                    /\ y = [d EXCEPT !.generation = pod.generation]
    <3>1. bench[b] \in BenchType
      BY Before
    <3>2. PICK d : d = Dropped(bench[b])
      OBVIOUS
    <3>3. d \in BenchType /\ d.running = 0
      BY <3>1, <3>2, DroppedFields
    <3>4. QED
      BY <3>2, <3>3
  <2>3. Eased(bench[b], y)
    BY <2>2 DEF Eased, BenchType
  <2>4. bench' = bench \/ bench' = [bench EXCEPT ![b] = y]
    BY <1>6, <2>1, <2>2, Before DEF ReachPod
  <2>5. QED
    BY <2>3, <2>4, OneBenchEased
<1>7. CASE KernelMissed(r)
  <2>1. PICK b \in Benches : b = Here(r)
    BY <1>7, Holds DEF KernelMissed, BringsUp
  <2>2. PICK moved \in BOOLEAN, stage \in {"create", "dial", "push"} :
           bench' = [bench EXCEPT ![b] = KernelAfter(b, stage, moved)]
    BY <1>7, <2>1 DEF KernelMissed, Stages
  <2>3. Quiet(bench[b], KernelAfter(b, stage, moved))
    BY KernelAfterFields
  <2>4. QED
    BY <1>2, <2>2, <2>3
<1>8. CASE KernelUp(r)
  BY <1>8, KernelUpGoes
<1>9. CASE Enqueue(r) \/ Dequeue(r)
  <2>1. PICK b \in Benches : b = Here(r)
    BY <1>9, Before DEF Enqueue, Dequeue, Place, AtBench, States
  <2>2. PICK n \in Int : bench' = [bench EXCEPT ![b].waiting = n]
    <3>1. bench[b].waiting \in Int
      BY Before DEF BenchType
    <3>2. QED
      BY <1>9, <2>1, <3>1 DEF Enqueue, Dequeue
  <2>3. PICK x, y : x \in BenchType /\ x = bench[b] /\ y = [x EXCEPT !.waiting = n]
    BY Before
  <2>4. Eased(x, y)
    BY <2>3 DEF Eased, BenchType
  <2>5. QED
    BY <2>2, <2>3, <2>4, OneBenchEased
<1>10. CASE FinishRun(r)
  <2>1. PICK b \in Benches : b = Here(r)
    BY <1>10, Before DEF FinishRun, Place, AtBench, States
  <2>2. bench' = bench \/ bench' = [bench EXCEPT ![b] = Freed(bench[b])]
    BY <1>10, <2>1 DEF FinishRun
  <2>3. Eased(bench[b], Freed(bench[b]))
    BY Before, FreedFields DEF Eased
  <2>4. QED
    BY <2>2, <2>3, OneBenchEased
<1>11. QED
  BY <1>1, <1>4, <1>5, <1>6, <1>7, <1>8, <1>9, <1>10
     DEF RequestStep, EnsureStep, ClaimStep, StatusStep, ClaimFree, ClaimBusy, Woken, GiveUp,
         EnsureLocks, StatusLocks, MissPod, NotGone, HearGone, DropServer, CountKernels,
         CountOne, StatusAnswered, CellEnds

\* Nor does any of the others.
LEMMA WorldEases ==
    ASSUME TypeOK, KernelInv,
           Arrive \/ Sweep \/ ReaperStep \/ Cull \/ Lose \/ UNCHANGED vars
    PROVE  AllEased
<1>1. ASSUME UNCHANGED bench PROVE AllEased
  BY <1>1 DEF AllEased, Eased
<1>2. ASSUME \A b \in Benches : Quiet(bench[b], bench'[b]) PROVE AllEased
  BY <1>2, Before, QuietEases DEF AllEased, KernelInv
<1>3. ASSUME NEW b \in Benches, Release(b) PROVE AllEased
  BY <1>2, <1>3, ReleaseEffect, OneBench
<1>4. CASE Cull \/ Lose
  BY <1>2, <1>4, BrokenIsQuiet DEF Cull, Lose
<1>5. QED
  BY <1>1, <1>3, <1>4
     DEF Arrive, AskForKernel, AskForStatus, Find, LookUp, Sweep, ReaperStep, Forget,
         SweepEnds, vars

-----------------------------------------------------------------------------
(* A request that others move beside.                                        *)

\* The others do not lengthen its way: whoever takes the kernel is no longer among
\* those that may.
LEMMA OthersLengthenNothing ==
    ASSUME TypeOK, KernelInv, FiniteInstance, TodoBound, NEW q \in Requests,
           UNCHANGED req[q],
           Unserved' \subseteq Unserved,
           AllEased \/ \E r \in Unserved \ {q} : r \notin Unserved'
    PROVE  StepsLeft(q)' <= StepsLeft(q)
<1>1. /\ Cardinality(Unserved \ {q}) \in Nat /\ IsFiniteSet(Unserved \ {q})
      /\ Cardinality(Unserved' \ {q}) \in Nat
      /\ Cardinality(Unserved' \ {q}) <= Cardinality(Unserved \ {q})
  <2>1. Unserved' \ {q} \in SUBSET (Unserved \ {q})
    OBVIOUS
  <2>2. QED
    BY <2>1, OthersAreCounted, FS_Subset, FS_CardinalityType
<1>2. CASE AllEased
  <2>1. Contends(q) => (FindsARun(q)' => FindsARun(q))
    <3>1. SUFFICES ASSUME Contends(q), FindsARun(q)' PROVE FindsARun(q)
      OBVIOUS
    <3>2. Here(q) \in Benches /\ Here(q)' = Here(q)
      BY <3>1, Before DEF Contends, Place, AtBench, States, Here
    <3>3. Eased(bench[Here(q)], bench'[Here(q)])
      BY <1>2, <3>2 DEF AllEased
    <3>4. QED
      BY <3>1, <3>2, <3>3 DEF FindsARun, Eased
  <2>2. Contends(q)' <=> Contends(q)
    BY DEF Contends
  <2>3. Rounds(q)' <= Rounds(q) /\ Rounds(q) \in Nat /\ Rounds(q)' \in Nat
    BY <1>1, <2>1, <2>2 DEF Rounds
  <2>4. QED
    BY <2>3, RestIsTheSame
<1>3. CASE \E r \in Unserved \ {q} : r \notin Unserved'
  <2>1. PICK r \in Unserved \ {q} : r \notin Unserved'
    BY <1>3
  <2>2. Unserved' \ {q} \in SUBSET ((Unserved \ {q}) \ {r})
    BY <2>1
  <2>3. /\ IsFiniteSet((Unserved \ {q}) \ {r})
        /\ Cardinality((Unserved \ {q}) \ {r}) = Cardinality(Unserved \ {q}) - 1
    BY <1>1, <2>1, FS_RemoveElement
  <2>4. Cardinality(Unserved' \ {q}) + 1 <= Cardinality(Unserved \ {q})
    BY <1>1, <2>2, <2>3, FS_Subset
  <2>5. Contends(q)' <=> Contends(q)
    BY DEF Contends
  <2>6. Rounds(q)' <= Rounds(q) /\ Rounds(q) \in Nat /\ Rounds(q)' \in Nat
    BY <1>1, <2>4, <2>5 DEF Rounds
  <2>7. QED
    BY <2>6, RestIsTheSame
<1>4. QED
  BY <1>2, <1>3

-----------------------------------------------------------------------------
(* A request's own steps.                                                    *)

\* How a step takes a request on: to its answer, along its way, or once more round
\* the queue.
TakenOn(r) ==
    \/ req'[r].pc = "done" /\ req[r].pc # "done"
    \/ /\ req[r].pc = "status" /\ req'[r].pc = "count"
       /\ Cardinality(req'[r].todo) <= Cardinality(Workbenches)
       /\ Cardinality(req'[r].todo) \in Nat
    \/ /\ req[r].pc = "count" /\ req'[r].pc = "count"
       /\ Cardinality(req'[r].todo) + 1 = Cardinality(req[r].todo)
    \/ /\ req[r].pc \notin {"count", "done"} /\ req'[r].pc \notin {"count", "done"}
       /\ Rounds(r)' <= Rounds(r)
       /\ Ahead(req'[r].pc, req'[r].attempt) < Ahead(req[r].pc, req[r].attempt)
    \/ req[r].pc = "lock" /\ req'[r].pc = "enqueue" /\ Rounds(r)' + 1 <= Rounds(r)

LEMMA TakenOnRunsOut ==
    ASSUME TypeOK, TypeOK', FiniteInstance, TodoBound, NEW r \in Requests, TakenOn(r)
    PROVE  StepsLeft(r)' < StepsLeft(r) /\ StepsLeft(r)' <= StepsLeft(r)
<1>1. PICK w \in Nat : w = Cardinality(Workbenches)
  BY FS_CardinalityType DEF FiniteInstance
<1>2. /\ req[r].pc \in States /\ req[r].attempt \in 0..2
      /\ req'[r].pc \in States /\ req'[r].attempt \in 0..2
  <2>1. req \in [Requests -> ReqType] /\ req' \in [Requests -> ReqType]
    BY DEF TypeOK, ReqType, Ops
  <2>2. QED
    BY <2>1 DEF ReqType
<1>3. PICK a \in 0..13 : /\ a = Ahead(req[r].pc, req[r].attempt)
                         /\ req[r].pc \notin {"count", "done"} => a > 0
  BY <1>2, AheadType
<1>4. PICK z \in 0..13 : z = Ahead(req'[r].pc, req'[r].attempt)
  BY <1>2, AheadType
<1>5. PICK m \in Nat, n \in Nat : m = Rounds(r) /\ n = Rounds(r)'
  BY RoundsType, RoundsTypeNext
<1>6. req[r].pc = "count" => Cardinality(req[r].todo) \in Nat
  BY FS_CardinalityType DEF TodoBound
<1>7. CASE req'[r].pc = "done" /\ req[r].pc # "done"
  BY <1>1, <1>3, <1>5, <1>6, <1>7 DEF StepsLeft
<1>8. CASE /\ req[r].pc = "status" /\ req'[r].pc = "count"
           /\ Cardinality(req'[r].todo) <= Cardinality(Workbenches)
           /\ Cardinality(req'[r].todo) \in Nat
  <2>1. a = 2
    BY <1>3, <1>8 DEF Ahead
  <2>2. QED
    BY <1>1, <1>3, <1>5, <1>8, <2>1 DEF StepsLeft
<1>9. CASE /\ req[r].pc = "count" /\ req'[r].pc = "count"
           /\ Cardinality(req'[r].todo) + 1 = Cardinality(req[r].todo)
  <2>1. PICK k \in Nat : k = Cardinality(req[r].todo)
    BY <1>6, <1>9
  <2>2. StepsLeft(r) = k + 1
    BY <1>9, <2>1 DEF StepsLeft
  <2>3. StepsLeft(r)' = k
    BY <1>9, <2>1 DEF StepsLeft
  <2>4. QED
    BY <2>1, <2>2, <2>3
<1>10. CASE /\ req[r].pc \notin {"count", "done"} /\ req'[r].pc \notin {"count", "done"}
            /\ Rounds(r)' <= Rounds(r)
            /\ Ahead(req'[r].pc, req'[r].attempt) < Ahead(req[r].pc, req[r].attempt)
  BY <1>1, <1>3, <1>4, <1>5, <1>10 DEF StepsLeft
<1>11. CASE req[r].pc = "lock" /\ req'[r].pc = "enqueue" /\ Rounds(r)' + 1 <= Rounds(r)
  <2>1. a = 9 /\ z = 12
    BY <1>3, <1>4, <1>11 DEF Ahead
  <2>2. QED
    BY <1>1, <1>3, <1>4, <1>5, <1>11, <2>1 DEF StepsLeft
<1>12. QED
  BY <1>7, <1>8, <1>9, <1>10, <1>11 DEF TakenOn

LEMMA RoundsDoNotGrow ==
    ASSUME FiniteInstance, NEW r \in Requests, Unserved' \subseteq Unserved,
           \/ req[r].pc = "new" /\ req'[r].pc # "new"
           \/ ~Contends(r)' /\ req'[r].pc # "new"
           \/ /\ req[r].pc # "new" /\ req'[r].pc # "new"
              /\ Contends(r) /\ (FindsARun(r)' => FindsARun(r))
    PROVE  Rounds(r)' <= Rounds(r)
<1>1. /\ Cardinality(Unserved \ {r}) \in Nat
      /\ Cardinality(Unserved' \ {r}) \in Nat
      /\ Cardinality(Unserved' \ {r}) <= Cardinality(Unserved \ {r})
  <2>1. Unserved' \ {r} \in SUBSET (Unserved \ {r})
    OBVIOUS
  <2>2. QED
    BY <2>1, OthersAreCounted, FS_Subset, FS_CardinalityType
<1>2. Rounds(r)' = (IF req'[r].pc = "new" THEN Cardinality(Unserved' \ {r}) + 1
                    ELSE IF Contends(r)'
                         THEN Cardinality(Unserved' \ {r})
                              + (IF FindsARun(r)' THEN 1 ELSE 0)
                         ELSE 0)
  BY DEF Rounds
<1>3. Rounds(r) = (IF req[r].pc = "new" THEN Cardinality(Unserved \ {r}) + 1
                   ELSE IF Contends(r)
                        THEN Cardinality(Unserved \ {r})
                             + (IF FindsARun(r) THEN 1 ELSE 0)
                        ELSE 0)
  BY DEF Rounds
<1>4. QED
  BY <1>1, <1>2, <1>3

\* A step along the way, to a place from where no queue is entered.
LEMMA StepsAlong ==
    ASSUME FiniteInstance, NEW r \in Requests, Unserved' \subseteq Unserved,
           req[r].pc \notin {"count", "done"},
           req'[r].pc \in {"pod", "kernel", "ask", "drop", "status", "executing",
                           "finishing"},
           Ahead(req'[r].pc, req'[r].attempt) < Ahead(req[r].pc, req[r].attempt)
    PROVE  TakenOn(r)
<1>1. ~Contends(r)' /\ req'[r].pc # "new"
  BY DEF Contends
<1>2. Rounds(r)' <= Rounds(r)
  BY <1>1, RoundsDoNotGrow
<1>3. QED
  BY <1>2 DEF TakenOn

\* Nobody comes back among those that may take the kernel.
LEMMA UnservedFalls ==
    ASSUME NEW r \in Requests, \A q \in Requests \ {r} : req'[q] = req[q],
           req[r].pc \notin {"executing", "finishing", "done"}
              \/ req'[r].pc \in {"executing", "finishing", "done"}
    PROVE  Unserved' \subseteq Unserved
BY DEF Unserved

LEMMA TodoStays ==
    ASSUME TodoBound, NEW r \in Requests, \A q \in Requests \ {r} : req'[q] = req[q],
           req'[r].pc # "count" PROVE TodoBound'
BY DEF TodoBound

\* A step that moves one request on.
MovesOn(r) == /\ \A q \in Requests \ {r} : req'[q] = req[q]
              /\ Unserved' \subseteq Unserved
              /\ TakenOn(r)
              /\ TodoBound'

LEMMA ReturnMovesOn ==
    ASSUME TypeOK, FiniteInstance, TodoBound, NEW r \in Requests, Return(r),
           req[r].pc # "done"
    PROVE  MovesOn(r)
<1>1. /\ req'[r].pc = "done" /\ \A q \in Requests \ {r} : req'[q] = req[q]
  BY Returns
<1>2. QED
  BY <1>1, UnservedFalls, TodoStays DEF MovesOn, TakenOn

\* The same for a step along the way.
LEMMA AlongMovesOn ==
    ASSUME FiniteInstance, TodoBound, NEW r \in Requests,
           \A q \in Requests \ {r} : req'[q] = req[q],
           req[r].pc \notin {"count", "done"},
           req'[r].pc \in {"pod", "kernel", "ask", "drop", "status", "executing",
                           "finishing"},
           req[r].pc \in {"executing", "finishing"}
              => req'[r].pc \in {"executing", "finishing"},
           Ahead(req'[r].pc, req'[r].attempt) < Ahead(req[r].pc, req[r].attempt)
    PROVE  MovesOn(r)
<1>1. Unserved' \subseteq Unserved
  BY UnservedFalls
<1>2. QED
  BY <1>1, StepsAlong, TodoStays DEF MovesOn

\* And for one round the queue.
LEMMA QueueMovesOn ==
    ASSUME FiniteInstance, TodoBound, NEW r \in Requests,
           \A q \in Requests \ {r} : req'[q] = req[q],
           req[r].pc \in {"enqueue", "queued", "dequeue"},
           req'[r].pc \in {"queued", "dequeue", "lock"},
           ~Contends(r)' \/ (Contends(r) /\ (FindsARun(r)' => FindsARun(r))),
           Ahead(req'[r].pc, req'[r].attempt) < Ahead(req[r].pc, req[r].attempt)
    PROVE  MovesOn(r)
<1>1. Unserved' \subseteq Unserved
  BY UnservedFalls
<1>2. Rounds(r)' <= Rounds(r)
  BY <1>1, RoundsDoNotGrow
<1>3. TakenOn(r)
  BY <1>2 DEF TakenOn
<1>4. QED
  BY <1>1, <1>3, TodoStays DEF MovesOn

LEMMA EnsureMovesOn ==
    ASSUME TypeOK, KernelInv, FiniteInstance, TodoBound, NEW r \in Requests,
           EnsureStep(r)
    PROVE  MovesOn(r)
<1>1. req \in [Requests -> ReqType]
  BY Before
<1>2. CASE ReachPod(r)
  <2>1. /\ \A q \in Requests \ {r} : req'[q] = req[q]
        /\ req[r].pc = "pod" /\ req'[r].pc = "kernel" /\ req'[r].attempt = req[r].attempt
    BY <1>1, <1>2 DEF ReachPod, Goto, ReqType
  <2>2. QED
    BY <2>1, AlongMovesOn DEF Ahead
<1>3. ASSUME NEW remembered, req[r].pc \in {"pod", "kernel"}, Misses(r, remembered)
      PROVE  MovesOn(r)
  <2>1. CASE Return(r)
    BY <1>3, <2>1, ReturnMovesOn
  <2>2. CASE req[r].attempt = 1 /\ Goto(r, "ask")
    <3>1. /\ \A q \in Requests \ {r} : req'[q] = req[q]
          /\ req'[r].pc = "ask" /\ req'[r].attempt = 1
      BY <1>1, <2>2 DEF Goto, ReqType
    <3>2. QED
      BY <1>3, <2>2, <3>1, AlongMovesOn DEF Ahead
  <2>3. QED
    BY <1>3, <2>1, <2>2 DEF Misses
<1>4. CASE MissPod(r) \/ KernelMissed(r)
  BY <1>3, <1>4 DEF MissPod, KernelMissed
<1>5. CASE KernelUp(r)
  <2>1. /\ \A q \in Requests \ {r} : req'[q] = req[q]
        /\ req[r].pc = "kernel" /\ req'[r].pc \in {"executing", "status"}
    BY <1>5, KernelUpGoes
  <2>2. QED
    BY <2>1, AlongMovesOn DEF Ahead
<1>6. CASE NotGone(r)
  BY <1>6, ReturnMovesOn DEF NotGone
<1>7. CASE HearGone(r)
  <2>1. /\ \A q \in Requests \ {r} : req'[q] = req[q]
        /\ req[r].pc = "ask" /\ req'[r].pc = "drop"
    BY <1>1, <1>7 DEF HearGone, Goto, ReqType
  <2>2. QED
    BY <2>1, AlongMovesOn DEF Ahead
<1>8. CASE DropServer(r)
  <2>1. /\ \A q \in Requests \ {r} : req'[q] = req[q]
        /\ req[r].pc = "drop" /\ req'[r].pc = "pod" /\ req'[r].attempt = 2
    BY <1>1, <1>8 DEF DropServer, ReqType
  <2>2. QED
    BY <2>1, AlongMovesOn DEF Ahead
<1>9. QED
  BY <1>2, <1>4, <1>5, <1>6, <1>7, <1>8 DEF EnsureStep

LEMMA LocksMoveOn ==
    ASSUME TypeOK, KernelInv, FiniteInstance, TodoBound, NEW r \in Requests,
           ClaimFree(r) \/ EnsureLocks(r) \/ RestartLocks(r) \/ StatusLocks(r)
    PROVE  MovesOn(r)
<1>1. PICK label, attempt : /\ (label = "pod" /\ attempt = 1) \/ label = "status"
                            /\ Takes(r, label, attempt) /\ req[r].pc = "lock"
  BY DEF ClaimFree, EnsureLocks, RestartLocks, StatusLocks, Locks
<1>2. /\ \A q \in Requests \ {r} : req'[q] = req[q]
      /\ req'[r].pc = label /\ req'[r].attempt = attempt
  BY <1>1, Before DEF Takes, ReqType
<1>3. QED
  BY <1>1, <1>2, AlongMovesOn DEF Ahead

LEMMA ClaimMovesOn ==
    ASSUME TypeOK, KernelInv, FiniteInstance, TodoBound, NEW r \in Requests,
           ClaimStep(r)
    PROVE  MovesOn(r)
<1>1. req \in [Requests -> ReqType]
  BY Before
<1>2. CASE ClaimFree(r)
  BY <1>2, LocksMoveOn
<1>3. CASE ClaimBusy(r)
  <2>1. req[r].pc = "lock" /\ UNCHANGED bench /\ bench[Here(r)].running # 0
    BY <1>3 DEF ClaimBusy, Locks
  <2>2. CASE Return(r)
    BY <2>1, <2>2, ReturnMovesOn
  <2>3. CASE req' = [req EXCEPT ![r].pc = "enqueue", ![r].idle = bench[Here(r)].idle]
    <3>1. /\ \A q \in Requests \ {r} : req'[q] = req[q]
          /\ req'[r].pc = "enqueue" /\ req'[r].idle = bench[Here(r)].idle
          /\ req'[r].at = req[r].at
      BY <1>1, <2>3 DEF ReqType
    <3>2. Unserved' \subseteq Unserved
      BY <2>1, <3>1, UnservedFalls
    <3>3. /\ Cardinality(Unserved \ {r}) \in Nat
          /\ Cardinality(Unserved' \ {r}) \in Nat
          /\ Cardinality(Unserved' \ {r}) <= Cardinality(Unserved \ {r})
      <4>1. Unserved' \ {r} \in SUBSET (Unserved \ {r})
        BY <3>2
      <4>2. QED
        BY <4>1, OthersAreCounted, FS_Subset, FS_CardinalityType
    <3>4. Rounds(r) = Cardinality(Unserved \ {r}) + 1
      BY <2>1 DEF Rounds, Contends, FindsARun
    <3>5. ~FindsARun(r)'
      BY <2>1, <3>1 DEF FindsARun, Here
    <3>6. Rounds(r)' = Cardinality(Unserved' \ {r})
      BY <3>1, <3>3, <3>5 DEF Rounds, Contends
    <3>7. TakenOn(r)
      BY <2>1, <3>1, <3>3, <3>4, <3>6 DEF TakenOn
    <3>8. QED
      BY <3>1, <3>2, <3>7, TodoStays DEF MovesOn
  <2>4. QED
    BY <1>3, <2>2, <2>3 DEF ClaimBusy
<1>4. ASSUME AllEased, req[r].pc \in {"enqueue", "queued", "dequeue"},
             req'[r].at = req[r].at, req'[r].idle = req[r].idle,
             req[r].pc = "dequeue" \/ req'[r].pc = "queued"
      PROVE  FindsARun(r)' => FindsARun(r)
  <2>1. PICK b \in Benches : b = req[r].at
    BY <1>4, Before DEF Place, AtBench, States, Here
  <2>2. Eased(bench[b], bench'[b])
    BY <1>4 DEF AllEased
  <2>3. QED
    BY <1>4, <2>1, <2>2 DEF FindsARun, Here, Eased
<1>5. CASE Enqueue(r)
  <2>1. AllEased
    BY <1>5, RequestsEase DEF RequestStep, ClaimStep, Enqueue, KernelUp
  <2>2. /\ \A q \in Requests \ {r} : req'[q] = req[q]
        /\ req[r].pc = "enqueue" /\ req'[r].pc = "queued"
        /\ req'[r].at = req[r].at /\ req'[r].idle = req[r].idle
    BY <1>1, <1>5 DEF Enqueue, Goto, ReqType
  <2>3. FindsARun(r)' => FindsARun(r)
    <3>1. /\ req[r].pc \in {"enqueue", "queued", "dequeue"}
          /\ req[r].pc = "dequeue" \/ req'[r].pc = "queued"
      BY <2>2
    <3>2. QED
      BY <1>4, <2>1, <2>2, <3>1
  <2>4. QED
    BY <2>2, <2>3, QueueMovesOn DEF Contends, Ahead
<1>6. CASE Woken(r)
  <2>1. PICK patient \in BOOLEAN :
           req' = [req EXCEPT ![r].pc = "dequeue", ![r].back = "lock",
                              ![r].patient = patient, ![r].idle = 0]
    BY <1>6 DEF Woken
  <2>2. /\ \A q \in Requests \ {r} : req'[q] = req[q]
        /\ req'[r].pc = "dequeue" /\ req'[r].at = req[r].at
    BY <1>1, <2>1 DEF ReqType
  <2>3. /\ req[r].pc = "queued" /\ UNCHANGED bench
        /\ bench[Here(r)].idle # req[r].idle
    BY <1>6 DEF Woken
  <2>4. FindsARun(r)' => FindsARun(r)
    BY <2>2, <2>3 DEF FindsARun, Here
  <2>5. QED
    BY <2>2, <2>3, <2>4, QueueMovesOn DEF Contends, Ahead
<1>7. CASE GiveUp(r)
  <2>1. /\ \A q \in Requests \ {r} : req'[q] = req[q]
        /\ req[r].pc = "queued" /\ req'[r].pc = "dequeue" /\ req'[r].back = "done"
    BY <1>1, <1>7 DEF GiveUp, ReqType
  <2>2. QED
    BY <2>1, QueueMovesOn DEF Contends, Ahead
<1>8. CASE Dequeue(r)
  <2>1. CASE Return(r)
    BY <1>8, <2>1, ReturnMovesOn DEF Dequeue
  <2>2. CASE /\ req[r].back = "lock"
             /\ req' = [req EXCEPT ![r].pc = "lock", ![r].back = "none"]
    <3>1. /\ \A q \in Requests \ {r} : req'[q] = req[q]
          /\ req[r].pc = "dequeue" /\ req'[r].pc = "lock"
          /\ req'[r].at = req[r].at /\ req'[r].idle = req[r].idle
      BY <1>1, <1>8, <2>2 DEF Dequeue, ReqType
    <3>2. AllEased
      BY <1>8, RequestsEase DEF RequestStep, ClaimStep, Dequeue, KernelUp
    <3>3. FindsARun(r)' => FindsARun(r)
      BY <1>4, <3>1, <3>2
    <3>4. Contends(r)
      BY <2>2, <3>1 DEF Contends
    <3>5. Ahead(req'[r].pc, req'[r].attempt) < Ahead(req[r].pc, req[r].attempt)
      BY <3>1 DEF Ahead
    <3>6. QED
      BY <3>1, <3>3, <3>4, <3>5, QueueMovesOn
  <2>3. QED
    BY <1>8, <2>1, <2>2 DEF Dequeue
<1>9. CASE CellEnds(r)
  <2>1. /\ \A q \in Requests \ {r} : req'[q] = req[q]
        /\ req[r].pc = "executing" /\ req'[r].pc = "finishing"
    BY <1>1, <1>9 DEF CellEnds, ReqType
  <2>2. QED
    BY <2>1, AlongMovesOn DEF Ahead
<1>10. CASE FinishRun(r)
  BY <1>10, ReturnMovesOn DEF FinishRun
<1>11. QED
  BY <1>2, <1>3, <1>5, <1>6, <1>7, <1>8, <1>9, <1>10 DEF ClaimStep

LEMMA StatusMovesOn ==
    ASSUME TypeOK, KernelInv, FiniteInstance, TodoBound, NEW r \in Requests,
           StatusStep(r)
    PROVE  MovesOn(r)
<1>1. req \in [Requests -> ReqType]
  BY Before
<1>2. CASE EnsureLocks(r) \/ RestartLocks(r) \/ StatusLocks(r)
  BY <1>2, LocksMoveOn
<1>3. ASSUME req[r].pc \in {"status", "count"}, req'[r].pc = "count",
             \A q \in Requests \ {r} : req'[q] = req[q]
      PROVE  Unserved' \subseteq Unserved
  BY <1>3, UnservedFalls
<1>4. CASE CountKernels(r)
  <2>1. /\ \A q \in Requests \ {r} : req'[q] = req[q]
        /\ req[r].pc = "status" /\ req'[r].pc = "count"
        /\ req'[r].todo = Registered \ {Here(r)}
    BY <1>1, <1>4 DEF CountKernels, ReqType
  <2>2. /\ IsFiniteSet(req'[r].todo) /\ Cardinality(req'[r].todo) \in Nat
        /\ Cardinality(req'[r].todo) <= Cardinality(Workbenches)
    BY <2>1, RegisteredBound
  <2>3. TodoBound'
    BY <2>1, <2>2 DEF TodoBound
  <2>4. QED
    BY <1>3, <2>1, <2>2, <2>3 DEF MovesOn, TakenOn
<1>5. CASE CountOne(r)
  <2>1. PICK b \in req[r].todo : req' = [req EXCEPT ![r].todo = @ \ {b}]
    BY <1>5 DEF CountOne
  <2>2. /\ \A q \in Requests \ {r} : req'[q] = req[q]
        /\ req[r].pc = "count" /\ req'[r].pc = "count"
        /\ req'[r].todo = req[r].todo \ {b}
    BY <1>1, <1>5, <2>1 DEF CountOne, ReqType
  <2>3. PICK n \in Nat : n = Cardinality(req[r].todo)
    BY <2>2, FS_CardinalityType DEF TodoBound
  <2>4. IsFiniteSet(req'[r].todo) /\ Cardinality(req'[r].todo) = n - 1
    BY <2>1, <2>2, <2>3, FS_RemoveElement DEF TodoBound
  <2>5. PICK w \in Nat : w = Cardinality(Workbenches) /\ n <= w
    BY <2>2, <2>3, FS_CardinalityType DEF FiniteInstance, TodoBound
  <2>6. TodoBound'
    <3>1. Cardinality(req'[r].todo) <= Cardinality(Workbenches)
      BY <2>3, <2>4, <2>5
    <3>2. QED
      BY <2>2, <2>4, <3>1 DEF TodoBound
  <2>7. TakenOn(r)
    BY <2>2, <2>3, <2>4 DEF TakenOn
  <2>8. QED
    BY <1>3, <2>2, <2>6, <2>7 DEF MovesOn
<1>6. CASE StatusAnswered(r)
  BY <1>6, ReturnMovesOn DEF StatusAnswered
<1>7. QED
  BY <1>2, <1>4, <1>5, <1>6 DEF StatusStep

LEMMA RequestsMoveOn ==
    ASSUME TypeOK, KernelInv, FiniteInstance, TodoBound, NEW r \in Requests,
           RequestStep(r)
    PROVE  MovesOn(r)
<1>1. CASE EndKernel(r)
  BY <1>1, ReturnMovesOn DEF EndKernel, Locks
<1>2. QED
  BY <1>1, EnsureMovesOn, ClaimMovesOn, StatusMovesOn DEF RequestStep

\* Arriving is a step of the request that comes.
LEMMA ArrivalsMoveOn ==
    ASSUME TypeOK, KernelInv, FiniteInstance, TodoBound, Arrive
    PROVE  \E r \in Requests : MovesOn(r)
<1>1. ASSUME NEW r \in Requests, NEW y, req[r].pc = "new",
             y.pc \in {"lock", "status", "done"}, req' = [req EXCEPT ![r] = y]
      PROVE  MovesOn(r)
  <2>1. \A q \in Requests \ {r} : req'[q] = req[q]
    BY <1>1, Before
  <2>2. req'[r] = y
    BY <1>1, Before
  <2>3. Unserved' \subseteq Unserved
    BY <1>1, <2>1, UnservedFalls
  <2>4. TodoBound'
    BY <1>1, <2>1, <2>2, TodoStays
  <2>5. Rounds(r)' <= Rounds(r)
    BY <1>1, <2>2, <2>3, RoundsDoNotGrow
  <2>6. TakenOn(r)
    BY <1>1, <2>2, <2>5 DEF TakenOn, Ahead
  <2>7. QED
    BY <2>1, <2>3, <2>4, <2>6 DEF MovesOn
<1>2. ASSUME NEW r \in Requests, NEW w, NEW op, NEW patient, Find(r, w, op, patient)
      PROVE  MovesOn(r)
  <2>1. PICK y, n : /\ y = [NewRequest EXCEPT !.pc = "lock", !.op = op, !.at = <<w, n>>,
                                             !.patient = patient]
                   /\ req' = [req EXCEPT ![r] = y]
    BY <1>2 DEF Find
  <2>2. y.pc = "lock"
    BY <2>1 DEF NewRequest
  <2>3. QED
    BY <1>1, <1>2, <2>1, <2>2 DEF Find
<1>3. ASSUME NEW r \in Requests, NEW op, LookUp(r, op) PROVE MovesOn(r)
  <2>1. PICK y, n : /\ req' = [req EXCEPT ![r] = y]
                   /\ \/ y = [NewRequest EXCEPT !.pc = "lock", !.op = op, !.at = n]
                      \/ y = [NewRequest EXCEPT !.pc = "status", !.op = op]
                      \/ y = Answered
    <3>1. PICK w \in Names[r] :
             req' = [req EXCEPT ![r] =
                IF registered[w] # 0
                THEN [NewRequest EXCEPT !.pc = "lock", !.op = op,
                                        !.at = <<w, registered[w]>>]
                ELSE IF op = "status"
                THEN [NewRequest EXCEPT !.pc = "status", !.op = op]
                ELSE Answered]
      BY <1>3 DEF LookUp
    <3>2. QED
      BY <3>1
  <2>2. y.pc \in {"lock", "status", "done"}
    BY <2>1, FreshRequests DEF NewRequest
  <2>3. QED
    BY <1>1, <1>3, <2>1, <2>2 DEF LookUp
<1>4. Claimers \union Reporters \union Enders = Requests
  BY DEF Requests
<1>5. QED
  BY <1>2, <1>3, <1>4 DEF Arrive, AskForKernel, AskForStatus

\* One step of anybody, for every request.
LEMMA StepRunsOut ==
    ASSUME TypeOK, TypeOK', KernelInv, FiniteInstance, TodoBound, [Next]_vars
    PROVE  TodoBound' /\ StepsRunOut
<1>1. ASSUME NEW r \in Requests, MovesOn(r),
             AllEased \/ (KernelUp(r) /\ req[r].op = "claim")
      PROVE  /\ \A q \in Requests \ {r} : StepsLeft(q)' <= StepsLeft(q) /\ req'[q] = req[q]
             /\ StepsLeft(r)' < StepsLeft(r) /\ StepsLeft(r)' <= StepsLeft(r)
             /\ TodoBound'
  <2>1. /\ StepsLeft(r)' < StepsLeft(r) /\ StepsLeft(r)' <= StepsLeft(r)
        /\ TodoBound'
    BY <1>1, TakenOnRunsOut DEF MovesOn
  <2>2. ASSUME NEW q \in Requests \ {r}
        PROVE  StepsLeft(q)' <= StepsLeft(q) /\ req'[q] = req[q]
    <3>1. Unserved' \subseteq Unserved /\ req'[q] = req[q]
      BY <1>1, <2>2 DEF MovesOn
    <3>2. CASE AllEased
      BY <2>2, <3>1, <3>2, OthersLengthenNothing
    <3>3. CASE KernelUp(r) /\ req[r].op = "claim"
      <4>1. req[r].pc = "kernel" /\ req'[r].pc = "executing"
        BY <3>3, KernelUpGoes
      <4>2. r \in Unserved \ {q} /\ r \notin Unserved'
        BY <2>2, <4>1 DEF Unserved
      <4>3. QED
        BY <2>2, <3>1, <4>2, OthersLengthenNothing
    <3>4. QED
      BY <1>1, <3>2, <3>3
  <2>3. QED
    BY <2>1, <2>2
<1>2. ASSUME NEW r \in Requests, RequestStep(r)
      PROVE  MovesOn(r) /\ StepsLeft(r)' < StepsLeft(r)
  BY <1>2, RequestsMoveOn, TakenOnRunsOut DEF MovesOn
<1>3. ASSUME NEW r \in Requests, MovesOn(r),
             AllEased \/ (KernelUp(r) /\ req[r].op = "claim")
      PROVE  TodoBound' /\ StepsRunOut
  <2>1. \A q \in Requests : /\ StepsLeft(q)' <= StepsLeft(q)
                           /\ req'[q] # req[q] => StepsLeft(q)' < StepsLeft(q)
    BY <1>1, <1>3
  <2>2. QED
    BY <1>1, <1>2, <1>3, <2>1 DEF StepsRunOut
<1>4. ASSUME NEW r \in Requests, RequestStep(r) PROVE TodoBound' /\ StepsRunOut
  BY <1>2, <1>3, <1>4, RequestsEase
<1>5. CASE Arrive
  BY <1>3, <1>5, ArrivalsMoveOn, WorldEases
<1>6. CASE Sweep \/ ReaperStep \/ Cull \/ Lose \/ UNCHANGED vars
  <2>1. UNCHANGED req
    BY <1>6 DEF Sweep, ReaperStep, Release, Forget, SweepEnds, Cull, Lose, vars
  <2>2. AllEased
    BY <1>6, WorldEases
  <2>3. Unserved' \subseteq Unserved
    BY <2>1 DEF Unserved
  <2>4. \A q \in Requests : StepsLeft(q)' <= StepsLeft(q) /\ req'[q] = req[q]
    BY <2>1, <2>2, <2>3, OthersLengthenNothing
  <2>5. TodoBound'
    BY <2>1 DEF TodoBound
  <2>6. QED
    BY <1>2, <2>4, <2>5 DEF StepsRunOut
<1>7. QED
  BY <1>4, <1>5, <1>6 DEF Next

\* No request takes more than MostSteps steps, whatever comes before it: each of its
\* steps leaves it fewer, and no step of another request, of the reaper or of the pod
\* gives it one back.  A caller is sent back to the queue at most once for each of
\* the others and once for the run it finds, and serverGone is asked once.
THEOREM RequestsRunOut ==
    FiniteInstance /\ Spec => []StepsAreLimited /\ [][StepsRunOut]_vars
<1> DEFINE Inv == TypeOK /\ KernelInv /\ TodoBound
<1>1. SUFFICES ASSUME FiniteInstance
               PROVE  Spec => []StepsAreLimited /\ [][StepsRunOut]_vars
  OBVIOUS
<1>2. Init => Inv
  <2>1. SUFFICES ASSUME Init PROVE TodoBound
    BY StartIsSound
  <2>2. QED
    BY <2>1, FreshRequests DEF Init, TodoBound
<1>3. Inv /\ [Next]_vars => Inv' /\ StepsRunOut
  BY <1>1, StepIsSound, StepRunsOut
<1>4. Inv => StepsAreLimited
  BY <1>1, StepsLimited
<1>5. QED
  BY <1>2, <1>3, <1>4, PTL DEF Spec
=============================================================================
