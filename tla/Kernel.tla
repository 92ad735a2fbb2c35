-------------------------------- MODULE Kernel --------------------------------
(***************************************************************************)
(* The kernels of one developer (pkg/kernel/session.go): one pod and one    *)
(* bench per workbench.  Requests claim a kernel to run a cell, bring it up, *)
(* restart or end it, or report on it; a reaper releases idle benches; the   *)
(* Hub may cull the pod under all of them.  A bench's mutex is explicit,     *)
(* because what is done under it takes remote calls; what is done under the  *)
(* pod's mutex or the service's is one step.                                 *)
(***************************************************************************)
EXTENDS Integers, FiniteSets

CONSTANTS
    Workbenches,   \* the workbenches of the developer
    Claimers,      \* requests that run a cell (Run, RunQueued, workspaceCall)
    Reporters,     \* Ensure, Restart or Status: those that answer with a Status
    Enders,        \* ShutdownUser requests
    Names,         \* the workbenches a request may be about
    MaxQueued,     \* maxQueuedClaims
    MaxSweeps,     \* bound: rounds of the reaper
    MaxCulls,      \* bound: how often the pod goes away
    MaxUpsets      \* bound on these together with failed remote calls, dead
                   \* kernels, lost sockets and moved checkouts

ASSUME KernelAssumption ==
    /\ MaxQueued \in Nat /\ MaxSweeps \in Nat
    /\ MaxCulls \in Nat /\ MaxUpsets \in Nat
    /\ Claimers \intersect (Reporters \union Enders) = {}

Requests == Claimers \union Reporters \union Enders

\* A workbench's bench objects: the reaper forgets one and the next use makes
\* another.
Benches == Workbenches \X (1..(MaxSweeps + 1))

NoBench == <<>>
Free    == "free"

ASSUME RequestAssumption ==
    /\ Free \notin Requests
    /\ Names \in [Requests -> SUBSET Workbenches]

VARIABLES
    registered,  \* Service.benches: the bench in the map of a workbench, 0 none
    made,        \* bench objects made so far for a workbench
    pod,         \* the pod's record
    bench,       \* the record of every bench object
    lock,        \* who holds a bench's mutex
    hub,         \* the Hub's side: whether the pod is up, and its kernels
    req,         \* the requests
    reaper,      \* the reaper's sweep
    upsets       \* what has gone wrong, see MaxUpsets

vars == <<registered, made, pod, bench, lock, hub, req, reaper, upsets>>

NewBench == [generation |-> 0, kernel |-> 0, started |-> 0, socket |-> "none",
             held |-> FALSE, running |-> 0, runs |-> 0, idle |-> 0,
             waiting |-> 0]

\* pc of a request; "back" is what follows the end of its wait in the queue.
States == {"new", "lock", "pod", "kernel", "ask", "drop", "status", "count",
           "enqueue", "queued", "dequeue", "executing", "finishing", "done"}

NewRequest == [pc |-> "new", op |-> "none", at |-> NoBench, patient |-> FALSE,
               attempt |-> 0, idle |-> 0, back |-> "none", run |-> 0,
               kernel |-> 0, todo |-> {}]

\* A request that has answered: its locals are gone.
Answered == [NewRequest EXCEPT !.pc = "done"]

Init ==
    /\ registered = [w \in Workbenches |-> 0]
    /\ made = [w \in Workbenches |-> 0]
    /\ pod = [remembered |-> FALSE, generation |-> 0, live |-> 0,
              keepalive |-> FALSE]
    /\ bench = [b \in Benches |-> NewBench]
    /\ lock = [b \in Benches |-> Free]
    /\ hub = [ready |-> FALSE, kernels |-> {}, culls |-> 0]
    /\ req = [r \in Requests |-> NewRequest]
    /\ reaper = [pc |-> "idle", sweeps |-> 0, todo |-> {}, at |-> NoBench]
    /\ upsets = 0

Goto(r, label) == req' = [req EXCEPT ![r].pc = label]
Return(r)      == req' = [req EXCEPT ![r] = Answered]
Unlock(b)      == lock' = [lock EXCEPT ![b] = Free]
Here(r)        == req[r].at
Upset(cost)    == upsets + cost <= MaxUpsets /\ upsets' = upsets + cost

\* What is in the map: the snapshot of benchesOf.
Registered == {<<w, registered[w]>> : w \in {v \in Workbenches : registered[v] # 0}}

-------------------------------------------------------------------------------
(* The helpers that work on a locked bench; x is its record.                *)

\* Mutant: the channel is not closed.
FreedSilently(x) == [x EXCEPT !.running = 0]

\* freeLocked: the kernel is free and whoever waits on the channel is woken.
Freed(x) == [x EXCEPT !.running = 0, !.idle = 0]

\* takeLocked: the kernel is taken by a new run, with a channel of its own.
\* Tokens and channels are numbered alike; a channel is open while it is idle's.
Taken(x) == [x EXCEPT !.runs = x.runs + 1, !.running = x.runs + 1,
                      !.idle = x.runs + 1]

\* dropKernelLocked: the kernel is forgotten and its run holds nothing any more.
Dropped(x) == [Freed(x) EXCEPT !.kernel = 0, !.socket = "none"]

\* Mutants: a hold counted at every bring-up; one given up that was not there.
PodHeldAgain(b) == [pod EXCEPT !.live = @ + 1, !.keepalive = @ \/ pod.live = 0]
PodReleasedAnyway(b) == [pod EXCEPT !.live = @ - 1, !.keepalive = pod.live # 1]

\* holdLocked and releaseHoldLocked, as they change the pod.
PodHeldBy(b) ==
    IF bench[b].held THEN pod
    ELSE [pod EXCEPT !.live = @ + 1, !.keepalive = @ \/ pod.live = 0]

PodReleasedBy(b) ==
    IF ~bench[b].held THEN pod
    ELSE LET left == IF pod.live > 0 THEN pod.live - 1 ELSE 0
         IN  [pod EXCEPT !.live = left, !.keepalive = @ /\ left # 0]

\* shutdownKernelLocked.  A deletion the pod refuses is only logged, and leaves a
\* process that nothing refers to.
ShutDown(b) ==
    /\ bench' = [bench EXCEPT ![b] = Dropped(@)]
    /\ hub' = [hub EXCEPT !.kernels = @ \ {<<b, bench[b].kernel>>}]

-------------------------------------------------------------------------------
(* Arriving at a bench.                                                     *)

\* Service.bench: the bench of w is found in the map, or made.
Find(r, w, op, patient) ==
    /\ req[r].pc = "new"
    /\ registered[w] # 0 \/ made[w] <= MaxSweeps
    /\ LET n == IF registered[w] # 0 THEN registered[w] ELSE made[w] + 1
       IN  /\ registered' = [registered EXCEPT ![w] = n]
           /\ made' = [made EXCEPT ![w] = IF registered[w] # 0 THEN @ ELSE n]
           /\ req' = [req EXCEPT ![r] = [NewRequest EXCEPT
                        !.pc = "lock", !.op = op, !.at = <<w, n>>,
                        !.patient = patient]]
    /\ UNCHANGED <<pod, bench, lock, hub, reaper, upsets>>

\* Run does not wait for a busy kernel; RunQueued and workspaceCall do.
AskForKernel(r) == \E w \in Names[r], patient \in BOOLEAN :
                       Find(r, w, "claim", patient)

AskForStatus(r) == \E w \in Names[r], op \in {"ensure", "restart"} :
                       Find(r, w, op, FALSE)

\* Status and ShutdownUser look the bench up without making one.
LookUp(r, op) ==
    /\ req[r].pc = "new"
    /\ \E w \in Names[r] :
          req' = [req EXCEPT ![r] =
             IF registered[w] # 0
             THEN [NewRequest EXCEPT !.pc = "lock", !.op = op,
                                     !.at = <<w, registered[w]>>]
             ELSE IF op = "status"
             THEN [NewRequest EXCEPT !.pc = "status", !.op = op]
             ELSE Answered]
    /\ UNCHANGED <<registered, made, pod, bench, lock, hub, reaper, upsets>>

\* A request's lock is granted.
Locks(r) ==
    /\ req[r].pc = "lock"
    /\ lock[Here(r)] = Free

Takes(r, label, attempt) ==
    /\ lock' = [lock EXCEPT ![Here(r)] = r]
    /\ req' = [req EXCEPT ![r].pc = label, ![r].attempt = attempt,
                          ![r].patient = FALSE]

\* A claim whose bench is free brings the kernel up.
ClaimFree(r) ==
    /\ Locks(r) /\ req[r].op = "claim"
    /\ bench[Here(r)].running = 0
    /\ Takes(r, "pod", 1)
    /\ UNCHANGED <<registered, made, pod, bench, hub, reaper, upsets>>

\* A claim whose bench is busy reads the channel and the length of the queue,
\* unlocks, and is refused or joins.
ClaimBusy(r) ==
    /\ Locks(r) /\ req[r].op = "claim"
    /\ LET x == bench[Here(r)]
       IN  /\ x.running # 0
           /\ IF req[r].patient /\ x.idle # 0 /\ x.waiting < MaxQueued
              THEN req' = [req EXCEPT ![r].pc = "enqueue", ![r].idle = x.idle]
              ELSE Return(r)
    /\ UNCHANGED <<registered, made, pod, bench, lock, hub, reaper, upsets>>

\* The queue: counted under a lock of its own, waited in without one.
Enqueue(r) ==
    /\ req[r].pc = "enqueue" /\ lock[Here(r)] = Free
    /\ bench' = [bench EXCEPT ![Here(r)].waiting = @ + 1]
    /\ Goto(r, "queued")
    /\ UNCHANGED <<registered, made, pod, lock, hub, reaper, upsets>>

\* The channel is closed: the claim is retried, with or without time left.
Woken(r) ==
    /\ req[r].pc = "queued"
    /\ bench[Here(r)].idle # req[r].idle
    /\ \E patient \in BOOLEAN :
          req' = [req EXCEPT ![r].pc = "dequeue", ![r].back = "lock",
                             ![r].patient = patient, ![r].idle = 0]
    /\ UNCHANGED <<registered, made, pod, bench, lock, hub, reaper, upsets>>

\* Mutant: the way out by the timer does not uncount the waiter.
LeaveUncounted(r) ==
    /\ req[r].pc = "queued"
    /\ Return(r)
    /\ UNCHANGED <<registered, made, pod, bench, lock, hub, reaper, upsets>>

\* The timer fires, or the caller's context ends.
GiveUp(r) ==
    /\ req[r].pc = "queued"
    /\ req' = [req EXCEPT ![r].pc = "dequeue", ![r].back = "done", ![r].idle = 0]
    /\ UNCHANGED <<registered, made, pod, bench, lock, hub, reaper, upsets>>

Dequeue(r) ==
    /\ req[r].pc = "dequeue" /\ lock[Here(r)] = Free
    /\ bench' = [bench EXCEPT ![Here(r)].waiting = @ - 1]
    /\ IF req[r].back = "lock"
       THEN req' = [req EXCEPT ![r].pc = "lock", ![r].back = "none"]
       ELSE Return(r)
    /\ UNCHANGED <<registered, made, pod, lock, hub, reaper, upsets>>

EnsureLocks(r) ==
    /\ Locks(r) /\ req[r].op = "ensure"
    /\ Takes(r, "pod", 1)
    /\ UNCHANGED <<registered, made, pod, bench, hub, reaper, upsets>>

RestartLocks(r) ==
    /\ Locks(r) /\ req[r].op = "restart"
    /\ ShutDown(Here(r))
    /\ Takes(r, "pod", 1)
    /\ UNCHANGED <<registered, made, pod, reaper, upsets>>

StatusLocks(r) ==
    /\ Locks(r) /\ req[r].op = "status"
    /\ Takes(r, "status", 0)
    /\ UNCHANGED <<registered, made, pod, bench, hub, reaper, upsets>>

\* ShutdownUser, in one piece under the bench's lock.
EndKernel(r) ==
    /\ Locks(r) /\ req[r].op = "shutdown"
    /\ LET b == Here(r)
       IN  IF bench[b].kernel = 0
           THEN UNCHANGED <<bench, pod, hub>>
           ELSE /\ bench' = [bench EXCEPT ![b] = [Dropped(@) EXCEPT !.held = FALSE]]
                /\ pod' = PodReleasedBy(b)
                /\ hub' = [hub EXCEPT !.kernels = @ \ {<<b, bench[b].kernel>>}]
    /\ Return(r)
    /\ UNCHANGED <<registered, made, lock, reaper, upsets>>

-------------------------------------------------------------------------------
(* ensureLocked, with the bench's lock held.                                *)

\* bringUpLocked under the pod's lock: the remembered server, or a spawn that is
\* awaited; then a kernel of another generation is dropped.
ReachPod(r) ==
    /\ req[r].pc = "pod"
    /\ LET b == Here(r)
       IN  /\ pod' = [pod EXCEPT !.remembered = TRUE]
           /\ hub' = IF pod.remembered THEN hub ELSE [hub EXCEPT !.ready = TRUE]
           /\ bench' = IF bench[b].generation = pod.generation THEN bench
                       ELSE [bench EXCEPT ![b] =
                               [Dropped(@) EXCEPT !.generation = pod.generation]]
    /\ Goto(r, "kernel")
    /\ UNCHANGED <<registered, made, lock, reaper, upsets>>

\* Mutant: the bench stays locked.
MissesLocked(r, remembered) ==
    /\ IF req[r].attempt = 1 /\ remembered THEN Goto(r, "ask") ELSE Return(r)
    /\ UNCHANGED lock

\* A failed attempt.  serverGone asks the Hub about the first one, if a route is
\* remembered and the caller is still there; the others answer the error.
Misses(r, remembered) ==
    \/ /\ req[r].attempt = 1 /\ remembered
       /\ Goto(r, "ask")
       /\ UNCHANGED lock
    \/ /\ Unlock(Here(r))
       /\ Return(r)

\* The spawn or the token fails.
MissPod(r) ==
    /\ req[r].pc = "pod"
    /\ Upset(1)
    /\ \E spawned \in BOOLEAN :
          /\ pod' = [pod EXCEPT !.remembered = @ \/ spawned]
          /\ hub' = [hub EXCEPT !.ready = @ \/ (spawned /\ ~pod.remembered)]
          /\ Misses(r, pod.remembered \/ spawned)
    /\ UNCHANGED <<registered, made, bench, reaper>>

\* Whether ensureKernelLocked keeps the kernel: it answers, in a checkout that did
\* not move.
Kept(b, moved) == <<b, bench[b].kernel>> \in hub.kernels /\ ~moved

\* What the kernel's part of the bring-up leaves of the bench when it gets as far
\* as stage; ensureConnectionLocked keeps an open socket.
KernelAfter(b, stage, moved) ==
    LET x == bench[b]
        y == IF Kept(b, moved) THEN x
             ELSE IF stage = "create" THEN Dropped(x)
             ELSE [Dropped(x) EXCEPT !.kernel = x.started + 1,
                                     !.started = x.started + 1]
    IN  IF stage = "create" \/ y.socket = "open" THEN y
        ELSE [y EXCEPT !.socket = IF stage = "dial" THEN "none" ELSE "open"]

\* Where this part can fail: a kernel that is kept is not created, an open socket
\* not dialled, and a pod that is gone creates nothing.
Stages(b, moved) ==
    {stage \in {"create", "dial", "push"} :
        /\ stage = "create" => ~Kept(b, moved)
        /\ stage = "dial" => ~(Kept(b, moved) /\ bench[b].socket = "open")
        /\ stage # "create" => hub.ready}

\* The pod's kernels once the bench is x: one that was left is shut down.
KernelsAfter(b, x) ==
    (IF x.kernel = bench[b].kernel THEN hub.kernels
     ELSE hub.kernels \ {<<b, bench[b].kernel>>})
    \union (IF x.kernel = 0 THEN {} ELSE {<<b, x.kernel>>})

\* A checkout that moved, or a kernel that does not answer, is a fault.
Moves(b, moved) == IF moved /\ <<b, bench[b].kernel>> \in hub.kernels THEN 1 ELSE 0

KernelUp(r) ==
    /\ req[r].pc = "kernel" /\ hub.ready
    /\ \E moved \in BOOLEAN :
          LET b == Here(r)
              x == [KernelAfter(b, "none", moved) EXCEPT !.held = TRUE]
          IN  /\ Upset(Moves(b, moved))
              /\ pod' = PodHeldBy(b)
              /\ hub' = [hub EXCEPT !.kernels = KernelsAfter(b, x)]
              /\ IF req[r].op = "claim"
                 THEN /\ bench' = [bench EXCEPT ![b] = Taken(x)]
                      /\ Unlock(b)
                      /\ req' = [req EXCEPT ![r] = [NewRequest EXCEPT
                                    !.pc = "executing", !.op = "claim", !.at = b,
                                    !.run = Taken(x).running,
                                    !.kernel = x.kernel]]
                 ELSE /\ bench' = [bench EXCEPT ![b] = x]
                      /\ req' = [req EXCEPT ![r].pc = "status", ![r].attempt = 0]
                      /\ UNCHANGED lock
    /\ UNCHANGED <<registered, made, reaper>>

KernelMissed(r) ==
    /\ req[r].pc = "kernel"
    /\ \E moved \in BOOLEAN : \E stage \in Stages(Here(r), moved) :
          LET b == Here(r)
              x == KernelAfter(b, stage, moved)
              cost == Moves(b, moved) + IF hub.ready THEN 1 ELSE 0
          IN  /\ Upset(cost)
              /\ bench' = [bench EXCEPT ![b] = x]
              /\ hub' = [hub EXCEPT !.kernels = IF hub.ready
                                                THEN KernelsAfter(b, x) ELSE @]
    /\ Misses(r, pod.remembered)
    /\ UNCHANGED <<registered, made, pod, reaper>>

\* The Hub says that the pod is up, or does not say.
NotGone(r) ==
    /\ req[r].pc = "ask"
    /\ Unlock(Here(r))
    /\ Return(r)
    /\ UNCHANGED <<registered, made, pod, bench, hub, reaper, upsets>>

\* The Hub says the pod is gone.
HearGone(r) ==
    /\ req[r].pc = "ask" /\ ~hub.ready
    /\ Goto(r, "drop")
    /\ UNCHANGED <<registered, made, pod, bench, lock, hub, reaper, upsets>>

\* dropServer, and the second attempt.
DropServer(r) ==
    /\ req[r].pc = "drop"
    /\ pod' = [pod EXCEPT !.remembered = FALSE, !.generation = @ + 1]
    /\ req' = [req EXCEPT ![r].pc = "pod", ![r].attempt = 2]
    /\ UNCHANGED <<registered, made, bench, lock, hub, reaper, upsets>>

-------------------------------------------------------------------------------
(* statusLocked and kernelCount.                                            *)

\* The Hub answers and the other benches are snapshotted.
CountKernels(r) ==
    /\ req[r].pc = "status"
    /\ req' = [req EXCEPT ![r].pc = "count", ![r].todo = Registered \ {Here(r)}]
    /\ UNCHANGED <<registered, made, pod, bench, lock, hub, reaper, upsets>>

\* Another bench is locked, looked at and unlocked: a wait, for who holds it.
CountOne(r) ==
    /\ req[r].pc = "count"
    /\ \E b \in req[r].todo :
          /\ lock[b] = Free
          /\ req' = [req EXCEPT ![r].todo = @ \ {b}]
    /\ UNCHANGED <<registered, made, pod, bench, lock, hub, reaper, upsets>>

\* The status is answered, or the Hub did not say.
StatusAnswered(r) ==
    /\ req[r].pc \in {"status", "count"}
    /\ req[r].todo = {}
    /\ IF Here(r) = NoBench THEN UNCHANGED lock ELSE Unlock(Here(r))
    /\ Return(r)
    /\ UNCHANGED <<registered, made, pod, bench, hub, reaper, upsets>>

-------------------------------------------------------------------------------
(* The cell, after claim let go of the bench.                               *)

\* Mutant: a cell that could not be sent is not finished.
CellUnfinished(r) ==
    /\ req[r].pc = "executing"
    /\ Return(r)
    /\ UNCHANGED <<registered, made, pod, bench, lock, hub, reaper, upsets>>

\* The cell's request cannot be sent; or its reply, its time limit, its caller's
\* end (interrupted) or its socket's end it.
CellEnds(r) ==
    /\ req[r].pc = "executing"
    /\ req' = [req EXCEPT ![r].pc = "finishing", ![r].kernel = 0]
    /\ UNCHANGED <<registered, made, pod, bench, lock, hub, reaper, upsets>>

\* Mutant: the end of any run frees the bench.
FinishAnyRun(r) ==
    /\ req[r].pc = "finishing" /\ lock[Here(r)] = Free
    /\ bench' = [bench EXCEPT ![Here(r)] = Freed(@)]
    /\ Return(r)
    /\ UNCHANGED <<registered, made, pod, lock, hub, reaper, upsets>>

\* finishRun, once the events are drained: it frees its own run only.
FinishRun(r) ==
    /\ req[r].pc = "finishing" /\ lock[Here(r)] = Free
    /\ LET x == bench[Here(r)]
       IN  bench' = IF x.running = req[r].run
                    THEN [bench EXCEPT ![Here(r)] = Freed(x)] ELSE bench
    /\ Return(r)
    /\ UNCHANGED <<registered, made, pod, lock, hub, reaper, upsets>>

-------------------------------------------------------------------------------
(* The reaper, and what happens to the pod.                                 *)

Sweep ==
    /\ reaper.pc = "idle" /\ reaper.sweeps < MaxSweeps
    /\ Upset(1)
    /\ reaper' = [reaper EXCEPT !.pc = "walk", !.todo = Registered,
                                !.sweeps = @ + 1]
    /\ UNCHANGED <<registered, made, pod, bench, lock, hub, req>>

\* releaseLocked: the socket and the hold go, the kernel stays.
Release(b) ==
    /\ reaper.pc = "walk" /\ b \in reaper.todo /\ lock[b] = Free
    /\ bench[b].running = 0
    /\ bench' = [bench EXCEPT ![b].socket = "none", ![b].held = FALSE]
    /\ pod' = PodReleasedBy(b)
    /\ reaper' = [reaper EXCEPT !.pc = "forget", !.todo = @ \ {b}, !.at = b]
    /\ UNCHANGED <<registered, made, lock, hub, req, upsets>>

\* The released bench leaves the map, whoever holds a pointer to it.
Forget ==
    /\ reaper.pc = "forget"
    /\ registered' = [registered EXCEPT ![reaper.at[1]] = 0]
    /\ reaper' = [reaper EXCEPT !.pc = "walk", !.at = NoBench]
    /\ UNCHANGED <<made, pod, bench, lock, hub, req, upsets>>

\* The benches that are left run a cell, or were used lately.
SweepEnds ==
    /\ reaper.pc = "walk"
    /\ reaper' = [reaper EXCEPT !.pc = "idle", !.todo = {}]
    /\ UNCHANGED <<registered, made, pod, bench, lock, hub, req, upsets>>

\* The sockets of the benches in lost end.
Broken(lost) == [b \in Benches |->
    IF b \in lost /\ bench[b].socket = "open"
    THEN [bench[b] EXCEPT !.socket = "closed"] ELSE bench[b]]

\* The pod is culled, or stopped from JupyterLab.
Cull ==
    /\ hub.ready /\ hub.culls < MaxCulls
    /\ Upset(1)
    /\ hub' = [ready |-> FALSE, kernels |-> {}, culls |-> hub.culls + 1]
    /\ bench' = Broken(Benches)
    /\ UNCHANGED <<registered, made, pod, lock, req, reaper>>

\* A kernel is shut down from JupyterLab, or its socket drops.
Lose ==
    /\ Upset(1)
    /\ \E b \in Benches :
          /\ <<b, bench[b].kernel>> \in hub.kernels
          /\ bench' = Broken({b})
          /\ \/ hub' = [hub EXCEPT !.kernels = @ \ {<<b, bench[b].kernel>>}]
             \/ bench[b].socket = "open" /\ hub' = hub
    /\ UNCHANGED <<registered, made, pod, lock, req, reaper>>

-------------------------------------------------------------------------------
EnsureStep(r) ==
    \/ ReachPod(r) \/ MissPod(r) \/ KernelUp(r) \/ KernelMissed(r)
    \/ NotGone(r) \/ HearGone(r) \/ DropServer(r)

ClaimStep(r) ==
    \/ ClaimFree(r) \/ ClaimBusy(r) \/ Enqueue(r) \/ Woken(r) \/ GiveUp(r)
    \/ Dequeue(r) \/ CellEnds(r) \/ FinishRun(r)

StatusStep(r) ==
    \/ EnsureLocks(r) \/ RestartLocks(r) \/ StatusLocks(r)
    \/ CountKernels(r) \/ CountOne(r) \/ StatusAnswered(r)

\* What a request does once it has arrived.
RequestStep(r) == EnsureStep(r) \/ ClaimStep(r) \/ StatusStep(r) \/ EndKernel(r)

Arrive ==
    \/ \E r \in Claimers : AskForKernel(r)
    \/ \E r \in Reporters : AskForStatus(r) \/ LookUp(r, "status")
    \/ \E r \in Enders : LookUp(r, "shutdown")

ReaperStep == Forget \/ SweepEnds \/ \E b \in Benches : Release(b)

Next ==
    \/ Arrive
    \/ \E r \in Requests : RequestStep(r)
    \/ Sweep \/ ReaperStep
    \/ Cull \/ Lose

\* Every call a request makes returns, the remote ones by their deadlines and a
\* cell by ExecuteTimeout, so as long as somebody can go on somebody does.  This is
\* less than the scheduler gives (sync.Mutex lets nobody starve), and enough for
\* requests that come once.  Requests need not come, nor the pod go.
Fairness == WF_vars(ReaperStep \/ \E r \in Requests : RequestStep(r))

Spec == Init /\ [][Next]_vars /\ Fairness

-------------------------------------------------------------------------------
(* Properties.                                                              *)

TypeOK ==
    /\ registered \in [Workbenches -> 0..(MaxSweeps + 1)]
    /\ made \in [Workbenches -> 0..(MaxSweeps + 1)]
    /\ pod \in [remembered : BOOLEAN, generation : Nat, live : Nat,
                keepalive : BOOLEAN]
    /\ bench \in [Benches -> [generation : Nat, kernel : Nat, started : Nat,
                              socket : {"none", "open", "closed"},
                              held : BOOLEAN,
                              running : Nat, runs : Nat, idle : Nat,
                              waiting : Int]]
    /\ lock \in [Benches -> Requests \union {Free}]
    /\ hub \in [ready : BOOLEAN, kernels : SUBSET (Benches \X Nat), culls : Nat]
    /\ req \in [Requests -> [pc : States,
                             op : {"none", "claim", "ensure", "restart",
                                   "status", "shutdown"},
                             at : Benches \union {NoBench}, patient : BOOLEAN,
                             attempt : 0..2, idle : Nat,
                             back : {"none", "lock", "done"}, run : Nat,
                             kernel : Nat, todo : SUBSET Benches]]
    /\ reaper \in [pc : {"idle", "walk", "forget"}, sweeps : Nat,
                   todo : SUBSET Benches, at : Benches \union {NoBench}]
    /\ upsets \in Nat

\* The runs a kernel is busy with: from the claim until the cell has ended.
OnKernel(r) == req[r].pc = "executing"

\* A kernel executes one run at a time (claim, finishRun): while a cell is on the
\* kernel its bench still has, the bench is held by that very run, and no other
\* request's cell is on that kernel; whatever a restart, a respawn, a moved
\* checkout or the late end of an earlier run did in between.
OneRunPerKernel ==
    \A r \in Requests : OnKernel(r) =>
        /\ bench[Here(r)].kernel = req[r].kernel =>
              bench[Here(r)].running = req[r].run
        /\ \A q \in Requests :
              OnKernel(q) /\ Here(q) = Here(r) /\ req[q].kernel = req[r].kernel
              => q = r

\* A bench that is busy has a run that is still to free it (run, workspaceCall:
\* every path after a claim ends in finishRun): it is never busy for ever.
BusyBenchHasItsRun ==
    \A b \in Benches : bench[b].running # 0 =>
        \E r \in Requests :
           /\ req[r].pc \in {"executing", "finishing"}
           /\ Here(r) = b /\ req[r].run = bench[b].running

\* A caller in the queue waits on the channel of the run that holds the kernel,
\* or on one that has been closed (takeLocked, freeLocked): nobody is left to its
\* timer by a kernel that is free.
WaitersHearTheRelease ==
    \A r \in Requests :
        req[r].pc \in {"enqueue", "queued"}
        /\ bench[Here(r)].idle = req[r].idle
        => bench[Here(r)].running = req[r].idle /\ req[r].idle # 0

\* A kernel that was taken comes free and those who queue for it hear of it, on every
\* path on which it is freed (session.go:440, 578-604): a busy bench has its run, and
\* nobody waits on the channel of one that is not busy with it any more.
TakenKernelsComeFree == BusyBenchHasItsRun /\ WaitersHearTheRelease

\* A bench's count of its queue is the callers in it (claim's three ways out): one
\* that drifted up would refuse everyone for good.
QueueCountsItsWaiters ==
    \A b \in Benches :
        bench[b].waiting =
        Cardinality({r \in Requests : Here(r) = b
                                      /\ req[r].pc \in {"queued", "dequeue"}})

\* The pod is kept alive for as long as some bench holds it (holdLocked,
\* releaseHoldLocked), and its count is the number of those that do.
LiveCountsHolds ==
    /\ pod.live = Cardinality({b \in Benches : bench[b].held})
    /\ pod.keepalive <=> \E b \in Benches : bench[b].held

\* The two counters that calls on different paths move, the queue's of a bench and
\* the holds of the pod, are exact at every step: neither drifts over any sequence
\* of wakings, timers, restarts, respawns and sweeps.
CountersAreExact == QueueCountsItsWaiters /\ LiveCountsHolds

\* Every request that has come answers in the end, with its result or an error:
\* no order of claims, wakings, timers, restarts, respawns and sweeps leaves one
\* behind a lock or in the queue.
RequestsReturn == <>[](\A r \in Requests : req[r].pc \in {"new", "done"})
===============================================================================
