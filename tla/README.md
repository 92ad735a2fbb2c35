# A TLA+ verification of the Operator Development Environment

This directory models the core of ODE's backend (`src/pkg`) in TLA+, checks the
models with TLC and proves the main properties for every value of the constants
with TLAPS. `PROJECT.json` is the index: the components, the runs, which source
lines every definition stands for (`map`), what can go wrong (`hazards`), what the
runs found (`findings`) and what is proved (`theorems`).

Contents: [the system](#1-the-system) · [the modules](#2-the-modules) ·
[the runs](#3-the-runs) · [what the checks found](#4-what-the-checks-found) ·
[the proofs](#5-the-proofs) · [what is left out](#6-what-is-not-modelled) ·
[the plan](#7-the-plan)

## 1. The system

ODE is one Go process in front of a SQL database, a JupyterHub, a Ray cluster with
MLflow, LLM providers and the SENERGY platform's services. A developer works in
chat sessions; a session is bound to a workbench (a repository checked out in the
developer's pod) and its model works through tools. Everything the process holds in
memory (running exchanges, held calls, kernel benches, websocket slots) is lost at a
restart; everything else is rows.

### Components, their state and what makes them correct

| Component | State | Operations | Correct if |
|---|---|---|---|
| **chat: exchange registry** (`chat/engine.go`, `chat/exchange.go`) | `Engine.live`: one running exchange per session; its context and its `done` channel | `begin`, `Attach`, `CancelExchange`, `finish`, the time limit | every exchange ends; the newest one can be attached to until it does; an old one's `finish` never removes a new one's entry |
| **chat: held calls** (`chat/hold.go`) | `Engine.holds`: a waiter with a channel of capacity one per held confirmation; the confirmation's row | `Hold`, `Decide`, `resolveHold`, `abandonHold`; `Confirm` for what nothing holds | exactly one side takes a call; an accepted decision is the answer; the held call always returns; no card outlives its call |
| **chat: turns** (`chat/engine.go`) | the stored messages; the loop's iteration; recorded usage | `Send`, `SendInjected`, `Continue`, `Confirm`, and `run` with `consume`, `persistAssistant`, `dispatch`, `appendToolResults` | the history always renders to a request a provider accepts; what a tool returned is stored once, also when the turn is cancelled; spend stays bounded |
| **chat: session settings** | the session's row, the tier's audit trail, what the running loop captured | `SetTier`, `SetSplit`, `SetAutoRun`, `SetModel`, `RenameSession`, `MoveSession`, titling, proposed selections | no write-back of a stale row grants what was never allowed; a lowering binds |
| **chat: event streams and activity** (`chat/exchange.go`, `chat/activity.go`) | per exchange: the events so far and its subscribers' channels; per developer: the activity watchers' channels | `publish`, `Subscribe`, `detach`, `close`; `Watch`, its stop, `publishActivity` | a reader misses nothing or is told that it was dropped; no channel is closed twice or sent on after |
| **tools** (`tools/dispatch.go`) | none of its own (pending calls live in chat) | `Dispatch`, `Confirm` | a tool runs only at a tier that permits it and, if it must be, when confirmed |
| **admin limits** (`admin/limits.go`) | recorded usage, caps, ceilings | `Check`, `RecordUsage`, `Effective` | a cap holds up to what was in flight; an unreadable policy fails closed |
| **kernel** (`kernel/session.go`) | per developer one pod and a bench per workbench: the pod's remembered route, generation and holds; a bench's mutex, kernel, socket, current run and its channel, queue length | `Run`, `RunQueued`, `workspaceCall` (`claim`, `finishRun`), `Ensure`, `Restart`, `Status`, `ShutdownUser`, `reap` | one run at a time per kernel; a busy bench is freed; no waiter is forgotten; the pod is kept exactly for the benches that hold it; every request returns |
| **interpret** (`interpret/service.go`) | the held items with their attempts and silent turns; the runs let go of; who is connected; of what was told, only the conversation itself | `RunFinished`, `Deliver`, `deliverFor`, `runTurn`, `retire`, `Connected`, `Decide` | every finished run is told to its conversation, once, and answered, if it can be; also over a restart |
| **experiments** (`experiments/service.go`, `poller.go`, `summary.go`) | a record per experiment; Ray's job and MLflow's run | `Launch`, `refresh`, `settleForgotten`, `SessionResults`, the poller's tick | a record of a job that was submitted says that it ended only if it did, and says so in the end; a submission that returned an error is recorded as failed |
| **repo: workbenches** (`repo/workbench.go`) | rows: workbenches, the selected one, a legacy link | `Workbenches` (adopts the link), `Create`, `Select`, `Rename`, `Delete`, `touch` | one adoption; a deletion stays deleted |
| **api: websocket** (`api/ws.go`, `ws_chat.go`, `ws_kernel.go`) | per connection: running operations by id, slots, the outbound channel, a WaitGroup | `readLoop`, `start`, `startUnbounded`, `cancelOperation`, `send`, `sendStream`, `writeLoop`, `serve` | what a client is streamed has no gap; the outbound channel is closed after the last sender; everything ends when the connection does |
| **ontology** (`ontology/ontology.go`) | one snapshot under a load lock | `Snapshot`, `Refresh` | readers see one whole snapshot |
| profiler, relations, selection, exposure | rows of computed profiles | numeric and pure functions | defined by their code; candidates for bounded checks |
| repo (git, OAuth, drafts), imports, charts, simulation, timeseries, devices, library, plaincode, auth, permissions, configuration, database | external services, rows | clients and renderings | mostly I/O |
| frontend, single-user image | | | not part of the backend |

### How they interact

```
 browser ── api (HTTP, websocket) ──┬── chat.Engine ── llm provider (stream)
                                    │      │  ▲ │
 provider's own loop ── mcp ── Hold ┘      │  │ └── tools.Dispatcher ── executors
 interpret ── SendInjected ────────────────┘  │        │ kernel, repo, experiments,
 experiments.poller ── finished ── interpret  │        │ imports, profiler, ...
 admin.limits ── Check / effectiveTier ───────┘   database rows
```

* A request of the browser (`Send`, `Continue`), of `interpret` (`SendInjected`) or
  an answer to a confirmation (`Confirm`) starts an *exchange*: a goroutine that
  outlives the request and loops provider call → tools → provider call.
* A *native* provider returns tool calls for the loop to run. An *out-of-band*
  provider runs its own loop, calls ODE's tools over MCP, and reports calls and
  results in its stream. A tool that needs consent stops a native loop (its
  confirmation is answered later, by `Confirm`, with a new exchange), and *holds* the
  MCP request of an out-of-band one (answered by `Decide`, in place).
* All of them share the registry, the session's row, its messages and the
  recorded usage, and no lock or transaction spans two of these accesses.
* The *poller* asks Ray about open experiments and tells `interpret` of those that
  ended. `interpret` holds a run until its developer has a socket open, injects the
  run's summary as a turn and reads from the stored conversation what came of it.
* A cell, from a tool or from the notebook, *claims* the kernel of its workbench.
  The benches of a developer share the pod, which the Hub may cull under them.
* A *view* of an exchange, a watch of the developer's conversations and a cell are
  operations of one websocket; they forward what they read to a single writer.

### What is hard in it

Check-then-act over several stores (one exchange per session; the spend cap; a
confirmation that is still pending), whole-row writes of rows read earlier, writes
on contexts that end, four ways for a held call to end at once, locks held over
remote calls, late answers of external systems, channels closed by one side and sent
on by another, and deferred clean up on every error path. `PROJECT.json` lists 40
such hazards at their lines, with the properties that cover them or why none does.

Smaller ones that no property is about: a pod's generation may be raised twice for
one loss (harmless, kernels are compared with `!=`); the queue's cap is checked
before the waiter counts itself and may be overshot by callers that arrive together;
a launch whose process stops leaves an MLflow run open; a run retired because its
turns stayed silent is offered again after a restart and costs its turns once more,
where `interpret/service.go:125-132` counts one extra read of the conversation.

## 2. The modules

```
 ExchangeRegistry ◄── ChatHold ◄── MCChatHold, MCChatHoldTwice, ChatHold_proofs
        ▲                 └─ implements ─► HeldAnswer
        └───────────── ChatTurns ◄── MCChatTurns, ChatTurns_proofs
 Conversation ◄────────────┘                            │
       ▲                                                ▼
       └─────────────────────────────────── Conversation_proofs
 SessionSettings ◄── MCSessionSettings, SessionSettings_proofs
 Kernel ◄── MCKernel, Kernel_proofs
 Experiments ◄── Interpret ◄── MCInterpret
       ▲              ▲
 Experiments_proofs ◄── Interpret_proofs
 ExchangeEvents ◄── WsSession ◄── MCWsSession, WsSession_proofs
```

An arrow points at the module that is extended.

Every action is one access to shared state together with what the goroutine
computes from it before the next one, so TLC interleaves exactly where goroutines
do. Operators named "Mutant" in a comment are deliberate bugs next to the
definition they distort; no specification uses them.

### ExchangeRegistry — `Engine.live` of one session

Sessions never meet in the map, so one entry is enough. `live` is the entry;
`begun`, `cancelled`, `ended` and `closed` are the exchanges that have passed the
points other goroutines can observe: registered by `begin`, context ended, removed
by `finish`, `done` closed. `finish` is two actions (`Deregister`, `Close`) because
the lock is released between. `Begin` overwrites whatever is registered, as the
code does: nothing but the callers' earlier `Attach` prevents it.

### ChatHold — held calls, `Decide` and `Confirm` — and HeldAnswer

`row` is the stored confirmation, `holds` the map, `decided` the channel of capacity
one, `callGone` the MCP request's context. `pc` is where `Hold` stands:

| Code | Actions |
|---|---|
| `Hold`: `Attach`, dispatch, `PutConfirmation`, `beginHold` | `Enter`, `Store`, `BeginHold` |
| its `select`: decision, timer, the exchange's `done`, the caller's context | `TakeDecision`, `TimeOut`, `TurnOver`, `CallerLeft` |
| `giveUp` → `claimHold`: removed the waiter, or owed a decision | `ClaimHold` |
| `resolveHold` | `RecordDecision`, `RunHeld` |
| `abandonHold` (detached) | `RetireRow`, `AppendNotice` |
| deferred `endHold` | `EndHold` |
| `Decide`: under the lock; the send after it | `ClaimToDecide`, `SendDecision` |
| `Confirm`: row, holds, `Attach`, `begin`, tool, record, end | `ReadConfirmation` … `EndConfirm` |

A write succeeds; on an ended context or with `StoreFails` it may fail
(`WriteOutcomes`). `Store` has a third outcome then: the card is there, and `Hold`, whose
write returned an error, refuses the call. Of the later writes nobody reads the
error, so that a landed one is a landed one. A stranger is a request that names a hold of a session or
developer it does not belong to.

`HeldAnswer` is the promise: an open call is taken by one side, `approved` ends in
`acted`, `rejected` in `declined`, `withdrawn` in `gave_up`, and it does end.
`Abstraction` is the refinement mapping.

### Conversation — `conversation()` as functions

A message is a role and its blocks; a block is text, a call or a result.
`RepairUnansweredToolCalls` and `CoalesceUserTurns` are what the code does to a
stored history before it sends it; `Acceptable` states what the native protocols ask
for, after the comments of the code.

### ChatTurns — requests and their tool loops

One behaviour is one session with a native or an out-of-band provider (`outOfBand`,
chosen at the start). A request goes through `start` (`CheckIdle`, `Admit`,
`StoreMessage`, `BeginTurn`) or `Confirm` (`CheckIdle`, `BeginConfirm`,
`TellOutcome`); then its exchange runs `run`:

`Announce` (session and messages read again; the session state note) →
`CallProvider` (the cap, from the second iteration on) → `Consume` (the turn is
done, cut off or abandoned; usage is recorded) → `PersistNative` /
`PersistOutOfBand` / `KeepAbandoned` → `Dispatch` → `AppendResults` →
`RetryResults` → next iteration, or `Finish` and `CloseExchange`.

`Landings` gives a write's outcomes: it lands; it fails; or it lands without its
acknowledgement (`landed`, not `ok`), which is what the retry of `appendToolResults`
is about. The last two only on an ended context or with `StoreFails`. A provider
turn is external: with or without a call, and in the out-of-band case with or
without its result. One call per turn stands for several: the code treats the calls
of a turn as a set. A turn with neither text nor calls is not stored
(`PersistAssistant`). `NoteFallsDue`/`AppendNote` are the writers that append without
starting a turn (`MoveSession`; an abandoned hold), each with its check and its
write apart.

### SessionSettings — the session's row

`row` has one field for each kind of setting, `copy` is what a request has read.
`ReadRow` clamps the tier for the operations that go through `Engine.Session`, and
not for those that read the store; `WriteRow` writes every field; `AuditTier` is
`SetTier`'s second write. The tool loop captures tier and split per iteration
(`Iterate`), tools are gated by the captured tier (`RunTool`). The admin's ceiling
moves and the policy may be unreadable (`MoveCeiling`, `PolicyComesAndGoes`).
`sinceChange` counts iterations since the last change and exists for the property.

### Kernel — the benches and the pod of one developer

A bench's mutex is explicit (`lock`), because it is held over calls to the Hub and
the pod; what happens under the pod's mutex or the service's is one step. A bench
*object* is a pair of a workbench and a number: the reaper deletes one from the map
(`registered`) while a request may still have its pointer, and the next use makes
another. `pod` is the pod's record (`remembered` route, `generation`, `live` holds,
the keep-alive goroutine), `hub` the outside: whether the pod is up, and the kernel
processes in it.

A run's token and the channel its waiters wait on are made together, so both are the
number of the run; `idle = n` says that channel n is open.

| Code | Actions |
|---|---|
| `Service.bench`, or a lookup that makes none | `Find` (`AskForKernel`, `AskForStatus`), `LookUp` |
| `claim` under the mutex | `ClaimFree`, `ClaimBusy` |
| its queue: `waiting++`, the `select`, `waiting--` on each way out | `Enqueue`, `Woken` / `GiveUp`, `Dequeue` |
| `Ensure`, `Restart`, `Status`, `ShutdownUser` when they get the mutex | `EnsureLocks`, `RestartLocks`, `StatusLocks`, `EndKernel` |
| `ensureLocked`, first attempt and second | `ReachPod` / `MissPod`, `KernelUp` / `KernelMissed` |
| `serverGone`: ask the Hub; drop the server | `NotGone` / `HearGone`, `DropServer` |
| `statusLocked` with `kernelCount` over the others | `CountKernels`, `CountOne`, `StatusAnswered` |
| `relay` ends; `finishRun` | `CellEnds`, `FinishRun` |
| `reap` | `Sweep`, `Release`, `Forget`, `SweepEnds` |
| outside: the Hub culls the pod; a kernel dies or a socket breaks | `Cull`, `Lose` |

Failures of remote calls, dead kernels, lost sockets and moved checkouts draw on one
budget (`MaxUpsets`). A request's parameter `Names` is the workbenches it may be about.

### Experiments, and Interpret over it

`Experiments` has one record per run: where `launch` is, Ray's view of the job
(`ray`), whether Ray still knows it, MLflow's run, ODE's `record`, and the summary
`kept` in it. `CreateRun`, `Submit`, `CloseRun` and `StoreLaunch` are `Launch`, each
with its failure; a refused submission may have been accepted (its answer is lost).
`refresh[a]` is the refresh an actor is in — a request (`Look`, `Stop`), the poller, the
delivery — from asking Ray (`AskRay`) over `SettleForgotten` to
`PutRecord`, which writes what was heard whatever the row says by now. The poller's
tick is `Tick`, `SettleNext` and `FindFinished`, cut short by `TickCut`. `FindFinished`
offers what `RecentlyTerminal` returns (`Offered`): of the ended records inside the
poller's window a batch, those that ended first. For that a run has the place of its end
among the ends (`at`: Ray's end time, the time of a refused submission, or that of the
record where neither is known, `terminalAt`) and whether it is inside the window
(`recent`); `OutOfWindow` is time passing, which takes the oldest end first.
`SituationsAssumption` bounds the open records to one `Batch`, so that `Tick` reads them
all; the ended ones may be more.
`JobReports`, `JobEnds` and `JobForgotten` are the outside: the job's own code closes
its MLflow run, Ray ends the job, Ray forgets it. `PENDING` and `RUNNING` are one
status, `Open`: both are what `Terminal` is false of, and the code branches on no more.

`Interpret` adds the service. `held[r]` is the queue's item; `interpreted` the runs
that were let go of; `presence` the sockets. A delivery pass is the service's own
goroutine:

| Code | Actions |
|---|---|
| `RunFinished` | `RunFinished` |
| `Deliver`, `summarise`, `deliverFor` | `StartPass`, `Summarise`, `StartDelivery`, `TakeItem` |
| `runTurn`: the session, the grade, the messages (`deliveryState`) | `FindSession`, `Graded`, `ReadMessages` |
| `SendInjected` / `Continue`, waiting for the exchange, reading again | `StartTurn`, `Wait`, `Reread` |
| what comes of it: `retire`, a refusal with `drop` at the last attempt, a silent turn | `Retire`, `Refused`, `Silent` |

The conversation is a sequence of injected summaries and assistant texts;
`Injected`, `Answered` and `Window` are `deliveryState`. Of the chat engine it has a
turn that runs alone and may say something: `ChatTurns` is where its loop is. A
`Restart` keeps the conversation, the records, Ray and MLflow, and loses the rest.
`left` bounds looks, the developer's own turns and upsets (failed calls, lost answers,
time limits, forgotten jobs, ends that fall out of the window, restarts); `Situations` says where a behaviour begins.

### ExchangeEvents, and WsSession over it

`ExchangeEvents` has one turn's events, the announcements of activity, and for every
reader its channel: registered or not, its queue and room, how often it was closed, and
the sends it got after that. `Subscribe` gives the history and the registration under
one lock; `Publish` and `Announce` offer to everyone and drop, close and deregister
whoever is full; `CloseExchange` and `Detach` close whom they still find registered.

`WsSession` is one connection: the read loop (`Request`, `RequestAgain`,
`CancelOperation`, `Answer`, `ReadEnds`), a goroutine for each operation, the
writer (`Write`, `WriteFails`, `WriterEnds`) and `serve`'s end (`CloseOutbound`,
`CloseConnection`). An operation's goroutine by kind:

* read: `Accept`, then `TakeSlot` or `LeaveQueue`, `RunReturns`, `ReleaseSlot`, `Leave`, `WorkDone`;
* chat view: `FindExchange` or `FindNothing`, `SubscribeTo`, then `TakeEvent` and `Forward` (`sendStream`) by turns, until `StreamEnds` or `StreamCancelled`, `DetachFrom`;
* cell: `RunCell` or `Refuse`, `CellSpeaks` and `Forward`, `CellEnds`;
* watch: subscribed already in the read loop; `AcceptWatch`, `ReadActivities`, then as a view.

`Send` drops a frame when the channel is full, `Forward` waits for room or the end of
its context. `view` is what the client has received.

## 3. The runs

| Run | Question | Bounds |
|---|---|---|
| `hold` | Who owns a held call's outcome, and does it return? | one call, two `Decide`s of its owner, one of a stranger, one `Confirm`, the turn |
| `hold_twice` | Is a confirmation's tool dispatched at most once? (finding) | one call, two `Confirm`s |
| `turns` | What do requests and their loops leave in the history, the usage and the registry? | one `start` request, one `Confirm`, one note; two of them in one behaviour; two iterations; a cap of two calls |
| `turns_unchecked` | Is every provider call checked against the cap? (finding) | as `turns` |
| `turns_unmatched` | Is every rendered request one the protocols accept? (finding) | as `turns` |
| `settings` | What do stale write-backs, a moving ceiling and a running loop do to the tier? | two requests of any kind, three tiers, two iterations, one move of the ceiling |
| `settings_audit` | Is every change of the tier in the trail? (finding) | as `settings` |
| `kernel` | Who runs on a kernel, who is told that it is free, and does every request return? | two workbenches, two claims of the first, one request that ensures, restarts, reports on or ends either; a queue of one; one sweep, one culled pod, two upsets |
| `kernel_status` | Do status reports return? (finding) | two workbenches, two reports, nothing goes wrong |
| `interpret` | Is every finished run recorded, told once and read? | three runs, one conversation, one connection, one reader, a batch of two, a queue of two, two attempts, two silent turns; four situations |
| `interpret_silent` | Is what a run's turn says its reading? (finding) | two ended runs, nothing goes wrong |
| `connection` | Do streams arrive whole and does a connection end? | two operations in three pairings, one slot, an outbound buffer of one, buffers of one and zero, two events |

**Why the bounds are enough.**

* `hold`: calls share only the registry, so one call has every race; a second decision
  of the owner makes the double click, a stranger the ownership check, and a `Confirm`
  the other way to answer. More requests are covered by the proofs.
* `turns`: the interleavings need two writers of one history; two iterations give a
  first call, a checked one and the loop's own bound; a cap of two calls is reached by
  one loop alone (which is then refused at the check, or gives up at its bound) and
  passed by two. `MaxActors` keeps the pairs and leaves out three at once.
  `StoreFails` is FALSE in the passing run: writes on ended contexts fail all the same,
  and the properties about lost writes do not hold of a database that refuses them; the
  proofs cover both values.
* `settings`: the write-back race needs two requests; three tiers give "lowered but not
  to zero"; with one move of the ceiling it may go down under a stored tier, or the
  policy fail.
* `kernel`: two claims of one workbench make the queue and a run that ends late after
  its kernel was replaced (a caller that the full queue refuses leaves as an impatient
  one does); the third request does the replacing, on that bench or on the other,
  whose hold keeps the pod. One
  sweep is enough for a bench that is forgotten under a claim, and makes the second
  bench object. Two upsets give a culled pod together with a call that fails after it.
  Only one request reports a status: two of them are stuck (`kernel_status`), so
  `RequestsReturn` is stated where they are not. The proofs of the safety properties have
  no bound on either.
* `interpret`: *Launching* has one launch, a reader and two upsets, so that a lost
  answer meets a forgetting Ray, an aborted close or a restart; *Running* has a run
  that ends while it is looked at; *Crowded* three ended runs of one conversation, a
  summary closing deliveryState's window of the one before: a batch offers two of them, the
  third is offered when the first has left the poller's window, and the full queue
  refuses it for as long as the other two are held; *Talking* a developer who
  keeps the conversation busy. Two attempts and two silent turns each give a first and
  a last one.
* `connection`: two reads compete for one slot; a chat view beside a read meets the
  full outbound channel; a watch beside a cell has both kinds of stream. The outbound
  buffer of one and the readers' buffers of one and none are full at once. Two
  subscribers of one exchange do not meet: the fan-out treats each channel by itself,
  and the proofs have any number of them.

**What the passing runs show.**

* `AcceptedDecisionStands`: a `Decide` that returned nil is the answer the model gets,
  although the timer, the turn's end and the caller's loss race with it.
* `ActedOnlyOnApproval`: a held call runs only on its owner's approval.
* `CardOutlivesOnlyALostCall`: when `Hold` has returned, the confirmation is not
  pending, but for two windows the code has, both of a caller that left, since both
  writes are on its context: the card was stored and the answer of that write lost, so that
  the call is refused (outcome `refused`); or the decision was made and not recorded. A
  call that was given up on never leaves its card.
* `HeldCallReturns`, `ImplementsHeldAnswer`: the call returns, and `Hold`/`Decide`
  implement `HeldAnswer`, fairness included.
* `NoHoldIsStuck`: no `Hold` that was entered is ever left without a step, its own or
  the send of the `Decide` that took its waiter. `HeldCallReturns` is proved from it.
* `RequestsAnswerEveryCall`: whatever partial writes, cancellations and interleaved
  writers leave, the rendered request answers every call in the turn after it, and no
  two of its user turns are adjacent. It does not say that roles alternate: two assistant
  turns may be adjacent (two exchanges side by side, or an abandoned turn and then a
  `Continue`), and the rendering leaves them so.
* `ResultsAreStoredOnce`, `ResultsOutliveTheTurn`: the retry neither loses nor
  doubles results.
* `LatestIsAttachable`, `ExchangesEnd`: overlapping exchanges do not deregister each
  other, and every one is closed.
* `SpendIsBounded`: usage passes the cap by at most one call per exchange.
* `TierStaysAdmitted`: no write stores a tier above every ceiling there has been.
* `LoweringBindsNextIteration`: a call of an iteration begun after a lowering runs at
  the tier in force. (Within an iteration it does not: "the next tool call must
  respect" a lowered tier only from the next provider call on.)
* `OneRunPerKernel`: while a cell is on the kernel its bench has, that bench is held by
  that very run; a late end of a run frees nobody else's, whatever restarts, respawns
  and lost servers come between.
* `TakenKernelsComeFree`: a busy bench has a run that will free it, and nobody waits for
  a free one. That the run ends is assumed: it takes that the cell's consumer drains its
  stream (`session.go:587-592`); a browser that does not read holds it up until its
  connection is over.
* `CountersAreExact`: neither count drifts. The queue's (`QueueCountsItsWaiters`) is the
  number of callers in it; the pod's (`LiveCountsHolds`) that of the benches that hold
  it — also one the reaper has forgotten under a claim, which no request finds any more.
  The counts say nothing against such a bench, which the code can make and which keeps
  the pod: a hazard without a property.
* `RequestsReturn`: no order of claims, wakings, timers, restarts and sweeps leaves a
  request behind a lock or in the queue.
* `InjectedOnce`: a run's summary is in the conversation at most once, over retries,
  lost acknowledgements and restarts.
* `RecordTellsTheEnd`: a record says that a submitted job ended only when it is over, and
  in a word that is true of its end (`Settles`: Ray's; of a job that Ray forgot MLflow's,
  or "stopped"), also with a Ray that forgot or is out of reach and answers written late.
  Set apart are submissions that returned an error: they are recorded as failed, and if
  only the answer was lost, Ray runs the job all the same. The code does that and no
  property excludes it.
* `SummaryTellsTheEnd`: what the assistant is shown is the summary of a run that is over,
  in a word true of its end (`Tells`: as the record's, or MLflow's "failed"), or of such
  a failed submission. A summary that is *kept* may also be MLflow's "failed" of a job
  that Ray still runs: `reconcile` believes it at once, although the comment above
  it (`summary.go:250-251`) has Ray decide whether a run is over.
* `RecordsSettle`: a job that is over is settled in its record in the end, and stays
  so: a late write that takes it back to running is put right.
* `LetGoForAReason`, `FinishedRunsAreRead`: refusals do not add up to giving a run up,
  and a developer who stays gets every run that the poller goes on offering read or let go
  of for a reason. A run that leaves the window unread is offered no more, and while a
  batch of older ends is inside it a newer one is not yet; nothing is promised of these.
* `ChannelsAreUsedOpen`: no channel of a connection, an exchange or a watch is closed
  twice or sent on after it was; either would end the process.
* `ViewsAreWhole`: a view has neither gap nor repetition; its "done" comes after all of it
  unless it was dropped, and a watch continues where its snapshot was read.
* `NobodyIsForgotten`: an operation waits for a slot only while another works under it,
  for room only in a queue that is not empty (whose writer may be gone: then the
  operation's context ends the wait), for events only of a stream that goes on and that it is
  registered with; and for nothing once the connection is over.
* `OperationsEnd`: a connection that is over closes with no operation and no slot left;
  a cancelled read, view or watch ends although nothing drains it.

**Fairness.** Weak fairness is assumed of goroutines that can go on, and of nothing
else: developers, clients, providers' contents, jobs and the Hub may never move.

* `ChatHold`: for each call, a started `Hold`'s own steps (`HoldRuns`; the timer is
  armed before the `select`, so the wait always has a step, and an executor returns under
  its own limits), and for each call and `Decide` the send that follows a successful
  claim (`SendRuns`). `Decide`, `Confirm`, the turn and the caller may never move.
* `ChatTurns`: a begun exchange's goroutine: its provider's stream ends with its
  context, whose time limit always comes, and its tools return. A request before
  `begin` may stop anywhere.
* `Kernel`: some step of the requests and the reaper, as one condition: remote calls
  have deadlines, a cell ends by `ExecuteTimeout` or its caller, a waiter has its timer,
  and a free mutex is given to somebody. It does not say to whom; each request takes
  finitely many steps, so all get their turn.
* `Interpret`: the poller's loop, `RunFinished`, the delivery loop, and the end of a
  turn (the exchange's time limit). Nothing says that a turn speaks, or that a
  developer connects; `FinishedRunsAreRead` assumes a developer who stays in its own
  premise.
* `WsSession`: each operation's goroutine, the writer (its writes have a deadline) and
  `serve`.

Deadlock is not checked by TLC's own switch: the requests of an instance are finitely
many and a behaviour ends when they are over. Being stuck is what `HeldCallReturns`,
`ExchangesEnd`, `RequestsReturn` and `OperationsEnd` exclude.

## 4. What the checks found

Six statements of the repository that its code does not keep, each a run that
violates exactly one property; `PROJECT.json` quotes the lines.

1. **`hold_twice`** — two `Confirm`s of one native confirmation that interleave
   between `Attach` and `begin` both run the tool; the row is only updated
   afterwards.
2. **`turns_unchecked`** — the cap "before every provider call": the first call of
   the turn a `Confirm` continues is not checked, since the loop relies on `start`
   having done it.
3. **`turns_unmatched`** — an out-of-band turn cancelled at its end may store the
   results of calls whose own message failed to be stored; the rendering repairs
   calls without results but not results without calls.
4. **`settings_audit`** — settings that read through `Engine.Session` write the
   clamped tier back, so the stored tier changes without an entry in its trail.
5. **`kernel_status`** — `statusLocked` holds its bench's mutex and `kernelCount`
   takes the other benches', against the order the file lays down for itself: two
   status reports on two workbenches of one developer (two tabs) wait for each other
   for ever, and everything on these benches behind them.
6. **`interpret_silent`** — a run whose first turn said nothing, and after whose
   summary another run's was injected, can never be answered: the window that
   `deliveryState` reads is closed, so what its retried turns say is read as the
   second run's, and it is retired as silent after the developer has paid for
   `maxSilentTurns` turns that spoke.

## 5. The proofs

The theorems hold for every value of the constants that satisfies the modules'
ASSUMEs: what the sets of requests, runs, readers and workbenches are and which of
them are disjoint, that some are finite (only where things are counted), that bounds
and capacities are natural numbers. The two liveness theorems of `ChatHold_proofs` use
the specification's fairness; no other does. None assumes a database that works:
`CardsAreSettled`, `ResultsOutlive` and `ResultsStoredOnce` state properties that
themselves excuse one that fails (`StoreFails`).
The bounds on what goes wrong (`MaxUpsets`, and `upsets` in the `Situations`) are
constants too: the theorems are about any number of upsets.

**`ChatHold_proofs`.** `TypeCorrect`, then `HoldInvariant` and from it
`AcceptedDecisionsStand`, `OneSideTakes`, `OnlyApprovedActs`, `CardsAreSettled`. The
properties speak of `Hold`'s outcome and `Decide`'s return value, which are far
apart; what connects them is who has the waiter. `HoldInv` says, for each call:
a registered waiter means that `Hold` waits and nobody has taken it (`WaiterInv`);
a `Decide` that took it is alone, belongs to the owner, and its choice is on the way,
in the channel, or in `taken` (`TakerInv`); a decision in the channel has a taker
(`SourceInv`); the outcome follows `taken` (`AnswerInv`); and where a row may still be
pending (`CardInv`). `HoldInvStep` has one lemma per action.

`HoldImplementsAnswer` is the refinement: an initial state maps to an initial state of
`HeldAnswer` and every step to a step or a stutter, for any calls, deciders and
confirmations. A step touches one call (`OneCallMoves`), and what the abstract side sees
of a call depends on few fields of it (`Views`, `SameView`), so that all but the claims,
the withdrawal and the answers are stutters. The proof found a defect in the mapping
itself: it was a CASE whose guards overlap after a `Decide` had claimed a call that was
being given up on, where TLC's choice of the first is not what TLA+ says; it is now a
chain of conditions.

`HeldCallsReturn` and `OpenCallsAreAnswered` are liveness, from the per-call fairness by
steps of the `WF1` kind: a call that is given up on, decided or running goes on to the
next place, and one that is owed a decision has it sent (`PromiseInv`, `DecisionsCome`:
who has no waiter any more has a sender, or the decision in the channel). They assume
`[]NoHoldIsStuck`, the one fact about ENABLED that the prover cannot establish; the
run `hold` checks it in every state, so the assumption is one that the model meets.

**`Conversation_proofs`.** `RenderAnswersEveryCall`: whatever sequence of messages is
stored, the request rendered from it answers every call in the turn after it. This is
induction over data, which the library's theorems do not give the provers; here it is
done by hand, from the fact that a set of naturals has a least element (`LeastNatural`):
the recursive functions of `Conversation` exist (`IterationExists`), and the first
message at which the repair or the merging of turns broke what it keeps cannot be.

**`ChatTurns_proofs`.** `NewestIsAttachable` is inductive as it stands.
`SpendStaysBounded` is not: the bound is on `used`, but requests that have passed the
check will still spend. `SpendInv` counts them: `used + |Spending| <= Cap - 1 +
|Exchanges|`, where `Spending` are the exchanges whose next call no check stands in
front of; joining it takes a check that saw `used < Cap`, except for a `Confirm`,
which is in it from the start. `ResultsOutlive` needs to know when results are still
on their way: `LoopInv` says that outside the answering states the results of an
exchange's turn are stored or the turn has none, and which of `turn`'s shapes go with
which state. `TurnsTypeCorrect` includes that no stored message is empty, and with
`RenderAnswersEveryCall` it gives `RequestsAlwaysAnswer`. `ResultsStoredOnce` is from
`OnceInv`: the calls of a turn are its own iteration's; a call whose results are stored
belongs to an iteration that is past or has done its first write (`Spent`); and no two
messages answer one call. The retry is the one step that may write them again, and it
looks for them in the history first. `StepsStayBounded` and `ExchangesWindDown` are the
safety half of `ExchangesEnd`: `StepsLeft` counts at most seven steps for each iteration
that is left and thirteen around them, every step of a request or its exchange takes
from it, nothing else adds to it, and an exchange that has begun and is not closed has
one left. Retries, failed writes and contexts that end make no loop longer. It needs
that the registry and the loop agree on what has begun and what is over (`OverInv`,
`BegunInv`).

**`SessionSettings_proofs`.** `Invariance` proves `Inv`; `TypeCorrect`,
`TiersStayAdmitted` and `LoweringsBind` follow. `AdmittedInv` extends the bound from
the row to every copy that may be written back, which is what makes it inductive
although the copies are stale; `CapturedInv` ties what the loop holds to the row for
as long as `sinceChange` says nothing has changed.

**`Kernel_proofs`.** `RunsAreAlone` and `TakenKernelsAreFreed` rest on one invariant,
`KernelInv`. `OneRunPerKernel` is not inductive: a stale run is harmless
only because its token and kernel number were never given again, so `KernelInv` bounds
both by the bench's counters (`Sound`, `Place`); a claim finds its bench free only
because it holds the lock while it brings the kernel up (`Place`); two requests never
have one run (`RunsApart`); and a busy bench has its run. Most steps only give
kernels up: `QuietStep` shows once that any such step keeps the invariant, and those
actions are instances of it; `ClaimTakes` and `FinishRunKeeps` are the two that are not.
`QueuesAreCounted` and `HoldsAreCounted` follow the cardinalities of the sets of waiters
and holders as one request or bench enters or leaves; together they are
`CountersStayExact`. `OnlyCountsDeadlock` says how far the run `kernel_status` reaches:
a bench's lock is held by nobody but a request that is underway at that very bench
(`LockInv`, so no error path leaves one behind), and whenever requests wait for locks only among themselves, at least
two of them are status reports that count the developer's kernels. No other pair of
requests can stop each other.

Two theorems are what `RequestsReturn` comes to without temporal reasoning.
`StandstillTakesTwoCounts`: as long as a request waits, somebody may take a step, unless
two requests count kernels; `MayGoOn` writes out the guards of a request's steps, and
the proof follows the waiting from lock to holder and from queue to run until it ends
(a count waits only for a bench whose holder does not count). `RequestsRunOut`: a
request has at most `4 |Requests| + |Workbenches| + 13` steps. `StepsLeft` adds to the
way ahead four steps for each time the request may be sent back to the queue, which is
once for each other request that may still take the kernel and once for the run that is
there (`Rounds`); that this is never given back is where the proof needs `KernelInv`: a
kernel is taken only by a request that has not had one yet, and the channel a waiter
waits on belongs to the run that is there or to none.

**`Experiments_proofs`, `Interpret_proofs`.** `RecordsAreTrue`, `SummariesAreTrue` and
`OneInjection` are parts of `TruthInv`. What a refresh will write was heard some steps
ago, so its truth must be of a kind that stays: `Steady` says that no step takes a word
back that a record, a summary or a kept summary may say of a run (`Settles`, `Tells`,
`Claims`, each weaker than the one before: the last takes MLflow's failure of a running
job), that a run that is over stays so, and that nothing more comes of the record of
a refused submission (`Sure`). Of a run that is `Sure` the last two are the same
(`Words`), and only such a run is held: so what is shown is never the weaker word.
That `at` orders the ends needs that one of them is the last (`RunsFit`,
`NowIsLast`); the window and the batch are no part of the argument (`WindowEffect`). `RefreshInv` and
`PollerInv` say it of every word on its way, `HeldInv` of what the queue holds,
`PassInv` and `GradeInv` of what the delivery holds, `MessagesInv` of what is in the
conversation. `InjectedOnce` is part of it because a message is sent only in a pass that
read the conversation without one, and only one pass runs. `GivenUpForAReason` uses
`SilenceInv`: the silent turns the service counts are at most the turns that ran and
left the run unread, with one to spare when it is about to count.
`SettledRecordsStay` is an action property, the safety half of `RecordsSettle`: of a run
that is over, a step takes the record back to running only when an actor writes an
answer it heard before the end, and that answer is gone afterwards; no step makes a new
one. So the record comes back as often as such answers were on their way, and no more.

`TriesRunOut`, `QueueStaysBounded`, `PassesEnd` and `TicksEnd` are what of
`FinishedRunsAreRead` and `RecordsSettle` needs no temporal reasoning. Of a queued run
every pass that looks at it counts a try or lets go of it; the count may pass
`MaxAttempts`, since a silent turn is counted without being compared with it, but by no
more than there are silent turns (`TriesInv`), and those are bounded. A pass has eleven
steps for an item (`ItemSteps`, the grading's refresh included), takes its items from a
queue that is bounded, and is stuck nowhere: there is an oldest item when there is one
(`OldestThereIs`, from the well-foundedness of the naturals), a pass that is at grading
has its refresh (`GradeGoesOn`), and an exchange it waits for is a turn for its own item.
A tick has six steps for an open record and one for each run it announces; `TicksEnd`
assumes that there are finitely many runs, as no other theorem of `Interpret` does. So what
stays with TLC of the two is that fair steps are taken, and that the next tick finds
what this one left.

**`WsSession_proofs`.** `ChannelsStayOpen` is from `OpenInv`: every goroutine that may
send is in the WaitGroup, which is empty when the channel is closed (`WorkInv`), and a
registered reader's channel is open, a lagged one closed once (`ChannelsInv`).
`ViewsStayWhole` needs what is still coming: `Stream(o, b, k)` says that the stream was
joined after event b, that k events have been given to the client or the writer, and
that what was shown, what is in the outbound channel, what the goroutine has in hand and
what is in the reader's queue are, in this order, the events b + 1, b + 2, ...

`NobodyIsLeftWaiting`, `ConnectionsCloseEmpty` and `OperationsRunOut` are the safety half
of `OperationsEnd`. `BooksAreKept` says that the WaitGroup, the map of running operations
and the slots follow from where the operations are, so that a WaitGroup that is empty
means that all of them are. `ReadersInv` says which operation may be where and reads what
(`Placed`), and that a reader's channel is open exactly as long as it is registered with
an exchange that runs or with the watchers (`Attended`): a `Subscribe` that comes after
the close, a drop of a full reader and a detach all leave it closed. So an operation
waits only for what will come, and for nothing once the connection is over. `StepsLeft`
is the way ahead and two steps for each event that may still come (`Awaited`: what is in
the reader's channel and what is not published yet, so that publishing and the replay of
the history move events and add none).

**Only model-checked.** `ExchangesEnd`, `RequestsReturn`, `FinishedRunsAreRead`,
`OperationsEnd` and the liveness half of `RecordsSettle`: that a counter runs out is an
induction over a temporal formula, and that it is kept going is ENABLED; neither is in
the prover's reach. What can be said without them is proved: that every step takes from
a bounded counter (`ExchangesWindDown`, `RequestsRunOut`, `OperationsRunOut`,
`TriesRunOut`, `PassesEnd`, `TicksEnd`), and, with the guards written out, that there is
a step to take (`StandstillTakesTwoCounts`, `NobodyIsLeftWaiting`, `PassesEnd`,
`TicksEnd`). `NoHoldIsStuck`, which is ENABLED itself, and with it the
fairness half of `ImplementsHeldAnswer`. Every other property of a passing run is a
theorem.

## 6. What is not modelled

* Tokens, wire formats, prompts, titles and prices: no property is about them.
* The executors behind `Dispatch`: a tool returns, with or without running.
* A restart of the process in the chat modules: an exchange that dies with it leaves a
  history as a failed write does (`Landings` on an ended context); holds and exchanges of
  the old process are gone. `Interpret`, where a restart is handled, has it.
* Several sessions or developers: their registries, rows, histories, pods and
  connections are disjoint. Only usage is shared, and a cap that others use up is a
  smaller cap.
* `AppendMessages`' own transaction, in which two appends may derive one sequence
  number and one of them then fails: a failed write of one of two overlapping
  exchanges. `PROJECT.json` has it as a hazard.
* Of the activity list, which state an announcement tells. `finish` announces the end
  after it has deregistered, so that a new exchange's "running" may come first; nothing
  in the repository promises the order.
* Of the kernel: `RefreshPlatformToken`, `InterruptUser` (a message to the kernel; what
  ends is the cell, which may end at any time), `Files`, `releaseAll` at shutdown, and
  the Jupyter protocol.
* Of interpret: proposals and `Decide`, which append and read a list, and that
  `interpreted` is emptied when it reaches 4096 entries — a part of what `Restart` does
  to it.
* Of a connection: its handshake and the replacement of its token.
* Workbenches (`repo/workbench.go`): three sequences of reads and upserts over three
  tables; adoption and `touch` are listed as hazards without a property. They are next
  in the plan.
* The pure parts (profiler, relations, selection, imports, charts, simulation,
  evaluation and comparison of experiments) compute over data that the properties here
  do not tell apart; the clients of external services are I/O.

## 7. The plan

In this order; what is done is marked.

1. *Done.* `ExchangeRegistry`, `ChatHold` with `HeldAnswer`; the hold's safety proved.
2. *Done.* `Conversation`, `ChatTurns`; registry, spend, results and types proved.
3. *Done.* `SessionSettings`; types, admitted tiers, lowering proved.
4. *Done.* `Kernel`; types, runs, waiters, queue and holds proved.
5. *Done.* `Experiments` and `Interpret`, composed; types, truth of records and
   summaries, single injection and the reasons for letting go proved.
6. *Done.* `ExchangeEvents` and `WsSession`, composed; types, channels, views, waiting and
   the end of a connection proved.
7. *Done.* Proofs: `RequestsAnswerEveryCall` by induction over the history,
   `ResultsAreStoredOnce`, the steps of `ChatHold` as steps of `HeldAnswer`, held calls
   return, both counts of `Kernel` and its only deadlock, the safety halves of
   `RecordsSettle`, `ExchangesEnd`, `RequestsReturn`, `OperationsEnd` and, as far as it
   has one, of `FinishedRunsAreRead`.
8. `Workbench` — adoption, creation, selection and touch over rows; two requests.
   One adoption wins; a deletion stays deleted but for `touch`'s upsert.
9. The ontology's snapshot under its load lock; the profiler's session segmentation
   (`buildSessions`, `mergeSessions`) as functions against a reference definition.
10. A second interpretation of two conversations of one developer sharing presence and
    the queue's cap, if the bounds allow it.
