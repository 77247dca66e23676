# TLA+ models of nrflo

nrflo is a server that runs *workflows* of LLM agents. A workflow is a list of
layers; the agents of a layer run at the same time, the layers one after the
other. The Go code under `be/internal` is the reference for everything below.
Every definition of the modules is translated from it, and `PROJECT.json` names
the lines each one stands for.

## 1. Inventory

| Component (under `be/internal`) | State it keeps | Operations | Interacts with |
|---|---|---|---|
| run loop (`orchestrator/orchestrator_loop.go`, `_layers`, `_callback_*`, `_skip`, `_spawn`, `pause.go`) | loop index, callback plan and its cursor (in the `runState`), callback counter, session rows, skip tags | drain a plan step, run a layer, tally, build a callback plan, pause, complete, fail | spawner (goroutine per agent), database, `o.runs` |
| launch and control (`orchestrator_start.go`, `_retry`, `continue.go`, `_lifecycle`, `fail.go`, `_query`) | `workflow_instances.status`, `o.runs` (instance -> `runState`), done channels, contexts, `failReason` | Start, RetryFailed, ContinueWorkflow, Stop, FailWorkflow, force stop, wait for a run to settle | request goroutines against the loop goroutine |
| server start and shutdown (`api/server.go`, `api/server_shutdown.go`) | none of its own | orphan sweep, graceful stop | all rows in flight |
| layer pass policies (`service/layer_policy.go`) | none | parse, validate, required count | run loop |
| prior-layer gate (`spawner/database.go`) | session rows | validate a phase, register a stop | run loop, through the rows |
| agent lifecycle (`spawner/`: `spawner_monitor.go`, `completion.go`, `stall_restart.go`, `context_save.go`, `spawner_finalize.go`) | process, session row, result, restart counters | monitor, stall restart, context save and relaunch, timeout, finalize | agent's explicit results arriving over the socket |
| plan boundary and plan service (`orchestrator/plan_*.go`, `service/plan*.go`, `repo/plan.go`) | `workflow_plans` head, revisions, boundary flags of the `runState` | draft, revise, approve, cancel, sweep, claim, resume | run loop against approvers |
| sub-workflows (`orchestrator/subworkflow_*.go`) | active-children counter, persisted invocation budget, watchers | start child, watch, re-arm | two instances and their runs |
| ticket chain runner (`orchestrator/chain_runner.go`) and workflow chain runner (`chainrunner/`) | chain and step rows, cancel functions, locks | start, cancel, run loop, poll, fail all | Start and Stop of the orchestrator |
| successors (`orchestrator_next.go`) | stop flag | endless loop, next workflow | Start |
| scheduler, notifications, WebSocket hub, refinery, consult hand-off, console, step engine, API agent runner, HTTP/socket/CLI, storage, UI | their own | trigger, deliver, present, convert | call the services above |

### What is hard, and what makes each component correct

* **Run loop.** Callbacks raised from any layer, from inside replays and from
  several agents at once, merged into one plan; skip tags set while agents run;
  a relaunch that is lost; cancellation between any two steps; a pause in the
  middle. Correct when layers stay in order, no layer is jumped over, nothing a
  callback discarded survives into a completed run, the replay budget holds,
  policies hold on the final results, and every run ends.
* **Launch and control.** Every operation reads the status, reads `o.runs`,
  writes the status and registers a run in separate steps, and the loop
  publishes its outcome before it frees its slot. Correct when a live run is
  always the registered one of an active instance, an active instance is never
  without a run, a stop or failure that succeeds takes effect, the custom
  failure reason survives, and no call waits for ever.
* **Server start.** A crash at any point leaves nothing active.
* **Plan boundary.** An approval is picked up by exactly one of the live loop
  and a relaunch, whatever it races with, and only the approved revision runs.
* **Sub-workflows.** A child never outlives its parent (a paused parent is not
  a dead one), and slots and budget are given back exactly once.
* **Chain runners.** Steps run in order, a cancel stops the running one, and a
  restart leaves no step or lock behind.
* **Agent lifecycle.** Exactly one outcome per agent, whichever of result,
  exit, timeout, stall and context save comes first.

`PROJECT.json` lists the hazards line by line with the properties that cover
them, and says why for the few that no property covers.

## 2. Plan

1. `PassPolicy`, `LayerLoop` - the run loop. **Done**, with proofs.
2. `InstanceContract`, `RunLifecycle` - launches, control, exits and restarts
   of one instance, implementing the contract. **Done**, with proofs.
3. `PlanBoundary` - plan head, revisions, boundary claim, resume. **Done**, with
   proofs.
4. `AgentLifecycle` - one agent in the spawner. **Done**, with proofs.
5. `Subworkflow` - parent, children and watchers over the runs of the instances.
   **Done**, with proofs.
6. `ChainRunner` - the two chain runners over the instances of their items.
   **Done**, with proofs.
7. Not begun: Start's guards across the instances of one ticket; graceful
   shutdown with live loops; the successors of a run; the API agent's own
   completion path; the workflow chain's cancel as a run of its own.

The modules compose by what they leave out. `LayerLoop` runs inside one live run
of `RunLifecycle`; `AgentLifecycle` is one agent of a batch of `LayerLoop`, which
sees only its verdict; `PlanBoundary` replaces the live part of a run by static
layers, a boundary and the layers of a plan; `Subworkflow` and `ChainRunner` look
at instances only through their status and their `o.runs` entry, and rely on
`RunLifecycle`'s `DoneMeansFree` for the meaning of a closed done channel.

## 3. Modules

### PassPolicy
`Required` and the validation of `pass_policy`. The float ceiling of the
percentage is the integer ceiling; both agree for the sizes a layer can have.

### LayerLoop
One workflow instance from its first layer to its end, with any number of pauses
and continues. Layers are named by their index in `layerGroups`, and `LayerNum`
gives the number in the configuration, since the code mixes the two.

* `cur` is `layerIdx`; `todo`, `whole`, `resume` are what is left of
  `rs.callbackPlan` (its steps are the layers of the nodes of `todo`, ascending;
  `whole` tells whole-layer steps); `step` is the plan step in execution.
* `result` is the batch inside `spawnPhases`; `session` is the status of the
  latest session row of a node and `terminal` the nodes with *any* row in a
  terminal status, which is what the gate in the spawner looks at.
* A reset by a callback and a callback of the agent itself are stored alike
  (`callback`); the model tells them apart for the properties only.
* Actions: `ObserveCancel`, `StartPlanStep`, `StartLayer`, `SkipLayer`,
  `AgentEnds`, the tallies (`TallyAbort`, `TallyCallback`, `TallyPolicyFailed`,
  `LayerPassed`, `PlanStepPassed`), `Complete`, `AddSkipTag`, `Cancel`,
  `Continue`. `markFailed` and the rest of each path are part of the action.
* An agent ends as passed, failed, asking for a callback, or *continued*: its
  relaunch after a context save was lost, which the loop sees as an error while
  the row stays non-terminal.

### InstanceContract and RunLifecycle
`InstanceContract` is what a caller may rely on: agents work only while the
instance is active, one run at a time; the work ends with an outcome; a paused
or failed instance can be resumed; completed is final.

`RunLifecycle` is the protocol that provides it. Each caller is a request
goroutine at a label `pc`; each read or write of the database or of `o.runs` is
a step. A run goes through `registered` (in `o.runs`), `spawned` (goroutine
started), `preStep` (done channel taken, waiting for the user of an interactive or
plan session, if it was started with one), `live` (executing layers), `ended`
(outcome published), `deleted` (entry removed), `gone` (done closed). A pre-step
ends in the layers, in a failure of its own or, cancelled, in a failure whose
reason is always "cancelled". A retry names an agent session of the instance, so
that it is possible only once there is one (`hasSession`). The goroutine
reads and deletes whatever entry is registered *at that time*, as the code does;
a nil entry or a channel closed twice is a panic, which ends the process
(`Restart`). `stranded` records a launch that returned an error after it had set
the status to active: the code leaves such an instance to a force stop or to the
next start's sweep. What the layers do is one step, `Publish`, with every
outcome `LayerLoop` has, but for the first agent session (`CreateSession`).

### PlanBoundary
The row of `workflow_plans` (`plan`, `latest`, `approved`, `materialized`), the
instance status, `o.runs` (`slot`) and the two boundary flags of each `runState`
are shared by the goroutines of the runs (`at`), by approvers (`pc`) and by
editors (`epc`); every access is a step. `drafted` and `derived` are what a run
carries from one access to the next: the revision its planner left (0 on an error)
and the status it is going to write. `auto` is mode=auto. A run that ends its static layers reads the
head (`Reload`), drafts with the planner or a seeded manifest, suspends
(`SuspendForPlan`) or goes on (`MaterializeAndSplice`). `leavePlanBoundary` clears
both flags under `o.mu` and returns the claim in one step, as in the code. In
mode=auto an unclaimed run approves its own draft, as it is or downgraded, pinned
to the revision it drafted, and fails when somebody else moved the head
(`ApproveAuto` to `AutoMaterialize`). An
approver commits, materializes, reads the status and then either claims a live
boundary or waits for the run to settle and relaunches. The approved revision may
be approved again at any time, which only resumes. `executed` records the runs
that entered the layers of the plan. Three more variables remember what the
properties speak of: `granted`, an approval was answered and its resume reported
no error; `unresumed`, a resume returned an error, which the console tool reports
and the REST handler only logs (`handlers_plan.go:168-174`); `overlapped`, an
approval was repeated while the run or the request of an earlier one was still at
work, or a run in mode=auto found its plan approved by a request still at work.
`Early` says whether approvers and editors act before the instance is suspended.

### AgentLifecycle
`monitorAll` for one agent, with `mon` as its position: the signals it selects on
(terminal signal, restart, rotation, takeover, cancellation), the checks on a
process that is done or not, the kills and the waits. `row` and `result` are the
two columns of the current session; `said` what the agent really reported, kept
for the properties only; `saver` the context save goroutine, which replaces
`doneCh` while it runs (`Done`). Earlier sessions are reduced to the states their
rows were left in (`pastRows`) and to whether one was replaced while it still ran
(`stray`). Which of a set of checks fires is left open where it depends on clocks,
token counts or output. Backends that run a process are covered; an agent of the
API backend registers its own stop and is not.

### Subworkflow
One parent and its children, each with status, registered run, phase of its
launch and number of runs. `startChildRun` is split into charge, reservation under
`o.mu`, start, and on failure the two refunds. A watcher is a goroutine for each
run of a child with its own copies of two done channels, which are closed when
that run is no longer registered. `unwatched` names the children the code
knowingly leaves alone: relaunched with neither a live nor a waiting parent, or
suspended when the server restarted.

### ChainRunner
Both runners have the same loop; `kind` says which one it is, and a guard on it
marks the differences (locks and edits only in the ticket chain; the item closed
before the chain is cancelled only in the workflow chain). An item is a row with
its own status and instance; the loop looks at the instance only through `o.runs`
and its status. Each SQL statement that no transaction spans is an action.
`excused` names the items whose lock an append inserted after the locks of the
chain were deleted, or whose deletion a crash cut off; a lock inserted while the
chain runs is not excused (`Unlocked`).

### Instances for TLC
`MCLayerLoop`, `MCRunLifecycle`, `MCPlanBoundary`, `MCAgentLifecycle`,
`MCSubworkflow` and `MCChainRunner` give the constants values.

## 4. Runs

| Run | What it asks | Bounds |
|---|---|---|
| `layer_loop` (pass) | `TypeOK`, `CallbackCap`, `LayersInOrder`, `NoLayerJumped`, `RefusedOnlyIfLost`, `PolicyAtCompletion`, `LoopEnds` | 4 agents in 3 layers numbered 0, 1, 2 with policies any, percent:50, all; a pause after the second; one skip tag on two agents; callbacks of each mode, one of them invalid; cap 8; 2 continues |
| `sparse_layers` (violation) | `NoLayerJumped` with layers 0, 1, 5 | as above, 1 continue |
| `sibling_callback` (violation) | `RefusedOnlyIfLost` with a callback naming a sibling | as above |
| `callback_cap` (violation) | the cap over a whole workflow run, as documented | cap 4, 1 continue |
| `run_lifecycle` (pass) | `TypeOK`, `LiveControlled`, `NoOrphan`, `DoneMeansFree`, `FailReasonKept`, `ContractSpec`, `CallsReturn` | one caller, 3 launches, 2 restarts |
| `lost_fail` (violation) | `FailTakesEffect` | one caller, 1 launch, no restart |
| `double_launch` (violation) | `OneRun` | two callers, 3 launches, no restart |
| `plan_boundary` (pass) | `TypeOK`, `OnlyApprovedRuns`, `NeverNeither`, `NeverBoth`, `ApprovalFinal`, `ApprovalPickedUp`, `LoopEnds`, `CallsReturn` | one approver, one editor, both acting on a suspended instance, with and without mode=auto; 2 runs, 2 edits, 1 restart |
| `plan_handoff` (violation) | `NeverNeither` with an early approver | one approver, one editor; 2 runs, 1 edit |
| `agent_lifecycle` (pass) | `TypeOK`, `OneLiveSession`, `Lineage`, `VerdictMatchesRow`, `CompletedHonestly`, `RestartBudget`, `Settles`, `CancelEnds` | an interactive agent with a codex fallback; 1 continuation, 1 retry, 2 stall restarts, start stalls capped at 2 |
| `subworkflow` (pass) | `TypeOK`, `ConcurrencyCap`, `BudgetPays`, `Watched`, `ChildrenFollow`, `SlotsReturn` | 2 children, one plan-driven and relaunched once; 1 slot, budget 2; 2 runs of the parent, 1 restart |
| `chain_runner` (pass) | `TypeOK`, `Sequential`, `NoLeftLock`, `CancelTakesEffect` | both kinds; 2 items and one more by an edit; 1 relaunch of an instance by a user, 1 restart |

The bounds are named constants (`MaxCallbacks`, `MaxResumes`, `MaxLaunches`,
`MaxRestarts`). In the loop the cap is 10 in the code; 8 lets a callback of three
agents be followed by a second one and by a third that is refused, and three
layers with two agents in the middle are the smallest workflow with a layer below,
a sibling and a layer above a caller. In the lifecycle three launches give a run
that is being torn down, one that is being relaunched and one more; the proofs
below remove these bounds for the safety properties.

`run_lifecycle` has one caller, which issues any sequence of operations while
the runs it started proceed on their own and the process crashes anywhere: the
interleaving of callers with loops, not of callers with each other. That a second
caller can break the protocol is what `double_launch` shows; which overlaps of
callers it does survive is what the proofs show.

The bounds of the other runs: two runs are what a hand-off needs (the one that
suspends and the one that resumes), and two edits let a revision be superseded by
another. The approver may repeat an approval, also while the run or mode=auto is at
work on the first one; a second approver makes the liveness properties too large
for TLC, and the safety properties are proved for any number. In the agent each
budget lets a restart be granted once and refused once, and the two backends are
those that nudges, in-band rate limits and takeovers treat differently. Two
children for one slot are what a cap needs; a second run of the parent and of one
child gives every case of re-arming. In a chain two items give an order, the third
one comes in by an append or an update.

Deadlock is checked in `RunLifecycle`. The other models may stop: an instance, an
agent or a chain that has ended has no further step.

### Fairness
`LayerLoop!FairSpec`: the loop goroutine is scheduled, and each agent ends,
because the spawner kills an agent at its timeout. Nothing is assumed of
cancellation, skip tags or continues. `RunLifecycle!FairSpec`: goroutines are
scheduled, and the layers of a live run end (`LayerLoop`'s `LoopEnds`). Nobody is
assumed to end an interactive pre-step; cancelled, it ends. The timeouts of Stop
and of `waitForRunToSettle` are *not* assumed to fire, so that `CallsReturn`
shows that the done channel is always closed.

`PlanBoundary!FairSpec`: goroutines of runs and of requests under way are
scheduled, and planners end (they are agents with a timeout). Nobody has to
approve, edit or restart. `AgentLifecycle!FairSpec`: the monitor polls, a save ends
(`contextSaveTimeout`), a process that is killed exits (SIGTERM, then SIGKILL); the
timeout of a session and the cancelled context are ready again and again, since
the monitor may look at something else first, hence strong fairness. The agent
itself need not do anything. `Subworkflow!FairSpec`: goroutines are scheduled and a
*cancelled* child publishes; other runs need not end. A watcher that polls a
paused parent has two ready cases in its `select`, and Go picks among them at
random: strong fairness for the child's. `ChainRunner!FairSpec`: the loop runs and
its ticker fires, a poll that finds both a tick and a cancelled context does not
ignore the latter for ever, and a *stopped* instance ends; other instances need
not.

### Disagreements with the documentation and the comments
1. `sparse_layers`: a callback plan resumes at the caller's layer number plus
   one, and a number that does not exist counts as past the end
   (`orchestrator_callback_exec.go:137-140`). Gaps are legal in a workflow, and
   the layers above the gap are then dropped silently.
2. `sibling_callback`: a callback to a sibling leaves the caller's own row in
   `callback`, for which the spawner refuses the next layer.
3. `callback_cap`: the counter belongs to one `runLoop`, not to the workflow run.
4. `lost_fail`: `FailWorkflow` returns success when it has cancelled the run; a
   run that is pausing does not look at its context again.
5. `double_launch`: check and act on the status and on `o.runs` are not atomic.
   After a run has failed or paused and gone, two retries (or two continues) both
   read the status and an empty `o.runs` before either sets the status
   (`orchestrator_retry.go:47-56`, `continue.go:37-47`); both then register, the
   second entry replaces the first, and two loops execute agents.
6. `plan_handoff`: a run that finds a draft at its boundary derives "waiting for
   approval", and writes it later, outside the boundary flag. An approval that
   commits in between finds the status active and no boundary, and is answered
   with success; the run then suspends over the approved plan and exits. The
   comment in `plan_boundary_claim.go:14-15` promises "never both, never neither".
   (Approving the same revision again resumes the instance.)

Seen while modelling and not turned into runs of their own:

* An approval that is repeated while the first one is at work may execute the plan
  twice. Approving the approved revision again succeeds (`plan.go:178-183`)
  whatever run is registered; its resume reads a status that is still suspended (the
  first approval was claimed at the boundary, which has not activated the instance
  yet), waits for that run to settle (`plan_resume.go:55`) and relaunches it when
  the layers of the plan are over within the time-out. One approver is enough, and
  so is one who approves the very revision a run in mode=auto is approving. TLC
  finds `NeverBoth` violated without its exemption `overlapped`; it contradicts
  "never both" in `plan_boundary_claim.go:14-15`.
* `handleApprovePlan` only logs an error of the resume and answers 200
  (`handlers_plan.go:168-174`): after a settle time-out, or settings that cannot be
  loaded, the approver is told of success and the instance stays suspended over an
  approved plan. Approving again resumes it, as `plan.go:164-169` intends. The
  properties speak of such approvals too (`unresumed`): what they leave is a
  suspended instance, or one that failed or completed, never an active one without
  a run.
* When materializing the nodes fails after the approval has been committed
  (`plan.go:208-220`), or the server dies in between, approving again does *not* get
  out: it answers with success without materializing (`plan.go:178-183`), and every
  resume then fails for want of nodes. The instance stays suspended over its
  approved plan (until it is stopped), although `plan_materialize.go:25-26` calls
  Materialize "safe to call again after a crash between approve and materialize".
* A FailWorkflow that lands during an interactive pre-step loses its reason:
  `runInteractivePreStep` fails the run with `reasonCancelled`
  (`orchestrator_interactive_prestep.go:55-58`) without asking for `failReason`, and
  that reason suppresses the failure hook (`orchestrator_completion.go:119`),
  although FailWorkflow "sets failReason on the runState then cancels it"
  (`fail.go:14-17`). TLC finds it in ten states when `FailReasonKept` is
  stated for pre-steps as well; the property is stated for the layers.
* The downgraded draft of a run in mode=auto goes on top of any revision an editor
  has appended since (`plan_approve_auto.go:46`) and is approved in its place;
  without a downgrade the same race fails the run as stale.
* Cancelling a *workflow* chain: `executeStep` writes `canceled` into the step
  (`chainrunner/loop.go:126`) before `cancelRun` looks for steps that read
  `running` (`loop.go:148-150`), so that the instance is never stopped. TLC finds
  `CancelTakesEffect` violated as soon as its second part is stated for both kinds
  of chain; `chainrunner.go:83` says "Cancel stops a running chain run." The
  property is therefore stated for ticket chains, and its mutant is this very
  order of steps.
* A user who kills a session taken over races with the terminal's close handler:
  `KillInteractive` closes the terminal (`orchestrator_control.go:145`), whose
  handler ends the session as completed.
* A completion that arrives before the monitor has registered the wait of a
  session taken over is lost; the agent then waits until it is cancelled.
* A parent suspended at its own plan boundary counts as ended for the watchers of
  its children (`subworkflow_watch.go:103`), and the watcher of such a child polls
  a closed channel without a pause while the parent is paused (line 73).
* A plan-suspended child is resumed with an uncounted watcher; its slot is free
  from then on (`subworkflow_watch.go:52`).
* After a stall at the continuation cap the verdict is a failure while the row
  stays `continued` (`spawner_monitor.go:263`).
* A ticket removed between the loop's choice of it and its start fails the whole
  chain (`chain_runner.go:228`). Locks inserted by an append after the chain's
  end has deleted the others, or whose deletion a crash cuts off, stay for ever.

Also: `quorum:N` with N of 2 or more
can never pass a plan step of one agent; skip tags are not consulted by plan
steps; in the layer of the caller a subset plan discards the failures of its
siblings; a stop that meets the last agent of a pausing layer leaves the
instance waiting. A plan step that replays some agents of a layer is judged among
those alone (`orchestrator_callback_exec.go:105-114`): under `percent:50` two of four
agents, replayed together, pass with one success, and the run completes with a
layer of which one agent in four has passed. (TLC finds `PolicyAtCompletion`
violated in a workflow with such a layer and two merged agent callbacks.)

## 5. Proofs

All proofs are in `Extrema` (greatest and least elements of bounded sets of
naturals, splitting a cardinality), `LayerLoop_proofs`, `LayerCoverage_proofs`,
`RunLifecycle_proofs`, `PlanBoundary_proofs`, `AgentLifecycle_proofs`,
`Subworkflow_proofs` and `ChainRunner_proofs`. Each component has inductive
invariants with named parts, lemmas that show a part or an action of the next-state
relation one step at a time, and theorems that follow from them.

**LayerLoop.** Assumptions: `LayerAssumption`, `ConfigAssumption` - the shape
`groupPhasesByLayer` produces and what the service validates. `CallbackCap` and
`LayersInOrder` are not inductive. `IInv` adds `Shape` (what each position of the
loop says about batch, plan and step), `Budget` (the replays so far, plus those
the current plan still owes, are within what the counter paid for) and the order
part. `Invariance` shows it of every action, for every workflow, policy, request
set, cap and number of continues; `TypeCorrect`, `OrderCorrect` and `CapCorrect`
follow. `LoopAdvances` has the same generality: the rank (callbacks left, work
planned or ahead, agents awaited) is a triple of naturals that every step of the
loop and every end of an agent lowers and nothing else changes while the instance
runs. With it `LoopEnds` needs nothing but fairness.

What callbacks leave behind depends on the workflow, and each theorem takes the
hypothesis it needs:

* `NoJumpCorrect`: `Contiguous`, layer numbers without gaps (`sparse_layers`). Its
  invariant `CInv` says that all nodes below the frontier, but for those the plan
  still has to replay, have a session that is not reset, missing or running.
* `RefusalsExplained` (`RefusedOnlyIfLost`): besides, `Downward`, no request names
  an agent of its caller's own layer unless the caller is alone there
  (`sibling_callback`). `Rows` says what the sessions and results of a batch tell
  of each other, `CallersReplayed` that a session `callback` below the frontier is
  one that asks now: so no old one is left for the prior-layer gate to refuse.
* `PoliciesHold` (`PolicyAtCompletion`): besides, `PercentNamedOnce`, a layer with
  a percentage has at most two agents or requests name at most one of them.
  `PolicyKept` says of every layer below the frontier that its policy holds, or,
  while some of its agents are planned, that it will hold however few of those
  pass as long as their replay passes. Without the hypothesis that is false: see
  the last paragraph of section 4.

`PercentIsCeiling` and `PoliciesCanBeMet` are about `Required` alone: a percentage
is rounded up to the least sufficient count, and what `ValidateLayerPolicy`
accepts lies between 1 and the size of the layer.

**RunLifecycle.** Any number of callers, launches and restarts. Three invariants,
each with the discipline of the callers it needs as a hypothesis on the behaviour:

* None. `AInv` (types, `Placed`: labels belong to operations, `Numbered`: runs
  are numbered as launched) gives `LifecycleTyped` and `NoOrphanLeft`: whatever
  launches, stops, failures and crashes overlap, an active instance has a run or
  somebody who is about to register one, or a launch failed half-way.
* `OneLaunch`, launches of the instance do not overlap (`double_launch` shows
  why); stops and failures overlap them and each other at will. `BInv` adds
  `Registered` (`o.runs` holds the last run until that run deletes it),
  `LaunchCurrent` (what a launch has read is still true) and `ReasonFirst` (the
  reason is set before the cancellation). From it: `DoneFreesEntry`, `ReasonKept`
  (for runs cancelled in their layers; `PreStepCancelled` loses the reason),
  `RunsDoNotOverlap`, `RunsDoNotPanic`, and `WaitersReleased`: a relaunch waits only
  for a run that still closes its channel, a stop also for one whose launch fails
  before it starts. (`setupInteractivePreStep` failing deletes the entry without
  closing the channel, `orchestrator_start.go:271`; such a stop returns by its
  timeout.)
* `Undisturbed`: besides, no launch overlaps a stop or failure that found no run
  to cancel and therefore writes the status itself. `StatusTrue` then ties the
  status to the runs: `LiveRunControlled`, and `ContractImplemented`, where every
  step is one of `InstanceContract` or leaves it alone. With `OneLaunch` alone TLC
  finds both violated: `forceStopInstance` reads the status and writes it later,
  and a launch in between is left with a live run of a failed instance.

**PlanBoundary.** Assumptions: the bounds are natural numbers. `IInv` adds to the
types that the head agrees with itself (`HeadConsistent`: there is an approved
revision exactly when the plan is approved, and nodes are those of that revision),
that an approver or a run in mode=auto past its commit acts on an approved plan
(`ApproversCurrent`, `RunsPinned`) and that nodes exist before they are executed
(`NodesFirst`). `ExecutedWereApproved` and `ApprovalIsFinal` hold for any number of
approvers, editors and runs, early or not: the disagreement above is one about
who picks an approval up, never about what is executed.

The two halves of "never both, never neither" are about who picks it up.
Both need `~Early`, that approvers and editors see the instance suspended, and
hold for any number of them. `ApprovalNeverDropped` (`NeverNeither`): its invariant
`HandOff` follows an approval until the plan is executed. There is but one run until
then (`FirstRun`), nobody acts before it shows itself (`Untouched`), whoever makes
the instance active is about to execute (`WhoActivates`), and an approval that was
granted lies as a claim with the run, behind its claim, with an approver about to
register, or with a failed instance (`PickedUp`). An approval whose resume failed
is not granted, and all that is claimed for it is that no instance is left active
with nobody at work: see the disagreements above for what it is left with.
`ApprovalRunsOnce` (`NeverBoth`): its invariant `Solo` says, for as long as no
approval was repeated over one at work (`overlapped`), that after an execution
nobody is left who could start another (`OnceExecuted`), that one request at most is
past its commit and none while a run is past its own in mode=auto (`ApproverAlone`),
and where run and approver can be once the plan is approved (`AfterApproval`).

**AgentLifecycle.** Assumptions: a fallback chain of process backends that is not
empty, and budgets that are natural numbers. `IInv` follows the position of the
monitor: where the process is known to be over (`Stopped`), what row and verdict
say there (`RowFollows`), that users write only to a row the monitor has handed
over (`HandedOver`), what the agent said behind a result (`ReportsCount`), and that
a restart is decided upon with room in the budget it uses (`RoomLeft`). Theorems:
`SessionsDoNotOverlap`, `LineageUnbroken`, `VerdictIsShown`, `CompletionIsHonest`,
`RestartsBounded`.

**Subworkflow.** Assumptions: finitely many children. The slot counter is compared
with the set of calls and watchers that hold a slot (`SlotsCounted`), and a child
in its first run, or suspended since, is shown to have such a watcher
(`FirstWatcher`): hence `CapHolds`, and, as a theorem of its own,
`SlotsAreCounted`: no path gives a slot back twice or keeps it. The budget is compared with the calls that are
under way or have succeeded (`BudgetCounted`): hence `BudgetHolds`.

`NoneUnwatched` (`Watched`) follows the watcher of each run of each child
(`AllFollow`): a run has none before its launch spawns one (`NotBefore`), a watcher
that waits does so on the channel of its own run (`OwnChannel`) and goes on only
when that run is over (`RunSeenOver`), and the one of the latest run leaves only
when the child has ended or is relaunched (`LatestStays`).

**ChainRunner.** `IInv` says that a chain that may still be started is untouched
(`NotStarted`), that edits only add behind all items there ever were (`RoomLeft`),
that everything but the current item is done or to do (`Progress`, `NextInLine`),
and which locks may be left at which position (`LocksGo`). `ChainIsSequential` and
`LocksAreDeleted` follow for every number of items, edits, relaunches and restarts.

**Only model-checked.** Every safety invariant and every action property of the
passing runs is a theorem, for the hypotheses named above; the runs of TLC satisfy
them. The liveness properties `LoopEnds`, `CallsReturn` (in both modules),
`ApprovalPickedUp`, `Settles`, `CancelEnds`, `ChildrenFollow`, `SlotsReturn` and
`CancelTakesEffect` are not: liveness under fairness is out of the reach of the
prover. `LoopAdvances` and `WaitersReleased` are the safety part of two of them.

## 6. What is not modelled

* Storage errors, except as launches that fail; worktrees, merges, hooks,
  findings, artifacts, broadcasts: they do not feed back into the control.
  (A Start whose input artifacts cannot be attached deletes the row again: the
  instance then has no further history.)
* Start's guards across instances of one ticket (`IsRunning`,
  `HasRunningTicketWorkflows`), graceful shutdown, endless loop and next workflow.
* Plans: the content of manifests (validation passes or fails); a
  manifest appended by a caller while another one is appended; a Stop that an
  approver under way overrides. Two approvers at once are in the model and in the
  theorems, not in a run of TLC.
* Agents: those of the API backend; the length of waits; a terminal signal sent
  before the monitor listens; reports that land after the result was read.
* Sub-workflows: the depth cap, the checks of the callee (callable, purge, pause
  layers), the row a failed start leaves behind, the window between Stop's look at
  `o.runs` and its force stop (which `RunLifecycle` has).
* Chains: epics, the order of tickets by dependencies and its cycle check, chains
  that compete for a ticket, DeleteChain, two Start requests at once, the hand-over
  of instructions and tickets to the next step, graceful shutdown.
* Scheduler, notifications, WebSocket hub, refinery, consult, console, step
  engine, API agent runner, transport, storage and UI: pure I/O, presentation or
  sequential code without shared control state.
