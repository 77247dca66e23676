----------------------------- MODULE LayerLoop -----------------------------
(***************************************************************************)
(* The run loop of one workflow instance (be/internal/orchestrator:        *)
(* runLoop, drainCallbackPlanStep, handleCallback, maybePauseAfterLayer,   *)
(* applyLayerSkips).  Agents of a layer run concurrently; when all of them *)
(* have ended the loop tallies their results, applies the pass policy of   *)
(* the layer and moves on, or builds a callback plan that replays earlier  *)
(* agents and then resumes.                                                *)
(*                                                                         *)
(* Layers are named by their position 1..NumLayers in layerGroups;         *)
(* LayerNum gives the configured layer number, which may have gaps.        *)
(***************************************************************************)
EXTENDS PassPolicy, FiniteSets, Sequences

CONSTANTS
  Node,         \* execution nodes (phases) of the workflow
  Agent,        \* agent definitions; several nodes may share one
  AgentOf,      \* [Node -> Agent]
  NumLayers,    \* len(layerGroups)
  LayerNum,     \* [1..NumLayers -> Nat], the configured layer numbers
  LayerIdx,     \* [Node -> 1..NumLayers], the layer group of a node
  Policy,       \* [1..NumLayers -> PassPolicies]
  PauseAfter,   \* layers configured with pause_after
  Tag,          \* the skip tags ("groups") of the workflow
  TagOf,        \* [Agent -> Tag or NoTag]
  NoTag,
  Requests,     \* [Node -> SUBSET Request], the callbacks a node may ask for
  MaxCallbacks, \* cap on replayed agents (10 in the code)
  MaxResumes    \* bound: how often a paused instance is continued

Layer == 1..NumLayers

\* spawner.CallbackError; only the field of its mode is meaningful.
Request == [mode : {"level", "agent", "chain"}, level : Nat,
            target : Agent, chain : Seq(Agent)]
NodesAt(i) == {n \in Node : LayerIdx[n] = i}
NumOf(n) == LayerNum[LayerIdx[n]]

\* groupPhasesByLayer: non-empty groups, in ascending order of layer number.
ASSUME LayerAssumption ==
  /\ IsFiniteSet(Node)
  /\ NumLayers \in Nat \ {0}
  /\ LayerNum \in [Layer -> Nat]
  /\ \A i, j \in Layer : i < j => LayerNum[i] < LayerNum[j]
  /\ LayerIdx \in [Node -> Layer]
  /\ \A i \in Layer : NodesAt(i) # {}

ASSUME ConfigAssumption ==
  /\ AgentOf \in [Node -> Agent]
  /\ \A i \in Layer : ValidPolicy(Policy[i], Cardinality(NodesAt(i)))
  /\ PauseAfter \subseteq Layer
  /\ NoTag \notin Tag
  /\ TagOf \in [Agent -> Tag \cup {NoTag}]
  /\ Requests \in [Node -> SUBSET Request]
  /\ MaxCallbacks \in Nat
  /\ MaxResumes \in Nat

Status == {"active", "waiting", "completed", "failed"}

\* The latest agent_sessions row of a node.  A reset by a callback and a
\* callback of the agent itself are both stored as 'callback'; the model
\* keeps them apart as "reset" and "callback".
Session == {"none", "running", "completed", "failed", "continued",
            "skipped", "callback", "reset"}

\* spawnResult of a node in the current batch; "idle" outside the batch.
Result == {"idle", "running", "pass", "err", "callback"}

VARIABLES
  status,    \* workflow_instances.status
  pc,        \* "top" of the loop, or "wait" in spawnPhases
  cur,       \* layerIdx; NumLayers + 1 past the last layer
  todo,      \* nodes of the callback plan steps not yet executed
  whole,     \* layers whose plan step is a whole-layer step
  resume,    \* callbackPlan.resumeLayer, a layer number
  step,      \* layer of the plan step being executed, 0 for a forward layer
  result,    \* results of the batch
  asks,      \* callback requests collected from the batch
  session,   \* status of the latest session of each node
  terminal,  \* nodes that have a session in a terminal status
  skipTags,  \* workflow_instances.skip_tags
  cbCount,   \* callbackCount of this runLoop
  ctxDone,   \* the run context is cancelled
  replays,   \* agents spawned by plan steps over the life of the instance
  resumes    \* number of ContinueWorkflow calls so far

plan == <<todo, whole, resume>>
db   == <<session, terminal, skipTags>>
vars == <<status, pc, cur, todo, whole, resume, step, result, asks, session,
          terminal, skipTags, cbCount, ctxDone, replays, resumes>>

(***************************************************************************)
(* Callback plans.  A plan is the set of nodes to replay: its steps are    *)
(* the layers of these nodes in ascending order, and a step runs the nodes *)
(* of its layer.  resetScope is that same set.                             *)
(***************************************************************************)

\* agentLayerOf: the first node, in ascending layer order, of an agent.
KnownAgent(a) == \E n \in Node : AgentOf[n] = a
NodeOf(a) == CHOOSE n \in Node :
               /\ AgentOf[n] = a
               /\ \A m \in Node : AgentOf[m] = a => LayerIdx[n] <= LayerIdx[m]

ChainNodes(r) == {NodeOf(r.chain[k]) : k \in DOMAIN r.chain}

\* validateCallbackRequest, for a request made from layer orig.
ValidRequest(r, orig) ==
  CASE r.mode = "level" ->
         \E i \in Layer : LayerNum[i] = r.level /\ i <= orig
    [] r.mode = "agent" ->
         KnownAgent(r.target) /\ LayerIdx[NodeOf(r.target)] <= orig
    [] r.mode = "chain" ->
         /\ r.chain # <<>>
         /\ \A k \in DOMAIN r.chain :
              KnownAgent(r.chain[k]) /\ LayerIdx[NodeOf(r.chain[k])] <= orig
         /\ \A k, l \in DOMAIN r.chain :
              k < l => LayerIdx[NodeOf(r.chain[k])] < LayerIdx[NodeOf(r.chain[l])]

\* Mutant of WholeLayers: a level callback leaves its own layer out.
WholeLayersBelowCaller(r, orig) ==
  CASE r.mode = "level" -> {i \in Layer : r.level <= LayerNum[i] /\ i < orig}
    [] r.mode = "agent" -> {i \in Layer : LayerIdx[NodeOf(r.target)] < i /\ i <= orig}
    [] r.mode = "chain" -> {}

\* decompose{Level,Agent,Chain}Callback: nodes to replay, whole layers.
WholeLayers(r, orig) ==
  CASE r.mode = "level" -> {i \in Layer : r.level <= LayerNum[i] /\ i <= orig}
    [] r.mode = "agent" -> {i \in Layer : LayerIdx[NodeOf(r.target)] < i /\ i <= orig}
    [] r.mode = "chain" -> {}

NamedNodes(r) ==
  CASE r.mode = "level" -> {}
    [] r.mode = "agent" -> {NodeOf(r.target)}
    [] r.mode = "chain" -> ChainNodes(r)

ResumeLayer(r, orig) ==
  IF r.mode = "chain"
  THEN 1 + NumOf(CHOOSE n \in ChainNodes(r) :
                   \A m \in ChainNodes(r) : LayerIdx[m] <= LayerIdx[n])
  ELSE 1 + LayerNum[orig]

\* mergeCallbackPlans: whole layers win, the largest resume layer wins.
PlanWhole(reqs, orig) == UNION {WholeLayers(r, orig) : r \in reqs}
PlanNodes(reqs, orig) ==
  {n \in Node : \/ LayerIdx[n] \in PlanWhole(reqs, orig)
                \/ \E r \in reqs : n \in NamedNodes(r)}
PlanResume(reqs, orig) ==
  CHOOSE l \in {ResumeLayer(r, orig) : r \in reqs} :
    \A r \in reqs : ResumeLayer(r, orig) <= l

\* Mutant of ResumeIdx: "not found" is used as an index.
ResumeIdxUnchecked(num) ==
  IF \E i \in Layer : LayerNum[i] = num
  THEN CHOOSE i \in Layer : LayerNum[i] = num
  ELSE 0

\* layerIndexOf(resumeLayer), with "not found" turned into past-the-end.
ResumeIdx(num) ==
  IF \E i \in Layer : LayerNum[i] = num
  THEN CHOOSE i \in Layer : LayerNum[i] = num
  ELSE NumLayers + 1

\* The nodes of the next plan step: those of the lowest layer left.
StepNodes == {n \in todo : \A m \in todo : LayerIdx[n] <= LayerIdx[m]}

(***************************************************************************)
(* Helpers of the loop.                                                    *)
(***************************************************************************)
Batch   == {n \in Node : result[n] # "idle"}
Passed  == {n \in Node : result[n] \in {"pass", "callback"}}
Errors  == {n \in Node : result[n] = "err"}
Callers == {n \in Node : result[n] = "callback"}

SkipMatch(n) == TagOf[AgentOf[n]] \in skipTags

\* Mutant of Admitted: a session of any status counts.
AdmittedOnAnySession(n) ==
  \A m \in Node : LayerIdx[m] < LayerIdx[n] => session[m] # "none"

\* validateAndAdvancePhase: Spawn is refused while a node of a lower layer
\* has no session in a terminal status.
Admitted(n) == \A m \in Node : LayerIdx[m] < LayerIdx[n] => m \in terminal

\* Mutant of PolicyMet: agents that failed do not count as having run.
PolicyMetByPassed(i) == Cardinality(Passed) >= Required(Policy[i], Cardinality(Passed))

\* The nodes of the batch pass the policy of layer i.
PolicyMet(i) == Cardinality(Passed) >= Required(Policy[i], Cardinality(Batch))

\* Mutant of CapExceeded: the plan itself is not counted.
CapExceededBefore(cost) == cbCount > MaxCallbacks

\* The plan would take the agents replayed by this loop past the cap.
CapExceeded(cost) == cbCount + cost > MaxCallbacks

Idle == [n \in Node |-> "idle"]

\* spawnPhases: every agent of the batch is started; a refused one is an
\* error at once and leaves no session row.  skipped agents get a row.
Spawn(nodes, skipped) ==
  /\ result' = [n \in Node |-> IF n \notin nodes THEN "idle"
                               ELSE IF Admitted(n) THEN "running" ELSE "err"]
  /\ session' = [n \in Node |-> IF n \in skipped THEN "skipped"
                                ELSE IF n \in nodes /\ Admitted(n) THEN "running"
                                ELSE session[n]]
  /\ terminal' = terminal \cup skipped
  /\ asks' = {}
  /\ pc' = "wait"

\* The loop returns: the run is removed from o.runs and its plan is gone.
Return(s) ==
  /\ status' = s
  /\ pc' = "top" /\ step' = 0 /\ result' = Idle /\ asks' = {}
  /\ todo' = {} /\ whole' = {} /\ resume' = 0

\* maybePauseAfterLayer(done) and the step to layer next: a pause keeps the
\* resume layer, and there is none after the last layer.
GoTo(done, next) ==
  /\ cur' = next
  /\ IF done \in PauseAfter /\ done < NumLayers
     THEN status' = "waiting"
     ELSE UNCHANGED status

\* handleCallback for the batch of layer orig.
HandleCallback(orig) ==
  LET nodes == PlanNodes(asks, orig)
      cost  == Cardinality(nodes)
  IN IF \/ \E r \in asks : ~ValidRequest(r, orig)
        \/ CapExceeded(cost)
     THEN /\ Return("failed")
          /\ UNCHANGED <<cur, cbCount, session, terminal>>
     ELSE /\ cbCount' = cbCount + cost
          /\ todo' = nodes
          /\ whole' = PlanWhole(asks, orig)
          /\ resume' = PlanResume(asks, orig)
          /\ session' = [n \in Node |->
               IF n \in nodes /\ session[n] \notin {"none", "running", "continued"}
               THEN "reset" ELSE session[n]]
          /\ terminal' = terminal \ nodes
          /\ pc' = "top" /\ step' = 0 /\ result' = Idle /\ asks' = {}
          /\ UNCHANGED <<status, cur>>

(***************************************************************************)
(* Actions.                                                                *)
(***************************************************************************)
Init ==
  /\ status = "active" /\ pc = "top" /\ cur = 1
  /\ todo = {} /\ whole = {} /\ resume = 0 /\ step = 0
  /\ result = Idle /\ asks = {}
  /\ session = [n \in Node |-> "none"] /\ terminal = {} /\ skipTags = {}
  /\ cbCount = 0 /\ ctxDone = FALSE /\ replays = 0 /\ resumes = 0

AtTop == status = "active" /\ pc = "top" /\ cur \in Layer

\* Cancellation check at the top of the loop.
ObserveCancel ==
  /\ AtTop /\ ctxDone
  /\ Return("failed")
  /\ UNCHANGED <<cur, db, cbCount, ctxDone, replays, resumes>>

\* All layers are done: markCompleted.  The context is not checked here.
Complete ==
  /\ status = "active" /\ pc = "top" /\ cur = NumLayers + 1
  /\ Return("completed")
  /\ UNCHANGED <<cur, db, cbCount, ctxDone, replays, resumes>>

\* drainCallbackPlanStep, up to the spawn: skip tags are not consulted.
StartPlanStep ==
  /\ AtTop /\ ~ctxDone /\ todo # {}
  /\ Spawn(StepNodes, {})
  /\ step' = LayerIdx[CHOOSE n \in StepNodes : TRUE]
  /\ replays' = replays + Cardinality(StepNodes)
  /\ UNCHANGED <<status, cur, plan, skipTags, cbCount, ctxDone, resumes>>

\* Forward iteration with at least one agent left to run.
StartLayer ==
  /\ AtTop /\ ~ctxDone /\ todo = {}
  /\ LET skipped == {n \in NodesAt(cur) : SkipMatch(n)}
     IN /\ skipped # NodesAt(cur)
        /\ Spawn(NodesAt(cur) \ skipped, skipped)
  /\ step' = 0
  /\ UNCHANGED <<status, cur, plan, skipTags, cbCount, ctxDone, replays, resumes>>

\* Mutant of SkipLayer: the loop continues without advancing.
SkipLayerStays ==
  /\ AtTop /\ ~ctxDone /\ todo = {}
  /\ \A n \in NodesAt(cur) : SkipMatch(n)
  /\ session' = [n \in Node |-> IF LayerIdx[n] = cur THEN "skipped" ELSE session[n]]
  /\ terminal' = terminal \cup NodesAt(cur)
  /\ UNCHANGED <<status, cur, pc, plan, step, result, asks, skipTags, cbCount,
                 ctxDone, replays, resumes>>

\* Forward iteration over a layer whose agents are all skipped.
SkipLayer ==
  /\ AtTop /\ ~ctxDone /\ todo = {}
  /\ \A n \in NodesAt(cur) : SkipMatch(n)
  /\ session' = [n \in Node |-> IF LayerIdx[n] = cur THEN "skipped" ELSE session[n]]
  /\ terminal' = terminal \cup NodesAt(cur)
  /\ GoTo(cur, cur + 1)
  /\ UNCHANGED <<pc, plan, step, result, asks, skipTags, cbCount, ctxDone,
                 replays, resumes>>

\* An agent of the batch ends.  "continued": its relaunch failed or was cut
\* short, which the loop sees as an error.
AgentEnds(n) ==
  /\ result[n] = "running"
  /\ \/ /\ result' = [result EXCEPT ![n] = "pass"]
        /\ session' = [session EXCEPT ![n] = "completed"]
        /\ terminal' = terminal \cup {n}
        /\ UNCHANGED asks
     \/ /\ result' = [result EXCEPT ![n] = "err"]
        /\ session' = [session EXCEPT ![n] = "failed"]
        /\ terminal' = terminal \cup {n}
        /\ UNCHANGED asks
     \/ /\ result' = [result EXCEPT ![n] = "err"]
        /\ session' = [session EXCEPT ![n] = "continued"]
        /\ UNCHANGED <<terminal, asks>>
     \/ \E r \in Requests[n] :
          /\ result' = [result EXCEPT ![n] = "callback"]
          /\ session' = [session EXCEPT ![n] = "callback"]
          /\ asks' = asks \cup {r}
          /\ UNCHANGED terminal
  /\ UNCHANGED <<status, pc, cur, plan, step, skipTags, cbCount, ctxDone,
                 replays, resumes>>

\* workflow.skip, called by a running agent.
AddSkipTag(n, t) ==
  /\ result[n] = "running" /\ t \notin skipTags
  /\ skipTags' = skipTags \cup {t}
  /\ UNCHANGED <<status, pc, cur, plan, step, result, asks, session, terminal,
                 cbCount, ctxDone, replays, resumes>>

Settled == pc = "wait" /\ \A n \in Node : result[n] # "running"

\* An agent failed and the context is cancelled, or an agent of a subset
\* plan step asked for a callback: the run fails.
TallyAbort ==
  /\ Settled
  /\ \/ ctxDone /\ Errors # {}
     \/ step # 0 /\ step \notin whole /\ Callers # {}
  /\ Return("failed")
  /\ UNCHANGED <<cur, db, cbCount, ctxDone, replays, resumes>>

NotAborted == /\ ~(ctxDone /\ Errors # {})
              /\ (step # 0 /\ step \notin whole => Callers = {})

\* Some agent asked for a callback: build the plan and go back to the top.
TallyCallback ==
  /\ Settled /\ NotAborted /\ Callers # {}
  /\ HandleCallback(IF step = 0 THEN cur ELSE step)
  /\ UNCHANGED <<skipTags, ctxDone, replays, resumes>>

\* The pass policy of the layer is not satisfied.
TallyPolicyFailed ==
  /\ Settled /\ NotAborted /\ Callers = {}
  /\ ~PolicyMet(IF step = 0 THEN cur ELSE step)
  /\ Return("failed")
  /\ UNCHANGED <<cur, db, cbCount, ctxDone, replays, resumes>>

\* A forward layer passed.
LayerPassed ==
  /\ Settled /\ NotAborted /\ Callers = {} /\ step = 0
  /\ PolicyMet(cur)
  /\ GoTo(cur, cur + 1)
  /\ pc' = "top" /\ result' = Idle
  /\ UNCHANGED <<plan, step, asks, db, cbCount, ctxDone, replays, resumes>>

\* Mutant of PlanStepPassed: the plan resumes after the layer the loop was
\* in when it was built.
PlanStepPassedAfterCur ==
  /\ Settled /\ NotAborted /\ Callers = {} /\ step # 0
  /\ PolicyMet(step)
  /\ todo' = {n \in todo : LayerIdx[n] # step}
  /\ IF todo' # {}
     THEN UNCHANGED <<status, cur, whole, resume>>
     ELSE /\ GoTo(cur, cur + 1)
          /\ whole' = {} /\ resume' = 0
  /\ pc' = "top" /\ step' = 0 /\ result' = Idle
  /\ UNCHANGED <<asks, db, cbCount, ctxDone, replays, resumes>>

\* A plan step passed; the last one resumes the forward iteration.
PlanStepPassed ==
  /\ Settled /\ NotAborted /\ Callers = {} /\ step # 0
  /\ PolicyMet(step)
  /\ todo' = {n \in todo : LayerIdx[n] # step}
  /\ IF todo' # {}
     THEN UNCHANGED <<status, cur, whole, resume>>
     ELSE /\ GoTo(ResumeIdx(resume) - 1, ResumeIdx(resume))
          /\ whole' = {} /\ resume' = 0
  /\ pc' = "top" /\ step' = 0 /\ result' = Idle
  /\ UNCHANGED <<asks, db, cbCount, ctxDone, replays, resumes>>

\* Stop: cancels the context of a registered run.
Cancel ==
  /\ status = "active" /\ ~ctxDone
  /\ ctxDone' = TRUE
  /\ UNCHANGED <<status, pc, cur, plan, step, result, asks, db, cbCount,
                 replays, resumes>>

\* ContinueWorkflow: a fresh runLoop starts at the recorded resume layer,
\* with a fresh runState and callbackCount = 0.
Continue ==
  /\ status = "waiting" /\ resumes < MaxResumes
  /\ status' = "active" /\ cbCount' = 0 /\ ctxDone' = FALSE
  /\ resumes' = resumes + 1
  /\ UNCHANGED <<pc, cur, plan, step, result, asks, db, replays>>

LoopStep == \/ ObserveCancel \/ Complete \/ StartPlanStep \/ StartLayer
            \/ SkipLayer \/ TallyAbort \/ TallyCallback \/ TallyPolicyFailed
            \/ LayerPassed \/ PlanStepPassed

Next == \/ LoopStep
        \/ \E n \in Node : AgentEnds(n)
        \/ \E n \in Node, t \in Tag : AddSkipTag(n, t)
        \/ Cancel
        \/ Continue

Spec == Init /\ [][Next]_vars

\* The goroutine of the loop is scheduled, and every agent ends: the
\* spawner enforces a timeout on each one.
FairSpec == Spec /\ WF_vars(LoopStep) /\ \A n \in Node : WF_vars(AgentEnds(n))

(***************************************************************************)
(* Properties.                                                             *)
(***************************************************************************)

\* Type invariant: status, loop position, plan and rows stay in range.
TypeOK ==
  /\ status \in Status
  /\ pc \in {"top", "wait"}
  /\ cur \in 1..(NumLayers + 1)
  /\ todo \subseteq Node
  /\ whole \subseteq Layer
  /\ resume \in Nat
  /\ step \in 0..NumLayers
  /\ result \in [Node -> Result]
  /\ asks \subseteq Request
  /\ session \in [Node -> Session]
  /\ terminal \subseteq Node
  /\ skipTags \subseteq Tag
  /\ cbCount \in Nat
  /\ ctxDone \in BOOLEAN
  /\ replays \in Nat
  /\ resumes \in 0..MaxResumes

\* Callbacks of callbacks, from any mix of layers, never spawn more agents
\* than the cap allows each loop of the instance.
CallbackCap == replays <= MaxCallbacks * (resumes + 1)

\* The same cap over the whole life of the instance, as the documentation
\* states it ("per workflow run"): a pause and a continue reset the counter.
CapPerWorkflowRun == replays <= MaxCallbacks

\* Layers run one after the other, whatever callbacks, skips and lost
\* relaunches do: while an agent runs, every node of a lower layer has ended
\* and left a session that validateAndAdvancePhase accepts.
LayersInOrder ==
  \A n, m \in Node :
    session[n] = "running" /\ LayerIdx[m] < LayerIdx[n] =>
      m \in terminal /\ session[m] # "running"

\* A callback plan that is finished has replayed all it reset, and resumes
\* at a layer below which nothing is missing: no layer is jumped over and
\* no completed run rests on a result a callback discarded.
NoLayerJumped ==
  (status # "failed" /\ pc = "top" /\ todo = {}) =>
    \A n \in Node : LayerIdx[n] < cur => session[n] \notin {"none", "reset", "running"}

\* An agent of the batch that Spawn turned away.
Refused(n) == result[n] = "err" /\ session[n] \notin {"failed", "continued"}

\* The loop never schedules an agent the spawner turns away because of an
\* agent below it that asked for a callback or was reset: only a lost
\* relaunch, whose session stays 'continued', does that.
RefusedOnlyIfLost ==
  \A n \in Node : Refused(n) =>
    \E m \in Node : LayerIdx[m] < LayerIdx[n] /\ session[m] = "continued"

\* A completed run satisfies the pass policy of every layer by the latest
\* sessions of its nodes, after any replays of whole layers or single agents.
PolicyAtCompletion ==
  status = "completed" =>
    \A i \in Layer :
      LET ran    == {n \in NodesAt(i) : session[n] # "skipped"}
          passed == {n \in ran : session[n] = "completed"}
      IN ran = {} \/ Cardinality(passed) >= Required(Policy[i], Cardinality(ran))

\* A loop that is active completes, fails or pauses: no sequence of
\* callbacks, skips and replays keeps a run going for ever.
LoopEnds == status = "active" ~> status # "active"
=============================================================================
