-------------------------- MODULE LayerLoop_proofs --------------------------
(***************************************************************************)
(* Theorems about LayerLoop, for every workflow: any number of layers, any *)
(* nodes, policies, pauses, skip tags and callback requests.               *)
(***************************************************************************)
EXTENDS LayerLoop, Extrema

(***************************************************************************)
(* The inductive invariant.                                                *)
(***************************************************************************)

\* The layer whose agents the loop waits for.
BatchLayer == IF step = 0 THEN cur ELSE step

\* How the batch, the position of the loop and the session rows fit together.
Shape ==
  /\ pc = "top" => step = 0 /\ result = Idle
  /\ pc = "wait" => BatchLayer \in Layer
  /\ \A n \in Node : result[n] # "idle" => LayerIdx[n] = BatchLayer
  /\ \A n \in Node : session[n] = "running" <=> result[n] = "running"
  /\ Callers # {} => asks # {}

\* Nodes of the plan that are still to be spawned.
Pending == {n \in todo : ~(pc = "wait" /\ LayerIdx[n] = step)}

\* Agents replayed and agents still planned are paid for by the counters.
Budget ==
  /\ cbCount <= MaxCallbacks
  /\ replays + Cardinality(Pending) <= MaxCallbacks * resumes + cbCount

IInv == TypeOK /\ Shape /\ Budget /\ LayersInOrder

(***************************************************************************)
(* Lemmas about callback plans.                                            *)
(***************************************************************************)

\* The node an agent name stands for is a node of the workflow.
LEMMA NodeOfKnown ==
  ASSUME NEW ag, KnownAgent(ag)
  PROVE  NodeOf(ag) \in Node
<1> DEFINE L == {LayerIdx[n] : n \in {m \in Node : AgentOf[m] = ag}}
<1>1. L \in SUBSET Nat /\ L # {}
  BY LayerAssumption DEF KnownAgent, Layer
<1>2. PICK l \in L : \A k \in L : l <= k
  BY <1>1, LeastNatural
<1>3. \E n \in Node : AgentOf[n] = ag /\ \A m \in Node : AgentOf[m] = ag => LayerIdx[n] <= LayerIdx[m]
  BY <1>2
<1>4. QED BY <1>3 DEF NodeOf

\* A chain resumes right after the highest layer it names.
LEMMA ChainTop ==
  ASSUME NEW r \in Request, NEW orig, r.mode = "chain", r.chain # <<>>,
         \A k \in DOMAIN r.chain : KnownAgent(r.chain[k])
  PROVE  \E n \in ChainNodes(r) :
           /\ \A m \in ChainNodes(r) : LayerIdx[m] <= LayerIdx[n]
           /\ ResumeLayer(r, orig) = 1 + NumOf(n)
<1> DEFINE L == {LayerIdx[n] : n \in ChainNodes(r)}
<1>1. ChainNodes(r) \subseteq Node
  BY NodeOfKnown DEF ChainNodes
<1>2. ChainNodes(r) # {}
  <2>1. r.chain \in Seq(Agent)
    BY DEF Request
  <2>2. 1 \in DOMAIN r.chain
    BY <2>1
  <2>3. QED BY <2>2 DEF ChainNodes
<1>3. PICK l \in L : \A k \in L : k <= l
  <2>1. L \in SUBSET Nat /\ L # {} /\ \A k \in L : k <= NumLayers
    BY <1>1, <1>2, LayerAssumption DEF Layer
  <2>2. NumLayers \in Nat
    BY LayerAssumption
  <2> HIDE DEF L
  <2>3. QED BY <2>1, <2>2, GreatestNatural
<1>4. \E n \in ChainNodes(r) : \A m \in ChainNodes(r) : LayerIdx[m] <= LayerIdx[n]
  BY <1>3
<1>5. QED BY <1>4 DEF ResumeLayer

\* A valid request resumes at most one past the number of the last layer.
LEMMA ResumeLayerBounded ==
  ASSUME NEW r \in Request, NEW orig \in Layer, ValidRequest(r, orig)
  PROVE  ResumeLayer(r, orig) \in 0..(1 + LayerNum[NumLayers])
<1>1. /\ LayerNum[NumLayers] \in Nat
      /\ \A i \in Layer : LayerNum[i] \in Nat /\ LayerNum[i] <= LayerNum[NumLayers]
  <2>1. NumLayers \in Layer
    BY LayerAssumption DEF Layer
  <2>2. QED BY <2>1, LayerAssumption DEF Layer
<1>2. CASE r.mode # "chain"
  BY <1>1, <1>2 DEF ResumeLayer
<1>3. CASE r.mode = "chain"
  <2>1. r.chain # <<>> /\ \A k \in DOMAIN r.chain : KnownAgent(r.chain[k])
    BY <1>3 DEF ValidRequest
  <2>2. ChainNodes(r) \subseteq Node
    BY <2>1, NodeOfKnown DEF ChainNodes
  <2>3. PICK n \in ChainNodes(r) : ResumeLayer(r, orig) = 1 + NumOf(n)
    BY <1>3, <2>1, ChainTop
  <2>4. QED BY <1>1, <2>2, <2>3, LayerAssumption DEF NumOf
<1>4. QED BY <1>2, <1>3

\* The merged plan resumes where one of its requests does, none later.
LEMMA PlanResumeGreatest ==
  ASSUME NEW reqs \in SUBSET Request, reqs # {}, NEW orig \in Layer,
         \A r \in reqs : ValidRequest(r, orig)
  PROVE  /\ PlanResume(reqs, orig) \in Nat
         /\ \A r \in reqs : ResumeLayer(r, orig) <= PlanResume(reqs, orig)
         /\ \E r \in reqs : PlanResume(reqs, orig) = ResumeLayer(r, orig)
<1> DEFINE L == {ResumeLayer(r, orig) : r \in reqs}
           top == 1 + LayerNum[NumLayers]
<1>1. L \in SUBSET Nat /\ L # {} /\ \A k \in L : k <= top
  BY ResumeLayerBounded
<1>2. top \in Nat
  BY LayerAssumption DEF Layer
<1>3. PICK l \in L : \A k \in L : k <= l
  <2> HIDE DEF L, top
  <2> QED BY <1>1, <1>2, GreatestNatural
<1>4. /\ PlanResume(reqs, orig) \in L
      /\ \A r \in reqs : ResumeLayer(r, orig) <= PlanResume(reqs, orig)
  BY <1>3 DEF PlanResume
<1>5. QED BY <1>1, <1>4

\* A plan resumes at a layer of the workflow or past its end.
LEMMA ResumeIdxType ==
  ASSUME NEW num
  PROVE  ResumeIdx(num) \in 1..(NumLayers + 1)
<1>1. CASE \E i \in Layer : LayerNum[i] = num
  <2>1. ResumeIdx(num) \in Layer
    BY <1>1 DEF ResumeIdx
  <2>2. QED BY <2>1, LayerAssumption DEF Layer
<1>2. CASE ~ \E i \in Layer : LayerNum[i] = num
  BY <1>2, LayerAssumption DEF ResumeIdx
<1>3. QED BY <1>1, <1>2

\* The next plan step runs the nodes of one layer, the lowest one planned.
LEMMA StepLayer ==
  ASSUME todo \subseteq Node, todo # {},
         NEW l, l = LayerIdx[CHOOSE n \in StepNodes : TRUE]
  PROVE  /\ l \in Layer
         /\ StepNodes = {n \in todo : LayerIdx[n] = l}
<1> DEFINE L == {LayerIdx[n] : n \in todo}
<1>1. L \in SUBSET Nat /\ L # {}
  BY LayerAssumption DEF Layer
<1>2. PICK least \in L : \A k \in L : least <= k
  <2> HIDE DEF L
  <2> QED BY <1>1, LeastNatural
<1>3. StepNodes = {n \in todo : LayerIdx[n] = least}
  <2>1. \A n \in todo : LayerIdx[n] \in Nat /\ least <= LayerIdx[n]
    BY <1>1, <1>2
  <2>2. PICK n0 \in todo : least = LayerIdx[n0]
    BY <1>2
  <2>3. QED BY <2>1, <2>2 DEF StepNodes
<1>4. StepNodes # {}
  BY <1>2, <1>3
<1>5. l = least
  BY <1>3, <1>4
<1>6. QED BY <1>1, <1>2, <1>3, <1>5, LayerAssumption

(***************************************************************************)
(* The initial states satisfy the invariant.                               *)
(***************************************************************************)
LEMMA InitInvariant == Init => IInv
<1> SUFFICES ASSUME Init PROVE IInv
  OBVIOUS
<1>1. TypeOK
  <2>1. /\ status \in Status /\ session \in [Node -> Session]
        /\ result \in [Node -> Result]
    BY DEF Init, Status, Session, Result, Idle
  <2>2. /\ cur \in 1..(NumLayers + 1) /\ step \in 0..NumLayers
        /\ resumes \in 0..MaxResumes
    BY LayerAssumption, ConfigAssumption DEF Init
  <2>3. QED BY <2>1, <2>2 DEF Init, TypeOK
<1>2. Shape
  BY DEF Init, Shape, BatchLayer, Callers, Idle
<1>3. Budget
  <2>1. Pending = {}
    BY DEF Init, Pending
  <2>2. QED BY <2>1, FS_EmptySet, ConfigAssumption DEF Init, Budget
<1>4. LayersInOrder
  BY DEF Init, LayersInOrder
<1>5. QED BY <1>1, <1>2, <1>3, <1>4 DEF IInv

(***************************************************************************)
(* Type correctness is preserved by every action.                          *)
(***************************************************************************)

\* The nodes a valid set of requests replays are nodes, and finitely many.
LEMMA NodeSubsetFinite ==
  ASSUME NEW S \in SUBSET Node
  PROVE  IsFiniteSet(S) /\ Cardinality(S) \in Nat
BY LayerAssumption, FS_Subset, FS_CardinalityType

\* Spawning a batch keeps the types of what it assigns.
LEMMA SpawnType ==
  ASSUME TypeOK, NEW nodes, NEW skipped \in SUBSET Node, Spawn(nodes, skipped)
  PROVE  /\ pc' \in {"top", "wait"}
         /\ result' \in [Node -> Result]
         /\ asks' \subseteq Request
         /\ session' \in [Node -> Session]
         /\ terminal' \subseteq Node
BY DEF TypeOK, Spawn, Result, Session

\* Leaving the loop keeps the types of what it assigns.
LEMMA ReturnType ==
  ASSUME NEW s \in Status, Return(s)
  PROVE  /\ status' \in Status /\ pc' \in {"top", "wait"}
         /\ todo' \subseteq Node /\ whole' \subseteq Layer /\ resume' \in Nat
         /\ step' \in 0..NumLayers
         /\ result' \in [Node -> Result] /\ asks' \subseteq Request
BY LayerAssumption DEF Return, Idle, Result, Layer

\* Moving on to the next layer keeps the types of what it assigns.
LEMMA GoToType ==
  ASSUME TypeOK, NEW done, NEW next \in 1..(NumLayers + 1), GoTo(done, next)
  PROVE  status' \in Status /\ cur' \in 1..(NumLayers + 1)
BY DEF TypeOK, GoTo, Status

LEMMA CallbackType ==
  ASSUME TypeOK, Callers # {}, Shape, NEW orig \in Layer,
         HandleCallback(orig), UNCHANGED <<skipTags, ctxDone, replays, resumes>>
  PROVE  TypeOK'
<1> DEFINE nodes == PlanNodes(asks, orig)
<1>1. nodes \in SUBSET Node
  BY DEF PlanNodes
<1>2. Cardinality(nodes) \in Nat
  BY <1>1, NodeSubsetFinite
<1>3. CASE Return("failed") /\ UNCHANGED <<cur, cbCount, session, terminal>>
  <2>1. "failed" \in Status
    BY DEF Status
  <2>2. QED BY <1>3, <2>1, ReturnType DEF TypeOK
<1>4. CASE ~(Return("failed") /\ UNCHANGED <<cur, cbCount, session, terminal>>)
  <2>1. /\ \A r \in asks : ValidRequest(r, orig)
        /\ cbCount' = cbCount + Cardinality(nodes)
        /\ todo' = nodes
        /\ whole' = PlanWhole(asks, orig)
        /\ resume' = PlanResume(asks, orig)
        /\ session' = [n \in Node |->
             IF n \in nodes /\ session[n] \notin {"none", "running", "continued"}
             THEN "reset" ELSE session[n]]
        /\ terminal' = terminal \ nodes
        /\ pc' = "top" /\ step' = 0 /\ result' = Idle /\ asks' = {}
        /\ UNCHANGED <<status, cur>>
    BY <1>4 DEF HandleCallback
  <2>2. resume' \in Nat
    BY <2>1, PlanResumeGreatest DEF TypeOK, Shape
  <2>3. whole' \subseteq Layer
    <3>1. \A r \in asks : WholeLayers(r, orig) \subseteq Layer
      BY DEF TypeOK, Request, WholeLayers
    <3>2. QED BY <2>1, <3>1 DEF PlanWhole
  <2>4. session' \in [Node -> Session]
    BY <2>1 DEF TypeOK, Session
  <2>5. QED
    BY <1>1, <1>2, <2>1, <2>2, <2>3, <2>4, LayerAssumption
    DEF TypeOK, Idle, Result
<1>5. QED BY <1>3, <1>4

\* Every step of the loop, of an agent or of a caller keeps the types.
LEMMA TypeStep == IInv /\ [Next]_vars => TypeOK'
<1> SUFFICES ASSUME IInv, [Next]_vars PROVE TypeOK'
  OBVIOUS
<1>0. TypeOK /\ Shape
  BY DEF IInv
<1> USE LayerAssumption, ConfigAssumption
<1>1. CASE ObserveCancel
  <2>1. "failed" \in Status
    BY DEF Status
  <2>2. QED BY <1>0, <1>1, <2>1, ReturnType DEF ObserveCancel, TypeOK, db
<1>2. CASE Complete
  <2>1. "completed" \in Status
    BY DEF Status
  <2>2. QED BY <1>0, <1>2, <2>1, ReturnType DEF Complete, TypeOK, db
<1>3. CASE StartPlanStep
  <2>1. step' \in Layer
    BY <1>0, <1>3, StepLayer DEF StartPlanStep, TypeOK
  <2>2. Cardinality(StepNodes) \in Nat
    <3>1. StepNodes \in SUBSET Node
      BY <1>0 DEF StepNodes, TypeOK
    <3>2. QED BY <3>1, NodeSubsetFinite
  <2>3. Spawn(StepNodes, {})
    BY <1>3 DEF StartPlanStep
  <2>4. /\ pc' \in {"top", "wait"} /\ result' \in [Node -> Result]
        /\ asks' \subseteq Request /\ session' \in [Node -> Session]
        /\ terminal' \subseteq Node
    BY <1>0, <2>3, SpawnType
  <2>5. step' \in 0..NumLayers /\ replays' \in Nat
    BY <1>0, <1>3, <2>1, <2>2 DEF StartPlanStep, TypeOK, Layer
  <2>6. QED BY <1>0, <1>3, <2>4, <2>5 DEF StartPlanStep, TypeOK, plan
<1>4. CASE StartLayer
  <2> DEFINE skipped == {n \in NodesAt(cur) : SkipMatch(n)}
  <2>1. skipped \in SUBSET Node
    BY DEF NodesAt
  <2>2. Spawn(NodesAt(cur) \ skipped, skipped)
    BY <1>4 DEF StartLayer
  <2>3. /\ pc' \in {"top", "wait"} /\ result' \in [Node -> Result]
        /\ asks' \subseteq Request /\ session' \in [Node -> Session]
        /\ terminal' \subseteq Node
    <3> HIDE DEF skipped
    <3> QED BY <1>0, <2>1, <2>2, SpawnType
  <2>4. QED BY <1>0, <1>4, <2>3 DEF StartLayer, TypeOK, plan
<1>5. CASE SkipLayer
  <2>1. status' \in Status /\ cur' \in 1..(NumLayers + 1)
    BY <1>0, <1>5, GoToType DEF SkipLayer, AtTop, Layer
  <2>2. QED BY <1>0, <1>5, <2>1 DEF SkipLayer, TypeOK, plan, NodesAt, Session
<1>6. ASSUME NEW n \in Node, AgentEnds(n) PROVE TypeOK'
  <2>1. \A r \in Requests[n] : r \in Request
    OBVIOUS
  <2>2. QED BY <1>0, <1>6, <2>1 DEF AgentEnds, TypeOK, plan, Result, Session
<1>7. ASSUME NEW n \in Node, NEW t \in Tag, AddSkipTag(n, t) PROVE TypeOK'
  BY <1>0, <1>7 DEF AddSkipTag, TypeOK, plan
<1>8. CASE TallyAbort
  <2>1. "failed" \in Status
    BY DEF Status
  <2>2. QED BY <1>0, <1>8, <2>1, ReturnType DEF TallyAbort, TypeOK, db
<1>9. CASE TallyCallback
  <2>1. BatchLayer \in Layer
    BY <1>0, <1>9 DEF TallyCallback, Settled, Shape
  <2>2. HandleCallback(BatchLayer)
    BY <1>9 DEF TallyCallback, BatchLayer
  <2>3. QED BY <1>0, <1>9, <2>1, <2>2, CallbackType DEF TallyCallback
<1>10. CASE TallyPolicyFailed
  <2>1. "failed" \in Status
    BY DEF Status
  <2>2. QED BY <1>0, <1>10, <2>1, ReturnType DEF TallyPolicyFailed, TypeOK, db
<1>11. CASE LayerPassed
  <2>1. cur \in Layer
    BY <1>0, <1>11 DEF LayerPassed, Settled, Shape, BatchLayer
  <2>2. status' \in Status /\ cur' \in 1..(NumLayers + 1)
    BY <1>0, <1>11, <2>1, GoToType DEF LayerPassed, Layer
  <2>3. QED BY <1>0, <1>11, <2>2 DEF LayerPassed, TypeOK, plan, db, Idle, Result
<1>12. CASE PlanStepPassed
  <2>1. ResumeIdx(resume) \in 1..(NumLayers + 1)
    BY ResumeIdxType
  <2>2. /\ status' \in Status /\ cur' \in 1..(NumLayers + 1)
        /\ whole' \subseteq Layer /\ resume' \in Nat
    <3>1. CASE todo' # {}
      BY <1>0, <1>12, <3>1 DEF PlanStepPassed, TypeOK
    <3>2. CASE todo' = {}
      BY <1>0, <1>12, <3>2, <2>1, GoToType DEF PlanStepPassed
    <3>3. QED BY <3>1, <3>2
  <2>3. QED BY <1>0, <1>12, <2>2 DEF PlanStepPassed, TypeOK, db, Idle, Result
<1>13. CASE Cancel
  BY <1>0, <1>13 DEF Cancel, TypeOK, plan, db
<1>14. CASE Continue
  <2>1. status' \in Status /\ cbCount' \in Nat /\ ctxDone' \in BOOLEAN
    BY <1>14 DEF Continue, Status
  <2>2. resumes' \in 0..MaxResumes
    BY <1>0, <1>14 DEF Continue, TypeOK
  <2>3. QED BY <1>0, <1>14, <2>1, <2>2 DEF Continue, TypeOK, plan, db
<1>15. CASE UNCHANGED vars
  BY <1>0, <1>15 DEF TypeOK, vars
<1>16. QED
  BY <1>1, <1>2, <1>3, <1>4, <1>5, <1>6, <1>7, <1>8, <1>9, <1>10, <1>11,
     <1>12, <1>13, <1>14, <1>15
  DEF Next, LoopStep

(***************************************************************************)
(* The shape of the batch and the order of layers are preserved together.  *)
(***************************************************************************)

\* When the batch has settled, no session row is running.
LEMMA SettledIdle ==
  ASSUME Shape, Settled
  PROVE  \A n \in Node : session[n] # "running"
BY DEF Shape, Settled

\* Leaving the loop with all agents ended, or from its top, ends the batch.
LEMMA ReturnOrder ==
  ASSUME NEW s, Return(s), \A n \in Node : session[n] # "running", UNCHANGED db
  PROVE  Shape' /\ LayersInOrder'
BY DEF Return, Shape, LayersInOrder, BatchLayer, Callers, Idle, db

\* At the top of the loop no session row is running.
LEMMA TopIdle ==
  ASSUME Shape, pc = "top"
  PROVE  \A n \in Node : session[n] # "running" /\ result[n] = "idle"
BY DEF Shape, Idle

\* A batch of one layer, spawned from the top: an agent is started only if
\* every node below it has a terminal session, and none of those is running.
LEMMA SpawnOrder ==
  ASSUME TypeOK, Shape, pc = "top", NEW layer \in Layer,
         NEW nodes \in SUBSET Node, NEW skipped \in SUBSET Node,
         nodes \cap skipped = {},
         \A n \in nodes : LayerIdx[n] = layer,
         Spawn(nodes, skipped), layer = BatchLayer'
  PROVE  Shape' /\ LayersInOrder'
<1>1. \A n \in Node : session[n] # "running" /\ result[n] = "idle"
  BY TopIdle
<1>2. \A n \in Node : /\ session'[n] = "running" => n \in nodes /\ Admitted(n)
                      /\ result'[n] = "running" <=> session'[n] = "running"
                      /\ result'[n] # "idle" => n \in nodes
                      /\ result'[n] # "callback"
  BY <1>1 DEF Spawn
<1>3. Shape'
  BY <1>2 DEF Shape, Spawn, Callers
<1>4. LayersInOrder'
  <2> SUFFICES ASSUME NEW n \in Node, NEW m \in Node,
                      session'[n] = "running", LayerIdx[m] < LayerIdx[n]
               PROVE  m \in terminal' /\ session'[m] # "running"
    BY DEF LayersInOrder
  <2>1. n \in nodes /\ Admitted(n)
    BY <1>2
  <2>2. m \in terminal'
    BY <2>1 DEF Admitted, Spawn
  <2>3. m \notin nodes
    BY <2>1, LayerAssumption DEF Layer
  <2>4. QED BY <1>2, <2>2, <2>3
<1>5. QED BY <1>3, <1>4

LEMMA CallbackOrder ==
  ASSUME Shape, Settled, NEW orig, HandleCallback(orig), UNCHANGED <<skipTags>>
  PROVE  Shape' /\ LayersInOrder'
<1>1. \A n \in Node : session[n] # "running"
  BY SettledIdle
<1>2. CASE Return("failed") /\ UNCHANGED <<cur, cbCount, session, terminal>>
  BY <1>1, <1>2, ReturnOrder DEF db
<1>3. CASE ~(Return("failed") /\ UNCHANGED <<cur, cbCount, session, terminal>>)
  <2>1. /\ \A n \in Node : session'[n] # "running"
        /\ pc' = "top" /\ step' = 0 /\ result' = Idle
    BY <1>1, <1>3 DEF HandleCallback
  <2>2. QED BY <2>1 DEF Shape, LayersInOrder, BatchLayer, Callers, Idle
<1>4. QED BY <1>2, <1>3

\* Every step keeps the batch in one layer and the layers in order.
LEMMA OrderStep == IInv /\ [Next]_vars => Shape' /\ LayersInOrder'
<1> SUFFICES ASSUME IInv, [Next]_vars PROVE Shape' /\ LayersInOrder'
  OBVIOUS
<1>0. TypeOK /\ Shape /\ LayersInOrder
  BY DEF IInv
<1>1. CASE ObserveCancel
  BY <1>0, <1>1, TopIdle, ReturnOrder DEF ObserveCancel, AtTop
<1>2. CASE Complete
  BY <1>0, <1>2, TopIdle, ReturnOrder DEF Complete
<1>3. CASE StartPlanStep
  <2>1. /\ todo \subseteq Node /\ todo # {} /\ pc = "top"
        /\ step' = LayerIdx[CHOOSE n \in StepNodes : TRUE]
        /\ Spawn(StepNodes, {})
    BY <1>0, <1>3 DEF StartPlanStep, AtTop, TypeOK
  <2>2. step' \in Layer /\ StepNodes = {n \in todo : LayerIdx[n] = step'}
    BY <2>1, StepLayer
  <2>3. BatchLayer' = step'
    BY <2>2, LayerAssumption DEF BatchLayer, Layer
  <2>4. StepNodes \in SUBSET Node /\ \A n \in StepNodes : LayerIdx[n] = step'
    BY <2>1, <2>2
  <2>5. QED BY <1>0, <2>1, <2>2, <2>3, <2>4, SpawnOrder
<1>4. CASE StartLayer
  <2> DEFINE skipped == {n \in NodesAt(cur) : SkipMatch(n)}
             nodes   == NodesAt(cur) \ skipped
  <2>1. /\ cur \in Layer /\ pc = "top" /\ Spawn(nodes, skipped)
        /\ step' = 0 /\ cur' = cur
    BY <1>4 DEF StartLayer, AtTop
  <2>2. BatchLayer' = cur
    BY <2>1 DEF BatchLayer
  <2>3. /\ nodes \in SUBSET Node /\ skipped \in SUBSET Node
        /\ nodes \cap skipped = {}
        /\ \A n \in nodes : LayerIdx[n] = cur
    BY DEF NodesAt
  <2> HIDE DEF nodes, skipped
  <2>4. QED BY <1>0, <2>1, <2>2, <2>3, SpawnOrder
<1>5. CASE SkipLayer
  <2>1. \A n \in Node : session[n] # "running" /\ result[n] = "idle"
    BY <1>0, <1>5, TopIdle DEF SkipLayer, AtTop
  <2>2. /\ \A n \in Node : session'[n] # "running"
        /\ pc' = "top" /\ step' = 0 /\ result' = Idle
    BY <1>0, <1>5, <2>1 DEF SkipLayer, AtTop, Shape
  <2>3. QED BY <2>2 DEF Shape, LayersInOrder, BatchLayer, Callers, Idle
<1>6. ASSUME NEW n \in Node, AgentEnds(n) PROVE Shape' /\ LayersInOrder'
  <2>1. /\ result[n] = "running" /\ session[n] = "running"
        /\ UNCHANGED <<pc, cur, step>>
        /\ result'[n] \notin {"running", "idle"} /\ session'[n] # "running"
        /\ \A m \in Node \ {n} : result'[m] = result[m] /\ session'[m] = session[m]
        /\ terminal \subseteq terminal'
    BY <1>0, <1>6 DEF AgentEnds, TypeOK, Shape
  <2>2. Callers' # {} => asks' # {}
    BY <1>0, <1>6 DEF AgentEnds, Shape, Callers, TypeOK
  <2>3. pc = "wait"
    BY <1>0, <2>1 DEF Shape, Idle, TypeOK
  <2>4. Shape'
    BY <1>0, <2>1, <2>2, <2>3 DEF Shape, BatchLayer
  <2>5. LayersInOrder'
    BY <1>0, <2>1 DEF LayersInOrder
  <2>6. QED BY <2>4, <2>5
<1>7. ASSUME NEW n \in Node, NEW t \in Tag, AddSkipTag(n, t)
      PROVE  Shape' /\ LayersInOrder'
  BY <1>0, <1>7 DEF AddSkipTag, Shape, LayersInOrder, BatchLayer, Callers
<1>8. CASE TallyAbort
  BY <1>0, <1>8, SettledIdle, ReturnOrder DEF TallyAbort
<1>9. CASE TallyCallback
  BY <1>0, <1>9, CallbackOrder DEF TallyCallback
<1>10. CASE TallyPolicyFailed
  BY <1>0, <1>10, SettledIdle, ReturnOrder DEF TallyPolicyFailed
<1>11. CASE LayerPassed
  <2>1. /\ \A n \in Node : session'[n] # "running"
        /\ pc' = "top" /\ step' = 0 /\ result' = Idle
    BY <1>0, <1>11, SettledIdle DEF LayerPassed, db
  <2>2. QED BY <2>1 DEF Shape, LayersInOrder, BatchLayer, Callers, Idle
<1>12. CASE PlanStepPassed
  <2>1. /\ \A n \in Node : session'[n] # "running"
        /\ pc' = "top" /\ step' = 0 /\ result' = Idle
    BY <1>0, <1>12, SettledIdle DEF PlanStepPassed, db
  <2>2. QED BY <2>1 DEF Shape, LayersInOrder, BatchLayer, Callers, Idle
<1>13. CASE Cancel
  BY <1>0, <1>13 DEF Cancel, Shape, LayersInOrder, BatchLayer, Callers, db
<1>14. CASE Continue
  BY <1>0, <1>14 DEF Continue, Shape, LayersInOrder, BatchLayer, Callers, db
<1>15. CASE UNCHANGED vars
  BY <1>0, <1>15 DEF vars, Shape, LayersInOrder, BatchLayer, Callers
<1>16. QED
  BY <1>1, <1>2, <1>3, <1>4, <1>5, <1>6, <1>7, <1>8, <1>9, <1>10, <1>11,
     <1>12, <1>13, <1>14, <1>15
  DEF Next, LoopStep

(***************************************************************************)
(* The callback budget is preserved by every action.                       *)
(***************************************************************************)

\* Cardinalities of the plan and of its parts are natural numbers.
LEMMA PendingFinite ==
  ASSUME todo \subseteq Node
  PROVE  IsFiniteSet(Pending) /\ Cardinality(Pending) \in Nat
<1>1. Pending \in SUBSET Node
  BY DEF Pending
<1>2. QED BY <1>1, NodeSubsetFinite

\* A step that drops the plan, or keeps what is pending, keeps the budget.
LEMMA BudgetKept ==
  ASSUME TypeOK, Budget, Pending' = {} \/ Pending' = Pending,
         UNCHANGED <<cbCount, replays, resumes>>
  PROVE  Budget'
<1>1. Cardinality(Pending) \in Nat
  BY PendingFinite DEF TypeOK
<1>2. Cardinality(Pending') \in Nat /\ Cardinality(Pending') <= Cardinality(Pending)
  BY <1>1, FS_EmptySet
<1>3. MaxCallbacks * resumes \in Int
  BY ConfigAssumption DEF TypeOK
<1>4. QED
  BY <1>1, <1>2, <1>3, ConfigAssumption DEF Budget, TypeOK

\* Starting a plan step moves its nodes from the plan to the replays.
LEMMA BudgetStartPlanStep ==
  ASSUME IInv, StartPlanStep
  PROVE  Budget'
<1>0. TypeOK /\ Shape /\ Budget
  BY DEF IInv
<1>1. /\ todo \subseteq Node /\ todo # {} /\ pc = "top" /\ pc' = "wait"
      /\ step' = LayerIdx[CHOOSE n \in StepNodes : TRUE]
      /\ replays' = replays + Cardinality(StepNodes)
      /\ UNCHANGED <<todo, cbCount, resumes>>
  BY <1>0 DEF StartPlanStep, AtTop, TypeOK, Spawn, plan
<1>2. StepNodes = {n \in todo : LayerIdx[n] = step'}
  BY <1>1, StepLayer
<1>3. Pending = todo /\ Pending' = todo \ StepNodes
  BY <1>1, <1>2 DEF Pending
<1>4. /\ Cardinality(todo) = Cardinality(StepNodes) + Cardinality(todo \ StepNodes)
      /\ Cardinality(StepNodes) \in Nat /\ Cardinality(todo \ StepNodes) \in Nat
  <2>1. IsFiniteSet(todo)
    BY <1>1, NodeSubsetFinite
  <2>2. StepNodes \in SUBSET todo
    BY <1>2
  <2>3. QED BY <2>1, <2>2, SplitCardinality
<1>5. MaxCallbacks * resumes \in Int
  BY <1>0, ConfigAssumption DEF TypeOK
<1>6. /\ cbCount' <= MaxCallbacks
      /\ replays' + Cardinality(todo \ StepNodes) <= MaxCallbacks * resumes + cbCount
  BY <1>0, <1>1, <1>3, <1>4, <1>5, ConfigAssumption DEF Budget, TypeOK
<1>7. QED BY <1>1, <1>3, <1>6 DEF Budget

\* A callback pays for the plan it builds, or fails the run.
LEMMA BudgetCallback ==
  ASSUME TypeOK, Budget, NEW orig, HandleCallback(orig),
         UNCHANGED <<replays, resumes>>
  PROVE  Budget'
<1> DEFINE nodes == PlanNodes(asks, orig)
<1>1. nodes \in SUBSET Node
  BY DEF PlanNodes
<1>2. CASE Return("failed") /\ UNCHANGED <<cur, cbCount, session, terminal>>
  <2>1. Pending' = {}
    BY <1>2 DEF Return, Pending
  <2>2. QED BY <1>2, <2>1, BudgetKept
<1>3. CASE ~(Return("failed") /\ UNCHANGED <<cur, cbCount, session, terminal>>)
  <2>1. /\ ~CapExceeded(Cardinality(nodes))
        /\ cbCount' = cbCount + Cardinality(nodes)
        /\ todo' = nodes /\ pc' = "top"
    BY <1>3 DEF HandleCallback
  <2>2. Pending' = nodes
    BY <2>1 DEF Pending
  <2>3. Cardinality(nodes) \in Nat /\ Cardinality(Pending) \in Nat
    BY <1>1, NodeSubsetFinite, PendingFinite DEF TypeOK
  <2>4. MaxCallbacks * resumes \in Int
    BY ConfigAssumption DEF TypeOK
  <2>5. /\ cbCount + Cardinality(nodes) <= MaxCallbacks
        /\ replays + Cardinality(nodes)
             <= MaxCallbacks * resumes + (cbCount + Cardinality(nodes))
    <3> HIDE DEF nodes
    <3> QED BY <2>1, <2>3, <2>4, ConfigAssumption DEF Budget, TypeOK, CapExceeded
  <2>6. QED BY <2>1, <2>2, <2>5 DEF Budget
<1>4. QED BY <1>2, <1>3

\* A continued instance starts with a fresh budget of MaxCallbacks.
LEMMA BudgetContinue ==
  ASSUME TypeOK, Budget, Continue
  PROVE  Budget'
<1>1. /\ cbCount' = 0 /\ resumes' = resumes + 1
      /\ UNCHANGED <<pc, step, todo, replays>>
  BY DEF Continue, plan
<1>2. Pending' = Pending
  BY <1>1 DEF Pending
<1>3. Cardinality(Pending) \in Nat
  BY PendingFinite DEF TypeOK
<1>4. MaxCallbacks * resumes \in Int /\ MaxCallbacks * (resumes + 1) = MaxCallbacks * resumes + MaxCallbacks
  BY ConfigAssumption DEF TypeOK
<1>5. replays + Cardinality(Pending) <= MaxCallbacks * (resumes + 1) + 0
  BY <1>3, <1>4, ConfigAssumption DEF Budget, TypeOK
<1>6. QED BY <1>1, <1>2, <1>5, ConfigAssumption DEF Budget

LEMMA BudgetStep == IInv /\ [Next]_vars => Budget'
<1> SUFFICES ASSUME IInv, [Next]_vars PROVE Budget'
  OBVIOUS
<1>0. TypeOK /\ Shape /\ Budget
  BY DEF IInv
<1>1. CASE ObserveCancel
  BY <1>0, <1>1, BudgetKept DEF ObserveCancel, Return, Pending
<1>2. CASE Complete
  BY <1>0, <1>2, BudgetKept DEF Complete, Return, Pending
<1>3. CASE StartPlanStep
  BY <1>3, BudgetStartPlanStep
<1>4. CASE StartLayer
  BY <1>0, <1>4, BudgetKept DEF StartLayer, Pending, plan
<1>5. CASE SkipLayer
  BY <1>0, <1>5, BudgetKept DEF SkipLayer, Pending, plan
<1>6. ASSUME NEW n \in Node, AgentEnds(n) PROVE Budget'
  BY <1>0, <1>6, BudgetKept DEF AgentEnds, Pending, plan
<1>7. ASSUME NEW n \in Node, NEW t \in Tag, AddSkipTag(n, t) PROVE Budget'
  BY <1>0, <1>7, BudgetKept DEF AddSkipTag, Pending, plan
<1>8. CASE TallyAbort
  BY <1>0, <1>8, BudgetKept DEF TallyAbort, Return, Pending
<1>9. CASE TallyCallback
  BY <1>0, <1>9, BudgetCallback DEF TallyCallback
<1>10. CASE TallyPolicyFailed
  BY <1>0, <1>10, BudgetKept DEF TallyPolicyFailed, Return, Pending
<1>11. CASE LayerPassed
  <2>1. step = 0 /\ UNCHANGED <<todo, step>>
    BY <1>11 DEF LayerPassed, plan
  <2>2. Pending' = Pending
    <3>1. \A n \in Node : LayerIdx[n] # 0
      BY LayerAssumption DEF Layer
    <3>2. QED BY <1>0, <2>1, <3>1 DEF Pending, TypeOK
  <2>3. QED BY <1>0, <1>11, <2>2, BudgetKept DEF LayerPassed
<1>12. CASE PlanStepPassed
  <2>1. /\ pc = "wait" /\ pc' = "top"
        /\ todo' = {n \in todo : LayerIdx[n] # step}
    BY <1>12 DEF PlanStepPassed, Settled
  <2>2. Pending' = Pending
    BY <2>1 DEF Pending
  <2>3. QED BY <1>0, <1>12, <2>2, BudgetKept DEF PlanStepPassed
<1>13. CASE Cancel
  BY <1>0, <1>13, BudgetKept DEF Cancel, Pending, plan
<1>14. CASE Continue
  BY <1>0, <1>14, BudgetContinue
<1>15. CASE UNCHANGED vars
  BY <1>0, <1>15, BudgetKept DEF vars, Pending
<1>16. QED
  BY <1>1, <1>2, <1>3, <1>4, <1>5, <1>6, <1>7, <1>8, <1>9, <1>10, <1>11,
     <1>12, <1>13, <1>14, <1>15
  DEF Next, LoopStep

(***************************************************************************)
(* The theorems.                                                           *)
(***************************************************************************)

\* The inductive invariant holds in every reachable state.
THEOREM Invariance == Spec => []IInv
<1>1. IInv /\ [Next]_vars => IInv'
  BY TypeStep, OrderStep, BudgetStep DEF IInv
<1>2. QED BY <1>1, InitInvariant, PTL DEF Spec

\* Every variable of the run loop keeps its type.
THEOREM TypeCorrect == Spec => []TypeOK
<1>1. IInv => TypeOK
  BY DEF IInv
<1>2. QED BY <1>1, Invariance, PTL

\* Two layers never run at once, and an agent never runs above a node that
\* has no accepted session, for every workflow and every callback request.
THEOREM OrderCorrect == Spec => []LayersInOrder
<1>1. IInv => LayersInOrder
  BY DEF IInv
<1>2. QED BY <1>1, Invariance, PTL

\* Callbacks, nested in any way, replay at most MaxCallbacks agents for each
\* loop of the instance.
THEOREM CapCorrect == Spec => []CallbackCap
<1>1. IInv => CallbackCap
  <2> SUFFICES ASSUME TypeOK, Budget PROVE CallbackCap
    BY DEF IInv
  <2>1. Cardinality(Pending) \in Nat
    BY PendingFinite DEF TypeOK
  <2>2. MaxCallbacks * resumes \in Int /\ MaxCallbacks * (resumes + 1) = MaxCallbacks * resumes + MaxCallbacks
    BY ConfigAssumption DEF TypeOK
  <2>3. replays <= MaxCallbacks * (resumes + 1)
    BY <2>1, <2>2, ConfigAssumption DEF TypeOK, Budget
  <2>4. QED BY <2>3 DEF CallbackCap
<1>2. QED BY <1>1, Invariance, PTL
=============================================================================
