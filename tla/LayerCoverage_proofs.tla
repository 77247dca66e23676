------------------------ MODULE LayerCoverage_proofs ------------------------
(***************************************************************************)
(* What callbacks do to the layers of LayerLoop: they never make the loop  *)
(* jump over a layer, a batch is turned away only below a lost relaunch,   *)
(* the policies of a completed run hold, and the loop always advances.     *)
(* Each theorem names what it needs of layers, requests and policies.      *)
(***************************************************************************)
EXTENDS LayerLoop_proofs

\* The layers are numbered consecutively (any first number).
Contiguous == \A i \in Layer : i + 1 \in Layer => LayerNum[i + 1] = LayerNum[i] + 1

(***************************************************************************)
(* The inductive invariant.                                                *)
(***************************************************************************)

\* The latest session of a node is the outcome of a run or a skip.
Ended(n) == session[n] \notin {"none", "reset", "running"}

\* Where the forward iteration is, or will be when the plan is finished.
Frontier == IF todo = {} THEN cur ELSE ResumeIdx(resume)

\* Nothing is missing below the frontier but what the plan will replay.
Covered ==
  status # "failed" =>
    /\ \A n \in Node \ todo : LayerIdx[n] < Frontier => Ended(n)
    /\ \A n \in todo : LayerIdx[n] < Frontier
    /\ todo # {} \/ pc = "wait" => cur \in Layer

\* The batch is the lowest layer of the plan, or what is not skipped of the
\* current layer.
BatchShape ==
  pc = "wait" =>
    /\ status = "active"
    /\ Batch # {}
    /\ step # 0 => /\ Batch = {n \in todo : LayerIdx[n] = step}
                   /\ \A n \in todo : step <= LayerIdx[n]
    /\ step = 0 => /\ todo = {}
                   /\ \A n \in NodesAt(cur) \ Batch : Ended(n)

\* The spawner admits all agents of a batch or none.
AllOrNone ==
  \A n, m \in Batch : result[n] # "running" /\ ~Ended(n) => result[m] = "err"

CInv == IInv /\ Covered /\ BatchShape /\ AllOrNone

(***************************************************************************)
(* Lemmas about plans and policies.                                        *)
(***************************************************************************)

\* The nodes one request asks to replay.
RequestNodes(r, orig) ==
  {n \in Node : LayerIdx[n] \in WholeLayers(r, orig) \/ n \in NamedNodes(r)}

\* With consecutive numbers, the number after that of layer i is layer i + 1
\* or past the end.
LEMMA ResumeIdxNext ==
  ASSUME Contiguous, NEW i \in Layer
  PROVE  ResumeIdx(LayerNum[i] + 1) = i + 1
<1>0. i \in Nat /\ i <= NumLayers /\ NumLayers \in Nat
  BY LayerAssumption DEF Layer
<1>1. CASE i + 1 \in Layer
  <2>1. LayerNum[i + 1] = LayerNum[i] + 1
    BY <1>1 DEF Contiguous
  <2>2. \A j \in Layer : LayerNum[j] = LayerNum[i] + 1 => j = i + 1
    <3> SUFFICES ASSUME NEW j \in Layer, LayerNum[j] = LayerNum[i + 1], j # i + 1
                 PROVE  FALSE
      BY <2>1
    <3>1. j < i + 1 \/ i + 1 < j
      BY <1>0 DEF Layer
    <3>2. LayerNum[j] < LayerNum[i + 1] \/ LayerNum[i + 1] < LayerNum[j]
      BY <1>1, <3>1, LayerAssumption
    <3>3. LayerNum[j] \in Nat
      BY LayerAssumption
    <3>4. QED BY <3>2, <3>3
  <2>3. QED BY <1>1, <2>1, <2>2 DEF ResumeIdx
<1>2. CASE i + 1 \notin Layer
  <2>1. i = NumLayers
    BY <1>0, <1>2 DEF Layer
  <2>2. \A j \in Layer : LayerNum[j] \in Nat /\ LayerNum[j] <= LayerNum[i]
    BY <2>1, LayerAssumption DEF Layer
  <2>3. \A j \in Layer : LayerNum[j] # LayerNum[i] + 1
    BY <2>2
  <2>4. QED BY <2>1, <2>3 DEF ResumeIdx
<1>3. QED BY <1>1, <1>2

\* A valid request replays some nodes, none above a layer i of the caller or
\* below, and resumes right after that layer.
LEMMA RequestReach ==
  ASSUME NEW r \in Request, NEW orig \in Layer, ValidRequest(r, orig)
  PROVE  /\ RequestNodes(r, orig) # {}
         /\ \E i \in Layer : /\ i <= orig
                             /\ ResumeLayer(r, orig) = LayerNum[i] + 1
                             /\ \A n \in RequestNodes(r, orig) : LayerIdx[n] <= i
<1>0. r.mode \in {"level", "agent", "chain"}
  BY DEF Request
<1>1. orig \in Nat /\ LayerNum[orig] \in Nat
  BY LayerAssumption DEF Layer
<1>2. CASE r.mode = "level"
  <2>1. PICK i \in Layer : LayerNum[i] = r.level /\ i <= orig
    BY <1>2 DEF ValidRequest
  <2>2. i \in WholeLayers(r, orig)
    <3>1. r.level \in Nat
      BY DEF Request
    <3>2. QED BY <1>2, <2>1, <3>1 DEF WholeLayers
  <2>3. RequestNodes(r, orig) # {}
    BY <2>2, LayerAssumption DEF RequestNodes, NodesAt
  <2>4. \A n \in RequestNodes(r, orig) : LayerIdx[n] <= orig
    BY <1>2 DEF RequestNodes, WholeLayers, NamedNodes
  <2>5. ResumeLayer(r, orig) = LayerNum[orig] + 1
    BY <1>1, <1>2 DEF ResumeLayer
  <2>6. QED BY <1>1, <2>3, <2>4, <2>5
<1>3. CASE r.mode = "agent"
  <2>1. NodeOf(r.target) \in Node /\ LayerIdx[NodeOf(r.target)] <= orig
    BY <1>3, NodeOfKnown DEF ValidRequest
  <2>2. RequestNodes(r, orig) # {}
    BY <1>3, <2>1 DEF RequestNodes, NamedNodes
  <2>3. \A n \in RequestNodes(r, orig) : LayerIdx[n] <= orig
    BY <1>3, <2>1 DEF RequestNodes, WholeLayers, NamedNodes
  <2>4. ResumeLayer(r, orig) = LayerNum[orig] + 1
    BY <1>1, <1>3 DEF ResumeLayer
  <2>5. QED BY <1>1, <2>2, <2>3, <2>4
<1>4. CASE r.mode = "chain"
  <2>1. /\ r.chain # <<>>
        /\ \A k \in DOMAIN r.chain :
             KnownAgent(r.chain[k]) /\ LayerIdx[NodeOf(r.chain[k])] <= orig
    BY <1>4 DEF ValidRequest
  <2>2. ChainNodes(r) \subseteq Node /\ \A n \in ChainNodes(r) : LayerIdx[n] <= orig
    BY <2>1, NodeOfKnown DEF ChainNodes
  <2>3. RequestNodes(r, orig) = ChainNodes(r)
    BY <1>4, <2>2 DEF RequestNodes, WholeLayers, NamedNodes
  <2>4. PICK n \in ChainNodes(r) :
          /\ \A m \in ChainNodes(r) : LayerIdx[m] <= LayerIdx[n]
          /\ ResumeLayer(r, orig) = 1 + NumOf(n)
    BY <1>4, <2>1, ChainTop
  <2>5. /\ LayerIdx[n] \in Layer /\ LayerIdx[n] <= orig
        /\ ResumeLayer(r, orig) = LayerNum[LayerIdx[n]] + 1
    BY <2>2, <2>4, LayerAssumption DEF NumOf
  <2>6. QED BY <2>3, <2>4, <2>5
<1>5. QED BY <1>0, <1>2, <1>3, <1>4

\* The merged plan replays some nodes, none above a layer i, and resumes
\* right after that layer.
LEMMA PlanReach ==
  ASSUME NEW reqs \in SUBSET Request, reqs # {}, NEW orig \in Layer,
         \A r \in reqs : ValidRequest(r, orig)
  PROVE  /\ PlanNodes(reqs, orig) # {}
         /\ \E i \in Layer : /\ i <= orig
                             /\ PlanResume(reqs, orig) = LayerNum[i] + 1
                             /\ \A n \in PlanNodes(reqs, orig) : LayerIdx[n] <= i
<1>1. \A n \in Node : n \in PlanNodes(reqs, orig) <=> \E r \in reqs : n \in RequestNodes(r, orig)
  BY DEF PlanNodes, PlanWhole, RequestNodes
<1>2. PlanNodes(reqs, orig) # {}
  <2>1. PICK r \in reqs : TRUE
    OBVIOUS
  <2>2. PICK n \in Node : n \in RequestNodes(r, orig)
    BY RequestReach DEF RequestNodes
  <2>3. QED BY <1>1, <2>2
<1>3. PICK top \in reqs : PlanResume(reqs, orig) = ResumeLayer(top, orig)
  BY PlanResumeGreatest
<1>4. PICK i \in Layer : i <= orig /\ ResumeLayer(top, orig) = LayerNum[i] + 1
  BY RequestReach
<1>5. ASSUME NEW n \in PlanNodes(reqs, orig) PROVE LayerIdx[n] <= i
  <2>1. n \in Node
    BY DEF PlanNodes
  <2>2. PICK r \in reqs : n \in RequestNodes(r, orig)
    BY <1>1, <2>1
  <2>3. PICK j \in Layer : /\ ResumeLayer(r, orig) = LayerNum[j] + 1
                           /\ LayerIdx[n] <= j
    BY <2>2, RequestReach
  <2>4. LayerNum[j] + 1 <= LayerNum[i] + 1
    BY <1>3, <1>4, <2>3, PlanResumeGreatest
  <2>5. ~(i < j)
    BY <2>4, LayerAssumption
  <2>6. QED BY <2>1, <2>3, <2>5, LayerAssumption DEF Layer
<1>6. QED BY <1>2, <1>3, <1>4, <1>5

\* A valid policy requires at least one agent that passed.
LEMMA RequiredPositive ==
  ASSUME NEW policy, NEW count \in Nat, ValidPolicy(policy, count),
         NEW denom \in Nat \ {0}
  PROVE  Required(policy, denom) \in Nat \ {0}
<1>1. /\ policy.n \in Nat
      /\ policy.kind \in {"any", "all", "quorum", "percent"}
  BY DEF ValidPolicy, PassPolicies, PolicyKind
<1>2. CASE policy.kind = "percent"
  <2>1. policy.n \in 1..100
    BY <1>2 DEF ValidPolicy
  <2>2. denom * policy.n \in Nat /\ denom * policy.n >= 1
    BY <2>1
  <2>3. \A x \in Nat : x >= 1 => (x + 99) \div 100 \in Nat \ {0}
    OBVIOUS
  <2>4. (denom * policy.n + 99) \div 100 \in Nat \ {0}
    BY <2>2, <2>3
  <2>5. QED BY <1>2, <2>4 DEF Required
<1>3. CASE policy.kind # "percent"
  BY <1>1, <1>3 DEF Required, ValidPolicy
<1>4. QED BY <1>2, <1>3

\* LayerPolicy.Required: a percentage asks for the least number of passes that
\* is at least that share of the agents which ran, never for one too many.
THEOREM PercentIsCeiling ==
  ASSUME NEW policy, NEW count \in Nat, ValidPolicy(policy, count),
         policy.kind = "percent", NEW denom \in Nat
  PROVE  /\ 100 * Required(policy, denom) >= denom * policy.n
         /\ \A k \in Nat : 100 * k >= denom * policy.n => k >= Required(policy, denom)
<1>1. policy.n \in 1..100
  BY DEF ValidPolicy
<1>2. denom * policy.n \in Nat
  BY <1>1
<1>3. \A x \in Nat : 100 * ((x + 99) \div 100) >= x
  OBVIOUS
<1>4. \A x, k \in Nat : 100 * k >= x => k >= (x + 99) \div 100
  OBVIOUS
<1>5. Required(policy, denom) = (denom * policy.n + 99) \div 100
  BY DEF Required
<1>6. QED BY <1>2, <1>3, <1>4, <1>5

\* ValidateLayerPolicy and LayerPolicy.Required: a policy that was accepted can
\* be met when all agents of the layer run, and never by none of them.
THEOREM PoliciesCanBeMet ==
  ASSUME NEW policy, NEW count \in Nat \ {0}, ValidPolicy(policy, count)
  PROVE  Required(policy, count) \in 1..count
<1>1. Required(policy, count) \in Nat \ {0}
  BY RequiredPositive
<1>2. policy.kind \in {"any", "all", "quorum", "percent"}
  BY DEF ValidPolicy, PassPolicies, PolicyKind
<1>3. CASE policy.kind = "percent"
  <2>1. policy.n \in 1..100
    BY <1>3 DEF ValidPolicy
  <2>2. 100 * count >= count * policy.n
    <3>1. \A p \in 1..100 : 100 * count - count * p = count * (100 - p)
      OBVIOUS
    <3>2. \A q \in Nat : count * q >= 0
      OBVIOUS
    <3>3. QED BY <2>1, <3>1, <3>2
  <2>3. QED BY <1>1, <1>3, <2>2, PercentIsCeiling
<1>4. CASE policy.kind # "percent"
  BY <1>1, <1>2, <1>4 DEF Required, ValidPolicy
<1>5. QED BY <1>3, <1>4

\* A batch that is tallied without an abort has run: none was turned away.
LEMMA SettledEnded ==
  ASSUME CInv, Settled, Callers # {} \/ PolicyMet(BatchLayer)
  PROVE  \A n \in Batch : Ended(n)
<1>0. TypeOK /\ Shape /\ BatchShape /\ AllOrNone
  BY DEF CInv, IInv
<1>1. Batch # {} /\ Batch \in SUBSET Node /\ BatchLayer \in Layer
  BY <1>0 DEF Settled, BatchShape, Batch, Shape
<1>2. Passed # {}
  <2>1. CASE Callers # {}
    BY <2>1 DEF Callers, Passed
  <2>2. CASE PolicyMet(BatchLayer)
    <3>1. Cardinality(Batch) \in Nat \ {0}
      BY <1>1, NodeSubsetFinite, FS_EmptySet
    <3>2. NodesAt(BatchLayer) \in SUBSET Node
      BY DEF NodesAt
    <3>3. Required(Policy[BatchLayer], Cardinality(Batch)) \in Nat \ {0}
      BY <1>1, <3>1, <3>2, NodeSubsetFinite, RequiredPositive, ConfigAssumption
    <3>4. Cardinality(Passed) # 0
      BY <2>2, <3>3 DEF PolicyMet
    <3>5. QED BY <3>4, FS_EmptySet
  <2>3. QED BY <2>1, <2>2
<1>3. PICK p \in Batch : result[p] \in {"pass", "callback"}
  BY <1>2 DEF Passed, Batch
<1>4. QED BY <1>0, <1>3 DEF AllOrNone, Settled, Batch

(***************************************************************************)
(* The inductive step.                                                     *)
(***************************************************************************)

LEMMA InitCovered == Init => CInv
<1> SUFFICES ASSUME Init PROVE CInv
  OBVIOUS
<1>1. \A n \in Node : ~(LayerIdx[n] < 1)
  BY LayerAssumption DEF Layer
<1>2. Covered /\ BatchShape /\ AllOrNone
  BY <1>1 DEF Init, Covered, Frontier, BatchShape, AllOrNone, Batch, Idle
<1>3. QED BY <1>2, InitInvariant DEF CInv

\* A return from the loop with no plan, or with a failure, keeps coverage.
LEMMA ReturnCovered ==
  ASSUME Covered, NEW s, Return(s), UNCHANGED <<cur, session>>,
         s # "failed" => status # "failed" /\ todo = {}
  PROVE  Covered' /\ BatchShape' /\ AllOrNone'
BY DEF Return, Covered, Frontier, Ended, BatchShape, AllOrNone, Batch, Idle

\* At the top of the loop there is no batch.
LEMMA TopCovered ==
  ASSUME pc' = "top", result' = Idle
  PROVE  BatchShape' /\ AllOrNone'
BY DEF BatchShape, AllOrNone, Batch, Idle

\* A batch spawned from the top is admitted or turned away as a whole.
LEMMA SpawnAllOrNone ==
  ASSUME TypeOK, NEW layer \in Layer, NEW nodes \in SUBSET Node, NEW skipped \in SUBSET Node,
         nodes \cap skipped = {}, \A n \in nodes : LayerIdx[n] = layer,
         Spawn(nodes, skipped)
  PROVE  AllOrNone' /\ Batch' = nodes
<1>1. Batch' = nodes
  BY DEF Batch, Spawn
<1>2. \A n, m \in nodes : Admitted(n) <=> Admitted(m)
  BY DEF Admitted
<1>3. QED BY <1>1, <1>2 DEF AllOrNone, Spawn

LEMMA CoveredStartPlanStep ==
  ASSUME CInv, StartPlanStep
  PROVE  Covered' /\ BatchShape' /\ AllOrNone'
<1>0. TypeOK /\ Shape /\ Covered
  BY DEF CInv, IInv
<1>1. /\ todo \subseteq Node /\ todo # {} /\ pc = "top" /\ pc' = "wait"
      /\ step' = LayerIdx[CHOOSE n \in StepNodes : TRUE]
      /\ status = "active" /\ cur \in Layer
      /\ Spawn(StepNodes, {})
      /\ UNCHANGED <<status, cur, todo, resume>>
  BY <1>0 DEF StartPlanStep, AtTop, TypeOK, Spawn, plan
<1>2. step' \in Layer /\ StepNodes = {n \in todo : LayerIdx[n] = step'}
  BY <1>1, StepLayer
<1>3. StepNodes # {} /\ \A n \in todo : step' <= LayerIdx[n]
  <2>1. PICK l \in {LayerIdx[n] : n \in todo} : \A k \in {LayerIdx[n] : n \in todo} : l <= k
    <3> DEFINE L == {LayerIdx[n] : n \in todo}
    <3>1. L \in SUBSET Nat /\ L # {}
      BY <1>1, LayerAssumption DEF Layer
    <3> HIDE DEF L
    <3>2. QED BY <3>1, LeastNatural DEF L
  <2>2. StepNodes # {}
    BY <2>1 DEF StepNodes
  <2>3. PICK n0 \in StepNodes : LayerIdx[n0] = step'
    BY <1>2, <2>2
  <2>4. QED BY <2>2, <2>3 DEF StepNodes
<1>4. AllOrNone' /\ Batch' = StepNodes
  BY <1>0, <1>1, <1>2, SpawnAllOrNone
<1>5. BatchShape'
  <2>1. step' # 0
    BY <1>2, LayerAssumption DEF Layer
  <2>2. QED BY <1>1, <1>2, <1>3, <1>4, <2>1 DEF BatchShape
<1>6. Covered'
  <2>1. \A n \in Node \ todo : session'[n] = session[n]
    BY <1>0, <1>1, <1>2 DEF Spawn, TypeOK
  <2>2. QED BY <1>0, <1>1, <2>1 DEF Covered, Frontier, Ended
<1>7. QED BY <1>4, <1>5, <1>6

LEMMA CoveredStartLayer ==
  ASSUME CInv, StartLayer
  PROVE  Covered' /\ BatchShape' /\ AllOrNone'
<1> DEFINE skipped == {n \in NodesAt(cur) : SkipMatch(n)}
           nodes   == NodesAt(cur) \ skipped
<1>0. TypeOK /\ Shape /\ Covered
  BY DEF CInv, IInv
<1>1. /\ cur \in Layer /\ pc = "top" /\ pc' = "wait" /\ todo = {}
      /\ skipped # NodesAt(cur) /\ Spawn(nodes, skipped)
      /\ step' = 0 /\ status = "active"
      /\ UNCHANGED <<status, cur, todo, resume>>
  BY DEF StartLayer, AtTop, Spawn, plan
<1>2. /\ nodes \in SUBSET Node /\ skipped \in SUBSET Node
      /\ nodes \cap skipped = {} /\ nodes \cup skipped = NodesAt(cur)
      /\ \A n \in NodesAt(cur) : LayerIdx[n] = cur
  BY DEF NodesAt
<1>3. nodes # {}
  BY <1>1
<1> HIDE DEF nodes, skipped
<1>4. AllOrNone' /\ Batch' = nodes
  BY <1>0, <1>1, <1>2, SpawnAllOrNone
<1>5. \A n \in Node : /\ n \in skipped => session'[n] = "skipped"
                      /\ n \notin NodesAt(cur) => session'[n] = session[n]
  BY <1>1, <1>2 DEF Spawn
<1>6. BatchShape'
  BY <1>1, <1>2, <1>3, <1>4, <1>5 DEF BatchShape, Ended, NodesAt
<1>7. Covered'
  <2>1. \A n \in Node : LayerIdx[n] < cur => n \notin NodesAt(cur)
    BY <1>1, LayerAssumption DEF NodesAt, Layer
  <2>2. QED BY <1>0, <1>1, <1>5, <2>1 DEF Covered, Frontier, Ended
<1>8. QED BY <1>4, <1>6, <1>7

LEMMA CoveredSkipLayer ==
  ASSUME CInv, SkipLayer
  PROVE  Covered' /\ BatchShape' /\ AllOrNone'
<1>0. TypeOK /\ Shape /\ Covered
  BY DEF CInv, IInv
<1>1. /\ status = "active" /\ cur \in Layer /\ todo = {} /\ todo' = {}
      /\ cur' = cur + 1 /\ pc' = "top" /\ result' = Idle
      /\ \A n \in Node : session'[n] = IF LayerIdx[n] = cur THEN "skipped" ELSE session[n]
  BY <1>0 DEF SkipLayer, AtTop, GoTo, plan, Shape
<1>2. \A n \in Node : LayerIdx[n] < cur + 1 => LayerIdx[n] = cur \/ LayerIdx[n] < cur
  BY <1>1, LayerAssumption DEF Layer
<1>3. Covered'
  BY <1>0, <1>1, <1>2 DEF Covered, Frontier, Ended
<1>4. QED BY <1>1, <1>3, TopCovered

LEMMA CoveredAgentEnds ==
  ASSUME CInv, NEW n \in Node, AgentEnds(n)
  PROVE  Covered' /\ BatchShape' /\ AllOrNone'
<1>0. TypeOK /\ Shape /\ Covered /\ BatchShape /\ AllOrNone
  BY DEF CInv, IInv
<1>1. /\ result[n] = "running"
      /\ UNCHANGED <<status, pc, cur, todo, resume, step>>
      /\ result'[n] \notin {"running", "idle"}
      /\ session'[n] \in {"completed", "failed", "continued", "callback"}
      /\ \A m \in Node \ {n} : result'[m] = result[m] /\ session'[m] = session[m]
  BY <1>0 DEF AgentEnds, TypeOK, plan
<1>2. Batch' = Batch
  BY <1>1 DEF Batch
<1>3. \A m \in Node : Ended(m) => Ended(m)'
  BY <1>1 DEF Ended
<1>4. Covered'
  BY <1>0, <1>1, <1>3 DEF Covered, Frontier
<1>5. BatchShape'
  BY <1>0, <1>1, <1>2, <1>3 DEF BatchShape, NodesAt
<1>6. AllOrNone'
  <2> SUFFICES ASSUME NEW m \in Batch, NEW k \in Batch,
                      result'[m] # "running", ~Ended(m)'
               PROVE  result'[k] = "err"
    BY <1>2 DEF AllOrNone
  <2>1. m # n
    BY <1>1 DEF Ended
  <2>2. m \in Node /\ n \in Batch
    BY <1>1 DEF Batch
  <2>3. result[m] # "running" /\ ~Ended(m)
    BY <1>1, <1>3, <2>1, <2>2
  <2>4. result[n] = "err"
    BY <1>0, <2>2, <2>3 DEF AllOrNone
  <2>5. QED BY <1>1, <2>4
<1>7. QED BY <1>4, <1>5, <1>6

\* Below and in the layer of a settled batch, all that is not left in the
\* plan after this step has ended.
LEMMA EndedUpToBatch ==
  ASSUME CInv, Settled, Callers # {} \/ PolicyMet(BatchLayer)
  PROVE  \A n \in Node : LayerIdx[n] <= BatchLayer => Ended(n)
<1>0. TypeOK /\ Shape /\ Covered /\ BatchShape
  BY DEF CInv, IInv
<1>1. pc = "wait" /\ status = "active" /\ BatchLayer \in Layer
  BY <1>0 DEF Settled, BatchShape, Shape
<1>2. \A n \in Batch : Ended(n)
  BY SettledEnded
<1>3. SUFFICES ASSUME NEW n \in Node \ Batch, LayerIdx[n] <= BatchLayer
               PROVE  Ended(n)
  BY <1>2
<1>4. CASE step = 0
  <2>1. BatchLayer = cur /\ todo = {} /\ Frontier = cur
    BY <1>0, <1>1, <1>4 DEF BatchLayer, BatchShape, Frontier
  <2>2. LayerIdx[n] = cur \/ LayerIdx[n] < cur
    BY <1>1, <1>3, <2>1, LayerAssumption DEF Layer
  <2>3. QED BY <1>0, <1>1, <1>4, <2>1, <2>2 DEF Covered, BatchShape, NodesAt
<1>5. CASE step # 0
  <2>1. BatchLayer = step
    BY <1>5 DEF BatchLayer
  <2>2. /\ Batch = {m \in todo : LayerIdx[m] = step} /\ Batch # {}
        /\ \A m \in todo : step <= LayerIdx[m]
    BY <1>0, <1>1, <1>5 DEF BatchShape
  <2>3. PICK b \in todo : LayerIdx[b] = step
    BY <2>2
  <2>4. step < Frontier
    BY <1>0, <1>1, <2>3 DEF Covered
  <2>5. n \notin todo
    BY <1>0, <1>1, <1>3, <2>1, <2>2, LayerAssumption DEF Layer
  <2>6. Frontier \in Int
    <3>1. cur \in Int /\ ResumeIdx(resume) \in Int
      BY <1>0, ResumeIdxType DEF TypeOK
    <3>2. QED BY <3>1 DEF Frontier
  <2>7. LayerIdx[n] < Frontier
    BY <1>1, <1>3, <2>1, <2>4, <2>6, LayerAssumption DEF Layer
  <2>8. QED BY <1>0, <1>1, <2>5, <2>7 DEF Covered
<1>6. QED BY <1>4, <1>5

\* A callback replays what it resets, and will resume no higher than the
\* layer after its caller.
LEMMA CoveredTallyCallback ==
  ASSUME Contiguous, CInv, TallyCallback
  PROVE  Covered' /\ BatchShape' /\ AllOrNone'
<1> DEFINE orig  == BatchLayer
           nodes == PlanNodes(asks, orig)
<1>0. TypeOK /\ Shape /\ Covered /\ BatchShape
  BY DEF CInv, IInv
<1>1. /\ Settled /\ Callers # {} /\ HandleCallback(orig)
      /\ pc = "wait" /\ status = "active" /\ orig \in Layer
      /\ asks # {} /\ asks \in SUBSET Request
  BY <1>0 DEF TallyCallback, BatchLayer, Settled, BatchShape, Shape, TypeOK
<1>2. CASE Return("failed") /\ UNCHANGED <<cur, cbCount, session, terminal>>
  BY <1>0, <1>2, ReturnCovered
<1>3. CASE ~(Return("failed") /\ UNCHANGED <<cur, cbCount, session, terminal>>)
  <2>1. /\ \A r \in asks : ValidRequest(r, orig)
        /\ todo' = nodes /\ resume' = PlanResume(asks, orig)
        /\ \A n \in Node \ nodes : session'[n] = session[n]
        /\ pc' = "top" /\ result' = Idle
        /\ UNCHANGED <<status, cur>>
    BY <1>1, <1>3 DEF HandleCallback
  <2>2. nodes # {} /\ nodes \in SUBSET Node
    <3>1. nodes # {}
      BY <1>1, <2>1, PlanReach
    <3>2. QED BY <3>1 DEF PlanNodes
  <2>3. PICK i \in Layer : /\ i <= orig
                           /\ resume' = LayerNum[i] + 1
                           /\ \A n \in nodes : LayerIdx[n] <= i
    BY <1>1, <2>1, PlanReach
  <2>4. Frontier' = i + 1
    <3>1. ResumeIdx(resume') = i + 1
      BY <2>3, ResumeIdxNext
    <3>2. Frontier' = ResumeIdx(resume')
      BY <2>1, <2>2 DEF Frontier, ResumeIdx
    <3>3. QED BY <3>1, <3>2
  <2>5. \A n \in nodes : LayerIdx[n] < Frontier'
    BY <2>2, <2>3, <2>4, LayerAssumption DEF Layer
  <2>6. ASSUME NEW n \in Node \ nodes, LayerIdx[n] < Frontier'
        PROVE  Ended(n)'
    <3>1. LayerIdx[n] <= orig
      BY <1>1, <2>3, <2>4, <2>6, LayerAssumption DEF Layer
    <3>2. Ended(n)
      BY <1>1, <3>1, EndedUpToBatch
    <3>3. QED BY <2>1, <3>2 DEF Ended
  <2>7. cur \in Layer
    BY <1>0, <1>1 DEF Covered
  <2>8. Covered'
    <3> HIDE DEF nodes, orig
    <3> QED BY <2>1, <2>5, <2>6, <2>7 DEF Covered
  <2>9. QED BY <2>1, <2>8, TopCovered
<1>4. QED BY <1>2, <1>3

\* A layer that passed leaves nothing missing up to itself.
LEMMA CoveredLayerPassed ==
  ASSUME CInv, LayerPassed
  PROVE  Covered' /\ BatchShape' /\ AllOrNone'
<1>0. TypeOK /\ Shape /\ Covered /\ BatchShape
  BY DEF CInv, IInv
<1>1. /\ Settled /\ pc = "wait" /\ status = "active" /\ step = 0
      /\ cur' = cur + 1 /\ todo = {} /\ todo' = {}
      /\ pc' = "top" /\ result' = Idle /\ session' = session
      /\ BatchLayer = cur /\ PolicyMet(BatchLayer)
  BY <1>0 DEF LayerPassed, Settled, GoTo, plan, db, BatchShape, BatchLayer
<1>2. \A n \in Node : LayerIdx[n] <= cur => Ended(n)
  BY <1>1, EndedUpToBatch
<1>3. \A n \in Node : LayerIdx[n] < cur + 1 => LayerIdx[n] <= cur
  BY <1>0, LayerAssumption DEF Layer, TypeOK
<1>4. Covered'
  BY <1>1, <1>2, <1>3 DEF Covered, Frontier, Ended
<1>5. QED BY <1>1, <1>4, TopCovered

\* A plan step that passed leaves the rest of the plan, or the layer the
\* plan resumes at.
LEMMA CoveredPlanStepPassed ==
  ASSUME CInv, PlanStepPassed
  PROVE  Covered' /\ BatchShape' /\ AllOrNone'
<1>0. TypeOK /\ Shape /\ Covered /\ BatchShape
  BY DEF CInv, IInv
<1>1. /\ Settled /\ pc = "wait" /\ status = "active" /\ step # 0
      /\ todo' = {n \in todo : LayerIdx[n] # step}
      /\ pc' = "top" /\ result' = Idle /\ session' = session
      /\ BatchLayer = step /\ PolicyMet(BatchLayer)
      /\ cur \in Layer
  BY <1>0 DEF PlanStepPassed, Settled, db, BatchShape, BatchLayer, Covered
<1>2. \A n \in todo : LayerIdx[n] = step => Ended(n)
  <2>1. \A n \in Node : LayerIdx[n] <= step => Ended(n)
    BY <1>1, EndedUpToBatch
  <2>2. step \in Int
    BY <1>0 DEF TypeOK
  <2>3. QED BY <1>0, <2>1, <2>2 DEF TypeOK
<1>3. Frontier = ResumeIdx(resume)
  BY <1>0, <1>1 DEF BatchShape, Frontier
<1>4. Frontier' = Frontier /\ (todo' # {} => cur' = cur)
  <2>1. CASE todo' # {}
    BY <1>1, <1>3, <2>1 DEF PlanStepPassed, Frontier, ResumeIdx
  <2>2. CASE todo' = {}
    BY <1>3, <2>2 DEF PlanStepPassed, GoTo, Frontier
  <2>3. QED BY <2>1, <2>2
<1>5. \A n \in Node \ todo' : LayerIdx[n] < Frontier' => Ended(n)'
  <2> SUFFICES ASSUME NEW n \in Node \ todo', LayerIdx[n] < Frontier
               PROVE  Ended(n)
    BY <1>1, <1>4 DEF Ended
  <2>1. CASE n \in todo
    BY <1>1, <1>2, <2>1
  <2>2. CASE n \notin todo
    BY <1>0, <1>1, <2>2 DEF Covered
  <2>3. QED BY <2>1, <2>2
<1>6. \A n \in todo' : LayerIdx[n] < Frontier'
  BY <1>0, <1>1, <1>4 DEF Covered
<1>7. Covered'
  BY <1>1, <1>4, <1>5, <1>6 DEF Covered
<1>8. QED BY <1>1, <1>7, TopCovered

LEMMA CoveredStep == Contiguous /\ CInv /\ [Next]_vars => Covered' /\ BatchShape' /\ AllOrNone'
<1> SUFFICES ASSUME Contiguous, CInv, [Next]_vars
             PROVE  Covered' /\ BatchShape' /\ AllOrNone'
  OBVIOUS
<1>0. TypeOK /\ Shape /\ Covered /\ BatchShape /\ AllOrNone
  BY DEF CInv, IInv
<1>1. CASE ObserveCancel
  BY <1>0, <1>1, ReturnCovered DEF ObserveCancel, db
<1>2. CASE Complete
  <2>1. cur \notin Layer
    BY <1>2, LayerAssumption DEF Complete, Layer
  <2>2. status = "active" /\ todo = {}
    BY <1>0, <1>2, <2>1 DEF Complete, Covered
  <2>3. QED BY <1>0, <1>2, <2>2, ReturnCovered DEF Complete, db
<1>3. CASE StartPlanStep
  BY <1>3, CoveredStartPlanStep
<1>4. CASE StartLayer
  BY <1>4, CoveredStartLayer
<1>5. CASE SkipLayer
  BY <1>5, CoveredSkipLayer
<1>6. ASSUME NEW n \in Node, AgentEnds(n)
      PROVE  Covered' /\ BatchShape' /\ AllOrNone'
  BY <1>6, CoveredAgentEnds
<1>7. ASSUME NEW n \in Node, NEW t \in Tag, AddSkipTag(n, t)
      PROVE  Covered' /\ BatchShape' /\ AllOrNone'
  BY <1>0, <1>7
  DEF AddSkipTag, plan, Covered, Frontier, ResumeIdx, Ended, BatchShape, Batch, NodesAt, AllOrNone
<1>8. CASE TallyAbort
  BY <1>0, <1>8, ReturnCovered DEF TallyAbort, db
<1>9. CASE TallyCallback
  BY <1>9, CoveredTallyCallback
<1>10. CASE TallyPolicyFailed
  BY <1>0, <1>10, ReturnCovered DEF TallyPolicyFailed, db
<1>11. CASE LayerPassed
  BY <1>11, CoveredLayerPassed
<1>12. CASE PlanStepPassed
  BY <1>12, CoveredPlanStepPassed
<1>13. CASE Cancel
  BY <1>0, <1>13
  DEF Cancel, plan, db, Covered, Frontier, ResumeIdx, Ended, BatchShape, Batch, NodesAt, AllOrNone
<1>14. CASE Continue
  <2>1. pc # "wait"
    BY <1>0, <1>14 DEF Continue, BatchShape
  <2>2. Covered'
    BY <1>0, <1>14, <2>1 DEF Continue, plan, db, Covered, Frontier, ResumeIdx, Ended
  <2>3. BatchShape' /\ AllOrNone'
    BY <1>0, <1>14, <2>1 DEF Continue, plan, db, BatchShape, Ended, Batch, AllOrNone
  <2>4. QED BY <2>2, <2>3
<1>15. CASE UNCHANGED vars
  BY <1>0, <1>15
  DEF vars, Covered, Frontier, ResumeIdx, Ended, BatchShape, Batch, NodesAt, AllOrNone
<1>16. QED
  BY <1>1, <1>2, <1>3, <1>4, <1>5, <1>6, <1>7, <1>8, <1>9, <1>10, <1>11,
     <1>12, <1>13, <1>14, <1>15
  DEF Next, LoopStep

(***************************************************************************)
(* The theorem.                                                            *)
(***************************************************************************)

\* If the layer numbers have no gaps, then however callbacks nest and skips
\* and pauses intervene, the run never moves past a node whose result was
\* discarded or never produced; in particular it never completes on one.
THEOREM NoJumpCorrect ==
  ASSUME Contiguous
  PROVE  Spec => []NoLayerJumped
<1>1. CInv /\ [Next]_vars => CInv'
  <2>1. IInv /\ [Next]_vars => IInv'
    BY TypeStep, OrderStep, BudgetStep DEF IInv
  <2>2. QED BY <2>1, CoveredStep DEF CInv
<1>2. CInv => NoLayerJumped
  BY DEF CInv, Covered, Frontier, Ended, NoLayerJumped
<1>3. QED BY <1>1, <1>2, InitCovered, PTL DEF Spec

(***************************************************************************)
(* Refused agents and pass policies at completion.                         *)
(***************************************************************************)

\* No request that the loop would accept names an agent of the layer of its
\* caller, unless the caller is alone there.
Downward ==
  \A n \in Node : \A r \in Requests[n] :
    ValidRequest(r, LayerIdx[n]) =>
      \A m \in NamedNodes(r) : LayerIdx[m] = LayerIdx[n] => NodesAt(LayerIdx[n]) = {n}

\* The agents of a layer that requests name one by one.
Named(i) == {m \in NodesAt(i) : \E n \in Node : \E r \in Requests[n] :
                                  ValidRequest(r, LayerIdx[n]) /\ m \in NamedNodes(r)}

\* A layer with a percentage has at most two agents, or requests name at most
\* one of them.
PercentNamedOnce ==
  \A i \in Layer : Policy[i].kind = "percent" =>
    Cardinality(NodesAt(i)) <= 2 \/ \A n, m \in Named(i) : n = m

\* What the rows of a batch say.  A session that ended well, badly or by a
\* skip is terminal; results match the sessions; the spawner turns away all
\* agents of a batch or none; each request is that of a caller; the agents of
\* a layer that are not in its batch were skipped.
Rows ==
  /\ \A n \in Node : session[n] \in {"completed", "failed", "skipped"} => n \in terminal
  /\ \A n \in Node : /\ result[n] = "pass" => session[n] = "completed"
                     /\ result[n] = "callback" => session[n] = "callback"
  /\ \A n, m \in Batch : Refused(n) => result[m] = "err"
  /\ \A r \in asks : \E n \in Callers : r \in Requests[n]
  /\ pc = "wait" /\ step = 0 => \A n \in NodesAt(cur) \ Batch : session[n] = "skipped"

\* Below the frontier every agent that asked for a callback was replayed.
CallersReplayed ==
  status # "failed" =>
    \A n \in Node : session[n] = "callback" => n \in Callers \/ LayerIdx[n] >= Frontier

RInv == CInv /\ Rows /\ CallersReplayed /\ RefusedOnlyIfLost

\* The agents of a layer that ran, those that passed, those still planned.
Ran(i)  == {n \in NodesAt(i) : session[n] # "skipped"}
Done(i) == {n \in NodesAt(i) : session[n] = "completed"}
Owed(i) == NodesAt(i) \cap todo

\* Layer i satisfies its policy, or will when the agents of the plan have
\* satisfied it among themselves.
LayerOK(i) == Ran(i) = {} \/ Cardinality(Done(i)) >= Required(Policy[i], Cardinality(Ran(i)))
LayerOwed(i) ==
  Cardinality(Done(i) \ Owed(i)) + Required(Policy[i], Cardinality(Owed(i)))
    >= Required(Policy[i], Cardinality(Ran(i) \cup Owed(i)))

\* Below the frontier every layer satisfies its policy or is planned to.
PolicyKept ==
  /\ status # "failed" =>
       \A i \in Layer : i < Frontier => IF Owed(i) = {} THEN LayerOK(i) ELSE LayerOwed(i)
  /\ status = "completed" => cur = NumLayers + 1 /\ todo = {}

LEMMA FrontierType == TypeOK => Frontier \in 1..(NumLayers + 1)
<1> SUFFICES ASSUME TypeOK PROVE Frontier \in 1..(NumLayers + 1)
  OBVIOUS
<1>1. cur \in 1..(NumLayers + 1) /\ ResumeIdx(resume) \in 1..(NumLayers + 1)
  BY ResumeIdxType DEF TypeOK
<1>2. QED BY <1>1 DEF Frontier

\* The batch is the layer at the frontier or, in a plan, one below it; no
\* layer below the batch is still planned.
LEMMA BatchBelowFrontier ==
  ASSUME CInv, pc = "wait"
  PROVE  /\ BatchLayer \in Layer /\ Frontier \in Int /\ BatchLayer <= Frontier
         /\ step # 0 => BatchLayer = step /\ step < Frontier
         /\ \A n \in todo : BatchLayer <= LayerIdx[n]
<1>0. TypeOK /\ Shape /\ Covered /\ BatchShape /\ status = "active"
  BY DEF CInv, IInv, BatchShape
<1>1. BatchLayer \in Layer /\ BatchLayer \in Int /\ Frontier \in Int
  BY <1>0, FrontierType, LayerAssumption DEF Shape, Layer
<1>2. CASE step = 0
  BY <1>0, <1>1, <1>2 DEF BatchShape, BatchLayer, Frontier
<1>3. CASE step # 0
  <2>1. BatchLayer = step
    BY <1>3 DEF BatchLayer
  <2>2. /\ \E n \in todo : LayerIdx[n] = step
        /\ \A n \in todo : step <= LayerIdx[n]
    BY <1>0, <1>3 DEF BatchShape
  <2>3. step < Frontier
    BY <1>0, <2>2 DEF Covered
  <2>4. QED BY <1>1, <2>1, <2>2, <2>3
<1>4. QED BY <1>2, <1>3

\* The rows of a settled batch that was not turned away.
LEMMA SettledRows ==
  ASSUME CInv, Rows, Settled, Callers = {}, PolicyMet(BatchLayer)
  PROVE  \A n \in Batch : \/ n \in Passed /\ session[n] = "completed"
                          \/ n \notin Passed /\ session[n] \in {"failed", "continued"}
<1>0. TypeOK /\ Shape /\ BatchShape
  BY DEF CInv, IInv
<1>1. Batch # {} /\ Batch \in SUBSET Node /\ BatchLayer \in Layer
  BY <1>0 DEF Settled, BatchShape, Batch, Shape
<1>2. Passed # {}
  <2>1. Cardinality(Batch) \in Nat \ {0}
    BY <1>1, NodeSubsetFinite, FS_EmptySet
  <2>2. NodesAt(BatchLayer) \in SUBSET Node
    BY DEF NodesAt
  <2>3. Required(Policy[BatchLayer], Cardinality(Batch)) \in Nat \ {0}
    BY <1>1, <2>1, <2>2, NodeSubsetFinite, RequiredPositive, ConfigAssumption
  <2>4. QED BY <2>3, FS_EmptySet DEF PolicyMet
<1>3. PICK p \in Batch : result[p] # "err"
  BY <1>2 DEF Passed, Batch
<1>4. \A n \in Batch : ~Refused(n)
  BY <1>3 DEF Rows
<1>5. \A n \in Batch : result[n] \in {"pass", "err"}
  BY <1>0 DEF Batch, Settled, TypeOK, Result, Callers
<1>6. QED BY <1>4, <1>5 DEF Rows, Refused, Passed, Batch

\* What a callback that is accepted plans: the layer of its caller is replayed
\* as a whole if the plan reaches that far, and a layer below it as a whole or
\* as far as it is named.
LEMMA CallbackPlan ==
  ASSUME Contiguous, Downward, CInv, Rows, TallyCallback, status' # "failed"
  PROVE  /\ BatchLayer \in Layer /\ status' = status /\ cur' = cur
         /\ todo' \in SUBSET Node /\ result' = Idle
         /\ \A n \in Node : session'[n] =
              IF n \in todo' /\ session[n] \notin {"none", "running", "continued"}
              THEN "reset" ELSE session[n]
         /\ Frontier' \in Nat /\ Frontier' <= BatchLayer + 1
         /\ Frontier' = BatchLayer + 1 => NodesAt(BatchLayer) \subseteq todo'
         /\ \A i \in Layer : NodesAt(i) \subseteq todo' \/ NodesAt(i) \cap todo' \subseteq Named(i)
<1> DEFINE orig  == BatchLayer
           nodes == PlanNodes(asks, orig)
<1>0. TypeOK /\ Shape /\ Covered /\ BatchShape
  BY DEF CInv, IInv
<1>1. /\ HandleCallback(orig) /\ orig \in Layer
      /\ asks # {} /\ asks \in SUBSET Request
  BY <1>0 DEF TallyCallback, BatchLayer, Settled, Shape, TypeOK
<1>2. /\ \A r \in asks : ValidRequest(r, orig)
      /\ todo' = nodes /\ resume' = PlanResume(asks, orig)
      /\ session' = [n \in Node |->
           IF n \in nodes /\ session[n] \notin {"none", "running", "continued"}
           THEN "reset" ELSE session[n]]
      /\ result' = Idle
      /\ UNCHANGED <<status, cur>>
  BY <1>1 DEF HandleCallback, Return
<1>3. nodes # {} /\ nodes \in SUBSET Node
  <2>1. nodes # {}
    BY <1>1, <1>2, PlanReach
  <2>2. QED BY <2>1 DEF PlanNodes
<1>4. PICK top \in Layer : top <= orig /\ resume' = LayerNum[top] + 1
  BY <1>1, <1>2, PlanReach
<1>5. Frontier' = top + 1
  <2>1. ResumeIdx(resume') = top + 1
    BY <1>4, ResumeIdxNext
  <2>2. Frontier' = ResumeIdx(resume')
    BY <1>2, <1>3 DEF Frontier, ResumeIdx
  <2>3. QED BY <2>1, <2>2
<1>6. \A r \in asks : \E n \in Node : /\ r \in Requests[n] /\ LayerIdx[n] = orig
                                      /\ ValidRequest(r, LayerIdx[n])
  BY <1>0, <1>2 DEF Rows, Callers, Shape
<1>7. ASSUME top = orig
      PROVE  NodesAt(orig) \subseteq nodes
  <2>1. PICK r \in asks : ResumeLayer(r, orig) = LayerNum[orig] + 1
    BY <1>1, <1>2, <1>4, <1>7, PlanResumeGreatest
  <2>2. PICK n \in Node : /\ r \in Requests[n] /\ LayerIdx[n] = orig
                          /\ ValidRequest(r, LayerIdx[n])
    BY <1>6
  <2>3. r \in Request /\ r.mode \in {"level", "agent", "chain"}
    BY <1>1 DEF Request
  <2>4. LayerNum[orig] \in Nat
    BY <1>1, LayerAssumption
  <2>5. \/ orig \in WholeLayers(r, orig)
        \/ \E m \in NamedNodes(r) : m \in Node /\ LayerIdx[m] = orig
    <3>1. CASE r.mode = "level"
      <4>1. PICK i \in Layer : LayerNum[i] = r.level /\ i <= orig
        BY <2>2, <3>1 DEF ValidRequest
      <4>2. LayerNum[i] <= LayerNum[orig]
        BY <1>1, <4>1, LayerAssumption DEF Layer
      <4>3. orig <= orig
        BY <1>1, LayerAssumption DEF Layer
      <4>4. QED BY <1>1, <3>1, <4>1, <4>2, <4>3 DEF WholeLayers
    <3>2. CASE r.mode = "agent"
      <4>1. NodeOf(r.target) \in Node /\ LayerIdx[NodeOf(r.target)] <= orig
        BY <2>2, <3>2, NodeOfKnown DEF ValidRequest
      <4>2. LayerIdx[NodeOf(r.target)] < orig \/ LayerIdx[NodeOf(r.target)] = orig
        BY <1>1, <4>1, LayerAssumption DEF Layer
      <4>3. orig <= orig
        BY <1>1, LayerAssumption DEF Layer
      <4>4. QED BY <1>1, <3>2, <4>1, <4>2, <4>3 DEF WholeLayers, NamedNodes
    <3>3. CASE r.mode = "chain"
      <4>1. /\ r.chain # <<>>
            /\ \A k \in DOMAIN r.chain : KnownAgent(r.chain[k])
        BY <2>2, <3>3 DEF ValidRequest
      <4>2. ChainNodes(r) \subseteq Node
        BY <4>1, NodeOfKnown DEF ChainNodes
      <4>3. PICK m \in ChainNodes(r) : ResumeLayer(r, orig) = 1 + NumOf(m)
        BY <2>3, <3>3, <4>1, ChainTop
      <4>4. m \in Node /\ LayerIdx[m] \in Layer /\ LayerNum[LayerIdx[m]] = LayerNum[orig]
        <5>1. m \in Node /\ LayerIdx[m] \in Layer /\ LayerNum[LayerIdx[m]] \in Nat
          BY <4>2, LayerAssumption
        <5>2. QED BY <2>1, <2>4, <4>3, <5>1 DEF NumOf
      <4>5. LayerIdx[m] = orig
        BY <1>1, <4>4, LayerAssumption DEF Layer
      <4>6. QED BY <3>3, <4>3, <4>4, <4>5 DEF NamedNodes
    <3>4. QED BY <2>3, <3>1, <3>2, <3>3
  <2>6. CASE orig \in WholeLayers(r, orig)
    BY <2>6 DEF PlanNodes, PlanWhole, NodesAt
  <2>7. CASE \E m \in NamedNodes(r) : m \in Node /\ LayerIdx[m] = orig
    <3>1. PICK m \in NamedNodes(r) : m \in Node /\ LayerIdx[m] = orig
      BY <2>7
    <3>2. NodesAt(orig) = {n}
      BY <2>2, <3>1 DEF Downward
    <3>3. m = n
      BY <3>1, <3>2 DEF NodesAt
    <3>4. QED BY <3>1, <3>2, <3>3 DEF PlanNodes
  <2>8. QED BY <2>5, <2>6, <2>7
<1>8. ASSUME NEW i \in Layer
      PROVE  NodesAt(i) \subseteq nodes \/ NodesAt(i) \cap nodes \subseteq Named(i)
  <2>1. CASE i \in PlanWhole(asks, orig)
    BY <2>1 DEF PlanNodes, NodesAt
  <2>2. CASE i \notin PlanWhole(asks, orig)
    BY <1>6, <2>2 DEF PlanNodes, NodesAt, Named
  <2>3. QED BY <2>1, <2>2
<1>9. top \in Nat /\ orig \in Nat
  BY <1>1, LayerAssumption DEF Layer
<1>10. QED
  <2> HIDE DEF nodes
  <2> QED BY <1>1, <1>2, <1>3, <1>4, <1>5, <1>7, <1>8, <1>9

\* A batch is spawned whole or turned away whole, and turned away only by an
\* agent below it that lost its relaunch.
LEMMA SpawnRows ==
  ASSUME CInv, Rows, CallersReplayed, pc = "top", status = "active",
         NEW layer \in Layer, layer <= Frontier, \A m \in todo : layer <= LayerIdx[m],
         NEW nodes \in SUBSET Node, NEW skipped \in SUBSET Node,
         nodes \cap skipped = {}, \A n \in nodes \cup skipped : LayerIdx[n] = layer,
         Spawn(nodes, skipped), UNCHANGED <<status, cur, todo, resume>>,
         step' = 0 => NodesAt(cur) = nodes \cup skipped
  PROVE  Rows' /\ CallersReplayed' /\ RefusedOnlyIfLost'
<1>0. TypeOK /\ Shape /\ Covered
  BY DEF CInv, IInv
<1>1. /\ \A n \in Node : result'[n] = IF n \notin nodes THEN "idle"
                                      ELSE IF Admitted(n) THEN "running" ELSE "err"
      /\ \A n \in Node : session'[n] = IF n \in skipped THEN "skipped"
                                       ELSE IF n \in nodes /\ Admitted(n) THEN "running"
                                       ELSE session[n]
      /\ terminal' = terminal \cup skipped /\ asks' = {}
  BY DEF Spawn
<1>2. Batch' = nodes /\ Callers' = {} /\ Callers = {}
  BY <1>0, <1>1 DEF Batch, Callers, Shape, Idle
<1>3. \A n, m \in nodes : Admitted(n) <=> Admitted(m)
  BY DEF Admitted
<1>4. Rows'
  BY <1>1, <1>2, <1>3 DEF Rows, Refused, NodesAt
<1>5. Frontier' = Frontier
  BY DEF Frontier, ResumeIdx
<1>6. CallersReplayed'
  BY <1>1, <1>2, <1>5 DEF CallersReplayed
<1>7. RefusedOnlyIfLost'
  <2> SUFFICES ASSUME NEW n \in Node, Refused(n)'
               PROVE  \E m \in Node : LayerIdx[m] < LayerIdx[n] /\ session'[m] = "continued"
    BY DEF RefusedOnlyIfLost
  <2>1. n \in nodes /\ ~Admitted(n)
    BY <1>1 DEF Refused
  <2>2. PICK m \in Node : LayerIdx[m] < layer /\ m \notin terminal
    BY <2>1 DEF Admitted
  <2>3. m \notin nodes /\ m \notin skipped /\ m \notin todo
    BY <2>2, LayerAssumption DEF Layer
  <2>4. Frontier \in Int
    BY <1>0, FrontierType
  <2>5. LayerIdx[m] < Frontier /\ ~(LayerIdx[m] >= Frontier)
    BY <2>2, <2>4, LayerAssumption DEF Layer
  <2>6. session[m] \notin {"none", "reset", "running"}
    BY <1>0, <2>3, <2>5 DEF Covered, Ended
  <2>7. session[m] \notin {"completed", "failed", "skipped", "callback"}
    BY <1>2, <2>2, <2>5 DEF Rows, CallersReplayed
  <2>8. session[m] = "continued"
    BY <1>0, <2>6, <2>7 DEF TypeOK, Session
  <2>9. QED BY <1>1, <2>1, <2>2, <2>3, <2>8
<1>8. QED BY <1>4, <1>6, <1>7

\* At the top of the loop only what the session rows say is left to show.
LEMMA TopRows ==
  ASSUME pc' = "top", result' = Idle, asks' = {},
         \A n \in Node : session'[n] \in {"completed", "failed", "skipped"} => n \in terminal'
  PROVE  Rows' /\ RefusedOnlyIfLost'
BY DEF Rows, RefusedOnlyIfLost, Refused, Batch, Callers, Idle

\* A return from the loop without a plan, or with a failure.
LEMMA ReturnRows ==
  ASSUME Rows, CallersReplayed, NEW s, Return(s), UNCHANGED <<cur, session, terminal>>,
         s # "failed" => status # "failed" /\ todo = {} /\ Callers = {}
  PROVE  Rows' /\ CallersReplayed' /\ RefusedOnlyIfLost'
<1>1. Rows' /\ RefusedOnlyIfLost'
  BY TopRows DEF Return, Rows
<1>2. CallersReplayed'
  BY DEF Return, CallersReplayed, Frontier
<1>3. QED BY <1>1, <1>2

LEMMA RowsAgentEnds ==
  ASSUME RInv, NEW n \in Node, AgentEnds(n)
  PROVE  Rows' /\ CallersReplayed' /\ RefusedOnlyIfLost'
<1>0. TypeOK /\ Shape
  BY DEF RInv, CInv, IInv
<1>1. /\ result[n] = "running"
      /\ UNCHANGED <<status, pc, cur, todo, resume, step>>
      /\ result' = [result EXCEPT ![n] = result'[n]]
      /\ session' = [session EXCEPT ![n] = session'[n]]
      /\ \/ /\ \/ result'[n] = "pass" /\ session'[n] = "completed"
               \/ result'[n] = "err" /\ session'[n] = "failed"
            /\ terminal' = terminal \cup {n} /\ asks' = asks
         \/ /\ result'[n] = "err" /\ session'[n] = "continued"
            /\ terminal' = terminal /\ asks' = asks
         \/ /\ result'[n] = "callback" /\ session'[n] = "callback" /\ terminal' = terminal
            /\ \E r \in Requests[n] : asks' = asks \cup {r}
  BY <1>0 DEF AgentEnds, TypeOK, plan
<1>2. \A m \in Node \ {n} : result'[m] = result[m] /\ session'[m] = session[m]
  BY <1>0, <1>1 DEF TypeOK
<1>3. Batch' = Batch /\ n \in Batch /\ ~Refused(n)'
  BY <1>1, <1>2 DEF Batch, Refused
<1>4. \A m \in Node : m # n => (Refused(m)' <=> Refused(m))
  BY <1>2 DEF Refused
<1>5. Callers' = IF result'[n] = "callback" THEN Callers \cup {n} ELSE Callers
  BY <1>1, <1>2 DEF Callers
<1>6. \A m \in Batch : ~Refused(m)
  BY <1>1, <1>3 DEF RInv, Rows
<1>7. \A m \in Node : ~Refused(m)'
  BY <1>3, <1>4, <1>6 DEF Refused, Batch
<1>8. Rows'
  <2>1. \A m \in Node : session'[m] \in {"completed", "failed", "skipped"} => m \in terminal'
    BY <1>1, <1>2 DEF RInv, Rows
  <2>2. \A m \in Node : /\ result'[m] = "pass" => session'[m] = "completed"
                        /\ result'[m] = "callback" => session'[m] = "callback"
    BY <1>1, <1>2 DEF RInv, Rows
  <2>3. \A r \in asks' : \E m \in Callers' : r \in Requests[m]
    BY <1>1, <1>5 DEF RInv, Rows
  <2>4. pc' = "wait" /\ step' = 0 => \A m \in NodesAt(cur') \ Batch' : session'[m] = "skipped"
    BY <1>1, <1>2, <1>3 DEF RInv, Rows, NodesAt
  <2>5. \A m, k \in Batch' : Refused(m)' => result'[k] = "err"
    BY <1>3, <1>7 DEF Batch
  <2>6. QED BY <2>1, <2>2, <2>3, <2>4, <2>5, <1>1 DEF Rows, NodesAt
<1>9. CallersReplayed'
  BY <1>1, <1>2, <1>5 DEF RInv, CallersReplayed, Frontier, ResumeIdx
<1>10. RefusedOnlyIfLost'
  BY <1>7 DEF RefusedOnlyIfLost
<1>11. QED BY <1>8, <1>9, <1>10

\* Between the batch and the frontier nobody is left asking for a callback.
LEMMA RowsTallyCallback ==
  ASSUME Contiguous, Downward, RInv, TallyCallback
  PROVE  Rows' /\ CallersReplayed' /\ RefusedOnlyIfLost'
<1>0. TypeOK /\ Shape /\ Covered /\ BatchShape
  BY DEF RInv, CInv, IInv
<1>1. CASE Return("failed") /\ UNCHANGED <<cur, cbCount, session, terminal>>
  BY <1>1, ReturnRows DEF RInv
<1>2. CASE ~(Return("failed") /\ UNCHANGED <<cur, cbCount, session, terminal>>)
  <2>1. /\ pc' = "top" /\ result' = Idle /\ asks' = {} /\ status' = status
        /\ terminal' = terminal \ PlanNodes(asks, BatchLayer)
        /\ todo' = PlanNodes(asks, BatchLayer)
    BY <1>2 DEF TallyCallback, HandleCallback, BatchLayer
  <2>2. pc = "wait" /\ status = "active"
    BY <1>0 DEF TallyCallback, Settled, BatchShape
  <2>3. /\ BatchLayer \in Layer
        /\ \A n \in Node : session'[n] =
             IF n \in todo' /\ session[n] \notin {"none", "running", "continued"}
             THEN "reset" ELSE session[n]
        /\ Frontier' \in Nat /\ Frontier' <= BatchLayer + 1
        /\ Frontier' = BatchLayer + 1 => NodesAt(BatchLayer) \subseteq todo'
    BY <2>1, <2>2, CallbackPlan DEF RInv
  <2>4. \A n \in Node : session'[n] \in {"completed", "failed", "skipped"} => n \in terminal'
    BY <2>1, <2>3 DEF RInv, Rows
  <2>5. BatchLayer <= Frontier /\ Frontier \in Int
    BY <2>2, BatchBelowFrontier DEF RInv
  <2>6. CallersReplayed'
    <3> SUFFICES ASSUME NEW n \in Node, session'[n] = "callback", LayerIdx[n] < Frontier'
                 PROVE  FALSE
      BY <2>3, LayerAssumption DEF CallersReplayed, Layer
    <3>1. n \notin todo' /\ session[n] = "callback"
      BY <2>3
    <3>2. LayerIdx[n] # BatchLayer
      BY <2>3, <3>1, LayerAssumption DEF NodesAt, Layer
    <3>3. n \notin Callers
      BY <1>0, <3>2 DEF Callers, Shape
    <3>4. LayerIdx[n] >= Frontier
      BY <2>2, <3>1, <3>3 DEF RInv, CallersReplayed
    <3>5. QED BY <2>3, <2>5, <3>2, <3>4, LayerAssumption DEF Layer
  <2>7. QED BY <2>1, <2>4, <2>6, TopRows
<1>3. QED BY <1>1, <1>2

LEMMA RowsStep ==
  ASSUME Contiguous, Downward, RInv, [Next]_vars
  PROVE  Rows' /\ CallersReplayed' /\ RefusedOnlyIfLost'
<1>0. /\ TypeOK /\ Shape /\ Covered /\ BatchShape /\ CInv
      /\ Rows /\ CallersReplayed /\ RefusedOnlyIfLost
  BY DEF RInv, CInv, IInv
<1>1. CASE ObserveCancel
  BY <1>0, <1>1, ReturnRows DEF ObserveCancel, db
<1>2. CASE Complete
  <2>1. cur \notin Layer
    BY <1>2, LayerAssumption DEF Complete, Layer
  <2>2. status = "active" /\ todo = {} /\ Callers = {}
    BY <1>0, <1>2, <2>1 DEF Complete, Covered, Shape, Callers, Idle
  <2>3. QED BY <1>0, <1>2, <2>2, ReturnRows DEF Complete, db
<1>3. CASE StartPlanStep
  <2>1. /\ todo \subseteq Node /\ todo # {} /\ pc = "top"
        /\ step' = LayerIdx[CHOOSE n \in StepNodes : TRUE]
        /\ status = "active" /\ Spawn(StepNodes, {})
        /\ UNCHANGED <<status, cur, todo, resume>>
    BY <1>0, <1>3 DEF StartPlanStep, AtTop, TypeOK, plan
  <2>2. step' \in Layer /\ StepNodes = {n \in todo : LayerIdx[n] = step'}
    BY <2>1, StepLayer
  <2>3. BatchShape'
    BY <1>0, <1>3, CoveredStartPlanStep
  <2>4. /\ step' # 0 /\ pc' = "wait"
        /\ \E n \in todo : LayerIdx[n] = step' /\ \A m \in todo : step' <= LayerIdx[m]
    <3>1. step' # 0 /\ pc' = "wait"
      BY <2>1, <2>2, LayerAssumption DEF Layer, Spawn
    <3>2. Batch' # {} /\ Batch' = {n \in todo : LayerIdx[n] = step'}
          /\ \A n \in todo : step' <= LayerIdx[n]
      BY <2>1, <2>3, <3>1 DEF BatchShape
    <3>3. QED BY <3>1, <3>2
  <2>5. step' <= Frontier
    <3>1. Frontier \in Int
      BY <1>0, FrontierType
    <3>2. step' < Frontier
      BY <1>0, <2>1, <2>4 DEF Covered
    <3>3. QED BY <2>2, <3>1, <3>2, LayerAssumption DEF Layer
  <2>6. QED BY <1>0, <2>1, <2>2, <2>4, <2>5, SpawnRows
<1>4. CASE StartLayer
  <2> DEFINE skipped == {n \in NodesAt(cur) : SkipMatch(n)}
             nodes   == NodesAt(cur) \ skipped
  <2>1. /\ cur \in Layer /\ pc = "top" /\ todo = {} /\ status = "active"
        /\ Spawn(nodes, skipped) /\ UNCHANGED <<status, cur, todo, resume>>
    BY <1>4 DEF StartLayer, AtTop, plan
  <2>2. /\ nodes \in SUBSET Node /\ skipped \in SUBSET Node
        /\ nodes \cap skipped = {} /\ nodes \cup skipped = NodesAt(cur)
        /\ \A n \in NodesAt(cur) : LayerIdx[n] = cur
    BY DEF NodesAt
  <2>3. cur <= Frontier
    BY <2>1, LayerAssumption DEF Frontier, Layer
  <2> HIDE DEF nodes, skipped
  <2>4. QED BY <1>0, <2>1, <2>2, <2>3, SpawnRows
<1>5. CASE SkipLayer
  <2>1. /\ status = "active" /\ cur \in Layer /\ todo = {} /\ todo' = {}
        /\ cur' = cur + 1 /\ pc' = "top" /\ result' = Idle /\ result = Idle /\ asks' = asks
        /\ \A n \in Node : session'[n] = IF LayerIdx[n] = cur THEN "skipped" ELSE session[n]
        /\ terminal' = terminal \cup NodesAt(cur)
    BY <1>0, <1>5 DEF SkipLayer, AtTop, GoTo, plan, Shape
  <2>2. Callers = {} /\ asks = {}
    BY <1>0, <2>1 DEF Callers, Idle, Rows
  <2>3. \A n \in Node : session'[n] \in {"completed", "failed", "skipped"} => n \in terminal'
    BY <1>0, <2>1 DEF Rows, NodesAt
  <2>4. CallersReplayed'
    BY <1>0, <2>1, <2>2, LayerAssumption DEF CallersReplayed, Frontier, Layer
  <2>5. QED BY <2>1, <2>2, <2>3, <2>4, TopRows
<1>6. ASSUME NEW n \in Node, AgentEnds(n)
      PROVE  Rows' /\ CallersReplayed' /\ RefusedOnlyIfLost'
  BY <1>6, RowsAgentEnds
<1>7. ASSUME NEW n \in Node, NEW t \in Tag, AddSkipTag(n, t)
      PROVE  Rows' /\ CallersReplayed' /\ RefusedOnlyIfLost'
  BY <1>0, <1>7
  DEF AddSkipTag, plan, Rows, Batch, Callers, Refused, NodesAt, CallersReplayed, Frontier,
      ResumeIdx, RefusedOnlyIfLost
<1>8. CASE TallyAbort
  BY <1>0, <1>8, ReturnRows DEF TallyAbort, db
<1>9. CASE TallyCallback
  BY <1>9, RowsTallyCallback
<1>10. CASE TallyPolicyFailed
  BY <1>0, <1>10, ReturnRows DEF TallyPolicyFailed, db
<1>11. CASE LayerPassed
  <2>1. /\ Settled /\ pc = "wait" /\ status = "active" /\ step = 0 /\ Callers = {}
        /\ cur' = cur + 1 /\ todo = {} /\ todo' = {} /\ asks' = asks
        /\ pc' = "top" /\ result' = Idle /\ session' = session /\ terminal' = terminal
        /\ BatchLayer = cur /\ PolicyMet(BatchLayer)
    BY <1>0, <1>11 DEF LayerPassed, Settled, GoTo, plan, db, BatchShape, BatchLayer
  <2>2. asks = {}
    BY <1>0, <2>1 DEF Rows
  <2>3. \A n \in NodesAt(cur) : session[n] # "callback"
    BY <1>0, <2>1, SettledRows DEF Rows
  <2>4. CallersReplayed'
    BY <1>0, <2>1, <2>3, LayerAssumption DEF CallersReplayed, Frontier, Layer, NodesAt, TypeOK
  <2>5. QED BY <1>0, <2>1, <2>2, <2>4, TopRows DEF Rows
<1>12. CASE PlanStepPassed
  <2>1. /\ pc = "wait" /\ status = "active" /\ step # 0 /\ Callers = {} /\ asks' = asks
        /\ pc' = "top" /\ result' = Idle /\ session' = session /\ terminal' = terminal
    BY <1>0, <1>12 DEF PlanStepPassed, Settled, db, BatchShape
  <2>2. asks = {}
    BY <1>0, <2>1 DEF Rows
  <2>3. Frontier = ResumeIdx(resume)
    BY <1>0, <2>1 DEF BatchShape, Frontier
  <2>4. Frontier' = Frontier
    <3>1. CASE todo' # {}
      BY <1>12, <2>3, <3>1 DEF PlanStepPassed, Frontier, ResumeIdx
    <3>2. CASE todo' = {}
      BY <1>12, <2>3, <3>2 DEF PlanStepPassed, GoTo, Frontier
    <3>3. QED BY <3>1, <3>2
  <2>5. CallersReplayed'
    BY <1>0, <2>1, <2>4 DEF CallersReplayed
  <2>6. QED BY <1>0, <2>1, <2>2, <2>5, TopRows DEF Rows
<1>13. CASE Cancel
  BY <1>0, <1>13
  DEF Cancel, plan, db, Rows, Batch, Callers, Refused, NodesAt, CallersReplayed, Frontier,
      ResumeIdx, RefusedOnlyIfLost
<1>14. CASE Continue
  BY <1>0, <1>14
  DEF Continue, plan, db, Rows, Batch, Callers, Refused, NodesAt, CallersReplayed, Frontier,
      ResumeIdx, RefusedOnlyIfLost
<1>15. CASE UNCHANGED vars
  BY <1>0, <1>15
  DEF vars, Rows, Batch, Callers, Refused, NodesAt, CallersReplayed, Frontier,
      ResumeIdx, RefusedOnlyIfLost
<1>16. QED
  BY <1>1, <1>2, <1>3, <1>4, <1>5, <1>6, <1>7, <1>8, <1>9, <1>10, <1>11,
     <1>12, <1>13, <1>14, <1>15
  DEF Next, LoopStep

LEMMA RInvInit == Init => RInv
<1> SUFFICES ASSUME Init PROVE RInv
  OBVIOUS
<1>1. Rows /\ CallersReplayed /\ RefusedOnlyIfLost
  BY DEF Init, Rows, CallersReplayed, RefusedOnlyIfLost, Refused, Batch, Idle
<1>2. QED BY <1>1, InitCovered DEF RInv

LEMMA RInvStep ==
  ASSUME Contiguous, Downward
  PROVE  RInv /\ [Next]_vars => RInv'
<1> SUFFICES ASSUME RInv, [Next]_vars PROVE RInv'
  OBVIOUS
<1>1. IInv'
  BY TypeStep, OrderStep, BudgetStep DEF RInv, CInv, IInv
<1>2. QED BY <1>1, CoveredStep, RowsStep DEF RInv, CInv

(***************************************************************************)
(* Pass policies.                                                          *)
(***************************************************************************)

\* One agent more in a layer, one more or the same number required.
LEMMA PercentOneMore ==
  ASSUME NEW q \in Nat, NEW n \in 1..100
  PROVE  (q + n + 99) \div 100 <= (q + 99) \div 100 + 1
OBVIOUS

\* If ran agents of a layer satisfied its policy with done passed ones, and
\* the agents of part are run again, the layer satisfies its policy as soon as
\* the agents of part satisfy it among themselves.
LEMMA PartReplayed ==
  ASSUME NEW i \in Layer, NEW ran \in SUBSET NodesAt(i), NEW done \in SUBSET ran,
         NEW part \in SUBSET NodesAt(i), part # {},
         ran = {} \/ Cardinality(done) >= Required(Policy[i], Cardinality(ran)),
         Policy[i].kind = "percent" => part = NodesAt(i) \/ \E x : part = {x}
  PROVE  Cardinality(done \ part) + Required(Policy[i], Cardinality(part))
           >= Required(Policy[i], Cardinality(ran \cup part))
<1> DEFINE R(x) == Required(Policy[i], x)
<1>0. /\ Policy[i].n \in Nat
      /\ Policy[i].kind \in {"any", "all", "quorum", "percent"}
      /\ Policy[i].kind = "percent" => Policy[i].n \in 1..100
  BY ConfigAssumption DEF ValidPolicy, PassPolicies, PolicyKind
<1>1. NodesAt(i) \in SUBSET Node
  BY DEF NodesAt
<1>2. /\ IsFiniteSet(ran) /\ IsFiniteSet(done) /\ IsFiniteSet(part)
      /\ IsFiniteSet(done \ part) /\ IsFiniteSet(ran \cup part)
      /\ Cardinality(ran) \in Nat /\ Cardinality(done) \in Nat /\ Cardinality(part) \in Nat
      /\ Cardinality(done \ part) \in Nat /\ Cardinality(ran \cup part) \in Nat
  <2>1. /\ ran \in SUBSET Node /\ done \in SUBSET Node /\ part \in SUBSET Node
        /\ done \ part \in SUBSET Node /\ ran \cup part \in SUBSET Node
    BY <1>1
  <2>2. QED BY <2>1, NodeSubsetFinite
<1>3. R(Cardinality(part)) \in Int /\ R(Cardinality(ran \cup part)) \in Int
  BY <1>0, <1>2 DEF Required
<1>4. CASE ran = {} \/ part = NodesAt(i)
  <2>1. ran \cup part = part
    BY <1>4
  <2>2. QED BY <1>2, <1>3, <2>1
<1>5. CASE ran # {} /\ Policy[i].kind = "any"
  BY <1>2, <1>5 DEF Required
<1>6. CASE ran # {} /\ Policy[i].kind = "quorum"
  BY <1>0, <1>2, <1>6 DEF Required
<1>7. CASE ran # {} /\ Policy[i].kind = "all"
  <2>1. Cardinality(done) >= Cardinality(ran)
    BY <1>7 DEF Required
  <2>2. done = ran
    <3>1. /\ Cardinality(ran) = Cardinality(done) + Cardinality(ran \ done)
          /\ Cardinality(ran \ done) \in Nat
      BY <1>2, SplitCardinality
    <3>2. Cardinality(ran \ done) = 0
      BY <1>2, <2>1, <3>1
    <3>3. ran \ done = {}
      BY <1>2, <3>2, FS_Difference, FS_EmptySet
    <3>4. QED BY <3>3
  <2>3. Cardinality(ran \cup part) = Cardinality(part) + Cardinality((ran \cup part) \ part)
    BY <1>2, SplitCardinality
  <2>4. (ran \cup part) \ part = done \ part
    BY <2>2
  <2>5. \A y : Required(Policy[i], y) = y
    BY <1>7 DEF Required
  <2>6. Cardinality((ran \cup part) \ part) = Cardinality(done \ part)
    BY <2>4
  <2>7. Cardinality(done \ part) + Cardinality(part) >= Cardinality(ran \cup part)
    BY <1>2, <2>3, <2>6
  <2>8. QED BY <2>5, <2>7
<1>8. CASE ran # {} /\ Policy[i].kind = "percent" /\ \E x : part = {x}
  <2>1. PICK x : part = {x}
    BY <1>8
  <2> DEFINE p == Policy[i].n
             k == Cardinality(ran)
             Up(q) == (q + 99) \div 100
  <2>2. Cardinality(part) = 1
    BY <2>1, FS_Singleton
  <2>3. p \in 1..100 /\ k \in Nat /\ k * p \in Nat /\ (k + 1) * p = k * p + p
    BY <1>0, <1>2, <1>8
  <2>4. \A y : R(y) = Up(y * p)
    BY <1>8 DEF Required
  <2>5. R(1) = 1 /\ R(k) \in Int
    <3>1. (1 * p + 99) \div 100 = 1
      BY <2>3
    <3>2. (k * p + 99) \div 100 \in Int
      BY <2>3
    <3>3. QED BY <2>4, <3>1, <3>2
  <2>6. Cardinality(done) >= R(k)
    BY <1>8
  <2>7. CASE x \in ran
    <3>1. ran \cup part = ran
      BY <2>1, <2>7
    <3>2. Cardinality(done \ part) >= Cardinality(done) - 1
      <4>1. CASE x \in done
        BY <1>2, <2>1, <4>1, FS_RemoveElement
      <4>2. CASE x \notin done
        <5>1. done \ part = done
          BY <2>1, <4>2
        <5>2. QED BY <1>2, <5>1
      <4>3. QED BY <4>1, <4>2
    <3>3. QED BY <1>2, <2>2, <2>5, <2>6, <3>1, <3>2
  <2>8. CASE x \notin ran
    <3>1. done \ part = done
      BY <2>1, <2>8
    <3>2. Cardinality(ran \cup part) = k + 1
      BY <1>2, <2>1, <2>8, FS_AddElement
    <3>3. R(k + 1) <= R(k) + 1
      <4>1. (k * p + p + 99) \div 100 <= (k * p + 99) \div 100 + 1
        BY <2>3, PercentOneMore
      <4>2. QED BY <2>3, <2>4, <4>1
    <3>4. R(k + 1) \in Int
      BY <1>3, <3>2
    <3>5. Cardinality(done \ part) = Cardinality(done)
      BY <3>1
    <3>6. Cardinality(done) + R(1) >= R(k + 1)
      <4> HIDE DEF R, k
      <4> QED BY <1>2, <2>5, <2>6, <3>3, <3>4, <3>2
    <3>7. QED BY <2>2, <3>2, <3>5, <3>6
  <2>9. QED BY <2>7, <2>8
<1>9. QED BY <1>0, <1>4, <1>5, <1>6, <1>7, <1>8

\* What a callback replays of a layer with a percentage is the whole layer or
\* one agent of it.
LEMMA PercentReplay ==
  ASSUME PercentNamedOnce, NEW i \in Layer, Policy[i].kind = "percent",
         NEW part \in SUBSET NodesAt(i), part # {},
         part = NodesAt(i) \/ part \subseteq Named(i)
  PROVE  part = NodesAt(i) \/ \E x : part = {x}
<1>1. CASE part = NodesAt(i)
  BY <1>1
<1>2. CASE \A n, m \in Named(i) : n = m
  <2>1. CASE part \subseteq Named(i)
    <3>1. PICK x \in part : TRUE
      OBVIOUS
    <3>2. part = {x}
      BY <1>2, <2>1
    <3>3. QED BY <3>2
  <2>2. QED BY <2>1
<1>3. CASE Cardinality(NodesAt(i)) <= 2 /\ part # NodesAt(i)
  <2>1. IsFiniteSet(NodesAt(i)) /\ IsFiniteSet(part) /\ IsFiniteSet(NodesAt(i) \ part)
    <3>1. NodesAt(i) \in SUBSET Node
      BY DEF NodesAt
    <3>2. QED BY <3>1, NodeSubsetFinite
  <2>2. PICK x \in part : TRUE
    OBVIOUS
  <2>3. /\ Cardinality(NodesAt(i)) = Cardinality(part) + Cardinality(NodesAt(i) \ part)
        /\ Cardinality(part) = Cardinality({x}) + Cardinality(part \ {x})
        /\ Cardinality(NodesAt(i) \ part) \in Nat /\ Cardinality(part \ {x}) \in Nat
    BY <2>1, SplitCardinality
  <2>4. Cardinality(NodesAt(i) \ part) # 0
    BY <1>3, <2>1, FS_EmptySet
  <2>5. Cardinality({x}) = 1
    BY FS_Singleton
  <2>6. Cardinality(part \ {x}) = 0
    BY <1>3, <2>3, <2>4, <2>5
  <2>7. IsFiniteSet(part \ {x})
    BY <2>1, FS_Subset
  <2>8. part \ {x} = {}
    BY <2>6, <2>7, FS_EmptySet
  <2>9. QED BY <2>2, <2>8
<1>4. QED BY <1>1, <1>2, <1>3 DEF PercentNamedOnce

PInv == RInv /\ PolicyKept

\* Sessions above the frontier and of planned agents do not count.
LEMMA PolicyFrame ==
  ASSUME PolicyKept, status # "failed", status' = "completed" => status = "completed",
         UNCHANGED <<cur, todo, resume>>,
         \A n \in Node \ todo : LayerIdx[n] < Frontier => session'[n] = session[n]
  PROVE  PolicyKept'
<1>1. Frontier' = Frontier
  BY DEF Frontier, ResumeIdx
<1>2. ASSUME NEW i \in Layer, i < Frontier
      PROVE  /\ Owed(i)' = Owed(i)
             /\ Done(i)' \ Owed(i)' = Done(i) \ Owed(i)
             /\ Ran(i)' \cup Owed(i)' = Ran(i) \cup Owed(i)
  BY <1>2 DEF Owed, Done, Ran, NodesAt
<1>3. ASSUME NEW i \in Layer, i < Frontier
      PROVE  IF Owed(i)' = {} THEN LayerOK(i)' ELSE LayerOwed(i)'
  <2>1. CASE Owed(i) = {}
    <3>1. Done(i)' = Done(i) /\ Ran(i)' = Ran(i) /\ Owed(i)' = {}
      BY <1>2, <1>3, <2>1
    <3>2. LayerOK(i)
      BY <1>3, <2>1 DEF PolicyKept
    <3>3. QED BY <3>1, <3>2 DEF LayerOK
  <2>2. CASE Owed(i) # {}
    <3>1. LayerOwed(i)
      BY <1>3, <2>2 DEF PolicyKept
    <3>2. LayerOwed(i)'
      BY <1>2, <1>3, <3>1 DEF LayerOwed
    <3>3. QED BY <1>2, <1>3, <2>2, <3>2
  <2>3. QED BY <2>1, <2>2
<1>4. QED BY <1>1, <1>3 DEF PolicyKept

\* A callback keeps the debt of every layer it replays in part.
LEMMA PolicyTallyCallback ==
  ASSUME Contiguous, Downward, PercentNamedOnce, PInv, TallyCallback, status' # "failed"
  PROVE  PolicyKept'
<1>0. TypeOK /\ CInv /\ Rows /\ PolicyKept
  BY DEF PInv, RInv, CInv, IInv
<1>1. pc = "wait" /\ status = "active"
  BY <1>0 DEF TallyCallback, Settled, CInv, BatchShape
<1>2. /\ BatchLayer \in Layer /\ status' = status /\ cur' = cur
      /\ todo' \in SUBSET Node
      /\ \A n \in Node : session'[n] =
           IF n \in todo' /\ session[n] \notin {"none", "running", "continued"}
           THEN "reset" ELSE session[n]
      /\ Frontier' \in Nat /\ Frontier' <= BatchLayer + 1
      /\ Frontier' = BatchLayer + 1 => NodesAt(BatchLayer) \subseteq todo'
      /\ \A i \in Layer : NodesAt(i) \subseteq todo' \/ NodesAt(i) \cap todo' \subseteq Named(i)
  BY <1>0, CallbackPlan
<1>3. /\ Frontier \in Int /\ BatchLayer <= Frontier
      /\ \A n \in todo : BatchLayer <= LayerIdx[n]
  BY <1>0, <1>1, BatchBelowFrontier
<1>4. ASSUME NEW i \in Layer, i < Frontier'
      PROVE  IF Owed(i)' = {} THEN LayerOK(i)' ELSE LayerOwed(i)'
  <2> DEFINE part == NodesAt(i) \cap todo'
  <2>1. Owed(i)' = part
    BY DEF Owed, NodesAt
  <2>2. /\ Ran(i)' \cup part = Ran(i) \cup part
        /\ Done(i)' = Done(i) \ part
        /\ part = {} => Ran(i)' = Ran(i)
    BY <1>2 DEF Ran, Done, NodesAt
  <2>3. part \in SUBSET NodesAt(i) /\ Ran(i) \in SUBSET NodesAt(i) /\ Done(i) \in SUBSET Ran(i)
    BY DEF Ran, Done
  <2>4. CASE part = NodesAt(i)
    <3>1. part # {}
      BY <2>4, LayerAssumption
    <3>2. Done(i)' \ part = {} /\ Ran(i)' \cup part = part
      BY <2>2, <2>3, <2>4
    <3>3. Cardinality({}) = 0
      BY FS_EmptySet
    <3>4. Cardinality(part) \in Nat
      <4>1. part \in SUBSET Node
        BY DEF NodesAt
      <4>2. QED BY <4>1, NodeSubsetFinite
    <3>5. Required(Policy[i], Cardinality(part)) \in Int
      BY <3>4, ConfigAssumption DEF Required, ValidPolicy, PassPolicies, PolicyKind
    <3>6. LayerOwed(i)'
      <4>1. /\ Cardinality(Done(i)' \ Owed(i)') = 0
            /\ Ran(i)' \cup Owed(i)' = Owed(i)'
            /\ Required(Policy[i], Cardinality(Owed(i)')) \in Int
        BY <2>1, <3>2, <3>3, <3>5
      <4>2. Cardinality(Done(i)' \ Owed(i)') + Required(Policy[i], Cardinality(Owed(i)'))
              >= Required(Policy[i], Cardinality(Ran(i)' \cup Owed(i)'))
        <5> DEFINE R == Required(Policy[i], Cardinality(Owed(i)'))
        <5>1. Required(Policy[i], Cardinality(Ran(i)' \cup Owed(i)')) = R
          BY <4>1
        <5>2. R \in Int
          BY <4>1
        <5> HIDE DEF R
        <5>3. Cardinality(Done(i)' \ Owed(i)') + R >= R
          BY <4>1, <5>2
        <5>4. QED BY <5>1, <5>3 DEF R
      <4>3. QED BY <4>2 DEF LayerOwed
    <3>7. QED BY <2>1, <3>1, <3>6
  <2>5. CASE part # NodesAt(i)
    <3>1. i < BatchLayer
      <4>1. i # BatchLayer \/ Frontier' # BatchLayer + 1
        BY <1>2, <2>5
      <4>2. QED BY <1>2, <1>4, <4>1, LayerAssumption DEF Layer
    <3>2. Owed(i) = {}
      BY <1>2, <1>3, <3>1, LayerAssumption DEF Owed, NodesAt, Layer
    <3>3. i < Frontier
      BY <1>2, <1>3, <3>1, LayerAssumption DEF Layer
    <3>4. LayerOK(i)
      BY <1>0, <1>1, <3>2, <3>3 DEF PolicyKept
    <3>5. CASE part = {}
      <4>1. Ran(i)' = Ran(i) /\ Done(i)' = Done(i)
        BY <2>2, <3>5
      <4>2. LayerOK(i)'
        BY <3>4, <4>1 DEF LayerOK
      <4>3. QED BY <2>1, <3>5, <4>2
    <3>6. CASE part # {}
      <4>1. Policy[i].kind = "percent" => part = NodesAt(i) \/ \E x : part = {x}
        <5>1. part = NodesAt(i) \/ part \subseteq Named(i)
          BY <1>2
        <5> HIDE DEF part
        <5>2. QED BY <2>3, <3>6, <5>1, PercentReplay
      <4>2. Cardinality(Done(i) \ part) + Required(Policy[i], Cardinality(part))
              >= Required(Policy[i], Cardinality(Ran(i) \cup part))
        <5> HIDE DEF part
        <5> QED BY <2>3, <3>4, <3>6, <4>1, PartReplayed DEF LayerOK
      <4>3. Done(i)' \ part = Done(i) \ part
        BY <2>2
      <4>4. LayerOwed(i)'
        <5> HIDE DEF part
        <5> QED BY <2>1, <2>2, <4>2, <4>3 DEF LayerOwed
      <4>5. QED BY <2>1, <3>6, <4>4
    <3>7. QED BY <3>5, <3>6
  <2>6. QED BY <2>4, <2>5
<1>5. QED BY <1>1, <1>2, <1>4 DEF PolicyKept

\* The frontier moves past a forward layer that satisfied its policy.
LEMMA PolicyLayerPassed ==
  ASSUME PInv, LayerPassed
  PROVE  PolicyKept'
<1>0. TypeOK /\ CInv /\ Rows /\ PolicyKept /\ Shape /\ BatchShape
  BY DEF PInv, RInv, CInv, IInv
<1>1. /\ Settled /\ pc = "wait" /\ status = "active" /\ step = 0 /\ Callers = {}
      /\ cur' = cur + 1 /\ cur \in Int /\ todo = {} /\ todo' = {} /\ session' = session
      /\ BatchLayer = cur /\ PolicyMet(cur) /\ status' \in {"active", "waiting"}
  BY <1>0 DEF LayerPassed, Settled, GoTo, plan, db, BatchShape, BatchLayer, TypeOK
<1>2. \A n \in Batch : \/ n \in Passed /\ session[n] = "completed"
                       \/ n \notin Passed /\ session[n] \in {"failed", "continued"}
  BY <1>0, <1>1, SettledRows
<1>3. /\ Batch \subseteq NodesAt(cur) /\ Passed \subseteq Batch
      /\ \A n \in NodesAt(cur) \ Batch : session[n] = "skipped"
  BY <1>0, <1>1 DEF Shape, Rows, Batch, Passed, NodesAt
<1>4. Ran(cur) = Batch /\ Done(cur) = Passed
  BY <1>2, <1>3 DEF Ran, Done
<1>5. LayerOK(cur)
  BY <1>1, <1>4 DEF LayerOK, PolicyMet
<1>6. Frontier = cur /\ Frontier' = cur + 1
  BY <1>1 DEF Frontier
<1>7. ASSUME NEW i \in Layer, i < Frontier'
      PROVE  Owed(i)' = {} /\ LayerOK(i)'
  <2>1. i = cur \/ i < cur
    BY <1>1, <1>6, <1>7, LayerAssumption DEF Layer
  <2>2. Owed(i) = {} /\ Owed(i)' = {}
    BY <1>1 DEF Owed
  <2>3. LayerOK(i)
    BY <1>0, <1>1, <1>5, <1>6, <2>1, <2>2 DEF PolicyKept
  <2>4. QED BY <1>1, <2>2, <2>3 DEF LayerOK, Ran, Done, NodesAt
<1>8. QED BY <1>1, <1>7 DEF PolicyKept

\* A plan step that satisfied its policy pays what its layer owed.
LEMMA PolicyPlanStepPassed ==
  ASSUME PInv, PlanStepPassed
  PROVE  PolicyKept'
<1>0. TypeOK /\ CInv /\ Rows /\ PolicyKept /\ Shape /\ BatchShape
  BY DEF PInv, RInv, CInv, IInv
<1>1. /\ Settled /\ pc = "wait" /\ status = "active" /\ step # 0 /\ Callers = {}
      /\ todo' = {n \in todo : LayerIdx[n] # step} /\ session' = session
      /\ BatchLayer = step /\ PolicyMet(step) /\ status' \in {"active", "waiting"}
      /\ Batch = {n \in todo : LayerIdx[n] = step} /\ Batch # {}
  BY <1>0 DEF PlanStepPassed, Settled, GoTo, db, BatchShape, BatchLayer
<1>2. \A n \in Batch : \/ n \in Passed /\ session[n] = "completed"
                       \/ n \notin Passed /\ session[n] \in {"failed", "continued"}
  BY <1>0, <1>1, SettledRows
<1>3. PICK l \in Layer : l = step /\ l < Frontier /\ todo \subseteq Node
  BY <1>0, <1>1, BatchBelowFrontier DEF TypeOK
<1>4. Frontier' = Frontier
  <2>1. Frontier = ResumeIdx(resume)
    BY <1>1 DEF Frontier
  <2>2. CASE todo' # {}
    BY <2>1, <2>2 DEF PlanStepPassed, Frontier, ResumeIdx
  <2>3. CASE todo' = {}
    BY <2>1, <2>3 DEF PlanStepPassed, GoTo, Frontier
  <2>4. QED BY <2>2, <2>3
<1>5. \A i \in Layer : Ran(i)' = Ran(i) /\ Done(i)' = Done(i)
  BY <1>1 DEF Ran, Done, NodesAt
<1>6. Owed(l) = Batch /\ Owed(l)' = {}
  BY <1>1, <1>3 DEF Owed, NodesAt
<1>7. LayerOK(l)'
  <2>1. Batch \subseteq Ran(l) /\ Done(l) \ (Done(l) \ Batch) = Passed
    BY <1>1, <1>2, <1>3 DEF Ran, Done, NodesAt, Passed, Batch
  <2>2. /\ IsFiniteSet(Done(l)) /\ Done(l) \ Batch \in SUBSET Done(l)
        /\ Cardinality(Batch) \in Nat /\ Cardinality(Ran(l)) \in Nat
    <3>1. Done(l) \in SUBSET Node /\ Ran(l) \in SUBSET Node /\ Batch \in SUBSET Node
      BY DEF Done, Ran, NodesAt, Batch
    <3>2. QED BY <3>1, NodeSubsetFinite
  <2>3. /\ Cardinality(Done(l)) = Cardinality(Done(l) \ Batch) + Cardinality(Passed)
        /\ Cardinality(Done(l) \ Batch) \in Nat /\ Cardinality(Passed) \in Nat
    BY <2>1, <2>2, SplitCardinality
  <2>4. Cardinality(Passed) >= Required(Policy[l], Cardinality(Batch))
    BY <1>1, <1>3 DEF PolicyMet
  <2>5. Cardinality(Done(l) \ Batch) + Required(Policy[l], Cardinality(Batch))
          >= Required(Policy[l], Cardinality(Ran(l)))
    <3>1. LayerOwed(l)
      BY <1>0, <1>1, <1>3, <1>6 DEF PolicyKept
    <3>2. Ran(l) \cup Batch = Ran(l)
      BY <2>1
    <3>3. QED BY <1>6, <3>1, <3>2 DEF LayerOwed
  <2>6. /\ Required(Policy[l], Cardinality(Batch)) \in Int
        /\ Required(Policy[l], Cardinality(Ran(l))) \in Int
    BY <1>3, <2>2, ConfigAssumption DEF Required, ValidPolicy, PassPolicies, PolicyKind
  <2>7. Cardinality(Done(l)) >= Required(Policy[l], Cardinality(Ran(l)))
    BY <2>3, <2>4, <2>5, <2>6
  <2>8. QED BY <1>3, <1>5, <2>7 DEF LayerOK
<1>8. ASSUME NEW i \in Layer, i # l, i < Frontier
      PROVE  IF Owed(i)' = {} THEN LayerOK(i)' ELSE LayerOwed(i)'
  <2>1. Owed(i)' = Owed(i)
    BY <1>1, <1>3, <1>8 DEF Owed, NodesAt
  <2>2. IF Owed(i) = {} THEN LayerOK(i) ELSE LayerOwed(i)
    BY <1>0, <1>1, <1>8 DEF PolicyKept
  <2>3. QED BY <1>5, <2>1, <2>2 DEF LayerOK, LayerOwed
<1>9. QED BY <1>1, <1>3, <1>4, <1>6, <1>7, <1>8 DEF PolicyKept

LEMMA PolicyStep ==
  ASSUME Contiguous, Downward, PercentNamedOnce, PInv, [Next]_vars
  PROVE  PolicyKept'
<1>0. /\ TypeOK /\ Shape /\ Covered /\ BatchShape /\ CInv /\ PolicyKept
      /\ Frontier \in Int
  BY FrontierType DEF PInv, RInv, CInv, IInv
<1>1. CASE ObserveCancel \/ TallyAbort \/ TallyPolicyFailed
  BY <1>1 DEF ObserveCancel, TallyAbort, TallyPolicyFailed, Return, PolicyKept
<1>2. CASE Complete
  <2>1. cur \notin Layer
    BY <1>2, LayerAssumption DEF Complete, Layer
  <2>2. /\ status = "active" /\ todo = {} /\ todo' = {} /\ cur = NumLayers + 1 /\ cur' = cur
        /\ session' = session
    BY <1>0, <1>2, <2>1 DEF Complete, Covered, Return, db
  <2>3. QED
    BY <1>0, <2>2 DEF PolicyKept, Frontier, Owed, LayerOK, LayerOwed, Ran, Done, NodesAt
<1>3. CASE StartPlanStep
  <2>1. /\ status = "active" /\ UNCHANGED <<status, cur, todo, resume>>
        /\ \A n \in Node \ todo : session'[n] = session[n]
    BY <1>3 DEF StartPlanStep, AtTop, plan, Spawn, StepNodes
  <2>2. QED BY <1>0, <2>1, PolicyFrame
<1>4. CASE StartLayer
  <2>1. /\ status = "active" /\ cur \in Layer /\ todo = {}
        /\ UNCHANGED <<status, cur, todo, resume>>
        /\ \A n \in Node : n \notin NodesAt(cur) => session'[n] = session[n]
    BY <1>4 DEF StartLayer, AtTop, plan, Spawn
  <2>2. \A n \in Node : LayerIdx[n] < Frontier => n \notin NodesAt(cur)
    BY <2>1, LayerAssumption DEF Frontier, NodesAt, Layer
  <2>3. QED BY <1>0, <2>1, <2>2, PolicyFrame
<1>5. CASE SkipLayer
  <2>1. /\ status = "active" /\ cur \in Layer /\ todo = {} /\ todo' = {}
        /\ cur' = cur + 1 /\ status' \in {"active", "waiting"}
        /\ \A n \in Node : session'[n] = IF LayerIdx[n] = cur THEN "skipped" ELSE session[n]
    BY <1>5 DEF SkipLayer, AtTop, GoTo, plan
  <2>2. Frontier = cur /\ Frontier' = cur + 1
    BY <2>1 DEF Frontier
  <2>3. ASSUME NEW i \in Layer, i < Frontier'
        PROVE  Owed(i)' = {} /\ LayerOK(i)'
    <3>1. i = cur \/ (i # cur /\ i < cur)
      BY <2>1, <2>2, <2>3, LayerAssumption DEF Layer
    <3>2. Owed(i) = {} /\ Owed(i)' = {}
      BY <2>1 DEF Owed
    <3>3. CASE i = cur
      <4>1. Ran(i)' = {}
        BY <2>1, <3>3 DEF Ran, NodesAt
      <4>2. QED BY <3>2, <4>1 DEF LayerOK
    <3>4. CASE i # cur /\ i < cur
      <4>1. LayerOK(i)
        BY <1>0, <2>1, <2>2, <3>2, <3>4 DEF PolicyKept
      <4>2. Ran(i)' = Ran(i) /\ Done(i)' = Done(i)
        BY <2>1, <3>4 DEF Ran, Done, NodesAt
      <4>3. QED BY <3>2, <4>1, <4>2 DEF LayerOK
    <3>5. QED BY <3>1, <3>3, <3>4
  <2>4. QED BY <2>1, <2>3 DEF PolicyKept
<1>6. ASSUME NEW n \in Node, AgentEnds(n)
      PROVE  PolicyKept'
  <2>1. /\ pc = "wait" /\ n \in Batch /\ UNCHANGED <<status, cur, todo, resume>>
        /\ \A m \in Node \ {n} : session'[m] = session[m]
    BY <1>0, <1>6 DEF AgentEnds, TypeOK, plan, Batch, Shape, Idle
  <2>2. status = "active"
    BY <1>0, <2>1 DEF BatchShape
  <2>3. n \in todo \/ ~(LayerIdx[n] < Frontier)
    <3>1. CASE step = 0
      <4>1. LayerIdx[n] = cur /\ Frontier = cur
        BY <1>0, <2>1, <3>1 DEF Shape, BatchShape, BatchLayer, Batch, Frontier
      <4>2. QED BY <1>0, <4>1
    <3>2. CASE step # 0
      BY <1>0, <2>1, <3>2 DEF BatchShape
    <3>3. QED BY <3>1, <3>2
  <2>4. QED BY <1>0, <2>1, <2>2, <2>3, PolicyFrame
<1>7. ASSUME NEW n \in Node, NEW t \in Tag, AddSkipTag(n, t)
      PROVE  PolicyKept'
  <2>1. status = "active"
    BY <1>0, <1>7 DEF AddSkipTag, Shape, Idle, BatchShape, TypeOK
  <2>2. QED BY <1>0, <1>7, <2>1, PolicyFrame DEF AddSkipTag, plan
<1>8. CASE TallyCallback
  <2>1. CASE status' # "failed"
    BY <1>8, <2>1, PolicyTallyCallback
  <2>2. CASE status' = "failed"
    BY <2>2 DEF PolicyKept
  <2>3. QED BY <2>1, <2>2
<1>9. CASE LayerPassed
  BY <1>9, PolicyLayerPassed
<1>10. CASE PlanStepPassed
  BY <1>10, PolicyPlanStepPassed
<1>11. CASE Cancel
  BY <1>0, <1>11, PolicyFrame DEF Cancel, plan, db
<1>12. CASE Continue
  BY <1>0, <1>12, PolicyFrame DEF Continue, plan, db
<1>13. CASE UNCHANGED vars
  BY <1>0, <1>13
  DEF vars, PolicyKept, Frontier, ResumeIdx, Owed, LayerOK, LayerOwed, Ran, Done, NodesAt
<1>14. QED
  BY <1>1, <1>2, <1>3, <1>4, <1>5, <1>6, <1>7, <1>8, <1>9, <1>10, <1>11, <1>12, <1>13
  DEF Next, LoopStep

(***************************************************************************)
(* The theorems.                                                           *)
(***************************************************************************)

\* If the layer numbers have no gaps and no agent calls back a sibling by
\* name, the spawner never turns away a batch of the loop except below a lost
\* relaunch: callbacks replay every agent that asked for one or was reset
\* before the forward iteration comes to the layers above it.
THEOREM RefusalsExplained ==
  ASSUME Contiguous, Downward
  PROVE  Spec => []RefusedOnlyIfLost
<1>1. RInv => RefusedOnlyIfLost
  BY DEF RInv
<1>2. QED BY <1>1, RInvInit, RInvStep, PTL DEF Spec

\* If, besides, a layer with a percentage is small or replayed by name only
\* one agent at a time, a completed run satisfies the pass policy of every
\* layer, whatever was replayed in whole or in part after the layer passed.
THEOREM PoliciesHold ==
  ASSUME Contiguous, Downward, PercentNamedOnce
  PROVE  Spec => []PolicyAtCompletion
<1>1. Init => PInv
  <2> SUFFICES ASSUME Init PROVE PInv
    OBVIOUS
  <2>1. \A i \in Layer : ~(i < 1)
    BY DEF Layer
  <2>2. PolicyKept
    BY <2>1 DEF Init, PolicyKept, Frontier
  <2>3. QED BY <2>2, RInvInit DEF PInv
<1>2. PInv /\ [Next]_vars => PInv'
  BY RInvStep, PolicyStep DEF PInv
<1>3. PInv => PolicyAtCompletion
  <2> SUFFICES ASSUME PInv, status = "completed", NEW i \in Layer
               PROVE  LayerOK(i)
    <3>1. \A i \in Layer : Done(i) = {n \in Ran(i) : session[n] = "completed"}
      BY DEF Done, Ran
    <3>2. QED BY <3>1 DEF PolicyAtCompletion, LayerOK, Ran, Done
  <2>1. Frontier = NumLayers + 1 /\ Owed(i) = {} /\ status # "failed"
    BY DEF PInv, PolicyKept, Frontier, Owed
  <2>2. i < NumLayers + 1
    BY LayerAssumption DEF Layer
  <2>3. QED BY <2>1, <2>2 DEF PInv, PolicyKept
<1>4. QED BY <1>1, <1>2, <1>3, PTL DEF Spec

(***************************************************************************)
(* Termination of the loop.  That it ends is a liveness property; what is  *)
(* proved is that each of its steps lowers a rank, for every workflow, with *)
(* or without gaps between the layer numbers.                              *)
(***************************************************************************)

\* What the plan still has to replay and the layers still ahead of it.
Work == Cardinality(todo) + (NumLayers + 1 - Frontier)

\* The agents that run; more than all of them before the next batch starts.
Awaited == IF pc = "top" THEN Cardinality(Node) + 1
           ELSE Cardinality({n \in Node : result[n] = "running"})

\* The rank <<MaxCallbacks - cbCount, Work, Awaited>>, compared from the left.
Ranked == cbCount \in 0..MaxCallbacks /\ Work \in Nat /\ Awaited \in Nat
RankFalls ==
  \/ cbCount' > cbCount
  \/ cbCount' = cbCount /\ Work' < Work
  \/ cbCount' = cbCount /\ Work' = Work /\ Awaited' < Awaited
RankKept == cbCount' = cbCount /\ Work' = Work /\ Awaited' = Awaited

\* While the run stays active, each step of the loop and each end of an agent
\* lowers the rank, and nothing else changes it.
Advances ==
  status = "active" /\ status' = "active" =>
    /\ RankFalls \/ RankKept
    /\ LoopStep \/ (\E n \in Node : AgentEnds(n)) => RankFalls

\* A batch is a step of the plan or there is no plan.
StepInPlan == pc = "wait" => IF step = 0 THEN todo = {} ELSE \E n \in todo : LayerIdx[n] = step

LEMMA RankTyped == IInv => Ranked
<1> SUFFICES ASSUME IInv PROVE Ranked
  OBVIOUS
<1>0. TypeOK /\ cbCount <= MaxCallbacks
  BY DEF IInv, Budget
<1>1. Frontier \in 1..(NumLayers + 1) /\ NumLayers \in Nat
  BY <1>0, FrontierType, LayerAssumption
<1>2. Cardinality(todo) \in Nat
  BY <1>0, NodeSubsetFinite DEF TypeOK
<1>3. Cardinality(Node) \in Nat /\ Cardinality({n \in Node : result[n] = "running"}) \in Nat
  <2>1. {n \in Node : result[n] = "running"} \in SUBSET Node
    OBVIOUS
  <2>2. QED BY <2>1, NodeSubsetFinite
<1>4. QED BY <1>0, <1>1, <1>2, <1>3, ConfigAssumption DEF Ranked, Work, Awaited, TypeOK

\* A smaller subset of the nodes has a smaller cardinality.
LEMMA FewerNodes ==
  ASSUME NEW S \in SUBSET Node, NEW T \in SUBSET S, NEW x \in S, x \notin T
  PROVE  Cardinality(T) < Cardinality(S)
<1>1. IsFiniteSet(S)
  BY NodeSubsetFinite
<1>2. /\ Cardinality(S) = Cardinality(T) + Cardinality(S \ T)
      /\ Cardinality(T) \in Nat /\ Cardinality(S \ T) \in Nat
  BY <1>1, SplitCardinality
<1>3. Cardinality(S \ T) # 0
  BY <1>1, FS_Subset, FS_EmptySet
<1>4. QED BY <1>2, <1>3

\* Starting a batch leaves the work and awaits at most all agents.
LEMMA RankSpawn ==
  ASSUME pc = "top", pc' = "wait", UNCHANGED <<cur, todo, resume, cbCount>>
  PROVE  RankFalls
<1>1. Work' = Work
  BY DEF Work, Frontier, ResumeIdx
<1>2. Awaited' \in Nat /\ Awaited' < Cardinality(Node) + 1
  <2> DEFINE S == {n \in Node : result'[n] = "running"}
  <2>1. S \in SUBSET Node /\ Awaited' = Cardinality(S)
    BY DEF Awaited
  <2>2. /\ Cardinality(Node) = Cardinality(S) + Cardinality(Node \ S)
        /\ Cardinality(S) \in Nat /\ Cardinality(Node \ S) \in Nat
    BY <2>1, LayerAssumption, SplitCardinality
  <2>3. QED BY <2>1, <2>2
<1>3. Awaited = Cardinality(Node) + 1
  BY DEF Awaited
<1>4. QED BY <1>1, <1>2, <1>3 DEF RankFalls

LEMMA RankAgentEnds ==
  ASSUME IInv, NEW n \in Node, AgentEnds(n)
  PROVE  RankFalls
<1>0. TypeOK /\ Shape
  BY DEF IInv
<1> DEFINE Running == {m \in Node : result[m] = "running"}
<1>1. /\ n \in Running /\ pc = "wait" /\ pc' = "wait"
      /\ UNCHANGED <<cur, todo, resume, cbCount>>
      /\ {m \in Node : result'[m] = "running"} = Running \ {n}
  BY <1>0 DEF AgentEnds, TypeOK, Shape, Idle, plan
<1>2. Work' = Work
  BY <1>1 DEF Work, Frontier, ResumeIdx
<1>3. Awaited = Cardinality(Running) /\ Awaited' = Cardinality(Running \ {n})
  BY <1>1 DEF Awaited
<1>4. Cardinality(Running \ {n}) < Cardinality(Running)
  BY <1>1, FewerNodes
<1>5. QED BY <1>1, <1>2, <1>3, <1>4 DEF RankFalls

\* A callback that is accepted costs at least one replay.
LEMMA RankTallyCallback ==
  ASSUME IInv, TallyCallback, status' = "active"
  PROVE  RankFalls
<1> DEFINE nodes == PlanNodes(asks, BatchLayer)
<1>0. TypeOK /\ Shape
  BY DEF IInv
<1>1. /\ BatchLayer \in Layer /\ asks # {} /\ asks \in SUBSET Request
      /\ HandleCallback(BatchLayer)
  BY <1>0 DEF TallyCallback, BatchLayer, Settled, Shape, TypeOK
<1>2. /\ \A r \in asks : ValidRequest(r, BatchLayer)
      /\ cbCount' = cbCount + Cardinality(nodes)
  BY <1>1 DEF HandleCallback, Return
<1>3. nodes \in SUBSET Node /\ nodes # {}
  <2>1. nodes # {}
    BY <1>1, <1>2, PlanReach
  <2>2. QED BY <2>1 DEF PlanNodes
<1>4. Cardinality(nodes) \in Nat \ {0}
  BY <1>3, NodeSubsetFinite, FS_EmptySet
<1>5. QED BY <1>0, <1>2, <1>4 DEF RankFalls, TypeOK

\* A plan step that passed is off the plan; the frontier stays.
LEMMA RankPlanStepPassed ==
  ASSUME IInv, StepInPlan, PlanStepPassed
  PROVE  RankFalls
<1>0. TypeOK /\ Ranked
  BY RankTyped DEF IInv
<1>1. PICK n \in todo : LayerIdx[n] = step
  BY DEF StepInPlan, PlanStepPassed, Settled
<1>2. /\ todo \in SUBSET Node /\ todo' \in SUBSET todo /\ n \notin todo'
      /\ cbCount' = cbCount
  BY <1>0, <1>1 DEF PlanStepPassed, TypeOK
<1>3. Cardinality(todo') < Cardinality(todo)
  BY <1>2, FewerNodes
<1>4. Frontier' = Frontier
  <2>1. Frontier = ResumeIdx(resume)
    BY <1>1 DEF Frontier
  <2>2. CASE todo' # {}
    BY <2>1, <2>2 DEF PlanStepPassed, Frontier, ResumeIdx
  <2>3. CASE todo' = {}
    BY <2>1, <2>3 DEF PlanStepPassed, GoTo, Frontier
  <2>4. QED BY <2>2, <2>3
<1>5. Frontier \in Int /\ NumLayers \in Int
  BY <1>0, FrontierType, LayerAssumption
<1>6. Cardinality(todo) \in Nat /\ Cardinality(todo') \in Nat
  BY <1>2, NodeSubsetFinite
<1>7. QED BY <1>2, <1>3, <1>4, <1>5, <1>6 DEF RankFalls, Work

LEMMA AdvancesStep == IInv /\ StepInPlan /\ Next => Advances
<1> SUFFICES ASSUME IInv, StepInPlan, Next, status = "active", status' = "active"
             PROVE  /\ RankFalls \/ RankKept
                    /\ LoopStep \/ (\E n \in Node : AgentEnds(n)) => RankFalls
  BY DEF Advances
<1>0. TypeOK /\ Shape /\ cur \in Int /\ NumLayers \in Int
  BY LayerAssumption DEF IInv, TypeOK
<1>1. CASE LoopStep
  <2>1. CASE ObserveCancel \/ Complete \/ TallyAbort \/ TallyPolicyFailed
    BY <2>1 DEF ObserveCancel, Complete, TallyAbort, TallyPolicyFailed, Return
  <2>2. CASE StartPlanStep \/ StartLayer
    BY <2>2, RankSpawn DEF StartPlanStep, StartLayer, AtTop, Spawn, plan
  <2>3. CASE SkipLayer \/ LayerPassed
    <3>1. todo = {} /\ todo' = {} /\ cur' = cur + 1 /\ cbCount' = cbCount
      BY <2>3 DEF SkipLayer, LayerPassed, GoTo, plan, StepInPlan, Settled
    <3>2. Cardinality({}) = 0
      BY FS_EmptySet
    <3>3. Work = NumLayers + 1 - cur /\ Work' = NumLayers + 1 - (cur + 1)
      BY <1>0, <3>1, <3>2 DEF Work, Frontier
    <3>4. QED BY <1>0, <3>1, <3>3 DEF RankFalls
  <2>4. CASE TallyCallback
    BY <2>4, RankTallyCallback
  <2>5. CASE PlanStepPassed
    BY <2>5, RankPlanStepPassed
  <2>6. RankFalls
    BY <1>1, <2>1, <2>2, <2>3, <2>4, <2>5 DEF LoopStep
  <2>7. QED BY <2>6
<1>2. CASE \E n \in Node : AgentEnds(n)
  BY <1>2, RankAgentEnds
<1>3. CASE ~LoopStep /\ ~(\E n \in Node : AgentEnds(n))
  <2>1. UNCHANGED <<pc, cur, todo, resume, result, cbCount>>
    BY <1>3 DEF Next, AddSkipTag, Cancel, Continue, plan
  <2>2. RankKept
    BY <2>1 DEF RankKept, Work, Frontier, ResumeIdx, Awaited
  <2>3. QED BY <1>3, <2>2
<1>4. QED BY <1>1, <1>2, <1>3

LEMMA StepInPlanStep == IInv /\ StepInPlan /\ [Next]_vars => StepInPlan'
<1> SUFFICES ASSUME IInv, StepInPlan, [Next]_vars PROVE StepInPlan'
  OBVIOUS
<1>0. TypeOK /\ Shape
  BY DEF IInv
<1>1. CASE StartPlanStep
  <2>1. /\ todo \subseteq Node /\ todo # {} /\ todo' = todo
        /\ step' = LayerIdx[CHOOSE n \in StepNodes : TRUE]
    BY <1>0, <1>1 DEF StartPlanStep, TypeOK, plan
  <2>2. PICK l \in {LayerIdx[n] : n \in todo} : \A k \in {LayerIdx[n] : n \in todo} : l <= k
    <3> DEFINE L == {LayerIdx[n] : n \in todo}
    <3>1. L \in SUBSET Nat /\ L # {}
      BY <2>1, LayerAssumption DEF Layer
    <3> HIDE DEF L
    <3>2. QED BY <3>1, LeastNatural DEF L
  <2>3. StepNodes # {} /\ StepNodes \subseteq todo
    BY <2>2 DEF StepNodes
  <2>4. PICK n \in todo : LayerIdx[n] = step'
    BY <2>1, <2>3
  <2>5. step' # 0
    BY <2>1, <2>4, LayerAssumption DEF Layer
  <2>6. QED BY <2>1, <2>4, <2>5 DEF StepInPlan
<1>2. CASE StartLayer
  BY <1>2 DEF StartLayer, StepInPlan, plan
<1>3. CASE UNCHANGED <<pc, step, todo>> \/ pc' = "top"
  BY <1>3 DEF StepInPlan
<1>4. CASE TallyCallback
  BY <1>4 DEF TallyCallback, HandleCallback, Return, StepInPlan
<1>5. QED
  BY <1>0, <1>1, <1>2, <1>3, <1>4
  DEF Next, LoopStep, vars, plan, db, ObserveCancel, Complete, SkipLayer, AtTop, Return, AgentEnds,
      AddSkipTag, TallyAbort, TallyPolicyFailed, LayerPassed, PlanStepPassed, Cancel, Continue

\* No workflow keeps its loop busy for ever: the rank is a triple of naturals
\* that every step of the loop and every end of an agent lowers.
THEOREM LoopAdvances == Spec => [][Advances]_vars /\ []Ranked
<1> DEFINE TInv == IInv /\ StepInPlan
<1>1. Init => TInv
  BY InitInvariant DEF Init, StepInPlan
<1>2. TInv /\ [Next]_vars => TInv'
  BY TypeStep, OrderStep, BudgetStep, StepInPlanStep DEF IInv
<1>3. TInv => Ranked
  BY RankTyped
<1>4. TInv /\ [Next]_vars => [Advances]_vars
  BY AdvancesStep
<1>5. QED BY <1>1, <1>2, <1>3, <1>4, PTL DEF Spec
=============================================================================
