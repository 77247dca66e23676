SPECIFICATION FairSpec
CONSTANTS
  a = a
  b = b
  d = d
  c = c
  t = t
  none = none
  Node <- MCNode
  Agent <- MCNode
  AgentOf <- MCAgentOf
  NumLayers <- MCLayers
  LayerNum <- DenseNumbers
  LayerIdx <- MCLayerIdx
  Policy <- MCPolicy
  PauseAfter <- MCPause
  Tag <- MCTag
  TagOf <- MCTagOf
  NoTag = none
  Requests <- DownRequests
  MaxCallbacks = 8
  MaxResumes = 2
INVARIANTS
  TypeOK
  CallbackCap
  LayersInOrder
  NoLayerJumped
  RefusedOnlyIfLost
  PolicyAtCompletion
PROPERTY LoopEnds
CHECK_DEADLOCK FALSE
