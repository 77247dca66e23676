SPECIFICATION Spec
CONSTANTS
  a = a
  b = b
  d = d
  c = c
  t = t
  none = none
  Node <- MCNode
  Agent <- MCNode
  AgentOf <- MCAgentOf
  NumLayers <- MCLayers
  LayerNum <- DenseNumbers
  LayerIdx <- MCLayerIdx
  Policy <- MCPolicy
  PauseAfter <- MCPause
  Tag <- MCTag
  TagOf <- MCTagOf
  NoTag = none
  Requests <- SiblingRequests
  MaxCallbacks = 8
  MaxResumes = 1
INVARIANT RefusedOnlyIfLost
CHECK_DEADLOCK FALSE
