--------------------------- MODULE MCLayerLoop ---------------------------
(***************************************************************************)
(* Instances of LayerLoop for TLC: four agents in three layers, the middle *)
(* layer with two of them.                                                 *)
(***************************************************************************)
EXTENDS LayerLoop

CONSTANTS a, b, d, c, t, none

MCNode     == {a, b, d, c}
MCAgentOf  == [n \in MCNode |-> n]
MCLayerIdx == [n \in MCNode |-> CASE n = a -> 1 [] n \in {b, d} -> 2 [] n = c -> 3]
MCLayers   == 3

DenseNumbers  == <<0, 1, 2>>
GappedNumbers == <<0, 1, 5>>

AnyOf     == [kind |-> "any", n |-> 0]
AllOf     == [kind |-> "all", n |-> 0]
HalfOf    == [kind |-> "percent", n |-> 50]
MCPolicy  == <<AnyOf, HalfOf, AllOf>>

MCPause   == {2}
NoPause   == {}
MCTag     == {t}
MCTagOf   == [n \in MCNode |-> IF n \in {d, c} THEN t ELSE none]

Level(l)   == [mode |-> "level", level |-> l, target |-> a, chain |-> <<>>]
Target(n)  == [mode |-> "agent", level |-> 0, target |-> n, chain |-> <<>>]
Chain(seq) == [mode |-> "chain", level |-> 0, target |-> a, chain |-> seq]

\* Callbacks to lower layers, to the whole layer of the caller, and one to a
\* layer above the caller, which is refused.
DownRequests ==
  [n \in MCNode |->
     CASE n = a -> {Level(1)}
       [] n = b -> {Level(0), Level(1)}
       [] n = d -> {Target(a)}
       [] n = c -> {Level(0), Level(2), Target(b), Chain(<<a, d>>)}]

\* A callback that names a sibling of the caller.
SiblingRequests ==
  [n \in MCNode |-> IF n = b THEN {Target(d)} ELSE {}]
=============================================================================
