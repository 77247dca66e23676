--------------------------- MODULE MCChainRunner ---------------------------
(***************************************************************************)
(* A chain of two items of either kind, to which an edit may add a third;  *)
(* users continue or retry one instance, and the server restarts once.     *)
(***************************************************************************)
EXTENDS ChainRunner

BothKinds == {"ticket", "workflow"}
============================================================================
