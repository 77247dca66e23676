-------------------------- MODULE MCRunLifecycle --------------------------
(***************************************************************************)
(* Instances of RunLifecycle for TLC: one caller that issues any sequence  *)
(* of operations, or two callers that issue them concurrently.             *)
(***************************************************************************)
EXTENDS RunLifecycle

CONSTANTS u, v

OneCaller  == {u}
TwoCallers == {u, v}
=============================================================================
