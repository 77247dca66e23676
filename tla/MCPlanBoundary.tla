------------------------- MODULE MCPlanBoundary -------------------------
(***************************************************************************)
(* Instances of PlanBoundary for TLC: one approver and one editor.         *)
(***************************************************************************)
EXTENDS PlanBoundary

CONSTANTS u, v

OneApprover == {u}
OneEditor   == {v}
=============================================================================
