--------------------------- MODULE MCSubworkflow ---------------------------
(***************************************************************************)
(* Two children that compete for one slot under a parent that is launched  *)
(* up to twice, and one restart of the server; one of the children has a   *)
(* plan boundary and may be relaunched.                                    *)
(***************************************************************************)
EXTENDS Subworkflow

CONSTANTS c1, c2

Planners      == {c1}
Children      == {c1, c2}
OneRelaunched == [c \in Children |-> IF c = c1 THEN 2 ELSE 1]
============================================================================
