------------------------- MODULE InstanceContract -------------------------
(***************************************************************************)
(* What the orchestrator promises about one workflow instance, whoever     *)
(* starts, stops, fails, retries or continues it and whenever the server   *)
(* restarts: agents work only while the instance is active, at most one    *)
(* run works at a time, the outcome is published when the work ends, a     *)
(* paused or failed instance can be resumed, and completed is final.       *)
(***************************************************************************)
VARIABLES
  status,  \* workflow_instances.status; "none" before the instance exists
  working  \* some run is executing layers of the instance

vars == <<status, working>>

Init == status = "none" /\ working = FALSE

Create == /\ status = "none"
          /\ status' = "active" /\ UNCHANGED working

Work == /\ status = "active" /\ ~working
        /\ working' = TRUE /\ UNCHANGED status

Finish == /\ status = "active" /\ working
          /\ working' = FALSE
          /\ status' \in {"completed", "failed", "waiting"}

GiveUp == /\ status \in {"active", "waiting"} /\ ~working
          /\ status' = "failed" /\ UNCHANGED working

Resume == /\ status \in {"failed", "waiting"} /\ ~working
          /\ status' = "active" /\ UNCHANGED working

Next == Create \/ Work \/ Finish \/ GiveUp \/ Resume

Spec == Init /\ [][Next]_vars
=============================================================================
