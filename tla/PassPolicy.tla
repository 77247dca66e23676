---------------------------- MODULE PassPolicy ----------------------------
(***************************************************************************)
(* Layer pass policies (be/internal/service/layer_policy.go): how many of  *)
(* the agents that ran in a layer must pass for the layer to pass.  A      *)
(* policy is a record [kind |-> ..., n |-> ...]; n is the quorum count or  *)
(* the percentage and is ignored by "any" and "all".                       *)
(***************************************************************************)
EXTENDS Integers

PolicyKind == {"any", "all", "quorum", "percent"}

PassPolicies == [kind : PolicyKind, n : Nat]

\* LayerPolicy.Required: math.Ceil(denom * percent / 100) for a percentage.
Required(policy, denom) ==
  CASE policy.kind = "any"     -> 1
    [] policy.kind = "all"     -> denom
    [] policy.kind = "quorum"  -> policy.n
    [] policy.kind = "percent" -> (denom * policy.n + 99) \div 100

\* ValidateLayerPolicy: what the service accepts for a layer of count agents.
ValidPolicy(policy, count) ==
  /\ policy \in PassPolicies
  /\ policy.kind = "quorum"  => policy.n \in 1..count
  /\ policy.kind = "percent" => policy.n \in 1..100
=============================================================================
