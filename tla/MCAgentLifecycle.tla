------------------------- MODULE MCAgentLifecycle -------------------------
(***************************************************************************)
(* An interactive agent with one fallback, a codex agent: the two backends *)
(* that nudges, rate limits and takeovers treat differently.               *)
(***************************************************************************)
EXTENDS AgentLifecycle

TwoTiers == <<"cli_interactive", "codex">>
=============================================================================
