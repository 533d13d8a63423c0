-------------------------- MODULE MCAgentApprovals --------------------------
(***************************************************************************)
(* Instances of AgentApprovals: three requests to decide, each with either *)
(* decision, with a comment or without.                                    *)
(***************************************************************************)
EXTENDS AgentApprovals

=============================================================================
