-------------------------- MODULE MCActionDispatch --------------------------
(***************************************************************************)
(* One id: a call of the bridge proposes an action that the gate holds,    *)
(* one that it runs, or both, beside clients that submit under the same id *)
(* a type that runs, one without an executor and the ChatOps prompt.       *)
(***************************************************************************)
EXTENDS ActionDispatch

CONSTANT a1

MCOtherTypes == {"block_ip", "run_playbook", "chatops_verify"}
MCTypes == MCOtherTypes \cup {"isolate_host"}

Proposal(raw) == [id |-> a1, raw |-> raw, ot |-> FALSE]
MCProposals == {Proposal("isolate_host"), Proposal("block_ip")}
MCCalls == {<<p>> : p \in MCProposals}
             \cup {<<Proposal("isolate_host"), Proposal("block_ip")>>}
=============================================================================
