---------------------------- MODULE ActionPolicy ----------------------------
(***************************************************************************)
(* The policy tables and the pure decision functions between an agent's   *)
(* proposal and the execution of a response action:                       *)
(*   - the agents' bridge _map_action, which turns a free-form action type *)
(*     into one of the actions service's types and downgrades host         *)
(*     isolation for OT assets;                                            *)
(*   - the blast-radius gate (BlastRadiusGate.evaluate) of the service;    *)
(*   - the L0..L4 maturity gate (evaluate_gate).                           *)
(* Blast radii are the ranks of _BLAST_RADIUS_ORDER.  The module has no    *)
(* state: ActionGate and the MC modules build on it.                       *)
(***************************************************************************)
EXTENDS Integers

MINIMAL == 0
LOW     == 1
MEDIUM  == 2
HIGH    == 3

\* The largest radius that executes without a human.
_AUTO_EXECUTE_LIMIT == MEDIUM

MinimalTypes == {"notify_slack", "create_ticket", "chatops_verify", "search_siem"}
LowTypes     == {"quarantine_file", "capture_forensics", "add_ioc_to_blocklist",
                 "run_av_scan", "create_notable_event"}
MediumTypes  == {"block_ip", "block_domain", "reset_password", "kill_process",
                 "run_playbook", "allow_ip", "block_ioc", "force_mfa",
                 "sync_detection_rule", "update_watcher"}
HighTypes    == {"isolate_host", "disable_user", "run_script", "suspend_session"}

ActionType == MinimalTypes \cup LowTypes \cup MediumTypes \cup HighTypes

ACTION_BLAST_RADIUS ==
  [t \in ActionType |-> CASE t \in MinimalTypes -> MINIMAL
                          [] t \in LowTypes     -> LOW
                          [] t \in MediumTypes  -> MEDIUM
                          [] OTHER              -> HIGH]

APPROVAL_REQUIRED_ACTIONS ==
  {"isolate_host", "disable_user", "reset_password", "kill_process",
   "run_script", "suspend_session", "block_ioc", "sync_detection_rule"}

\* The types that have an executor: three of the enumeration have none.
EXECUTOR_REGISTRY ==
  ActionType \ {"capture_forensics", "add_ioc_to_blocklist", "run_playbook"}

(***************************************************************************)
(* BlastRadiusGate.evaluate: the initial status of a submitted action.     *)
(***************************************************************************)
evaluate(t) ==
  IF \/ t \in APPROVAL_REQUIRED_ACTIONS
     \/ ACTION_BLAST_RADIUS[t] > _AUTO_EXECUTE_LIMIT
  THEN "awaiting_approval"
  ELSE "approved"

\* The types that a human must approve.
Gated == {t \in ActionType : evaluate(t) = "awaiting_approval"}

(***************************************************************************)
(* evaluate_gate: the decision for a type, given the tenant's tier, its    *)
(* override for the type and whether a whitelist entry matches.            *)
(***************************************************************************)
MaturityTier == 0 .. 4

Override == {"none", "block", "force_auto", "both"}

_AUTO_ALLOWED_AT_TIER(tier) == {r \in MINIMAL .. HIGH : r < tier}

evaluate_gate(t, tier, override, whitelisted) ==
  LET blast == ACTION_BLAST_RADIUS[t]
  IN  IF override \in {"block", "both"} THEN "blocked"
      ELSE IF override = "force_auto" THEN "auto"
      ELSE IF blast = HIGH /\ tier = 4 /\ ~whitelisted THEN "queued_approval"
      ELSE IF blast \in _AUTO_ALLOWED_AT_TIER(tier) THEN "auto"
      ELSE "queued_approval"

(***************************************************************************)
(* _map_action: the service type an agent's proposal is sent as.           *)
(* An unknown type becomes a ticket; isolating a host that looks like OT   *)
(* becomes a network block.                                                *)
(***************************************************************************)
SameNameTypes ==
  {"block_ip", "block_domain", "isolate_host", "disable_user", "reset_password",
   "kill_process", "quarantine_file", "force_mfa", "suspend_session",
   "block_ioc", "run_av_scan", "notify_slack", "create_ticket", "search_siem"}

_map_action(raw, ot) ==
  CASE raw = "isolate_host" /\ ot      -> "block_ip"
    [] raw = "block_network_segment"   -> "block_ip"
    [] raw = "notify"                  -> "notify_slack"
    [] raw \in SameNameTypes /\ ~(raw = "isolate_host" /\ ot) -> raw
    [] OTHER                           -> "create_ticket"

-----------------------------------------------------------------------------
\* Up to L2 the maturity gate, without an override, lets nothing run on its own
\* that the blast-radius gate would hold for a human: the two tables agree.
ConservativeTiers ==
  \A t \in ActionType, tier \in 0 .. 2, w \in BOOLEAN :
    evaluate_gate(t, tier, "none", w) = "auto" => t \notin Gated

\* A tenant that moves up a tier or whitelists an action never loses an
\* automation it had (evaluate_gate has a special case at L4 that could).
AutomationGrows ==
  \A t \in ActionType, o \in Override, m, n \in MaturityTier, w \in BOOLEAN :
    m <= n /\ evaluate_gate(t, m, o, FALSE) = "auto" => evaluate_gate(t, n, o, w) = "auto"

\* Whatever the bridge sends has an executor, and so has whatever waits for an
\* approval: neither ends as "No executor found".
NothingIsLost ==
  /\ \A raw : \A ot \in BOOLEAN : _map_action(raw, ot) \in EXECUTOR_REGISTRY
  /\ Gated \subseteq EXECUTOR_REGISTRY
=============================================================================
