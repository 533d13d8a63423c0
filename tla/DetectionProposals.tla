------------------------- MODULE DetectionProposals -------------------------
(***************************************************************************)
(* One detection-as-code proposal under concurrent requests                *)
(* (services/api endpoints/detection_proposals.py), each of which the      *)
(* audit middleware records after it is answered.                          *)
(*                                                                         *)
(* A handler loads the proposal, checks and changes its copy, and commits: *)
(* the UPDATE sets the columns that differ from what was loaded, without   *)
(* a look at what they are by now.                                         *)
(***************************************************************************)
EXTENDS AuditChain, FiniteSets

Status == {"proposed", "in_review", "eval_passed", "eval_failed", "approved",
           "rejected", "promoted"}
Verdict == {"none", "pass", "fail"}
Kind == {"comment", "eval_pass", "eval_fail", "approve", "reject", "promote"}

VARIABLES
  proposal,    \* status and eval_result
  isEdit,      \* base_rule_id is set
  version,     \* of the base rule
  locked,      \* the request whose transaction holds the base rule's row
  promotions,  \* requests that promoted the proposal
  task,        \* where each request is
  approvals,   \* history: the verdicts that approvals were given on
  contested    \* history: two requests have overlapped

state == <<proposal, isEdit, version, locked, promotions, task, approvals, contested>>
proposalVars == <<state, auditVars>>

Proposal == [status : Status, eval : Verdict]

ProposalTypeOK ==
  /\ AuditTypeOK
  /\ proposal \in Proposal
  /\ isEdit \in BOOLEAN /\ version \in Nat
  /\ locked \in ApiRequests \cup {Null}
  /\ promotions \subseteq ApiRequests
  /\ task \in [ApiRequests ->
       [pc : {"idle", "read_rule", "write_rule", "pull_request", "commit",
              "answered", "failed"},
        kind : Kind, seen : Proposal, version : Nat]]
  /\ approvals \subseteq Verdict
  /\ contested \in BOOLEAN

\* A request that has nothing in hand.
Bare(pc) == [pc |-> pc, kind |-> "comment", version |-> 0,
             seen |-> [status |-> "proposed", eval |-> "none"]]

ProposalInit ==
  /\ AuditInit
  /\ proposal = [status |-> "proposed", eval |-> "none"]
  /\ isEdit \in BOOLEAN /\ version = 1 /\ locked = Null
  /\ promotions = {}
  /\ task = [r \in ApiRequests |-> Bare("idle")]
  /\ approvals = {} /\ contested = FALSE

InFlight(r) ==
  /\ task[r].pc \notin {"idle", "failed"}
  /\ ~Audited(r)

At(r, pc) == task[r].pc = pc
ProceedTo(r, pc) == task' = [task EXCEPT ![r].pc = pc]
End(r, pc) == task' = [task EXCEPT ![r] = Bare(pc)]

-----------------------------------------------------------------------------
\* Mutant: a promoted proposal can be decided again.
OnlyRejected == {"rejected"}
Final == {"promoted", "rejected"}

\* Mutant: a passed evaluation is enough to promote.
NotRejected(k, p) == p.status \notin {"promoted", "rejected"}

\* What each handler checks on the proposal it has loaded.
Permitted(k, p) ==
  CASE k \in {"comment", "eval_pass", "eval_fail", "reject"} -> p.status \notin Final
    [] k = "approve" -> p.status \notin Final /\ p.eval = "pass"
    [] k = "promote" -> p.status = "approved"

\* _load_proposal and the checks; a refusal is answered with 409 or 412.
Load(r, k) ==
  /\ At(r, "idle")
  /\ contested' = (contested \/ \E q \in ApiRequests \ {r} : InFlight(q))
  /\ IF ~Permitted(k, proposal)
     THEN End(r, "answered")
     ELSE task' = [task EXCEPT ![r] =
            [pc |-> CASE k # "promote"          -> "commit"
                      [] k = "promote" /\ isEdit  -> "read_rule"
                      [] k = "promote" /\ ~isEdit -> "pull_request",
             kind |-> k, seen |-> proposal, version |-> 0]]
  /\ UNCHANGED <<proposal, isEdit, version, locked, promotions, approvals, auditVars>>

\* promote_proposal of an edit: SELECT of the base rule, then an UPDATE that
\* waits for the row and sets the version that was read plus one.
ReadRule(r) ==
  /\ At(r, "read_rule")
  /\ task' = [task EXCEPT ![r].pc = "write_rule", ![r].version = version]
  /\ UNCHANGED <<proposal, isEdit, version, locked, promotions, approvals,
                 contested, auditVars>>

UpdateRule(r) ==
  /\ At(r, "write_rule") /\ locked = Null
  /\ locked' = r
  /\ ProceedTo(r, "pull_request")
  /\ UNCHANGED <<proposal, isEdit, version, promotions, approvals, contested, auditVars>>

\* create_detection_pr, whose failure is only logged.
CreatePullRequest(r) ==
  /\ At(r, "pull_request")
  /\ ProceedTo(r, "commit")
  /\ UNCHANGED <<proposal, isEdit, version, locked, promotions, approvals,
                 contested, auditVars>>

\* The columns as the handler leaves its copy.
Changed(k, p) ==
  CASE k = "comment"   -> [p EXCEPT !.status = IF @ = "proposed" THEN "in_review" ELSE @]
    [] k = "eval_pass" -> [p EXCEPT !.status = "eval_passed", !.eval = "pass"]
    [] k = "eval_fail" -> [p EXCEPT !.status = "eval_failed", !.eval = "fail"]
    [] k = "approve"   -> [p EXCEPT !.status = "approved"]
    [] k = "reject"    -> [p EXCEPT !.status = "rejected"]
    [] k = "promote"   -> [p EXCEPT !.status = "promoted"]

IsEval(k) == k \in {"eval_pass", "eval_fail"}

\* status is in the UPDATE only if it changed; an evaluation always is, because
\* its ran_at is new.
CommitProposal(r) ==
  LET t == task[r]
      new == Changed(t.kind, t.seen)
  IN  /\ At(r, "commit")
      /\ proposal' = [status |-> IF new.status = t.seen.status THEN proposal.status
                                                               ELSE new.status,
                      eval   |-> IF IsEval(t.kind) THEN new.eval ELSE proposal.eval]
      /\ promotions' = IF t.kind = "promote" THEN promotions \cup {r} ELSE promotions
      /\ IF locked = r
         THEN version' = t.version + 1 /\ locked' = Null
         ELSE UNCHANGED <<version, locked>>
      /\ approvals' = IF t.kind = "approve" THEN approvals \cup {t.seen.eval} ELSE approvals
      /\ End(r, "answered")
      /\ UNCHANGED <<isEdit, contested, auditVars>>

\* The transaction is rolled back; a 500 is not audited.
CommitFails(r) ==
  /\ At(r, "commit")
  /\ Fault
  /\ locked' = IF locked = r THEN Null ELSE locked
  /\ End(r, "failed")
  /\ UNCHANGED <<proposal, isEdit, version, promotions, approvals, contested, rows, entry,
                 clock, badWrites>>

Audit(r) ==
  /\ At(r, "answered")
  /\ Stamp(r) \/ ResolvePrevHash(r) \/ CommitRow(r)
  /\ UNCHANGED state

ProposalNext ==
  \E r \in ApiRequests :
    \/ \E k \in Kind : Load(r, k)
    \/ ReadRule(r) \/ UpdateRule(r) \/ CreatePullRequest(r)
    \/ CommitProposal(r) \/ CommitFails(r)
    \/ Audit(r)

ProposalSpec == ProposalInit /\ [][ProposalNext]_proposalVars

-----------------------------------------------------------------------------
\* Whatever races, a rule is only published by the promotion of a proposal that
\* somebody approved, and every approval was given on a passing evaluation.
RulesAreReviewed ==
  promotions # {} => approvals # {} /\ approvals \subseteq {"pass"}

\* Requests that do not overlap leave one rule per promoted proposal, none for
\* any other, a passing evaluation on it, and one version more on the base rule.
UncontestedIsExact ==
  ~contested =>
    /\ proposal.status = "promoted" <=> promotions # {}
    /\ Cardinality(promotions) <= 1
    /\ promotions # {} => proposal.eval = "pass"
    /\ version = 1 + (IF isEdit THEN Cardinality(promotions) ELSE 0)

\* Without overlapping requests and failing writes the log has a row for every
\* answered request, and verify_chain accepts it.
SequentialLogVerifies ==
  ~contested /\ ~badWrites =>
    /\ verify_chain
    /\ \A r \in ApiRequests : Audited(r) => \E q \in rows : q.id = r
=============================================================================
