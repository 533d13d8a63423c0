----------------------------- MODULE ApiProofs ------------------------------
(***************************************************************************)
(* Proofs about rows that requests of the API contend for, for any number  *)
(* of requests.                                                            *)
(*                                                                         *)
(* AlertClaim: the statements of a claim implement the atomic claim of     *)
(* AlertOwnership.  The inductive invariant says that the row cannot       *)
(* change under the request that holds its lock, and never becomes         *)
(* unassigned again.                                                       *)
(*                                                                         *)
(* DetectionProposals and its AuditChain: what a request has checked it    *)
(* has checked of some proposal, if not of the one it overwrites, and of   *)
(* the one it overwrites if requests do not overlap.                       *)
(***************************************************************************)
EXTENDS AlertClaim, DetectionProposals, FiniteSetTheorems, WellFoundedInduction, TLAPS

-----------------------------------------------------------------------------
(***************************************************************************)
(* AlertClaim.                                                             *)
(***************************************************************************)

\* The row is as the holder's UPDATE found it.
HeldRow == \A r \in Requests : lock = r => Matches(r)

\* A claim that lost the race has seen an assigned or a deleted row.
LostRow == \A r \in Requests : pc[r] = "reread" => row # Nobody

\* Only a claim reads the owner again.
RereadIsClaim == \A r \in Requests : pc[r] = "reread" => r \in Claims

ClaimInv == TypeOK /\ LockHeld /\ HeldRow /\ LostRow /\ RereadIsClaim

LEMMA InvInit == Init => ClaimInv
  BY ClaimAssumption
     DEF Init, ClaimInv, TypeOK, Statement, Result, LockHeld, HeldRow,
         LostRow, RereadIsClaim

LEMMA InvStep == ClaimInv /\ [Next]_vars => ClaimInv'
<1> SUFFICES ASSUME ClaimInv, [Next]_vars PROVE ClaimInv'
  OBVIOUS
<1> USE ClaimAssumption
    DEF ClaimInv, TypeOK, Statement, Result, LockHeld, HeldRow, LostRow,
        RereadIsClaim, Goto, Answer
<1>1. ASSUME NEW r \in Requests, Select(r) PROVE ClaimInv'
  BY <1>1 DEF Select, Matches
<1>2. ASSUME NEW r \in Requests, Update(r) PROVE ClaimInv'
  BY <1>2 DEF Update, Matches, Requests
<1>3. ASSUME NEW r \in Requests, Commit(r) PROVE ClaimInv'
  BY <1>3 DEF Commit, Matches
<1>4. ASSUME NEW r \in Requests, Reread(r) PROVE ClaimInv'
  BY <1>4 DEF Reread, IsOwn, Matches
<1>5. ASSUME NEW r \in Requests, Refresh(r) PROVE ClaimInv'
  BY <1>5 DEF Refresh, Matches
<1>6. ASSUME NEW r \in Requests, Abort(r) PROVE ClaimInv'
  <2>1. row' = row \/ (lock = r /\ row' = UserOf[r])
    BY <1>6 DEF Abort
  <2> QED
    BY <1>6, <2>1 DEF Abort, Unlocked, Matches
<1>7. CASE Delete
  BY <1>7 DEF Delete, Matches
<1>8. CASE UNCHANGED vars
  BY <1>8 DEF vars, Matches
<1> QED
  BY <1>1, <1>2, <1>3, <1>4, <1>5, <1>6, <1>7, <1>8 DEF Next, Execute

LEMMA Invariant == Spec => []ClaimInv
  BY InvInit, InvStep, PTL DEF Spec

\* The variables have their types, and requests that are over have an answer.
THEOREM TypeCorrect == Spec => []TypeOK
<1>1. ClaimInv => TypeOK
  BY DEF ClaimInv
<1> QED
  BY Invariant, <1>1, PTL

\* The row lock is held exactly between a matching UPDATE and its COMMIT.
THEOREM NoLeakedLock == Spec => []LockHeld
<1>1. ClaimInv => LockHeld
  BY DEF ClaimInv
<1> QED
  BY Invariant, <1>1, PTL

-----------------------------------------------------------------------------
NoPatch == \A p \in Patches : pc[p] = "select"

Won(c) == result[c] = "ok" \/ pc[c] = "refresh"

\* While no update request has begun, a winner keeps the alert until it is
\* deleted, and all winners are requests of one user.
WinnerKeeps ==
  NoPatch => \A c \in Claims : Won(c) =>
    /\ row \in {UserOf[c], Gone}
    /\ \A d \in Claims : Won(d) => UserOf[c] = UserOf[d]

LEMMA WinnerStep == ClaimInv /\ WinnerKeeps /\ [Next]_vars => WinnerKeeps'
<1> SUFFICES ASSUME ClaimInv, WinnerKeeps, [Next]_vars, NoPatch'
             PROVE  WinnerKeeps'
  BY DEF WinnerKeeps, NoPatch
<1> USE ClaimAssumption DEF ClaimInv, TypeOK, Requests, Goto, Answer, Won
<1>1. ASSUME NEW r \in Requests, Execute(r) \/ Abort(r)
      PROVE  r \in Claims /\ NoPatch
  BY <1>1 DEF NoPatch, Execute, Select, Update, Commit, Reread, Refresh, Abort,
              Statement
<1>2. ASSUME NEW r \in Requests, Select(r) \/ Update(r) PROVE WinnerKeeps'
  BY <1>1, <1>2 DEF Execute, Select, Update, WinnerKeeps
<1>3. ASSUME NEW r \in Requests, Commit(r) PROVE WinnerKeeps'
  <2>1. r \in Claims /\ NoPatch
    BY <1>1, <1>3 DEF Execute
  <2>2. row = Nobody
    BY <1>3, <2>1 DEF Commit, LockHeld, HeldRow, Matches
  <2>3. \A c \in Claims : ~Won(c)
    BY <2>1, <2>2 DEF WinnerKeeps
  <2> QED
    BY <1>3, <2>1, <2>3 DEF Commit, WinnerKeeps
<1>4. ASSUME NEW r \in Requests, Reread(r) \/ Refresh(r) PROVE WinnerKeeps'
  BY <1>1, <1>4 DEF Execute, Reread, IsOwn, Refresh, WinnerKeeps
<1>5. ASSUME NEW r \in Requests, Abort(r) PROVE WinnerKeeps'
  <2>1. r \in Claims /\ NoPatch
    BY <1>1, <1>5
  <2>2. CASE row' = row
    BY <1>5, <2>1, <2>2 DEF Abort, WinnerKeeps
  <2>3. CASE pc[r] = "commit"
    <3>1. row = Nobody
      BY <2>1, <2>3 DEF LockHeld, HeldRow, Matches
    <3>2. \A c \in Claims : ~Won(c)
      BY <2>1, <3>1 DEF WinnerKeeps
    <3> QED
      BY <1>5, <3>2 DEF Abort, WinnerKeeps
  <2> QED
    BY <1>5, <2>2, <2>3 DEF Abort
<1>6. CASE Delete
  BY <1>6 DEF Delete, WinnerKeeps, NoPatch
<1>7. CASE UNCHANGED vars
  BY <1>7 DEF vars, WinnerKeeps, NoPatch
<1> QED
  BY <1>2, <1>3, <1>4, <1>5, <1>6, <1>7 DEF Next, Execute

\* Two users are never both told that they have the alert, unless an update
\* request has begun.
THEOREM NeverBothWin == Spec => []OneWinner
<1>1. Init => WinnerKeeps
  BY DEF Init, WinnerKeeps, Won, Requests
<1>2. ClaimInv /\ WinnerKeeps => OneWinner
  BY DEF WinnerKeeps, OneWinner, NoPatch, Won
<1> QED
  BY Invariant, WinnerStep, <1>1, <1>2, PTL DEF Spec

-----------------------------------------------------------------------------
\* A step that leaves the row and every outcome alone is a stutter.
LEMMA OutcomeKept ==
  ASSUME NEW r \in Requests, TypeOK, UNCHANGED result,
         NEW s \in Statement, pc' = [pc EXCEPT ![r] = s],
         s = "refresh" <=> pc[r] = "refresh"
  PROVE  Outcome' = Outcome
  BY DEF TypeOK, Outcome

\* A request that ends without having committed moves from "none" to its answer.
LEMMA OutcomeAnswered ==
  ASSUME NEW r \in Requests, TypeOK, NEW a \in Result, Answer(r, a),
         pc[r] # "refresh", pc[r] # "done"
  PROVE  /\ Outcome[r] = "none"
         /\ Outcome' = [Outcome EXCEPT ![r] = a]
<1>1. \A q \in Requests : pc'[q] = IF q = r THEN "done" ELSE pc[q]
  BY DEF Answer, TypeOK
<1>2. \A q \in Requests : result'[q] = IF q = r THEN a ELSE result[q]
  BY DEF Answer, TypeOK
<1> QED
  BY <1>1, <1>2 DEF Outcome, TypeOK

\* A request whose transaction is over moves from "none" to "ok".
LEMMA OutcomeOk ==
  ASSUME NEW r \in Requests, TypeOK, Goto(r, "refresh"),
         pc[r] # "refresh", pc[r] # "done"
  PROVE  /\ Outcome[r] = "none"
         /\ Outcome' = [Outcome EXCEPT ![r] = "ok"]
<1>1. \A q \in Requests : pc'[q] = IF q = r THEN "refresh" ELSE pc[q]
  BY DEF Goto, TypeOK
<1>2. result' = result
  BY DEF Goto
<1> QED
  BY <1>1, <1>2 DEF Outcome, TypeOK

LEMMA StepRefines ==
  ClaimInv /\ [Next]_vars => [Ownership!Next]_<<row, Outcome>>
<1> SUFFICES ASSUME ClaimInv, [Next]_vars
             PROVE  Ownership!Next \/ UNCHANGED <<row, Outcome>>
  OBVIOUS
<1> USE ClaimAssumption DEF ClaimInv
<1>a. Ownership!Requests = Requests
  BY DEF Ownership!Requests, Requests
<1>1. ASSUME NEW r \in Requests, Select(r)
      PROVE  \/ UNCHANGED <<row, Outcome>>
             \/ Ownership!Grant(r) \/ Ownership!Decline(r) \/ Ownership!Missing(r)
  <2>1. CASE Goto(r, "update")
    <3>1. Outcome' = Outcome
      BY <1>1, <2>1, OutcomeKept DEF Select, Goto, Statement
    <3> QED
      BY <1>1, <3>1 DEF Select
  <2>2. CASE row = Gone /\ Answer(r, "notfound")
    BY <1>1, <2>2, OutcomeAnswered
       DEF Select, Result, Ownership!Missing, Ownership!Reply
  <2>3. CASE r \in Claims /\ row = UserOf[r] /\ Answer(r, "ok")
    BY <1>1, <2>3, OutcomeAnswered
       DEF Select, Result, Ownership!Grant, Ownership!MayTake, Ownership!Reply
  <2>4. CASE r \in Claims /\ row \in Users \ {UserOf[r]} /\ Answer(r, "conflict")
    BY <1>1, <2>4, OutcomeAnswered
       DEF Select, Result, Ownership!Decline, Ownership!Reply
  <2> QED
    BY <1>1, <2>1, <2>2, <2>3, <2>4 DEF Select
<1>2. ASSUME NEW r \in Requests, Update(r)
      PROVE  UNCHANGED <<row, Outcome>> \/ Ownership!Fail(r)
  <2>1. ASSUME NEW s \in {"commit", "reread"}, Goto(r, s)
        PROVE  UNCHANGED <<row, Outcome>>
    BY <1>2, <2>1, OutcomeKept DEF Update, Goto, Statement
  <2>2. CASE Answer(r, "error")
    BY <1>2, <2>2, OutcomeAnswered DEF Update, Result, Ownership!Fail
  <2> QED
    BY <1>2, <2>1, <2>2 DEF Update
<1>3. ASSUME NEW r \in Requests, Commit(r) PROVE Ownership!Grant(r)
  <2>1. Ownership!MayTake(r)
    BY <1>3 DEF Commit, LockHeld, HeldRow, Matches, Ownership!MayTake
  <2> QED
    BY <1>3, <2>1, OutcomeOk DEF Commit, Ownership!Grant, Ownership!Reply
<1>4. ASSUME NEW r \in Requests, Reread(r)
      PROVE  Ownership!Grant(r) \/ Ownership!Decline(r) \/ Ownership!Missing(r)
  <2>1. r \in Claims /\ row # Nobody /\ row' = row
    BY <1>4 DEF Reread, LostRow, RereadIsClaim
  <2>2. CASE row = Gone /\ Answer(r, "notfound")
    BY <1>4, <2>1, <2>2, OutcomeAnswered
       DEF Reread, Result, Ownership!Missing, Ownership!Reply
  <2>3. CASE IsOwn(r) /\ Goto(r, "refresh")
    BY <1>4, <2>1, <2>3, OutcomeOk
       DEF Reread, IsOwn, Ownership!Grant, Ownership!MayTake, Ownership!Reply
  <2>4. CASE row \in Users /\ ~IsOwn(r) /\ Answer(r, "conflict")
    BY <1>4, <2>1, <2>4, OutcomeAnswered
       DEF Reread, IsOwn, Result, Ownership!Decline, Ownership!Reply
  <2> QED
    BY <1>4, <2>1, <2>2, <2>3, <2>4 DEF Reread
<1>5. ASSUME NEW r \in Requests, pc[r] = "refresh", row' = row,
             NEW a \in {"ok", "error"}, Answer(r, a)
      PROVE  UNCHANGED <<row, Outcome>> \/ Ownership!Fail(r)
  <2>1. \A q \in Requests : pc'[q] = IF q = r THEN "done" ELSE pc[q]
    BY <1>5 DEF Answer, TypeOK
  <2>2. \A q \in Requests : result'[q] = IF q = r THEN a ELSE result[q]
    BY <1>5 DEF Answer, TypeOK
  <2>3. Outcome[r] = "ok" /\ Outcome' = [Outcome EXCEPT ![r] = a]
    BY <1>5, <2>1, <2>2 DEF Outcome
  <2>4. CASE a = "ok"
    <3>1. Outcome' = Outcome
      BY <2>3, <2>4 DEF Outcome
    <3> QED
      BY <1>5, <3>1
  <2>5. CASE a = "error"
    BY <1>5, <2>3, <2>5 DEF Ownership!Fail
  <2> QED
    BY <2>4, <2>5
<1>6. ASSUME NEW r \in Requests, Abort(r)
      PROVE  \/ UNCHANGED <<row, Outcome>>
             \/ Ownership!Grant(r) \/ Ownership!Fail(r)
  <2>1. CASE pc[r] = "refresh"
    BY <1>5, <1>6, <2>1 DEF Abort
  <2>2. CASE pc[r] # "refresh" /\ row' = row
    BY <1>6, <2>2, OutcomeAnswered DEF Abort, Result, Ownership!Fail
  <2>3. CASE pc[r] = "commit" /\ row' = UserOf[r]
    <3>1. Ownership!MayTake(r)
      BY <2>3 DEF LockHeld, HeldRow, Matches, Ownership!MayTake
    <3> QED
      BY <1>6, <2>3, <3>1, OutcomeAnswered
         DEF Abort, Result, Ownership!Grant, Ownership!Reply
  <2> QED
    BY <1>6, <2>1, <2>2, <2>3 DEF Abort
<1>7. CASE Delete
  BY <1>7 DEF Delete, Outcome, Ownership!Remove, Ownership!Next
<1>8. CASE UNCHANGED vars
  BY <1>8 DEF vars, Outcome
<1>9. ASSUME NEW r \in Requests, Refresh(r)
      PROVE  UNCHANGED <<row, Outcome>> \/ Ownership!Fail(r)
  BY <1>5, <1>9 DEF Refresh
<1> QED
  BY <1>a, <1>1, <1>2, <1>3, <1>4, <1>6, <1>7, <1>8, <1>9
     DEF Next, Execute, Ownership!Next

\* Whatever the interleaving of its statements, a claim is an atomic
\* compare-and-set: the specification implements AlertOwnership.
THEOREM ClaimIsAtomic == Spec => AtomicClaim
<1>1. Init => Ownership!Init
  BY DEF Init, Outcome, Ownership!Init, Ownership!Requests, Requests
<1> QED
  BY Invariant, StepRefines, <1>1, PTL DEF Spec, AtomicClaim, Ownership!Spec

-----------------------------------------------------------------------------
(***************************************************************************)
(* DetectionProposals.                                                     *)
(***************************************************************************)
Working(r) == task[r].pc \in {"read_rule", "write_rule", "pull_request", "commit"}
PublishesEdit(r) == task[r].kind = "promote" /\ isEdit

\* A handler at work passed its checks, and is not audited before it is answered.
CheckedInv ==
  \A r \in ApiRequests :
    /\ Working(r) => Permitted(task[r].kind, task[r].seen)
    /\ task[r].pc # "answered" => entry[r] = NoEntry
    /\ task[r].pc \in {"read_rule", "write_rule"} => PublishesEdit(r)
    /\ locked = r <=> PublishesEdit(r) /\ task[r].pc \in {"pull_request", "commit"}
    /\ r \in promotions => task[r].pc = "answered"

\* A proposal that is or was loaded as approved has an approval behind it.
ReviewInv ==
  /\ approvals \subseteq {"pass"}
  /\ proposal.status = "approved" => approvals # {}
  /\ \A r \in ApiRequests : task[r].seen.status = "approved" => approvals # {}
  /\ promotions # {} => approvals # {}

\* Without overlap one request is in hand, and what it has read is still so.
AloneInv ==
  ~contested =>
    /\ \A q, r \in ApiRequests : InFlight(q) /\ InFlight(r) => q = r
    /\ \A r \in ApiRequests :
         /\ Working(r) => task[r].seen = proposal
         /\ Working(r) /\ PublishesEdit(r) /\ task[r].pc # "read_rule" =>
              task[r].version = version
    /\ proposal.status \in {"approved", "promoted"} => proposal.eval = "pass"
    /\ proposal.status = "promoted" <=> promotions # {}
    /\ \A q, r \in promotions : q = r
    /\ version = IF isEdit /\ promotions # {} THEN 2 ELSE 1

\* The clock is ahead of every row.
DatedInv ==
  /\ \A q \in rows : q.created_at <= clock
  /\ \A r \in ApiRequests : entry[r].created_at <= clock

\* What is answered and written leaves a row, unless a write of the log failed.
RowsInv ==
  \A r \in ApiRequests :
    /\ entry[r].pc = "written" => \E q \in rows : q.id = r
    /\ entry[r].pc = "lost" => badWrites

\* Without overlap and failing writes the row in hand is the newest, and what it
\* continues is the last one.
ChainInv ==
  ~contested /\ ~badWrites =>
    /\ \A q \in rows : q.hashed
    /\ verify_chain
    /\ \A r \in ApiRequests :
         /\ entry[r].pc \in {"read", "commit"} =>
              /\ entry[r].created_at = clock
              /\ \A q \in rows : q.created_at < clock
         /\ entry[r].pc = "commit" =>
              entry[r].hashed /\ entry[r].prev_hash = LatestHash(rows)

ProposalInv ==
  /\ ProposalTypeOK
  /\ CheckedInv /\ ReviewInv /\ AloneInv
  /\ DatedInv /\ RowsInv /\ ChainInv

Task == [pc : {"idle", "read_rule", "write_rule", "pull_request", "commit",
               "answered", "failed"},
         kind : Kind, seen : Proposal, version : Nat]
Entry == [pc : {"none", "read", "commit", "written", "lost"},
          created_at : Nat, prev_hash : Hash, hashed : BOOLEAN]

LEMMA BareTyped ==
  ASSUME NEW p \in {"idle", "answered", "failed"}
  PROVE  /\ Bare(p) \in Task /\ Bare(p).pc = p /\ Bare(p).kind = "comment"
         /\ Bare(p).seen.status = "proposed"
  BY DEF Bare, Task, Kind, Proposal, Status, Verdict

LEMMA ChangedTyped ==
  ASSUME NEW k \in Kind, NEW p \in Proposal
  PROVE  Changed(k, p) \in Proposal
  BY DEF Changed, Kind, Proposal, Status, Verdict

\* Rows that are dated no later than some day have a latest one.
LEMMA LatestExists ==
  ASSUME NEW S \in SUBSET Row, S # {},
         NEW n \in Nat, \A q \in S : q.created_at <= n
  PROVE  \E q \in S : \A p \in S : p.created_at <= q.created_at
<1> DEFINE Ages == {n - q.created_at : q \in S}
<1>1. \A q \in S : q.created_at \in Nat
  BY DEF Row
<1>2. Ages \subseteq Nat /\ Ages # {}
  BY <1>1
<1>3. PICK a \in Ages : \A b \in Ages : <<b, a>> \notin OpToRel(<, Nat)
  <2> HIDE DEF Ages
  <2> QED
    BY <1>2, NatLessThanWellFounded, WFMin, Zenon
<1>4. \A b \in Ages : a <= b
  <2> HIDE DEF Ages
  <2> SUFFICES ASSUME NEW b \in Ages, b < a PROVE FALSE
    BY <1>2
  <2>1. <<b, a>> \in OpToRel(<, Nat)
    BY <1>2 DEF OpToRel
  <2> QED
    BY <1>3, <2>1
<1>5. PICK q \in S : a = n - q.created_at
  OBVIOUS
<1>6. ASSUME NEW p \in S PROVE p.created_at <= q.created_at
  BY <1>1, <1>4, <1>5
<1> QED
  BY <1>6

LEMMA LatestIsHash ==
  ASSUME NEW S \in SUBSET Row, NEW n \in Nat, \A q \in S : q.created_at <= n
  PROVE  LatestHash(S) \in Hash
<1>1. CASE Hashed(S) = {}
  BY <1>1 DEF LatestHash, Hash
<1>2. CASE Hashed(S) # {}
  <2> DEFINE Latest(q) == \A p \in Hashed(S) : p.created_at <= q.created_at
  <2>1. Hashed(S) \in SUBSET Row /\ \A q \in Hashed(S) : q.created_at <= n
    BY DEF Hashed
  <2>2. \E q \in Hashed(S) : Latest(q)
    BY <1>2, <2>1, LatestExists
  <2>3. (CHOOSE q \in Hashed(S) : Latest(q)) \in Hashed(S)
    <3> HIDE DEF Latest
    <3> QED
      BY <2>2
  <2> QED
    BY <1>2, <2>1, <2>3 DEF LatestHash, Row, Hash
<1> QED
  BY <1>1, <1>2

LEMMA ProposalInvInit == ProposalInit => ProposalInv
<1> SUFFICES ASSUME ProposalInit PROVE ProposalInv
  OBVIOUS
<1>1. /\ Bare("idle") \in Task /\ Bare("idle").pc = "idle"
      /\ Bare("idle").kind = "comment" /\ Bare("idle").seen.status = "proposed"
  BY BareTyped
<1>2. NoEntry \in Entry /\ NoEntry.pc = "none"
  BY DEF NoEntry, Entry, Hash
<1>3. badWrites \in BOOLEAN /\ contested \in BOOLEAN
  BY Zenon DEF ProposalInit, AuditInit
<1>4. ProposalTypeOK
  BY <1>1, <1>2, <1>3, FaultsAssumption
     DEF ProposalInit, AuditInit, ProposalTypeOK, AuditTypeOK, Task, Entry, Proposal,
         Status, Verdict
<1>5. CheckedInv /\ ReviewInv /\ AloneInv /\ DatedInv /\ RowsInv /\ ChainInv
  BY <1>1, <1>2, NullAssumption
     DEF ProposalInit, AuditInit, NoEntry, CheckedInv, ReviewInv, AloneInv, DatedInv,
         RowsInv, ChainInv,
         Working, PublishesEdit, InFlight, verify_chain
<1> QED
  BY <1>4, <1>5 DEF ProposalInv

\* The actions of the proposal, as opposed to those of the log.
Handle(r) ==
  \/ \E k \in Kind : Load(r, k)
  \/ ReadRule(r) \/ UpdateRule(r) \/ CreatePullRequest(r)
  \/ CommitProposal(r) \/ CommitFails(r)

\* A handler changes its own task only, and leaves the log alone.
LEMMA HandleOwnTask ==
  ASSUME ProposalTypeOK, NEW r \in ApiRequests, Handle(r)
  PROVE  /\ task' \in [ApiRequests -> Task]
         /\ \A q \in ApiRequests \ {r} : task'[q] = task[q]
         /\ UNCHANGED <<rows, entry, clock, badWrites, isEdit>>
         /\ faults' \in 0 .. MaxFaults
         /\ ~contested' => ~contested
<1>1. /\ task \in [ApiRequests -> Task] /\ proposal \in Proposal
      /\ version \in Nat /\ faults \in 0 .. MaxFaults
  BY DEF ProposalTypeOK, AuditTypeOK, Task
<1>2. Bare("answered") \in Task /\ Bare("failed") \in Task
  BY BareTyped
<1>3. ASSUME NEW k \in Kind, Load(r, k)
      PROVE  /\ task' \in [ApiRequests -> Task]
             /\ \A q \in ApiRequests \ {r} : task'[q] = task[q]
             /\ ~contested' => ~contested
  <2>0. ~contested' => ~contested
    BY <1>3, Zenon DEF Load
  <2>1. CASE End(r, "answered")
    BY <1>1, <1>2, <2>0, <2>1 DEF End
  <2>2. ASSUME NEW p \in {"commit", "read_rule", "pull_request"},
               task' = [task EXCEPT ![r] =
                          [pc |-> p, kind |-> k, seen |-> proposal, version |-> 0]]
        PROVE  /\ task' \in [ApiRequests -> Task]
               /\ \A q \in ApiRequests \ {r} : task'[q] = task[q]
    BY <1>1, <2>2 DEF Task
  <2> QED
    BY <1>3, <2>0, <2>1, <2>2 DEF Load
<1>4. CASE ReadRule(r)
  BY <1>1, <1>4 DEF ReadRule, Task, auditVars
<1>5. CASE UpdateRule(r) \/ CreatePullRequest(r)
  BY <1>1, <1>5 DEF UpdateRule, CreatePullRequest, ProceedTo, Task, auditVars
<1>6. CASE CommitProposal(r)
  BY <1>1, <1>2, <1>6 DEF CommitProposal, End, auditVars
<1>7. CASE CommitFails(r)
  BY <1>1, <1>2, <1>7, FaultsAssumption DEF CommitFails, End, Fault
<1> QED
  BY <1>1, <1>3, <1>4, <1>5, <1>6, <1>7 DEF Handle, Load, auditVars

LEMMA HandleTyped ==
  ASSUME ProposalTypeOK, NEW r \in ApiRequests, Handle(r)
  PROVE  ProposalTypeOK'
<1>1. /\ task' \in [ApiRequests -> Task]
      /\ UNCHANGED <<rows, entry, clock, badWrites, isEdit>>
      /\ faults' \in 0 .. MaxFaults
  BY HandleOwnTask
<1>2. AuditTypeOK' /\ isEdit' \in BOOLEAN
  BY <1>1 DEF ProposalTypeOK, AuditTypeOK
<1>3. task[r].kind \in Kind /\ task[r].seen \in Proposal /\ task[r].version \in Nat
  BY DEF ProposalTypeOK
<1>4. /\ proposal' \in Proposal /\ version' \in Nat
      /\ locked' \in ApiRequests \cup {Null} /\ promotions' \subseteq ApiRequests
      /\ approvals' \subseteq Verdict /\ contested' \in BOOLEAN
  <2>1. CASE \E k \in Kind : Load(r, k)
    BY <2>1 DEF Load, ProposalTypeOK
  <2>2. CASE ReadRule(r) \/ UpdateRule(r) \/ CreatePullRequest(r) \/ CommitFails(r)
    BY <2>2 DEF ReadRule, UpdateRule, CreatePullRequest, CommitFails, ProposalTypeOK
  <2>3. CASE CommitProposal(r)
    <3>1. Changed(task[r].kind, task[r].seen) \in Proposal
      BY <1>3, ChangedTyped
    <3>2. proposal' \in Proposal
      BY <2>3, <3>1 DEF CommitProposal, Proposal, ProposalTypeOK
    <3>3. approvals' \subseteq Verdict /\ promotions' \subseteq ApiRequests
      BY <1>3, <2>3 DEF CommitProposal, Proposal, ProposalTypeOK
    <3> QED
      BY <1>3, <2>3, <3>2, <3>3 DEF CommitProposal, ProposalTypeOK
  <2> QED
    BY <2>1, <2>2, <2>3 DEF Handle
<1> QED
  BY <1>1, <1>2, <1>4 DEF ProposalTypeOK, Task

\* A step of the log is one of an answered request, and of its entry only.
LEMMA AuditOwnEntry ==
  ASSUME ProposalInv, NEW r \in ApiRequests, Audit(r)
  PROVE  /\ ProposalTypeOK'
         /\ task[r].pc = "answered"
         /\ UNCHANGED state
         /\ \A q \in ApiRequests \ {r} : entry'[q] = entry[q]
         /\ ~badWrites' => ~badWrites
<1>1. UNCHANGED state /\ task[r].pc = "answered"
  BY DEF Audit, At
<1>2. /\ entry \in [ApiRequests -> Entry] /\ rows \subseteq Row /\ clock \in Nat
      /\ faults \in 0 .. MaxFaults /\ badWrites \in BOOLEAN
  BY DEF ProposalInv, ProposalTypeOK, AuditTypeOK, Entry
<1> DEFINE Entered ==
      /\ AuditTypeOK'
      /\ \A q \in ApiRequests \ {r} : entry'[q] = entry[q]
      /\ ~badWrites' => ~badWrites
<1>3. ASSUME Stamp(r) PROVE Entered
  <2>1. clock' \in Nat /\ clock + 1 \in Nat
    BY <1>2, <1>3 DEF Stamp
  <2>2. entry' = [entry EXCEPT ![r] = [@ EXCEPT !.pc = "read", !.created_at = clock + 1]]
    BY <1>2, <1>3 DEF Stamp
  <2>3. [entry[r] EXCEPT !.pc = "read", !.created_at = clock + 1] \in Entry
    BY <1>2, <2>1 DEF Entry
  <2>4. /\ entry' \in [ApiRequests -> Entry]
        /\ \A q \in ApiRequests \ {r} : entry'[q] = entry[q]
    BY <1>2, <2>2, <2>3
  <2> QED
    BY <1>2, <1>3, <2>1, <2>4, Zenon DEF Stamp, AuditTypeOK, Entry
<1>4. ASSUME ResolvePrevHash(r) PROVE Entered
  <2>1. _resolve_prev_hash \in Hash
    BY <1>2, LatestIsHash DEF ProposalInv, DatedInv, _resolve_prev_hash
  <2>2. /\ entry' \in [ApiRequests -> Entry]
        /\ \A q \in ApiRequests \ {r} : entry'[q] = entry[q]
    BY <1>2, <1>4, <2>1 DEF ResolvePrevHash, Entry
  <2>3. badWrites' \in BOOLEAN /\ (~badWrites' => ~badWrites)
    BY <1>2, <1>4, Zenon DEF ResolvePrevHash, BadWrite
  <2>4. rows' \subseteq Row /\ clock' \in Nat /\ faults' \in 0 .. MaxFaults
    BY <1>2, <1>4, FaultsAssumption DEF ResolvePrevHash, BadWrite, Fault
  <2> QED
    BY <2>2, <2>3, <2>4, Zenon DEF AuditTypeOK, Entry
<1>5. ASSUME CommitRow(r) PROVE Entered
  <2>1. RowOf(r) \in Row
    BY <1>2 DEF RowOf, Row, Entry
  <2>2. \A p \in {"written", "lost"} : [NoEntry EXCEPT !.pc = p] \in Entry
    BY DEF NoEntry, Entry, Hash
  <2>3. /\ entry' \in [ApiRequests -> Entry]
        /\ \A q \in ApiRequests \ {r} : entry'[q] = entry[q]
    BY <1>2, <1>5, <2>2 DEF CommitRow
  <2>4. badWrites' \in BOOLEAN /\ (~badWrites' => ~badWrites)
    BY <1>2, <1>5, Zenon DEF CommitRow, BadWrite
  <2>5. rows' \subseteq Row /\ clock' \in Nat /\ faults' \in 0 .. MaxFaults
    BY <1>2, <1>5, <2>1, FaultsAssumption DEF CommitRow, BadWrite, Fault
  <2> QED
    BY <2>3, <2>4, <2>5, Zenon DEF AuditTypeOK, Entry
<1>6. Entered
  BY <1>3, <1>4, <1>5, Zenon DEF Audit
<1>7. ProposalTypeOK'
  BY <1>1, <1>6 DEF ProposalInv, ProposalTypeOK, state
<1> QED
  BY <1>1, <1>6, <1>7

-----------------------------------------------------------------------------
LEMMA CheckedStep ==
  ASSUME ProposalInv, NEW r \in ApiRequests, Handle(r)
  PROVE  CheckedInv'
<1>1. /\ task' \in [ApiRequests -> Task]
      /\ \A q \in ApiRequests \ {r} : task'[q] = task[q]
      /\ entry' = entry /\ isEdit' = isEdit
  BY HandleOwnTask DEF ProposalInv
<1>2. task \in [ApiRequests -> Task] /\ isEdit \in BOOLEAN
  BY DEF ProposalInv, ProposalTypeOK, Task
<1>3. /\ Working(r) => Permitted(task[r].kind, task[r].seen)
      /\ task[r].pc # "answered" => entry[r] = NoEntry
      /\ task[r].pc \in {"read_rule", "write_rule"} => PublishesEdit(r)
      /\ locked = r <=> PublishesEdit(r) /\ task[r].pc \in {"pull_request", "commit"}
      /\ r \in promotions => task[r].pc = "answered"
  BY DEF ProposalInv, CheckedInv
<1>4. \A p \in {"answered", "failed"} : Bare(p).pc = p /\ Bare(p).kind = "comment"
  BY BareTyped
<1> DEFINE Own ==
      /\ Working(r)' => Permitted(task'[r].kind, task'[r].seen)
      /\ task'[r].pc # "answered" => task[r].pc # "answered"
      /\ task'[r].pc \in {"read_rule", "write_rule"} => PublishesEdit(r)'
      /\ locked' = r <=> PublishesEdit(r)' /\ task'[r].pc \in {"pull_request", "commit"}
      /\ r \in promotions' => task'[r].pc = "answered"
      /\ \A q \in ApiRequests \ {r} :
           (locked' = q <=> locked = q) /\ (q \in promotions' <=> q \in promotions)
<1>5. Own
  <2>1. ASSUME NEW k \in Kind, Load(r, k) PROVE Own
    BY <1>1, <1>2, <1>3, <1>4, <2>1 DEF Load, At, End, Working, PublishesEdit
  <2>2. CASE ReadRule(r)
    BY <1>1, <1>2, <1>3, <2>2 DEF ReadRule, At, Working, PublishesEdit, Task
  <2>3. CASE UpdateRule(r)
    BY <1>1, <1>2, <1>3, <2>3, NullAssumption
       DEF UpdateRule, At, ProceedTo, Working, PublishesEdit, Task
  <2>4. CASE CreatePullRequest(r)
    BY <1>1, <1>2, <1>3, <2>4
       DEF CreatePullRequest, At, ProceedTo, Working, PublishesEdit, Task
  <2>5. CASE CommitProposal(r)
    BY <1>1, <1>2, <1>3, <1>4, <2>5, NullAssumption
       DEF CommitProposal, At, End, Working, PublishesEdit, Task
  <2>6. CASE CommitFails(r)
    BY <1>1, <1>2, <1>3, <1>4, <2>6, NullAssumption
       DEF CommitFails, At, End, Working, PublishesEdit, Task
  <2> QED
    BY <2>1, <2>2, <2>3, <2>4, <2>5, <2>6 DEF Handle
<1> QED
  BY <1>1, <1>3, <1>5 DEF ProposalInv, CheckedInv, Working, PublishesEdit

LEMMA ReviewStep ==
  ASSUME ProposalInv, NEW r \in ApiRequests, Handle(r)
  PROVE  ReviewInv'
<1> USE DEF ReviewInv
<1>1. /\ task' \in [ApiRequests -> Task]
      /\ \A q \in ApiRequests \ {r} : task'[q] = task[q]
  BY HandleOwnTask DEF ProposalInv
<1>2. /\ task \in [ApiRequests -> Task] /\ proposal \in Proposal
      /\ ReviewInv
  BY DEF ProposalInv, ProposalTypeOK, Task
<1>3. \A p \in {"answered", "failed"} : Bare(p).seen.status = "proposed"
  BY BareTyped
<1>4. ASSUME NEW k \in Kind, Load(r, k) PROVE ReviewInv'
  <2>1. task'[r].seen.status \in {"proposed", proposal.status}
    BY <1>2, <1>3, <1>4 DEF Load, End
  <2> QED
    BY <1>1, <1>2, <1>4, <2>1 DEF Load
<1>5. CASE ReadRule(r) \/ UpdateRule(r) \/ CreatePullRequest(r) \/ CommitFails(r)
  <2>1. task'[r].seen.status \in {"proposed", task[r].seen.status}
    BY <1>2, <1>3, <1>5
       DEF ReadRule, UpdateRule, CreatePullRequest, CommitFails, ProceedTo, End, Task
  <2>2. UNCHANGED <<proposal, promotions, approvals>>
    BY <1>5 DEF ReadRule, UpdateRule, CreatePullRequest, CommitFails
  <2> QED
    BY <1>1, <1>2, <2>1, <2>2
<1>6. CASE CommitProposal(r)
  <2> DEFINE k == task[r].kind
             p == task[r].seen
  <2>1. k \in Kind /\ p \in Proposal /\ Permitted(k, p)
    BY <1>2, <1>6 DEF CommitProposal, At, ProposalInv, CheckedInv, Working, Task
  <2>2. approvals' = IF k = "approve" THEN approvals \cup {p.eval} ELSE approvals
    BY <1>6 DEF CommitProposal
  <2>3. k = "approve" => p.eval = "pass"
    BY <2>1 DEF Permitted, Kind
  <2>4. k = "promote" => approvals # {}
    BY <1>2, <2>1 DEF Permitted, Kind
  <2>5. Changed(k, p).status = "approved" => k = "approve" \/ p.status = "approved"
    BY <2>1 DEF Changed, Kind, Proposal, Status
  <2>6. proposal'.status = "approved" => approvals' # {}
    BY <1>2, <1>6, <2>2, <2>5 DEF CommitProposal
  <2>7. promotions' # {} => approvals' # {}
    BY <1>2, <1>6, <2>2, <2>4 DEF CommitProposal
  <2>8. task'[r].seen.status = "proposed"
    BY <1>2, <1>3, <1>6 DEF CommitProposal, End
  <2> QED
    BY <1>1, <1>2, <2>2, <2>3, <2>6, <2>7, <2>8
<1> QED
  BY <1>4, <1>5, <1>6 DEF Handle

\* A handler at work is in flight, so without overlap it is the only one.
LEMMA AloneAtWork ==
  ASSUME ProposalInv, ~contested, NEW r \in ApiRequests, Working(r)
  PROVE  /\ InFlight(r)
         /\ \A q \in ApiRequests \ {r} : ~InFlight(q) /\ ~Working(q)
<1>1. \A q \in ApiRequests : Working(q) => InFlight(q)
  BY DEF ProposalInv, CheckedInv, Working, InFlight, Audited, NoEntry
<1> QED
  BY <1>1 DEF ProposalInv, AloneInv

LEMMA AloneStep ==
  ASSUME ProposalInv, NEW r \in ApiRequests, Handle(r)
  PROVE  AloneInv'
<1> SUFFICES ASSUME ~contested' PROVE AloneInv'
  BY DEF AloneInv
<1>1. /\ task' \in [ApiRequests -> Task] /\ ~contested
      /\ \A q \in ApiRequests \ {r} : task'[q] = task[q]
      /\ entry' = entry /\ isEdit' = isEdit
  BY HandleOwnTask DEF ProposalInv
<1>2. /\ task \in [ApiRequests -> Task] /\ proposal \in Proposal
      /\ isEdit \in BOOLEAN /\ promotions \subseteq ApiRequests
  BY DEF ProposalInv, ProposalTypeOK, Task
<1>3. AloneInv!2
  BY <1>1 DEF ProposalInv, AloneInv
<1>4. \A p \in {"answered", "failed"} : Bare(p).pc = p
  BY BareTyped
<1>5. \A q \in ApiRequests \ {r} :
        /\ InFlight(q)' <=> InFlight(q)
        /\ Working(q)' <=> Working(q)
        /\ PublishesEdit(q)' <=> PublishesEdit(q)
  BY <1>1 DEF InFlight, Audited, Working, PublishesEdit
<1>6. ASSUME NEW k \in Kind, Load(r, k) PROVE AloneInv'
  <2>1. \A q \in ApiRequests \ {r} : ~InFlight(q) /\ ~Working(q)
    <3>1. \A q \in ApiRequests \ {r} : ~InFlight(q)
      BY <1>6 DEF Load
    <3> QED
      BY <1>1, <3>1, AloneAtWork
  <2>2. /\ Working(r)' => task'[r].seen = proposal
        /\ PublishesEdit(r)' /\ Working(r)' => task'[r].pc = "read_rule"
    BY <1>1, <1>2, <1>4, <1>6 DEF Load, End, Working, PublishesEdit
  <2>3. UNCHANGED <<proposal, version, promotions>>
    BY <1>6 DEF Load
  <2> QED
    BY <1>1, <1>3, <1>5, <2>1, <2>2, <2>3 DEF AloneInv
<1>7. ASSUME Working(r)
      PROVE  \A q \in ApiRequests \ {r} : ~InFlight(q)' /\ ~Working(q)'
  BY <1>1, <1>5, <1>7, AloneAtWork
<1>8. CASE ReadRule(r) \/ UpdateRule(r) \/ CreatePullRequest(r)
  <2>1. Working(r)
    BY <1>8 DEF ReadRule, UpdateRule, CreatePullRequest, At, Working
  <2>2. /\ task'[r].seen = task[r].seen
        /\ PublishesEdit(r)' <=> PublishesEdit(r)
        /\ task'[r].version = version \/ (task'[r].version = task[r].version
                                          /\ task[r].pc # "read_rule")
    BY <1>1, <1>2, <1>8
       DEF ReadRule, UpdateRule, CreatePullRequest, At, ProceedTo, PublishesEdit, Task
  <2>3. UNCHANGED <<proposal, version, promotions>>
    BY <1>8 DEF ReadRule, UpdateRule, CreatePullRequest
  <2> QED
    BY <1>1, <1>3, <1>7, <2>1, <2>2, <2>3 DEF AloneInv
<1>9. CASE CommitFails(r)
  <2>1. Working(r) /\ ~Working(r)' /\ UNCHANGED <<proposal, version, promotions>>
    BY <1>2, <1>4, <1>9 DEF CommitFails, At, End, Working
  <2> QED
    BY <1>1, <1>3, <1>7, <2>1 DEF AloneInv
<1>10. CASE CommitProposal(r)
  <2> DEFINE k == task[r].kind
  <2>1. Working(r) /\ ~Working(r)'
    BY <1>2, <1>4, <1>10 DEF CommitProposal, At, End, Working
  <2>2. k \in Kind /\ task[r].seen = proposal /\ Permitted(k, proposal)
    BY <1>2, <1>3, <2>1 DEF ProposalInv, CheckedInv, Task
  <2>3. locked = r <=> k = "promote" /\ isEdit
    BY <1>10 DEF CommitProposal, At, ProposalInv, CheckedInv, PublishesEdit
  <2>4. /\ proposal'.status = Changed(k, proposal).status
        /\ proposal'.eval = IF IsEval(k) THEN Changed(k, proposal).eval ELSE proposal.eval
    BY <1>10, <2>2 DEF CommitProposal
  <2>5. CASE k = "promote"
    <3>1. promotions = {} /\ proposal.eval = "pass" /\ version = 1
      BY <1>3, <2>2, <2>5 DEF Permitted
    <3>2. proposal'.status = "promoted" /\ proposal'.eval = "pass"
      BY <1>2, <2>4, <2>5, <3>1 DEF Changed, IsEval, Proposal, Status
    <3>3. promotions' = {r}
      BY <1>10, <2>5, <3>1 DEF CommitProposal
    <3>4. isEdit => task[r].version = version
      BY <1>3, <1>10, <2>1, <2>5 DEF CommitProposal, At, PublishesEdit
    <3>5. version' = IF isEdit THEN 2 ELSE 1
      BY <1>2, <1>10, <2>3, <2>5, <3>1, <3>4 DEF CommitProposal
    <3> QED
      BY <1>1, <1>7, <2>1, <3>2, <3>3, <3>5 DEF AloneInv
  <2>6. CASE k # "promote"
    <3>1. promotions = {} /\ proposal.status \notin Final
      BY <1>3, <2>2, <2>6 DEF Permitted, Kind, Final
    <3>2. UNCHANGED <<version, promotions>>
      BY <1>10, <2>3, <2>6 DEF CommitProposal
    <3>3. /\ proposal'.status # "promoted"
          /\ proposal'.status = "approved" => proposal'.eval = "pass"
      BY <1>2, <1>3, <2>2, <2>4, <2>6, <3>1
         DEF Changed, IsEval, Kind, Final, Permitted, Proposal, Status
    <3> QED
      BY <1>1, <1>3, <1>7, <2>1, <3>1, <3>2, <3>3 DEF AloneInv
  <2> QED
    BY <2>5, <2>6
<1> QED
  BY <1>6, <1>8, <1>9, <1>10 DEF Handle

-----------------------------------------------------------------------------
\* The log does not move under a handler.
LEMMA LogUntouched ==
  ASSUME ProposalInv, UNCHANGED <<rows, entry, clock, badWrites>>,
         ~contested' => ~contested
  PROVE  (DatedInv /\ RowsInv /\ ChainInv)'
<1>1. DatedInv /\ RowsInv /\ ChainInv
  BY DEF ProposalInv
<1>2. (DatedInv /\ RowsInv)'
  BY <1>1 DEF DatedInv, RowsInv
<1>3. ChainInv'
  BY <1>1 DEF ChainInv, verify_chain, LatestHash, Hashed, Before
<1> QED
  BY <1>2, <1>3

\* The proposal does not move under a step of the log, which can only take its
\* request out of flight.
LEMMA ProposalUntouched ==
  ASSUME ProposalInv, NEW r \in ApiRequests, Audit(r)
  PROVE  (CheckedInv /\ ReviewInv /\ AloneInv)'
<1>1. /\ task[r].pc = "answered" /\ UNCHANGED state
      /\ \A q \in ApiRequests \ {r} : entry'[q] = entry[q]
  BY AuditOwnEntry
<1>2. CheckedInv' /\ ReviewInv'
  BY <1>1 DEF state, ProposalInv, CheckedInv, ReviewInv, Working, PublishesEdit
<1>3. InFlight(r) /\ \A q \in ApiRequests : InFlight(q)' => InFlight(q)
  <2>1. InFlight(r)
    BY <1>1 DEF Audit, Stamp, ResolvePrevHash, CommitRow, InFlight, Audited
  <2>2. ASSUME NEW q \in ApiRequests \ {r}, InFlight(q)' PROVE InFlight(q)
    BY <1>1, <2>2 DEF state, InFlight, Audited
  <2> QED
    BY <2>1, <2>2
<1>4. AloneInv'
  BY <1>1, <1>3 DEF state, ProposalInv, AloneInv, Working, PublishesEdit
<1> QED
  BY <1>2, <1>4

LEMMA DatedStep ==
  ASSUME ProposalInv, NEW r \in ApiRequests, Audit(r)
  PROVE  DatedInv'
<1>1. /\ entry \in [ApiRequests -> Entry] /\ rows \subseteq Row /\ clock \in Nat
      /\ DatedInv
  BY DEF ProposalInv, ProposalTypeOK, AuditTypeOK, Entry
<1>2. \A q \in ApiRequests \ {r} : entry'[q] = entry[q]
  BY AuditOwnEntry
<1>3. \A q \in ApiRequests : entry[q].created_at \in Nat
  BY <1>1 DEF Entry
<1>4. \A q \in rows : q.created_at \in Nat
  BY <1>1 DEF Row
<1>5. CASE Stamp(r)
  <2>1. clock' = clock + 1 /\ rows' = rows /\ entry'[r].created_at = clock + 1
    BY <1>1, <1>5 DEF Stamp, Entry
  <2> QED
    BY <1>1, <1>2, <1>3, <1>4, <2>1 DEF DatedInv
<1>6. CASE ResolvePrevHash(r)
  <2>1. clock' = clock /\ rows' = rows /\ entry'[r].created_at = entry[r].created_at
    BY <1>1, <1>6 DEF ResolvePrevHash, Entry
  <2> QED
    BY <1>1, <1>2, <2>1 DEF DatedInv
<1>7. CASE CommitRow(r)
  <2>1. /\ clock' = clock /\ rows' \subseteq rows \cup {RowOf(r)}
        /\ entry'[r].created_at = 0
    BY <1>1, <1>7 DEF CommitRow, NoEntry
  <2>2. RowOf(r).created_at = entry[r].created_at
    BY DEF RowOf
  <2> QED
    BY <1>1, <1>2, <2>1, <2>2 DEF DatedInv
<1> QED
  BY <1>5, <1>6, <1>7 DEF Audit

LEMMA RowsStep ==
  ASSUME ProposalInv, NEW r \in ApiRequests, Audit(r)
  PROVE  RowsInv'
<1>1. /\ entry \in [ApiRequests -> Entry] /\ RowsInv
      /\ \A q \in ApiRequests \ {r} : entry'[q] = entry[q]
      /\ ~badWrites' => ~badWrites
  BY AuditOwnEntry DEF ProposalInv, ProposalTypeOK, AuditTypeOK, Entry
<1>2. CASE Stamp(r) \/ ResolvePrevHash(r)
  <2>1. rows' = rows /\ entry'[r].pc \in {"read", "commit"}
    BY <1>1, <1>2 DEF Stamp, ResolvePrevHash, Entry
  <2>2. \A q \in ApiRequests : entry'[q].pc \in {"written", "lost"} => entry'[q] = entry[q]
    BY <1>1, <2>1
  <2> QED
    BY <1>1, <2>1, <2>2 DEF RowsInv
<1>3. ASSUME rows' = rows \cup {RowOf(r)},
             entry' = [entry EXCEPT ![r] = [NoEntry EXCEPT !.pc = "written"]]
      PROVE  RowsInv'
  <2>1. RowOf(r).id = r /\ entry'[r].pc = "written"
    BY <1>1, <1>3 DEF RowOf, NoEntry
  <2> QED
    BY <1>1, <1>3, <2>1 DEF RowsInv
<1>4. ASSUME UNCHANGED rows, BadWrite,
             entry' = [entry EXCEPT ![r] = [NoEntry EXCEPT !.pc = "lost"]]
      PROVE  RowsInv'
  <2>1. badWrites' /\ entry'[r].pc = "lost"
    BY <1>1, <1>4 DEF BadWrite, NoEntry
  <2> QED
    BY <1>1, <1>4, <2>1 DEF RowsInv
<1> QED
  BY <1>2, <1>3, <1>4 DEF Audit, CommitRow

LEMMA ChainStep ==
  ASSUME ProposalInv, NEW r \in ApiRequests, Audit(r)
  PROVE  ChainInv'
<1>1. SUFFICES ASSUME ~contested', ~badWrites' PROVE ChainInv'
  BY DEF ChainInv
<1>2. /\ entry \in [ApiRequests -> Entry] /\ rows \subseteq Row /\ clock \in Nat
      /\ task[r].pc = "answered" /\ UNCHANGED state
      /\ \A q \in ApiRequests \ {r} : entry'[q] = entry[q]
      /\ ~contested /\ ~badWrites
  BY <1>1, AuditOwnEntry DEF ProposalInv, ProposalTypeOK, AuditTypeOK, Entry, state
<1>3. ChainInv!2
  BY <1>2 DEF ProposalInv, ChainInv
<1>4. \A q \in ApiRequests \ {r} : entry[q].pc \notin {"read", "commit"}
  <2>1. InFlight(r)
    BY <1>2 DEF Audit, Stamp, ResolvePrevHash, CommitRow, InFlight, Audited
  <2>2. \A q \in ApiRequests : entry[q].pc \in {"read", "commit"} => InFlight(q)
    BY DEF ProposalInv, CheckedInv, InFlight, Audited, NoEntry
  <2> QED
    BY <1>2, <2>1, <2>2 DEF ProposalInv, AloneInv
<1>5. CASE Stamp(r)
  <2>1. /\ clock' = clock + 1 /\ rows' = rows
        /\ entry'[r].created_at = clock + 1 /\ entry'[r].pc = "read"
    BY <1>2, <1>5 DEF Stamp, Entry
  <2>2. \A q \in rows : q.created_at < clock'
    BY <1>2, <2>1 DEF ProposalInv, DatedInv, Row
  <2>3. verify_chain'
    BY <1>3, <2>1 DEF verify_chain, LatestHash, Hashed, Before
  <2> QED
    BY <1>2, <1>3, <1>4, <2>1, <2>2, <2>3 DEF ChainInv
<1>6. CASE ResolvePrevHash(r)
  <2>1. /\ clock' = clock /\ rows' = rows
        /\ entry'[r].created_at = entry[r].created_at /\ entry'[r].pc = "commit"
        /\ entry'[r].hashed /\ entry'[r].prev_hash = LatestHash(rows)
    BY <1>1, <1>2, <1>6 DEF ResolvePrevHash, BadWrite, _resolve_prev_hash, Entry
  <2>2. verify_chain'
    <3>1. verify_chain /\ rows' = rows
      BY <1>3, <2>1
    <3> QED
      BY <3>1 DEF verify_chain, LatestHash, Hashed, Before
  <2>3. entry'[r].created_at = clock' /\ \A q \in rows' : q.created_at < clock'
    BY <1>3, <1>6, <2>1 DEF ResolvePrevHash
  <2>4. entry'[r].prev_hash = LatestHash(rows)'
    BY <2>1 DEF LatestHash, Hashed
  <2> QED
    BY <1>2, <1>3, <1>4, <2>1, <2>2, <2>3, <2>4 DEF ChainInv
<1>7. CASE CommitRow(r)
  <2>1. /\ rows' = rows \cup {RowOf(r)} /\ clock' = clock
        /\ entry'[r].pc = "written" /\ entry[r].pc = "commit"
    BY <1>1, <1>2, <1>7 DEF CommitRow, BadWrite, NoEntry
  <2>2. /\ RowOf(r).created_at = clock /\ RowOf(r).hashed
        /\ RowOf(r).prev_hash = LatestHash(rows)
        /\ \A q \in rows : q.created_at \in Nat /\ q.created_at < clock
    BY <1>2, <1>3, <2>1 DEF RowOf, Row
  <2>3. \A q \in rows : q.hashed /\
          q.prev_hash = LatestHash({p \in rows : p.created_at < q.created_at})
    BY <1>3 DEF verify_chain, Before
  <2>4. \A q \in rows' : q.hashed /\
          q.prev_hash = LatestHash({p \in rows' : p.created_at < q.created_at})
    <3> DEFINE x == RowOf(r)
               R1 == rows'
    <3>1. R1 = rows \cup {x}
      BY <2>1
    <3> HIDE DEF x, R1
    <3>2. x.created_at = clock /\ x.hashed /\ x.prev_hash = LatestHash(rows)
      BY <2>2 DEF x
    <3>3. {p \in R1 : p.created_at < x.created_at} = rows
      BY <1>2, <2>2, <3>1, <3>2
    <3>4. ASSUME NEW q \in rows
          PROVE  {p \in R1 : p.created_at < q.created_at}
                   = {p \in rows : p.created_at < q.created_at}
      BY <1>2, <2>2, <3>1, <3>2
    <3>5. ASSUME NEW q \in R1
          PROVE  q.hashed /\
                 q.prev_hash = LatestHash({p \in R1 : p.created_at < q.created_at})
      <4>1. CASE q = x
        BY <3>2, <3>3, <4>1
      <4>2. CASE q \in rows
        BY <2>3, <3>4, <4>2
      <4> QED
        BY <3>1, <4>1, <4>2
    <3> QED
      BY <3>5 DEF R1
  <2>5. verify_chain'
    BY <2>4 DEF verify_chain, Before, LatestHash, Hashed
  <2> QED
    BY <1>2, <1>4, <2>1, <2>4, <2>5 DEF ChainInv
<1> QED
  BY <1>5, <1>6, <1>7 DEF Audit

LEMMA ProposalInvariant == ProposalSpec => []ProposalInv
<1>1. ASSUME ProposalInv, [ProposalNext]_proposalVars PROVE ProposalInv'
  <2>1. ASSUME NEW r \in ApiRequests, Handle(r) PROVE ProposalInv'
    <3>1. ProposalTypeOK /\ ProposalTypeOK'
      BY <1>1, <2>1, HandleTyped DEF ProposalInv
    <3>2. (DatedInv /\ RowsInv /\ ChainInv)'
      BY <1>1, <2>1, <3>1, HandleOwnTask, LogUntouched
    <3> QED
      BY <1>1, <2>1, <3>1, <3>2, CheckedStep, ReviewStep, AloneStep DEF ProposalInv
  <2>2. ASSUME NEW r \in ApiRequests, Audit(r) PROVE ProposalInv'
    BY <1>1, <2>2, AuditOwnEntry, ProposalUntouched, DatedStep, RowsStep, ChainStep
       DEF ProposalInv
  <2>3. CASE UNCHANGED proposalVars
    <3>1. ProposalTypeOK' /\ UNCHANGED <<rows, entry, clock, badWrites, contested>>
      BY <1>1, <2>3
         DEF ProposalInv, ProposalTypeOK, AuditTypeOK, proposalVars, state, auditVars
    <3>2. (DatedInv /\ RowsInv /\ ChainInv)'
      BY <1>1, <3>1, LogUntouched
    <3>3. (CheckedInv /\ ReviewInv /\ AloneInv)'
      BY <1>1, <2>3
         DEF ProposalInv, CheckedInv, ReviewInv, AloneInv, Working, PublishesEdit,
             InFlight, Audited, proposalVars, state, auditVars
    <3> QED
      BY <3>1, <3>2, <3>3 DEF ProposalInv
  <2> QED
    BY <1>1, <2>1, <2>2, <2>3 DEF ProposalNext, Handle
<1> QED
  BY ProposalInvInit, <1>1, PTL DEF ProposalSpec

\* The proposal, its requests and the log have their types: in particular the
\* hash that a row continues is always that of a row, or none.
THEOREM ProposalTypeCorrect == ProposalSpec => []ProposalTypeOK
<1>1. ProposalInv => ProposalTypeOK
  BY DEF ProposalInv
<1> QED
  BY ProposalInvariant, <1>1, PTL

\* Whatever overlaps, a rule is only published by the promotion of a proposal that
\* was approved, and every approval was given on a passing evaluation.
THEOREM PublishedIsReviewed == ProposalSpec => []RulesAreReviewed
<1>1. ProposalInv => RulesAreReviewed
  BY DEF ProposalInv, ReviewInv, RulesAreReviewed
<1> QED
  BY ProposalInvariant, <1>1, PTL

\* Requests that do not overlap leave one rule for a promoted proposal, none for
\* another, and count the version of the base rule exactly.
THEOREM AloneIsExact == ProposalSpec => []UncontestedIsExact
<1>1. ProposalInv => UncontestedIsExact
  <2> SUFFICES ASSUME ProposalInv, ~contested PROVE UncontestedIsExact
    BY DEF UncontestedIsExact
  <2>1. AloneInv!2
    BY DEF ProposalInv, AloneInv
  <2>2. promotions = {} \/ \E r \in promotions : promotions = {r}
    BY <2>1
  <2>3. Cardinality({}) = 0 /\ \A r \in promotions : Cardinality({r}) = 1
    BY FS_EmptySet, FS_Singleton
  <2>4. Cardinality(promotions) = IF promotions = {} THEN 0 ELSE 1
    BY <2>2, <2>3
  <2> QED
    BY <2>1, <2>4 DEF UncontestedIsExact
<1> QED
  BY ProposalInvariant, <1>1, PTL

\* Without overlap and failing writes the audit log has a row for every answered
\* request, and verify_chain accepts it.
THEOREM AloneLogVerifies == ProposalSpec => []SequentialLogVerifies
<1>1. ProposalInv => SequentialLogVerifies
  BY DEF ProposalInv, ChainInv, RowsInv, SequentialLogVerifies, Audited
<1> QED
  BY ProposalInvariant, <1>1, PTL

=============================================================================
