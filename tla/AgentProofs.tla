----------------------------- MODULE AgentProofs -----------------------------
(***************************************************************************)
(* Proofs about what agents do: their approvals, for any requests and      *)
(* comments, and their playbooks, for any sequences of steps.              *)
(*                                                                         *)
(* The invariant of AgentApprovals follows the committed decisions: before *)
(* the first one nothing tells of a decision, and while there is one       *)
(* everything agrees with it.  That of PlaybookEngine follows a run: what  *)
(* it has not visited is untouched, and what it tries is tried for the     *)
(* first time.                                                             *)
(***************************************************************************)
EXTENDS AgentApprovals, PlaybookEngine, SequenceTheorems, TLAPS

-----------------------------------------------------------------------------
(***************************************************************************)
(* AgentApprovals.                                                         *)
(***************************************************************************)

\* The session of a request that will commit has loaded an undecided row.
OpenSeen == \A r \in Requests : pc[r] = "commit" => seen[r].comment = Null

NothingYet ==
  history = <<>> =>
    /\ row.comment = Null
    /\ notes = {}
    /\ \A r \in Requests :
         answer[r] \notin Decided /\ pc[r] \notin {"refresh", "notify"}

\* The row shows a decision when one was committed, and only then.
RowDecided ==
  /\ row.status \in Decided <=> history # <<>>
  /\ history # <<>> =>
       \E i \in DOMAIN history : want[history[i]].status = row.status

OneAgrees ==
  \A r \in Requests : history = <<r>> =>
    /\ row = [status |-> want[r].status, decided_by |-> r,
              comment |-> want[r].comment]
    /\ notes \subseteq {want[r].status}
    /\ \A s \in Requests :
         /\ answer[s] \in Decided => answer[s] = want[r].status
         /\ pc[s] = "notify" => seen[s].status = want[r].status

\* What a request is about to notify is a decision.
NotifySeen == \A r \in Requests : pc[r] = "notify" => seen[r].status \in Decided

Agrees == OpenSeen /\ NotifySeen /\ NothingYet /\ RowDecided /\ OneAgrees

ApprovalInv == TypeOK /\ Agrees /\ RefusalIsJustified

\* Only an empty sequence becomes a singleton by an Append.
LEMMA AppendOne ==
  ASSUME NEW S, NEW h \in Seq(S), NEW x \in S, NEW y \in S,
         Append(h, x) = <<y>>
  PROVE  h = <<>> /\ x = y
<1>1. Len(<<y>>) = 1 /\ <<y>>[1] = y
  OBVIOUS
<1>2. Len(Append(h, x)) = Len(h) + 1 /\ Append(h, x)[Len(h) + 1] = x
  BY AppendProperties, Zenon
<1>3. Len(h) \in Nat
  BY LenProperties, Zenon
<1>4. Len(h) + 1 = 1 /\ <<y>>[Len(h) + 1] = x
  BY <1>1, <1>2, Zenon
<1>5. Len(h) = 0
  BY <1>3, <1>4
<1>6. h = <<>>
  BY <1>5, EmptySeq
<1> QED
  BY <1>1, <1>4, <1>5, <1>6

LEMMA InvInit == Init => ApprovalInv
  BY DEF Init, ApprovalInv, TypeOK, Row, Wish, Step, Status, Decided, NoRow,
         Agrees, OpenSeen, NotifySeen, NothingYet, RowDecided, OneAgrees,
         RefusalIsJustified

LEMMA CreateStep == ApprovalInv /\ Create => ApprovalInv'
  BY DEF Create, ApprovalInv, TypeOK, Row, Status, Decided, NoRow, Agrees,
         OpenSeen, NotifySeen, NothingYet, RowDecided, OneAgrees,
         RefusalIsJustified

LEMMA SelectStep ==
  ASSUME NEW r \in Requests, ApprovalInv, Select(r)
  PROVE  ApprovalInv'
<1> USE DEF ApprovalInv, TypeOK, Row, Wish, Step, Status, Decided, Goto, Answer
<1>0. UNCHANGED <<row, want, notes, history>> /\ seen' = [seen EXCEPT ![r] = row]
  BY DEF Select
<1>1. CASE row.status = "absent" /\ Answer(r, "404")
  BY <1>0, <1>1 DEF Agrees, OpenSeen, NotifySeen, NothingYet, RowDecided,
                    OneAgrees, RefusalIsJustified
<1>2. CASE row.status = want[r].status /\ Answer(r, row.status)
  <2>1. row.status \in Decided /\ history # <<>>
    BY <1>2 DEF Agrees, RowDecided
  <2>2. TypeOK'
    BY <1>0, <1>2, <2>1
  <2>3. (OpenSeen /\ NotifySeen /\ RowDecided /\ NothingYet)'
    BY <1>0, <1>2, <2>1
       DEF Agrees, OpenSeen, NotifySeen, RowDecided, NothingYet
  <2>4. OneAgrees'
    BY <1>0, <1>2, <2>1 DEF Agrees, OneAgrees
  <2>5. RefusalIsJustified'
    BY <1>0, <1>2, <2>1 DEF RefusalIsJustified
  <2> QED
    BY <2>2, <2>3, <2>4, <2>5 DEF Agrees
<1>3. CASE /\ row.status \notin {"absent", want[r].status}
           /\ IsOpen(row.status) /\ Goto(r, "commit")
  <2>1. history = <<>> /\ row.comment = Null
    BY <1>3 DEF Agrees, RowDecided, NothingYet, IsOpen
  <2>2. TypeOK'
    <3>1. seen' \in [Requests -> Row] /\ pc' \in [Requests -> Step]
      BY <1>0, <1>3
    <3>2. \A q \in Requests : answer'[q] = "none" <=> pc'[q] # "done"
      BY <1>0, <1>3 DEF Select
    <3>3. \A q \in Requests :
            pc'[q] \in {"commit", "refresh", "notify"} => seen'[q].status # "absent"
      BY <1>0, <1>3
    <3> QED
      BY <1>0, <1>3, <3>1, <3>2, <3>3
  <2>3. (OpenSeen /\ NotifySeen /\ RowDecided /\ NothingYet /\ OneAgrees)'
    BY <1>0, <1>3, <2>1
       DEF Agrees, OpenSeen, NotifySeen, RowDecided, NothingYet, OneAgrees
  <2>4. RefusalIsJustified'
    BY <1>0, <1>3 DEF RefusalIsJustified
  <2> QED
    BY <2>2, <2>3, <2>4 DEF Agrees
<1>4. CASE /\ row.status \notin {"absent", want[r].status}
           /\ ~IsOpen(row.status) /\ Answer(r, "409")
  <2>1. row.status \in Decided
    BY <1>4 DEF IsOpen
  <2>2. \E i \in DOMAIN history : want[history[i]].status # want[r].status
    BY <1>4, <2>1 DEF Agrees, RowDecided
  <2>3. TypeOK'
    BY <1>0, <1>4
  <2>4. (OpenSeen /\ NotifySeen /\ RowDecided /\ NothingYet /\ OneAgrees)'
    BY <1>0, <1>4
       DEF Agrees, OpenSeen, NotifySeen, RowDecided, NothingYet, OneAgrees
  <2>5. RefusalIsJustified'
    BY <1>0, <1>4, <2>2 DEF RefusalIsJustified
  <2> QED
    BY <2>3, <2>4, <2>5 DEF Agrees
<1> QED
  BY <1>1, <1>2, <1>3, <1>4 DEF Select

\* A decision is committed, and the request goes on to its refresh or ends
\* without an answer.
LEMMA DecideStep ==
  ASSUME NEW r \in Requests, ApprovalInv, pc[r] = "commit",
         row' = Written(r), history' = Append(history, r),
         UNCHANGED <<want, seen, notes>>,
         Goto(r, "refresh") \/ Answer(r, "lost")
  PROVE  ApprovalInv'
<1> USE DEF ApprovalInv, Decided
<1>1. row' = [status |-> want[r].status, decided_by |-> r, comment |-> row'.comment]
      /\ row' \in Row
  BY DEF Written, TypeOK, Row, Wish, Status
<1>2. TypeOK'
  <2>1. history' \in Seq(Requests)
    BY DEF TypeOK
  <2> QED
    BY <1>1, <2>1 DEF TypeOK, Step, Goto, Answer
<1>3. /\ \A s \in Requests : s # r => pc'[s] = pc[s] /\ answer'[s] = answer[s]
      /\ pc'[r] \in {"refresh", "done"} /\ answer'[r] \in {"none", "lost"}
  BY DEF Goto, Answer, TypeOK
<1>4. Len(history') = Len(history) + 1 /\ history'[Len(history')] = r
      /\ Len(history) \in Nat /\ history' # <<>>
      /\ \A i \in DOMAIN history : i \in DOMAIN history' /\ history'[i] = history[i]
  BY DEF TypeOK
<1>5. want[r].status \in {"approved", "denied"}
  BY DEF TypeOK, Wish
<1>6. (OpenSeen /\ NotifySeen /\ NothingYet)'
  BY <1>3, <1>4 DEF Agrees, OpenSeen, NotifySeen, NothingYet
<1>7. RowDecided'
  <2>1. Len(history') \in DOMAIN history'
    BY <1>4, <1>2 DEF TypeOK
  <2> QED
    BY <1>1, <1>4, <1>5, <2>1 DEF RowDecided
<1>8. OneAgrees'
  <2> SUFFICES ASSUME NEW q \in Requests, history' = <<q>>
               PROVE  /\ row' = [status |-> want[q].status, decided_by |-> q,
                                 comment |-> want[q].comment]
                      /\ notes \subseteq {want[q].status}
                      /\ \A s \in Requests :
                           /\ answer'[s] \in Decided => answer'[s] = want[q].status
                           /\ pc'[s] = "notify" => seen[s].status = want[q].status
    BY DEF OneAgrees
  <2>1. history = <<>> /\ q = r
    <3>1. history \in Seq(Requests) /\ Append(history, r) = <<q>>
      BY DEF TypeOK
    <3> QED
      BY <3>1, AppendOne
  <2>2. row.comment = Null /\ seen[r].comment = Null
    BY <2>1 DEF Agrees, NothingYet, OpenSeen
  <2>3. row' = [status |-> want[r].status, decided_by |-> r,
                comment |-> want[r].comment]
    BY <2>2 DEF Written
  <2>4. notes = {} /\ \A s \in Requests :
                       answer[s] \notin Decided /\ pc[s] # "notify"
    BY <2>1 DEF Agrees, NothingYet
  <2> QED
    BY <1>3, <2>1, <2>3, <2>4
<1>9. RefusalIsJustified'
  BY <1>3, <1>4 DEF RefusalIsJustified
<1> QED
  BY <1>2, <1>6, <1>7, <1>8, <1>9 DEF Agrees

LEMMA RefreshStep ==
  ASSUME NEW r \in Requests, ApprovalInv, Refresh(r)
  PROVE  ApprovalInv'
<1> USE DEF ApprovalInv, Refresh, Decided
<1>1. row.status \in Decided /\ history # <<>>
  BY DEF Agrees, RowDecided, NothingYet
<1>2. TypeOK'
  BY <1>1 DEF TypeOK, Goto, Step
<1>3. (OpenSeen /\ NotifySeen /\ NothingYet /\ RowDecided)'
  BY <1>1 DEF TypeOK, Goto, Agrees, OpenSeen, NotifySeen, NothingYet, RowDecided
<1>4. OneAgrees'
  BY DEF TypeOK, Goto, Agrees, OneAgrees
<1>5. RefusalIsJustified'
  BY DEF TypeOK, Goto, RefusalIsJustified
<1> QED
  BY <1>2, <1>3, <1>4, <1>5 DEF Agrees

LEMMA NotifyStep ==
  ASSUME NEW r \in Requests, ApprovalInv, Notify(r)
  PROVE  ApprovalInv'
<1> USE DEF ApprovalInv, Notify, Decided
<1>1. seen[r].status \in Decided /\ history # <<>>
  BY DEF Agrees, NotifySeen, NothingYet
<1>2. TypeOK'
  BY <1>1 DEF TypeOK, Answer, Step
<1>3. (OpenSeen /\ NotifySeen /\ NothingYet /\ RowDecided)'
  BY <1>1 DEF TypeOK, Answer, Agrees, OpenSeen, NotifySeen, NothingYet, RowDecided
<1>4. OneAgrees'
  BY DEF TypeOK, Answer, Agrees, OneAgrees
<1>5. RefusalIsJustified'
  BY <1>1 DEF TypeOK, Answer, RefusalIsJustified
<1> QED
  BY <1>2, <1>3, <1>4, <1>5 DEF Agrees

LEMMA LostStep ==
  ASSUME NEW r \in Requests, ApprovalInv, Fail(r)
  PROVE  ApprovalInv'
<1>1. CASE UNCHANGED <<row, history>>
  BY <1>1 DEF Fail, ApprovalInv, TypeOK, Step, Decided, Answer, Agrees, OpenSeen,
              NotifySeen, NothingYet, RowDecided, OneAgrees, RefusalIsJustified
<1>2. CASE pc[r] = "commit" /\ row' = Written(r) /\ history' = Append(history, r)
  BY <1>2, DecideStep DEF Fail
<1> QED
  BY <1>1, <1>2 DEF Fail

LEMMA Invariant == Spec => []ApprovalInv
<1>1. ASSUME ApprovalInv, [Next]_vars PROVE ApprovalInv'
  <2>1. ASSUME NEW r \in Requests, Commit(r) PROVE ApprovalInv'
    BY <1>1, <2>1, DecideStep DEF Commit
  <2>2. CASE UNCHANGED vars
    BY <1>1, <2>2
       DEF vars, ApprovalInv, TypeOK, Agrees, OpenSeen, NotifySeen, NothingYet,
           RowDecided, OneAgrees, RefusalIsJustified
  <2> QED
    BY <1>1, <2>1, <2>2, CreateStep, SelectStep, RefreshStep, NotifyStep, LostStep
       DEF Next
<1> QED
  BY InvInit, <1>1, PTL DEF Spec

\* The variables have their types, and requests that are over have an answer.
THEOREM TypeCorrect == Spec => []TypeOK
<1>1. ApprovalInv => TypeOK
  BY DEF ApprovalInv
<1> QED
  BY Invariant, <1>1, PTL

\* A single committed decision is recorded whole, and every event and answer
\* agrees with it.
THEOREM SingleDecisionAgrees == Spec => []UncontestedAgrees
<1>1. ApprovalInv => UncontestedAgrees
  BY DEF ApprovalInv, Agrees, OneAgrees, UncontestedAgrees
<1> QED
  BY Invariant, <1>1, PTL

\* A 409 is answered only when the opposite decision was committed.
THEOREM NoUnjustifiedRefusal == Spec => []RefusalIsJustified
<1>1. ApprovalInv => RefusalIsJustified
  BY DEF ApprovalInv
<1> QED
  BY Invariant, <1>1, PTL

\* Nobody joins the requests that contest a decision once it is committed, and
\* the row is final when they are through.
THEOREM DecisionBecomesFinal == Spec => DecisionSettles
<1> DEFINE Settles == row.status \in Decided =>
             /\ Contenders' \subseteq Contenders
             /\ Contenders = {} => row' = row
<1>1. ApprovalInv /\ [Next]_vars => [Settles]_vars
  <2> SUFFICES ASSUME TypeOK, Next, row.status \in Decided
               PROVE  /\ \A q \in Requests : pc'[q] = "commit" => pc[q] = "commit"
                      /\ (\A q \in Requests : pc[q] # "commit") => row' = row
    BY DEF ApprovalInv, Contenders
  <2> USE DEF TypeOK, Decided, Goto, Answer
  <2>1. CASE Create
    BY <2>1 DEF Create
  <2>2. ASSUME NEW r \in Requests,
               Select(r) \/ Commit(r) \/ Refresh(r) \/ Notify(r) \/ Fail(r)
        PROVE  /\ \A q \in Requests : pc'[q] = "commit" => pc[q] = "commit"
               /\ (\A q \in Requests : pc[q] # "commit") => row' = row
    BY <2>2 DEF Select, IsOpen, Commit, Refresh, Notify, Fail
  <2> QED
    BY <2>1, <2>2 DEF Next
<1>2. Spec => [][Next]_vars
  BY DEF Spec
<1> QED
  BY Invariant, <1>1, <1>2, PTL DEF DecisionSettles

-----------------------------------------------------------------------------
(***************************************************************************)
(* PlaybookEngine.                                                         *)
(***************************************************************************)
\* Steps that the run has not come to have no result and no call.
UnvisitedUntouched ==
  \A i \in Indices \ visited : calls[i] = 0 /\ results[i] = "none"

\* A step that is tried was entered once, and every attempt but the last one
\* under way was a call, if it is called at all.
FirstTry ==
  stage = "try" =>
    /\ at \in visited
    /\ playbook[at].kind # "condition"
    /\ results[at] = "none"
    /\ attempt \in 1 .. playbook[at].retry_max + 1
    /\ calls[at] <= IF IsCalled THEN attempt - 1 ELSE 0

PlaybookInv ==
  /\ PlaybookTypeOK
  /\ playbook \in Playbooks
  /\ UnvisitedUntouched
  /\ FirstTry
  /\ CallsAreBounded
  /\ AbortIsFinal

\* The bound on the calls of a step is a number.
LEMMA MostCallsType ==
  ASSUME playbook \in Seq(PlaybookStep), NEW i \in Indices
  PROVE  MostCalls(i) \in Nat
<1>1. playbook[i] \in PlaybookStep
  BY DEF Indices
<1> QED
  BY <1>1 DEF MostCalls, PlaybookStep

\* A branch leads to a step or past the last one.
LEMMA BranchInRange ==
  ASSUME PlaybookTypeOK, playbook \in Playbooks, at \in Indices
  PROVE  /\ Current \in PlaybookStep
         /\ at + 1 \in 1 .. Len(playbook) + 1
         /\ \A to \in {Current.next_true, Current.next_false} :
              Branch(to) => at' \in 1 .. Len(playbook) + 1
<1>1. Current \in PlaybookStep /\ at \in 1 .. Len(playbook) /\ Len(playbook) \in Nat
  BY DEF PlaybookTypeOK, Current, Indices
<1>2. {Current.next_true, Current.next_false} \subseteq 0 .. Len(playbook)
  BY PlaybooksAssumption DEF Current, Indices
<1> QED
  BY <1>1, <1>2 DEF Branch

\* Nothing has failed for good while the engine goes on.
LEMMA GoesOn ==
  ASSUME PlaybookInv, stage # "over", NEW i \in Indices, results[i] = "failed"
  PROVE  playbook[i].on_failure # "abort"
  BY DEF PlaybookInv, AbortIsFinal

LEMMA PlaybookInvInit == PlaybookInit => PlaybookInv
<1> SUFFICES ASSUME PlaybookInit PROVE PlaybookInv
  OBVIOUS
<1>1. playbook \in Seq(PlaybookStep) /\ Len(playbook) \in Nat
  BY PlaybooksAssumption DEF PlaybookInit
<1>2. PlaybookTypeOK
  <2>1. raw \in BOOLEAN
    BY Zenon DEF PlaybookInit
  <2>2. at \in 1 .. Len(playbook) + 1 /\ updates \in 0 .. MaxUpdates
    BY <1>1, BoundsAssumption DEF PlaybookInit, Idle
  <2> QED
    BY <1>1, <2>1, <2>2 DEF PlaybookInit, Idle, PlaybookTypeOK, StepStatus
<1>3. CallsAreBounded
  BY <1>1, MostCallsType DEF PlaybookInit, Idle, CallsAreBounded
<1> QED
  BY <1>2, <1>3
     DEF PlaybookInit, Idle, PlaybookInv, UnvisitedUntouched, FirstTry, AbortIsFinal

LEMMA RunPlaybookStep == PlaybookInv /\ RunPlaybook => PlaybookInv'
  BY DEF RunPlaybook, PlaybookInv, PlaybookTypeOK, Indices, UnvisitedUntouched,
         FirstTry, IsCalled, Current, CallsAreBounded, MostCalls, AbortIsFinal

LEMMA UpdatePlaybookStep == PlaybookInv /\ UpdatePlaybook => PlaybookInv'
  BY BoundsAssumption
     DEF UpdatePlaybook, engine, PlaybookInv, PlaybookTypeOK, Indices,
         UnvisitedUntouched, FirstTry, IsCalled, Current, CallsAreBounded,
         MostCalls, AbortIsFinal

LEMMA RestartStep == PlaybookInv /\ Restart => PlaybookInv'
<1> SUFFICES ASSUME PlaybookInv, Restart PROVE PlaybookInv'
  OBVIOUS
<1>1. PlaybookTypeOK'
  <2>1. raw' \in BOOLEAN
    BY Zenon DEF Restart
  <2>2. at' \in 1 .. Len(playbook) + 1 /\ updates' \in 0 .. MaxUpdates
    BY BoundsAssumption DEF Restart, PlaybookInv, PlaybookTypeOK
  <2> QED
    BY <2>1, <2>2 DEF Restart, PlaybookInv, PlaybookTypeOK, Indices, StepStatus
<1>2. CallsAreBounded'
  <2>1. \A i \in Indices : MostCalls(i) \in Nat
    BY MostCallsType DEF PlaybookInv, PlaybookTypeOK
  <2>2. \A i \in Indices : calls'[i] = 0 /\ 0 <= MostCalls(i)
    BY <2>1 DEF Restart
  <2> QED
    BY <2>2 DEF Restart, CallsAreBounded, MostCalls, Indices
<1> QED
  BY <1>1, <1>2
     DEF Restart, PlaybookInv, Indices, UnvisitedUntouched, FirstTry, AbortIsFinal

LEMMA EndStep == PlaybookInv /\ (Complete \/ AbortCycle) => PlaybookInv'
  BY DEF Complete, AbortCycle, Over, PlaybookInv, PlaybookTypeOK, Indices,
         UnvisitedUntouched, FirstTry, IsCalled, Current, CallsAreBounded,
         MostCalls, AbortIsFinal

LEMMA VisitStep == PlaybookInv /\ Visit => PlaybookInv'
<1> SUFFICES ASSUME PlaybookInv, Visit PROVE PlaybookInv'
  OBVIOUS
<1>1. at \in Indices /\ at \notin visited /\ calls[at] = 0 /\ results[at] = "none"
  BY DEF Visit, IsVisited, PlaybookInv, UnvisitedUntouched
<1>2. UNCHANGED <<playbook, raw, polled, dry_run, calls, updates>>
      /\ visited' = visited \cup {at} /\ stage = "visit"
  BY DEF Visit
<1>3. Current \in PlaybookStep /\ \A i \in Indices : MostCalls(i)' = MostCalls(i)
  BY <1>1, <1>2, BranchInRange DEF PlaybookInv, MostCalls
<1>4. ASSUME NEW status \in {"skipped", "success"},
             NEW to \in {Current.next_true, Current.next_false},
             Note(status), Branch(to), UNCHANGED <<stage, attempt>>
      PROVE  PlaybookInv'
  <2>1. at' \in 1 .. Len(playbook) + 1
    BY <1>1, <1>4, BranchInRange DEF PlaybookInv
  <2>2. PlaybookTypeOK'
    BY <1>1, <1>2, <1>4, <2>1 DEF PlaybookInv, PlaybookTypeOK, Note, Indices, StepStatus
  <2>3. (UnvisitedUntouched /\ FirstTry /\ AbortIsFinal)'
    BY <1>1, <1>2, <1>4
       DEF PlaybookInv, PlaybookTypeOK, Note, Indices, UnvisitedUntouched, FirstTry,
           AbortIsFinal
  <2> QED
    BY <1>2, <1>3, <2>2, <2>3 DEF PlaybookInv, CallsAreBounded, Indices
<1>5. ASSUME Current.kind # "condition", stage' = "try", attempt' = 1,
             UNCHANGED <<at, results>>
      PROVE  PlaybookInv'
  <2>1. PlaybookTypeOK'
    BY <1>1, <1>2, <1>5 DEF PlaybookInv, PlaybookTypeOK, Indices
  <2>2. (UnvisitedUntouched /\ AbortIsFinal)'
    BY <1>1, <1>2, <1>5
       DEF PlaybookInv, Indices, UnvisitedUntouched, AbortIsFinal
  <2>3. FirstTry'
    BY <1>1, <1>2, <1>3, <1>5 DEF FirstTry, IsCalled, Current, PlaybookStep
  <2> QED
    BY <1>2, <1>3, <2>1, <2>2, <2>3 DEF PlaybookInv, CallsAreBounded, Indices
<1> QED
  BY <1>4, <1>5 DEF Visit

\* What a call adds to the count of the step that is tried.
LEMMA CallCounted ==
  ASSUME PlaybookInv, stage = "try", CountCall, UNCHANGED <<playbook, dry_run>>
  PROVE  /\ calls' \in [Indices -> Nat]
         /\ \A i \in Indices \ {at} : calls'[i] = calls[i]
         /\ calls'[at] <= IF IsCalled THEN attempt ELSE 0
         /\ CallsAreBounded'
<1>1. /\ at \in Indices /\ Current \in PlaybookStep
      /\ attempt \in 1 .. Current.retry_max + 1
      /\ calls[at] <= IF IsCalled THEN attempt - 1 ELSE 0
      /\ calls[at] \in Nat
  BY DEF PlaybookInv, PlaybookTypeOK, FirstTry, Current, Indices
<1>2. MostCalls(at) = IF IsCalled THEN Current.retry_max + 1 ELSE 0
  BY DEF MostCalls, IsCalled, Current, PlaybookInv, PlaybookTypeOK
<1>3. calls' \in [Indices -> Nat] /\ \A i \in Indices \ {at} : calls'[i] = calls[i]
  BY <1>1 DEF CountCall, PlaybookInv, PlaybookTypeOK
<1>4. calls'[at] <= IF IsCalled THEN attempt ELSE 0
  <2>1. CASE IsCalled /\ calls'[at] = calls[at] + 1
    BY <1>1, <2>1 DEF PlaybookStep
  <2>2. CASE calls' = calls
    BY <1>1, <2>2 DEF PlaybookStep
  <2> QED
    BY <1>1, <2>1, <2>2 DEF CountCall, PlaybookInv, PlaybookTypeOK
<1>5. \A i \in Indices : calls'[i] <= MostCalls(i)
  BY <1>1, <1>2, <1>3, <1>4 DEF PlaybookInv, CallsAreBounded, PlaybookStep
<1> QED
  BY <1>3, <1>4, <1>5 DEF CallsAreBounded, MostCalls, Indices

LEMMA SucceedStep == PlaybookInv /\ Succeed => PlaybookInv'
<1> SUFFICES ASSUME PlaybookInv, Succeed PROVE PlaybookInv'
  OBVIOUS
<1>1. at \in Indices /\ at \in visited
  BY DEF Succeed, PlaybookInv, PlaybookTypeOK, FirstTry
<1>2. at' \in 1 .. Len(playbook) + 1
  BY <1>1, BranchInRange DEF Succeed, PlaybookInv
<1>3. calls' \in [Indices -> Nat] /\ CallsAreBounded'
      /\ \A i \in Indices \ {at} : calls'[i] = calls[i]
  BY CallCounted DEF Succeed
<1>4. PlaybookTypeOK'
  BY <1>1, <1>2, <1>3
     DEF Succeed, PlaybookInv, PlaybookTypeOK, Note, Indices, StepStatus
<1>5. (UnvisitedUntouched /\ FirstTry /\ AbortIsFinal)'
  BY <1>1, <1>3
     DEF Succeed, PlaybookInv, PlaybookTypeOK, Note, Indices, UnvisitedUntouched,
         FirstTry, AbortIsFinal
<1> QED
  BY <1>3, <1>4, <1>5 DEF Succeed, PlaybookInv

LEMMA RetryStep == PlaybookInv /\ Retry => PlaybookInv'
<1> SUFFICES ASSUME PlaybookInv, Retry PROVE PlaybookInv'
  OBVIOUS
<1>1. at \in Indices /\ Current \in PlaybookStep /\ attempt \in Nat
  BY DEF Retry, PlaybookInv, PlaybookTypeOK, FirstTry, Current, Indices
<1>2. /\ calls' \in [Indices -> Nat] /\ CallsAreBounded'
      /\ \A i \in Indices \ {at} : calls'[i] = calls[i]
      /\ calls'[at] <= attempt
  BY CallCounted DEF Retry
<1>3. PlaybookTypeOK'
  BY <1>1, <1>2 DEF Retry, PlaybookInv, PlaybookTypeOK, Indices
<1>4. (UnvisitedUntouched /\ AbortIsFinal)'
  BY <1>2 DEF Retry, PlaybookInv, FirstTry, Indices, UnvisitedUntouched, AbortIsFinal
<1>5. FirstTry'
  BY <1>1, <1>2
     DEF Retry, PlaybookInv, FirstTry, MayRetry, IsCalled, Current, PlaybookStep
<1> QED
  BY <1>2, <1>3, <1>4, <1>5 DEF Retry, PlaybookInv

LEMMA FailedStep == PlaybookInv /\ FailStep => PlaybookInv'
<1> SUFFICES ASSUME PlaybookInv, FailStep PROVE PlaybookInv'
  OBVIOUS
<1>1. at \in Indices /\ at \in visited
  BY DEF FailStep, PlaybookInv, PlaybookTypeOK, FirstTry
<1>2. /\ calls' \in [Indices -> Nat] /\ CallsAreBounded'
      /\ \A i \in Indices \ {at} : calls'[i] = calls[i]
  BY CallCounted DEF FailStep
<1>3. at' \in 1 .. Len(playbook) + 1
  BY <1>1, BranchInRange DEF FailStep, PlaybookInv, PlaybookTypeOK
<1>4. PlaybookTypeOK'
  BY <1>1, <1>2, <1>3
     DEF FailStep, Over, PlaybookInv, PlaybookTypeOK, Note, Indices, StepStatus
<1>5. (UnvisitedUntouched /\ FirstTry)'
  BY <1>1, <1>2
     DEF FailStep, Over, PlaybookInv, PlaybookTypeOK, Note, Indices,
         UnvisitedUntouched, FirstTry
<1>6. AbortIsFinal'
  <2> SUFFICES ASSUME NEW i \in Indices, results'[i] = "failed",
                      playbook[i].on_failure = "abort"
               PROVE  polled' = "failed" /\ stage' = "over"
    BY DEF AbortIsFinal, FailStep, Indices
  <2>1. i = at
    BY GoesOn DEF FailStep, Note, PlaybookInv, PlaybookTypeOK
  <2> QED
    BY <2>1 DEF FailStep, Aborts, Current, Over
<1> QED
  BY <1>2, <1>4, <1>5, <1>6 DEF FailStep, PlaybookInv

LEMMA PlaybookInvariant == PlaybookSpec => []PlaybookInv
<1>1. PlaybookInv /\ [PlaybookNext]_playbookVars => PlaybookInv'
  <2>1. PlaybookInv /\ UNCHANGED playbookVars => PlaybookInv'
    BY DEF playbookVars, engine, PlaybookInv, PlaybookTypeOK, Indices,
           UnvisitedUntouched, FirstTry, IsCalled, Current, CallsAreBounded,
           MostCalls, AbortIsFinal
  <2> QED
    BY <2>1, RunPlaybookStep, UpdatePlaybookStep, RestartStep, EndStep, VisitStep,
       SucceedStep, RetryStep, FailedStep DEF PlaybookNext, Engine
<1> QED
  BY PlaybookInvInit, <1>1, PTL DEF PlaybookSpec

\* The engine stays within the playbook, and every step has one of its statuses.
THEOREM PlaybookTypeCorrect == PlaybookSpec => []PlaybookTypeOK
<1>1. PlaybookInv => PlaybookTypeOK
  BY DEF PlaybookInv
<1> QED
  BY PlaybookInvariant, <1>1, PTL

\* Wherever the branches of a playbook lead, a run calls the handler of a step at
\* most once and retry_max times more, and never in a dry run.
THEOREM RetriesBoundCalls == PlaybookSpec => []CallsAreBounded
<1>1. PlaybookInv => CallsAreBounded
  BY DEF PlaybookInv
<1> QED
  BY PlaybookInvariant, <1>1, PTL

\* After a step that aborts has failed the run is over and reported as failed.
THEOREM AbortEndsRun == PlaybookSpec => []AbortIsFinal
<1>1. PlaybookInv => AbortIsFinal
  BY DEF PlaybookInv
<1> QED
  BY PlaybookInvariant, <1>1, PTL

=============================================================================
