--------------------------- MODULE AgentApprovals ---------------------------
(***************************************************************************)
(* One agent approval of services/api/app/api/v1/endpoints/approvals.py:   *)
(* an agent creates it, responders decide it.  A decision is a SELECT      *)
(* without a row lock, then one commit that writes the attributes the ORM  *)
(* saw change since the SELECT, a refresh and a best-effort notification.  *)
(* The steps of different requests interleave.  The notification that an   *)
(* approval is asked for is left out: nothing here depends on it.          *)
(***************************************************************************)
EXTENDS Naturals, Sequences

CONSTANTS
  Requests,  \* requests to decide, each by a user of its own
  Comments,
  Null

ASSUME ApprovalAssumption == Null \notin Comments \cup Requests

VARIABLES
  row,     \* the committed row
  pc,      \* the next step of a request
  want,    \* its new_status and comment
  seen,    \* the row its session has loaded
  answer,  \* its HTTP answer: a status is 200 with a row of that status
  notes,   \* ghost: statuses of the APPROVAL_DECISION events
  history  \* ghost: the requests whose decision was committed, oldest first

vars == <<row, pc, want, seen, answer, notes, history>>

Decided == {"approved", "denied"}

\* decide_approval accepts "expired", which nothing in the service sets.
Status == {"absent", "pending", "expired"} \cup Decided

Row == [status : Status, decided_by : Requests \cup {Null},
        comment : Comments \cup {Null}]
Wish == [status : Decided, comment : Comments \cup {Null}]
Step == {"select", "commit", "refresh", "notify", "done"}

NoRow == [status |-> "absent", decided_by |-> Null, comment |-> Null]

\* A request is answered exactly when it is over; a session that goes on has
\* loaded the row.
TypeOK ==
  /\ row \in Row
  /\ pc \in [Requests -> Step]
  /\ want \in [Requests -> Wish]
  /\ seen \in [Requests -> Row]
  /\ answer \in [Requests -> {"none", "404", "409", "lost"} \cup Decided]
  /\ notes \subseteq Decided
  /\ history \in Seq(Requests)
  /\ \A r \in Requests :
       /\ answer[r] = "none" <=> pc[r] # "done"
       /\ pc[r] \in {"commit", "refresh", "notify"} => seen[r].status # "absent"

Init ==
  /\ row = NoRow
  /\ pc = [r \in Requests |-> "select"]
  /\ want \in [Requests -> Wish]
  /\ seen = [r \in Requests |-> NoRow]
  /\ answer = [r \in Requests |-> "none"]
  /\ notes = {}
  /\ history = <<>>

Goto(r, step) == pc' = [pc EXCEPT ![r] = step] /\ UNCHANGED answer

Answer(r, a) ==
  /\ pc' = [pc EXCEPT ![r] = "done"]
  /\ answer' = [answer EXCEPT ![r] = a]

-----------------------------------------------------------------------------
\* create_approval
Create ==
  /\ row.status = "absent"
  /\ row' = [NoRow EXCEPT !.status = "pending"]
  /\ UNCHANGED <<pc, want, seen, answer, notes, history>>

\* Mutants: a decided approval is decided again; a pending one is refused.
OpenAlways(status) == TRUE
OpenNever(status)  == status = "expired"

IsOpen(status) == status \in {"pending", "expired"}

\* Loads the row; repeats the answer of the same decision, refuses the other.
Select(r) ==
  /\ pc[r] = "select"
  /\ seen' = [seen EXCEPT ![r] = row]
  /\ \/ row.status = "absent" /\ Answer(r, "404")
     \/ row.status = want[r].status /\ Answer(r, row.status)
     \/ /\ row.status \notin {"absent", want[r].status}
        /\ IF IsOpen(row.status) THEN Goto(r, "commit") ELSE Answer(r, "409")
  /\ UNCHANGED <<row, want, notes, history>>

\* Mutant: the comment of the decision is not written.
WrittenWithoutComment(r) ==
  [row EXCEPT !.status = want[r].status, !.decided_by = r]

\* The UPDATE names the attributes that differ from the loaded row; a comment
\* that is NULL in both is not among them.
Written(r) ==
  [status     |-> want[r].status,
   decided_by |-> r,
   comment    |-> IF want[r].comment = seen[r].comment
                  THEN row.comment
                  ELSE want[r].comment]

Commit(r) ==
  /\ pc[r] = "commit"
  /\ row' = Written(r)
  /\ history' = Append(history, r)
  /\ Goto(r, "refresh")
  /\ UNCHANGED <<want, seen, notes>>

Refresh(r) ==
  /\ pc[r] = "refresh"
  /\ seen' = [seen EXCEPT ![r] = row]
  /\ Goto(r, "notify")
  /\ UNCHANGED <<row, want, notes, history>>

\* _notify_realtime: a failed post is logged.
Notify(r) ==
  /\ pc[r] = "notify"
  /\ notes' \in {notes, notes \cup {seen[r].status}}
  /\ Answer(r, seen[r].status)
  /\ UNCHANGED <<row, want, seen, history>>

\* A database error or the end of the process.  A commit whose reply is lost may
\* have taken effect.
Fail(r) ==
  /\ pc[r] # "done"
  /\ \/ UNCHANGED <<row, history>>
     \/ pc[r] = "commit" /\ row' = Written(r) /\ history' = Append(history, r)
  /\ Answer(r, "lost")
  /\ UNCHANGED <<want, seen, notes>>

Next ==
  \/ Create
  \/ \E r \in Requests :
       Select(r) \/ Commit(r) \/ Refresh(r) \/ Notify(r) \/ Fail(r)

Spec == Init /\ [][Next]_vars

-----------------------------------------------------------------------------
Contenders == {r \in Requests : pc[r] = "commit"}

\* A decision is contested only by the requests that had loaded the row before
\* it: later ones cannot join, and when those are through the row is final.
DecisionSettles ==
  [][row.status \in Decided =>
       /\ Contenders' \subseteq Contenders
       /\ Contenders = {} => row' = row]_vars

\* A decision nobody contested is recorded whole, and every event and every
\* answer 200 tells of it.
UncontestedAgrees ==
  \A r \in Requests : history = <<r>> =>
    /\ row = [status |-> want[r].status, decided_by |-> r,
              comment |-> want[r].comment]
    /\ notes \subseteq {want[r].status}
    /\ \A s \in Requests : answer[s] \in Decided => answer[s] = want[r].status

\* A request is refused only when the opposite decision was committed.
RefusalIsJustified ==
  \A r \in Requests : answer[r] = "409" =>
    \E i \in DOMAIN history : want[history[i]].status # want[r].status

\* approvals.py: "trying to flip an approved row to denied (or vice versa) is a
\* 409".
FlipIs409 ==
  \A i, j \in DOMAIN history :
    want[history[i]].status = want[history[j]].status

=============================================================================
