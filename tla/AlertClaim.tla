----------------------------- MODULE AlertClaim -----------------------------
(***************************************************************************)
(* The statements with which requests assign one alert: claim_alert of     *)
(* services/api/app/services/alert_queue.py, behind the claim endpoint, and *)
(* update_alert of services/api/app/api/v1/endpoints/alerts.py with an     *)
(* assignee.  The statements of different requests interleave; Postgres    *)
(* runs at READ COMMITTED, so a statement sees the last committed row and  *)
(* an UPDATE waits for the row lock of an open transaction, then evaluates *)
(* its WHERE on the row it finds.                                          *)
(***************************************************************************)
CONSTANTS
  Users,
  Claims,   \* claim requests
  Patches,  \* update requests that assign the alert
  UserOf,   \* the user each request gives the alert to
  Nobody,   \* assigned_to_id IS NULL
  Gone,     \* the row was deleted
  NoRequest

Requests == Claims \cup Patches

ASSUME ClaimAssumption ==
  /\ Claims \cap Patches = {}
  /\ UserOf \in [Requests -> Users]
  /\ Nobody # Gone
  /\ {Nobody, Gone} \cap Users = {}
  /\ NoRequest \notin Requests

VARIABLES
  row,     \* committed assigned_to_id
  lock,    \* the request whose transaction holds the row lock
  pc,      \* the next statement of a request
  result   \* the HTTP answer

vars == <<row, lock, pc, result>>

Statement == {"select", "update", "commit", "reread", "refresh", "done"}
Result    == {"none", "ok", "conflict", "notfound", "error"}

\* A request has an answer exactly when it is over.
TypeOK ==
  /\ row \in Users \cup {Nobody, Gone}
  /\ lock \in Requests \cup {NoRequest}
  /\ pc \in [Requests -> Statement]
  /\ result \in [Requests -> Result]
  /\ \A r \in Requests : result[r] = "none" <=> pc[r] # "done"

Init ==
  /\ row = Nobody
  /\ lock = NoRequest
  /\ pc = [r \in Requests |-> "select"]
  /\ result = [r \in Requests |-> "none"]

Goto(r, statement) ==
  /\ pc' = [pc EXCEPT ![r] = statement]
  /\ UNCHANGED result

Answer(r, a) ==
  /\ pc' = [pc EXCEPT ![r] = "done"]
  /\ result' = [result EXCEPT ![r] = a]

-----------------------------------------------------------------------------
\* SELECT ... WHERE id and tenant: an update stops only when there is no row, a
\* claim also when somebody has the alert.
Select(r) ==
  /\ pc[r] = "select"
  /\ \/ row = Gone /\ Answer(r, "notfound")
     \/ row # Gone /\ (row = Nobody \/ r \in Patches) /\ Goto(r, "update")
     \/ r \in Claims /\ row = UserOf[r] /\ Answer(r, "ok")
     \/ r \in Claims /\ row \in Users \ {UserOf[r]} /\ Answer(r, "conflict")
  /\ UNCHANGED <<row, lock>>

\* Mutant: the UPDATE of a claim without assigned_to_id IS NULL.
MatchesById(r) == row # Gone

\* The WHERE of the UPDATE.
Matches(r) == IF r \in Claims THEN row = Nobody ELSE row # Gone

\* UPDATE: takes the row lock when it finds a row.  A claim that finds none
\* reads the owner again; an update commits nothing and fails to refresh.
Update(r) ==
  /\ pc[r] = "update"
  /\ lock = NoRequest
  /\ \/ Matches(r) /\ lock' = r /\ Goto(r, "commit")
     \/ ~Matches(r) /\ UNCHANGED lock
        /\ IF r \in Claims THEN Goto(r, "reread") ELSE Answer(r, "error")
  /\ UNCHANGED row

Commit(r) ==
  /\ pc[r] = "commit"
  /\ row' = UserOf[r]
  /\ lock' = NoRequest
  /\ Goto(r, "refresh")

\* Mutant: the loser is told that the alert is its own.
ToldOwn(r) == row # Gone

\* Somebody else's claim of the same user may have won.
IsOwn(r) == row = UserOf[r]

\* The loser of the race reads who has the alert.
Reread(r) ==
  /\ pc[r] = "reread"
  /\ \/ row \in {Nobody, Gone} /\ Answer(r, "notfound")
     \/ IsOwn(r) /\ Goto(r, "refresh")
     \/ row \in Users /\ ~IsOwn(r) /\ Answer(r, "conflict")
  /\ UNCHANGED <<row, lock>>

Refresh(r) ==
  /\ pc[r] = "refresh"
  /\ Answer(r, IF row = Gone THEN "error" ELSE "ok")
  /\ UNCHANGED <<row, lock>>

-----------------------------------------------------------------------------
\* Mutant: the transaction of a request that ends early stays open.
StillLocked(r) == lock

\* get_tenant_db rolls back, or the connection goes down with the process.
Unlocked(r) == IF lock = r THEN NoRequest ELSE lock

\* A request ends without its answer.  A COMMIT whose reply is lost may have
\* taken effect.
Abort(r) ==
  /\ pc[r] # "done"
  /\ row' \in {row} \cup (IF pc[r] = "commit" THEN {UserOf[r]} ELSE {})
  /\ lock' = Unlocked(r)
  /\ Answer(r, "error")

\* Alerts are deleted with their tenant (a cascade of the foreign key).
Delete ==
  /\ lock = NoRequest
  /\ row # Gone
  /\ row' = Gone
  /\ UNCHANGED <<lock, pc, result>>

Execute(r) ==
  Select(r) \/ Update(r) \/ Commit(r) \/ Reread(r) \/ Refresh(r)

Next == (\E r \in Requests : Execute(r) \/ Abort(r)) \/ Delete

Spec == Init /\ [][Next]_vars

\* The event loop and the database serve every request; nothing makes a request
\* abort or the alert go.
FairSpec == Spec /\ \A r \in Requests : WF_vars(Execute(r))

-----------------------------------------------------------------------------
\* A request has its outcome when its transaction is over, before the answer.
Outcome == [r \in Requests |-> IF pc[r] = "refresh" THEN "ok" ELSE result[r]]

Ownership == INSTANCE AlertOwnership WITH owner <- row, answer <- Outcome

\* Every interleaving of the statements is an atomic compare-and-set per claim:
\* who is told 200 had the alert when its transaction ended, who is told 409
\* met another owner, and 404 means that the alert is gone.
AtomicClaim == Ownership!Spec

\* The row lock belongs to a request that is about to commit: no path leaves the
\* lock behind and none commits without it.
LockHeld ==
  \A r \in Requests : lock = r <=> pc[r] = "commit"

\* alerts.py: "two analysts racing for the same alert never both win", unless an
\* update request gave the alert away in between.
OneWinner ==
  (\A p \in Patches : pc[p] = "select") =>
    \A c, d \in Claims :
      result[c] = "ok" /\ result[d] = "ok" => UserOf[c] = UserOf[d]

\* Every request is answered: a request that waits for the row lock gets it,
\* also when the request that held it ended early.
EveryRequestAnswered ==
  \A r \in Requests : <>(pc[r] = "done")

=============================================================================
