--------------------------- MODULE AlertOwnership ---------------------------
(***************************************************************************)
(* What claiming an alert promises (services/api/app/api/v1/endpoints/     *)
(* alerts.py, claim_alert_endpoint): a claim is one atomic compare-and-set *)
(* of the owner, whatever the statements of the requests do in between.    *)
(* An answer "error" tells the caller nothing about the owner.             *)
(***************************************************************************)
CONSTANTS
  Users,
  Claims,   \* claim requests
  Patches,  \* update requests that assign the alert
  UserOf,   \* the user each request gives the alert to
  Nobody,   \* the alert is unassigned
  Gone      \* the alert was deleted

Requests == Claims \cup Patches

VARIABLES owner, answer

Answer == {"none", "ok", "conflict", "notfound", "error"}

Init ==
  /\ owner = Nobody
  /\ answer = [r \in Requests |-> "none"]

Reply(r, a) ==
  /\ answer[r] = "none"
  /\ answer' = [answer EXCEPT ![r] = a]

\* A claim takes an alert that is unassigned or its user's already; an update
\* takes any.
MayTake(r) ==
  IF r \in Claims THEN owner \in {Nobody, UserOf[r]} ELSE owner # Gone

Grant(r) ==
  /\ MayTake(r)
  /\ owner' = UserOf[r]
  /\ Reply(r, "ok") \/ Reply(r, "error")

\* 409
Decline(r) ==
  /\ r \in Claims
  /\ owner \in Users \ {UserOf[r]}
  /\ Reply(r, "conflict")
  /\ UNCHANGED owner

\* 404
Missing(r) ==
  /\ owner = Gone
  /\ Reply(r, "notfound")
  /\ UNCHANGED owner

\* The answer is lost, before or after the alert was given.
Fail(r) ==
  /\ answer[r] \in {"none", "ok"}
  /\ answer' = [answer EXCEPT ![r] = "error"]
  /\ UNCHANGED owner

Remove == owner # Gone /\ owner' = Gone /\ UNCHANGED answer

Next ==
  \/ \E r \in Requests : Grant(r) \/ Decline(r) \/ Missing(r) \/ Fail(r)
  \/ Remove

Spec == Init /\ [][Next]_<<owner, answer>>

=============================================================================
