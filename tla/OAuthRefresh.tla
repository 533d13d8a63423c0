---------------------------- MODULE OAuthRefresh -----------------------------
(***************************************************************************)
(* The OAuth credentials of connectors: the consent flow that stores them  *)
(* (services/api endpoints/oauth.py), edits of the row (connectors.py) and *)
(* the worker that refreshes them (workers/oauth_refresh.py), beside the   *)
(* reload of jobs that reads the same rows.                                *)
(*                                                                         *)
(* A sweep reads every row once; each due connector is then exchanged at   *)
(* the provider and its row overwritten from what the sweep read, so a     *)
(* consent or an edit in between is lost.  The scheduler lock keeps the    *)
(* worker to one replica: HuntScheduler has the same worker under it.      *)
(***************************************************************************)
EXTENDS ConnectorJobs, FiniteSets

CONSTANTS
  OAuthConnectors,  \* those that the consent flow can provision
  Alarm,            \* OAUTH_REFRESH_ALARM_THRESHOLD
  MaxTokens         \* bound on the refresh tokens issued for a connector

ASSUME OAuthAssumption ==
  OAuthConnectors \subseteq Connectors /\ Alarm \in Nat \ {0} /\ MaxTokens \in Nat

VARIABLES
  auth,      \* refresh token in auth_config, 0 for none, and expires_at
  health,    \* health_status
  failures,  \* oauth_refresh_failures, as far as it matters
  issued,    \* provider: refresh tokens issued
  live,      \* provider: refresh tokens it accepts
  todo,      \* due connectors the sweep has not come to
  copy,      \* the rows as the sweep read them
  asked,     \* the connector being exchanged, and the provider's answer
  spoiled    \* history: connectors whose credentials something interfered with

provider == <<issued, live>>
worker == <<todo, copy, asked>>
oauthVars == <<auth, health, failures, provider, worker, spoiled>>
ovars == <<vars, oauthVars>>

Token == 0 .. MaxTokens
Expiry == {"unset", "none", "fresh", "due"}
NoAuth == [token |-> 0, expiry |-> "unset"]
Health == {"configuring", "healthy", "unhealthy"}
Answer == {"none", "granted", "failed"}

NotAsked == [of |-> None, answer |-> "none", token |-> 0]
Copied(c) == [auth |-> auth[c], health |-> health[c], failures |-> failures[c]]
NoCopy == [auth |-> NoAuth, health |-> "configuring", failures |-> 0]

OTypeOK ==
  /\ auth \in [OAuthConnectors -> [token : Token, expiry : Expiry]]
  /\ health \in [OAuthConnectors -> Health]
  /\ failures \in [OAuthConnectors -> 0 .. Alarm]
  /\ issued \in [OAuthConnectors -> Token]
  /\ live \in [OAuthConnectors -> SUBSET Token]
  /\ todo \subseteq OAuthConnectors
  /\ copy \in [OAuthConnectors -> [auth : [token : Token, expiry : Expiry],
                                   health : Health, failures : 0 .. Alarm]]
  /\ asked \in [of : OAuthConnectors \cup {None}, answer : Answer, token : Token]
  /\ spoiled \subseteq OAuthConnectors

OInit ==
  /\ Init
  /\ auth = [c \in OAuthConnectors |-> NoAuth]
  /\ health = [c \in OAuthConnectors |-> "configuring"]
  /\ failures = [c \in OAuthConnectors |-> 0]
  /\ issued = [c \in OAuthConnectors |-> 0]
  /\ live = [c \in OAuthConnectors |-> {}]
  /\ todo = {} /\ asked = NotAsked
  /\ copy = [c \in OAuthConnectors |-> NoCopy]
  /\ spoiled = {}

\* The sweep holds a copy of the row that it may yet write back.
InHand(c) == c \in todo \/ asked.of = c

\* A write of the row while the sweep has it in hand is lost, or loses.
Overlaps(c) == IF InHand(c) THEN spoiled \cup {c} ELSE spoiled \ {c}

-----------------------------------------------------------------------------
(***************************************************************************)
(* The rows.                                                               *)
(***************************************************************************)
\* oauth_callback: a new row, enabled, or the credentials of a row replaced; the
\* failure counter stays.  The provider may give no refresh token or no lifetime,
\* and may end the grant before.
Consent(c) ==
  /\ writes < MaxWrites
  /\ writes' = writes + 1
  /\ IF rows[c] = None /\ auth[c] = NoAuth
     THEN \E s \in Signatures : rows' = [rows EXCEPT ![c] = s]
     ELSE UNCHANGED rows
  /\ \E e \in {"none", "fresh"} :
       \/ /\ issued[c] < MaxTokens
          /\ issued' = [issued EXCEPT ![c] = @ + 1]
          /\ \E old \in {live[c], {}} :
               live' = [live EXCEPT ![c] = old \cup {issued'[c]}]
          /\ auth' = [auth EXCEPT ![c] = [token |-> issued'[c], expiry |-> e]]
       \/ /\ auth' = [auth EXCEPT ![c] = [token |-> 0, expiry |-> e]]
          /\ UNCHANGED provider
  /\ health' = [health EXCEPT ![c] = "configuring"]
  /\ spoiled' = Overlaps(c)
  /\ UNCHANGED <<process, faults, failures, worker>>

\* update_connector with an auth_config: the operator types other credentials.
EditAuth(c) ==
  /\ writes < MaxWrites
  /\ writes' = writes + 1
  /\ rows[c] # None /\ auth[c].token # 0
  /\ auth' = [auth EXCEPT ![c] = [token |-> 0, expiry |-> "none"]]
  /\ spoiled' = Overlaps(c)
  /\ UNCHANGED <<rows, process, faults, health, failures, provider, worker>>

\* expires_at comes within the lead time.
Expires(c) ==
  /\ auth[c].expiry = "fresh"
  /\ auth' = [auth EXCEPT ![c].expiry = "due"]
  /\ UNCHANGED <<vars, health, failures, provider, worker, spoiled>>

\* The user or an administrator revokes the grant.
Revoke(c) ==
  /\ live[c] # {}
  /\ Fault
  /\ live' = [live EXCEPT ![c] = {}]
  /\ spoiled' = spoiled \cup {c}
  /\ UNCHANGED <<rows, process, writes, auth, health, failures, issued, worker>>

-----------------------------------------------------------------------------
(***************************************************************************)
(* The worker.                                                             *)
(***************************************************************************)
\* A refresh token without a known lifetime is due at once.
IsDue(c) == rows[c] # None /\ auth[c].token # 0 /\ auth[c].expiry # "fresh"

Due == {c \in OAuthConnectors : IsDue(c)}

\* _select_due_connectors of a sweep that finds work.
Sweep ==
  /\ todo = {} /\ asked = NotAsked /\ Due # {}
  /\ todo' = Due
  /\ copy' = [c \in OAuthConnectors |-> IF c \in Due THEN Copied(c) ELSE NoCopy]
  /\ UNCHANGED <<vars, auth, health, failures, provider, asked, spoiled>>

Ask(c, answer, token) ==
  /\ todo' = todo \ {c}
  /\ asked' = [of |-> c, answer |-> answer, token |-> token]

\* _refresh_one up to the provider's answer.  The provider accepts a live token
\* and rotates it or not; it refuses any other.  An exchange that fails on the
\* way, or whose answer is lost after a rotation, is a failure too.
Exchange(c) ==
  LET old == copy[c].auth.token
      rotated == issued[c] + 1
      Rotate == /\ rotated \in Token
                /\ issued' = [issued EXCEPT ![c] = rotated]
                /\ live' = [live EXCEPT ![c] = (@ \ {old}) \cup {rotated}]
  IN  /\ c \in todo /\ asked = NotAsked
      /\ \/ /\ old \in live[c]
            /\ \/ Rotate /\ Ask(c, "granted", rotated)
               \/ UNCHANGED provider /\ Ask(c, "granted", old)
            /\ UNCHANGED <<faults, spoiled>>
         \/ /\ old \notin live[c]
            /\ Ask(c, "failed", old)
            /\ UNCHANGED <<provider, faults, spoiled>>
         \/ /\ Fault
            /\ Ask(c, "failed", old)
            /\ UNCHANGED <<provider, spoiled>>
         \/ /\ Fault
            /\ old \in live[c] /\ Rotate
            /\ Ask(c, "failed", old)
            /\ spoiled' = spoiled \cup {c}
      /\ UNCHANGED <<rows, process, writes, auth, health, failures, copy>>

\* Mutant: the rotated refresh token is not taken over.
OldToken(c) == copy[c].auth.token
NewToken(c) == asked.token

\* The rest of a successful _refresh_one: the row as it was read, with the new
\* tokens; the status is the one that was read, unless it was the alarm.
SaveTokens(c) ==
  /\ asked.of = c /\ asked.answer = "granted"
  /\ \E e \in {"none", "fresh"} :
       auth' = [auth EXCEPT ![c] = [token |-> NewToken(c), expiry |-> e]]
  /\ failures' = [failures EXCEPT ![c] = 0]
  /\ health' = [health EXCEPT ![c] =
       IF copy[c].health = "unhealthy" THEN "healthy" ELSE copy[c].health]
  /\ asked' = NotAsked
  /\ copy' = [copy EXCEPT ![c] = NoCopy]
  /\ UNCHANGED <<vars, provider, todo, spoiled>>

\* Mutant: the counter is not written.
NotCounted(c) == failures[c]
Counted(c) == IF copy[c].failures < Alarm THEN copy[c].failures + 1 ELSE Alarm

\* _record_failure, which trips the alarm at the threshold.
_record_failure(c) ==
  /\ asked.of = c /\ asked.answer = "failed"
  /\ failures' = [failures EXCEPT ![c] = Counted(c)]
  /\ health' = [health EXCEPT ![c] = IF Counted(c) >= Alarm THEN "unhealthy" ELSE @]
  /\ asked' = NotAsked
  /\ copy' = [copy EXCEPT ![c] = NoCopy]
  /\ UNCHANGED <<vars, auth, provider, todo, spoiled>>

\* An exception ends the sweep, or a restart or a lost lease the worker: an
\* answer that is not saved yet is gone.
SweepEnds ==
  /\ todo # {} \/ asked # NotAsked
  /\ Fault
  /\ todo' = {} /\ asked' = NotAsked
  /\ copy' = [c \in OAuthConnectors |-> NoCopy]
  /\ spoiled' = IF asked.answer = "granted" THEN spoiled \cup {asked.of} ELSE spoiled
  /\ UNCHANGED <<rows, process, writes, auth, health, failures, provider>>

Refresh ==
  Sweep \/ \E c \in OAuthConnectors : Exchange(c) \/ SaveTokens(c) \/ _record_failure(c)

ONext ==
  \/ Next /\ UNCHANGED oauthVars
  \/ \E c \in OAuthConnectors : Consent(c) \/ EditAuth(c) \/ Expires(c) \/ Revoke(c)
  \/ Refresh
  \/ SweepEnds

\* As in ConnectorJobs, and run_forever goes on sweeping.
OSpec ==
  /\ OInit /\ [][ONext]_ovars
  /\ WF_ovars(Start /\ UNCHANGED oauthVars)
  /\ WF_ovars(Fetch /\ UNCHANGED oauthVars)
  /\ WF_ovars(Reload /\ UNCHANGED oauthVars)
  /\ WF_ovars(Refresh)

-----------------------------------------------------------------------------
\* The rotation never loses the grant by itself: unless a consent or an edit fell
\* into a sweep, an answer was lost or the grant was revoked, the stored refresh
\* token is one the provider accepts, or the worker is about to store one that is.
TokenKept ==
  \A c \in OAuthConnectors :
    auth[c].token # 0 /\ c \notin spoiled =>
      IF asked.of = c /\ asked.answer = "granted"
      THEN asked.token \in live[c]
      ELSE auth[c].token \in live[c]

\* A connector whose token is about to expire is refreshed or turns unhealthy,
\* unless it is disabled or given other credentials: lost answers, aborted sweeps
\* and a revoked grant do not keep it in between.
DueIsSettled ==
  \A c \in OAuthConnectors :
    IsDue(c) /\ auth[c].expiry = "due" ~>
      auth[c].expiry # "due" \/ health[c] = "unhealthy" \/ rows[c] = None
=============================================================================
