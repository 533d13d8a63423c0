------------------------ MODULE ConnectorJobsProofs -------------------------
(***************************************************************************)
(* Proofs about ConnectorJobs and OAuthRefresh, for any connectors,        *)
(* signatures, tokens and bounds: their types, that the cache of           *)
(* signatures never parts from the jobs, and that the worker never loses   *)
(* a grant by itself.                                                      *)
(***************************************************************************)
EXTENDS OAuthRefresh, TLAPS

JobRecord == [signature : Signatures \cup {None},
              nextRun : {"never", "paused", "due"}]

LEMMA JobIsRecord ==
  ASSUME NEW s \in Signatures \cup {None}
  PROVE  JobOf(s) \in JobRecord
BY DEF JobOf, Job, NoJob, FirstRun, JobRecord

LEMMA NoJobIsRecord == NoJob \in JobRecord
BY DEF NoJob, JobRecord

LEMMA TypeInit == Init => TypeOK
BY BoundsAssumption, NoJobIsRecord DEF Init, TypeOK, Empty, Table, JobRecord

LEMMA TypeStep == TypeOK /\ [Next]_vars => TypeOK'
<1> SUFFICES ASSUME TypeOK, [Next]_vars PROVE TypeOK'
  OBVIOUS
<1> USE BoundsAssumption DEF TypeOK, Table, process
<1>1. ASSUME NEW c \in Connectors, NEW s \in Signatures \cup {None}, ApiWrite(c, s)
      PROVE  TypeOK'
  BY <1>1 DEF ApiWrite
<1>2. CASE Start
  BY <1>2 DEF Start
<1>3. CASE Fetch
  BY <1>3 DEF Fetch
<1>4. CASE FetchFails
  BY <1>4 DEF FetchFails, Fault
<1>5. CASE Reload
  <2>1. jobs' \in [Connectors -> JobRecord]
    BY <1>5, JobIsRecord DEF Reload, JobRecord
  <2>2. known' \in Table /\ fetched' \in Table
    BY <1>5 DEF Reload, Remember, Empty
  <2>3. QED
    BY <1>5, <2>1, <2>2 DEF Reload, JobRecord
<1>6. CASE Stop
  BY <1>6, NoJobIsRecord DEF Stop, Fault, Empty, JobRecord
<1>7. CASE UNCHANGED vars
  BY <1>7 DEF vars
<1>8. QED
  BY <1>1, <1>2, <1>3, <1>4, <1>5, <1>6, <1>7 DEF Next

\* The type invariant: every job is that of a signature, in one of
\* APScheduler's states.
THEOREM TypeCorrect == Spec => []TypeOK
BY TypeInit, TypeStep, PTL DEF Spec

LEMMA CacheInit == Init => CacheMatchesJobs
BY DEF Init, CacheMatchesJobs, Empty, JobOf

LEMMA CacheStep == TypeOK /\ CacheMatchesJobs /\ [Next]_vars => CacheMatchesJobs'
<1> SUFFICES ASSUME TypeOK, CacheMatchesJobs, [Next]_vars,
                    NEW c \in Connectors
             PROVE  jobs'[c] = JobOf(known'[c])
  BY DEF CacheMatchesJobs
<1>0. jobs[c] = JobOf(known[c])
  BY DEF CacheMatchesJobs
<1>1. CASE UNCHANGED <<known, jobs>>
  BY <1>0, <1>1
<1>2. CASE Reload
  <2>1. known'[c] = fetched[c]
    BY <1>2 DEF Reload, Remember
  <2>2. CASE fetched[c] = known[c]
    BY <1>0, <1>2, <2>1, <2>2 DEF Reload
  <2>3. CASE fetched[c] # known[c]
    BY <1>2, <2>1, <2>3 DEF Reload
  <2>4. QED
    BY <2>2, <2>3
<1>3. CASE Stop
  BY <1>3 DEF Stop, Empty, JobOf
<1>4. QED
  BY <1>1, <1>2, <1>3
     DEF Next, ApiWrite, Start, Fetch, FetchFails, process, vars

\* The reload skips a connector on the cache alone, and is right to: at all
\* times, through failed SELECTs, stops and rows that change meanwhile, the
\* cache tells which jobs the scheduler has.
THEOREM CacheIsExact == Spec => []CacheMatchesJobs
BY CacheInit, CacheStep, TypeCorrect, PTL DEF Spec

-----------------------------------------------------------------------------
(***************************************************************************)
(* The refresh of OAuth credentials.  Until something interferes with its  *)
(* credentials, a connector the sweep has in hand is as the sweep read it, *)
(* and what the provider granted is what it accepts.                       *)
(***************************************************************************)
Row == [token : Token, expiry : Expiry]
RowCopy == [auth : Row, health : Health, failures : 0 .. Alarm]

LEMMA Records ==
  /\ NoAuth \in Row /\ NoCopy \in RowCopy
  /\ NotAsked \in [of : OAuthConnectors \cup {None}, answer : Answer, token : Token]
  /\ NotAsked.answer = "none" /\ NoAuth.token = 0
  /\ 0 \in Token /\ Alarm \in Nat
BY OAuthAssumption
   DEF NoAuth, Row, NoCopy, RowCopy, NotAsked, Token, Expiry, Health, Answer

\* A step of the credentials, the worker or the provider leaves the jobs alone
\* and keeps the types of the reload.
LEMMA OthersTyped ==
  ASSUME TypeOK, OTypeOK, ONext, ~(Next /\ UNCHANGED oauthVars)
  PROVE  TypeOK' /\ UNCHANGED process
<1>1. UNCHANGED process
  BY DEF ONext, Consent, EditAuth, Expires, Revoke, Refresh, Sweep, Exchange,
         SaveTokens, _record_failure, SweepEnds, vars, process
<1>2. writes' \in 0 .. MaxWrites /\ faults' \in 0 .. MaxFaults
  BY BoundsAssumption
     DEF TypeOK, ONext, Consent, EditAuth, Expires, Revoke, Refresh, Sweep, Exchange,
         SaveTokens, _record_failure, SweepEnds, vars, Fault
<1>3. rows' \in Table
  <2>1. ASSUME NEW c \in OAuthConnectors, Consent(c) PROVE rows' \in Table
    BY <2>1, OAuthAssumption DEF Consent, TypeOK, Table
  <2>2. CASE UNCHANGED rows
    BY <2>2 DEF TypeOK
  <2> QED
    BY <2>1, <2>2
       DEF ONext, EditAuth, Expires, Revoke, Refresh, Sweep, Exchange,
           SaveTokens, _record_failure, SweepEnds, vars
<1> QED
  BY <1>1, <1>2, <1>3 DEF process, TypeOK

LEMMA RowsTyped == TypeOK /\ OTypeOK /\ [ONext]_ovars => TypeOK' /\ [Next \/ UNCHANGED process]_vars
<1> SUFFICES ASSUME TypeOK, OTypeOK, [ONext]_ovars
             PROVE  TypeOK' /\ [Next \/ UNCHANGED process]_vars
  OBVIOUS
<1>1. CASE Next /\ UNCHANGED oauthVars
  BY <1>1, TypeStep
<1>2. CASE ONext /\ ~(Next /\ UNCHANGED oauthVars)
  BY <1>2, OthersTyped
<1>3. CASE UNCHANGED ovars
  BY <1>3, TypeStep DEF ovars
<1> QED
  BY <1>1, <1>2, <1>3

LEMMA OTypeInit == OInit => OTypeOK
BY Records DEF OInit, OTypeOK, Row, RowCopy, Health

LEMMA AskTyped ==
  ASSUME OTypeOK, NEW c \in OAuthConnectors, NEW answer \in Answer,
         NEW token \in Token, Ask(c, answer, token)
  PROVE  /\ todo' \subseteq OAuthConnectors
         /\ asked' \in [of : OAuthConnectors \cup {None}, answer : Answer, token : Token]
BY DEF OTypeOK, Ask

\* Without interference a token that was granted is one the provider accepts; a
\* due connector's copy has the token of its row; and a stored token is accepted
\* or about to be replaced by one that is.
Granted(c) == asked.of = c /\ asked.answer = "granted"

GrantInv ==
  /\ asked.answer = "granted" => asked.of \in OAuthConnectors
  /\ asked # NotAsked => asked.of \notin todo
  /\ \A c \in OAuthConnectors \ spoiled :
       /\ Granted(c) => asked.token \in live[c]
       /\ c \in todo => copy[c].auth.token = auth[c].token
       /\ auth[c].token # 0 /\ ~Granted(c) => auth[c].token \in live[c]

LEMMA OTypeStep == OTypeOK /\ GrantInv /\ [ONext]_ovars => OTypeOK'
<1> SUFFICES ASSUME OTypeOK, GrantInv, [ONext]_ovars PROVE OTypeOK'
  OBVIOUS
<1> USE DEF OTypeOK, Row, RowCopy, provider, worker
<1>1. ASSUME NEW c \in OAuthConnectors, Consent(c) PROVE OTypeOK'
  <2>1. /\ auth' \in [OAuthConnectors -> Row]
        /\ issued' \in [OAuthConnectors -> Token]
        /\ live' \in [OAuthConnectors -> SUBSET Token]
    <3>1. PICK e \in {"none", "fresh"} :
            \/ /\ issued[c] < MaxTokens
               /\ issued' = [issued EXCEPT ![c] = @ + 1]
               /\ \E old \in {live[c], {}} :
                    live' = [live EXCEPT ![c] = old \cup {issued'[c]}]
               /\ auth' = [auth EXCEPT ![c] = [token |-> issued'[c], expiry |-> e]]
            \/ /\ auth' = [auth EXCEPT ![c] = [token |-> 0, expiry |-> e]]
               /\ UNCHANGED <<issued, live>>
      BY <1>1 DEF Consent
    <3>2. e \in Expiry
      BY DEF Expiry
    <3>3. CASE UNCHANGED <<issued, live>> /\ auth' = [auth EXCEPT ![c] = [token |-> 0, expiry |-> e]]
      BY <3>2, <3>3, Records
    <3>4. ASSUME issued[c] < MaxTokens,
                 issued' = [issued EXCEPT ![c] = @ + 1],
                 NEW old \in {live[c], {}},
                 live' = [live EXCEPT ![c] = old \cup {issued'[c]}],
                 auth' = [auth EXCEPT ![c] = [token |-> issued'[c], expiry |-> e]]
          PROVE  <2>1!1 /\ <2>1!2 /\ <2>1!3
      <4>1. issued'[c] = issued[c] + 1 /\ issued'[c] \in Token
        BY <3>4, OAuthAssumption DEF Token
      <4> QED
        BY <3>2, <3>4, <4>1
    <3> QED
      BY <3>1, <3>3, <3>4
  <2> QED
    BY <1>1, <2>1 DEF Consent, Health, Overlaps
<1>2. ASSUME NEW c \in OAuthConnectors, EditAuth(c) PROVE OTypeOK'
  BY <1>2, Records DEF EditAuth, Overlaps, Expiry
<1>3. ASSUME NEW c \in OAuthConnectors, Expires(c) PROVE OTypeOK'
  <2>1. PICK e : e = [auth[c] EXCEPT !.expiry = "due"]
    OBVIOUS
  <2>2. e \in Row
    BY <2>1 DEF Expiry
  <2>3. auth' = [auth EXCEPT ![c] = e]
    BY <1>3, <2>1 DEF Expires
  <2> QED
    BY <1>3, <2>2, <2>3 DEF Expires
<1>4. ASSUME NEW c \in OAuthConnectors, Revoke(c) PROVE OTypeOK'
  BY <1>4 DEF Revoke
<1>5. CASE Sweep
  <2>1. \A c \in OAuthConnectors : Copied(c) \in RowCopy
    BY DEF Copied
  <2>2. copy' \in [OAuthConnectors -> RowCopy]
    BY <1>5, <2>1, Records DEF Sweep
  <2> QED
    BY <1>5, <2>2 DEF Sweep, Due
<1>6. ASSUME NEW c \in OAuthConnectors, Exchange(c) PROVE OTypeOK'
  <2> DEFINE old == copy[c].auth.token
             rotated == issued[c] + 1
             Rotate == /\ rotated \in Token
                       /\ issued' = [issued EXCEPT ![c] = rotated]
                       /\ live' = [live EXCEPT ![c] = (@ \ {old}) \cup {rotated}]
  <2>1. old \in Token /\ "granted" \in Answer /\ "failed" \in Answer
    BY DEF Answer
  <2>2. /\ Rotate \/ UNCHANGED provider
        /\ \/ Rotate /\ Ask(c, "granted", rotated)
           \/ Ask(c, "granted", old)
           \/ Ask(c, "failed", old)
        /\ spoiled' = spoiled \/ spoiled' = spoiled \cup {c}
        /\ UNCHANGED <<auth, health, failures, copy>>
    BY <1>6 DEF Exchange
  <2> HIDE DEF old, rotated
  <2>3. issued' \in [OAuthConnectors -> Token] /\ live' \in [OAuthConnectors -> SUBSET Token]
    <3>1. CASE Rotate
      BY <3>1
    <3>2. CASE UNCHANGED provider
      BY <3>2
    <3> QED
      BY <2>2, <3>1, <3>2
  <2>4. /\ todo' \subseteq OAuthConnectors
        /\ asked' \in [of : OAuthConnectors \cup {None}, answer : Answer, token : Token]
    <3>1. \E answer \in Answer, token \in Token : Ask(c, answer, token)
      BY <2>1, <2>2
    <3> QED
      BY <3>1, AskTyped
  <2> QED
    BY <2>2, <2>3, <2>4
<1>7. ASSUME NEW c \in OAuthConnectors, SaveTokens(c) PROVE OTypeOK'
  <2>1. asked' = NotAsked /\ copy' = [copy EXCEPT ![c] = NoCopy]
    BY <1>7 DEF SaveTokens
  <2>2. auth' \in [OAuthConnectors -> Row]
    BY <1>7 DEF SaveTokens, NewToken, Expiry
  <2>3. health' \in [OAuthConnectors -> Health]
    <3>1. copy[c].health \in Health /\ "healthy" \in Health
      BY DEF Health
    <3> QED
      BY <1>7, <3>1 DEF SaveTokens
  <2>4. failures' \in [OAuthConnectors -> 0 .. Alarm]
    BY <1>7, Records DEF SaveTokens
  <2> QED
    BY <1>7, <2>1, <2>2, <2>3, <2>4, Records DEF SaveTokens
<1>8. ASSUME NEW c \in OAuthConnectors, _record_failure(c) PROVE OTypeOK'
  <2>1. asked' = NotAsked /\ copy' = [copy EXCEPT ![c] = NoCopy]
    BY <1>8 DEF _record_failure
  <2>2. Counted(c) \in 0 .. Alarm
    BY Records DEF Counted
  <2>3. health' \in [OAuthConnectors -> Health]
    BY <1>8 DEF _record_failure, Health
  <2> QED
    BY <1>8, <2>1, <2>2, <2>3, Records DEF _record_failure
<1>9. CASE SweepEnds
  BY <1>9, Records DEF SweepEnds, GrantInv
<1>10. CASE UNCHANGED oauthVars
  BY <1>10 DEF oauthVars
<1> QED
  BY <1>1, <1>2, <1>3, <1>4, <1>5, <1>6, <1>7, <1>8, <1>9, <1>10
     DEF ONext, Refresh, ovars

LEMMA GrantStep == OTypeOK /\ GrantInv /\ [ONext]_ovars => GrantInv'
<1> SUFFICES ASSUME OTypeOK, GrantInv, [ONext]_ovars PROVE GrantInv'
  OBVIOUS
<1> USE DEF OTypeOK, Row, RowCopy, provider, worker, GrantInv, Granted
<1>1. ASSUME NEW c \in OAuthConnectors, Consent(c) PROVE GrantInv'
  <2>1. /\ auth'[c].token = 0 \/ auth'[c].token \in live'[c]
        /\ \A d \in OAuthConnectors : d # c => auth'[d] = auth[d] /\ live'[d] = live[d]
    BY <1>1 DEF Consent
  <2>2. /\ UNCHANGED <<todo, copy, asked>>
        /\ \A d \in OAuthConnectors \ spoiled' : d # c => d \notin spoiled
        /\ c \notin spoiled' => ~InHand(c)
    BY <1>1 DEF Consent, Overlaps
  <2>3. ASSUME NEW d \in OAuthConnectors \ spoiled'
        PROVE  /\ Granted(d)' => asked'.token \in live'[d]
               /\ d \in todo' => copy'[d].auth.token = auth'[d].token
               /\ auth'[d].token # 0 /\ ~Granted(d)' => auth'[d].token \in live'[d]
    <3>1. CASE d = c
      BY <2>1, <2>2, <3>1 DEF InHand
    <3>2. CASE d # c
      BY <2>1, <2>2, <3>2
    <3> QED
      BY <3>1, <3>2
  <2> QED
    BY <2>2, <2>3
<1>2. ASSUME NEW c \in OAuthConnectors, EditAuth(c) PROVE GrantInv'
  BY <1>2 DEF EditAuth, Overlaps, InHand
<1>3. ASSUME NEW c \in OAuthConnectors, Expires(c) PROVE GrantInv'
  <2>1. \A d \in OAuthConnectors : auth'[d].token = auth[d].token
    BY <1>3 DEF Expires
  <2> QED
    BY <1>3, <2>1 DEF Expires
<1>4. ASSUME NEW c \in OAuthConnectors, Revoke(c) PROVE GrantInv'
  BY <1>4 DEF Revoke
<1>5. CASE Sweep
  BY <1>5, Records DEF Sweep, Copied
<1>6. ASSUME NEW c \in OAuthConnectors, Exchange(c) PROVE GrantInv'
  <2> DEFINE old == copy[c].auth.token
             rotated == issued[c] + 1
             Rotate == live' = [live EXCEPT ![c] = (@ \ {old}) \cup {rotated}]
  <2>1. /\ c \in todo /\ asked = NotAsked /\ UNCHANGED <<auth, copy>>
        /\ \/ Rotate /\ Ask(c, "granted", rotated) /\ spoiled' = spoiled
           \/ /\ old \in live[c] /\ Ask(c, "granted", old)
              /\ UNCHANGED <<live, spoiled>>
           \/ Ask(c, "failed", old) /\ UNCHANGED <<live, spoiled>>
           \/ Rotate /\ Ask(c, "failed", old) /\ spoiled' = spoiled \cup {c}
    BY <1>6 DEF Exchange
  <2>2. /\ asked'.of = c /\ todo' = todo \ {c}
        /\ \A d \in OAuthConnectors : d # c => live'[d] = live[d]
    BY <2>1 DEF Ask
  <2>3. c \notin spoiled' /\ asked'.answer = "granted" => asked'.token \in live'[c]
    BY <2>1 DEF Ask
  <2>4. c \notin spoiled' /\ asked'.answer # "granted" => live'[c] = live[c]
    BY <2>1 DEF Ask
  <2>5. \A d \in OAuthConnectors : ~Granted(d)
    BY <2>1, Records
  <2>6. \A d \in OAuthConnectors \ spoiled' : d \notin spoiled
    BY <2>1
  <2> HIDE DEF old, rotated
  <2> QED
    BY <2>1, <2>2, <2>3, <2>4, <2>5, <2>6
<1>7. ASSUME NEW c \in OAuthConnectors, SaveTokens(c) PROVE GrantInv'
  <2>1. /\ asked.of = c /\ asked.answer = "granted" /\ asked # NotAsked
        /\ asked' = NotAsked /\ UNCHANGED <<todo, live, spoiled>>
        /\ auth'[c].token = asked.token
        /\ \A d \in OAuthConnectors : d # c => auth'[d] = auth[d] /\ copy'[d] = copy[d]
    BY <1>7, Records DEF SaveTokens, NewToken
  <2> QED
    BY <2>1, Records
<1>8. ASSUME NEW c \in OAuthConnectors, _record_failure(c) PROVE GrantInv'
  <2>1. /\ asked.of = c /\ asked.answer = "failed" /\ asked # NotAsked
        /\ asked' = NotAsked /\ UNCHANGED <<todo, live, spoiled, auth>>
        /\ \A d \in OAuthConnectors : d # c => copy'[d] = copy[d]
    BY <1>8, Records DEF _record_failure
  <2> QED
    BY <2>1, Records
<1>9. CASE SweepEnds
  BY <1>9, Records DEF SweepEnds
<1>10. CASE UNCHANGED oauthVars
  BY <1>10 DEF oauthVars
<1> QED
  BY <1>1, <1>2, <1>3, <1>4, <1>5, <1>6, <1>7, <1>8, <1>9, <1>10
     DEF ONext, Refresh, ovars

LEMMA OAuthInvariant == OSpec => [](TypeOK /\ OTypeOK /\ GrantInv)
<1>1. OInit => TypeOK /\ OTypeOK /\ GrantInv
  BY TypeInit, OTypeInit, Records DEF OInit, GrantInv, Granted
<1> QED
  BY <1>1, RowsTyped, OTypeStep, GrantStep, PTL DEF OSpec

\* The types of the rows, the worker and the provider.
THEOREM OAuthTypeCorrect == OSpec => []OTypeOK
BY OAuthInvariant, PTL

\* Consents, edits and refreshes of the rows do not part the cache from the jobs.
THEOREM CacheIsExactBesideOAuth == OSpec => []CacheMatchesJobs
<1>1. OInit => CacheMatchesJobs
  BY CacheInit DEF OInit
<1>2. TypeOK /\ OTypeOK /\ CacheMatchesJobs /\ [ONext]_ovars => CacheMatchesJobs'
  <2>1. UNCHANGED process /\ CacheMatchesJobs => CacheMatchesJobs'
    BY DEF process, CacheMatchesJobs
  <2> QED
    BY <2>1, RowsTyped, CacheStep
<1> QED
  BY <1>1, <1>2, OAuthInvariant, PTL DEF OSpec

\* The worker by itself never loses a grant: the stored refresh token is one the
\* provider accepts, or the one that is about to replace it is.
THEOREM GrantIsKept == OSpec => []TokenKept
<1>1. GrantInv => TokenKept
  BY DEF GrantInv, Granted, TokenKept
<1> QED
  BY <1>1, OAuthInvariant, PTL

=============================================================================
