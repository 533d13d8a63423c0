--------------------------- MODULE FusionPipeline ---------------------------
(***************************************************************************)
(* Deduplication and correlation of alerts (services/fusion): the Redis    *)
(* commands of FusionEngine.process, Deduplicator and Correlator, one      *)
(* action each.  A run is one execution of process(): for a message of the *)
(* Kafka consumer, of any replica, or for a POST /process.  Runs           *)
(* interleave, and the same alert may have several runs: a redelivery, or  *)
(* a second copy of the same event.  Scoring and narrative change neither  *)
(* Redis key and are left out.                                             *)
(***************************************************************************)
EXTENDS Naturals

CONSTANTS
  Runs,
  Alerts,
  Fingerprints,
  Keys,
  AlertOf,     \* the alert of a run
  Fingerprint, \* RawAlert.fingerprint
  CorrKey,     \* RawAlert.correlation_key
  None,
  MaxAlerts,   \* max_alerts_per_incident
  MaxErrors,   \* bound on runs that fail
  MaxExpiries  \* bound on keys that expire

ASSUME RunAssumption ==
  /\ AlertOf \in [Runs -> Alerts]
  /\ Fingerprint \in [Alerts -> Fingerprints]
  /\ CorrKey \in [Alerts -> Keys]
  /\ None \notin Runs \cup Alerts
ASSUME BoundsAssumption ==
  MaxAlerts \in Nat \ {0} /\ MaxErrors \in Nat /\ MaxExpiries \in Nat

VARIABLES
  dedup,    \* dedup:{fingerprint}: the alert that was registered
  index,    \* correlation:{key}: the incident of the key
  incident, \* incident:{id}; a run's new incident has the run as its id
  pc,
  target,   \* the incident a run works on
  loaded,   \* that incident, as the run read it
  fused,    \* what a run published
  errors, expiries,
  overlap   \* two runs were in progress at the same time

redis == <<dedup, index, incident>>
local == <<target, loaded>>
bounds == <<errors, expiries>>
vars == <<redis, pc, local, fused, bounds, overlap>>

FpOf(r) == Fingerprint[AlertOf[r]]
KeyOf(r) == CorrKey[AlertOf[r]]

Incident == [count : Nat, alerts : SUBSET Alerts]
NoIncident == [count |-> 0, alerts |-> {}]
Decision == {"duplicate", "correlated", "new_incident"}
FusedAlert == [decision : Decision, of : Runs \cup Alerts]
ASSUME NoneAssumption == None \notin FusedAlert
Active == {"register", "lookup", "load", "merge", "create", "index", "publish"}

TypeOK ==
  /\ dedup \in [Fingerprints -> Alerts \cup {None}]
  /\ index \in [Keys -> Runs \cup {None}]
  /\ incident \in [Runs -> Incident]
  /\ pc \in [Runs -> Active \cup {"start", "done", "failed"}]
  /\ target \in [Runs -> Runs \cup {None}]
  /\ loaded \in [Runs -> Incident]
  /\ fused \in [Runs -> FusedAlert \cup {None}]
  /\ errors \in 0 .. MaxErrors /\ expiries \in 0 .. MaxExpiries
  /\ overlap \in BOOLEAN

Init ==
  /\ dedup = [f \in Fingerprints |-> None]
  /\ index = [k \in Keys |-> None]
  /\ incident = [r \in Runs |-> NoIncident]
  /\ pc = [r \in Runs |-> "start"]
  /\ target = [r \in Runs |-> None]
  /\ loaded = [r \in Runs |-> NoIncident]
  /\ fused = [r \in Runs |-> None]
  /\ errors = 0 /\ expiries = 0
  /\ overlap = FALSE

Goto(r, to) == pc' = [pc EXCEPT ![r] = to]

-----------------------------------------------------------------------------
\* Mutants: the fingerprint is ignored, nothing is a duplicate.
AnyRegistered(r) == \E f \in Fingerprints : dedup[f] # None
NeverDuplicate(r) == FALSE

IsDuplicate(r) == dedup[FpOf(r)] # None

\* GET of the fingerprint.
Check(r) ==
  /\ pc[r] = "start"
  /\ overlap' = (overlap \/ \E q \in Runs : pc[q] \in Active)
  /\ \/ /\ IsDuplicate(r)
        /\ fused' = [fused EXCEPT ![r] =
                      [decision |-> "duplicate", of |-> dedup[FpOf(r)]]]
        /\ Goto(r, "done")
     \/ /\ ~IsDuplicate(r)
        /\ Goto(r, "register")
        /\ UNCHANGED fused
  /\ UNCHANGED <<redis, local, bounds>>

\* SET of the fingerprint, before the alert is correlated.
Register(r) ==
  /\ pc[r] = "register"
  /\ dedup' = [dedup EXCEPT ![FpOf(r)] = AlertOf[r]]
  /\ Goto(r, "lookup")
  /\ UNCHANGED <<index, incident, local, fused, bounds, overlap>>

Indexed(r) == index[KeyOf(r)]

\* GET of the correlation key.
Lookup(r) ==
  /\ pc[r] = "lookup"
  /\ target' = [target EXCEPT ![r] = IF Indexed(r) = None THEN r ELSE Indexed(r)]
  /\ Goto(r, IF Indexed(r) = None THEN "create" ELSE "load")
  /\ UNCHANGED <<redis, loaded, fused, bounds, overlap>>

\* Mutant: the limit is checked with the old count.
NotAboveLimit(i) == incident[i].count <= MaxAlerts

HasRoom(i) == incident[i].count < MaxAlerts

\* GET of the incident: gone or full, the run creates one of its own.
Load(r) ==
  /\ pc[r] = "load"
  /\ LET i == target[r] IN
       IF incident[i] # NoIncident /\ HasRoom(i)
       THEN /\ loaded' = [loaded EXCEPT ![r] = incident[i]]
            /\ Goto(r, "merge")
            /\ UNCHANGED target
       ELSE /\ target' = [target EXCEPT ![r] = r]
            /\ Goto(r, "create")
            /\ UNCHANGED loaded
  /\ UNCHANGED <<redis, fused, bounds, overlap>>

Merged(r) == [count |-> loaded[r].count + 1,
              alerts |-> loaded[r].alerts \cup {AlertOf[r]}]

\* SET of the incident as it was loaded, with this alert.
SaveMerged(r) ==
  /\ pc[r] = "merge"
  /\ incident' = [incident EXCEPT ![target[r]] = Merged(r)]
  /\ Goto(r, "publish")
  /\ UNCHANGED <<dedup, index, local, fused, bounds, overlap>>

\* SET of a new incident.
SaveNew(r) ==
  /\ pc[r] = "create"
  /\ incident' = [incident EXCEPT ![r] = [count |-> 1, alerts |-> {AlertOf[r]}]]
  /\ Goto(r, "index")
  /\ UNCHANGED <<dedup, index, local, fused, bounds, overlap>>

\* SET of the correlation key.
SetIndex(r) ==
  /\ pc[r] = "index"
  /\ index' = [index EXCEPT ![KeyOf(r)] = r]
  /\ Goto(r, "publish")
  /\ UNCHANGED <<dedup, incident, local, fused, bounds, overlap>>

\* The fused alert is sent to the fused topic, or returned to the caller.
Publish(r) ==
  /\ pc[r] = "publish"
  /\ fused' = [fused EXCEPT ![r] =
       [decision |-> IF target[r] = r THEN "new_incident" ELSE "correlated",
        of |-> target[r]]]
  /\ Goto(r, "done")
  /\ UNCHANGED <<redis, local, bounds, overlap>>

\* A Redis or Kafka error, or a crash: _consume_loop logs and goes on with
\* the next message, the endpoint answers 500; nothing is undone.
Fail(r) ==
  /\ pc[r] \in Active \cup {"start"}
  /\ errors < MaxErrors
  /\ errors' = errors + 1
  /\ Goto(r, "failed")
  /\ UNCHANGED <<redis, local, fused, expiries, overlap>>

Expire ==
  /\ expiries < MaxExpiries
  /\ expiries' = expiries + 1
  /\ \/ \E f \in Fingerprints :
          /\ dedup[f] # None
          /\ dedup' = [dedup EXCEPT ![f] = None]
          /\ UNCHANGED <<index, incident>>
     \/ \E k \in Keys :
          /\ index[k] # None
          /\ index' = [index EXCEPT ![k] = None]
          /\ UNCHANGED <<dedup, incident>>
     \/ \E i \in Runs :
          /\ incident[i] # NoIncident
          /\ incident' = [incident EXCEPT ![i] = NoIncident]
          /\ UNCHANGED <<dedup, index>>
  /\ UNCHANGED <<pc, local, fused, errors, overlap>>

Step(r) ==
  \/ Check(r) \/ Register(r) \/ Lookup(r) \/ Load(r) \/ SaveMerged(r)
  \/ SaveNew(r) \/ SetIndex(r) \/ Publish(r)

Next == (\E r \in Runs : Step(r) \/ Fail(r)) \/ Expire

Spec == Init /\ [][Next]_vars

-----------------------------------------------------------------------------
Original(r) == fused[r] # None /\ fused[r].decision # "duplicate"
Sound == errors = 0 /\ expiries = 0

\* However runs interleave, no incident outgrows the limit: the count that is
\* compared is the count that is incremented (Correlator.correlate).
IncidentBounded == \A i \in Runs : incident[i].count <= MaxAlerts

\* An incident holds alerts of one correlation key only, the tenant included,
\* however runs interleave and whatever expires.
OneKeyPerIncident ==
  \A i \in Runs : \A a \in incident[i].alerts : CorrKey[a] = KeyOf(i)

\* Merges of concurrent runs may lose each other's alerts, never the alert
\* that opened the incident.
FounderStays ==
  \A i \in Runs : incident[i] # NoIncident => AlertOf[i] \in incident[i].alerts

\* Without errors and expiry an alert is suppressed only when a run of its
\* fingerprint has been fused or is about to be.
SuppressionIsJustified ==
  Sound => \A r \in Runs : fused[r] # None /\ fused[r].decision = "duplicate" =>
    \E q \in Runs \ {r} : FpOf(q) = FpOf(r) /\ (Original(q) \/ pc[q] \in Active)

\* One run after the other, without errors and expiry: a fingerprint is fused
\* once, and a fused alert is in the incident it names.
SequentialRunsAreExact ==
  Sound /\ ~overlap =>
    /\ \A q, r \in Runs : Original(q) /\ Original(r) /\ FpOf(q) = FpOf(r) => q = r
    /\ \A r \in Runs : Original(r) => AlertOf[r] \in incident[fused[r].of].alerts

\* "duplicates return a DUPLICATE envelope and never run the rest of the
\* pipeline": no fingerprint is fused twice while its key lives.
DuplicatesAreSuppressed ==
  Sound => \A q, r \in Runs :
             Original(q) /\ Original(r) /\ FpOf(q) = FpOf(r) => q = r

\* CORRELATED: "Added to existing incident".
CorrelatedIsAdded ==
  Sound => \A r \in Runs : Original(r) => AlertOf[r] \in incident[fused[r].of].alerts

\* "suppress exact/near-exact duplicates": when all runs are over, a suppressed
\* alert has an original, also after an error.
SuppressedHasOriginal ==
  (expiries = 0 /\ \A r \in Runs : pc[r] \in {"done", "failed"}) =>
    \A r \in Runs : fused[r] # None /\ fused[r].decision = "duplicate" =>
      \E q \in Runs : FpOf(q) = FpOf(r) /\ Original(q)
=============================================================================
