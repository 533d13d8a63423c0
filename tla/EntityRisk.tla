----------------------------- MODULE EntityRisk -----------------------------
(***************************************************************************)
(* Risk-based alerting (services/fusion entity_risk.py): before a run of   *)
(* the pipeline publishes its alert it adds the alert's points to each     *)
(* entity the alert touches and promotes an entity whose score crosses the *)
(* threshold.                                                              *)
(*                                                                         *)
(* Each Redis command is a step.  A record is loaded, changed in Python    *)
(* and saved whole, so runs overwrite each other's changes.  The list of   *)
(* top scores, the severity histogram and the details kept of the last     *)
(* contributors, which no decision reads, are left out; so is the EXPIRE   *)
(* after a write.                                                          *)
(***************************************************************************)
EXTENDS FusionPipeline, Sequences, FiniteSets

CONSTANTS
  Entities,
  EntitiesOf,  \* the entities of an alert, in the order of _build_signals
  Points,      \* what an alert adds to each
  Threshold,   \* rba_promotion_threshold
  MaxContributors \* how many of its last alerts a record names

\* The entities of an alert differ in their type: user, host, address, domain.
ASSUME RiskAssumption ==
  /\ IsFiniteSet(Runs)
  /\ EntitiesOf \in [Alerts -> Seq(Entities)]
  /\ \A a \in Alerts : \A i, j \in DOMAIN EntitiesOf[a] :
       EntitiesOf[a][i] = EntitiesOf[a][j] => i = j
  /\ Points \in [Alerts -> Nat \ {0}]
  /\ Threshold \in Nat \ {0} /\ MaxContributors \in Nat \ {0}

VARIABLES
  risk,        \* aisoc:fusion:rba:entity:*
  promoted,    \* aisoc:fusion:rba:promoted:*
  signal,      \* where each run is in observe()
  promotions,  \* history: per entity, the runs that listed it as promoted
  spoilt       \* history: entities two runs contended for, a run failed on, or
               \* whose record or listing expired

riskVars == <<risk, promoted, signal, promotions, spoilt>>
rvars == <<vars, riskVars>>

\* alert_count, contributing_alerts and promoted_at; a run also keeps whether
\* observe() raised.
Record == [score : Nat, count : Nat, by : Seq(Alerts), promoted : BOOLEAN]
NoRisk == [score |-> 0, count |-> 0, by |-> <<>>, promoted |-> FALSE]
SignalRecord == [pc : {"load", "save", "promote", "list"}, at : Nat \ {0},
                 record : Record, failed : BOOLEAN]

RTypeOK ==
  /\ risk \in [Entities -> Record]
  /\ promoted \subseteq Entities
  /\ signal \in [Runs -> SignalRecord]
  /\ promotions \in [Entities -> SUBSET Runs]
  /\ spoilt \subseteq Entities

At(i) == [pc |-> "load", at |-> i, record |-> NoRisk, failed |-> FALSE]

RInit ==
  /\ Init
  /\ risk = [e \in Entities |-> NoRisk]
  /\ promoted = {}
  /\ signal = [r \in Runs |-> At(1)]
  /\ promotions = [e \in Entities |-> {}]
  /\ spoilt = {}

Signals(r) == EntitiesOf[AlertOf[r]]
Touched(r) == {Signals(r)[i] : i \in DOMAIN Signals(r)}

\* Mutant: every signal goes to the alert's first entity.
FirstEntity(r) == Signals(r)[1]

EntityOf(r) == Signals(r)[signal[r].at]

\* The run has signals left, and observe() has not raised.
Observes(r) == signal[r].at <= Len(Signals(r)) /\ ~signal[r].failed

\* The run is in observe(), at step p of one of its signals.
Observing(r, p) == pc[r] = "publish" /\ Observes(r) /\ signal[r].pc = p

\* Between the load of a record and the end of what follows from it.
Holds(r, e) ==
  pc[r] = "publish" /\ Observes(r) /\ signal[r].pc # "load" /\ EntityOf(r) = e

HeldBy(r) == {e \in Entities : Holds(r, e)}

\* On to the next signal.
NextSignal(r) == signal' = [signal EXCEPT ![r] = At(@.at + 1)]

-----------------------------------------------------------------------------
\* _decay over the time since the last alert: none or a half-life.  A record whose
\* score is spent is one that has expired.
Decayed(score) == {score, score \div 2}

\* The last alerts that contributed; an alert joins them once.
Capped(s) ==
  IF Len(s) > MaxContributors
  THEN SubSeq(s, Len(s) - MaxContributors + 1, Len(s)) ELSE s

Contributors(record) == {record.by[i] : i \in DOMAIN record.by}

WithContributor(record, a) ==
  IF a \in Contributors(record) THEN record.by ELSE Capped(Append(record.by, a))

\* _apply_signal, on the record that was read.
Applied(r, record, score) ==
  [score |-> score + Points[AlertOf[r]], count |-> record.count + 1,
   by |-> WithContributor(record, AlertOf[r]), promoted |-> record.promoted]

LoadRisk(r) ==
  /\ Observing(r, "load")
  /\ LET e == EntityOf(r)
     IN  /\ \E score \in Decayed(risk[e].score) :
              signal' = [signal EXCEPT ![r].pc = "save",
                                       ![r].record = Applied(r, risk[e], score)]
         /\ spoilt' = IF \E q \in Runs : Holds(q, e) THEN spoilt \cup {e} ELSE spoilt
  /\ UNCHANGED <<vars, risk, promoted, promotions>>

\* Mutant: a promoted entity is promoted again.
OverThreshold(record) == record.score >= Threshold

Crosses(record) == record.score >= Threshold /\ ~record.promoted

SaveRecord(r) == risk' = [risk EXCEPT ![EntityOf(r)] = signal[r].record]

\* HSET of the record; then observe() looks whether to promote.
SaveRisk(r) ==
  /\ Observing(r, "save")
  /\ SaveRecord(r)
  /\ IF Crosses(signal[r].record)
     THEN signal' = [signal EXCEPT ![r].pc = "promote", ![r].record.promoted = TRUE]
     ELSE NextSignal(r)
  /\ UNCHANGED <<vars, promoted, promotions, spoilt>>

\* _promote: the record is saved again, with promoted_at, ...
SavePromoted(r) ==
  /\ Observing(r, "promote")
  /\ SaveRecord(r)
  /\ signal' = [signal EXCEPT ![r].pc = "list"]
  /\ UNCHANGED <<vars, promoted, promotions, spoilt>>

\* ... and the entity joins the promoted ones.
ListPromoted(r) ==
  /\ Observing(r, "list")
  /\ promoted' = promoted \cup {EntityOf(r)}
  /\ promotions' = [promotions EXCEPT ![EntityOf(r)] = @ \cup {r}]
  /\ NextSignal(r)
  /\ UNCHANGED <<vars, risk, spoilt>>

\* process() logs whatever observe() raises and goes on without it.
ObserveFails(r) ==
  /\ pc[r] = "publish" /\ Observes(r)
  /\ errors < MaxErrors
  /\ errors' = errors + 1
  /\ signal' = [signal EXCEPT ![r].failed = TRUE, ![r].record = NoRisk]
  /\ spoilt' = spoilt \cup HeldBy(r)
  /\ UNCHANGED <<redis, pc, local, fused, expiries, overlap, risk, promoted, promotions>>

\* The run fails or the process ends, inside observe() or elsewhere.
RunFails(r) ==
  /\ Fail(r)
  /\ spoilt' = spoilt \cup HeldBy(r)
  /\ UNCHANGED <<risk, promoted, signal, promotions>>

ObserveStep(r) ==
  LoadRisk(r) \/ SaveRisk(r) \/ SavePromoted(r) \/ ListPromoted(r)

Observed(r) == ~Observes(r)

\* A step of the pipeline; the alert is published after observe().
PipelineStep(r) ==
  /\ Step(r)
  /\ pc[r] = "publish" => Observed(r)
  /\ UNCHANGED riskVars

\* The hash of an entity or the list of promoted ones reaches its window.
RiskExpires ==
  /\ expiries < MaxExpiries
  /\ expiries' = expiries + 1
  /\ \/ \E e \in Entities :
          /\ risk[e] # NoRisk
          /\ risk' = [risk EXCEPT ![e] = NoRisk]
          /\ spoilt' = spoilt \cup {e}
          /\ UNCHANGED promoted
     \/ /\ promoted # {}
        /\ promoted' = {} /\ spoilt' = spoilt \cup promoted
        /\ UNCHANGED risk
  /\ UNCHANGED <<redis, pc, local, fused, errors, overlap, signal, promotions>>

RNext ==
  \/ \E r \in Runs :
       PipelineStep(r) \/ ObserveStep(r) \/ ObserveFails(r) \/ RunFails(r)
  \/ Expire /\ UNCHANGED riskVars
  \/ RiskExpires

RSpec == RInit /\ [][RNext]_rvars

-----------------------------------------------------------------------------
\* The runs that have applied their alert to the record of an entity, saved or
\* about to be, and one element for each point they have to give it.
Charging(e) ==
  {r \in Runs : \E i \in DOMAIN Signals(r) :
     /\ Signals(r)[i] = e
     /\ i < signal[r].at \/ (i = signal[r].at /\ signal[r].pc # "load")}

AlertsOf(R) == {AlertOf[r] : r \in R}
PointsOf(R) == UNION {{r} \X (1 .. Points[AlertOf[r]]) : r \in R}

\* A record names at most MaxContributors alerts, of the runs in R, and counts no
\* run and no point twice.
Justified(record, R) ==
  /\ Len(record.by) <= MaxContributors
  /\ Contributors(record) \subseteq AlertsOf(R)
  /\ record.count <= Cardinality(R)
  /\ record.score <= Cardinality(PointsOf(R))

\* Whatever runs interleave, overwrite each other's records, fail or expire: the
\* record of an entity counts every run at most once, with the points of its
\* alert, and only runs whose alert touches the entity; and an entity is listed
\* as promoted only if such runs have the points to reach the threshold.
RiskIsJustified ==
  /\ \A e \in Entities : Justified(risk[e], Charging(e))
  /\ \A e \in promoted : Cardinality(PointsOf(Charging(e))) >= Threshold

\* A record that counts the runs of R: all their alerts are named, up to the limit.
CountsAll(record, R) ==
  /\ record.count = Cardinality(R)
  /\ AlertsOf(R) \subseteq Contributors(record) \/ Len(record.by) = MaxContributors

\* An entity that no two runs contended for, that no run failed on and that did
\* not expire loses nothing, however runs overlap elsewhere: when no run is at it,
\* its record counts every fused alert that touches it, it is promoted once its
\* score has reached the threshold, by one run only, and flag and list agree.
UncontestedRiskIsExact ==
  \A e \in Entities \ spoilt : (\A r \in Runs : ~Holds(r, e)) =>
    /\ CountsAll(risk[e], Charging(e))
    /\ \A r \in Runs : Original(r) /\ ~signal[r].failed /\ e \in Touched(r) =>
         r \in Charging(e)
    /\ risk[e].promoted <=> e \in promoted
    /\ risk[e].score >= Threshold => e \in promoted
    /\ IF e \in promoted THEN \E r \in Charging(e) : promotions[e] = {r}
                         ELSE promotions[e] = {}

\* "Apply ``alert`` against every entity it touches": without errors and expiry a
\* record that no run is at counts every run.
AlertsAreCounted ==
  Sound => \A e \in Entities : (\A r \in Runs : ~Holds(r, e)) =>
    risk[e].count = Cardinality(Charging(e))

\* "entity records that crossed the promotion threshold": without errors and
\* expiry an entity crosses it once.
PromotedOnce == Sound => \A e \in Entities : Cardinality(promotions[e]) <= 1
=============================================================================
