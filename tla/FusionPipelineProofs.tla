------------------------ MODULE FusionPipelineProofs ------------------------
(***************************************************************************)
(* Proofs about FusionPipeline and EntityRisk for any number of runs,      *)
(* alerts, keys and entities, any errors and expiries: what concurrent     *)
(* runs can never do to an incident or to the risk record of an entity.    *)
(***************************************************************************)
EXTENDS EntityRisk, FiniteSetTheorems, SequenceTheorems, TLAPS

\* A run that has looked up its correlation key works on an incident.
HasTarget ==
  \A r \in Runs : pc[r] \in Active \ {"register", "lookup"} => target[r] \in Runs

LEMMA NoIncidentTyped == NoIncident \in Incident
BY DEF Incident, NoIncident

LEMMA TypeInit == Init => TypeOK /\ HasTarget
<1> USE RunAssumption, BoundsAssumption
<1> SUFFICES ASSUME Init PROVE TypeOK /\ HasTarget
  OBVIOUS
<1>1. HasTarget
  BY DEF Init, HasTarget, Active
<1>2. incident \in [Runs -> Incident] /\ loaded \in [Runs -> Incident]
  BY NoIncidentTyped DEF Init
<1>3. fused \in [Runs -> FusedAlert \cup {None}]
  BY DEF Init
<1>4. overlap \in BOOLEAN
  BY Zenon DEF Init
<1>5. QED
  BY <1>1, <1>2, <1>3, <1>4 DEF Init, TypeOK

LEMMA TypeStep == TypeOK /\ HasTarget /\ [Next]_vars => TypeOK'
<1> USE RunAssumption, BoundsAssumption
<1> SUFFICES ASSUME TypeOK, HasTarget, [Next]_vars PROVE TypeOK'
  OBVIOUS
<1> USE DEF TypeOK, redis, local, bounds, Goto, Active, Decision, FusedAlert
<1>1. ASSUME NEW r \in Runs, Check(r) PROVE TypeOK'
  <2>1. overlap' \in BOOLEAN
    BY <1>1, Zenon DEF Check
  <2>2. CASE IsDuplicate(r)
    <3>1. FpOf(r) \in Fingerprints /\ dedup[FpOf(r)] \in Alerts
      BY <2>2 DEF IsDuplicate, FpOf
    <3>2. [decision |-> "duplicate", of |-> dedup[FpOf(r)]]
            \in FusedAlert
      BY <3>1
    <3>3. QED
      BY <1>1, <2>1, <2>2, <3>2 DEF Check
  <2>3. CASE ~IsDuplicate(r)
    BY <1>1, <2>1, <2>3 DEF Check
  <2>4. QED
    BY <2>2, <2>3
<1>2. ASSUME NEW r \in Runs, Register(r) PROVE TypeOK'
  BY <1>2 DEF Register, FpOf
<1>3. ASSUME NEW r \in Runs, Lookup(r) PROVE TypeOK'
  BY <1>3 DEF Lookup, Indexed, KeyOf
<1>4. ASSUME NEW r \in Runs, Load(r) PROVE TypeOK'
  <2>1. CASE incident[target[r]] # NoIncident /\ HasRoom(target[r])
    <3>1. target[r] \in Runs
      BY <1>4 DEF Load, HasTarget
    <3>2. loaded' \in [Runs -> Incident]
      BY <1>4, <2>1, <3>1 DEF Load
    <3>3. QED
      BY <1>4, <2>1, <3>2 DEF Load
  <2>2. CASE ~(incident[target[r]] # NoIncident /\ HasRoom(target[r]))
    BY <1>4, <2>2 DEF Load
  <2>3. QED
    BY <2>1, <2>2
<1>5. ASSUME NEW r \in Runs, SaveMerged(r) PROVE TypeOK'
  <2>1. Merged(r) \in Incident
    BY DEF Merged, Incident
  <2>2. QED
    BY <1>5, <2>1 DEF SaveMerged
<1>6. ASSUME NEW r \in Runs, SaveNew(r) PROVE TypeOK'
  <2>1. [count |-> 1, alerts |-> {AlertOf[r]}] \in Incident
    BY DEF Incident
  <2>2. QED
    BY <1>6, <2>1 DEF SaveNew
<1>7. ASSUME NEW r \in Runs, SetIndex(r) PROVE TypeOK'
  BY <1>7 DEF SetIndex, KeyOf
<1>8. ASSUME NEW r \in Runs, Publish(r) PROVE TypeOK'
  <2>1. target[r] \in Runs
    BY <1>8 DEF Publish, HasTarget
  <2>2. [decision |-> IF target[r] = r THEN "new_incident" ELSE "correlated",
         of |-> target[r]] \in FusedAlert
    BY <2>1
  <2>3. QED
    BY <1>8, <2>2 DEF Publish
<1>9. ASSUME NEW r \in Runs, Fail(r) PROVE TypeOK'
  BY <1>9 DEF Fail
<1>10. CASE Expire
  <2>1. dedup' \in [Fingerprints -> Alerts \cup {None}]
    BY <1>10 DEF Expire
  <2>2. index' \in [Keys -> Runs \cup {None}]
    BY <1>10 DEF Expire
  <2>3. incident' \in [Runs -> Incident]
    BY NoIncidentTyped, <1>10 DEF Expire
  <2>4. expiries' \in 0 .. MaxExpiries
    BY <1>10 DEF Expire
  <2>5. QED
    BY <1>10, <2>1, <2>2, <2>3, <2>4 DEF Expire
<1>11. CASE UNCHANGED vars
  BY <1>11 DEF vars
<1>12. QED
  BY <1>1, <1>2, <1>3, <1>4, <1>5, <1>6, <1>7, <1>8, <1>9, <1>10, <1>11
     DEF Next, Step

LEMMA TargetStep == TypeOK /\ HasTarget /\ [Next]_vars => HasTarget'
<1> USE RunAssumption, BoundsAssumption
<1> SUFFICES ASSUME TypeOK, HasTarget, [Next]_vars PROVE HasTarget'
  OBVIOUS
<1> USE DEF TypeOK, HasTarget, redis, local, bounds, Goto, Active
<1>1. ASSUME NEW r \in Runs, Step(r) \/ Fail(r) PROVE HasTarget'
  <2>1. ASSUME NEW q \in Runs, q # r
        PROVE  pc'[q] = pc[q] /\ target'[q] = target[q]
    BY <1>1, <2>1 DEF Step, Check, Register, Lookup, Load, SaveMerged,
       SaveNew, SetIndex, Publish, Fail
  <2>2. pc'[r] \in Active \ {"register", "lookup"} => target'[r] \in Runs
    BY <1>1 DEF Step, Check, Register, Lookup, Load, SaveMerged, SaveNew,
       SetIndex, Publish, Fail, Indexed, KeyOf
  <2>3. QED
    BY <2>1, <2>2
<1>2. CASE Expire
  BY <1>2 DEF Expire
<1>3. CASE UNCHANGED vars
  BY <1>3 DEF vars
<1>4. QED
  BY <1>1, <1>2, <1>3 DEF Next

LEMMA Typed == Spec => [](TypeOK /\ HasTarget)
BY TypeInit, TypeStep, TargetStep, PTL DEF Spec

\* The type invariant of the pipeline.
THEOREM TypeCorrect == Spec => []TypeOK
BY Typed, PTL

-----------------------------------------------------------------------------
\* An index entry names an incident of its key, and so does a run's target.
IndexedByKey ==
  /\ \A k \in Keys : index[k] # None => KeyOf(index[k]) = k
  /\ \A r \in Runs : pc[r] \in {"load", "merge"} => KeyOf(target[r]) = KeyOf(r)

\* What a run about to merge has read has room, one key and its founder, and
\* stays so in the run's memory whatever happens to the stored incident.
MergeReady(r) ==
  /\ loaded[r].count < MaxAlerts
  /\ \A a \in loaded[r].alerts : CorrKey[a] = KeyOf(target[r])
  /\ AlertOf[target[r]] \in loaded[r].alerts

IncidentOK(i) ==
  /\ incident[i].count <= MaxAlerts
  /\ \A a \in incident[i].alerts : CorrKey[a] = KeyOf(i)
  /\ incident[i] # NoIncident => AlertOf[i] \in incident[i].alerts

IncidentInv ==
  /\ IndexedByKey
  /\ \A r \in Runs : pc[r] = "merge" => MergeReady(r)
  /\ \A i \in Runs : IncidentOK(i)

LEMMA IncidentInit == Init => IncidentInv
BY RunAssumption, BoundsAssumption
   DEF Init, IncidentInv, IndexedByKey, IncidentOK, NoIncident

LEMMA IncidentStep == TypeOK /\ HasTarget /\ IncidentInv /\ [Next]_vars => IncidentInv'
<1> USE RunAssumption, BoundsAssumption
<1> SUFFICES ASSUME TypeOK, HasTarget, IncidentInv, [Next]_vars
             PROVE  IncidentInv'
  OBVIOUS
<1> USE DEF TypeOK, HasTarget, Active, redis, local, bounds, Goto
<1>1. ASSUME NEW r \in Runs, Step(r) \/ Fail(r) PROVE IncidentInv'
  <2>1. ASSUME NEW q \in Runs, q # r
        PROVE  pc'[q] = pc[q] /\ target'[q] = target[q] /\ loaded'[q] = loaded[q]
    BY <1>1, <2>1 DEF Step, Check, Register, Lookup, Load, SaveMerged,
       SaveNew, SetIndex, Publish, Fail
  <2>2. IndexedByKey'
    <3>1. \A k \in Keys : index'[k] # None => KeyOf(index'[k]) = k
      BY <1>1 DEF Step, Check, Register, Lookup, Load, SaveMerged, SaveNew,
         SetIndex, Publish, Fail, IncidentInv, IndexedByKey, KeyOf
    <3>2. pc'[r] \in {"load", "merge"} => KeyOf(target'[r]) = KeyOf(r)
      BY <1>1 DEF Step, Check, Register, Lookup, Load, SaveMerged, SaveNew,
         SetIndex, Publish, Fail, IncidentInv, IndexedByKey, KeyOf, Indexed
    <3>3. QED
      BY <2>1, <3>1, <3>2 DEF IncidentInv, IndexedByKey, KeyOf
  <2>3. pc'[r] = "merge" => MergeReady(r)'
    <3>1. CASE Load(r) /\ pc'[r] = "merge"
      <4>1. /\ incident[target[r]] # NoIncident
            /\ incident[target[r]].count < MaxAlerts
            /\ target' = target
            /\ loaded'[r] = incident[target[r]]
        BY <3>1 DEF Load, HasRoom
      <4>2. target[r] \in Runs
        BY <3>1 DEF Load
      <4>3. IncidentOK(target[r])
        BY <4>2 DEF IncidentInv
      <4>4. QED
        BY <4>1, <4>2, <4>3 DEF IncidentOK, MergeReady, KeyOf
    <3>2. CASE ~Load(r)
      BY <1>1, <3>2 DEF Step, Check, Register, Lookup, SaveMerged, SaveNew,
         SetIndex, Publish, Fail
    <3>3. QED
      BY <3>1, <3>2
  <2>4. ASSUME NEW i \in Runs PROVE IncidentOK(i)'
    <3>1. CASE SaveMerged(r)
      <4>1. CASE i = target[r]
        <5>1. incident'[i] = Merged(r)
          BY <3>1, <4>1 DEF SaveMerged
        <5>2. MergeReady(r) /\ KeyOf(i) = KeyOf(r)
          BY <3>1, <4>1 DEF SaveMerged, IncidentInv, IndexedByKey
        <5>3. QED
          BY <4>1, <5>1, <5>2
             DEF Merged, MergeReady, IncidentOK, KeyOf, Incident
      <4>2. CASE i # target[r]
        BY <3>1, <4>2 DEF SaveMerged, IncidentInv, IncidentOK, KeyOf
      <4>3. QED
        BY <4>1, <4>2
    <3>2. CASE SaveNew(r)
      BY <3>2 DEF SaveNew, IncidentInv, IncidentOK, KeyOf
    <3>3. CASE ~SaveMerged(r) /\ ~SaveNew(r)
      <4>1. incident' = incident
        BY <1>1, <3>3 DEF Step, Check, Register, Lookup, Load, SetIndex,
           Publish, Fail
      <4>2. QED
        BY <4>1 DEF IncidentInv, IncidentOK, KeyOf
    <3>4. QED
      BY <3>1, <3>2, <3>3
  <2>5. QED
    <3>1. ASSUME NEW q \in Runs, pc'[q] = "merge" PROVE MergeReady(q)'
      BY <2>1, <2>3, <3>1 DEF IncidentInv, MergeReady, KeyOf
    <3>2. QED
      BY <2>2, <2>4, <3>1 DEF IncidentInv
<1>2. CASE Expire
  <2>1. ASSUME NEW i \in Runs PROVE IncidentOK(i)'
    <3>1. incident'[i] = incident[i] \/ incident'[i] = NoIncident
      BY <1>2 DEF Expire
    <3>2. QED
      <4>1. CASE incident'[i] = incident[i]
        BY <4>1 DEF IncidentInv, IncidentOK, NoIncident, KeyOf
      <4>2. CASE incident'[i] = NoIncident
        BY <4>2 DEF IncidentOK, NoIncident
      <4>3. QED
        BY <3>1, <4>1, <4>2
  <2>2. IndexedByKey'
    BY <1>2 DEF Expire, IncidentInv, IndexedByKey, KeyOf
  <2>3. QED
    BY <1>2, <2>1, <2>2 DEF Expire, IncidentInv, MergeReady, KeyOf
<1>3. CASE UNCHANGED vars
  BY <1>3 DEF vars, IncidentInv, IndexedByKey, MergeReady, IncidentOK, KeyOf
<1>4. QED
  BY <1>1, <1>2, <1>3 DEF Next

LEMMA IncidentInductive == Spec => []IncidentInv
BY IncidentInit, IncidentStep, Typed, PTL DEF Spec

\* No incident outgrows max_alerts_per_incident.
THEOREM IncidentsStayBounded == Spec => []IncidentBounded
<1>1. IncidentInv => IncidentBounded
  BY DEF IncidentInv, IncidentOK, IncidentBounded
<1>2. QED
  BY <1>1, IncidentInductive, PTL

\* No incident mixes alerts of two correlation keys, hence of two tenants.
THEOREM KeysStayApart == Spec => []OneKeyPerIncident
<1>1. IncidentInv => OneKeyPerIncident
  BY DEF IncidentInv, IncidentOK, OneKeyPerIncident
<1>2. QED
  BY <1>1, IncidentInductive, PTL

\* An incident never loses the alert that opened it.
THEOREM FoundersStay == Spec => []FounderStays
<1>1. IncidentInv => FounderStays
  BY DEF IncidentInv, IncidentOK, FounderStays
<1>2. QED
  BY <1>1, IncidentInductive, PTL

-----------------------------------------------------------------------------
(***************************************************************************)
(* What is exact, and when: no error and nothing expired, and then no two  *)
(* runs at the same time.                                                  *)
(***************************************************************************)
\* A run is fused when it is done and not before, and it fails only by an error.
PhaseInv ==
  \A r \in Runs :
    /\ pc[r] \in Active \cup {"start"} => fused[r] = None
    /\ pc[r] = "done" => fused[r] # None
    /\ pc[r] = "failed" => errors > 0
    /\ Original(r) => fused[r].of \in Runs

Through(r) == Original(r) \/ pc[r] \in Active

\* A registered fingerprint is that of a run that has got through or will.
CauseInv ==
  /\ Sound => \A f \in Fingerprints : dedup[f] # None =>
                \E q \in Runs : FpOf(q) = f /\ Through(q)
  /\ SuppressionIsJustified

Made == {"index", "publish", "done", "failed"}

\* An incident is not there before its run creates it, and nobody is sent to it.
FreshInv ==
  /\ \A i \in Runs : pc[i] \notin Made => incident[i] = NoIncident
  /\ \A k \in Keys : index[k] # None => pc[index[k]] \in Made
  /\ \A r \in Runs : /\ pc[r] \in {"load", "merge"} => pc[target[r]] \in Made
                     /\ pc[r] \in {"create", "index"} => target[r] = r

\* While no two runs overlap: at most one is in progress, what it has read is still
\* there, and every fingerprint gets through once.
AloneInv ==
  Sound /\ ~overlap =>
    /\ \A q, r \in Runs : pc[q] \in Active /\ pc[r] \in Active => q = r
    /\ \A q, r \in Runs : Through(q) /\ Through(r) /\ FpOf(q) = FpOf(r) => q = r
    /\ \A r \in Runs :
         /\ Original(r) \/ pc[r] \in Active \ {"register"} => dedup[FpOf(r)] # None
         /\ pc[r] = "merge" => loaded[r] = incident[target[r]]
         /\ pc[r] \in {"index", "publish"} => AlertOf[r] \in incident[target[r]].alerts
         /\ Original(r) => AlertOf[r] \in incident[fused[r].of].alerts

ExactInv == PhaseInv /\ CauseInv /\ FreshInv /\ AloneInv

LEMMA ExactInit == Init => ExactInv
<1> SUFFICES ASSUME Init PROVE ExactInv
  OBVIOUS
<1>1. /\ \A r \in Runs : pc[r] = "start" /\ fused[r] = None /\ incident[r] = NoIncident
      /\ \A f \in Fingerprints : dedup[f] = None
      /\ \A k \in Keys : index[k] = None
  BY DEF Init
<1>2. \A r \in Runs : ~Original(r) /\ ~Through(r)
  BY <1>1 DEF Original, Through, Active
<1> QED
  BY <1>1, <1>2 DEF ExactInv, PhaseInv, CauseInv, SuppressionIsJustified, FreshInv,
                    Made, AloneInv, Active

\* A step of a run changes nothing of the others'.
LEMMA OthersStay ==
  ASSUME TypeOK, NEW r \in Runs, Step(r) \/ Fail(r), NEW q \in Runs, q # r
  PROVE  /\ pc'[q] = pc[q] /\ target'[q] = target[q] /\ loaded'[q] = loaded[q]
         /\ fused'[q] = fused[q] /\ Original(q)' = Original(q) /\ Through(q)' = Through(q)
<1>1. /\ pc'[q] = pc[q] /\ target'[q] = target[q] /\ loaded'[q] = loaded[q]
      /\ fused'[q] = fused[q]
  BY DEF TypeOK, Step, Check, Register, Lookup, Load, SaveMerged, SaveNew, SetIndex,
         Publish, Fail, Goto, redis, local, bounds
<1> QED
  BY <1>1 DEF Original, Through

\* A fault is never forgotten, nor is an overlap.
LEMMA SoundBefore ==
  ASSUME TypeOK, [Next]_vars
  PROVE  /\ Sound' => Sound /\ UNCHANGED bounds
         /\ ~overlap' => ~overlap
<1>1. errors \in Nat /\ expiries \in Nat
  BY BoundsAssumption DEF TypeOK
<1>2. \/ UNCHANGED bounds
      \/ errors' = errors + 1
      \/ expiries' = expiries + 1
  BY DEF Next, Step, Check, Register, Lookup, Load, SaveMerged, SaveNew, SetIndex,
         Publish, Fail, Expire, vars, bounds
<1>3. Sound' => Sound /\ UNCHANGED bounds
  BY <1>1, <1>2 DEF Sound, bounds
<1>4. overlap' = overlap \/ overlap' = (overlap \/ \E q \in Runs : pc[q] \in Active)
  BY DEF Next, Step, Check, Register, Lookup, Load, SaveMerged, SaveNew, SetIndex,
         Publish, Fail, Expire, vars
<1>5. ~overlap' => ~overlap
  BY <1>4, Zenon
<1> QED
  BY <1>3, <1>5

LEMMA PhaseStep == TypeOK /\ HasTarget /\ PhaseInv /\ [Next]_vars => PhaseInv'
<1> USE RunAssumption, BoundsAssumption
<1> SUFFICES ASSUME TypeOK, HasTarget, PhaseInv, [Next]_vars PROVE PhaseInv'
  OBVIOUS
<1>1. ASSUME NEW r \in Runs, Step(r) \/ Fail(r) PROVE PhaseInv'
  <2>1. errors' \in {errors, errors + 1} /\ errors \in Nat /\ (Fail(r) => errors' > 0)
    BY <1>1 DEF TypeOK, Step, Check, Register, Lookup, Load, SaveMerged, SaveNew, SetIndex,
                Publish, Fail, bounds
  <2>2. ASSUME NEW q \in Runs, q # r
        PROVE  /\ pc'[q] \in Active \cup {"start"} => fused'[q] = None
               /\ pc'[q] = "done" => fused'[q] # None
               /\ pc'[q] = "failed" => errors' > 0
               /\ Original(q)' => fused'[q].of \in Runs
    <3>1. pc'[q] = pc[q] /\ fused'[q] = fused[q]
      BY <1>1, <2>2, OthersStay
    <3>2. pc'[q] = "failed" => errors' > 0
      <4>1. pc[q] = "failed" => errors > 0
        BY Zenon DEF PhaseInv
      <4>2. errors > 0 => errors' > 0
        BY ONLY <2>1
      <4> QED
        BY ONLY <3>1, <4>1, <4>2
    <3> QED
      BY <3>1, <3>2 DEF PhaseInv, Original
  <2>3. /\ pc'[r] \in Active \cup {"start"} => fused'[r] = None
        /\ pc'[r] = "done" => fused'[r] # None
        /\ pc'[r] = "failed" => errors' > 0
        /\ Original(r)' => fused'[r].of \in Runs
    <3> USE DEF TypeOK, PhaseInv, Goto, Original
    <3>1. CASE Check(r)
      <4>1. CASE IsDuplicate(r)
        <5>1. dedup[FpOf(r)] \in Alerts
          BY <4>1 DEF IsDuplicate, FpOf
        <5>2. fused'[r] = [decision |-> "duplicate", of |-> dedup[FpOf(r)]] /\ pc'[r] = "done"
          BY <3>1, <4>1 DEF Check
        <5>3. fused'[r] # None
          BY <5>1, <5>2, NoneAssumption DEF FusedAlert, Decision
        <5> QED
          BY <5>2, <5>3 DEF Active
      <4> QED
        BY <3>1, <4>1 DEF Check, Active
    <3>2. CASE Publish(r)
      <4>1. target[r] \in Runs
        BY <3>2 DEF Publish, HasTarget, Active
      <4>2. fused'[r] \in FusedAlert /\ fused'[r].of = target[r] /\ pc'[r] = "done"
        BY <3>2, <4>1 DEF Publish, FusedAlert, Decision
      <4> QED
        BY <4>1, <4>2, NoneAssumption DEF Active
    <3>3. CASE Register(r) \/ Lookup(r) \/ Load(r) \/ SaveMerged(r) \/ SaveNew(r) \/ SetIndex(r)
      BY <3>3 DEF Register, Lookup, Load, SaveMerged, SaveNew, SetIndex, Active
    <3>4. CASE Fail(r)
      BY <2>1, <3>4 DEF Fail, Active
    <3> QED
      BY <1>1, <3>1, <3>2, <3>3, <3>4 DEF Step
  <2> QED
    BY <2>2, <2>3 DEF PhaseInv
<1>2. CASE Expire \/ UNCHANGED vars
  BY <1>2 DEF Expire, vars, bounds, PhaseInv, Original
<1> QED
  BY <1>1, <1>2 DEF Next

LEMMA FreshStep == TypeOK /\ HasTarget /\ FreshInv /\ [Next]_vars => FreshInv'
<1> USE RunAssumption
<1> SUFFICES ASSUME TypeOK, HasTarget, FreshInv, [Next]_vars PROVE FreshInv'
  OBVIOUS
<1> USE DEF TypeOK, Goto, Made
<1>1. ASSUME NEW r \in Runs, Step(r) \/ Fail(r) PROVE FreshInv'
  <2>1. ASSUME NEW q \in Runs, q # r
        PROVE  pc'[q] = pc[q] /\ target'[q] = target[q]
    BY <1>1, <2>1, OthersStay
  <2>2. pc[r] \in Made => pc'[r] \in Made
    BY <1>1 DEF Step, Check, Register, Lookup, Load, SaveMerged, SaveNew, SetIndex, Publish,
                Fail, Active
  <2>3. \A i \in Runs : pc[i] \in Made => pc'[i] \in Made
    BY <2>1, <2>2
  <2>4. ASSUME NEW i \in Runs, pc'[i] \notin Made PROVE incident'[i] = NoIncident
    <3>1. incident[i] = NoIncident
      BY <2>3, <2>4 DEF FreshInv
    <3>2. CASE SaveMerged(r)
      <4>1. pc[target[r]] \in Made /\ target[r] \in Runs
        BY <3>2 DEF SaveMerged, FreshInv, HasTarget, Active
      <4>2. i # target[r]
        BY <2>3, <2>4, <4>1
      <4> QED
        BY <3>1, <3>2, <4>2 DEF SaveMerged
    <3>3. CASE SaveNew(r)
      <4>1. i # r
        BY <2>4, <3>3 DEF SaveNew
      <4> QED
        BY <3>1, <3>3, <4>1 DEF SaveNew
    <3>4. CASE incident' = incident
      BY <3>1, <3>4
    <3> QED
      BY <1>1, <3>2, <3>3, <3>4 DEF Step, Check, Register, Lookup, Load, SetIndex, Publish,
                                    Fail, redis
  <2>5. ASSUME NEW k \in Keys, index'[k] # None PROVE pc'[index'[k]] \in Made
    <3>1. CASE SetIndex(r) /\ k = KeyOf(r)
      BY <3>1 DEF SetIndex
    <3>2. CASE index'[k] = index[k]
      <4>1. index[k] \in Runs /\ pc[index[k]] \in Made
        BY <2>5, <3>2 DEF FreshInv
      <4> QED
        BY <2>3, <3>2, <4>1
    <3> QED
      BY <1>1, <3>1, <3>2 DEF Step, Check, Register, Lookup, Load, SaveMerged, SaveNew,
                              SetIndex, Publish, Fail, redis
  <2>6. /\ pc'[r] \in {"load", "merge"} => pc'[target'[r]] \in Made
        /\ pc'[r] \in {"create", "index"} => target'[r] = r
    <3>1. CASE Lookup(r)
      <4>1. CASE Indexed(r) = None
        BY <3>1, <4>1 DEF Lookup
      <4>2. CASE Indexed(r) # None
        <5>1. Indexed(r) \in Runs /\ pc[Indexed(r)] \in Made
          BY <4>2 DEF Indexed, KeyOf, FreshInv
        <5>2. target'[r] = Indexed(r) /\ pc'[r] = "load"
          BY <3>1, <4>2 DEF Lookup
        <5> QED
          BY <2>3, <5>1, <5>2
      <4> QED
        BY <4>1, <4>2
    <3>2. CASE Load(r)
      <4>1. pc[target[r]] \in Made /\ target[r] \in Runs
        BY <3>2 DEF Load, FreshInv, HasTarget, Active
      <4>2. pc'[target[r]] \in Made
        <5>1. \A i : i = target[r] => pc'[i] \in Made
          BY <2>3, <4>1
        <5>2. target[r] # r
          BY <3>2, <4>1 DEF Load
        <5> QED
          BY <2>1, <4>1, <5>2, <3>2 DEF Load
      <4>3. CASE target' = target /\ pc'[r] = "merge"
        BY <4>2, <4>3
      <4>4. CASE target' = [target EXCEPT ![r] = r] /\ pc'[r] = "create"
        BY <4>4
      <4> QED
        BY <3>2, <4>3, <4>4 DEF Load
    <3>3. CASE SaveNew(r)
      BY <3>3 DEF SaveNew, FreshInv, local
    <3>4. CASE ~Lookup(r) /\ ~Load(r) /\ ~SaveNew(r)
      BY <1>1, <3>4 DEF Step, Check, Register, SaveMerged, SetIndex, Publish, Fail
    <3> QED
      BY <3>1, <3>2, <3>3, <3>4
  <2>7. ASSUME NEW q \in Runs, q # r
        PROVE  /\ pc'[q] \in {"load", "merge"} => pc'[target'[q]] \in Made
               /\ pc'[q] \in {"create", "index"} => target'[q] = q
    <3>1. pc[q] \in {"load", "merge"} => target[q] \in Runs /\ pc[target[q]] \in Made
      BY DEF FreshInv, HasTarget, Active
    <3> QED
      BY <2>1, <2>3, <2>7, <3>1 DEF FreshInv
  <2> QED
    BY <2>4, <2>5, <2>6, <2>7 DEF FreshInv
<1>2. CASE Expire
  BY <1>2 DEF Expire, FreshInv, local
<1>3. CASE UNCHANGED vars
  BY <1>3 DEF vars, redis, local, FreshInv
<1> QED
  BY <1>1, <1>2, <1>3 DEF Next

LEMMA CauseStep ==
  TypeOK /\ HasTarget /\ PhaseInv /\ CauseInv /\ [Next]_vars => CauseInv'
<1> USE RunAssumption
<1> SUFFICES ASSUME TypeOK, HasTarget, PhaseInv, CauseInv, [Next]_vars, Sound'
             PROVE  /\ \A f \in Fingerprints : dedup'[f] # None =>
                         \E q \in Runs : FpOf(q) = f /\ Through(q)'
                    /\ SuppressionIsJustified'
  BY DEF CauseInv, SuppressionIsJustified
<1>0. Sound /\ UNCHANGED bounds
  BY SoundBefore
<1>1. CASE UNCHANGED vars
  BY <1>0, <1>1 DEF vars, redis, CauseInv, SuppressionIsJustified, Through, Original, FpOf, Sound
<1>2. ASSUME NEW r \in Runs, Step(r)
      PROVE  /\ \A f \in Fingerprints : dedup'[f] # None =>
                  \E q \in Runs : FpOf(q) = f /\ Through(q)'
             /\ SuppressionIsJustified'
  <2> USE DEF TypeOK, Goto
  <2>1. Through(r) => Through(r)'
    <3>1. CASE Publish(r)
      <4>1. fused'[r] \in FusedAlert /\ fused'[r].decision # "duplicate"
        <5>1. target[r] \in Runs
          BY <3>1 DEF Publish, HasTarget, Active
        <5> QED
          BY <3>1, <5>1 DEF Publish, FusedAlert, Decision
      <4> QED
        BY <4>1, NoneAssumption DEF Through, Original
    <3>2. CASE Check(r)
      BY <3>2 DEF Check, Through, Original, PhaseInv, Active
    <3>3. CASE ~Publish(r) /\ ~Check(r)
      BY <1>2, <3>3 DEF Step, Register, Lookup, Load, SaveMerged, SaveNew, SetIndex, Through,
                        Active
    <3> QED
      BY <3>1, <3>2, <3>3
  <2>2. \A q \in Runs : Through(q) => Through(q)'
    BY <1>2, <2>1, OthersStay
  <2>3. ASSUME NEW f \in Fingerprints, dedup'[f] # None
        PROVE  \E q \in Runs : FpOf(q) = f /\ Through(q)'
    <3>1. CASE dedup'[f] = dedup[f]
      BY <1>0, <2>2, <2>3, <3>1 DEF CauseInv
    <3>2. CASE Register(r) /\ f = FpOf(r)
      BY <3>2 DEF Register, Through, Active
    <3> QED
      BY <1>2, <3>1, <3>2 DEF Step, Check, Register, Lookup, Load, SaveMerged, SaveNew,
                              SetIndex, Publish, redis
  <2>4. ASSUME NEW q \in Runs, fused'[q] # None, fused'[q].decision = "duplicate"
        PROVE  \E p \in Runs \ {q} : FpOf(p) = FpOf(q) /\ Through(p)'
    <3>1. CASE q # r
      <4>1. fused[q] = fused'[q]
        BY <1>2, <3>1, OthersStay
      <4>2. PICK p \in Runs \ {q} : FpOf(p) = FpOf(q) /\ Through(p)
        BY <1>0, <2>4, <4>1 DEF CauseInv, SuppressionIsJustified, Through
      <4> QED
        BY <2>2, <4>2
    <3>2. CASE q = r
      <4>1. CASE Check(r) /\ IsDuplicate(r)
        <5>1. FpOf(r) \in Fingerprints /\ dedup[FpOf(r)] # None
          BY <4>1 DEF IsDuplicate, FpOf
        <5>2. PICK p \in Runs : FpOf(p) = FpOf(r) /\ Through(p)
          BY <1>0, <5>1 DEF CauseInv
        <5>3. ~Through(r)
          BY <4>1 DEF Check, Through, Original, PhaseInv, Active
        <5> QED
          BY <2>2, <3>2, <5>2, <5>3
      <4>2. CASE fused' = fused
        <5>1. PICK p \in Runs \ {q} : FpOf(p) = FpOf(q) /\ Through(p)
          BY <1>0, <2>4, <4>2 DEF CauseInv, SuppressionIsJustified, Through
        <5> QED
          BY <2>2, <5>1
      <4>3. CASE Publish(r)
        BY <2>4, <3>2, <4>3 DEF Publish
      <4> QED
        BY <1>2, <4>1, <4>2, <4>3 DEF Step, Check, Register, Lookup, Load, SaveMerged,
                                      SaveNew, SetIndex
    <3> QED
      BY <3>1, <3>2
  <2> QED
    BY <2>3, <2>4 DEF SuppressionIsJustified, Through, FpOf
<1>3. CASE \E r \in Runs : Fail(r)
  BY <1>0, <1>3, BoundsAssumption DEF Fail, bounds, TypeOK
<1>4. CASE Expire
  BY <1>0, <1>4, BoundsAssumption DEF Expire, bounds, TypeOK
<1> QED
  BY <1>1, <1>2, <1>3, <1>4 DEF Next

LEMMA AloneStep == TypeOK /\ HasTarget /\ ExactInv /\ [Next]_vars => AloneInv'
<1> USE RunAssumption
<1> SUFFICES ASSUME TypeOK, HasTarget, ExactInv, [Next]_vars, Sound', ~overlap'
             PROVE  AloneInv'
  BY DEF AloneInv
<1>0. /\ Sound /\ ~overlap /\ UNCHANGED bounds
      /\ PhaseInv /\ FreshInv /\ AloneInv
  BY SoundBefore DEF ExactInv
<1>1. CASE UNCHANGED vars
  BY <1>0, <1>1 DEF vars, redis, local, AloneInv, Through, Original, FpOf
<1>2. ASSUME NEW r \in Runs, Step(r) PROVE AloneInv'
  <2> USE DEF TypeOK, Goto
  <2>0. \A q \in Runs : q # r =>
          /\ pc'[q] = pc[q] /\ target'[q] = target[q] /\ loaded'[q] = loaded[q]
          /\ fused'[q] = fused[q]
          /\ (Original(q)' <=> Original(q)) /\ (Through(q)' <=> Through(q))
    BY <1>2, OthersStay
  \* Nobody else is in progress.
  <2>1. \/ pc'[r] = "done" /\ ~Through(r)'
        \/ \A q \in Runs : q # r => pc[q] \notin Active
    <3>1. CASE Check(r) /\ IsDuplicate(r)
      BY <3>1 DEF Check, Through, Original, Active
    <3>2. CASE Check(r) /\ ~IsDuplicate(r)
      <4>1. overlap' = (overlap \/ \E q \in Runs : pc[q] \in Active)
        BY <3>2 DEF Check
      <4>2. ~ \E q \in Runs : pc[q] \in Active
        BY <1>0, <1>2, <4>1, Zenon
      <4> QED
        BY <4>2
    <3>3. CASE pc[r] \in Active
      BY <1>0, <3>3 DEF AloneInv
    <3> QED
      BY <1>2, <3>1, <3>2, <3>3 DEF Step, Register, Lookup, Load, SaveMerged, SaveNew,
                                    SetIndex, Publish, Active
  <2>2. \A q, p \in Runs : pc'[q] \in Active /\ pc'[p] \in Active => q = p
    BY <1>0, <2>0, <2>1 DEF AloneInv, Active
  \* A fingerprint stays registered, and an alert in the incident it was fused with.
  <2>3. \A f \in Fingerprints : dedup[f] # None => dedup'[f] # None
    BY <1>2 DEF Step, Check, Register, Lookup, Load, SaveMerged, SaveNew, SetIndex, Publish,
                redis
  <2>4. \A i \in Runs : incident[i].alerts \subseteq incident'[i].alerts
    <3>1. CASE SaveMerged(r)
      <4>1. target[r] \in Runs /\ loaded[r] = incident[target[r]]
        BY <1>0, <3>1 DEF SaveMerged, HasTarget, Active, AloneInv
      <4>2. Merged(r).alerts = incident[target[r]].alerts \cup {AlertOf[r]}
        BY <4>1 DEF Merged
      <4> QED
        BY <3>1, <4>1, <4>2 DEF SaveMerged
    <3>2. CASE SaveNew(r)
      <4>1. incident[r].alerts = {}
        BY <1>0, <3>2 DEF SaveNew, FreshInv, Made, NoIncident
      <4> QED
        BY <3>2, <4>1 DEF SaveNew
    <3>3. CASE incident' = incident
      BY <3>3
    <3> QED
      BY <1>2, <3>1, <3>2, <3>3 DEF Step, Check, Register, Lookup, Load, SetIndex, Publish,
                                    redis
  <2>5. ASSUME NEW q \in Runs, q # r
        PROVE  /\ Original(q)' \/ pc'[q] \in Active \ {"register"} => dedup'[FpOf(q)] # None
               /\ pc'[q] = "merge" => loaded'[q] = incident'[target'[q]]
               /\ pc'[q] \in {"index", "publish"} => AlertOf[q] \in incident'[target'[q]].alerts
               /\ Original(q)' => AlertOf[q] \in incident'[fused'[q].of].alerts
    <3>1. Original(q)' \/ pc'[q] \in Active \ {"register"} => dedup'[FpOf(q)] # None
      <4>1. FpOf(q) \in Fingerprints
        BY DEF FpOf
      <4>2. Original(q) \/ pc[q] \in Active \ {"register"} => dedup[FpOf(q)] # None
        BY <1>0 DEF AloneInv
      <4> QED
        BY <2>0, <2>3, <2>5, <4>1, <4>2
    <3>2. pc'[q] = "merge" => loaded'[q] = incident'[target'[q]]
      <4>1. CASE pc[q] \in Active
        <5>1. pc'[r] = "done" /\ ~Through(r)'
          BY <2>1, <2>5, <4>1
        <5>2. incident' = incident
          <6>1. ~SaveMerged(r) /\ ~SaveNew(r)
            BY <5>1 DEF SaveMerged, SaveNew
          <6> QED
            BY <1>2, <6>1 DEF Step, Check, Register, Lookup, Load, SetIndex, Publish, redis
        <5> QED
          BY <1>0, <2>0, <2>5, <5>2 DEF AloneInv
      <4>2. CASE pc[q] \notin Active
        BY <2>0, <2>5, <4>2 DEF Active
      <4> QED
        BY <4>1, <4>2
    <3>3. pc'[q] \in {"index", "publish"} => AlertOf[q] \in incident'[target'[q]].alerts
      <4>1. pc[q] \in {"index", "publish"} =>
              target[q] \in Runs /\ AlertOf[q] \in incident[target[q]].alerts
        BY <1>0 DEF AloneInv, HasTarget, Active
      <4> QED
        BY <2>0, <2>4, <2>5, <4>1
    <3>4. Original(q)' => AlertOf[q] \in incident'[fused'[q].of].alerts
      <4>1. Original(q) => fused[q].of \in Runs /\ AlertOf[q] \in incident[fused[q].of].alerts
        BY <1>0 DEF AloneInv, PhaseInv
      <4> QED
        BY <2>0, <2>4, <2>5, <4>1
    <3> QED
      BY <3>1, <3>2, <3>3, <3>4
  <2>6. /\ Original(r)' \/ pc'[r] \in Active \ {"register"} => dedup'[FpOf(r)] # None
        /\ pc'[r] = "merge" => loaded'[r] = incident'[target'[r]]
        /\ pc'[r] \in {"index", "publish"} => AlertOf[r] \in incident'[target'[r]].alerts
        /\ Original(r)' => AlertOf[r] \in incident'[fused'[r].of].alerts
    <3>0. FpOf(r) \in Fingerprints /\ AlertOf[r] \in Alerts
      BY DEF FpOf
    <3>1. CASE Check(r)
      <4>1. ~Original(r)' /\ pc'[r] \in {"done", "register"}
        BY <1>0, <3>1 DEF Check, Original, PhaseInv
      <4> QED
        BY <4>1 DEF Active
    <3>2. CASE Register(r)
      <4>1. dedup'[FpOf(r)] = AlertOf[r] /\ AlertOf[r] # None /\ pc'[r] = "lookup"
        BY <3>0, <3>2 DEF Register
      <4>2. ~Original(r)'
        BY <1>0, <3>2 DEF Register, Original, PhaseInv, Active
      <4> QED
        BY <4>1, <4>2 DEF Active
    <3>3. CASE Lookup(r) \/ Load(r) \/ SaveMerged(r) \/ SaveNew(r) \/ SetIndex(r)
      <4>1. /\ pc[r] \in Active \ {"register"} /\ dedup' = dedup /\ fused' = fused
            /\ fused[r] = None
        BY <1>0, <3>3 DEF Lookup, Load, SaveMerged, SaveNew, SetIndex, Active, PhaseInv, redis
      <4>2. dedup'[FpOf(r)] # None /\ ~Original(r)'
        BY <1>0, <4>1 DEF AloneInv, Original
      <4>3. pc'[r] = "merge" => loaded'[r] = incident'[target'[r]]
        BY <3>3 DEF Lookup, Load, SaveMerged, SaveNew, SetIndex, redis
      <4>4. pc'[r] \in {"index", "publish"} => AlertOf[r] \in incident'[target'[r]].alerts
        <5>1. CASE SaveMerged(r)
          <6>1. target[r] \in Runs /\ target' = target
            BY <5>1 DEF SaveMerged, HasTarget, Active, local
          <6>2. incident'[target[r]] = Merged(r)
            BY <5>1, <6>1 DEF SaveMerged
          <6> QED
            BY <6>1, <6>2 DEF Merged
        <5>2. CASE SaveNew(r)
          <6>1. target'[r] = r
            BY <1>0, <5>2 DEF SaveNew, FreshInv, local
          <6>2. incident'[r] = [count |-> 1, alerts |-> {AlertOf[r]}]
            BY <5>2 DEF SaveNew
          <6> QED
            BY <6>1, <6>2
        <5>3. CASE SetIndex(r)
          BY <1>0, <5>3 DEF SetIndex, AloneInv, local
        <5>4. CASE Lookup(r) \/ Load(r)
          BY <5>4 DEF Lookup, Load
        <5> QED
          BY <3>3, <5>1, <5>2, <5>3, <5>4
      <4> QED
        BY <4>2, <4>3, <4>4
    <3>4. CASE Publish(r)
      <4>1. dedup[FpOf(r)] # None /\ AlertOf[r] \in incident[target[r]].alerts
        BY <1>0, <3>4 DEF Publish, AloneInv, Active
      <4>2. fused'[r].of = target[r] /\ UNCHANGED <<dedup, incident>> /\ pc'[r] = "done"
        BY <3>4 DEF Publish, redis
      <4> QED
        BY <4>1, <4>2 DEF Active
    <3> QED
      BY <1>2, <3>1, <3>2, <3>3, <3>4 DEF Step
  <2>7. \A q, p \in Runs : Through(q)' /\ Through(p)' /\ FpOf(q) = FpOf(p) => q = p
    <3>1. CASE Through(r)' => Through(r)
      BY <1>0, <2>0, <3>1 DEF AloneInv
    <3>2. CASE Through(r)' /\ ~Through(r)
      <4>1. Check(r) /\ ~IsDuplicate(r)
        BY <1>2, <3>2 DEF Step, Check, Register, Lookup, Load, SaveMerged, SaveNew, SetIndex,
                          Publish, Through, Original, Active
      <4>2. \A q \in Runs : q # r => pc[q] \notin Active
        BY <2>1, <3>2
      <4>3. \A q \in Runs : Through(q) /\ FpOf(q) = FpOf(r) => FALSE
        <5> SUFFICES ASSUME NEW q \in Runs, Through(q), FpOf(q) = FpOf(r) PROVE FALSE
          OBVIOUS
        <5>1. q # r
          BY <3>2
        <5>2. Original(q)
          BY <4>2, <5>1 DEF Through
        <5>3. dedup[FpOf(r)] # None
          BY <1>0, <5>2 DEF AloneInv
        <5> QED
          BY <4>1, <5>3 DEF IsDuplicate
      <4> QED
        BY <1>0, <2>0, <4>3 DEF AloneInv
    <3> QED
      BY <3>1, <3>2
  <2>8. \A q \in Runs :
          /\ Original(q)' \/ pc'[q] \in Active \ {"register"} => dedup'[FpOf(q)] # None
          /\ pc'[q] = "merge" => loaded'[q] = incident'[target'[q]]
          /\ pc'[q] \in {"index", "publish"} => AlertOf[q] \in incident'[target'[q]].alerts
          /\ Original(q)' => AlertOf[q] \in incident'[fused'[q].of].alerts
    BY <2>5, <2>6
  <2> QED
    BY <2>2, <2>7, <2>8 DEF AloneInv, FpOf
<1>3. CASE \E r \in Runs : Fail(r)
  BY <1>0, <1>3, BoundsAssumption DEF Fail, bounds, TypeOK
<1>4. CASE Expire
  BY <1>0, <1>4, BoundsAssumption DEF Expire, bounds, TypeOK
<1> QED
  BY <1>1, <1>2, <1>3, <1>4 DEF Next

LEMMA ExactInductive == Spec => []ExactInv
<1>1. TypeOK /\ HasTarget /\ ExactInv /\ [Next]_vars => ExactInv'
  BY PhaseStep, CauseStep, FreshStep, AloneStep DEF ExactInv
<1> QED
  BY <1>1, ExactInit, Typed, PTL DEF Spec

LEMMA ExactImplies == ExactInv => SuppressionIsJustified /\ SequentialRunsAreExact
BY DEF ExactInv, CauseInv, AloneInv, SequentialRunsAreExact, Through

\* Without errors and expiry no alert is suppressed for nothing: a run of the same
\* fingerprint has been fused or is in progress, however runs interleave.
THEOREM SuppressedForCause == Spec => []SuppressionIsJustified
BY ExactInductive, ExactImplies, PTL

\* Runs that do not overlap fuse every fingerprint once, and a fused alert is in the
\* incident its envelope names.
THEOREM SequentialIsExact == Spec => []SequentialRunsAreExact
BY ExactInductive, ExactImplies, PTL

-----------------------------------------------------------------------------
(***************************************************************************)
(* Entity risk beside the pipeline.  The pipeline's steps are its own; a   *)
(* failed observe() and an expiry of a risk record only use up the bounds. *)
(***************************************************************************)
BoundsMove ==
  /\ UNCHANGED <<redis, pc, local, fused, overlap>>
  /\ errors' \in errors .. MaxErrors /\ expiries' \in expiries .. MaxExpiries

LEMMA BoundsHarmless ==
  TypeOK /\ HasTarget /\ IncidentInv /\ ExactInv /\ BoundsMove =>
    TypeOK' /\ HasTarget' /\ IncidentInv' /\ ExactInv'
<1> SUFFICES ASSUME TypeOK, HasTarget, IncidentInv, ExactInv, BoundsMove
             PROVE  TypeOK' /\ HasTarget' /\ IncidentInv' /\ ExactInv'
  OBVIOUS
<1>1. /\ UNCHANGED <<dedup, index, incident, pc, target, loaded, fused, overlap>>
      /\ errors' \in 0 .. MaxErrors /\ expiries' \in 0 .. MaxExpiries
      /\ errors > 0 => errors' > 0
      /\ Sound' => Sound
  BY BoundsAssumption DEF BoundsMove, TypeOK, redis, local, Sound
<1>2. TypeOK' /\ HasTarget' /\ IncidentInv'
  BY <1>1 DEF TypeOK, HasTarget, IncidentInv, IndexedByKey, MergeReady, IncidentOK, KeyOf
<1>3. \A r \in Runs : Original(r)' = Original(r) /\ Through(r)' = Through(r)
  BY <1>1 DEF Original, Through
<1>4. PhaseInv' /\ FreshInv'
  <2>1. FreshInv'
    BY <1>1 DEF ExactInv, FreshInv, Made
  <2>2. \A r \in Runs : pc'[r] = "failed" => errors' > 0
    <3>1. \A r \in Runs : pc[r] = "failed" => errors > 0
      BY Zenon DEF ExactInv, PhaseInv
    <3> QED
      BY <1>1, <3>1
  <2> QED
    BY <1>1, <1>3, <2>1, <2>2 DEF ExactInv, PhaseInv
<1>5. CauseInv'
  BY <1>1, <1>3 DEF ExactInv, CauseInv, SuppressionIsJustified, FpOf, Through, Original
<1>6. AloneInv'
  BY <1>1, <1>3 DEF ExactInv, AloneInv, FpOf
<1> QED
  BY <1>2, <1>4, <1>5, <1>6 DEF ExactInv

LEMMA PipelineBesideRisk ==
  TypeOK /\ [RNext]_rvars => [Next]_vars \/ BoundsMove
<1> SUFFICES ASSUME TypeOK, [RNext]_rvars PROVE Next \/ UNCHANGED vars \/ BoundsMove
  OBVIOUS
<1>1. ASSUME NEW r \in Runs, PipelineStep(r) PROVE Next
  BY <1>1 DEF PipelineStep, Next
<1>2. ASSUME NEW r \in Runs, ObserveStep(r) PROVE UNCHANGED vars
  BY <1>2 DEF ObserveStep, LoadRisk, SaveRisk, SavePromoted, ListPromoted
<1>3. ASSUME NEW r \in Runs, ObserveFails(r) PROVE BoundsMove
  BY <1>3, BoundsAssumption DEF ObserveFails, BoundsMove, TypeOK
<1>4. ASSUME NEW r \in Runs, RunFails(r) PROVE Next
  BY <1>4 DEF RunFails, Next
<1>5. CASE RiskExpires
  BY <1>5, BoundsAssumption DEF RiskExpires, BoundsMove, TypeOK
<1>6. CASE Expire
  BY <1>6 DEF Next
<1>7. CASE UNCHANGED rvars
  BY <1>7 DEF rvars
<1>8. CASE \E r \in Runs :
             PipelineStep(r) \/ ObserveStep(r) \/ ObserveFails(r) \/ RunFails(r)
  <2>1. PICK r \in Runs :
          PipelineStep(r) \/ ObserveStep(r) \/ ObserveFails(r) \/ RunFails(r)
    BY <1>8
  <2> QED
    BY <2>1, <1>1, <1>2, <1>3, <1>4
<1> QED
  BY <1>5, <1>6, <1>7, <1>8 DEF RNext

PipelineInv == TypeOK /\ HasTarget /\ IncidentInv /\ ExactInv

LEMMA PipelineStays == PipelineInv /\ [RNext]_rvars => PipelineInv'
BY PipelineBesideRisk, BoundsHarmless, TypeStep, TargetStep, IncidentStep, PhaseStep,
   CauseStep, FreshStep, AloneStep DEF PipelineInv, ExactInv

LEMMA PipelineInvariant == RSpec => []PipelineInv
<1>1. RInit => PipelineInv
  BY TypeInit, IncidentInit, ExactInit DEF RInit, PipelineInv
<1> QED
  BY <1>1, PipelineStays, PTL DEF RSpec

\* Beside entity risk, too, no incident outgrows its limit.
THEOREM BoundedBesideRisk == RSpec => []IncidentBounded
<1>1. PipelineInv => IncidentBounded
  BY DEF PipelineInv, IncidentInv, IncidentOK, IncidentBounded
<1> QED
  BY <1>1, PipelineInvariant, PTL

\* Nor do the risk records change what suppression and correlation promise: an error
\* of observe() counts as one.
THEOREM ExactBesideRisk == RSpec => [](SuppressionIsJustified /\ SequentialRunsAreExact)
<1>1. PipelineInv => SuppressionIsJustified /\ SequentialRunsAreExact
  BY ExactImplies DEF PipelineInv
<1> QED
  BY <1>1, PipelineInvariant, PTL

-----------------------------------------------------------------------------
(***************************************************************************)
(* The steps of observe(), on the run r and the entity e.                  *)
(***************************************************************************)
Busy(r) == Observes(r) /\ signal[r].pc # "load"

Alone(r) == \A q \in Runs : q # r => signal'[q] = signal[q]

LEMMA SignalFacts ==
  ASSUME NEW r \in Runs
  PROVE  /\ AlertOf[r] \in Alerts /\ Points[AlertOf[r]] \in Nat \ {0}
         /\ Signals(r) \in Seq(Entities) /\ Len(Signals(r)) \in Nat
         /\ DOMAIN Signals(r) = 1 .. Len(Signals(r))
         /\ \A i \in DOMAIN Signals(r) : Signals(r)[i] \in Entities
         /\ \A i, j \in DOMAIN Signals(r) : Signals(r)[i] = Signals(r)[j] => i = j
<1>1. AlertOf[r] \in Alerts
  BY RunAssumption
<1>2. Signals(r) \in Seq(Entities)
  BY <1>1, RiskAssumption DEF Signals
<1> QED
  BY <1>1, <1>2, RiskAssumption, LenProperties DEF Signals

\* A run that observes works on an entity.
LEMMA EntityTyped ==
  ASSUME RTypeOK, NEW r \in Runs, Observes(r)
  PROVE  EntityOf(r) \in Entities /\ signal[r].at \in DOMAIN Signals(r)
<1>1. signal[r].at \in 1 .. Len(Signals(r))
  BY SignalFacts DEF Observes, RTypeOK, SignalRecord
<1> QED
  BY <1>1, SignalFacts DEF EntityOf

LEMMA AtTyped ==
  ASSUME NEW i \in Nat \ {0}
  PROVE  NoRisk \in Record /\ At(i) \in SignalRecord
<1>1. <<>> \in Seq(Alerts)
  BY EmptySeq
<1>2. NoRisk \in Record
  BY <1>1 DEF NoRisk, Record
<1> QED
  BY <1>2 DEF At, SignalRecord

\* The contributors of a record, one alert later.
LEMMA ContributorFacts ==
  ASSUME NEW record \in Record, NEW a \in Alerts, Len(record.by) <= MaxContributors,
         NEW by, by = WithContributor(record, a)
  PROVE  /\ by \in Seq(Alerts) /\ Len(by) <= MaxContributors
         /\ {by[i] : i \in DOMAIN by} \subseteq Contributors(record) \cup {a}
         /\ \/ Contributors(record) \cup {a} \subseteq {by[i] : i \in DOMAIN by}
            \/ Len(by) = MaxContributors
         /\ Len(record.by) = MaxContributors => Len(by) = MaxContributors
<1>1. record.by \in Seq(Alerts) /\ Len(record.by) \in Nat /\ MaxContributors \in Nat \ {0}
  BY LenProperties, RiskAssumption DEF Record
<1>2. CASE a \in Contributors(record)
  BY <1>1, <1>2 DEF WithContributor, Contributors
<1>3. CASE a \notin Contributors(record)
  <2> DEFINE s == Append(record.by, a)
  <2>1. /\ s \in Seq(Alerts) /\ Len(s) = Len(record.by) + 1
        /\ \A i \in 1 .. Len(record.by) : s[i] = record.by[i]
        /\ s[Len(record.by) + 1] = a
    BY <1>1, AppendProperties
  <2>2. DOMAIN record.by = 1 .. Len(record.by) /\ DOMAIN s = 1 .. Len(record.by) + 1
    BY <1>1, <2>1, LenProperties
  <2>3. by = Capped(s)
    BY <1>3 DEF WithContributor
  <2> HIDE DEF s
  <2>4. \A i \in DOMAIN s : s[i] \in Contributors(record) \cup {a}
    BY <1>1, <2>1, <2>2 DEF Contributors
  <2>5. \A x \in Contributors(record) \cup {a} : \E i \in DOMAIN s : s[i] = x
    BY <1>1, <2>1, <2>2 DEF Contributors
  <2>6. CASE Len(s) <= MaxContributors
    <3>1. ~(Len(s) > MaxContributors) /\ Len(record.by) # MaxContributors
      BY <1>1, <2>1, <2>6
    <3>2. by = s
      BY <2>3, <3>1 DEF Capped
    <3> QED
      BY <2>1, <2>4, <2>5, <2>6, <3>1, <3>2
  <2>7. CASE Len(s) > MaxContributors
    <3>1. by = SubSeq(s, 2, Len(s)) /\ Len(s) = MaxContributors + 1
      <4>1. Len(s) = MaxContributors + 1 /\ Len(s) - MaxContributors + 1 = 2
        BY <1>1, <2>1, <2>7
      <4> QED
        BY <2>3, <2>7, <4>1 DEF Capped
    <3>2. \A i \in 2 .. Len(s) : s[i] \in Alerts /\ i \in DOMAIN s
      BY <1>1, <2>1, <2>2, LenProperties
    <3>3. /\ by \in Seq(Alerts) /\ Len(by) = MaxContributors
          /\ \A i \in 1 .. MaxContributors : by[i] = s[2 + i - 1]
      BY <1>1, <3>1, <3>2, SubSeqProperties
    <3>4. DOMAIN by = 1 .. MaxContributors
      BY <3>3, LenProperties
    <3>5. \A i \in DOMAIN by : by[i] \in Contributors(record) \cup {a}
      BY <1>1, <2>1, <2>2, <2>4, <3>1, <3>3, <3>4
    <3> QED
      BY <1>1, <3>3, <3>5
  <2>8. Len(s) <= MaxContributors \/ Len(s) > MaxContributors
    BY <1>1, <2>1
  <2> QED
    BY <2>6, <2>7, <2>8
<1> QED
  BY <1>2, <1>3

LEMMA DecayedFacts ==
  ASSUME NEW n \in Nat, NEW score \in Decayed(n)
  PROVE  score \in Nat /\ score <= n
BY DEF Decayed

LEMMA LoadEffect ==
  ASSUME RTypeOK, NEW r \in Runs, LoadRisk(r), NEW e \in Entities, e = EntityOf(r),
         Len(risk[e].by) <= MaxContributors
  PROVE  \E score \in Decayed(risk[e].score), new \in Record :
           /\ new = Applied(r, risk[e], score)
           /\ signal' \in [Runs -> SignalRecord] /\ Alone(r)
           /\ signal'[r] = [pc |-> "save", at |-> signal[r].at, record |-> new,
                            failed |-> FALSE]
<1>1. PICK score \in Decayed(risk[e].score) :
        signal' = [signal EXCEPT ![r].pc = "save", ![r].record = Applied(r, risk[e], score)]
  BY DEF LoadRisk
<1>2. risk[e] \in Record /\ risk[e].score \in Nat /\ score \in Nat
  BY DecayedFacts DEF RTypeOK, Record
<1>3. WithContributor(risk[e], AlertOf[r]) \in Seq(Alerts)
  BY <1>2, SignalFacts, ContributorFacts
<1>4. Applied(r, risk[e], score) \in Record
  BY <1>2, <1>3, SignalFacts DEF Applied, Record
<1>5. PICK new \in Record : new = Applied(r, risk[e], score)
  BY <1>4
<1>6. signal \in [Runs -> SignalRecord] /\ ~signal[r].failed
  BY DEF RTypeOK, LoadRisk, Observing, Observes
<1>7. signal[r] \in SignalRecord /\ signal[r].failed = FALSE
  BY <1>6 DEF SignalRecord
<1>8. signal'[r] = [pc |-> "save", at |-> signal[r].at, record |-> new, failed |-> FALSE]
  BY <1>1, <1>5, <1>6, <1>7 DEF SignalRecord
<1>9. signal'[r] \in SignalRecord
  BY <1>7, <1>8 DEF SignalRecord
<1>10. Alone(r) /\ signal' \in [Runs -> SignalRecord]
  BY <1>1, <1>6, <1>9 DEF Alone
<1> QED
  BY <1>5, <1>8, <1>10

LEMMA NextEffect ==
  ASSUME RTypeOK, NEW r \in Runs, NextSignal(r)
  PROVE  /\ signal' \in [Runs -> SignalRecord] /\ Alone(r)
         /\ signal'[r] = At(signal[r].at + 1)
<1>1. signal \in [Runs -> SignalRecord] /\ signal[r].at + 1 \in Nat \ {0}
  BY DEF RTypeOK, SignalRecord
<1>2. signal'[r] = At(signal[r].at + 1) /\ signal'[r] \in SignalRecord
  BY <1>1, AtTyped DEF NextSignal
<1> QED
  BY <1>1, <1>2 DEF NextSignal, Alone

\* After the save the run promotes the record it holds, or goes on.
LEMMA SaveEffect ==
  ASSUME RTypeOK, NEW r \in Runs, SaveRisk(r)
  PROVE  /\ signal' \in [Runs -> SignalRecord] /\ Alone(r)
         /\ \/ /\ Crosses(signal[r].record)
               /\ \E new \in Record :
                    /\ new = [signal[r].record EXCEPT !.promoted = TRUE]
                    /\ signal'[r] = [pc |-> "promote", at |-> signal[r].at,
                                     record |-> new, failed |-> FALSE]
            \/ ~Crosses(signal[r].record) /\ signal'[r] = At(signal[r].at + 1)
<1>1. signal \in [Runs -> SignalRecord] /\ signal[r] \in SignalRecord
  BY DEF RTypeOK
<1>2. signal[r].record \in Record /\ signal[r].failed = FALSE
  BY <1>1 DEF SignalRecord, SaveRisk, Observing, Observes
<1>3. CASE Crosses(signal[r].record)
  <2>1. signal' = [signal EXCEPT ![r].pc = "promote", ![r].record.promoted = TRUE]
    BY <1>3 DEF SaveRisk
  <2>2. PICK new \in Record : new = [signal[r].record EXCEPT !.promoted = TRUE]
    BY <1>2 DEF Record
  <2>3. signal'[r] = [pc |-> "promote", at |-> signal[r].at, record |-> new,
                      failed |-> FALSE]
    BY <1>1, <1>2, <2>1, <2>2 DEF SignalRecord
  <2>4. signal'[r] \in SignalRecord
    BY <1>1, <2>3 DEF SignalRecord
  <2>5. Alone(r) /\ signal' \in [Runs -> SignalRecord]
    BY <1>1, <2>1, <2>4 DEF Alone
  <2> QED
    BY <1>3, <2>2, <2>3, <2>5
<1>4. CASE ~Crosses(signal[r].record)
  BY <1>4, NextEffect DEF SaveRisk
<1> QED
  BY <1>3, <1>4

LEMMA PromoteEffect ==
  ASSUME RTypeOK, NEW r \in Runs, SavePromoted(r)
  PROVE  /\ signal' \in [Runs -> SignalRecord] /\ Alone(r)
         /\ signal'[r] = [pc |-> "list", at |-> signal[r].at,
                          record |-> signal[r].record, failed |-> FALSE]
<1>1. signal \in [Runs -> SignalRecord] /\ signal[r] \in SignalRecord
  BY DEF RTypeOK
<1>2. signal[r].failed = FALSE /\ signal' = [signal EXCEPT ![r].pc = "list"]
  BY <1>1 DEF SignalRecord, SavePromoted, Observing, Observes
<1>3. signal'[r] = [pc |-> "list", at |-> signal[r].at,
                    record |-> signal[r].record, failed |-> FALSE]
  BY <1>1, <1>2 DEF SignalRecord
<1>4. signal'[r] \in SignalRecord
  BY <1>1, <1>3 DEF SignalRecord
<1> QED
  BY <1>1, <1>2, <1>3, <1>4 DEF Alone

LEMMA FailEffect ==
  ASSUME RTypeOK, NEW r \in Runs, ObserveFails(r)
  PROVE  /\ signal' \in [Runs -> SignalRecord] /\ Alone(r)
         /\ signal'[r].failed /\ signal'[r].at = signal[r].at
         /\ signal'[r].pc = signal[r].pc
<1>1. signal \in [Runs -> SignalRecord] /\ signal[r] \in SignalRecord
  BY DEF RTypeOK
<1>2. signal' = [signal EXCEPT ![r].failed = TRUE, ![r].record = NoRisk]
  BY DEF ObserveFails
<1>3. signal'[r] = [pc |-> signal[r].pc, at |-> signal[r].at, record |-> NoRisk,
                    failed |-> TRUE]
  BY <1>1, <1>2 DEF SignalRecord
<1>4. NoRisk \in Record
  BY AtTyped
<1>5. signal'[r] \in SignalRecord
  BY <1>1, <1>3, <1>4 DEF SignalRecord
<1> QED
  BY <1>1, <1>2, <1>3, <1>5 DEF Alone

-----------------------------------------------------------------------------
(***************************************************************************)
(* The runs that have been charged, and their points.                      *)
(***************************************************************************)
ChargedBy(r, e) ==
  \E i \in DOMAIN Signals(r) :
    /\ Signals(r)[i] = e
    /\ i < signal[r].at \/ (i = signal[r].at /\ signal[r].pc # "load")

LEMMA ChargingSet == \A e : Charging(e) = {r \in Runs : ChargedBy(r, e)}
BY DEF Charging, ChargedBy

\* Only a load charges an entity, and a run charges it once: it has no two signals
\* of one entity.
LEMMA LoadCharges ==
  ASSUME RTypeOK, NEW r \in Runs, NEW e \in Entities, e = EntityOf(r),
         Observing(r, "load"), Alone(r),
         signal'[r].pc = "save", signal'[r].at = signal[r].at
  PROVE  /\ r \notin Charging(e) /\ Charging(e)' = Charging(e) \cup {r}
         /\ \A f : f # e => Charging(f)' = Charging(f)
<1>1. /\ signal[r].at \in DOMAIN Signals(r) /\ Signals(r)[signal[r].at] = e
      /\ signal[r].pc = "load"
  BY EntityTyped DEF EntityOf, Observing
<1>2. DOMAIN Signals(r) = 1 .. Len(Signals(r)) /\ Len(Signals(r)) \in Nat
  BY SignalFacts
<1>3. ~ChargedBy(r, e)
  <2> SUFFICES ASSUME NEW i \in DOMAIN Signals(r), Signals(r)[i] = e, i < signal[r].at
               PROVE  FALSE
    BY <1>1 DEF ChargedBy
  <2>1. i = signal[r].at
    BY <1>1, SignalFacts
  <2> QED
    BY <1>2, <2>1
<1>4. ChargedBy(r, e)'
  BY <1>1 DEF ChargedBy, Signals
<1>5. \A f : f # e => (ChargedBy(r, f)' <=> ChargedBy(r, f))
  BY <1>1 DEF ChargedBy, Signals
<1>6. \A q \in Runs : \A f : q # r => (ChargedBy(q, f)' <=> ChargedBy(q, f))
  BY DEF Alone, ChargedBy, Signals
<1>7. \A f : Charging(f)' = {q \in Runs : ChargedBy(q, f)'}
  BY DEF Charging, ChargedBy, Signals
<1> QED
  BY <1>3, <1>4, <1>5, <1>6, <1>7, ChargingSet

LEMMA SameCharges ==
  ASSUME RTypeOK, NEW r \in Runs, Alone(r),
         \/ /\ signal'[r].at = signal[r].at
            /\ signal'[r].pc = "load" <=> signal[r].pc = "load"
         \/ /\ signal[r].pc # "load" /\ signal'[r].pc = "load"
            /\ signal'[r].at = signal[r].at + 1
  PROVE  \A f : Charging(f)' = Charging(f)
<1>1. DOMAIN Signals(r) = 1 .. Len(Signals(r)) /\ Len(Signals(r)) \in Nat
  BY SignalFacts
<1>2. signal[r].at \in Nat
  BY DEF RTypeOK, SignalRecord
<1>3. \A i \in DOMAIN Signals(r) :
        (i < signal'[r].at \/ (i = signal'[r].at /\ signal'[r].pc # "load"))
          <=> (i < signal[r].at \/ (i = signal[r].at /\ signal[r].pc # "load"))
  BY <1>1, <1>2
<1>4. \A f : ChargedBy(r, f)' <=> ChargedBy(r, f)
  BY <1>3 DEF ChargedBy, Signals
<1>5. \A q \in Runs : \A f : q # r => (ChargedBy(q, f)' <=> ChargedBy(q, f))
  BY DEF Alone, ChargedBy, Signals
<1>6. \A f : Charging(f)' = {q \in Runs : ChargedBy(q, f)'}
  BY DEF Charging, ChargedBy, Signals
<1> QED
  BY <1>4, <1>5, <1>6, ChargingSet

LEMMA PointsFinite ==
  ASSUME NEW R \in SUBSET Runs
  PROVE  /\ IsFiniteSet(R) /\ Cardinality(R) \in Nat
         /\ IsFiniteSet(PointsOf(R)) /\ Cardinality(PointsOf(R)) \in Nat
<1>1. IsFiniteSet(R)
  BY RiskAssumption, FS_Subset
<1> DEFINE Own(r) == {r} \X (1 .. Points[AlertOf[r]])
           own == [r \in R |-> Own(r)]
           Parts == {Own(r) : r \in R}
<1>2. own \in Surjection(R, Parts)
  BY DEF Surjection
<1>3. IsFiniteSet(Parts)
  BY <1>1, <1>2, FS_Surjection
<1>4. \A T \in Parts : IsFiniteSet(T)
  <2> SUFFICES ASSUME NEW r \in R PROVE IsFiniteSet(Own(r))
    OBVIOUS
  <2> DEFINE p == Points[AlertOf[r]]
  <2>1. IsFiniteSet({r}) /\ IsFiniteSet(1 .. p)
    <3>1. p \in Int /\ 1 \in Int
      BY SignalFacts
    <3> HIDE DEF p
    <3> QED
      BY <3>1, FS_Singleton, FS_Interval
  <2> QED
    BY <2>1, FS_Product
<1>5. IsFiniteSet(UNION Parts)
  <2> HIDE DEF Parts
  <2> QED
    BY <1>3, <1>4, FS_UNION
<1>6. PointsOf(R) = UNION Parts
  BY DEF PointsOf
<1> QED
  BY <1>1, <1>5, <1>6, FS_CardinalityType

LEMMA PointsAdd ==
  ASSUME NEW R \in SUBSET Runs, NEW r \in Runs, r \notin R
  PROVE  /\ Cardinality(R \cup {r}) = Cardinality(R) + 1
         /\ Cardinality(PointsOf(R \cup {r})) = Cardinality(PointsOf(R)) + Points[AlertOf[r]]
<1> DEFINE p == Points[AlertOf[r]]
           own == {r} \X (1 .. p)
<1>1. p \in Nat /\ p > 0
  BY SignalFacts
<1>2. IsFiniteSet(R) /\ IsFiniteSet(PointsOf(R)) /\ Cardinality(PointsOf(R)) \in Nat
  BY PointsFinite
<1>3. IsFiniteSet(own) /\ Cardinality(own) = p
  <2>1. IsFiniteSet({r}) /\ Cardinality({r}) = 1
    BY FS_Singleton
  <2>2. IsFiniteSet(1 .. p) /\ Cardinality(1 .. p) = p
    <3> HIDE DEF p
    <3>1. p \in Int /\ 1 \in Int /\ ~(1 > p) /\ p - 1 + 1 = p
      BY <1>1
    <3>2. /\ IsFiniteSet(1 .. p)
          /\ Cardinality(1 .. p) = IF 1 > p THEN 0 ELSE p - 1 + 1
      BY <3>1, FS_Interval
    <3> QED
      BY <3>1, <3>2
  <2>3. IsFiniteSet(own) /\ Cardinality(own) = 1 * p
    BY <2>1, <2>2, FS_Product
  <2> QED
    BY <1>1, <2>3
<1>4. PointsOf(R \cup {r}) = PointsOf(R) \cup own
  BY DEF PointsOf
<1>5. PointsOf(R) \cap own = {}
  BY DEF PointsOf
<1>6. Cardinality(PointsOf(R) \cup own) = Cardinality(PointsOf(R)) + p
  <2> HIDE DEF own, p
  <2>1. Cardinality(PointsOf(R) \cup own) =
          Cardinality(PointsOf(R)) + Cardinality(own) - Cardinality(PointsOf(R) \cap own)
    BY <1>2, <1>3, FS_Union
  <2>2. Cardinality(PointsOf(R) \cap own) = 0
    BY <1>5, FS_EmptySet
  <2> QED
    BY <1>1, <1>2, <1>3, <2>1, <2>2
<1> QED
  BY <1>2, <1>4, <1>6, FS_AddElement

\* What is justified by some runs is justified by more.
LEMMA JustifiedGrows ==
  ASSUME NEW R \in SUBSET Runs, NEW S \in SUBSET Runs, R \subseteq S
  PROVE  /\ Cardinality(PointsOf(R)) <= Cardinality(PointsOf(S))
         /\ \A record \in Record : Justified(record, R) => Justified(record, S)
<1>1. PointsOf(R) \in SUBSET PointsOf(S) /\ AlertsOf(R) \subseteq AlertsOf(S)
  BY DEF PointsOf, AlertsOf
<1>2. /\ IsFiniteSet(S) /\ IsFiniteSet(PointsOf(S))
      /\ {Cardinality(R), Cardinality(S)} \subseteq Nat
      /\ {Cardinality(PointsOf(R)), Cardinality(PointsOf(S))} \subseteq Nat
  BY PointsFinite
<1>3. /\ Cardinality(PointsOf(R)) <= Cardinality(PointsOf(S))
      /\ Cardinality(R) <= Cardinality(S)
  BY <1>1, <1>2, FS_Subset
<1>4. ASSUME NEW record \in Record, Justified(record, R) PROVE Justified(record, S)
  <2>1. record.count \in Nat /\ record.score \in Nat
    BY DEF Record
  <2>2. record.count <= Cardinality(S) /\ record.score <= Cardinality(PointsOf(S))
    BY <1>2, <1>3, <1>4, <2>1 DEF Justified
  <2> QED
    BY <1>1, <1>4, <2>2 DEF Justified
<1> QED
  BY <1>3, <1>4

\* A record and one run more.
LEMMA AppliedFacts ==
  ASSUME NEW r \in Runs, NEW R \in SUBSET Runs, r \notin R,
         NEW record \in Record, Len(record.by) <= MaxContributors,
         NEW score \in Decayed(record.score),
         NEW new, new = Applied(r, record, score)
  PROVE  /\ new.promoted = record.promoted
         /\ Justified(record, R) => Justified(new, R \cup {r})
         /\ CountsAll(record, R) => CountsAll(new, R \cup {r})
<1>1. /\ new.score = score + Points[AlertOf[r]] /\ new.count = record.count + 1
      /\ new.by = WithContributor(record, AlertOf[r]) /\ new.promoted = record.promoted
  BY DEF Applied
<1>2. /\ Len(new.by) <= MaxContributors
      /\ Contributors(new) \subseteq Contributors(record) \cup {AlertOf[r]}
      /\ \/ Contributors(record) \cup {AlertOf[r]} \subseteq Contributors(new)
         \/ Len(new.by) = MaxContributors
      /\ Len(record.by) = MaxContributors => Len(new.by) = MaxContributors
  <2>1. PICK by : by = new.by
    OBVIOUS
  <2>2. Contributors(new) = {by[i] : i \in DOMAIN by}
    BY <2>1 DEF Contributors
  <2>3. AlertOf[r] \in Alerts /\ by = WithContributor(record, AlertOf[r])
    BY <1>1, <2>1, SignalFacts
  <2>4. /\ Len(by) <= MaxContributors
        /\ {by[i] : i \in DOMAIN by} \subseteq Contributors(record) \cup {AlertOf[r]}
        /\ \/ Contributors(record) \cup {AlertOf[r]} \subseteq {by[i] : i \in DOMAIN by}
           \/ Len(by) = MaxContributors
        /\ Len(record.by) = MaxContributors => Len(by) = MaxContributors
    BY <2>3, ContributorFacts
  <2> QED
    BY <2>1, <2>2, <2>4
<1>3. record.count \in Nat /\ record.score \in Nat
  BY DEF Record
<1>4. score \in Nat /\ score <= record.score /\ Points[AlertOf[r]] \in Nat
  BY <1>3, DecayedFacts, SignalFacts
<1>5. /\ Cardinality(R \cup {r}) = Cardinality(R) + 1 /\ Cardinality(R) \in Nat
      /\ Cardinality(PointsOf(R \cup {r})) = Cardinality(PointsOf(R)) + Points[AlertOf[r]]
      /\ Cardinality(PointsOf(R)) \in Nat
  BY PointsAdd, PointsFinite
<1>6. AlertsOf(R \cup {r}) = AlertsOf(R) \cup {AlertOf[r]}
  BY DEF AlertsOf
<1>7. ASSUME Justified(record, R) PROVE Justified(new, R \cup {r})
  <2>1. new.count <= Cardinality(R \cup {r})
    BY <1>1, <1>3, <1>5, <1>7 DEF Justified
  <2>2. new.score <= Cardinality(PointsOf(R \cup {r}))
    BY <1>1, <1>3, <1>4, <1>5, <1>7 DEF Justified
  <2>3. Contributors(new) \subseteq AlertsOf(R \cup {r})
    BY <1>2, <1>6, <1>7 DEF Justified
  <2> QED
    BY <1>2, <2>1, <2>2, <2>3 DEF Justified
<1>8. ASSUME CountsAll(record, R) PROVE CountsAll(new, R \cup {r})
  <2>1. new.count = Cardinality(R \cup {r})
    BY <1>1, <1>5, <1>8 DEF CountsAll
  <2>2. AlertsOf(R \cup {r}) \subseteq Contributors(new) \/ Len(new.by) = MaxContributors
    <3>1. CASE AlertsOf(R) \subseteq Contributors(record)
      BY <1>2, <1>6, <3>1
    <3>2. CASE Len(record.by) = MaxContributors
      BY <1>1, <1>2, <3>2
    <3> QED
      BY <1>8, <3>1, <3>2 DEF CountsAll
  <2> QED
    BY <2>1, <2>2 DEF CountsAll
<1> QED
  BY <1>1, <1>7, <1>8
-----------------------------------------------------------------------------
(***************************************************************************)
(* Every record, saved or in a run's hands, is justified.  A run that      *)
(* promotes holds a score at the threshold.                                *)
(***************************************************************************)
HeldJustified ==
  \A r \in Runs : Busy(r) =>
    /\ Justified(signal[r].record, Charging(EntityOf(r)))
    /\ signal[r].pc \in {"promote", "list"} => signal[r].record.score >= Threshold

JustInv == RTypeOK /\ RiskIsJustified /\ HeldJustified

LEMMA NoRiskJustified == \A R \in SUBSET Runs : Justified(NoRisk, R)
<1> SUFFICES ASSUME NEW R \in SUBSET Runs PROVE Justified(NoRisk, R)
  OBVIOUS
<1>1. Len(<<>>) = 0 /\ DOMAIN <<>> = {}
  BY EmptySeq
<1>2. Contributors(NoRisk) = {}
  BY <1>1 DEF Contributors, NoRisk
<1>3. Cardinality(R) \in Nat /\ Cardinality(PointsOf(R)) \in Nat
  BY PointsFinite
<1>4. NoRisk.count = 0 /\ NoRisk.score = 0 /\ Len(NoRisk.by) = 0
  BY <1>1 DEF NoRisk
<1> QED
  BY <1>2, <1>3, <1>4, RiskAssumption DEF Justified

LEMMA JustInit == RInit => JustInv
<1> SUFFICES ASSUME RInit PROVE JustInv
  OBVIOUS
<1>1. RTypeOK
  BY AtTyped DEF RInit, RTypeOK
<1>2. \A e \in Entities : risk[e] = NoRisk /\ Charging(e) \in SUBSET Runs
  BY DEF RInit, Charging
<1>3. RiskIsJustified
  BY <1>2, NoRiskJustified DEF RInit, RiskIsJustified
<1>4. HeldJustified
  BY DEF RInit, HeldJustified, Busy, At
<1> QED
  BY <1>1, <1>3, <1>4 DEF JustInv

\* Runs are only ever added to those that an entity is charged by.
Grows == \A f \in Entities : Charging(f) \subseteq Charging(f)'

LEMMA SameSignals ==
  ASSUME UNCHANGED signal
  PROVE  \A f : Charging(f)' = Charging(f)
BY DEF Charging, Signals

LEMMA RecordsFrame ==
  ASSUME JustInv, Grows
  PROVE  /\ \A e \in Entities : risk'[e] = risk[e] => Justified(risk'[e], Charging(e)')
         /\ \A e \in promoted : Cardinality(PointsOf(Charging(e)')) >= Threshold
<1>1. \A e \in Entities : Charging(e) \in SUBSET Runs /\ Charging(e)' \in SUBSET Runs
  BY DEF Charging
<1>2. \A e \in Entities : risk[e] \in Record /\ Justified(risk[e], Charging(e))
  BY DEF JustInv, RTypeOK, RiskIsJustified
<1>3. \A e \in Entities : Justified(risk[e], Charging(e)')
  BY <1>1, <1>2, JustifiedGrows DEF Grows
<1>4. ASSUME NEW e \in promoted PROVE Cardinality(PointsOf(Charging(e)')) >= Threshold
  <2>1. e \in Entities /\ Cardinality(PointsOf(Charging(e))) >= Threshold
    BY DEF JustInv, RTypeOK, RiskIsJustified
  <2>2. PICK m \in Nat, n \in Nat : /\ m = Cardinality(PointsOf(Charging(e)))
                                    /\ n = Cardinality(PointsOf(Charging(e)'))
    BY <1>1, <2>1, PointsFinite
  <2>3. m <= n
    BY <1>1, <2>1, <2>2, JustifiedGrows DEF Grows
  <2> QED
    BY <2>1, <2>2, <2>3, RiskAssumption
<1> QED
  BY <1>3, <1>4

LEMMA HeldFrame ==
  ASSUME JustInv, Grows, NEW r \in Runs, Alone(r),
         Busy(r)' => \E e \in Entities, record \in Record :
           /\ e = EntityOf(r)' /\ record = signal'[r].record
           /\ Justified(record, Charging(e)')
           /\ signal'[r].pc \in {"promote", "list"} => record.score >= Threshold
  PROVE  HeldJustified'
<1> SUFFICES ASSUME NEW q \in Runs, Busy(q)'
             PROVE  /\ Justified(signal[q].record, Charging(EntityOf(q)))'
                    /\ (signal[q].pc \in {"promote", "list"} =>
                         signal[q].record.score >= Threshold)'
  BY DEF HeldJustified
<1>1. CASE q = r
  <2>1. PICK e \in Entities, record \in Record :
          /\ e = EntityOf(q)' /\ record = signal'[q].record
          /\ Justified(record, Charging(e)')
          /\ signal'[q].pc \in {"promote", "list"} => record.score >= Threshold
    BY <1>1
  <2>2. Justified(signal[q].record, Charging(EntityOf(q)))' = Justified(record, Charging(e)')
    BY <2>1
  <2> QED
    BY <2>1, <2>2
<1>2. CASE q # r
  <2>1. signal'[q] = signal[q] /\ Busy(q)
    BY <1>2 DEF Alone, Busy, Observes, Signals
  <2>2. /\ Justified(signal[q].record, Charging(EntityOf(q)))
        /\ signal[q].pc \in {"promote", "list"} => signal[q].record.score >= Threshold
    BY <2>1 DEF JustInv, HeldJustified
  <2>3. PICK e \in Entities : e = EntityOf(q) /\ e = EntityOf(q)'
    BY <2>1, EntityTyped DEF Busy, JustInv, EntityOf, Signals
  <2>4. Charging(e) \in SUBSET Runs /\ Charging(e)' \in SUBSET Runs
    BY DEF Charging
  <2>5. signal[q].record \in Record
    BY DEF JustInv, RTypeOK, SignalRecord
  <2>6. Justified(signal[q].record, Charging(e)')
    BY <2>2, <2>3, <2>4, <2>5, JustifiedGrows DEF Grows
  <2> QED
    BY <2>1, <2>2, <2>3, <2>6
<1> QED
  BY <1>1, <1>2
LEMMA LoadJust == ASSUME JustInv, NEW r \in Runs, LoadRisk(r) PROVE JustInv'
<1>1. PICK e \in Entities : e = EntityOf(r)
  BY EntityTyped DEF JustInv, LoadRisk, Observing
<1>2. risk[e] \in Record /\ Len(risk[e].by) <= MaxContributors /\ Justified(risk[e], Charging(e))
  BY DEF JustInv, RTypeOK, RiskIsJustified, Justified
<1>3. PICK score \in Decayed(risk[e].score), new \in Record :
        /\ new = Applied(r, risk[e], score)
        /\ signal' \in [Runs -> SignalRecord] /\ Alone(r)
        /\ signal'[r] = [pc |-> "save", at |-> signal[r].at, record |-> new,
                         failed |-> FALSE]
  BY <1>1, <1>2, LoadEffect DEF JustInv
<1>4. UNCHANGED <<risk, promoted, promotions>> /\ Observing(r, "load")
  BY DEF LoadRisk
<1>5. /\ r \notin Charging(e) /\ Charging(e)' = Charging(e) \cup {r}
      /\ \A f : f # e => Charging(f)' = Charging(f)
  BY <1>1, <1>3, <1>4, LoadCharges DEF JustInv
<1>6. Grows
  BY <1>5 DEF Grows
<1>7. RTypeOK'
  BY <1>1, <1>3, <1>4 DEF JustInv, RTypeOK, LoadRisk
<1>8. RiskIsJustified'
  BY <1>4, <1>6, RecordsFrame DEF RiskIsJustified
<1>9. EntityOf(r)' = e
  BY <1>1, <1>3 DEF EntityOf, Signals
<1>10. Justified(new, Charging(e)')
  <2>1. Charging(e) \in SUBSET Runs
    BY DEF Charging
  <2>2. Justified(new, Charging(e) \cup {r})
    BY <1>2, <1>3, <1>5, <2>1, AppliedFacts
  <2> QED
    BY <1>5, <2>2
<1>11. signal'[r].record = new /\ signal'[r].pc = "save"
  BY <1>3
<1>12. HeldJustified'
  BY <1>3, <1>6, <1>9, <1>10, <1>11, HeldFrame
<1> QED
  BY <1>7, <1>8, <1>12 DEF JustInv

\* The record that a run holds while it works on an entity.
LEMMA HeldFacts ==
  ASSUME JustInv, NEW r \in Runs, Busy(r)
  PROVE  \E e \in Entities, record \in Record :
           /\ e = EntityOf(r) /\ record = signal[r].record
           /\ Justified(record, Charging(e))
           /\ signal[r].pc \in {"promote", "list"} => record.score >= Threshold
BY EntityTyped DEF JustInv, HeldJustified, Busy, RTypeOK, SignalRecord

\* A save of a justified record, nothing else being saved.
LEMMA SavedJust ==
  ASSUME JustInv, NEW e \in Entities, NEW record \in Record,
         Justified(record, Charging(e)), Charging(e)' = Charging(e), Grows,
         risk' = [risk EXCEPT ![e] = record], UNCHANGED promoted
  PROVE  risk' \in [Entities -> Record] /\ RiskIsJustified'
<1>1. risk \in [Entities -> Record]
  BY DEF JustInv, RTypeOK
<1>2. \A f \in Entities : Justified(risk'[f], Charging(f)')
  BY <1>1, RecordsFrame
<1>3. \A f \in Entities : Justified(risk[f], Charging(f))'
  BY <1>2
<1> QED
  BY <1>1, <1>3, RecordsFrame DEF RiskIsJustified

LEMMA SaveJust == ASSUME JustInv, NEW r \in Runs, SaveRisk(r) PROVE JustInv'
<1>1. Busy(r)
  BY DEF SaveRisk, Observing, Busy
<1>2. PICK e \in Entities, record \in Record :
        /\ e = EntityOf(r) /\ record = signal[r].record
        /\ Justified(record, Charging(e))
  BY <1>1, HeldFacts
<1>3. /\ signal' \in [Runs -> SignalRecord] /\ Alone(r)
      /\ \/ /\ Crosses(record)
            /\ \E new \in Record :
                 /\ new = [record EXCEPT !.promoted = TRUE]
                 /\ signal'[r] = [pc |-> "promote", at |-> signal[r].at,
                                  record |-> new, failed |-> FALSE]
         \/ ~Crosses(record) /\ signal'[r] = At(signal[r].at + 1)
  BY <1>2, SaveEffect DEF JustInv
<1>4. \A f : Charging(f)' = Charging(f)
  <2>1. signal[r].pc = "save"
    BY DEF SaveRisk, Observing
  <2>2. \/ signal'[r].pc = "promote" /\ signal'[r].at = signal[r].at
        \/ signal'[r].pc = "load" /\ signal'[r].at = signal[r].at + 1
    BY <1>3 DEF At
  <2> QED
    BY <1>3, <2>1, <2>2, SameCharges DEF JustInv
<1>5. Grows
  BY <1>4 DEF Grows
<1>6. /\ risk' = [risk EXCEPT ![e] = record]
      /\ UNCHANGED <<promoted, promotions, spoilt>>
  BY <1>2 DEF SaveRisk, SaveRecord
<1>7. risk' \in [Entities -> Record] /\ RiskIsJustified'
  BY <1>2, <1>4, <1>5, <1>6, SavedJust
<1>8. RTypeOK'
  BY <1>3, <1>6, <1>7 DEF JustInv, RTypeOK
<1>9. HeldJustified'
  <2>1. CASE Crosses(record)
    <3>1. PICK new \in Record :
            /\ new = [record EXCEPT !.promoted = TRUE]
            /\ signal'[r] = [pc |-> "promote", at |-> signal[r].at,
                             record |-> new, failed |-> FALSE]
      BY <1>3, <2>1
    <3>2. /\ new.by = record.by /\ new.count = record.count
          /\ new.score = record.score
      BY <3>1 DEF Record
    <3>3. Justified(new, Charging(e)')
      BY <1>2, <1>4, <3>2 DEF Justified, Contributors
    <3>4. EntityOf(r)' = e /\ new = signal'[r].record
      BY <1>2, <3>1 DEF EntityOf, Signals
    <3>5. new.score >= Threshold
      BY <2>1, <3>2 DEF Crosses
    <3> QED
      BY <1>3, <1>5, <3>3, <3>4, <3>5, HeldFrame
  <2>2. CASE ~Crosses(record)
    <3>1. ~Busy(r)'
      BY <1>3, <2>2 DEF Busy, At
    <3> QED
      BY <1>3, <1>5, <3>1, HeldFrame
  <2> QED
    BY <2>1, <2>2
<1> QED
  BY <1>7, <1>8, <1>9 DEF JustInv

LEMMA PromoteJust == ASSUME JustInv, NEW r \in Runs, SavePromoted(r) PROVE JustInv'
<1>1. Busy(r) /\ signal[r].pc = "promote"
  BY DEF SavePromoted, Observing, Busy
<1>2. PICK e \in Entities, record \in Record :
        /\ e = EntityOf(r) /\ record = signal[r].record
        /\ Justified(record, Charging(e)) /\ record.score >= Threshold
  BY <1>1, HeldFacts
<1>3. /\ signal' \in [Runs -> SignalRecord] /\ Alone(r)
      /\ signal'[r] = [pc |-> "list", at |-> signal[r].at, record |-> record,
                       failed |-> FALSE]
  BY <1>2, PromoteEffect DEF JustInv
<1>4. \A f : Charging(f)' = Charging(f)
  BY <1>1, <1>3, SameCharges DEF JustInv
<1>5. Grows
  BY <1>4 DEF Grows
<1>6. /\ risk' = [risk EXCEPT ![e] = record]
      /\ UNCHANGED <<promoted, promotions, spoilt>>
  BY <1>2 DEF SavePromoted, SaveRecord
<1>7. risk' \in [Entities -> Record] /\ RiskIsJustified'
  BY <1>2, <1>4, <1>5, <1>6, SavedJust
<1>8. RTypeOK'
  BY <1>3, <1>6, <1>7 DEF JustInv, RTypeOK
<1>9. EntityOf(r)' = e /\ record = signal'[r].record /\ Justified(record, Charging(e)')
  BY <1>2, <1>3, <1>4 DEF EntityOf, Signals
<1>10. HeldJustified'
  BY <1>2, <1>3, <1>5, <1>9, HeldFrame
<1> QED
  BY <1>7, <1>8, <1>10 DEF JustInv

LEMMA ListJust == ASSUME JustInv, NEW r \in Runs, ListPromoted(r) PROVE JustInv'
<1>1. Busy(r) /\ signal[r].pc = "list"
  BY DEF ListPromoted, Observing, Busy
<1>2. PICK e \in Entities, record \in Record :
        /\ e = EntityOf(r) /\ record = signal[r].record
        /\ Justified(record, Charging(e)) /\ record.score >= Threshold
  BY <1>1, HeldFacts
<1>3. /\ signal' \in [Runs -> SignalRecord] /\ Alone(r)
      /\ signal'[r] = At(signal[r].at + 1)
  BY NextEffect DEF ListPromoted, JustInv
<1>4. \A f : Charging(f)' = Charging(f)
  BY <1>1, <1>3, SameCharges DEF JustInv, At
<1>5. Grows
  BY <1>4 DEF Grows
<1>6. /\ promoted' = promoted \cup {e} /\ UNCHANGED <<risk, spoilt>>
      /\ promotions' = [promotions EXCEPT ![e] = @ \cup {r}]
  BY <1>2 DEF ListPromoted
<1>7. RTypeOK'
  BY <1>3, <1>6 DEF JustInv, RTypeOK
<1>8. Cardinality(PointsOf(Charging(e)')) >= Threshold
  <2>1. PICK n \in Nat : n = Cardinality(PointsOf(Charging(e)))
    BY PointsFinite DEF Charging
  <2>2. record.score \in Nat /\ record.score <= n
    BY <1>2, <2>1 DEF Record, Justified
  <2> QED
    BY <1>2, <1>4, <2>1, <2>2, RiskAssumption
<1>9. \A f \in promoted' : Cardinality(PointsOf(Charging(f)')) >= Threshold
  BY <1>5, <1>6, <1>8, RecordsFrame
<1>10. RiskIsJustified'
  BY <1>5, <1>6, <1>9, RecordsFrame DEF RiskIsJustified
<1>11. HeldJustified'
  <2>1. ~Busy(r)'
    BY <1>3 DEF Busy, At
  <2> QED
    BY <1>3, <1>5, <2>1, HeldFrame
<1> QED
  BY <1>7, <1>10, <1>11 DEF JustInv

LEMMA FailJust == ASSUME JustInv, NEW r \in Runs, ObserveFails(r) PROVE JustInv'
<1>1. /\ signal' \in [Runs -> SignalRecord] /\ Alone(r)
      /\ signal'[r].failed /\ signal'[r].at = signal[r].at
      /\ signal'[r].pc = signal[r].pc
  BY FailEffect DEF JustInv
<1>2. \A f : Charging(f)' = Charging(f)
  BY <1>1, SameCharges DEF JustInv
<1>3. Grows
  BY <1>2 DEF Grows
<1>4. UNCHANGED <<risk, promoted, promotions>> /\ spoilt' \subseteq Entities
  BY DEF ObserveFails, HeldBy, JustInv, RTypeOK
<1>5. RTypeOK'
  BY <1>1, <1>4 DEF JustInv, RTypeOK
<1>6. RiskIsJustified'
  BY <1>3, <1>4, RecordsFrame DEF RiskIsJustified
<1>7. HeldJustified'
  <2>1. ~Busy(r)'
    BY <1>1 DEF Busy, Observes
  <2> QED
    BY <1>1, <1>3, <2>1, HeldFrame
<1> QED
  BY <1>5, <1>6, <1>7 DEF JustInv

LEMMA ExpireJust == ASSUME JustInv, RiskExpires PROVE JustInv'
<1>1. /\ UNCHANGED <<signal, promotions>>
      /\ \A f : Charging(f)' = Charging(f)
  BY SameSignals DEF RiskExpires
<1>2. Grows
  BY <1>1 DEF Grows
<1>3. \/ \E e \in Entities :
           risk' = [risk EXCEPT ![e] = NoRisk] /\ UNCHANGED promoted
      \/ promoted' = {} /\ UNCHANGED risk
  BY DEF RiskExpires
<1>4. spoilt' \subseteq Entities
  BY DEF RiskExpires, JustInv, RTypeOK
<1>5. HeldJustified'
  BY <1>1 DEF JustInv, HeldJustified, Busy, Observes, EntityOf, Signals
<1>6. risk' \in [Entities -> Record] /\ promoted' \subseteq promoted /\ RiskIsJustified'
  <2>1. CASE \E e \in Entities :
               risk' = [risk EXCEPT ![e] = NoRisk] /\ UNCHANGED promoted
    <3>1. PICK e \in Entities :
            risk' = [risk EXCEPT ![e] = NoRisk] /\ UNCHANGED promoted
      BY <2>1
    <3>2. Justified(NoRisk, Charging(e)) /\ NoRisk \in Record
      BY NoRiskJustified, AtTyped DEF Charging
    <3> QED
      BY <1>1, <1>2, <3>1, <3>2, SavedJust
  <2>2. CASE promoted' = {} /\ UNCHANGED risk
    BY <1>2, <2>2, RecordsFrame DEF RiskIsJustified, JustInv, RTypeOK
  <2> QED
    BY <1>3, <2>1, <2>2
<1>7. RTypeOK'
  BY <1>1, <1>4, <1>6 DEF JustInv, RTypeOK
<1> QED
  BY <1>5, <1>6, <1>7 DEF JustInv

LEMMA RestJust ==
  ASSUME JustInv, UNCHANGED <<risk, promoted, signal, promotions>>,
         spoilt' \subseteq Entities
  PROVE  JustInv'
<1>1. Grows
  BY SameSignals DEF Grows
<1>2. RTypeOK'
  BY DEF JustInv, RTypeOK
<1>3. RiskIsJustified'
  BY <1>1, RecordsFrame DEF RiskIsJustified
<1>4. HeldJustified'
  BY SameSignals DEF JustInv, HeldJustified, Busy, Observes, EntityOf, Signals
<1> QED
  BY <1>2, <1>3, <1>4 DEF JustInv

LEMMA JustStep == JustInv /\ [RNext]_rvars => JustInv'
<1> SUFFICES ASSUME JustInv, [RNext]_rvars PROVE JustInv'
  OBVIOUS
<1>1. spoilt \subseteq Entities
  BY DEF JustInv, RTypeOK
<1>2. ASSUME NEW r \in Runs, ObserveStep(r) PROVE JustInv'
  BY <1>2, LoadJust, SaveJust, PromoteJust, ListJust DEF ObserveStep
<1>3. ASSUME NEW r \in Runs, PipelineStep(r) PROVE JustInv'
  BY <1>1, <1>3, RestJust DEF PipelineStep, riskVars
<1>4. ASSUME NEW r \in Runs, RunFails(r) PROVE JustInv'
  <2>1. spoilt' \subseteq Entities
    BY <1>1, <1>4 DEF RunFails, HeldBy
  <2> QED
    BY <1>4, <2>1, RestJust DEF RunFails
<1>5. CASE UNCHANGED riskVars
  BY <1>1, <1>5, RestJust DEF riskVars
<1>6. CASE \E r \in Runs :
             PipelineStep(r) \/ ObserveStep(r) \/ ObserveFails(r) \/ RunFails(r)
  <2>1. PICK r \in Runs :
          PipelineStep(r) \/ ObserveStep(r) \/ ObserveFails(r) \/ RunFails(r)
    BY <1>6
  <2> QED
    BY <2>1, <1>2, <1>3, <1>4, FailJust
<1> QED
  BY <1>5, <1>6, ExpireJust DEF RNext, rvars

LEMMA JustInductive == RSpec => []JustInv
BY JustInit, JustStep, PTL DEF RSpec

\* The records of entity risk keep their types.
THEOREM RiskTypeCorrect == RSpec => []RTypeOK
<1>1. JustInv => RTypeOK
  BY DEF JustInv
<1> QED
  BY <1>1, JustInductive, PTL

\* However runs interleave, overwrite each other's records, fail or expire, an
\* entity's record counts only runs whose alert touches it, each once and with its
\* points, and only points of such runs get an entity promoted.
THEOREM RiskStaysJustified == RSpec => []RiskIsJustified
<1>1. JustInv => RiskIsJustified
  BY DEF JustInv
<1> QED
  BY <1>1, JustInductive, PTL
-----------------------------------------------------------------------------
(***************************************************************************)
(* Where a run is: it observes once it may publish, and publishes only     *)
(* once it has observed.                                                   *)
(***************************************************************************)
PlaceInv ==
  /\ \A r \in Runs : pc[r] \in (Active \ {"publish"}) \cup {"start"} => signal[r] = At(1)
  /\ \A r \in Runs : fused[r] # None => pc[r] = "done"
  /\ \A r \in Runs : pc[r] = "done" /\ Original(r) => Observed(r)

LEMMA StepPlace ==
  ASSUME TypeOK, NEW r \in Runs, Step(r)
  PROVE  /\ pc[r] \in Active \cup {"start"}
         /\ \A q \in Runs : q # r => pc'[q] = pc[q] /\ fused'[q] = fused[q]
         /\ \/ pc[r] # "publish" /\ pc'[r] \in Active /\ fused'[r] = fused[r]
            \/ pc'[r] = "done" /\ ~Original(r)'
            \/ pc[r] = "publish" /\ pc'[r] = "done"
<1> USE DEF TypeOK, Active, Goto, redis, local, bounds
<1>1. CASE Check(r)
  <2>1. fused \in [Runs -> FusedAlert \cup {None}]
    OBVIOUS
  <2> QED
    BY <1>1, <2>1 DEF Check, Original
<1>2. CASE Register(r)
  BY <1>2 DEF Register
<1>3. CASE Lookup(r)
  BY <1>3 DEF Lookup
<1>4. CASE Load(r)
  BY <1>4 DEF Load
<1>5. CASE SaveMerged(r)
  BY <1>5 DEF SaveMerged
<1>6. CASE SaveNew(r)
  BY <1>6 DEF SaveNew
<1>7. CASE SetIndex(r)
  BY <1>7 DEF SetIndex
<1>8. CASE Publish(r)
  BY <1>8 DEF Publish
<1> QED
  BY <1>1, <1>2, <1>3, <1>4, <1>5, <1>6, <1>7, <1>8 DEF Step

\* The steps inside observe() move the signal of one run that is about to publish.
LEMMA ObserveMoves ==
  ASSUME RTypeOK, NEW r \in Runs, ObserveStep(r) \/ ObserveFails(r)
  PROVE  /\ pc[r] = "publish" /\ Observes(r) /\ UNCHANGED <<pc, fused>>
         /\ \A q \in Runs : q # r => signal'[q] = signal[q]
BY DEF ObserveStep, LoadRisk, SaveRisk, SavePromoted, ListPromoted, ObserveFails,
       Observing, NextSignal, RTypeOK, vars

LEMMA PlaceStep ==
  ASSUME TypeOK, RTypeOK, PlaceInv, [RNext]_rvars
  PROVE  PlaceInv'
<1>1. ASSUME NEW r \in Runs, PipelineStep(r) PROVE PlaceInv'
  <2>1. UNCHANGED signal /\ (pc[r] = "publish" => Observed(r))
    BY <1>1 DEF PipelineStep, riskVars
  <2>2. \A q \in Runs : Observed(q)' = Observed(q)
    BY <2>1 DEF Observed, Observes, Signals
  <2>3. \A q \in Runs : q # r => pc'[q] = pc[q] /\ fused'[q] = fused[q]
    BY <1>1, StepPlace DEF PipelineStep
  <2>4. \A q \in Runs : q # r => Original(q)' = Original(q)
    BY <2>3 DEF Original
  <2>5. pc[r] \in Active \cup {"start"} /\ fused[r] = None
    BY <1>1, StepPlace DEF PipelineStep, PlaceInv, Active
  <2>6. \/ pc[r] # "publish" /\ pc'[r] \in Active /\ fused'[r] = None
        \/ pc'[r] = "done" /\ ~Original(r)'
        \/ pc[r] = "publish" /\ pc'[r] = "done"
    BY <1>1, <2>5, StepPlace DEF PipelineStep
  <2>7. /\ pc'[r] \in (Active \ {"publish"}) \cup {"start"} => signal'[r] = At(1)
        /\ fused'[r] # None => pc'[r] = "done"
        /\ pc'[r] = "done" /\ Original(r)' => Observed(r)'
    BY <2>1, <2>2, <2>5, <2>6 DEF PlaceInv, Active
  <2> QED
    BY <2>1, <2>2, <2>3, <2>4, <2>7 DEF PlaceInv
<1>2. ASSUME NEW r \in Runs, ObserveStep(r) \/ ObserveFails(r) PROVE PlaceInv'
  <2>1. /\ pc[r] = "publish" /\ UNCHANGED <<pc, fused>>
        /\ \A q \in Runs : q # r => signal'[q] = signal[q]
    BY <1>2, ObserveMoves
  <2>2. \A q \in Runs : q # r => Observed(q)' = Observed(q)
    BY <2>1 DEF Observed, Observes, Signals
  <2> QED
    BY <2>1, <2>2 DEF PlaceInv, Original, Active
<1>3. ASSUME NEW r \in Runs, RunFails(r) PROVE PlaceInv'
  <2>1. /\ pc[r] \in Active \cup {"start"} /\ pc' = [pc EXCEPT ![r] = "failed"]
        /\ UNCHANGED <<fused, signal>>
    BY <1>3 DEF RunFails, Fail, Goto
  <2>2. fused[r] = None
    BY <2>1 DEF PlaceInv, Active
  <2>3. \A q \in Runs : pc'[q] = IF q = r THEN "failed" ELSE pc[q]
    BY <2>1 DEF TypeOK
  <2> QED
    BY <2>1, <2>2, <2>3 DEF PlaceInv, Original, Observed, Observes, Signals, Active
<1>4. ASSUME UNCHANGED <<pc, fused, signal>> PROVE PlaceInv'
  BY <1>4 DEF PlaceInv, Original, Observed, Observes, Signals
<1>5. CASE \E r \in Runs :
             PipelineStep(r) \/ ObserveStep(r) \/ ObserveFails(r) \/ RunFails(r)
  <2>1. PICK r \in Runs :
          PipelineStep(r) \/ ObserveStep(r) \/ ObserveFails(r) \/ RunFails(r)
    BY <1>5
  <2> QED
    BY <2>1, <1>1, <1>2, <1>3
<1>6. CASE Expire /\ UNCHANGED riskVars
  BY <1>4, <1>6 DEF Expire, riskVars
<1>7. CASE RiskExpires
  BY <1>4, <1>7 DEF RiskExpires
<1>8. CASE UNCHANGED rvars
  BY <1>4, <1>8 DEF rvars, vars, riskVars
<1> QED
  BY <1>5, <1>6, <1>7, <1>8 DEF RNext
-----------------------------------------------------------------------------
(***************************************************************************)
(* An entity nobody contends for has one run at a time.  Between two runs  *)
(* its record, its flag and the list agree; the run at work holds what     *)
(* they will be.                                                           *)
(***************************************************************************)
Listed(e) ==
  IF e \in promoted THEN \E r \in Charging(e) : promotions[e] = {r} ELSE promotions[e] = {}

Settled(e) ==
  /\ CountsAll(risk[e], Charging(e))
  /\ risk[e].promoted <=> e \in promoted
  /\ risk[e].score >= Threshold => e \in promoted
  /\ Listed(e)

InHand(r, e) ==
  /\ CountsAll(signal[r].record, Charging(e))
  /\ r \in Charging(e) /\ Listed(e)
  /\ signal[r].pc = "save" => (signal[r].record.promoted <=> e \in promoted)
  /\ signal[r].pc \in {"promote", "list"} => signal[r].record.promoted /\ e \notin promoted
  /\ signal[r].pc = "list" => risk[e] = signal[r].record

Calm(e) ==
  /\ \A q, r \in Runs : Holds(q, e) /\ Holds(r, e) => q = r
  /\ (\A r \in Runs : ~Holds(r, e)) => Settled(e)
  /\ \A r \in Runs : Holds(r, e) => InHand(r, e)

\* A step that is not about the entity.
LEMMA CalmFrame ==
  ASSUME NEW e \in Entities, Calm(e),
         \A q \in Runs : Holds(q, e)' = Holds(q, e),
         \A q \in Runs : Holds(q, e) => signal'[q] = signal[q],
         risk'[e] = risk[e], e \in promoted' <=> e \in promoted,
         promotions'[e] = promotions[e], Charging(e)' = Charging(e)
  PROVE  Calm(e)'
<1>1. Listed(e)' = Listed(e)
  BY DEF Listed
<1>2. CountsAll(risk[e], Charging(e))' = CountsAll(risk[e], Charging(e))
  BY DEF CountsAll, Contributors, AlertsOf
<1>3. Settled(e)' = Settled(e)
  BY <1>1, <1>2 DEF Settled
<1>4. ASSUME NEW r \in Runs, Holds(r, e)' PROVE InHand(r, e)'
  <2>1. signal'[r] = signal[r] /\ InHand(r, e)
    BY <1>4 DEF Calm
  <2>2. CountsAll(signal[r].record, Charging(e))' = CountsAll(signal[r].record, Charging(e))
    BY <2>1 DEF CountsAll, Contributors, AlertsOf
  <2> QED
    BY <1>1, <2>1, <2>2 DEF InHand
<1> QED
  BY <1>3, <1>4 DEF Calm

\* A step inside observe() is about the entity the run works on.
LEMMA ObserveLocal ==
  ASSUME NEW r \in Runs, Alone(r), UNCHANGED pc,
         signal'[r].pc = "load" \/ signal'[r].at = signal[r].at
  PROVE  /\ \A q \in Runs : \A f : q # r => Holds(q, f)' = Holds(q, f)
         /\ \A f : f # EntityOf(r) => ~Holds(r, f) /\ ~Holds(r, f)'
<1>1. \A q \in Runs : \A f : q # r => Holds(q, f)' = Holds(q, f)
  BY DEF Alone, Holds, Observes, EntityOf, Signals
<1>2. \A f : f # EntityOf(r) => ~Holds(r, f) /\ ~Holds(r, f)'
  BY DEF Holds, EntityOf, Signals
<1> QED
  BY <1>1, <1>2

LEMMA OthersCalm ==
  ASSUME NEW r \in Runs, Alone(r), UNCHANGED pc,
         signal'[r].pc = "load" \/ signal'[r].at = signal[r].at,
         NEW f \in Entities, f # EntityOf(r), Calm(f), risk'[f] = risk[f],
         f \in promoted' <=> f \in promoted,
         promotions'[f] = promotions[f], Charging(f)' = Charging(f)
  PROVE  Calm(f)'
<1>1. ~Holds(r, f) /\ ~Holds(r, f)'
  BY ObserveLocal
<1>2. \A q \in Runs : q # r => Holds(q, f)' = Holds(q, f)
  BY ObserveLocal
<1>3. \A q \in Runs : Holds(q, f)' = Holds(q, f)
  BY <1>1, <1>2 DEF Holds
<1>4. \A q \in Runs : Holds(q, f) => signal'[q] = signal[q]
  BY <1>1 DEF Alone
<1> QED
  BY <1>3, <1>4, CalmFrame

\* When the only run at an entity leaves it, or stays, the others are not at it.
LEMMA OneHolder ==
  ASSUME NEW r \in Runs, Alone(r), UNCHANGED pc, NEW e \in Entities, Calm(e),
         Holds(r, e) \/ \A q \in Runs : ~Holds(q, e),
         signal'[r].pc = "load" \/ signal'[r].at = signal[r].at,
         IF Holds(r, e)' THEN InHand(r, e)' ELSE Settled(e)'
  PROVE  Calm(e)'
<1>1. \A q \in Runs : q # r => ~Holds(q, e)'
  BY ObserveLocal DEF Calm
<1> QED
  BY <1>1 DEF Calm

CalmInv == \A e \in Entities \ spoilt : Calm(e)

LEMMA LoadCalm ==
  ASSUME JustInv, CalmInv, NEW r \in Runs, LoadRisk(r)
  PROVE  CalmInv'
<1>1. PICK e \in Entities : e = EntityOf(r)
  BY EntityTyped DEF JustInv, LoadRisk, Observing
<1>2. risk[e] \in Record /\ Len(risk[e].by) <= MaxContributors
  BY DEF JustInv, RTypeOK, RiskIsJustified, Justified
<1>3. PICK score \in Decayed(risk[e].score), new \in Record :
        /\ new = Applied(r, risk[e], score)
        /\ Alone(r)
        /\ signal'[r] = [pc |-> "save", at |-> signal[r].at, record |-> new,
                         failed |-> FALSE]
  BY <1>1, <1>2, LoadEffect DEF JustInv
<1>4. /\ UNCHANGED <<pc, risk, promoted, promotions>> /\ Observing(r, "load")
      /\ spoilt' = IF \E q \in Runs : Holds(q, e) THEN spoilt \cup {e} ELSE spoilt
  BY <1>1 DEF LoadRisk, vars
<1>5. /\ r \notin Charging(e) /\ Charging(e)' = Charging(e) \cup {r}
      /\ \A f : f # e => Charging(f)' = Charging(f)
  BY <1>1, <1>3, <1>4, LoadCharges DEF JustInv
<1>6. ASSUME NEW f \in Entities \ spoilt', f # e PROVE Calm(f)'
  <2>1. f \notin spoilt /\ Calm(f)
    BY <1>4, <1>6 DEF CalmInv
  <2> QED
    BY <1>1, <1>3, <1>4, <1>5, <1>6, <2>1, OthersCalm
<1>7. ASSUME e \notin spoilt' PROVE Calm(e)'
  <2>1. (\A q \in Runs : ~Holds(q, e)) /\ Calm(e) /\ Settled(e)
    BY <1>4, <1>7 DEF CalmInv, Calm
  <2>2. Charging(e) \in SUBSET Runs
    BY DEF Charging
  <2>3. new.promoted = risk[e].promoted /\ CountsAll(new, Charging(e)')
    BY <1>2, <1>3, <1>5, <2>1, <2>2, AppliedFacts DEF Settled
  <2>4. signal'[r].record = new /\ signal'[r].pc = "save"
    BY <1>3
  <2>5. CountsAll(signal[r].record, Charging(e))'
    BY <2>3, <2>4
  <2>6. Listed(e)'
    BY <1>4, <1>5, <2>1 DEF Settled, Listed
  <2>7. InHand(r, e)'
    BY <1>4, <1>5, <2>1, <2>3, <2>4, <2>5, <2>6 DEF InHand, Settled
  <2>8. Holds(r, e)'
    <3>1. pc'[r] = "publish" /\ signal[r].at <= Len(Signals(r))
      BY <1>4 DEF Observing, Observes
    <3>2. signal'[r].at = signal[r].at /\ signal'[r].pc = "save" /\ ~signal'[r].failed
      BY <1>3
    <3> QED
      BY <1>1, <3>1, <3>2 DEF Holds, Observes, EntityOf, Signals
  <2> QED
    BY <1>3, <1>4, <2>1, <2>7, <2>8, OneHolder
<1> QED
  BY <1>6, <1>7 DEF CalmInv
LEMMA SaveCalm ==
  ASSUME JustInv, CalmInv, NEW r \in Runs, SaveRisk(r)
  PROVE  CalmInv'
<1>1. Busy(r) /\ signal[r].pc = "save"
  BY DEF SaveRisk, Observing, Busy
<1>2. PICK e \in Entities, record \in Record :
        e = EntityOf(r) /\ record = signal[r].record
  BY <1>1, HeldFacts
<1>3. /\ Alone(r)
      /\ \/ /\ Crosses(record)
            /\ \E new \in Record :
                 /\ new = [record EXCEPT !.promoted = TRUE]
                 /\ signal'[r] = [pc |-> "promote", at |-> signal[r].at,
                                  record |-> new, failed |-> FALSE]
         \/ ~Crosses(record) /\ signal'[r] = At(signal[r].at + 1)
  BY <1>2, SaveEffect DEF JustInv
<1>4. \/ signal'[r].pc = "promote" /\ signal'[r].at = signal[r].at
      \/ signal'[r].pc = "load" /\ signal'[r].at = signal[r].at + 1
  <2>1. CASE Crosses(record)
    <3>1. PICK new \in Record :
            signal'[r] = [pc |-> "promote", at |-> signal[r].at, record |-> new,
                          failed |-> FALSE]
      BY <1>3, <2>1
    <3> QED
      BY <3>1
  <2>2. CASE ~Crosses(record)
    BY <1>3, <2>2 DEF At
  <2> QED
    BY <2>1, <2>2
<1>5. \A f : Charging(f)' = Charging(f)
  BY <1>1, <1>3, <1>4, SameCharges DEF JustInv
<1>6. /\ risk' = [risk EXCEPT ![e] = record]
      /\ UNCHANGED <<pc, promoted, promotions, spoilt>>
  BY <1>2 DEF SaveRisk, SaveRecord, vars
<1>7. risk'[e] = record /\ \A f \in Entities : f # e => risk'[f] = risk[f]
  BY <1>6 DEF JustInv, RTypeOK
<1>8. ASSUME NEW f \in Entities \ spoilt', f # e PROVE Calm(f)'
  <2>1. f \notin spoilt /\ Calm(f)
    BY <1>6, <1>8 DEF CalmInv
  <2> QED
    BY <1>2, <1>3, <1>4, <1>5, <1>6, <1>7, <1>8, <2>1, OthersCalm
<1>9. ASSUME e \notin spoilt' PROVE Calm(e)'
  <2>1. Holds(r, e) /\ Calm(e)
    BY <1>1, <1>2, <1>6, <1>9 DEF CalmInv, Holds, SaveRisk, Observing
  <2>2. InHand(r, e)
    BY <2>1 DEF Calm
  <2>3. /\ CountsAll(record, Charging(e)') /\ r \in Charging(e)'
        /\ record.promoted <=> e \in promoted'
    BY <1>1, <1>2, <1>5, <1>6, <2>2 DEF InHand
  <2>4. Listed(e)'
    BY <1>5, <1>6, <2>2 DEF InHand, Listed
  <2>5. CASE Crosses(record)
    <3>1. PICK new \in Record :
            /\ new = [record EXCEPT !.promoted = TRUE]
            /\ signal'[r] = [pc |-> "promote", at |-> signal[r].at,
                             record |-> new, failed |-> FALSE]
      BY <1>3, <2>5
    <3>2. /\ new.by = record.by /\ new.count = record.count /\ new.promoted
          /\ signal'[r].record = new /\ signal'[r].pc = "promote"
      BY <3>1 DEF Record
    <3>3. CountsAll(new, Charging(e)')
      BY <2>3, <3>2 DEF CountsAll, Contributors
    <3>4. CountsAll(signal[r].record, Charging(e))'
      BY <3>2, <3>3
    <3>5. e \notin promoted'
      BY <2>3, <2>5 DEF Crosses
    <3>6. InHand(r, e)'
      BY <2>3, <2>4, <3>2, <3>4, <3>5 DEF InHand
    <3>7. Holds(r, e)'
      BY <1>2, <1>6, <2>1, <3>1 DEF Holds, Observes, EntityOf, Signals
    <3> QED
      BY <1>3, <1>4, <1>6, <2>1, <3>6, <3>7, OneHolder
  <2>6. CASE ~Crosses(record)
    <3>1. signal'[r].pc = "load" /\ ~Holds(r, e)'
      BY <1>3, <2>6 DEF Holds, At
    <3>2. CountsAll(risk[e], Charging(e))'
      BY <1>7, <2>3
    <3>3. Settled(e)'
      BY <1>7, <2>3, <2>4, <2>6, <3>2 DEF Settled, Crosses
    <3> QED
      BY <1>3, <1>6, <2>1, <3>1, <3>3, OneHolder
  <2> QED
    BY <2>5, <2>6
<1> QED
  BY <1>8, <1>9 DEF CalmInv

LEMMA PromoteCalm ==
  ASSUME JustInv, CalmInv, NEW r \in Runs, SavePromoted(r)
  PROVE  CalmInv'
<1>1. Busy(r) /\ signal[r].pc = "promote"
  BY DEF SavePromoted, Observing, Busy
<1>2. PICK e \in Entities, record \in Record :
        e = EntityOf(r) /\ record = signal[r].record
  BY <1>1, HeldFacts
<1>3. /\ Alone(r)
      /\ signal'[r] = [pc |-> "list", at |-> signal[r].at, record |-> record,
                       failed |-> FALSE]
  BY <1>2, PromoteEffect DEF JustInv
<1>4. \A f : Charging(f)' = Charging(f)
  BY <1>1, <1>3, SameCharges DEF JustInv
<1>5. /\ risk' = [risk EXCEPT ![e] = record]
      /\ UNCHANGED <<pc, promoted, promotions, spoilt>>
  BY <1>2 DEF SavePromoted, SaveRecord, vars
<1>6. risk'[e] = record /\ \A f \in Entities : f # e => risk'[f] = risk[f]
  BY <1>5 DEF JustInv, RTypeOK
<1>7. ASSUME NEW f \in Entities \ spoilt', f # e PROVE Calm(f)'
  <2>1. f \notin spoilt /\ Calm(f)
    BY <1>5, <1>7 DEF CalmInv
  <2> QED
    BY <1>2, <1>3, <1>4, <1>5, <1>6, <1>7, <2>1, OthersCalm
<1>8. ASSUME e \notin spoilt' PROVE Calm(e)'
  <2>1. Holds(r, e) /\ Calm(e)
    BY <1>1, <1>2, <1>5, <1>8 DEF CalmInv, Holds, SavePromoted, Observing
  <2>2. InHand(r, e)
    BY <2>1 DEF Calm
  <2>3. CountsAll(signal[r].record, Charging(e))'
    BY <1>2, <1>3, <1>4, <2>2 DEF InHand
  <2>4. Listed(e)'
    BY <1>4, <1>5, <2>2 DEF InHand, Listed
  <2>5. InHand(r, e)'
    BY <1>1, <1>2, <1>3, <1>4, <1>5, <1>6, <2>2, <2>3, <2>4 DEF InHand
  <2>6. Holds(r, e)'
    BY <1>2, <1>3, <1>5, <2>1 DEF Holds, Observes, EntityOf, Signals
  <2> QED
    BY <1>3, <1>5, <2>1, <2>5, <2>6, OneHolder
<1> QED
  BY <1>7, <1>8 DEF CalmInv

LEMMA ListCalm ==
  ASSUME JustInv, CalmInv, NEW r \in Runs, ListPromoted(r)
  PROVE  CalmInv'
<1>1. Busy(r) /\ signal[r].pc = "list"
  BY DEF ListPromoted, Observing, Busy
<1>2. PICK e \in Entities : e = EntityOf(r)
  BY <1>1, HeldFacts
<1>3. Alone(r) /\ signal'[r] = At(signal[r].at + 1) /\ signal'[r].pc = "load"
  BY NextEffect DEF ListPromoted, JustInv, At
<1>4. \A f : Charging(f)' = Charging(f)
  BY <1>1, <1>3, SameCharges DEF JustInv, At
<1>5. /\ promoted' = promoted \cup {e} /\ UNCHANGED <<pc, risk, spoilt>>
      /\ promotions' = [promotions EXCEPT ![e] = @ \cup {r}]
  BY <1>2 DEF ListPromoted, vars
<1>6. /\ promotions'[e] = promotions[e] \cup {r}
      /\ \A f \in Entities : f # e => promotions'[f] = promotions[f]
  BY <1>5 DEF JustInv, RTypeOK
<1>7. ASSUME NEW f \in Entities \ spoilt', f # e PROVE Calm(f)'
  <2>1. f \notin spoilt /\ Calm(f)
    BY <1>5, <1>7 DEF CalmInv
  <2> QED
    BY <1>2, <1>3, <1>4, <1>5, <1>6, <1>7, <2>1, OthersCalm
<1>8. ASSUME e \notin spoilt' PROVE Calm(e)'
  <2>1. Holds(r, e) /\ Calm(e)
    BY <1>1, <1>2, <1>5, <1>8 DEF CalmInv, Holds, ListPromoted, Observing
  <2>2. InHand(r, e)
    BY <2>1 DEF Calm
  <2>3. /\ CountsAll(risk[e], Charging(e)) /\ risk[e].promoted
        /\ e \notin promoted /\ promotions[e] = {} /\ r \in Charging(e)
    BY <1>1, <2>2 DEF InHand, Listed
  <2>4. CountsAll(risk[e], Charging(e))'
    BY <1>4, <1>5, <2>3
  <2>5. Listed(e)'
    BY <1>4, <1>5, <1>6, <2>3 DEF Listed
  <2>6. Settled(e)'
    BY <1>5, <2>3, <2>4, <2>5 DEF Settled
  <2>7. ~Holds(r, e)'
    BY <1>3 DEF Holds
  <2> QED
    BY <1>3, <1>5, <2>1, <2>6, <2>7, OneHolder
<1> QED
  BY <1>7, <1>8 DEF CalmInv

LEMMA FailCalm ==
  ASSUME JustInv, CalmInv, NEW r \in Runs, ObserveFails(r)
  PROVE  CalmInv'
<1>1. /\ Alone(r) /\ signal'[r].failed /\ signal'[r].at = signal[r].at
      /\ signal'[r].pc = signal[r].pc
  BY FailEffect DEF JustInv
<1>2. \A f : Charging(f)' = Charging(f)
  BY <1>1, SameCharges DEF JustInv
<1>3. /\ UNCHANGED <<pc, risk, promoted, promotions>>
      /\ spoilt' = spoilt \cup HeldBy(r)
  BY DEF ObserveFails
<1>4. ASSUME NEW f \in Entities \ spoilt' PROVE Calm(f)'
  <2>1. Calm(f) /\ ~Holds(r, f) /\ ~Holds(r, f)'
    BY <1>1, <1>3, <1>4 DEF CalmInv, HeldBy, Holds, Observes
  <2>2. \A q \in Runs : q # r => Holds(q, f)' = Holds(q, f)
    BY <1>1, <1>3 DEF Alone, Holds, Observes, EntityOf, Signals
  <2>3. \A q \in Runs : Holds(q, f)' = Holds(q, f)
    BY <2>1, <2>2 DEF Holds
  <2>4. \A q \in Runs : Holds(q, f) => signal'[q] = signal[q]
    BY <1>1, <2>1 DEF Alone
  <2> QED
    BY <1>2, <1>3, <1>4, <2>1, <2>3, <2>4, CalmFrame
<1> QED
  BY <1>4 DEF CalmInv

\* Steps outside observe().
LEMMA RestCalm ==
  ASSUME CalmInv, UNCHANGED <<signal, promotions>>, spoilt \subseteq spoilt',
         \A f \in Entities \ spoilt' :
           /\ \A q \in Runs : Holds(q, f)' = Holds(q, f)
           /\ risk'[f] = risk[f] /\ (f \in promoted' <=> f \in promoted)
  PROVE  CalmInv'
<1>1. \A f \in Entities \ spoilt' : Calm(f)'
  BY SameSignals, CalmFrame DEF CalmInv
<1> QED
  BY <1>1 DEF CalmInv

LEMMA CalmStep ==
  ASSUME TypeOK, JustInv, PlaceInv, CalmInv, [RNext]_rvars
  PROVE  CalmInv'
<1>1. ASSUME NEW r \in Runs, ObserveStep(r) PROVE CalmInv'
  BY <1>1, LoadCalm, SaveCalm, PromoteCalm, ListCalm DEF ObserveStep
<1>2. ASSUME NEW r \in Runs, PipelineStep(r) PROVE CalmInv'
  <2>1. UNCHANGED riskVars /\ (pc[r] = "publish" => ~Observes(r))
    BY <1>2 DEF PipelineStep, Observed
  <2>2. \A q \in Runs : q # r => pc'[q] = pc[q]
    BY <1>2, StepPlace DEF PipelineStep
  <2>3. \A f : ~Holds(r, f)
    BY <2>1 DEF Holds
  <2>4. \A f : ~Holds(r, f)'
    <3>1. pc'[r] = "publish" => signal'[r].pc = "load"
      BY <1>2, <2>1, StepPlace DEF PipelineStep, PlaceInv, riskVars, Active, At
    <3> QED
      BY <3>1 DEF Holds
  <2>5. \A q \in Runs : \A f : q # r => Holds(q, f)' = Holds(q, f)
    BY <2>1, <2>2 DEF Holds, Observes, EntityOf, Signals, riskVars
  <2>6. \A q \in Runs : \A f : Holds(q, f)' = Holds(q, f)
    BY <2>3, <2>4, <2>5 DEF Holds
  <2> QED
    BY <2>1, <2>6, RestCalm DEF riskVars
<1>3. ASSUME NEW r \in Runs, RunFails(r) PROVE CalmInv'
  <2>1. /\ pc' = [pc EXCEPT ![r] = "failed"] /\ spoilt' = spoilt \cup HeldBy(r)
        /\ UNCHANGED <<risk, promoted, signal, promotions>>
    BY <1>3 DEF RunFails, Fail, Goto
  <2>2. \A q \in Runs : pc'[q] = IF q = r THEN "failed" ELSE pc[q]
    BY <2>1 DEF TypeOK
  <2>3. \A q \in Runs, f \in Entities \ spoilt' : Holds(q, f)' = Holds(q, f)
    BY <2>1, <2>2 DEF Holds, HeldBy, Observes, EntityOf, Signals
  <2> QED
    BY <2>1, <2>3, RestCalm
<1>4. ASSUME UNCHANGED <<pc, riskVars>> PROVE CalmInv'
  <2>1. \A q \in Runs : \A f : Holds(q, f)' = Holds(q, f)
    BY <1>4 DEF Holds, Observes, EntityOf, Signals, riskVars
  <2> QED
    BY <1>4, <2>1, RestCalm DEF riskVars
<1>5. CASE RiskExpires
  <2>1. /\ UNCHANGED <<pc, signal, promotions>> /\ spoilt \subseteq spoilt'
        /\ \A f \in Entities \ spoilt' :
             risk'[f] = risk[f] /\ (f \in promoted' <=> f \in promoted)
    BY <1>5 DEF RiskExpires, JustInv, RTypeOK
  <2>2. \A q \in Runs : \A f : Holds(q, f)' = Holds(q, f)
    BY <2>1 DEF Holds, Observes, EntityOf, Signals
  <2> QED
    BY <2>1, <2>2, RestCalm
<1>6. CASE \E r \in Runs :
             PipelineStep(r) \/ ObserveStep(r) \/ ObserveFails(r) \/ RunFails(r)
  <2>1. PICK r \in Runs :
          PipelineStep(r) \/ ObserveStep(r) \/ ObserveFails(r) \/ RunFails(r)
    BY <1>6
  <2> QED
    BY <2>1, <1>1, <1>2, <1>3, FailCalm
<1>7. CASE Expire /\ UNCHANGED riskVars
  BY <1>4, <1>7 DEF Expire
<1>8. CASE UNCHANGED rvars
  BY <1>4, <1>8 DEF rvars, vars
<1> QED
  BY <1>5, <1>6, <1>7, <1>8 DEF RNext

LEMMA CalmInit == RInit => PlaceInv /\ CalmInv
<1> SUFFICES ASSUME RInit PROVE PlaceInv /\ CalmInv
  OBVIOUS
<1>1. PlaceInv
  BY DEF RInit, Init, PlaceInv
<1>2. \A e : Charging(e) = {}
  BY SignalFacts DEF RInit, Charging, At
<1>3. ASSUME NEW e \in Entities PROVE Calm(e)
  <2>1. \A r \in Runs : ~Holds(r, e)
    BY DEF RInit, Holds, At
  <2>2. AlertsOf({}) = {} /\ Cardinality({}) = 0
    BY FS_EmptySet DEF AlertsOf
  <2>3. CountsAll(NoRisk, {})
    BY <2>2 DEF CountsAll, NoRisk
  <2>4. risk[e] = NoRisk /\ e \notin promoted /\ promotions[e] = {}
    BY DEF RInit
  <2>5. NoRisk.score = 0 /\ ~NoRisk.promoted /\ ~(0 >= Threshold)
    BY RiskAssumption DEF NoRisk
  <2>6. Settled(e)
    BY <1>2, <2>3, <2>4, <2>5 DEF Settled, Listed
  <2> QED
    BY <2>1, <2>6 DEF Calm
<1> QED
  BY <1>1, <1>3 DEF CalmInv

LEMMA CalmInductive == RSpec => [](PlaceInv /\ CalmInv)
<1>1. PipelineInv => TypeOK
  BY DEF PipelineInv
<1>2. JustInv => RTypeOK
  BY DEF JustInv
<1> QED
  BY <1>1, <1>2, CalmInit, CalmStep, PlaceStep, PipelineInvariant, JustInductive,
     PTL DEF RSpec

\* An entity that no two runs contended for, that no run failed on and that did not
\* expire loses nothing, however many runs there are and however they overlap
\* elsewhere: its record counts every fused alert that touches it, one run promotes
\* it when its score has reached the threshold, and flag and list agree.
THEOREM UncontestedRiskExact == RSpec => []UncontestedRiskIsExact
<1>1. ASSUME JustInv, PlaceInv, CalmInv PROVE UncontestedRiskIsExact
  <2> SUFFICES ASSUME NEW e \in Entities \ spoilt, \A r \in Runs : ~Holds(r, e)
               PROVE  /\ CountsAll(risk[e], Charging(e))
                      /\ \A r \in Runs :
                           Original(r) /\ ~signal[r].failed /\ e \in Touched(r) =>
                             r \in Charging(e)
                      /\ risk[e].promoted <=> e \in promoted
                      /\ risk[e].score >= Threshold => e \in promoted
                      /\ IF e \in promoted THEN \E r \in Charging(e) : promotions[e] = {r}
                                           ELSE promotions[e] = {}
    BY DEF UncontestedRiskIsExact
  <2>1. Settled(e)
    BY <1>1 DEF CalmInv, Calm
  <2>2. ASSUME NEW r \in Runs, Original(r), ~signal[r].failed, e \in Touched(r)
        PROVE  r \in Charging(e)
    <3>1. ~Observes(r)
      BY <1>1, <2>2 DEF PlaceInv, Original, Observed
    <3>2. signal[r].at \in Nat /\ ~(signal[r].at <= Len(Signals(r)))
      BY <1>1, <2>2, <3>1 DEF Observes, JustInv, RTypeOK, SignalRecord
    <3>3. PICK i \in DOMAIN Signals(r) : Signals(r)[i] = e
      BY <2>2 DEF Touched
    <3>4. i < signal[r].at
      BY <3>2, <3>3, SignalFacts
    <3> QED
      BY <3>3, <3>4 DEF Charging
  <2> QED
    BY <2>1, <2>2 DEF Settled, Listed
<1> QED
  BY <1>1, JustInductive, CalmInductive, PTL
=============================================================================
