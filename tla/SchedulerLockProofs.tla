------------------------- MODULE SchedulerLockProofs -------------------------
(***************************************************************************)
(* Proofs about SchedulerLock, for any set of replicas, any lease that is  *)
(* long enough for a late renewal (LeaseAssumption) and any number of      *)
(* faults and stops.  The inductive invariant LeaseInv ties the remaining  *)
(* life of the key to the timer of the renewal task: a live task fires     *)
(* before the key is gone.                                                 *)
(*                                                                         *)
(* The second half is about HuntScheduler, whose lock is that lease: as    *)
(* long as one replica works at a time no other sweep is open when one     *)
(* commits, so that a hunt it fired was not stamped meanwhile (HuntInv).   *)
(***************************************************************************)
EXTENDS HuntScheduler, FiniteSetTheorems, TLAPS

\* The key outlives the wait for the next renewal.
KeyOutlivesTimer ==
  \A r \in Replicas :
    renewing[r] => /\ Working(r)
                   /\ owner = r
                   /\ left = Ttl - RenewEvery + timer[r]
                   /\ timer[r] >= -MaxLag

\* Only a backend error separates a working replica from its renewal task.
RenewedUnlessFaulty ==
  faults = 0 => \A r \in Replicas : Working(r) => renewing[r]

LeaseInv == TypeOK /\ KeyOutlivesTimer /\ RenewedUnlessFaulty

\* The renewal interval is a positive number of units.
LEMMA RenewEveryPositive == RenewEvery \in Nat /\ RenewEvery >= 1
  BY LeaseAssumption DEF RenewEvery

\* The variables keep their types in every step.
LEMMA TypeStep == TypeOK /\ [Next]_vars => TypeOK'
<1> SUFFICES ASSUME TypeOK, [Next]_vars PROVE TypeOK'
  OBVIOUS
<1> USE RenewEveryPositive, LeaseAssumption, BoundsAssumption
<1>1. ASSUME NEW r \in Replicas, StartUp(r) PROVE TypeOK'
  BY <1>1 DEF TypeOK, StartUp, Phase
<1>2. ASSUME NEW r \in Replicas, Progress(r) PROVE TypeOK'
  <2>1. CASE Acquire(r)
    BY <2>1 DEF TypeOK, Acquire, Phase
  <2>2. CASE AcquireRefused(r)
    BY <2>2 DEF TypeOK, AcquireRefused, Phase
  <2>3. CASE TryAgain(r)
    BY <2>3 DEF TypeOK, TryAgain, Phase
  <2>4. CASE Renew(r)
    <3>1. left' \in 0 .. Ttl
      BY <2>4 DEF TypeOK, Renew, LeaseRenewed
    <3>2. renewing' \in [Replicas -> BOOLEAN]
      BY <2>4 DEF TypeOK, Renew
    <3>3. timer' \in [Replicas -> Int]
      BY <2>4 DEF TypeOK, Renew
    <3> QED
      BY <2>4, <3>1, <3>2, <3>3 DEF TypeOK, Renew
  <2>5. CASE Release(r)
    BY <2>5 DEF TypeOK, Release, OwnerAfterRelease, Phase
  <2> QED
    BY <1>2, <2>1, <2>2, <2>3, <2>4, <2>5 DEF Progress
<1>3. ASSUME NEW r \in Replicas, Disturbance(r) PROVE TypeOK'
  <2>1. CASE AcquireError(r)
    BY <2>1 DEF TypeOK, AcquireError, UnreadSet, Fault, Phase
  <2>2. CASE RenewError(r)
    BY <2>2 DEF TypeOK, RenewError, LeaseRenewed, Fault, Phase
  <2>3. CASE ReleaseError(r)
    BY <2>3 DEF TypeOK, ReleaseError, Abandoned, Fault, Phase
  <2>4. CASE ShutDown(r)
    BY <2>4 DEF TypeOK, ShutDown, UnreadSet, Stop, Phase
  <2>5. CASE Crash(r)
    BY <2>5 DEF TypeOK, Crash, UnreadSet, Abandoned, Stop, Phase
  <2> QED
    BY <1>3, <2>1, <2>2, <2>3, <2>4, <2>5 DEF Disturbance
<1>4. CASE Tick
  BY <1>4 DEF TypeOK, Tick, KeyAges
<1>5. CASE UNCHANGED vars
  BY <1>5 DEF TypeOK, vars
<1> QED
  BY <1>1, <1>2, <1>3, <1>4, <1>5 DEF Next

\* A key that is being renewed lives as long as its timer says, in every step.
LEMMA KeyStep ==
  TypeOK /\ KeyOutlivesTimer /\ [Next]_vars => KeyOutlivesTimer'
<1> SUFFICES ASSUME TypeOK, KeyOutlivesTimer, [Next]_vars,
                    NEW q \in Replicas, renewing'[q]
             PROVE  /\ Working(q)'
                    /\ owner' = q
                    /\ left' = Ttl - RenewEvery + timer'[q]
                    /\ timer'[q] >= -MaxLag
  BY DEF KeyOutlivesTimer, Working
<1> USE RenewEveryPositive, LeaseAssumption, OwnerAssumption
    DEF TypeOK, KeyOutlivesTimer, Working
<1>1. ASSUME NEW r \in Replicas, StartUp(r) PROVE UNCHANGED <<owner, left, timer, renewing>> /\ Working(q)'
  BY <1>1 DEF StartUp
<1>2. ASSUME NEW r \in Replicas, Acquire(r)
      PROVE  Working(q)' /\ owner' = q /\ left' = Ttl /\ timer'[q] = RenewEvery
  BY <1>2 DEF Acquire, SetTakes
<1>3. ASSUME NEW r \in Replicas, AcquireRefused(r) \/ TryAgain(r)
      PROVE  Working(q)' /\ UNCHANGED <<owner, left>> /\ renewing[q] /\ timer'[q] = timer[q]
  BY <1>3 DEF AcquireRefused, TryAgain
<1>4. ASSUME NEW r \in Replicas, Renew(r)
      PROVE  /\ Working(q)' /\ owner' = q
             /\ left' = Ttl - RenewEvery + timer'[q]
             /\ timer'[q] >= -MaxLag
  <2>1. renewing[r] /\ owner = r
    BY <1>4 DEF Renew, RenewDue
  <2>2. q = r
    BY <1>4, <2>1 DEF Renew
  <2> QED
    BY <1>4, <2>1, <2>2 DEF Renew, LeaseRenewed
<1>5. ASSUME NEW r \in Replicas, Release(r) \/ ReleaseError(r)
      PROVE  Working(q)' /\ UNCHANGED <<owner, left, timer>> /\ renewing[q]
  BY <1>5 DEF Release, ReleaseError, OwnerAfterRelease, Abandoned
<1>6. ASSUME NEW r \in Replicas, AcquireError(r)
      PROVE  Working(q)' /\ UNCHANGED <<owner, left, timer>> /\ renewing[q]
  BY <1>6 DEF AcquireError, UnreadSet, SetTakes
<1>7. ASSUME NEW r \in Replicas, RenewError(r)
      PROVE  Working(q)' /\ UNCHANGED <<owner, left, timer>> /\ renewing[q]
  <2>1. renewing[q] /\ owner = q /\ owner = r
    BY <1>7 DEF RenewError, RenewDue
  <2> QED
    BY <1>7, <2>1 DEF RenewError
<1>8. ASSUME NEW r \in Replicas, ShutDown(r) \/ Crash(r)
      PROVE  Working(q)' /\ UNCHANGED <<owner, left, timer>> /\ renewing[q]
  BY <1>8 DEF ShutDown, Crash, UnreadSet, SetTakes, Abandoned
<1>9. ASSUME Tick
      PROVE  /\ Working(q)' /\ owner' = q
             /\ left' = Ttl - RenewEvery + timer'[q]
             /\ timer'[q] >= -MaxLag
  <2>1. renewing[q] /\ timer[q] > -MaxLag /\ timer'[q] = timer[q] - 1
    BY <1>9 DEF Tick, Runs
  <2>2. left > 1
    BY <2>1
  <2> QED
    BY <1>9, <2>1, <2>2 DEF Tick, KeyAges
<1>10. CASE UNCHANGED vars
  BY <1>10 DEF vars
<1> QED
  BY <1>1, <1>2, <1>3, <1>4, <1>5, <1>6, <1>7, <1>8, <1>9, <1>10
     DEF Next, Progress, Disturbance

\* Without a backend error a working replica keeps its renewal task.
LEMMA HealthyStep ==
  LeaseInv /\ [Next]_vars => RenewedUnlessFaulty'
<1> SUFFICES ASSUME LeaseInv, [Next]_vars,
                    faults' = 0, NEW q \in Replicas, Working(q)'
             PROVE  renewing'[q]
  BY DEF RenewedUnlessFaulty, Working
<1> USE DEF LeaseInv, TypeOK, RenewedUnlessFaulty, Working
<1>1. ASSUME NEW r \in Replicas, StartUp(r) PROVE renewing'[q]
  BY <1>1 DEF StartUp
<1>2. ASSUME NEW r \in Replicas, Progress(r) PROVE renewing'[q]
  <2>1. CASE Renew(r)
    <3>1. owner = r
      BY <2>1 DEF Renew, RenewDue, KeyOutlivesTimer
    <3> QED
      BY <2>1, <3>1 DEF Renew
  <2>2. CASE ~Renew(r)
    BY <1>2, <2>2 DEF Progress, Acquire, AcquireRefused, TryAgain, Release
  <2> QED
    BY <2>1, <2>2
<1>3. ASSUME NEW r \in Replicas, Disturbance(r) PROVE renewing'[q]
  BY <1>3 DEF Disturbance, AcquireError, RenewError, ReleaseError,
              ShutDown, Crash, Fault
<1>4. CASE Tick
  BY <1>4 DEF Tick
<1>5. CASE UNCHANGED vars
  BY <1>5 DEF vars
<1> QED
  BY <1>1, <1>2, <1>3, <1>4, <1>5 DEF Next

LEMMA InvInit == Init => LeaseInv
  BY LeaseAssumption, BoundsAssumption, OwnerAssumption
     DEF Init, LeaseInv, TypeOK, Phase, KeyOutlivesTimer, RenewedUnlessFaulty,
         Working

LEMMA Invariant == Spec => []LeaseInv
<1>1. LeaseInv /\ [Next]_vars => LeaseInv'
  BY TypeStep, KeyStep, HealthyStep DEF LeaseInv
<1> QED
  BY InvInit, <1>1, PTL DEF Spec

\* The variables have their types.
THEOREM TypeCorrect == Spec => []TypeOK
<1>1. LeaseInv => TypeOK
  BY DEF LeaseInv
<1> QED
  BY Invariant, <1>1, PTL

\* A lease whose renewal task is alive is never lost: the renewal is sent every
\* third of the lease and the key outlives the wait.
THEOREM RenewedLeaseIsHeld == Spec => []LeaseKept
<1>1. LeaseInv => LeaseKept
  BY DEF LeaseInv, KeyOutlivesTimer, LeaseKept
<1> QED
  BY Invariant, <1>1, PTL

\* Two replicas never work under a renewed lease at the same time.
THEOREM MutualExclusion == Spec => []OneRenewedWorker
<1>1. LeaseInv => OneRenewedWorker
  BY DEF LeaseInv, KeyOutlivesTimer, OneRenewedWorker
<1> QED
  BY Invariant, <1>1, PTL

\* Before the first backend error at most one replica runs the worker, whatever
\* crashes, shutdowns and delays up to MaxLag there are.
THEOREM HealthyExclusion == Spec => []ExclusiveWhenHealthy
<1>1. LeaseInv => ExclusiveWhenHealthy
  BY DEF LeaseInv, KeyOutlivesTimer, RenewedUnlessFaulty, ExclusiveWhenHealthy
<1> QED
  BY Invariant, <1>1, PTL

\* A release deletes only its own key: the key of a replica that goes on working
\* disappears only by running out of time.
THEOREM ReleaseIsOwn == Spec => NoForeignRelease
<1> DEFINE Kept == \A r \in Replicas :
             owner = r /\ Working(r) /\ Working(r)' /\ owner' # r => left <= 1
<1>1. TypeOK /\ [Next]_vars => [Kept]_vars
  <2> SUFFICES ASSUME TypeOK, Next, NEW q \in Replicas,
                      owner = q, Working(q), Working(q)', owner' # q
               PROVE  left <= 1
    OBVIOUS
  <2> USE OwnerAssumption DEF TypeOK, Working
  <2>1. ASSUME NEW r \in Replicas, StartUp(r) \/ Progress(r) PROVE FALSE
    BY <2>1 DEF StartUp, Progress, Acquire, SetTakes, AcquireRefused, TryAgain,
                Renew, Release, OwnerAfterRelease
  <2>2. ASSUME NEW r \in Replicas, Disturbance(r) PROVE FALSE
    BY <2>2 DEF Disturbance, AcquireError, UnreadSet, SetTakes, RenewError,
                ReleaseError, ShutDown, Crash, Abandoned
  <2>3. CASE Tick
    BY <2>3 DEF Tick, KeyAges
  <2> QED
    BY <2>1, <2>2, <2>3 DEF Next
<1>2. Spec => [][Next]_vars
  BY DEF Spec
<1> QED
  BY TypeCorrect, <1>1, <1>2, PTL DEF NoForeignRelease

-----------------------------------------------------------------------------
(***************************************************************************)
(* The saved-hunt scheduler.                                               *)
(***************************************************************************)
SweepRecord == [now : [Hunts -> 0 .. MaxPeriods], todo : SUBSET Hunts,
                fired : SUBSET Hunts, hits : SUBSET Hunts]

\* Before the first backend error: the intervals with a case are stamped, no
\* two cases are of one interval, and what an open sweep found due is due still.
OneByOne ==
  faults = 0 =>
    \A h \in Hunts :
      /\ \A c \in cases[h] : c[1] <= last_run[h]
      /\ \A c, d \in cases[h] : c[1] = d[1] => c = d
      /\ \A r \in Replicas :
           h \in sweep[r].todo \cup sweep[r].fired => sweep[r].now[h] > last_run[h]

\* Cases are for hunts that were stamped, for an interval that has begun.
SweepInv ==
  \A r \in Replicas :
    /\ sweep[r].hits \subseteq sweep[r].fired
    /\ \A h \in sweep[r].todo \cup sweep[r].fired : sweep[r].now[h] \in 1 .. MaxPeriods

HuntInv ==
  /\ HTypeOK
  /\ SweepInv
  /\ OneByOne

\* Next to the hunts the lease is the lease.
LEMMA LockBeside == [HNext]_hvars => [Next]_vars
BY DEF HNext, LockStep, FallsDue, Sweep, StartSweep, Fire, CommitSweep,
       CommitFails, hvars

\* Faults are only counted up.
LEMMA FaultsStay ==
  ASSUME TypeOK, [Next]_vars, faults' = 0 PROVE faults = 0
BY DEF TypeOK, Next, vars, StartUp, Progress, Acquire, AcquireRefused, TryAgain,
       Renew, Release, Disturbance, AcquireError, RenewError, ReleaseError,
       ShutDown, Crash, Fault, Tick

\* The lease beside the hunts is the lease: every theorem about Spec is one about
\* HSpec.
THEOREM LockBesideHunts == HSpec => Spec
BY LockBeside, PTL DEF HSpec, HInit, Spec

LEMMA AsleepRecord ==
  /\ Asleep \in SweepRecord
  /\ Asleep.todo = {} /\ Asleep.fired = {} /\ Asleep.hits = {}
BY HuntBounds DEF Asleep, SweepRecord

LEMMA HuntInit == HInit => HuntInv
BY HuntBounds, AsleepRecord
   DEF HInit, HuntInv, HTypeOK, SweepInv, InSweep, OneByOne, SweepRecord

\* The lease moves: a sweep goes on or is gone.
LEMMA LockStepHunts ==
  ASSUME LeaseInv, HuntInv, LockStep PROVE HuntInv'
<1>1. \A r \in Replicas : sweep'[r] = sweep[r] \/ sweep'[r] = Asleep
  BY DEF LockStep
<1>2. faults' = 0 => faults = 0
  BY FaultsStay DEF LockStep, LeaseInv
<1>3. HTypeOK'
  <2>1. sweep' \in [Replicas -> SweepRecord]
    BY AsleepRecord DEF LockStep, HuntInv, HTypeOK, SweepRecord
  <2>2. \A r \in Replicas : InSweep(r)' => Working(r)'
    BY DEF LockStep, InSweep
  <2> QED
    BY <2>1, <2>2 DEF LockStep, HuntInv, HTypeOK, SweepRecord
<1>4. SweepInv'
  BY <1>1, AsleepRecord DEF HuntInv, SweepInv
<1>5. OneByOne'
  BY <1>1, <1>2, AsleepRecord DEF LockStep, HuntInv, OneByOne
<1> QED
  BY <1>3, <1>4, <1>5 DEF HuntInv

\* A sweep's commit: without a backend error it is the only one that is open.
LEMMA CommitStep ==
  ASSUME LeaseInv, HuntInv, NEW r \in Replicas, CommitSweep(r) PROVE HuntInv'
<1>1. /\ sweep[r] \in SweepRecord /\ sweep'[r] = Asleep
      /\ \A q \in Replicas : q # r => sweep'[q] = sweep[q]
      /\ UNCHANGED <<vars, period>>
      /\ Working(r)
  BY DEF CommitSweep, SweepOver, HuntInv, HTypeOK, SweepRecord
<1>2. \A q \in Replicas : InSweep(q)' => InSweep(q) /\ Working(q)'
  BY <1>1 DEF InSweep, Working, vars, HuntInv, HTypeOK
<1>3. HTypeOK'
  <2>1. last_run' \in [Hunts -> 0 .. MaxPeriods]
    BY <1>1 DEF CommitSweep, Stamped, HuntInv, HTypeOK, SweepRecord
  <2>2. ASSUME NEW h \in Hunts
        PROVE  cases'[h] \subseteq (1 .. MaxPeriods) \X Replicas
    <3>1. CASE h \in sweep[r].hits
      <4>1. sweep[r].now[h] \in 1 .. MaxPeriods
        BY <3>1 DEF HuntInv, SweepInv
      <4>2. cases'[h] = cases[h] \cup {<<sweep[r].now[h], r>>}
        BY <3>1 DEF CommitSweep
      <4> QED
        BY <4>1, <4>2 DEF HuntInv, HTypeOK
    <3>2. CASE h \notin sweep[r].hits
      BY <3>2 DEF CommitSweep, HuntInv, HTypeOK
    <3> QED
      BY <3>1, <3>2
  <2>3. sweep' \in [Replicas -> SweepRecord]
    BY AsleepRecord DEF CommitSweep, HuntInv, HTypeOK, SweepRecord
  <2> QED
    BY <1>1, <1>2, <2>1, <2>2, <2>3 DEF CommitSweep, HuntInv, HTypeOK, SweepRecord
<1>4. SweepInv'
  BY <1>1, AsleepRecord DEF HuntInv, SweepInv
<1>5. ASSUME faults = 0, NEW h \in Hunts
      PROVE  /\ \A c \in cases'[h] : c[1] <= last_run'[h]
             /\ \A c, d \in cases'[h] : c[1] = d[1] => c = d
  <2>1. /\ \A c \in cases[h] : c[1] <= last_run[h]
        /\ \A c, d \in cases[h] : c[1] = d[1] => c = d
        /\ h \in sweep[r].fired => sweep[r].now[h] > last_run[h]
    BY <1>5 DEF HuntInv, OneByOne
  <2>2. last_run[h] \in Nat /\ sweep[r].now[h] \in Nat
    BY <1>1, HuntBounds DEF HuntInv, HTypeOK, SweepRecord
  <2>3. \A c \in cases[h] : c[1] \in Nat
    BY HuntBounds DEF HuntInv, HTypeOK
  <2>4. last_run'[h] = IF h \in sweep[r].fired THEN sweep[r].now[h] ELSE last_run[h]
    BY DEF CommitSweep, Stamped
  <2>5. CASE h \in sweep[r].hits
    <3>1. h \in sweep[r].fired
      BY <2>5 DEF HuntInv, SweepInv
    <3>2. cases'[h] = cases[h] \cup {<<sweep[r].now[h], r>>}
      BY <2>5 DEF CommitSweep
    <3> QED
      BY <2>1, <2>2, <2>3, <2>4, <3>1, <3>2
  <2>6. CASE h \notin sweep[r].hits
    <3>1. cases'[h] = cases[h]
      BY <2>6 DEF CommitSweep
    <3> QED
      BY <2>1, <2>2, <2>3, <2>4, <3>1
  <2> QED
    BY <2>5, <2>6
<1>6. ASSUME faults = 0, NEW q \in Replicas PROVE sweep'[q] = Asleep
  <2>1. CASE q = r
    BY <1>1, <2>1
  <2>2. CASE q # r
    <3>1. ~Working(q)
      BY <1>1, <1>6, <2>2
         DEF LeaseInv, KeyOutlivesTimer, RenewedUnlessFaulty
    <3>2. ~InSweep(q)
      BY <3>1 DEF HuntInv, HTypeOK
    <3> QED
      BY <1>1, <2>2, <3>2 DEF InSweep
  <2> QED
    BY <2>1, <2>2
<1>7. OneByOne'
  BY <1>1, <1>5, <1>6, AsleepRecord DEF OneByOne, vars
<1> QED
  BY <1>3, <1>4, <1>7 DEF HuntInv

LEMMA HuntStep ==
  ASSUME LeaseInv, HuntInv, [HNext]_hvars PROVE HuntInv'
<1> USE DEF SweepRecord
<1>1. CASE LockStep
  BY <1>1, LockStepHunts
<1>2. ASSUME NEW h \in Hunts, FallsDue(h) PROVE HuntInv'
  <2>1. HTypeOK'
    BY <1>2, HuntBounds
       DEF FallsDue, HuntInv, HTypeOK, InSweep, Working, vars
  <2> QED
    BY <1>2, <2>1 DEF FallsDue, HuntInv, SweepInv, OneByOne, vars
<1>3. ASSUME NEW r \in Replicas, StartSweep(r) PROVE HuntInv'
  <2>1. /\ sweep'[r] = [now |-> period, todo |-> Due, fired |-> {}, hits |-> {}]
        /\ \A q \in Replicas : q # r => sweep'[q] = sweep[q]
        /\ UNCHANGED <<vars, period, last_run, cases, errors>> /\ Working(r)
    BY <1>3 DEF StartSweep, HuntInv, HTypeOK
  <2>2. Due \subseteq Hunts /\ \A h \in Due : period[h] > last_run[h]
    BY DEF Due, _is_due
  <2>3. HTypeOK'
    BY <1>3, <2>1, <2>2 DEF StartSweep, HuntInv, HTypeOK, InSweep, Working, vars
  <2>4. SweepInv'
    <3>1. \A h \in Due : period[h] \in 1 .. MaxPeriods
      BY <2>2, HuntBounds DEF HuntInv, HTypeOK
    <3> QED
      BY <2>1, <3>1 DEF HuntInv, SweepInv
  <2>5. OneByOne'
    BY <2>1, <2>2 DEF HuntInv, OneByOne, vars
  <2> QED
    BY <2>3, <2>4, <2>5 DEF HuntInv
<1>4. ASSUME NEW r \in Replicas, NEW h \in Hunts, Fire(r, h) PROVE HuntInv'
  <2>1. /\ \A q \in Replicas : q # r => sweep'[q] = sweep[q]
        /\ sweep'[r] \in SweepRecord
        /\ sweep'[r].now = sweep[r].now
        /\ sweep'[r].todo \cup sweep'[r].fired \subseteq sweep[r].todo \cup sweep[r].fired
        /\ sweep'[r].hits \subseteq sweep'[r].fired
        /\ UNCHANGED <<vars, period, last_run, cases>>
    <3>1. sweep[r].hits \subseteq sweep[r].fired
      BY DEF HuntInv, SweepInv
    <3>2. sweep[r] \in SweepRecord /\ sweep \in [Replicas -> SweepRecord]
      BY DEF HuntInv, HTypeOK
    <3>3. CASE \E hit \in BOOLEAN :
                 sweep' = [sweep EXCEPT ![r].todo = @ \ {h}, ![r].fired = @ \cup {h},
                                        ![r].hits = @ \cup (IF hit THEN {h} ELSE {})]
      <4>1. PICK X \in SUBSET {h} :
              sweep' = [sweep EXCEPT ![r].todo = @ \ {h}, ![r].fired = @ \cup {h},
                                     ![r].hits = @ \cup X]
        BY <3>3
      <4>2. sweep'[r] = [now |-> sweep[r].now, todo |-> sweep[r].todo \ {h},
                         fired |-> sweep[r].fired \cup {h},
                         hits |-> sweep[r].hits \cup X]
        BY <3>2, <4>1
      <4>3. \A q \in Replicas : q # r => sweep'[q] = sweep[q]
        BY <3>2, <4>1
      <4>4. h \in sweep[r].todo /\ UNCHANGED <<vars, period, last_run, cases>>
        BY <1>4 DEF Fire
      <4>5. sweep'[r] \in SweepRecord
        BY <3>2, <4>2
      <4> QED
        BY <3>1, <4>2, <4>3, <4>4, <4>5
    <3>4. CASE sweep' = [sweep EXCEPT ![r].todo = @ \ {h}]
      BY <1>4, <3>1, <3>2, <3>4 DEF Fire
    <3> QED
      BY <1>4, <3>3, <3>4 DEF Fire
  <2>2. InSweep(r)
    BY <1>4, AsleepRecord DEF Fire, InSweep
  <2>3. HTypeOK'
    <3>1. sweep' \in [Replicas -> SweepRecord]
      BY <1>4, <2>1 DEF Fire, HuntInv, HTypeOK
    <3>2. errors' \in 0 .. MaxErrors
      BY <1>4, HuntBounds DEF Fire, Error, HuntInv, HTypeOK
    <3>3. \A q \in Replicas : InSweep(q)' => InSweep(q)
      BY <2>1, <2>2 DEF InSweep
    <3> QED
      BY <2>1, <3>1, <3>2, <3>3 DEF HuntInv, HTypeOK, Working, vars
  <2>4. SweepInv'
    BY <2>1 DEF HuntInv, SweepInv
  <2>5. OneByOne'
    BY <2>1 DEF HuntInv, OneByOne, vars
  <2> QED
    BY <2>3, <2>4, <2>5 DEF HuntInv
<1>5. ASSUME NEW r \in Replicas, CommitSweep(r) PROVE HuntInv'
  BY <1>5, CommitStep
<1>6. ASSUME NEW r \in Replicas, CommitFails(r) PROVE HuntInv'
  <2>1. /\ \A q \in Replicas : sweep'[q] = sweep[q] \/ sweep'[q] = Asleep
        /\ UNCHANGED <<vars, period, last_run, cases>>
    BY <1>6 DEF CommitFails, HuntInv, HTypeOK
  <2>2. HTypeOK'
    <3>1. sweep' \in [Replicas -> SweepRecord]
      BY <1>6, AsleepRecord DEF CommitFails, HuntInv, HTypeOK
    <3>2. errors' \in 0 .. MaxErrors
      BY <1>6, HuntBounds DEF CommitFails, Error, HuntInv, HTypeOK
    <3>3. \A q \in Replicas : InSweep(q)' => InSweep(q)
      BY <2>1 DEF InSweep
    <3> QED
      BY <2>1, <3>1, <3>2, <3>3 DEF HuntInv, HTypeOK, Working, vars
  <2>3. SweepInv' /\ OneByOne'
    BY <2>1, AsleepRecord DEF HuntInv, SweepInv, OneByOne, vars
  <2> QED
    BY <2>2, <2>3 DEF HuntInv
<1>7. CASE UNCHANGED hvars
  BY <1>7 DEF hvars, huntVars, vars, HuntInv, HTypeOK, SweepInv, OneByOne, InSweep, Working
<1> QED
  BY <1>1, <1>2, <1>3, <1>4, <1>5, <1>6, <1>7 DEF HNext, Sweep

LEMMA HuntInvariant == HSpec => [](LeaseInv /\ HuntInv)
<1>1. LeaseInv /\ [HNext]_hvars => LeaseInv'
  BY LockBeside, TypeStep, KeyStep, HealthyStep DEF LeaseInv
<1>2. HInit => LeaseInv
  BY InvInit DEF HInit
<1> QED
  BY <1>1, <1>2, HuntInit, HuntStep, PTL DEF HSpec

\* The scheduler's variables have their types, and only a working replica sweeps.
THEOREM HuntTypeCorrect == HSpec => []HTypeOK
<1>1. HuntInv => HTypeOK
  BY DEF HuntInv
<1> QED
  BY <1>1, HuntInvariant, PTL

\* Before the first backend error of the lock an interval of a hunt opens at most
\* one case, however often the worker moves, stops, fails or is rolled back.
THEOREM AtMostOneCase == HSpec => []OneCasePerPeriod
<1>1. HuntInv => OneCasePerPeriod
  <2> SUFFICES ASSUME HuntInv, faults = 0, NEW h \in Hunts, NEW p \in 1 .. MaxPeriods
               PROVE  Cardinality({c \in cases[h] : c[1] = p}) <= 1
    BY DEF OneCasePerPeriod
  <2>1. \A c, d \in {c \in cases[h] : c[1] = p} : c = d
    BY DEF HuntInv, OneByOne
  <2> DEFINE C == {c \in cases[h] : c[1] = p}
  <2>2. C = {} \/ \E c : C = {c}
    BY <2>1
  <2> HIDE DEF C
  <2>3. Cardinality(C) \in {0, 1}
    BY <2>2, FS_EmptySet, FS_Singleton
  <2> QED
    BY <2>3 DEF C
<1> QED
  BY <1>1, HuntInvariant, PTL

=============================================================================
