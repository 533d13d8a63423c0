--------------------------- MODULE HuntScheduler ----------------------------
(***************************************************************************)
(* The saved-hunt scheduler (services/api/app/workers/hunt_scheduler.py)   *)
(* as the worker that SchedulerLock elects: one sweep reads the hunts,     *)
(* runs the due ones, adds a case for each that has hits and stamps        *)
(* last_run_at, all in one transaction that it commits at its end.         *)
(*                                                                         *)
(* Time is counted per hunt, in intervals of its schedule; it is not tied  *)
(* to the ticks of the lease.                                              *)
(***************************************************************************)
EXTENDS SchedulerLock, FiniteSets

CONSTANTS
  Hunts,
  MaxPeriods,   \* bound on the intervals that pass for a hunt
  MaxErrors     \* bound on hunts that fail and on commits that fail

ASSUME HuntBounds == MaxPeriods \in Nat /\ MaxErrors \in Nat

VARIABLES
  period,     \* intervals that have begun for a hunt since it was saved
  last_run,   \* the interval of saved_hunts.last_run_at
  cases,      \* per hunt, the intervals for which a case was committed, by whom
  sweep,      \* the sweep of a replica's worker
  errors

huntVars == <<period, last_run, cases, sweep, errors>>
hvars == <<vars, huntVars>>

\* now: the interval of each hunt when the sweep began; todo: hunts it found
\* due and has not come to; fired: hunts stamped; hits: hunts with a case.
Asleep == [now |-> [h \in Hunts |-> 0], todo |-> {}, fired |-> {}, hits |-> {}]
InSweep(r) == sweep[r] # Asleep

HTypeOK ==
  /\ period \in [Hunts -> 0 .. MaxPeriods]
  /\ last_run \in [Hunts -> 0 .. MaxPeriods]
  /\ \A h \in Hunts : cases[h] \subseteq (1 .. MaxPeriods) \X Replicas
  /\ sweep \in [Replicas -> [now : [Hunts -> 0 .. MaxPeriods], todo : SUBSET Hunts,
                             fired : SUBSET Hunts, hits : SUBSET Hunts]]
  /\ \A r \in Replicas : InSweep(r) => Working(r)
  /\ errors \in 0 .. MaxErrors

HInit ==
  /\ Init
  /\ period = [h \in Hunts |-> 0]
  /\ last_run = [h \in Hunts |-> 0]
  /\ cases = [h \in Hunts |-> {}]
  /\ sweep = [r \in Replicas |-> Asleep]
  /\ errors = 0

Error == errors < MaxErrors /\ errors' = errors + 1

-----------------------------------------------------------------------------
\* The lease, its holders and the clock move.  A worker that is cancelled or
\* crashes takes its open transaction with it.
LockStep ==
  /\ Next
  /\ sweep' = [r \in Replicas |-> IF Working(r)' THEN sweep[r] ELSE Asleep]
  /\ UNCHANGED <<period, last_run, cases, errors>>

FallsDue(h) ==
  /\ period[h] < MaxPeriods
  /\ period' = [period EXCEPT ![h] = @ + 1]
  /\ UNCHANGED <<vars, last_run, cases, sweep, errors>>

_is_due(h) == period[h] > last_run[h]

Due == {h \in Hunts : _is_due(h)}

\* The SELECT of a sweep that finds work.
StartSweep(r) ==
  /\ Working(r) /\ ~InSweep(r) /\ Due # {}
  /\ sweep' = [sweep EXCEPT ![r] = [now |-> period, todo |-> Due, fired |-> {},
                                    hits |-> {}]]
  /\ UNCHANGED <<vars, period, last_run, cases, errors>>

\* A hunt runs and is stamped, with or without hits; or its query fails and it
\* keeps its last_run_at.
Fire(r, h) ==
  /\ h \in sweep[r].todo
  /\ \/ /\ \E hit \in BOOLEAN :
             sweep' = [sweep EXCEPT ![r].todo = @ \ {h}, ![r].fired = @ \cup {h},
                                    ![r].hits = @ \cup (IF hit THEN {h} ELSE {})]
        /\ UNCHANGED errors
     \/ /\ sweep' = [sweep EXCEPT ![r].todo = @ \ {h}]
        /\ Error
  /\ UNCHANGED <<vars, period, last_run, cases>>

SweepOver(r) == InSweep(r) /\ sweep[r].todo = {}

\* Mutant: the hunts are not stamped.
NotStamped(r) == last_run

\* UPDATE saved_hunts SET last_run_at = now, for the hunts that fired.
Stamped(r) ==
  [h \in Hunts |-> IF h \in sweep[r].fired THEN sweep[r].now[h] ELSE last_run[h]]

CommitSweep(r) ==
  /\ SweepOver(r)
  /\ last_run' = Stamped(r)
  /\ cases' = [h \in Hunts |->
       cases[h] \cup (IF h \in sweep[r].hits THEN {<<sweep[r].now[h], r>>} ELSE {})]
  /\ sweep' = [sweep EXCEPT ![r] = Asleep]
  /\ UNCHANGED <<vars, period, errors>>

\* The transaction is rolled back: every hunt of the sweep is due again.
CommitFails(r) ==
  /\ SweepOver(r) /\ sweep[r].fired # {}
  /\ Error
  /\ sweep' = [sweep EXCEPT ![r] = Asleep]
  /\ UNCHANGED <<vars, period, last_run, cases>>

Sweep(r) ==
  StartSweep(r) \/ CommitSweep(r) \/ \E h \in Hunts : Fire(r, h)

HNext ==
  \/ LockStep
  \/ \E h \in Hunts : FallsDue(h)
  \/ \E r \in Replicas : Sweep(r) \/ CommitFails(r)

HSpec == HInit /\ [][HNext]_hvars

HFairSpec ==
  /\ HSpec
  /\ WF_hvars(LockStep /\ Tick)
  /\ \A r \in Replicas : WF_hvars(LockStep /\ Progress(r)) /\ WF_hvars(Sweep(r))

-----------------------------------------------------------------------------
\* While the lock meets no backend error, an interval of a hunt opens at most one
\* case: not when the worker moves to another replica in the middle of a sweep,
\* not when the old worker is slow, not when a sweep is rolled back and repeated.
OneCasePerPeriod ==
  faults = 0 =>
    \A h \in Hunts : \A p \in 1 .. MaxPeriods :
      Cardinality({c \in cases[h] : c[1] = p}) <= 1

\* A due hunt is run as long as some replica is up.
DueHuntsRun ==
  \A h \in Hunts :
    period[h] = MaxPeriods ~>
      \/ last_run[h] = MaxPeriods
      \/ \A r \in Replicas : pc[r] = "down"
=============================================================================
