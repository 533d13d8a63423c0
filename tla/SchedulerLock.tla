--------------------------- MODULE SchedulerLock ----------------------------
(***************************************************************************)
(* The Redis lease that elects the API replica which runs a background     *)
(* worker (services/api/app/core/scheduler_lock.py) and the loop that asks *)
(* for it (_run_guarded_scheduler_worker in services/api/app/main.py).     *)
(*                                                                         *)
(* Time is counted in units; Tick passes one.  A timer of a replica that   *)
(* is due fires at most MaxLag units late: that is how long a round trip   *)
(* to Redis and a busy event loop may take together.  Redis drops the key  *)
(* when its time to live is over.                                          *)
(* The workers loop forever, so a replica stops working only by a shutdown *)
(* or a crash.                                                             *)
(***************************************************************************)
EXTENDS Integers

CONSTANTS
  Replicas,     \* API replicas that run the guarded worker
  Free,         \* the key is not set
  Orphan,       \* the key is set to the token of an attempt that is over
  Ttl,          \* ttl_seconds of the lease
  Retry,        \* _SCHEDULER_LOCK_RETRY_SECONDS
  MaxLag,       \* how late a due timer may fire
  AcquireFails, \* whether the acquisition can meet a backend error
  MaxFaults,    \* bound on backend errors
  MaxStops      \* bound on shutdowns and crashes

\* renew_every_seconds = max(1, ttl_seconds // 3)
RenewEvery == IF Ttl \div 3 > 1 THEN Ttl \div 3 ELSE 1

ASSUME LeaseAssumption ==
  /\ Ttl \in Nat /\ Retry \in Nat /\ MaxLag \in Nat
  /\ RenewEvery + MaxLag < Ttl
ASSUME BoundsAssumption ==
  MaxFaults \in Nat /\ MaxStops \in Nat /\ AcquireFails \in BOOLEAN
ASSUME OwnerAssumption == Free # Orphan /\ {Free, Orphan} \cap Replicas = {}

VARIABLES
  owner,     \* the replica whose current token is the key's value
  left,      \* time to live of the key
  pc,        \* where the guarded loop of a replica is
  renewing,  \* its renewal task is alive
  timer,     \* time to its next retry or renewal, negative when late
  faults, stops

vars == <<owner, left, pc, renewing, timer, faults, stops>>

Phase == {"down", "acquire", "waiting", "working", "releasing"}

TypeOK ==
  /\ owner \in Replicas \cup {Free, Orphan}
  /\ left \in 0 .. Ttl
  /\ pc \in [Replicas -> Phase]
  /\ renewing \in [Replicas -> BOOLEAN]
  /\ timer \in [Replicas -> Int]
  /\ faults \in 0 .. MaxFaults
  /\ stops \in 0 .. MaxStops

Init ==
  /\ owner = Free
  /\ left = 0
  /\ pc = [r \in Replicas |-> "down"]
  /\ renewing = [r \in Replicas |-> FALSE]
  /\ timer = [r \in Replicas |-> 0]
  /\ faults = 0
  /\ stops = 0

Working(r) == pc[r] = "working"

Fault == faults < MaxFaults /\ faults' = faults + 1
Stop  == stops < MaxStops /\ stops' = stops + 1

-----------------------------------------------------------------------------
\* The lifespan handler starts the guarded loop.
StartUp(r) ==
  /\ pc[r] = "down"
  /\ pc' = [pc EXCEPT ![r] = "acquire"]
  /\ UNCHANGED <<owner, left, renewing, timer, faults, stops>>

\* Mutant: SET without NX.
SetAlwaysTakes == TRUE

\* SET ... NX stores the token only when there is no key.
SetTakes == owner = Free

\* SET key token NX EX ttl succeeds: the worker runs and a renewal task starts.
Acquire(r) ==
  /\ pc[r] = "acquire"
  /\ SetTakes
  /\ owner' = r
  /\ left' = Ttl
  /\ pc' = [pc EXCEPT ![r] = "working"]
  /\ renewing' = [renewing EXCEPT ![r] = TRUE]
  /\ timer' = [timer EXCEPT ![r] = RenewEvery]
  /\ UNCHANGED <<faults, stops>>

\* Another token holds the key: sleep, then ask again.
AcquireRefused(r) ==
  /\ pc[r] = "acquire"
  /\ ~SetTakes
  /\ pc' = [pc EXCEPT ![r] = "waiting"]
  /\ timer' = [timer EXCEPT ![r] = Retry]
  /\ UNCHANGED <<owner, left, renewing, faults, stops>>

\* A SET whose answer is never read may have been executed all the same, with a
\* token nobody remembers.
UnreadSet ==
  \/ UNCHANGED <<owner, left>>
  \/ SetTakes /\ owner' = Orphan /\ left' = Ttl

\* A backend error: fail open, without a renewal task.
AcquireError(r) ==
  /\ AcquireFails
  /\ pc[r] = "acquire"
  /\ Fault
  /\ pc' = [pc EXCEPT ![r] = "working"]
  /\ UnreadSet
  /\ UNCHANGED <<renewing, timer, stops>>

TryAgain(r) ==
  /\ pc[r] = "waiting"
  /\ timer[r] <= 0
  /\ pc' = [pc EXCEPT ![r] = "acquire"]
  /\ UNCHANGED <<owner, left, renewing, timer, faults, stops>>

-----------------------------------------------------------------------------
(***************************************************************************)
(* _renew_lease_loop.  The script extends the key only for its own token.  *)
(* Losing the key or a backend error ends the task and not the worker.     *)
(***************************************************************************)
RenewDue(r) == renewing[r] /\ timer[r] <= 0

\* Mutant: EXPIRE is not called.
LeaseNotExtended == left

\* EXPIRE key ttl
LeaseRenewed == Ttl

Renew(r) ==
  /\ RenewDue(r)
  /\ IF owner = r
     THEN /\ left' = LeaseRenewed
          /\ timer' = [timer EXCEPT ![r] = RenewEvery]
          /\ UNCHANGED renewing
     ELSE /\ renewing' = [renewing EXCEPT ![r] = FALSE]
          /\ UNCHANGED <<left, timer>>
  /\ UNCHANGED <<owner, pc, faults, stops>>

\* The script may have run before the error.
RenewError(r) ==
  /\ RenewDue(r)
  /\ Fault
  /\ renewing' = [renewing EXCEPT ![r] = FALSE]
  /\ left' \in {left} \cup (IF owner = r THEN {LeaseRenewed} ELSE {})
  /\ UNCHANGED <<owner, pc, timer, stops>>

-----------------------------------------------------------------------------
\* Shutdown cancels the worker; the finally block stops the renewal task, and
\* the release is sent afterwards.  An attempt still waiting for its answer is
\* abandoned.
ShutDown(r) ==
  /\ pc[r] \in {"acquire", "waiting", "working"}
  /\ Stop
  /\ pc' = [pc EXCEPT ![r] = IF Working(r) THEN "releasing" ELSE "down"]
  /\ renewing' = [renewing EXCEPT ![r] = FALSE]
  /\ IF pc[r] = "acquire" THEN UnreadSet ELSE UNCHANGED <<owner, left>>
  /\ UNCHANGED <<timer, faults>>

\* Mutant: an unconditional DEL.
OwnerAfterDel(r) == Free

\* The script deletes the key only for its own token.
OwnerAfterRelease(r) == IF owner = r THEN Free ELSE owner

\* A replica that failed open returns without a release: its attempt has no
\* token in the key, so the script would not have found it either.
Release(r) ==
  /\ pc[r] = "releasing"
  /\ owner' = OwnerAfterRelease(r)
  /\ left' = IF owner' = Free THEN 0 ELSE left
  /\ pc' = [pc EXCEPT ![r] = "down"]
  /\ UNCHANGED <<renewing, timer, faults, stops>>

\* The token of a replica that is gone stays in the key.
Abandoned(r) == IF owner = r THEN Orphan ELSE owner

ReleaseError(r) ==
  /\ pc[r] = "releasing"
  /\ Fault
  /\ owner' = Abandoned(r)
  /\ pc' = [pc EXCEPT ![r] = "down"]
  /\ UNCHANGED <<left, renewing, timer, stops>>

Crash(r) ==
  /\ pc[r] # "down"
  /\ Stop
  /\ IF pc[r] = "acquire"
     THEN UnreadSet
     ELSE owner' = Abandoned(r) /\ UNCHANGED left
  /\ pc' = [pc EXCEPT ![r] = "down"]
  /\ renewing' = [renewing EXCEPT ![r] = FALSE]
  /\ UNCHANGED <<timer, faults>>

-----------------------------------------------------------------------------
\* A running timer: a retry or a renewal that is waited for.
Runs(r) == renewing[r] \/ pc[r] = "waiting"

\* Mutant: the key was set without EX.
KeyStays == UNCHANGED <<left, owner>>

\* The key expires when nothing is left of its time to live.
KeyAges ==
  /\ left' = IF left > 0 THEN left - 1 ELSE 0
  /\ owner' = IF left <= 1 THEN Free ELSE owner

\* One unit passes, unless a due timer would get later than MaxLag.
Tick ==
  /\ \A r \in Replicas : Runs(r) => timer[r] > -MaxLag
  /\ KeyAges
  /\ timer' = [r \in Replicas |-> IF Runs(r) THEN timer[r] - 1 ELSE timer[r]]
  /\ UNCHANGED <<pc, renewing, faults, stops>>

\* What a replica does on its own when nothing goes wrong.
Progress(r) ==
  \/ Acquire(r) \/ AcquireRefused(r) \/ TryAgain(r) \/ Renew(r) \/ Release(r)

Disturbance(r) ==
  \/ AcquireError(r) \/ RenewError(r) \/ ReleaseError(r)
  \/ ShutDown(r) \/ Crash(r)

Next ==
  \/ \E r \in Replicas : StartUp(r) \/ Progress(r) \/ Disturbance(r)
  \/ Tick

Spec == Init /\ [][Next]_vars

-----------------------------------------------------------------------------
\* A replica whose renewal task is alive holds the key: while the event loop is
\* at most MaxLag late, a lease that is being renewed cannot be taken away,
\* whatever the other replicas, the backend and the restarts do.
LeaseKept ==
  \A r \in Replicas : renewing[r] => Working(r) /\ owner = r

\* No two replicas work under a renewed lease: whenever two work, one of them
\* failed open or lost its renewal task to a backend error.
OneRenewedWorker ==
  \A r, s \in Replicas :
    r # s /\ Working(r) /\ Working(s) => ~renewing[r] \/ ~renewing[s]

\* Without a backend error only one replica works at a time.
ExclusiveWhenHealthy ==
  faults = 0 => \A r, s \in Replicas : Working(r) /\ Working(s) => r = s

\* A working replica's key disappears only by running out of time, never by
\* the release of a replica that held the lease before.
NoForeignRelease ==
  [][\A r \in Replicas :
       owner = r /\ Working(r) /\ Working(r)' /\ owner' # r => left <= 1]_vars

\* scheduler_lock.py: "only one replica executes a given worker at any time".
\* Checked where no acquisition fails, the exception the comment names.
OnlyOneReplica ==
  \A r, s \in Replicas : Working(r) /\ Working(s) => r = s

=============================================================================
