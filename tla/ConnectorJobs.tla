--------------------------- MODULE ConnectorJobs ----------------------------
(***************************************************************************)
(* How the connectors service keeps its APScheduler jobs in step with the  *)
(* connectors table (ConnectorScheduler.start, stop and reload_jobs in     *)
(* services/connectors/app/scheduler.py).                                  *)
(*                                                                         *)
(* reload_jobs awaits one SELECT and then changes jobs and signatures      *)
(* without a further await, so a reload is two steps: the API service may  *)
(* write rows between them.  A signature stands for connector_type and     *)
(* poll interval, all that a reload compares.                              *)
(***************************************************************************)
EXTENDS Naturals

CONSTANTS
  Connectors, \* rows of the connectors table
  Signatures, \* what _signature can return
  None,       \* not enabled, not known, not scheduled
  MaxWrites,  \* bound on writes of the API service
  MaxFaults   \* bound on failed SELECTs and on stops

ASSUME NoneAssumption == None \notin Signatures
ASSUME BoundsAssumption == MaxWrites \in Nat /\ MaxFaults \in Nat

VARIABLES
  rows,    \* signature of each enabled row
  phase,   \* of the process: down, idle or in a reload after its SELECT
  fetched, \* what the SELECT of the reload returned
  known,   \* _known_signatures
  jobs,    \* APScheduler's job of each connector
  writes, faults

vars == <<rows, phase, fetched, known, jobs, writes, faults>>
process == <<phase, fetched, known, jobs>>

Table == [Connectors -> Signatures \cup {None}]
Empty == [c \in Connectors |-> None]

\* add_job(..., next_run_time=None): APScheduler 3 adds the job paused.
FirstRun == "paused"

Job(s) == [signature |-> s, nextRun |-> FirstRun]
NoJob == [signature |-> None, nextRun |-> "never"]
JobOf(s) == IF s = None THEN NoJob ELSE Job(s)

TypeOK ==
  /\ rows \in Table
  /\ phase \in {"down", "idle", "syncing"}
  /\ fetched \in Table
  /\ known \in Table
  /\ jobs \in [Connectors -> [signature : Signatures \cup {None},
                               nextRun : {"never", "paused", "due"}]]
  /\ writes \in 0 .. MaxWrites
  /\ faults \in 0 .. MaxFaults

Init ==
  /\ rows = Empty
  /\ phase = "down"
  /\ fetched = Empty
  /\ known = Empty
  /\ jobs = [c \in Connectors |-> NoJob]
  /\ writes = 0
  /\ faults = 0

Fault == faults < MaxFaults /\ faults' = faults + 1

-----------------------------------------------------------------------------
\* The API service creates, enables, changes or disables a connector.
ApiWrite(c, s) ==
  /\ writes < MaxWrites
  /\ writes' = writes + 1
  /\ rows[c] # s
  /\ rows' = [rows EXCEPT ![c] = s]
  /\ UNCHANGED <<process, faults>>

Start ==
  /\ phase = "down"
  /\ phase' = "idle"
  /\ UNCHANGED <<rows, fetched, known, jobs, writes, faults>>

\* A tick of the reload loop, the first one included: the SELECT returns.
Fetch ==
  /\ phase = "idle"
  /\ phase' = "syncing"
  /\ fetched' = rows
  /\ UNCHANGED <<rows, known, jobs, writes, faults>>

\* The SELECT raises: logged, and the next tick tries again.
FetchFails ==
  /\ phase = "idle"
  /\ Fault
  /\ UNCHANGED <<rows, process, writes>>

\* Mutant: the signature of a removed job is kept.
StillKnown(c, s) == IF s = None THEN known[c] ELSE s

\* _known_signatures after a reload that saw signature s, None for no row.
Remember(c, s) == s

\* Jobs are added or replaced when the signature is new, and removed when
\* the row is gone; an unchanged connector keeps its job.
Reload ==
  /\ phase = "syncing"
  /\ phase' = "idle"
  /\ jobs' = [c \in Connectors |->
               IF fetched[c] = known[c] THEN jobs[c] ELSE JobOf(fetched[c])]
  /\ known' = [c \in Connectors |-> Remember(c, fetched[c])]
  /\ fetched' = Empty
  /\ UNCHANGED <<rows, writes, faults>>

\* stop() or the end of the process.  A reload that wakes up after stop()
\* finds no scheduler and fails before it changes anything.
Stop ==
  /\ phase # "down"
  /\ Fault
  /\ phase' = "down"
  /\ fetched' = Empty
  /\ known' = Empty
  /\ jobs' = [c \in Connectors |-> NoJob]
  /\ UNCHANGED <<rows, writes>>

Next ==
  \/ \E c \in Connectors, s \in Signatures \cup {None} : ApiWrite(c, s)
  \/ Start \/ Fetch \/ FetchFails \/ Reload \/ Stop

\* The process is restarted, and the reload job fires again and again.
Fairness == WF_vars(Start) /\ WF_vars(Fetch) /\ WF_vars(Reload)

Spec == Init /\ [][Next]_vars /\ Fairness

-----------------------------------------------------------------------------
\* The cache of signatures and the scheduler never disagree: a connector the
\* reload takes for scheduled has a job, with that type and interval, and the
\* others have none (reload_jobs skips a connector on the cache alone).
CacheMatchesJobs == \A c \in Connectors : jobs[c] = JobOf(known[c])

\* Once the API service writes no more, the jobs become those of the enabled
\* rows and stay so, whatever reloads failed and however often the service
\* stopped ("Idempotent reloads keep the scheduler state in sync with the DB").
JobsConverge == <>[](\A c \in Connectors : jobs[c] = JobOf(rows[c]))

\* "Worst case a newly-created connector waits up to 60s for its first poll":
\* an enabled connector gets a job that is due to run some time.
EnabledIsPolled ==
  \A c \in Connectors :
    []<>(rows[c] # None) => <>(jobs[c].nextRun = "due")
=============================================================================
