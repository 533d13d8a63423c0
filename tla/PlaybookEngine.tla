--------------------------- MODULE PlaybookEngine ----------------------------
(***************************************************************************)
(* One run of a playbook (services/agents playbook/engine.py), started and *)
(* polled through api/playbooks.py, and what an update of the store does   *)
(* to it (playbook/store.py).                                              *)
(*                                                                         *)
(* A playbook is any sequence of steps: they gate on the run's context,    *)
(* branch forwards and backwards, are retried and may abort the run.  What *)
(* a condition evaluates to and whether a handler raises are open.         *)
(***************************************************************************)
EXTENDS Naturals, Sequences

CONSTANTS
  Playbooks,  \* the sequences of steps that are considered
  MaxUpdates  \* bound on updates and on restarts of the service

\* handled: a type with a handler; unhandled: one without, such as approval.
\* A branch of 0 is none, or one to an unknown step.
PlaybookStep == [kind : {"handled", "unhandled", "condition"}, gated : BOOLEAN,
                 next_true : Nat, next_false : Nat,
                 on_failure : {"abort", "continue", "retry"}, retry_max : Nat]

ASSUME PlaybooksAssumption ==
  \A p \in Playbooks :
    /\ p \in Seq(PlaybookStep)
    /\ \A i \in DOMAIN p : {p[i].next_true, p[i].next_false} \subseteq 0 .. Len(p)
ASSUME BoundsAssumption == MaxUpdates \in Nat

VARIABLES
  playbook,  \* the steps
  raw,       \* the store holds them as plain data
  polled,    \* status of the run, as GET /runs/{id} shows it
  dry_run,
  stage,     \* where the engine is
  at,        \* current_idx, from 1
  attempt,
  visited,
  results,   \* step_results: the status of each step
  calls,     \* history: calls of each step's handler, as far as they matter
  updates

engine == <<stage, at, attempt, visited, results, calls>>
playbookVars == <<playbook, raw, polled, dry_run, engine, updates>>

Indices == DOMAIN playbook
StepStatus == {"none", "skipped", "success", "failed"}

\* How often a run may call the handler of a step.
MostCalls(i) ==
  IF dry_run \/ playbook[i].kind # "handled" THEN 0 ELSE playbook[i].retry_max + 1

PlaybookTypeOK ==
  /\ playbook \in Seq(PlaybookStep)
  /\ raw \in BOOLEAN /\ dry_run \in BOOLEAN
  /\ polled \in {"none", "pending", "completed", "failed"}
  /\ stage \in {"idle", "visit", "try", "raised", "over"}
  /\ at \in 1 .. Len(playbook) + 1
  /\ attempt \in Nat
  /\ visited \subseteq Indices
  /\ results \in [Indices -> StepStatus]
  /\ calls \in [Indices -> Nat]
  /\ updates \in 0 .. MaxUpdates

Idle ==
  /\ stage = "idle" /\ at = 1 /\ attempt = 0
  /\ visited = {}
  /\ results = [i \in Indices |-> "none"]
  /\ calls = [i \in Indices |-> 0]

PlaybookInit ==
  /\ playbook \in Playbooks /\ raw = FALSE
  /\ polled = "none" /\ dry_run \in BOOLEAN
  /\ Idle
  /\ updates = 0

-----------------------------------------------------------------------------
\* run_playbook: a placeholder that can be polled, and a background task with
\* the playbook as the store has it.  Over steps that are plain data the engine
\* raises before the first one, and nobody updates the placeholder.
RunPlaybook ==
  /\ polled = "none"
  /\ polled' = "pending"
  /\ stage' = IF raw THEN "raised" ELSE "visit"
  /\ UNCHANGED <<playbook, raw, dry_run, at, attempt, visited, results, calls, updates>>

\* PUT with steps: model_copy does not validate what it stores.  A run that has
\* begun keeps its playbook.
UpdatePlaybook ==
  /\ updates < MaxUpdates
  /\ updates' = updates + 1
  /\ raw' = TRUE
  /\ UNCHANGED <<playbook, polled, dry_run, engine>>

\* The store is loaded, and validated, from disk; runs are gone.
Restart ==
  /\ updates < MaxUpdates
  /\ updates' = updates + 1
  /\ raw' = FALSE
  /\ polled' = "none"
  /\ stage' = "idle" /\ at' = 1 /\ attempt' = 0 /\ visited' = {}
  /\ results' = [i \in Indices |-> "none"]
  /\ calls' = [i \in Indices |-> 0]
  /\ UNCHANGED <<playbook, dry_run>>

-----------------------------------------------------------------------------
(***************************************************************************)
(* PlaybookEngine.run.                                                     *)
(***************************************************************************)
Current == playbook[at]
Note(status) == results' = [results EXCEPT ![at] = status]

\* To the step of a branch, or to the next one.
Branch(to) == at' = IF to # 0 THEN to ELSE at + 1

\* Mutant: the steps that were visited are forgotten.
NeverVisited == FALSE
IsVisited == at \in visited

Over(status) ==
  /\ stage' = "over"
  /\ polled' = status

\* Past the last step.
Complete ==
  /\ stage = "visit" /\ at > Len(playbook)
  /\ Over("completed")
  /\ UNCHANGED <<playbook, raw, dry_run, at, attempt, visited, results, calls, updates>>

AbortCycle ==
  /\ stage = "visit" /\ at \in Indices /\ IsVisited
  /\ Over("failed")
  /\ UNCHANGED <<playbook, raw, dry_run, at, attempt, visited, results, calls, updates>>

\* The gate, then a condition's branch or the first attempt of an action.
Visit ==
  /\ stage = "visit" /\ at \in Indices /\ ~IsVisited
  /\ visited' = visited \cup {at}
  /\ \/ /\ Current.gated
        /\ Note("skipped") /\ Branch(Current.next_false)
        /\ UNCHANGED <<stage, attempt>>
     \/ /\ Current.kind = "condition"
        /\ Note("success") /\ Branch(Current.next_true)
        /\ UNCHANGED <<stage, attempt>>
     \/ /\ Current.kind # "condition"
        /\ stage' = "try" /\ attempt' = 1
        /\ UNCHANGED <<at, results>>
  /\ UNCHANGED <<playbook, raw, polled, dry_run, calls, updates>>

IsCalled == ~dry_run /\ Current.kind = "handled"
CountCall ==
  calls' = IF IsCalled /\ calls[at] <= MostCalls(at) THEN [calls EXCEPT ![at] = @ + 1]
                                                      ELSE calls

Succeed ==
  /\ stage = "try"
  /\ CountCall
  /\ Note("success") /\ Branch(Current.next_true)
  /\ stage' = "visit" /\ attempt' = 0
  /\ UNCHANGED <<playbook, raw, polled, dry_run, visited, updates>>

\* Mutant: one retry too many.
MayRetryOnce(n) == n <= Current.retry_max + 1
MayRetry(n) == n <= Current.retry_max

Retry ==
  /\ stage = "try" /\ IsCalled /\ MayRetry(attempt)
  /\ CountCall
  /\ attempt' = attempt + 1
  /\ UNCHANGED <<playbook, raw, polled, dry_run, stage, at, visited, results, updates>>

\* Mutant: a step that is to be retried aborts, one that is to abort does not.
AbortsUnlessTold == Current.on_failure = "continue"
Aborts == Current.on_failure = "abort"

\* The last attempt fails: the run ends, or goes on with the next step.
FailStep ==
  /\ stage = "try" /\ IsCalled /\ ~MayRetry(attempt)
  /\ CountCall
  /\ Note("failed")
  /\ attempt' = 0
  /\ IF Aborts
     THEN Over("failed") /\ UNCHANGED at
     ELSE stage' = "visit" /\ at' = at + 1 /\ UNCHANGED polled
  /\ UNCHANGED <<playbook, raw, dry_run, visited, updates>>

Engine == Complete \/ AbortCycle \/ Visit \/ Succeed \/ Retry \/ FailStep

PlaybookNext == RunPlaybook \/ UpdatePlaybook \/ Restart \/ Engine

\* Every handler has a timeout, so the engine goes on.
PlaybookSpec == PlaybookInit /\ [][PlaybookNext]_playbookVars /\ WF_playbookVars(Engine)

-----------------------------------------------------------------------------
\* Every run that the engine takes up ends, wherever the branches lead: it is
\* reported as completed or failed, unless the service restarts.
EveryRunEnds == stage = "visit" ~> polled # "pending"

\* Branches and retries never multiply a response action: in one run a handler is
\* called at most once and retry_max times more, and not at all in a dry run.
CallsAreBounded ==
  \A i \in Indices : calls[i] <= MostCalls(i)

\* on_failure = abort: nothing is done after such a step has failed, and a run is
\* only reported as completed if no such step failed in it.
AbortIsFinal ==
  \A i \in Indices :
    results[i] = "failed" /\ playbook[i].on_failure = "abort" =>
      polled = "failed" /\ stage = "over"

\* The answer of POST /playbooks/{id}/run: "Poll GET /api/v1/playbooks/runs/{id}",
\* whose status leaves "pending" some time.
EveryRunIsReported == polled = "pending" ~> polled # "pending"
=============================================================================
