----------------------------- MODULE ActionGate -----------------------------
(***************************************************************************)
(* The human-in-the-loop router of the actions service                     *)
(* (services/actions/app/api/router.py) with its executors and the ChatOps *)
(* callback.                                                               *)
(*                                                                         *)
(* The service is one process with one event loop: a handler runs until it *)
(* awaits something that suspends.  Each action below is the code between  *)
(* two suspension points.  submit_action suspends in executors that call a *)
(* vendor; approve_action rebuilds the request without its parameters, so  *)
(* the executor takes its simulation branch, which awaits nothing, and the *)
(* whole handler is one step.                                              *)
(*                                                                         *)
(* A submission gets a number, its index in requests.  A record remembers  *)
(* the number it was created for because a handler keeps writing to the    *)
(* record it holds after a resubmission of the id has replaced it.         *)
(***************************************************************************)
EXTENDS ActionPolicy, Sequences

CONSTANTS
  ActionIds,    \* action ids a client may choose
  Types,        \* the action types submitted
  Handlers,     \* requests that can be in flight at once
  Choices,      \* answers a user can give to a prompt
  NoRecord,     \* an id without a record
  NoChoice,     \* a record whose output holds no answer
  MaxSubmits,   \* bound on submissions
  MaxEvents,    \* bound on the answers on one timeline
  MaxRestarts   \* bound on restarts of the service

ASSUME TypesAssumption  == Types \subseteq ActionType
ASSUME BoundsAssumption ==
  MaxSubmits \in Nat /\ MaxEvents \in Nat /\ MaxRestarts \in Nat
ASSUME NoChoiceAssumption == NoChoice \notin Choices
ASSUME NoRecordAssumption ==
  NoRecord \notin [num : 1 .. MaxSubmits,
                   status : {"awaiting_approval", "approved", "rejected",
                             "running", "completed", "failed"},
                   choice : Choices \cup {NoChoice}]

VARIABLES
  actions,   \* _actions: the in-memory record of each id
  replied,   \* _chatops_replied: ids whose prompt has an answer
  task,      \* the handlers suspended in an await
  prompted,  \* ids whose signed links reached a user and have not expired
  timeline,  \* the answers on the case timeline, durable, in services/api
  requests,  \* every submission so far: id, type, vendor credentials present
  runs,      \* history: the executor starts, in order
  vetoed,    \* history: submissions rejected while awaiting approval
  restarts

vars == <<actions, replied, task, prompted, timeline, requests, runs, vetoed, restarts>>

Status == {"awaiting_approval", "approved", "rejected", "running", "completed", "failed"}
Number == 1 .. MaxSubmits
Record == [num : Number, status : Status, choice : Choices \cup {NoChoice}]
Request == [id : ActionIds, type : Types, creds : BOOLEAN]
Run    == [num : Number, by : {"submit", "approve"}, live : BOOLEAN]

Idle == [pc |-> "idle"]
Task == {Idle}
          \cup [pc : {"executing", "prompted"}, id : ActionIds, num : Number]
          \cup [pc : {"posting", "posted"}, id : ActionIds,
                num : Number \cup {0}, choice : Choices]

TypeOK ==
  /\ actions \in [ActionIds -> Record \cup {NoRecord}]
  /\ replied \subseteq ActionIds
  /\ task \in [Handlers -> Task]
  /\ prompted \subseteq ActionIds
  /\ timeline \in [ActionIds -> Seq(Choices)]
  /\ requests \in Seq(Request) /\ Len(requests) <= MaxSubmits
  /\ runs \in Seq(Run)
  /\ vetoed \subseteq Number
  /\ restarts \in 0 .. MaxRestarts

Init ==
  /\ actions = [a \in ActionIds |-> NoRecord]
  /\ replied = {}
  /\ task = [h \in Handlers |-> Idle]
  /\ prompted = {}
  /\ timeline = [a \in ActionIds |-> <<>>]
  /\ requests = <<>>
  /\ runs = <<>>
  /\ vetoed = {}
  /\ restarts = 0

Exists(a)    == actions[a] # NoRecord
TypeOf(n)    == requests[n].type
IsIdle(h)    == task[h].pc = "idle"

\* Mutant: the result is put in the output, the status is forgotten.
WriteRecordNoStatus(a, n, status, choice) ==
  actions' = IF Exists(a) /\ actions[a].num = n
             THEN [actions EXCEPT ![a].choice = choice]
             ELSE actions

\* Mutant: the handler looks the record up by its id again.
WriteRecordById(a, n, status, choice) ==
  actions' = IF Exists(a)
             THEN [actions EXCEPT ![a].status = status, ![a].choice = choice]
             ELSE actions

\* A handler's write reaches the table only if its record is still there.
WriteRecord(a, n, status, choice) ==
  actions' = IF Exists(a) /\ actions[a].num = n
             THEN [actions EXCEPT ![a] =
                     [num |-> n, status |-> status, choice |-> choice]]
             ELSE actions

-----------------------------------------------------------------------------
(***************************************************************************)
(* submit_action.  The record is stored over any earlier one.  An approved *)
(* action with credentials suspends in its executor; without them the      *)
(* executor answers at once, with a simulated success or, for a ChatOps    *)
(* prompt that has no webhook, a failure.                                  *)
(***************************************************************************)
\* Mutant: a missing executor is not an error.
StatusNoExecutorCompleted(t) ==
  IF evaluate(t) = "awaiting_approval" THEN "awaiting_approval" ELSE "completed"

StatusWithoutAwait(t) ==
  IF evaluate(t) = "awaiting_approval" THEN "awaiting_approval"
  ELSE IF t \notin EXECUTOR_REGISTRY \/ t = "chatops_verify" THEN "failed"
  ELSE "completed"

\* Mutant: the gate's verdict is not looked at before executing.
StartsAnyExecutor(t) == t \in EXECUTOR_REGISTRY

StartsExecutor(t) == evaluate(t) = "approved" /\ t \in EXECUTOR_REGISTRY

submit_action(h, a, t, creds) ==
  LET n        == Len(requests) + 1
      suspends == StartsExecutor(t) /\ creds
      status   == IF suspends THEN "approved" ELSE StatusWithoutAwait(t)
  IN  /\ IsIdle(h)
      /\ n <= MaxSubmits
      /\ requests' = Append(requests, [id |-> a, type |-> t, creds |-> creds])
      /\ actions' = [actions EXCEPT ![a] =
                       [num |-> n, status |-> status, choice |-> NoChoice]]
      /\ runs' = IF StartsExecutor(t)
                 THEN Append(runs, [num |-> n, by |-> "submit", live |-> creds])
                 ELSE runs
      /\ task' = IF suspends
                 THEN [task EXCEPT ![h] = [pc |-> "executing", id |-> a, num |-> n]]
                 ELSE task
      /\ UNCHANGED <<replied, prompted, timeline, vetoed, restarts>>

\* The vendor call of any other executor returns, well or with an error.
ExecutorReturns(h, status) ==
  /\ task[h].pc = "executing"
  /\ TypeOf(task[h].num) # "chatops_verify"
  /\ WriteRecord(task[h].id, task[h].num, status, NoChoice)
  /\ task' = [task EXCEPT ![h] = Idle]
  /\ UNCHANGED <<replied, prompted, timeline, requests, runs, vetoed, restarts>>

(***************************************************************************)
(* ChatOpsVerifyExecutor.execute: the prompt goes out, from then on the    *)
(* user holds the links, and the executor suspends again to post the       *)
(* prompted event before it returns.                                       *)
(***************************************************************************)
DeliverPrompt(h) ==
  /\ task[h].pc = "executing"
  /\ TypeOf(task[h].num) = "chatops_verify"
  /\ prompted' = prompted \cup {task[h].id}
  /\ task' = [task EXCEPT ![h].pc = "prompted"]
  /\ UNCHANGED <<actions, replied, timeline, requests, runs, vetoed, restarts>>

PromptFails(h) ==
  /\ task[h].pc = "executing"
  /\ TypeOf(task[h].num) = "chatops_verify"
  /\ WriteRecord(task[h].id, task[h].num, "failed", NoChoice)
  /\ task' = [task EXCEPT ![h] = Idle]
  /\ UNCHANGED <<replied, prompted, timeline, requests, runs, vetoed, restarts>>

\* An HTTP error status of the timeline is only a warning and the action is
\* running; a transport error (httpx) is not a TimelineClientError, leaves the
\* executor as an exception and the submission is marked failed, its output
\* untouched.
PromptReturns(h) ==
  /\ task[h].pc = "prompted"
  /\ WriteRecord(task[h].id, task[h].num, "running", NoChoice)
  /\ task' = [task EXCEPT ![h] = Idle]
  /\ UNCHANGED <<replied, prompted, timeline, requests, runs, vetoed, restarts>>

PromptRaises(h) ==
  LET a == task[h].id
  IN  /\ task[h].pc = "prompted"
      /\ WriteRecord(a, task[h].num, "failed",
                     IF Exists(a) THEN actions[a].choice ELSE NoChoice)
      /\ task' = [task EXCEPT ![h] = Idle]
      /\ UNCHANGED <<replied, prompted, timeline, requests, runs, vetoed, restarts>>

-----------------------------------------------------------------------------
(***************************************************************************)
(* approve_action and reject_action.  The rebuilt request has no           *)
(* parameters, so the run is never live and nothing suspends.              *)
(***************************************************************************)
\* Mutants: no status check; a rejected action can still be approved.
MayApproveAny(a)      == Exists(a)
MayApproveRejected(a) ==
  Exists(a) /\ actions[a].status \in {"awaiting_approval", "rejected"}

MayApprove(a) == Exists(a) /\ actions[a].status = "awaiting_approval"

approve_action(a) ==
  /\ MayApprove(a)
  /\ LET n == actions[a].num
         hasExecutor == TypeOf(n) \in EXECUTOR_REGISTRY
     IN  /\ actions' = [actions EXCEPT
                          ![a].status = IF hasExecutor THEN "completed" ELSE "failed",
                          ![a].choice = NoChoice]
         /\ runs' = IF hasExecutor
                    THEN Append(runs, [num |-> n, by |-> "approve", live |-> FALSE])
                    ELSE runs
  /\ UNCHANGED <<replied, task, prompted, timeline, requests, vetoed, restarts>>

\* No guard on the status: any record can be rejected.
reject_action(a) ==
  /\ Exists(a)
  /\ actions' = [actions EXCEPT ![a].status = "rejected"]
  /\ vetoed' = IF actions[a].status = "awaiting_approval"
               THEN vetoed \cup {actions[a].num}
               ELSE vetoed
  /\ UNCHANGED <<replied, task, prompted, timeline, requests, runs, restarts>>

-----------------------------------------------------------------------------
(***************************************************************************)
(* chatops_callback.  The handler checks the replied set, reads the record *)
(* it will write to, and suspends in the post to the timeline.             *)
(***************************************************************************)
MayAnswer(a) == a \in prompted /\ a \notin replied

chatops_callback(h, a, c) ==
  /\ IsIdle(h)
  /\ MayAnswer(a)
  /\ task' = [task EXCEPT ![h] =
                [pc |-> "posting", id |-> a, choice |-> c,
                 num |-> IF Exists(a) THEN actions[a].num ELSE 0]]
  /\ UNCHANGED <<actions, replied, prompted, timeline, requests, runs, vetoed, restarts>>

\* services/api appends the event.
TimelineAppends(h) ==
  /\ task[h].pc = "posting"
  /\ Len(timeline[task[h].id]) < MaxEvents
  /\ timeline' = [timeline EXCEPT ![task[h].id] = Append(@, task[h].choice)]
  /\ task' = [task EXCEPT ![h].pc = "posted"]
  /\ UNCHANGED <<actions, replied, prompted, requests, runs, vetoed, restarts>>

\* The post returned, or was refused with a TimelineClientError (still
\* "posting"): the answer is marked as recorded either way.
FinishCallback(h) ==
  /\ task[h].pc \in {"posting", "posted"}
  /\ replied' = replied \cup {task[h].id}
  /\ WriteRecord(task[h].id, task[h].num, "completed", task[h].choice)
  /\ task' = [task EXCEPT ![h] = Idle]
  /\ UNCHANGED <<prompted, timeline, requests, runs, vetoed, restarts>>

\* A transport error (before or after the append) ends the handler with a 500.
CallbackRaises(h) ==
  /\ task[h].pc \in {"posting", "posted"}
  /\ task' = [task EXCEPT ![h] = Idle]
  /\ UNCHANGED <<actions, replied, prompted, timeline, requests, runs, vetoed, restarts>>

\* The links of a prompt pass their expiry (verify_token refuses them).
LinksExpire(a) ==
  /\ a \in prompted
  /\ prompted' = prompted \ {a}
  /\ UNCHANGED <<actions, replied, task, timeline, requests, runs, vetoed, restarts>>

\* The process restarts: everything in memory is gone.
Restart ==
  /\ restarts < MaxRestarts
  /\ restarts' = restarts + 1
  /\ actions' = [a \in ActionIds |-> NoRecord]
  /\ replied' = {}
  /\ task' = [h \in Handlers |-> Idle]
  /\ UNCHANGED <<prompted, timeline, requests, runs, vetoed>>

-----------------------------------------------------------------------------
\* What the event loop does for a suspended handler.
HandlerStep(h) ==
  \/ \E s \in {"completed", "failed"} : ExecutorReturns(h, s)
  \/ DeliverPrompt(h)
  \/ PromptFails(h)
  \/ PromptReturns(h)
  \/ PromptRaises(h)
  \/ TimelineAppends(h)
  \/ FinishCallback(h)
  \/ CallbackRaises(h)

Next ==
  \/ \E h \in Handlers, a \in ActionIds, t \in Types, creds \in BOOLEAN :
       submit_action(h, a, t, creds)
  \/ \E h \in Handlers, a \in ActionIds, c \in Choices : chatops_callback(h, a, c)
  \/ \E h \in Handlers : HandlerStep(h)
  \/ \E a \in ActionIds : approve_action(a) \/ reject_action(a) \/ LinksExpire(a)
  \/ Restart

Spec == Init /\ [][Next]_vars

-----------------------------------------------------------------------------
(***************************************************************************)
(* What the code guarantees.                                               *)
(***************************************************************************)

\* The router keeps the promise of ApprovalGate through every mix of resubmissions,
\* late writes, callbacks and restarts: a gated submission is started or vetoed in
\* one step that takes it out of the waiting ones, and it never waits again.
Held == {actions[a].num :
           a \in {b \in ActionIds : Exists(b) /\ actions[b].status = "awaiting_approval"}}

Verdicts == [n \in DOMAIN requests |-> evaluate(TypeOf(n))]
Starts == [i \in DOMAIN runs |-> runs[i].num]

Promise == INSTANCE ApprovalGate WITH
  verdicts <- Verdicts,
  held     <- Held,
  starts   <- Starts

OneDecision == Promise!Spec

\* A submission's executor is started at most once, whatever mix of
\* resubmissions, approvals, rejections, callbacks and restarts follows
\* (approve_action must leave the awaiting state before anyone else can
\* approve).
RunsAtMostOnce ==
  \A i, j \in DOMAIN runs : runs[i].num = runs[j].num => i = j

\* An action that the gate holds for a human is never started by its
\* submission: only approve_action starts it.
GatedOnlyByApproval ==
  \A i \in DOMAIN runs : TypeOf(runs[i].num) \in Gated => runs[i].by = "approve"

\* A submission that a human rejected while it waited is never executed, not
\* even after later approvals, late writes of other handlers or a resubmission
\* of its id (that one is a new submission).
RejectedNeverRuns ==
  \A i \in DOMAIN runs : runs[i].num \notin vetoed

\* A record that says completed, without a user's answer in it, is one whose
\* executor was started: a missing executor or a late writer never reports
\* work that was not begun.
CompletedMeansRun ==
  \A a \in ActionIds :
    Exists(a) /\ actions[a].status = "completed" /\ actions[a].choice = NoChoice
      => \E i \in DOMAIN runs : runs[i].num = actions[a].num

\* A record is in the status approved only while the handler that runs its
\* executor is suspended: nothing is left half-executed in the table.
ApprovedIsInFlight ==
  \A a \in ActionIds :
    Exists(a) /\ actions[a].status = "approved"
      => \E h \in Handlers : /\ task[h].pc \in {"executing", "prompted"}
                             /\ task[h].id = a /\ task[h].num = actions[a].num

\* A veto stands: a submission that was rejected while it waited stays rejected,
\* whoever writes later - an approval, a second rejection, the executor of an
\* earlier submission of the id that was still suspended when its record was
\* replaced - unless a user's answer to an earlier prompt of the id is written over it.
VetoStands ==
  \A a \in ActionIds :
    Exists(a) /\ actions[a].num \in vetoed
      => actions[a].status = "rejected" \/ actions[a].choice # NoChoice

\* Every action that was approved automatically leaves that status, or its
\* record is gone with the process.
AutoApprovedSettles ==
  \A a \in ActionIds : Exists(a) /\ actions[a].status = "approved"
                         ~> ~Exists(a) \/ actions[a].status # "approved"

(***************************************************************************)
(* What the comments promise and the code does not keep: each is violated. *)
(***************************************************************************)

\* router.py: _chatops_replied is the single-use enforcement.  After an answer
\* is recorded, no second answer reaches the timeline.
SingleUse ==
  [][\A a \in ActionIds : a \in replied => timeline'[a] = timeline[a]]_vars

\* chatops_callback: the record reflects the final status.  An answer, once in
\* the record, stays in it.
AnswerKept ==
  [][\A a \in ActionIds :
       /\ Exists(a) /\ actions[a].choice # NoChoice
       /\ Exists(a)' /\ actions'[a].num = actions[a].num
       => actions'[a].choice # NoChoice]_vars

\* chatops.py: a failed timeline write keeps the action running, because the
\* prompt was delivered.
DeliveredPromptRuns ==
  [][\A h \in Handlers :
       /\ task[h].pc = "prompted" /\ task'[h] = Idle
       /\ actions'[task[h].id] # NoRecord
       /\ actions'[task[h].id].num = task[h].num
       => actions'[task[h].id].status # "failed"]_vars

\* reject_action: "Reject a pending action."
RejectsOnlyPending ==
  [][\A a \in ActionIds :
       /\ Exists(a) /\ Exists(a)'
       /\ actions'[a].num = actions[a].num
       /\ actions'[a].status = "rejected"
       => actions[a].status \in {"awaiting_approval", "rejected"}]_vars

\* executor_registry.py: the simulation is for a request without credentials.
\* An approved action that was submitted with them runs live.
ApprovedRunsLive ==
  \A i \in DOMAIN runs :
    runs[i].by = "approve" => runs[i].live = requests[runs[i].num].creds

=============================================================================
