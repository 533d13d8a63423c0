-------------------------- MODULE ActionGateProofs --------------------------
(***************************************************************************)
(* Type correctness and the safety of the human gate, for any sets of ids, *)
(* types, handlers and choices and any bounds.                             *)
(*                                                                         *)
(* GateInv is inductive: a record carries the number of a submission of    *)
(* its own id; while it awaits approval that submission is of a gated type,*)
(* has not run and was not vetoed.  That is what approve_action needs to   *)
(* start an executor without breaking any of the three promises, and what  *)
(* makes the router an implementation of ApprovalGate.  TableInv, further  *)
(* down, is about what the records report.                                 *)
(***************************************************************************)
EXTENDS ActionDispatch, SequenceTheorems, TLAPS

RecordsKnown ==
  \A a \in ActionIds : Exists(a) =>
    /\ actions[a].num \in DOMAIN requests
    /\ requests[actions[a].num].id = a

AwaitingUntouched ==
  \A a \in ActionIds : Exists(a) /\ actions[a].status = "awaiting_approval" =>
    /\ TypeOf(actions[a].num) \in Gated
    /\ actions[a].num \notin vetoed
    /\ \A i \in DOMAIN runs : runs[i].num # actions[a].num

HistoryKnown ==
  /\ \A i \in DOMAIN runs : runs[i].num \in DOMAIN requests
  /\ vetoed \subseteq DOMAIN requests

GateInv ==
  /\ RecordsKnown
  /\ AwaitingUntouched
  /\ HistoryKnown
  /\ RunsAtMostOnce
  /\ GatedOnlyByApproval
  /\ RejectedNeverRuns

-----------------------------------------------------------------------------

\* The executor's start by a submission is never that of a gated type.
LEMMA StartsNotGated ==
  ASSUME NEW t \in Types, StartsExecutor(t)
  PROVE  t \notin Gated
  BY DEF StartsExecutor, Gated

\* What a write to a record keeps: the record's number, and its status is not
\* turned into awaiting.
LEMMA WriteRecordEffect ==
  ASSUME TypeOK, NEW a0 \in ActionIds, NEW n, NEW s \in Status,
         NEW c \in Choices \cup {NoChoice},
         s # "awaiting_approval", WriteRecord(a0, n, s, c)
  PROVE  /\ actions' \in [ActionIds -> Record \cup {NoRecord}]
         /\ \A a \in ActionIds :
              actions'[a] # NoRecord =>
                /\ actions[a] # NoRecord
                /\ actions'[a].num = actions[a].num
                /\ actions'[a].status = "awaiting_approval" =>
                     actions[a].status = "awaiting_approval"
<1>1. CASE Exists(a0) /\ actions[a0].num = n
  <2>1. actions[a0] \in Record
    BY <1>1 DEF TypeOK, Exists
  <2>2. actions' = [actions EXCEPT ![a0] = [num |-> n, status |-> s, choice |-> c]]
    BY <1>1 DEF WriteRecord
  <2>3. [num |-> n, status |-> s, choice |-> c] \in Record
    BY <1>1, <2>1 DEF Record
  <2>4. /\ actions'[a0] = [num |-> n, status |-> s, choice |-> c]
        /\ \A a \in ActionIds : a # a0 => actions'[a] = actions[a]
    BY <2>2 DEF TypeOK
  <2>5. actions' \in [ActionIds -> Record \cup {NoRecord}]
    BY <2>2, <2>3 DEF TypeOK
  <2> QED
    BY <1>1, <2>4, <2>5 DEF Exists
<1>2. CASE ~(Exists(a0) /\ actions[a0].num = n)
  BY <1>2 DEF WriteRecord, TypeOK, Exists
<1> QED
  BY <1>1, <1>2

\* What is known of a suspended handler from its pc.
LEMMA TaskShape ==
  ASSUME TypeOK, NEW h \in Handlers
  PROVE  /\ task[h].pc \in {"executing", "prompted"} =>
              task[h] \in [pc : {"executing", "prompted"}, id : ActionIds, num : Number]
         /\ task[h].pc \in {"posting", "posted"} =>
              task[h] \in [pc : {"posting", "posted"}, id : ActionIds,
                           num : Number \cup {0}, choice : Choices]
<1>1. task[h] \in Task
  BY DEF TypeOK
<1> QED
  BY <1>1 DEF Task, Idle

LEMMA TypeInit == Init => TypeOK
<1> SUFFICES ASSUME Init PROVE TypeOK
  OBVIOUS
<1> USE BoundsAssumption DEF Init
<1>1. task \in [Handlers -> Task]
  BY DEF Task
<1> QED
  BY <1>1 DEF TypeOK

LEMMA TypeStep == TypeOK /\ [Next]_vars => TypeOK'
<1> SUFFICES ASSUME TypeOK, [Next]_vars PROVE TypeOK'
  OBVIOUS
<1>1. ASSUME NEW h \in Handlers, NEW a \in ActionIds, NEW t \in Types,
             NEW creds \in BOOLEAN, submit_action(h, a, t, creds)
      PROVE  TypeOK'
  <2> DEFINE n == Len(requests) + 1
             suspends == StartsExecutor(t) /\ creds
             status == IF suspends THEN "approved" ELSE StatusWithoutAwait(t)
  <2>1. n \in Number
    BY <1>1, BoundsAssumption DEF submit_action, TypeOK, Number
  <2>2. status \in Status
    BY DEF StatusWithoutAwait, Status
  <2>3. actions' \in [ActionIds -> Record \cup {NoRecord}]
    <3>1. [num |-> n, status |-> status, choice |-> NoChoice] \in Record
      BY <2>1, <2>2 DEF Record
    <3>2. actions' = [actions EXCEPT ![a] =
                        [num |-> n, status |-> status, choice |-> NoChoice]]
      BY <1>1 DEF submit_action
    <3> HIDE DEF status, n
    <3> QED
      BY <3>1, <3>2 DEF TypeOK
  <2>4. requests' \in Seq(Request) /\ Len(requests') <= MaxSubmits
    <3>1. [id |-> a, type |-> t, creds |-> creds] \in Request
      BY DEF Request
    <3> QED
      BY <3>1, <1>1 DEF submit_action, TypeOK
  <2>5. runs' \in Seq(Run)
    <3>1. [num |-> n, by |-> "submit", live |-> creds] \in Run
      BY <2>1 DEF Run
    <3> QED
      BY <3>1, <1>1 DEF submit_action, TypeOK
  <2>6. task' \in [Handlers -> Task]
    <3>1. [pc |-> "executing", id |-> a, num |-> n] \in Task
      BY <2>1 DEF Task
    <3> QED
      BY <3>1, <1>1 DEF submit_action, TypeOK
  <2> QED
    BY <1>1, <2>3, <2>4, <2>5, <2>6 DEF submit_action, TypeOK
<1>2. ASSUME NEW h \in Handlers, NEW a \in ActionIds, NEW c \in Choices,
             chatops_callback(h, a, c)
      PROVE  TypeOK'
  <2> DEFINE n == IF Exists(a) THEN actions[a].num ELSE 0
  <2>1. n \in Number \cup {0}
    BY DEF TypeOK, Exists, Record
  <2>2. [pc |-> "posting", id |-> a, choice |-> c, num |-> n] \in Task
    BY <2>1 DEF Task
  <2>3. task' = [task EXCEPT ![h] = [pc |-> "posting", id |-> a, choice |-> c, num |-> n]]
    BY <1>2 DEF chatops_callback
  <2> QED
    BY <1>2, <2>2, <2>3 DEF chatops_callback, TypeOK
<1>3. ASSUME NEW h \in Handlers, HandlerStep(h) PROVE TypeOK'
  <2>1. Idle \in Task
    BY DEF Task
  <2>2. ASSUME NEW s \in {"completed", "failed"}, ExecutorReturns(h, s) PROVE TypeOK'
    <3>1. task[h].id \in ActionIds
      BY <2>2, TaskShape DEF ExecutorReturns
    <3>2. actions' \in [ActionIds -> Record \cup {NoRecord}]
      BY <2>2, <3>1, WriteRecordEffect DEF ExecutorReturns, Status
    <3> QED
      BY <2>1, <2>2, <3>2 DEF ExecutorReturns, TypeOK
  <2>3. CASE DeliverPrompt(h)
    <3>1. task[h] \in [pc : {"executing", "prompted"}, id : ActionIds, num : Number]
      BY <2>3, TaskShape DEF DeliverPrompt
    <3>2. [task[h] EXCEPT !.pc = "prompted"] \in Task
      BY <3>1 DEF Task
    <3>3. task' = [task EXCEPT ![h] = [task[h] EXCEPT !.pc = "prompted"]]
      BY <2>3 DEF DeliverPrompt
    <3> QED
      BY <2>3, <3>1, <3>2, <3>3 DEF DeliverPrompt, TypeOK
  <2>4. CASE PromptFails(h)
    <3>1. task[h].id \in ActionIds
      BY <2>4, TaskShape DEF PromptFails
    <3>2. actions' \in [ActionIds -> Record \cup {NoRecord}]
      BY <2>4, <3>1, WriteRecordEffect DEF PromptFails, Status
    <3> QED
      BY <2>1, <2>4, <3>2 DEF PromptFails, TypeOK
  <2>5. CASE PromptReturns(h)
    <3>1. task[h].id \in ActionIds
      BY <2>5, TaskShape DEF PromptReturns
    <3>2. actions' \in [ActionIds -> Record \cup {NoRecord}]
      BY <2>5, <3>1, WriteRecordEffect DEF PromptReturns, Status
    <3> QED
      BY <2>1, <2>5, <3>2 DEF PromptReturns, TypeOK
  <2>6. CASE PromptRaises(h)
    <3> DEFINE a == task[h].id
               c == IF Exists(a) THEN actions[a].choice ELSE NoChoice
    <3>1. a \in ActionIds
      BY <2>6, TaskShape DEF PromptRaises
    <3>2. c \in Choices \cup {NoChoice}
      BY <3>1 DEF TypeOK, Exists, Record
    <3>3. WriteRecord(a, task[h].num, "failed", c)
      BY <2>6 DEF PromptRaises
    <3>4. actions' \in [ActionIds -> Record \cup {NoRecord}]
      <4> HIDE DEF a, c
      <4> QED
        BY <3>1, <3>2, <3>3, WriteRecordEffect DEF Status
    <3> QED
      BY <2>1, <2>6, <3>4 DEF PromptRaises, TypeOK
  <2>7. CASE TimelineAppends(h)
    <3>1. task[h] \in [pc : {"posting", "posted"}, id : ActionIds,
                       num : Number \cup {0}, choice : Choices]
      BY <2>7, TaskShape DEF TimelineAppends
    <3>2. [task[h] EXCEPT !.pc = "posted"] \in Task
      BY <3>1 DEF Task
    <3>3. task' = [task EXCEPT ![h] = [task[h] EXCEPT !.pc = "posted"]]
      BY <2>7 DEF TimelineAppends
    <3>4. timeline' \in [ActionIds -> Seq(Choices)]
      BY <2>7, <3>1 DEF TimelineAppends, TypeOK
    <3> QED
      BY <2>7, <3>2, <3>3, <3>4 DEF TimelineAppends, TypeOK
  <2>8. CASE FinishCallback(h)
    <3>1. task[h] \in [pc : {"posting", "posted"}, id : ActionIds,
                       num : Number \cup {0}, choice : Choices]
      BY <2>8, TaskShape DEF FinishCallback
    <3>2. actions' \in [ActionIds -> Record \cup {NoRecord}]
      BY <2>8, <3>1, WriteRecordEffect DEF FinishCallback, Status
    <3> QED
      BY <2>1, <2>8, <3>1, <3>2 DEF FinishCallback, TypeOK
  <2>9. CASE CallbackRaises(h)
    BY <2>1, <2>9 DEF CallbackRaises, TypeOK
  <2> QED
    BY <1>3, <2>2, <2>3, <2>4, <2>5, <2>6, <2>7, <2>8, <2>9 DEF HandlerStep
<1>4. ASSUME NEW a \in ActionIds, approve_action(a) PROVE TypeOK'
  <2> DEFINE n == actions[a].num
             s == IF TypeOf(n) \in EXECUTOR_REGISTRY THEN "completed" ELSE "failed"
  <2>1. actions[a] \in Record
    BY <1>4 DEF approve_action, MayApprove, Exists, TypeOK
  <2>2. actions' = [actions EXCEPT ![a].status = s, ![a].choice = NoChoice]
    BY <1>4 DEF approve_action
  <2>3. [actions[a] EXCEPT !.status = s, !.choice = NoChoice] \in Record
    BY <2>1 DEF Record, Status
  <2>4. actions' \in [ActionIds -> Record \cup {NoRecord}]
    <3> HIDE DEF s
    <3> QED
      BY <2>2, <2>3 DEF TypeOK
  <2>5. [num |-> n, by |-> "approve", live |-> FALSE] \in Run
    BY <2>1 DEF Record, Run
  <2>6. runs' \in Seq(Run)
    BY <1>4, <2>5 DEF approve_action, TypeOK
  <2> QED
    BY <1>4, <2>4, <2>6 DEF approve_action, TypeOK
<1>5. ASSUME NEW a \in ActionIds, reject_action(a) PROVE TypeOK'
  <2>1. actions[a] \in Record
    BY <1>5 DEF reject_action, Exists, TypeOK
  <2>2. [actions[a] EXCEPT !.status = "rejected"] \in Record /\ actions[a].num \in Number
    BY <2>1 DEF Record, Status
  <2> QED
    BY <1>5, <2>2 DEF reject_action, TypeOK
<1>6. ASSUME NEW a \in ActionIds, LinksExpire(a) PROVE TypeOK'
  BY <1>6 DEF LinksExpire, TypeOK
<1>7. CASE Restart
  BY <1>7, BoundsAssumption DEF Restart, TypeOK, Task
<1>8. CASE UNCHANGED vars
  BY <1>8 DEF vars, TypeOK
<1> QED
  BY <1>1, <1>2, <1>3, <1>4, <1>5, <1>6, <1>7, <1>8 DEF Next

\* Every variable keeps its type.
THEOREM TypeCorrect == Spec => []TypeOK
<1> QED
  BY TypeInit, TypeStep, PTL DEF Spec

-----------------------------------------------------------------------------
(***************************************************************************)
(* The inductive invariant.                                                *)
(***************************************************************************)

LEMMA GateInit == Init => GateInv
BY DEF Init, GateInv, RecordsKnown, AwaitingUntouched, HistoryKnown,
       RunsAtMostOnce, GatedOnlyByApproval, RejectedNeverRuns, Exists

\* A step that starts no executor, rejects and submits nothing, and at most
\* rewrites records without making one await approval.
Quiet ==
  /\ UNCHANGED <<requests, runs, vetoed>>
  /\ \A a \in ActionIds :
       actions'[a] # NoRecord =>
         /\ actions[a] # NoRecord
         /\ actions'[a].num = actions[a].num
         /\ actions'[a].status = "awaiting_approval" =>
              actions[a].status = "awaiting_approval"

\* Such a step keeps the invariant.
LEMMA QuietStep ==
  ASSUME TypeOK, GateInv, Quiet
  PROVE  GateInv'
<1> USE DEF Quiet
<1>1. RecordsKnown'
  BY DEF GateInv, RecordsKnown, Exists
<1>2. AwaitingUntouched'
  BY DEF GateInv, AwaitingUntouched, Exists, TypeOf
<1>3. HistoryKnown' /\ RunsAtMostOnce' /\ GatedOnlyByApproval' /\ RejectedNeverRuns'
  BY DEF GateInv, HistoryKnown, RunsAtMostOnce, GatedOnlyByApproval,
         RejectedNeverRuns, TypeOf
<1> QED
  BY <1>1, <1>2, <1>3 DEF GateInv

\* Every step of a suspended handler is such a step.
LEMMA HandlerStepQuiet ==
  ASSUME TypeOK, NEW h \in Handlers, HandlerStep(h)
  PROVE  Quiet
<1>1. ASSUME NEW s \in {"completed", "failed"}, ExecutorReturns(h, s) PROVE Quiet
  <2>1. task[h].id \in ActionIds
    BY <1>1, TaskShape DEF ExecutorReturns
  <2> QED
    BY <1>1, <2>1, WriteRecordEffect DEF Quiet, ExecutorReturns, Status
<1>2. CASE DeliverPrompt(h) \/ TimelineAppends(h) \/ CallbackRaises(h)
  BY <1>2 DEF Quiet, DeliverPrompt, TimelineAppends, CallbackRaises
<1>3. CASE PromptFails(h)
  <2>1. task[h].id \in ActionIds
    BY <1>3, TaskShape DEF PromptFails
  <2> QED
    BY <1>3, <2>1, WriteRecordEffect DEF Quiet, PromptFails, Status
<1>4. CASE PromptReturns(h)
  <2>1. task[h].id \in ActionIds
    BY <1>4, TaskShape DEF PromptReturns
  <2> QED
    BY <1>4, <2>1, WriteRecordEffect DEF Quiet, PromptReturns, Status
<1>5. CASE PromptRaises(h)
  <2> DEFINE a == task[h].id
             c == IF Exists(a) THEN actions[a].choice ELSE NoChoice
  <2>1. a \in ActionIds
    BY <1>5, TaskShape DEF PromptRaises
  <2>2. c \in Choices \cup {NoChoice}
    BY <2>1 DEF TypeOK, Exists, Record
  <2>3. WriteRecord(a, task[h].num, "failed", c) /\ UNCHANGED <<requests, runs, vetoed>>
    BY <1>5 DEF PromptRaises
  <2> HIDE DEF a, c
  <2> QED
    BY <2>1, <2>2, <2>3, WriteRecordEffect DEF Quiet, Status
<1>6. CASE FinishCallback(h)
  <2>1. task[h].id \in ActionIds /\ task[h].choice \in Choices
    BY <1>6, TaskShape DEF FinishCallback
  <2> QED
    BY <1>6, <2>1, WriteRecordEffect DEF Quiet, FinishCallback, Status
<1> QED
  BY <1>1, <1>2, <1>3, <1>4, <1>5, <1>6 DEF HandlerStep

\* A submission gets a number that no record, run or veto mentions yet.
LEMMA SubmitStep ==
  ASSUME TypeOK, GateInv, NEW h \in Handlers, NEW a \in ActionIds,
         NEW t \in Types, NEW creds \in BOOLEAN, submit_action(h, a, t, creds)
  PROVE  GateInv'
<1> DEFINE n == Len(requests) + 1
           suspends == StartsExecutor(t) /\ creds
           status == IF suspends THEN "approved" ELSE StatusWithoutAwait(t)
<1>1. /\ requests' = Append(requests, [id |-> a, type |-> t, creds |-> creds])
      /\ actions' = [actions EXCEPT ![a] =
                       [num |-> n, status |-> status, choice |-> NoChoice]]
      /\ runs' = IF StartsExecutor(t)
                 THEN Append(runs, [num |-> n, by |-> "submit", live |-> creds])
                 ELSE runs
      /\ vetoed' = vetoed
  BY DEF submit_action
<1>2. /\ n \notin DOMAIN requests
      /\ DOMAIN requests' = DOMAIN requests \cup {n}
      /\ \A m \in DOMAIN requests : requests'[m] = requests[m]
      /\ requests'[n].id = a /\ requests'[n].type = t
  BY <1>1 DEF TypeOK
<1>3. /\ actions'[a] = [num |-> n, status |-> status, choice |-> NoChoice]
      /\ \A b \in ActionIds : b # a => actions'[b] = actions[b]
  <2> HIDE DEF status, n
  <2> QED
    BY <1>1 DEF TypeOK
<1>4. status = "awaiting_approval" => t \in Gated /\ ~StartsExecutor(t)
  BY TypesAssumption DEF StatusWithoutAwait, StartsExecutor, Gated, evaluate
<1>5. \A i \in DOMAIN runs' :
        \/ i \in DOMAIN runs /\ runs'[i] = runs[i]
        \/ /\ i = Len(runs) + 1 /\ i \notin DOMAIN runs
           /\ runs'[i] = [num |-> n, by |-> "submit", live |-> creds]
           /\ t \notin Gated
  <2>1. CASE StartsExecutor(t)
    <3>1. runs' = Append(runs, [num |-> n, by |-> "submit", live |-> creds])
      BY <2>1, <1>1
    <3>2. t \notin Gated
      BY <2>1, StartsNotGated
    <3> HIDE DEF n
    <3> QED
      BY <3>1, <3>2 DEF TypeOK
  <2>2. CASE ~StartsExecutor(t)
    BY <2>2, <1>1
  <2> QED
    BY <2>1, <2>2
<1>6. StartsExecutor(t) \/ runs' = runs
  BY <1>1
<1> HIDE DEF n, status, suspends
<1>8. RecordsKnown'
  BY <1>2, <1>3 DEF GateInv, RecordsKnown, Exists
<1>9. HistoryKnown'
  BY <1>1, <1>2, <1>5 DEF GateInv, HistoryKnown
<1>10. RunsAtMostOnce'
  BY <1>2, <1>5 DEF GateInv, RunsAtMostOnce, HistoryKnown
<1>11. GatedOnlyByApproval'
  BY <1>2, <1>5 DEF GateInv, GatedOnlyByApproval, HistoryKnown, TypeOf
<1>12. RejectedNeverRuns'
  BY <1>1, <1>2, <1>5 DEF GateInv, RejectedNeverRuns, HistoryKnown
<1>13. AwaitingUntouched'
  <2> SUFFICES ASSUME NEW b \in ActionIds, actions'[b] # NoRecord,
                      actions'[b].status = "awaiting_approval"
               PROVE  /\ requests'[actions'[b].num].type \in Gated
                      /\ actions'[b].num \notin vetoed'
                      /\ \A i \in DOMAIN runs' : runs'[i].num # actions'[b].num
    BY DEF AwaitingUntouched, Exists, TypeOf
  <2>1. CASE b = a
    <3>1. actions'[b].num = n /\ t \in Gated /\ runs' = runs
      BY <2>1, <1>3, <1>4, <1>6
    <3> QED
      BY <3>1, <1>1, <1>2 DEF GateInv, HistoryKnown
  <2>2. CASE b # a
    <3>1. /\ actions'[b] = actions[b] /\ actions[b].num \in DOMAIN requests
          /\ actions[b].num # n
      BY <2>2, <1>2, <1>3 DEF GateInv, RecordsKnown, Exists
    <3>2. /\ requests[actions[b].num].type \in Gated
          /\ actions[b].num \notin vetoed
          /\ \A i \in DOMAIN runs : runs[i].num # actions[b].num
      BY <3>1 DEF GateInv, AwaitingUntouched, Exists, TypeOf
    <3>3. \A i \in DOMAIN runs' : runs'[i].num # actions[b].num
      BY <3>1, <3>2, <1>5
    <3> QED
      BY <3>1, <3>2, <3>3, <1>1, <1>2
  <2> QED
    BY <2>1, <2>2
<1> QED
  BY <1>8, <1>9, <1>10, <1>11, <1>12, <1>13 DEF GateInv

\* An approval runs a submission that awaited: gated, not vetoed, not run.
LEMMA ApproveStep ==
  ASSUME TypeOK, GateInv, NEW a \in ActionIds, approve_action(a)
  PROVE  GateInv'
<1> DEFINE n == actions[a].num
<1>1. /\ Exists(a) /\ actions[a].status = "awaiting_approval"
      /\ requests' = requests /\ vetoed' = vetoed
  BY DEF approve_action, MayApprove
<1>2. actions[a] \in Record
  BY <1>1 DEF Exists, TypeOK
<1>3. /\ \A b \in ActionIds : b # a => actions'[b] = actions[b]
      /\ actions'[a].num = n
      /\ actions'[a].status # "awaiting_approval"
  <2>1. actions' = [actions EXCEPT ![a] = [actions[a] EXCEPT
                      !.status = IF TypeOf(n) \in EXECUTOR_REGISTRY
                                 THEN "completed" ELSE "failed",
                      !.choice = NoChoice]]
    BY DEF approve_action
  <2> QED
    BY <2>1, <1>2 DEF TypeOK, Record
<1>4. /\ n \in DOMAIN requests /\ n \notin vetoed
      /\ \A i \in DOMAIN runs : runs[i].num # n
  BY <1>1 DEF GateInv, RecordsKnown, AwaitingUntouched
<1>5. \A i \in DOMAIN runs' :
        \/ i \in DOMAIN runs /\ runs'[i] = runs[i]
        \/ /\ i = Len(runs) + 1 /\ i \notin DOMAIN runs
           /\ runs'[i] = [num |-> n, by |-> "approve", live |-> FALSE]
  <2>1. CASE TypeOf(n) \in EXECUTOR_REGISTRY
    <3>1. runs' = Append(runs, [num |-> n, by |-> "approve", live |-> FALSE])
      BY <2>1 DEF approve_action
    <3> HIDE DEF n
    <3> QED
      BY <3>1 DEF TypeOK
  <2>2. CASE TypeOf(n) \notin EXECUTOR_REGISTRY
    BY <2>2 DEF approve_action
  <2> QED
    BY <2>1, <2>2
<1>7. RecordsKnown'
  BY <1>1, <1>3 DEF GateInv, RecordsKnown, Exists
<1> HIDE DEF n
<1>8. HistoryKnown'
  BY <1>1, <1>4, <1>5 DEF GateInv, HistoryKnown
<1>9. RunsAtMostOnce'
  BY <1>4, <1>5 DEF GateInv, RunsAtMostOnce
<1>10. GatedOnlyByApproval'
  BY <1>1, <1>5 DEF GateInv, GatedOnlyByApproval, TypeOf
<1>11. RejectedNeverRuns'
  BY <1>1, <1>4, <1>5 DEF GateInv, RejectedNeverRuns
<1>12. AwaitingUntouched'
  <2> SUFFICES ASSUME NEW b \in ActionIds, actions'[b] # NoRecord,
                      actions'[b].status = "awaiting_approval"
               PROVE  /\ requests'[actions'[b].num].type \in Gated
                      /\ actions'[b].num \notin vetoed'
                      /\ \A i \in DOMAIN runs' : runs'[i].num # actions'[b].num
    BY DEF AwaitingUntouched, Exists, TypeOf
  <2>1. b # a /\ actions'[b] = actions[b]
    BY <1>3
  <2>2. actions[b].num # n
    BY <2>1, <1>1 DEF GateInv, RecordsKnown, Exists, n
  <2>3. /\ requests[actions[b].num].type \in Gated
        /\ actions[b].num \notin vetoed
        /\ \A i \in DOMAIN runs : runs[i].num # actions[b].num
    BY <2>1 DEF GateInv, AwaitingUntouched, Exists, TypeOf
  <2> QED
    BY <2>1, <2>2, <2>3, <1>1, <1>5
<1> QED
  BY <1>7, <1>8, <1>9, <1>10, <1>11, <1>12 DEF GateInv

\* A rejection of a waiting record vetoes a submission that has not run.
LEMMA RejectStep ==
  ASSUME TypeOK, GateInv, NEW a \in ActionIds, reject_action(a)
  PROVE  GateInv'
<1>1. Exists(a) /\ requests' = requests /\ runs' = runs
  BY DEF reject_action
<1>2. actions[a] \in Record
  BY <1>1 DEF Exists, TypeOK
<1>3. /\ \A b \in ActionIds : b # a => actions'[b] = actions[b]
      /\ actions'[a].num = actions[a].num
      /\ actions'[a].status # "awaiting_approval"
  <2>1. actions' = [actions EXCEPT ![a] = [actions[a] EXCEPT !.status = "rejected"]]
    BY DEF reject_action
  <2> QED
    BY <2>1, <1>2 DEF TypeOK, Record
<1>4. \/ vetoed' = vetoed
      \/ /\ vetoed' = vetoed \cup {actions[a].num}
         /\ \A i \in DOMAIN runs : runs[i].num # actions[a].num
  BY <1>1 DEF reject_action, GateInv, AwaitingUntouched
<1>5. RecordsKnown'
  BY <1>1, <1>3 DEF GateInv, RecordsKnown, Exists
<1>6. HistoryKnown'
  BY <1>1, <1>4 DEF GateInv, HistoryKnown, RecordsKnown
<1>7. RunsAtMostOnce' /\ GatedOnlyByApproval'
  BY <1>1 DEF GateInv, RunsAtMostOnce, GatedOnlyByApproval, TypeOf
<1>8. RejectedNeverRuns'
  BY <1>1, <1>4 DEF GateInv, RejectedNeverRuns
<1>9. AwaitingUntouched'
  <2> SUFFICES ASSUME NEW b \in ActionIds, actions'[b] # NoRecord,
                      actions'[b].status = "awaiting_approval"
               PROVE  /\ requests'[actions'[b].num].type \in Gated
                      /\ actions'[b].num \notin vetoed'
                      /\ \A i \in DOMAIN runs' : runs'[i].num # actions'[b].num
    BY DEF AwaitingUntouched, Exists, TypeOf
  <2>1. b # a /\ actions'[b] = actions[b]
    BY <1>3
  <2>2. actions[b].num # actions[a].num
    BY <2>1, <1>1 DEF GateInv, RecordsKnown, Exists
  <2>3. /\ requests[actions[b].num].type \in Gated
        /\ actions[b].num \notin vetoed
        /\ \A i \in DOMAIN runs : runs[i].num # actions[b].num
    BY <2>1 DEF GateInv, AwaitingUntouched, Exists, TypeOf
  <2> QED
    BY <2>1, <2>2, <2>3, <1>1, <1>4
<1> QED
  BY <1>5, <1>6, <1>7, <1>8, <1>9 DEF GateInv

LEMMA GateStep == TypeOK /\ GateInv /\ [Next]_vars => GateInv'
<1> SUFFICES ASSUME TypeOK, GateInv, [Next]_vars PROVE GateInv'
  OBVIOUS
<1>1. CASE \E h \in Handlers, a \in ActionIds, t \in Types, creds \in BOOLEAN :
             submit_action(h, a, t, creds)
  BY <1>1, SubmitStep
<1>2. CASE \E h \in Handlers, a \in ActionIds, c \in Choices : chatops_callback(h, a, c)
  BY <1>2, QuietStep DEF Quiet, chatops_callback
<1>3. CASE \E h \in Handlers : HandlerStep(h)
  BY <1>3, HandlerStepQuiet, QuietStep
<1>4. CASE \E a \in ActionIds : approve_action(a)
  BY <1>4, ApproveStep
<1>5. CASE \E a \in ActionIds : reject_action(a)
  BY <1>5, RejectStep
<1>6. CASE \E a \in ActionIds : LinksExpire(a)
  BY <1>6, QuietStep DEF Quiet, LinksExpire
<1>7. CASE Restart
  BY <1>7, QuietStep DEF Quiet, Restart
<1>8. CASE UNCHANGED vars
  BY <1>8, QuietStep DEF Quiet, vars
<1> QED
  BY <1>1, <1>2, <1>3, <1>4, <1>5, <1>6, <1>7, <1>8 DEF Next

LEMMA GateInvariant == Spec => []GateInv
<1> QED
  BY TypeCorrect, GateInit, GateStep, PTL DEF Spec

\* No submission's executor is started twice.
THEOREM AtMostOneRun == Spec => []RunsAtMostOnce
<1>1. GateInv => RunsAtMostOnce
  BY DEF GateInv
<1> QED
  BY <1>1, GateInvariant, PTL

\* An action the gate holds runs only through approve_action.
THEOREM HumanGate == Spec => []GatedOnlyByApproval
<1>1. GateInv => GatedOnlyByApproval
  BY DEF GateInv
<1> QED
  BY <1>1, GateInvariant, PTL

\* A submission rejected while it waited never runs.
THEOREM VetoIsFinal == Spec => []RejectedNeverRuns
<1>1. GateInv => RejectedNeverRuns
  BY DEF GateInv
<1> QED
  BY <1>1, GateInvariant, PTL

-----------------------------------------------------------------------------
(***************************************************************************)
(* The router implements ApprovalGate.                                     *)
(***************************************************************************)
Verdict == {"awaiting_approval", "approved"}

\* A function on 1 .. m + 1 that agrees with a sequence up to m is an Append.
LEMMA Extended ==
  ASSUME NEW S, NEW m \in Nat, NEW s \in [1 .. m -> S], NEW x \in S,
         NEW t \in [1 .. m + 1 -> S], t[m + 1] = x, \A i \in 1 .. m : t[i] = s[i]
  PROVE  t = Append(s, x)
<1>1. s \in Seq(S) /\ Len(s) = m
  OBVIOUS
<1>2. t \in Seq(S) /\ Len(t) = m + 1
  OBVIOUS
<1>3. /\ Append(s, x) \in Seq(S) /\ Len(Append(s, x)) = m + 1
      /\ \A i \in 1 .. m : Append(s, x)[i] = s[i]
      /\ Append(s, x)[m + 1] = x
  BY <1>1, AppendProperties
<1>4. \A i \in 1 .. Len(t) : t[i] = Append(s, x)[i]
  BY <1>2, <1>3
<1> QED
  BY <1>2, <1>3, <1>4, SeqEqual

\* What the abstract variables are.
LEMMA MappedTypes ==
  ASSUME TypeOK
  PROVE  /\ Verdicts \in [1 .. Len(requests) -> Verdict]
         /\ Starts \in [1 .. Len(runs) -> Number]
         /\ Len(Verdicts) = Len(requests)
<1>1. Verdicts \in [1 .. Len(requests) -> Verdict]
  BY DEF TypeOK, Verdicts, Verdict, evaluate
<1>2. Starts \in [1 .. Len(runs) -> Number]
  <2>1. DOMAIN runs = 1 .. Len(runs) /\ \A i \in DOMAIN runs : runs[i] \in Run
    BY DEF TypeOK
  <2>2. \A i \in DOMAIN runs : runs[i].num \in Number
    BY <2>1 DEF Run
  <2> QED
    BY <2>1, <2>2 DEF Starts
<1>3. Len(requests) \in Nat
  BY DEF TypeOK
<1>4. Len(Verdicts) = Len(requests)
  BY <1>1, <1>3
<1> QED
  BY <1>1, <1>2, <1>4

\* A start by a step is an Append to the abstract starts.
LEMMA StartsExtended ==
  ASSUME TypeOK, NEW run \in Run, runs' = Append(runs, run)
  PROVE  Starts' = Append(Starts, run.num)
<1>1. /\ Len(runs) \in Nat /\ DOMAIN runs = 1 .. Len(runs)
      /\ DOMAIN runs' = 1 .. Len(runs) + 1
      /\ runs'[Len(runs) + 1] = run
      /\ \A i \in 1 .. Len(runs) : runs'[i] = runs[i] /\ runs[i] \in Run
  BY DEF TypeOK
<1>2. run.num \in Number /\ \A i \in 1 .. Len(runs) : runs[i].num \in Number
  BY <1>1 DEF Run
<1>3. Starts' \in [1 .. Len(runs) + 1 -> Number]
  BY <1>1, <1>2 DEF Starts
<1>4. Starts'[Len(runs) + 1] = run.num /\ \A i \in 1 .. Len(runs) : Starts'[i] = Starts[i]
  BY <1>1 DEF Starts
<1> QED
  BY <1>1, <1>2, <1>3, <1>4, MappedTypes, Extended

LEMMA VerdictsExtended ==
  ASSUME TypeOK, NEW request \in Request, requests' = Append(requests, request)
  PROVE  Verdicts' = Append(Verdicts, evaluate(request.type))
<1>1. /\ Len(requests) \in Nat /\ DOMAIN requests = 1 .. Len(requests)
      /\ DOMAIN requests' = 1 .. Len(requests) + 1
      /\ requests'[Len(requests) + 1] = request
      /\ \A i \in 1 .. Len(requests) : requests'[i] = requests[i]
  BY DEF TypeOK
<1>2. \A t : evaluate(t) \in Verdict
  BY DEF evaluate, Verdict
<1>3. Verdicts' = [n \in 1 .. Len(requests) + 1 |-> evaluate(requests'[n].type)]
  BY <1>1 DEF Verdicts, TypeOf
<1>4. Verdicts' \in [1 .. Len(requests) + 1 -> Verdict]
  BY <1>2, <1>3
<1>5. /\ Verdicts'[Len(requests) + 1] = evaluate(request.type)
      /\ \A i \in 1 .. Len(requests) : Verdicts'[i] = Verdicts[i]
  BY <1>1, <1>3 DEF Verdicts, TypeOf
<1> QED
  BY <1>1, <1>2, <1>4, <1>5, MappedTypes, Extended

\* Initially nothing was submitted.
LEMMA PromiseInit == Init => Promise!Init
<1> SUFFICES ASSUME Init PROVE Promise!Init
  OBVIOUS
<1>1. requests = <<>> /\ runs = <<>> /\ vetoed = {}
  BY DEF Init
<1>2. Held = {}
  BY DEF Init, Held, Exists
<1>3. Verdicts = <<>> /\ Starts = <<>>
  BY <1>1 DEF Verdicts, Starts
<1> QED
  BY <1>1, <1>2, <1>3 DEF Promise!Init

\* A waiting record is the only one of its submission.
LEMMA HeldOnce ==
  ASSUME GateInv, NEW a \in ActionIds, NEW b \in ActionIds, Exists(a), Exists(b),
         actions[a].num = actions[b].num
  PROVE  a = b
BY DEF GateInv, RecordsKnown

LEMMA InHeld ==
  ASSUME NEW n
  PROVE  n \in Held <=> \E a \in ActionIds : /\ Exists(a) /\ actions[a].num = n
                                            /\ actions[a].status = "awaiting_approval"
BY DEF Held

\* When a quiet step changes the waiting submissions, some are forgotten.
LEMMA QuietPromise ==
  ASSUME TypeOK, Quiet
  PROVE  Promise!Next
<1>1. Held' \subseteq Held
  BY DEF Quiet, Held, Exists
<1>2. UNCHANGED <<Verdicts, vetoed, Starts>>
  BY DEF Quiet, Verdicts, Starts, TypeOf
<1> DEFINE lost == Held \ Held'
<1>3. lost \in SUBSET Held /\ Held' = Held \ lost
  BY <1>1
<1>4. Promise!Forget(lost)
  BY <1>2, <1>3 DEF Promise!Forget
<1> QED
  BY <1>3, <1>4 DEF Promise!Next

\* A submission is held, or started if its type runs without a human; of the waiting
\* ones, the one whose record it replaces is forgotten.
LEMMA SubmitPromise ==
  ASSUME TypeOK, GateInv, NEW h \in Handlers, NEW a \in ActionIds,
         NEW t \in Types, NEW creds \in BOOLEAN, submit_action(h, a, t, creds)
  PROVE  Promise!Next
<1> DEFINE n == Len(requests) + 1
           suspends == StartsExecutor(t) /\ creds
           status == IF suspends THEN "approved" ELSE StatusWithoutAwait(t)
           lost == {m \in Held : \A b \in ActionIds : b # a => actions[b] = NoRecord
                                                            \/ actions[b].num # m}
<1>1. /\ requests' = Append(requests, [id |-> a, type |-> t, creds |-> creds])
      /\ actions' = [actions EXCEPT ![a] =
                       [num |-> n, status |-> status, choice |-> NoChoice]]
      /\ runs' = IF StartsExecutor(t)
                 THEN Append(runs, [num |-> n, by |-> "submit", live |-> creds])
                 ELSE runs
      /\ vetoed' = vetoed /\ n \in Number
  <2>1. Len(requests) \in Nat
    BY DEF TypeOK
  <2> QED
    BY <2>1, BoundsAssumption DEF submit_action, Number
<1>2. Verdicts' = Append(Verdicts, evaluate(t))
  <2>1. [id |-> a, type |-> t, creds |-> creds] \in Request
    BY DEF Request
  <2> QED
    BY <1>1, <2>1, VerdictsExtended
<1>3. Len(Verdicts) + 1 = n
  BY MappedTypes
<1>4. Starts' = IF StartsExecutor(t) THEN Append(Starts, n) ELSE Starts
  <2>1. CASE StartsExecutor(t)
    <3>1. [num |-> n, by |-> "submit", live |-> creds] \in Run
      BY <1>1 DEF Run
    <3>2. runs' = Append(runs, [num |-> n, by |-> "submit", live |-> creds])
      BY <1>1, <2>1
    <3> HIDE DEF n
    <3> QED
      BY <2>1, <3>1, <3>2, StartsExtended
  <2>2. CASE ~StartsExecutor(t)
    BY <1>1, <2>2 DEF Starts
  <2> QED
    BY <2>1, <2>2
<1>5. /\ actions'[a] = [num |-> n, status |-> status, choice |-> NoChoice]
      /\ \A b \in ActionIds : b # a => actions'[b] = actions[b]
  <2> HIDE DEF status, n
  <2> QED
    BY <1>1 DEF TypeOK
<1>6. Exists(a)'
  <2>1. status \in Status
    BY DEF StatusWithoutAwait, Status
  <2> HIDE DEF status, n
  <2> QED
    BY <1>1, <1>5, <2>1, NoRecordAssumption DEF Exists, Number, Status
<1>7. status = "awaiting_approval" <=> evaluate(t) = "awaiting_approval"
  BY DEF StatusWithoutAwait, StartsExecutor
<1>8. evaluate(t) \in Verdict
  BY DEF evaluate, Verdict
<1> HIDE DEF n, status, suspends
<1>9. Held' = IF evaluate(t) = "awaiting_approval" THEN (Held \ lost) \cup {n} ELSE Held \ lost
  <2>1. \A b \in ActionIds : b # a => (Exists(b)' <=> Exists(b))
    BY <1>5 DEF Exists
  <2>2. ASSUME NEW m
        PROVE  m \in Held' <=> \/ m \in Held \ lost
                               \/ m = n /\ evaluate(t) = "awaiting_approval"
    <3>1. m \in Held' <=> \E b \in ActionIds : /\ Exists(b)' /\ actions'[b].num = m
                                               /\ actions'[b].status = "awaiting_approval"
      BY DEF Held, Exists
    <3>2. m \in Held \ lost <=>
            \E b \in ActionIds : /\ b # a /\ Exists(b) /\ actions[b].num = m
                                /\ actions[b].status = "awaiting_approval"
      BY InHeld, HeldOnce DEF Exists
    <3> QED
      BY <1>5, <1>6, <1>7, <2>1, <3>1, <3>2
  <2> QED
    BY <2>2
<1>10. lost \in SUBSET Held
  OBVIOUS
<1> HIDE DEF lost
<1>11. Promise!Submit(lost)
  <2>1. CASE evaluate(t) = "awaiting_approval"
    <3>1. ~StartsExecutor(t)
      BY <2>1 DEF StartsExecutor
    <3> QED
      BY <1>1, <1>2, <1>3, <1>4, <1>9, <2>1, <3>1 DEF Promise!Submit
  <2>2. CASE evaluate(t) = "approved"
    BY <1>1, <1>2, <1>3, <1>4, <1>9, <2>2 DEF Promise!Submit
  <2> QED
    BY <1>8, <2>1, <2>2 DEF Verdict
<1> QED
  BY <1>10, <1>11 DEF Promise!Next

\* The record of a waiting submission is taken out of the waiting ones.
LEMMA HeldLeaves ==
  ASSUME TypeOK, GateInv, NEW a \in ActionIds,
         Exists(a), actions[a].status = "awaiting_approval",
         \A b \in ActionIds : b # a => actions'[b] = actions[b],
         actions'[a].status # "awaiting_approval"
  PROVE  actions[a].num \in Held /\ Held' = Held \ {actions[a].num}
<1>1. actions[a].num \in Held
  BY InHeld
<1>2. ASSUME NEW m PROVE m \in Held' <=> m \in Held /\ m # actions[a].num
  <2>1. m \in Held' <=> \E b \in ActionIds : /\ Exists(b)' /\ actions'[b].num = m
                                             /\ actions'[b].status = "awaiting_approval"
    BY DEF Held, Exists
  <2>2. \A b \in ActionIds : b # a => (Exists(b)' <=> Exists(b))
    BY DEF Exists
  <2> QED
    BY <2>1, <2>2, InHeld, HeldOnce
<1> QED
  BY <1>1, <1>2

\* An approval starts a waiting submission; one without an executor is forgotten.
LEMMA ApprovePromise ==
  ASSUME TypeOK, GateInv, NEW a \in ActionIds, approve_action(a)
  PROVE  Promise!Next
<1> DEFINE n == actions[a].num
<1>1. /\ Exists(a) /\ actions[a].status = "awaiting_approval"
      /\ requests' = requests /\ vetoed' = vetoed
  BY DEF approve_action, MayApprove
<1>2. actions[a] \in Record
  BY <1>1 DEF Exists, TypeOK
<1>3. /\ \A b \in ActionIds : b # a => actions'[b] = actions[b]
      /\ actions'[a].status # "awaiting_approval"
  <2>1. actions' = [actions EXCEPT ![a] = [actions[a] EXCEPT
                      !.status = IF TypeOf(n) \in EXECUTOR_REGISTRY
                                 THEN "completed" ELSE "failed",
                      !.choice = NoChoice]]
    BY DEF approve_action
  <2> QED
    BY <2>1, <1>2 DEF TypeOK, Record
<1>4. n \in Held /\ Held' = Held \ {n}
  BY <1>1, <1>3, HeldLeaves
<1>5. Verdicts' = Verdicts
  BY <1>1 DEF Verdicts, TypeOf
<1>6. CASE TypeOf(n) \in EXECUTOR_REGISTRY
  <2>1. runs' = Append(runs, [num |-> n, by |-> "approve", live |-> FALSE])
    BY <1>6 DEF approve_action
  <2>2. [num |-> n, by |-> "approve", live |-> FALSE] \in Run
    BY <1>2 DEF Record, Run
  <2> HIDE DEF n
  <2>3. Starts' = Append(Starts, n)
    BY <2>1, <2>2, StartsExtended
  <2> QED
    BY <1>1, <1>4, <1>5, <2>3 DEF Promise!Next, Promise!Approve
<1>7. CASE TypeOf(n) \notin EXECUTOR_REGISTRY
  <2>1. Starts' = Starts
    BY <1>7 DEF approve_action, Starts
  <2>2. {n} \in SUBSET Held /\ Promise!Forget({n})
    BY <1>1, <1>4, <1>5, <2>1 DEF Promise!Forget
  <2> QED
    BY <2>2 DEF Promise!Next
<1> QED
  BY <1>6, <1>7

\* A rejection vetoes a submission that waits; of any other record it only changes
\* the status.
LEMMA RejectPromise ==
  ASSUME TypeOK, GateInv, NEW a \in ActionIds, reject_action(a)
  PROVE  Promise!Next
<1>1. Exists(a) /\ requests' = requests /\ runs' = runs
  BY DEF reject_action
<1>2. actions[a] \in Record
  BY <1>1 DEF Exists, TypeOK
<1>3. /\ \A b \in ActionIds : b # a => actions'[b] = actions[b]
      /\ actions'[a].num = actions[a].num
      /\ actions'[a].status # "awaiting_approval"
  <2>1. actions' = [actions EXCEPT ![a] = [actions[a] EXCEPT !.status = "rejected"]]
    BY DEF reject_action
  <2> QED
    BY <2>1, <1>2 DEF TypeOK, Record
<1>4. Verdicts' = Verdicts /\ Starts' = Starts
  BY <1>1 DEF Verdicts, TypeOf, Starts
<1>5. CASE actions[a].status = "awaiting_approval"
  <2>1. vetoed' = vetoed \cup {actions[a].num}
    BY <1>5 DEF reject_action
  <2>2. actions[a].num \in Held /\ Held' = Held \ {actions[a].num}
    BY <1>1, <1>3, <1>5, HeldLeaves
  <2> QED
    BY <1>4, <2>1, <2>2 DEF Promise!Next, Promise!Reject
<1>6. CASE actions[a].status # "awaiting_approval"
  <2>1. Quiet
    BY <1>1, <1>3, <1>6 DEF reject_action, Quiet, Exists
  <2> QED
    BY <2>1, QuietPromise
<1> QED
  BY <1>5, <1>6

\* The router implements ApprovalGate: whatever handlers, resubmissions, late writes
\* and restarts do in between, a submission that needs a human waits from its
\* submission on and is started or vetoed at most once, in the step that ends its
\* waiting.
THEOREM RouterKeepsPromise == Spec => OneDecision
<1>1. TypeOK /\ GateInv /\ [Next]_vars
        => Promise!Next \/ UNCHANGED <<Verdicts, Held, vetoed, Starts>>
  <2> SUFFICES ASSUME TypeOK, GateInv, [Next]_vars PROVE Promise!Next
    OBVIOUS
  <2>1. ASSUME NEW h \in Handlers, NEW a \in ActionIds, NEW t \in Types,
               NEW creds \in BOOLEAN, submit_action(h, a, t, creds)
        PROVE  Promise!Next
    BY <2>1, SubmitPromise
  <2>2. CASE \E h \in Handlers, a \in ActionIds, c \in Choices : chatops_callback(h, a, c)
    BY <2>2, QuietPromise DEF Quiet, chatops_callback
  <2>3. CASE \E h \in Handlers : HandlerStep(h)
    BY <2>3, HandlerStepQuiet, QuietPromise
  <2>4. ASSUME NEW a \in ActionIds, approve_action(a) \/ reject_action(a)
        PROVE  Promise!Next
    BY <2>4, ApprovePromise, RejectPromise
  <2>5. CASE \E a \in ActionIds : LinksExpire(a)
    BY <2>5, QuietPromise DEF Quiet, LinksExpire
  <2>6. CASE Restart
    BY <2>6, QuietPromise DEF Quiet, Restart
  <2>7. CASE UNCHANGED vars
    BY <2>7, QuietPromise DEF Quiet, vars
  <2> QED
    BY <2>1, <2>2, <2>3, <2>4, <2>5, <2>6, <2>7 DEF Next
<1> QED
  BY <1>1, PromiseInit, TypeCorrect, GateInvariant, PTL DEF Spec, OneDecision, Promise!Spec

-----------------------------------------------------------------------------
(***************************************************************************)
(* What the table reports.  TableInv is inductive: an approved record has  *)
(* its handler, and whatever a suspended handler or a completed record     *)
(* speaks of was started.                                                  *)
(***************************************************************************)
Executing(h) == task[h].pc \in {"executing", "prompted"}
HasRun(n) == \E i \in DOMAIN runs : runs[i].num = n

WorkWasStarted == \A h \in Handlers : Executing(h) => HasRun(task[h].num)

TableInv == ApprovedIsInFlight /\ CompletedMeansRun /\ WorkWasStarted

LEMMA TableInit == Init => TableInv
BY DEF Init, TableInv, ApprovedIsInFlight, CompletedMeansRun, WorkWasStarted,
       Executing, Exists, Idle

\* Exactly one record is rewritten, if it is the writer's own.
LEMMA WriteRecordExact ==
  ASSUME TypeOK, NEW a0 \in ActionIds, NEW n, NEW s, NEW c,
         WriteRecord(a0, n, s, c)
  PROVE  \A a \in ActionIds :
           \/ /\ a = a0 /\ Exists(a0) /\ actions[a0].num = n
              /\ actions'[a] = [num |-> n, status |-> s, choice |-> c]
           \/ /\ ~(a = a0 /\ Exists(a0) /\ actions[a0].num = n)
              /\ actions'[a] = actions[a]
BY DEF WriteRecord, TypeOK

\* A handler that ends with a write to its record leaves the table truthful, if
\* it does not write approved and reports completed only with an answer or for
\* work it has begun.
LEMMA LastWrite ==
  ASSUME TypeOK, TableInv, NEW h \in Handlers, NEW s, NEW c,
         task[h].id \in ActionIds,
         WriteRecord(task[h].id, task[h].num, s, c),
         s # "approved",
         s = "completed" /\ c = NoChoice => Executing(h),
         task' = [task EXCEPT ![h] = Idle],
         runs' = runs
  PROVE  TableInv'
<1>1. \A a \in ActionIds :
        \/ /\ a = task[h].id /\ Exists(a) /\ actions[a].num = task[h].num
           /\ actions'[a] = [num |-> task[h].num, status |-> s, choice |-> c]
        \/ /\ ~(a = task[h].id /\ Exists(a) /\ actions[a].num = task[h].num)
           /\ actions'[a] = actions[a]
  BY WriteRecordExact
<1>2. task'[h] = Idle /\ \A g \in Handlers : g # h => task'[g] = task[g]
  BY DEF TypeOK
<1>3. ApprovedIsInFlight'
  <2> SUFFICES ASSUME NEW a \in ActionIds, actions'[a] # NoRecord,
                      actions'[a].status = "approved"
               PROVE  \E g \in Handlers : /\ task'[g].pc \in {"executing", "prompted"}
                                          /\ task'[g].id = a
                                          /\ task'[g].num = actions'[a].num
    BY DEF ApprovedIsInFlight, Exists
  <2>1. /\ actions'[a] = actions[a]
        /\ ~(a = task[h].id /\ Exists(a) /\ actions[a].num = task[h].num)
    BY <1>1
  <2>2. PICK g \in Handlers : /\ task[g].pc \in {"executing", "prompted"}
                              /\ task[g].id = a /\ task[g].num = actions[a].num
    BY <2>1 DEF TableInv, ApprovedIsInFlight, Exists
  <2>3. g # h
    BY <2>1, <2>2 DEF Exists
  <2> QED
    BY <1>2, <2>1, <2>2, <2>3
<1>4. CompletedMeansRun'
  <2> SUFFICES ASSUME NEW a \in ActionIds, actions'[a] # NoRecord,
                      actions'[a].status = "completed",
                      actions'[a].choice = NoChoice
               PROVE  HasRun(actions'[a].num)
    BY DEF CompletedMeansRun, Exists, HasRun
  <2>1. CASE actions'[a] = actions[a]
    BY <2>1 DEF TableInv, CompletedMeansRun, Exists, HasRun
  <2>2. CASE actions'[a] = [num |-> task[h].num, status |-> s, choice |-> c]
    <3>1. s = "completed" /\ c = NoChoice /\ actions'[a].num = task[h].num
      BY <2>2
    <3> QED
      BY <3>1 DEF TableInv, WorkWasStarted
  <2> QED
    BY <1>1, <2>1, <2>2
<1>5. WorkWasStarted'
  BY <1>2 DEF TableInv, WorkWasStarted, Executing, HasRun, Idle
<1> QED
  BY <1>3, <1>4, <1>5 DEF TableInv

\* The same for a handler that reports neither success nor an answer.
LEMMA UnfinishedWrite ==
  ASSUME TypeOK, TableInv, NEW h \in Handlers, NEW s \in {"failed", "running"}, NEW c,
         task[h].id \in ActionIds,
         WriteRecord(task[h].id, task[h].num, s, c),
         task' = [task EXCEPT ![h] = Idle],
         runs' = runs
  PROVE  TableInv'
<1>1. s # "approved" /\ (s = "completed" /\ c = NoChoice => Executing(h))
  OBVIOUS
<1> QED
  BY <1>1, LastWrite

\* A step that leaves table, runs and the handlers at work alone.
LEMMA TableUntouched ==
  ASSUME TableInv, actions' = actions, runs' = runs,
         \A h \in Handlers :
           /\ Executing(h)' <=> Executing(h)
           /\ Executing(h) => task'[h].id = task[h].id /\ task'[h].num = task[h].num
  PROVE  TableInv'
<1>1. ApprovedIsInFlight'
  BY DEF TableInv, ApprovedIsInFlight, Executing, Exists
<1>2. CompletedMeansRun'
  BY DEF TableInv, CompletedMeansRun, Exists
<1>3. WorkWasStarted'
  BY DEF TableInv, WorkWasStarted, HasRun, Executing
<1> QED
  BY <1>1, <1>2, <1>3 DEF TableInv

LEMMA TableHandlerStep ==
  ASSUME TypeOK, TableInv, NEW h \in Handlers, HandlerStep(h)
  PROVE  TableInv'
<1>1. ASSUME NEW s \in {"completed", "failed"}, ExecutorReturns(h, s) PROVE TableInv'
  <2>1. task[h].id \in ActionIds
    BY <1>1, TaskShape DEF ExecutorReturns
  <2> QED
    BY <1>1, <2>1, LastWrite DEF ExecutorReturns, Executing
<1>2. CASE PromptFails(h)
  <2>1. task[h].id \in ActionIds
    BY <1>2, TaskShape DEF PromptFails
  <2>2. /\ WriteRecord(task[h].id, task[h].num, "failed", NoChoice)
        /\ task' = [task EXCEPT ![h] = Idle] /\ runs' = runs
    BY <1>2 DEF PromptFails
  <2> QED
    BY <2>1, <2>2, UnfinishedWrite
<1>3. CASE PromptReturns(h)
  <2>1. task[h].id \in ActionIds
    BY <1>3, TaskShape DEF PromptReturns
  <2>2. /\ WriteRecord(task[h].id, task[h].num, "running", NoChoice)
        /\ task' = [task EXCEPT ![h] = Idle] /\ runs' = runs
    BY <1>3 DEF PromptReturns
  <2> QED
    BY <2>1, <2>2, UnfinishedWrite
<1>4. CASE PromptRaises(h)
  <2> DEFINE a == task[h].id
             c == IF Exists(a) THEN actions[a].choice ELSE NoChoice
  <2>1. task[h].id \in ActionIds
    BY <1>4, TaskShape DEF PromptRaises
  <2>2. /\ WriteRecord(task[h].id, task[h].num, "failed", c)
        /\ task' = [task EXCEPT ![h] = Idle] /\ runs' = runs
    BY <1>4 DEF PromptRaises
  <2> HIDE DEF c
  <2> QED
    BY <2>1, <2>2, UnfinishedWrite
<1>5. CASE FinishCallback(h)
  <2>1. task[h].id \in ActionIds /\ task[h].choice \in Choices
    BY <1>5, TaskShape DEF FinishCallback
  <2> QED
    BY <1>5, <2>1, LastWrite, NoChoiceAssumption DEF FinishCallback
<1>6. CASE DeliverPrompt(h)
  <2>1. task[h] \in [pc : {"executing", "prompted"}, id : ActionIds, num : Number]
    BY <1>6, TaskShape DEF DeliverPrompt
  <2>2. task' = [task EXCEPT ![h] = [task[h] EXCEPT !.pc = "prompted"]]
    BY <1>6 DEF DeliverPrompt
  <2> QED
    BY <1>6, <2>1, <2>2, TableUntouched DEF DeliverPrompt, Executing, TypeOK
<1>7. CASE TimelineAppends(h)
  <2>1. task[h] \in [pc : {"posting", "posted"}, id : ActionIds,
                     num : Number \cup {0}, choice : Choices]
    BY <1>7, TaskShape DEF TimelineAppends
  <2>2. task' = [task EXCEPT ![h] = [task[h] EXCEPT !.pc = "posted"]]
    BY <1>7 DEF TimelineAppends
  <2> QED
    BY <1>7, <2>1, <2>2, TableUntouched DEF TimelineAppends, Executing, TypeOK
<1>8. CASE CallbackRaises(h)
  BY <1>8, TableUntouched DEF CallbackRaises, Executing, TypeOK, Idle
<1> QED
  BY <1>1, <1>2, <1>3, <1>4, <1>5, <1>6, <1>7, <1>8 DEF HandlerStep

\* A new submission is approved only if its handler suspends in the executor,
\* and completed at once only if the executor was started.
LEMMA TableSubmit ==
  ASSUME TypeOK, TableInv, NEW h \in Handlers, NEW a \in ActionIds,
         NEW t \in Types, NEW creds \in BOOLEAN, submit_action(h, a, t, creds)
  PROVE  TableInv'
<1> DEFINE n == Len(requests) + 1
           suspends == StartsExecutor(t) /\ creds
           status == IF suspends THEN "approved" ELSE StatusWithoutAwait(t)
<1>1. /\ IsIdle(h)
      /\ actions' = [actions EXCEPT ![a] =
                       [num |-> n, status |-> status, choice |-> NoChoice]]
      /\ runs' = IF StartsExecutor(t)
                 THEN Append(runs, [num |-> n, by |-> "submit", live |-> creds])
                 ELSE runs
      /\ task' = IF suspends
                 THEN [task EXCEPT ![h] = [pc |-> "executing", id |-> a, num |-> n]]
                 ELSE task
  BY DEF submit_action
<1>2. /\ suspends => StartsExecutor(t)
      /\ status = "approved" => suspends
      /\ status = "completed" => StartsExecutor(t)
  BY TypesAssumption DEF StatusWithoutAwait, StartsExecutor, evaluate
<1>3. \A m : HasRun(m) \/ (StartsExecutor(t) /\ m = n) => HasRun(m)'
  <2>1. CASE StartsExecutor(t)
    <3>1. runs' = Append(runs, [num |-> n, by |-> "submit", live |-> creds])
      BY <1>1, <2>1
    <3> HIDE DEF n
    <3>2. /\ Len(runs) + 1 \in DOMAIN runs' /\ runs'[Len(runs) + 1].num = n
          /\ \A i \in DOMAIN runs : i \in DOMAIN runs' /\ runs'[i] = runs[i]
      BY <3>1 DEF TypeOK
    <3> QED
      BY <3>2 DEF HasRun
  <2>2. CASE ~StartsExecutor(t)
    BY <1>1, <2>2 DEF HasRun
  <2> QED
    BY <2>1, <2>2
<1> HIDE DEF n, status
<1>4. /\ actions'[a] = [num |-> n, status |-> status, choice |-> NoChoice]
      /\ \A b \in ActionIds : b # a => actions'[b] = actions[b]
  BY <1>1 DEF TypeOK
<1>5. /\ \A g \in Handlers : g # h => task'[g] = task[g]
      /\ suspends => task'[h] = [pc |-> "executing", id |-> a, num |-> n]
      /\ ~suspends => task'[h] = task[h]
  BY <1>1 DEF TypeOK
<1> HIDE DEF suspends
<1>6. ~Executing(h)
  BY <1>1 DEF IsIdle, Executing
<1>7. ApprovedIsInFlight'
  <2> SUFFICES ASSUME NEW b \in ActionIds, actions'[b] # NoRecord,
                      actions'[b].status = "approved"
               PROVE  \E g \in Handlers : /\ task'[g].pc \in {"executing", "prompted"}
                                          /\ task'[g].id = b
                                          /\ task'[g].num = actions'[b].num
    BY DEF ApprovedIsInFlight, Exists
  <2>1. CASE b = a
    BY <2>1, <1>2, <1>4, <1>5
  <2>2. CASE b # a
    <3>1. PICK g \in Handlers : /\ task[g].pc \in {"executing", "prompted"}
                                /\ task[g].id = b /\ task[g].num = actions[b].num
      BY <2>2, <1>4 DEF TableInv, ApprovedIsInFlight, Exists
    <3>2. g # h
      BY <3>1, <1>6 DEF Executing
    <3> QED
      BY <2>2, <3>1, <3>2, <1>4, <1>5
  <2> QED
    BY <2>1, <2>2
<1>8. CompletedMeansRun'
  <2> SUFFICES ASSUME NEW b \in ActionIds, actions'[b] # NoRecord,
                      actions'[b].status = "completed",
                      actions'[b].choice = NoChoice
               PROVE  \E i \in DOMAIN runs' : runs'[i].num = actions'[b].num
    BY DEF CompletedMeansRun, Exists, HasRun
  <2>1. CASE b = a
    BY <2>1, <1>2, <1>3, <1>4 DEF HasRun
  <2>2. CASE b # a
    <3>1. HasRun(actions[b].num) /\ actions'[b] = actions[b]
      BY <2>2, <1>4 DEF TableInv, CompletedMeansRun, Exists, HasRun
    <3> QED
      BY <3>1, <1>3 DEF HasRun
  <2> QED
    BY <2>1, <2>2
<1>9. WorkWasStarted'
  BY <1>2, <1>3, <1>5, <1>6 DEF TableInv, WorkWasStarted, Executing, HasRun
<1> QED
  BY <1>7, <1>8, <1>9 DEF TableInv

\* An approval completes the record only together with the run it starts.
LEMMA TableApprove ==
  ASSUME TypeOK, TableInv, NEW a \in ActionIds, approve_action(a)
  PROVE  TableInv'
<1> DEFINE n == actions[a].num
           s == IF TypeOf(n) \in EXECUTOR_REGISTRY THEN "completed" ELSE "failed"
<1>1. actions[a] \in Record
  BY DEF approve_action, MayApprove, Exists, TypeOK
<1>2. /\ \A b \in ActionIds : b # a => actions'[b] = actions[b]
      /\ actions'[a].num = n /\ actions'[a].status = s
  <2>1. actions' = [actions EXCEPT ![a] =
                      [actions[a] EXCEPT !.status = s, !.choice = NoChoice]]
    BY DEF approve_action
  <2> QED
    BY <2>1, <1>1 DEF TypeOK, Record
<1>3. \A m : HasRun(m) \/ (s = "completed" /\ m = n) => HasRun(m)'
  <2>1. CASE s = "completed"
    <3>1. runs' = Append(runs, [num |-> n, by |-> "approve", live |-> FALSE])
      BY <2>1 DEF approve_action
    <3> HIDE DEF n
    <3>2. /\ Len(runs) + 1 \in DOMAIN runs' /\ runs'[Len(runs) + 1].num = n
          /\ \A i \in DOMAIN runs : i \in DOMAIN runs' /\ runs'[i] = runs[i]
      BY <3>1 DEF TypeOK
    <3> QED
      BY <3>2 DEF HasRun
  <2>2. CASE s # "completed"
    BY <2>2 DEF approve_action, HasRun
  <2> QED
    BY <2>1, <2>2
<1>4. s # "approved"
  OBVIOUS
<1>5. task' = task
  BY DEF approve_action
<1> HIDE DEF n, s
<1>6. ApprovedIsInFlight'
  BY <1>2, <1>4, <1>5 DEF TableInv, ApprovedIsInFlight, Exists
<1>7. CompletedMeansRun'
  <2> SUFFICES ASSUME NEW b \in ActionIds, actions'[b] # NoRecord,
                      actions'[b].status = "completed",
                      actions'[b].choice = NoChoice
               PROVE  \E i \in DOMAIN runs' : runs'[i].num = actions'[b].num
    BY DEF CompletedMeansRun, Exists, HasRun
  <2>1. CASE b = a
    BY <2>1, <1>2, <1>3 DEF HasRun
  <2>2. CASE b # a
    <3>1. HasRun(actions[b].num) /\ actions'[b] = actions[b]
      BY <2>2, <1>2 DEF TableInv, CompletedMeansRun, Exists, HasRun
    <3> QED
      BY <3>1, <1>3 DEF HasRun
  <2> QED
    BY <2>1, <2>2
<1>8. WorkWasStarted'
  BY <1>3, <1>5 DEF TableInv, WorkWasStarted, Executing, HasRun
<1> QED
  BY <1>6, <1>7, <1>8 DEF TableInv

LEMMA TableReject ==
  ASSUME TypeOK, TableInv, NEW a \in ActionIds, reject_action(a)
  PROVE  TableInv'
<1>1. actions[a] \in Record
  BY DEF reject_action, Exists, TypeOK
<1>2. /\ \A b \in ActionIds : b # a => actions'[b] = actions[b]
      /\ actions'[a].status = "rejected"
  <2>1. actions' = [actions EXCEPT ![a] = [actions[a] EXCEPT !.status = "rejected"]]
    BY DEF reject_action
  <2> QED
    BY <2>1, <1>1 DEF TypeOK, Record
<1>3. task' = task /\ runs' = runs
  BY DEF reject_action
<1> QED
  BY <1>2, <1>3 DEF TableInv, ApprovedIsInFlight, CompletedMeansRun,
                    WorkWasStarted, Executing, HasRun, Exists

LEMMA TableStep == TypeOK /\ TableInv /\ [Next]_vars => TableInv'
<1> SUFFICES ASSUME TypeOK, TableInv, [Next]_vars PROVE TableInv'
  OBVIOUS
<1>1. CASE \E h \in Handlers, a \in ActionIds, t \in Types, creds \in BOOLEAN :
             submit_action(h, a, t, creds)
  BY <1>1, TableSubmit
<1>2. ASSUME NEW h \in Handlers, NEW a \in ActionIds, NEW c \in Choices,
             chatops_callback(h, a, c)
      PROVE  TableInv'
  <2>1. /\ task[h].pc = "idle" /\ task'[h].pc = "posting"
        /\ \A g \in Handlers : g # h => task'[g] = task[g]
    BY <1>2 DEF chatops_callback, IsIdle, TypeOK
  <2> QED
    BY <1>2, <2>1, TableUntouched DEF chatops_callback, Executing
<1>3. CASE \E h \in Handlers : HandlerStep(h)
  BY <1>3, TableHandlerStep
<1>4. CASE \E a \in ActionIds : approve_action(a)
  BY <1>4, TableApprove
<1>5. CASE \E a \in ActionIds : reject_action(a)
  BY <1>5, TableReject
<1>6. CASE \E a \in ActionIds : LinksExpire(a)
  BY <1>6, TableUntouched DEF LinksExpire, Executing
<1>7. CASE Restart
  BY <1>7 DEF Restart, TableInv, ApprovedIsInFlight, CompletedMeansRun,
              WorkWasStarted, Executing, Exists, Idle
<1>8. CASE UNCHANGED vars
  BY <1>8, TableUntouched DEF vars, Executing
<1> QED
  BY <1>1, <1>2, <1>3, <1>4, <1>5, <1>6, <1>7, <1>8 DEF Next

LEMMA TableInvariant == Spec => []TableInv
<1> QED
  BY TypeCorrect, TableInit, TableStep, PTL DEF Spec

\* A record stays approved only while a handler runs its executor.
THEOREM ApprovedHasHandler == Spec => []ApprovedIsInFlight
<1>1. TableInv => ApprovedIsInFlight
  BY DEF TableInv
<1> QED
  BY <1>1, TableInvariant, PTL

\* A record reports completed, without an answer, only work that was begun.
THEOREM CompletedWasBegun == Spec => []CompletedMeansRun
<1>1. TableInv => CompletedMeansRun
  BY DEF TableInv
<1> QED
  BY <1>1, TableInvariant, PTL

-----------------------------------------------------------------------------
\* A handler in an executor works on a submission that was started, and such a one
\* was not vetoed.
LEMMA ExecutingNotVetoed ==
  ASSUME GateInv, TableInv, NEW h \in Handlers, Executing(h)
  PROVE  task[h].num \notin vetoed
BY DEF GateInv, RejectedNeverRuns, TableInv, WorkWasStarted, HasRun

\* A write that ends a handler leaves the vetoes standing, if it is that of a handler
\* in an executor or brings an answer.
LEMMA VetoWrite ==
  ASSUME TypeOK, GateInv, TableInv, VetoStands, NEW h \in Handlers, NEW s, NEW c,
         task[h].id \in ActionIds,
         WriteRecord(task[h].id, task[h].num, s, c),
         Executing(h) \/ c # NoChoice,
         vetoed' = vetoed
  PROVE  VetoStands'
<1> SUFFICES ASSUME NEW a \in ActionIds, actions'[a] # NoRecord,
                    actions'[a].num \in vetoed, actions'[a].choice = NoChoice
             PROVE  actions'[a].status = "rejected"
  BY DEF VetoStands, Exists
<1>1. CASE actions'[a] = actions[a]
  BY <1>1 DEF VetoStands, Exists
<1>2. CASE actions'[a] = [num |-> task[h].num, status |-> s, choice |-> c]
  BY <1>2, ExecutingNotVetoed
<1> QED
  BY <1>1, <1>2, WriteRecordExact

LEMMA VetoStep == TypeOK /\ GateInv /\ TableInv /\ VetoStands /\ [Next]_vars => VetoStands'
<1> SUFFICES ASSUME TypeOK, GateInv, TableInv, VetoStands, [Next]_vars
             PROVE  VetoStands'
  OBVIOUS
<1>1. ASSUME NEW h \in Handlers, NEW a \in ActionIds, NEW t \in Types,
             NEW creds \in BOOLEAN, submit_action(h, a, t, creds)
      PROVE  VetoStands'
  <2>1. /\ vetoed' = vetoed /\ actions'[a].num = Len(requests) + 1
        /\ \A b \in ActionIds : b # a => actions'[b] = actions[b]
    BY <1>1 DEF submit_action, TypeOK
  <2>2. actions'[a].num \notin vetoed
    BY <2>1 DEF GateInv, HistoryKnown, TypeOK
  <2> QED
    BY <2>1, <2>2 DEF VetoStands, Exists
<1>2. ASSUME NEW h \in Handlers, HandlerStep(h) PROVE VetoStands'
  <2>1. CASE (\E s \in {"completed", "failed"} : ExecutorReturns(h, s))
               \/ PromptFails(h) \/ PromptReturns(h) \/ PromptRaises(h)
    <3>1. task[h].id \in ActionIds /\ Executing(h) /\ vetoed' = vetoed
      BY <2>1, TaskShape DEF ExecutorReturns, PromptFails, PromptReturns, PromptRaises,
                             Executing
    <3>2. \E s, c : WriteRecord(task[h].id, task[h].num, s, c)
      BY <2>1 DEF ExecutorReturns, PromptFails, PromptReturns, PromptRaises
    <3> QED
      BY <3>1, <3>2, VetoWrite
  <2>2. CASE FinishCallback(h)
    <3>1. /\ task[h].id \in ActionIds /\ task[h].choice # NoChoice /\ vetoed' = vetoed
          /\ WriteRecord(task[h].id, task[h].num, "completed", task[h].choice)
      BY <2>2, TaskShape, NoChoiceAssumption DEF FinishCallback
    <3> QED
      BY <3>1, VetoWrite
  <2>3. CASE DeliverPrompt(h) \/ TimelineAppends(h) \/ CallbackRaises(h)
    BY <2>3 DEF DeliverPrompt, TimelineAppends, CallbackRaises, VetoStands, Exists
  <2> QED
    BY <1>2, <2>1, <2>2, <2>3 DEF HandlerStep
<1>3. ASSUME NEW a \in ActionIds, approve_action(a) PROVE VetoStands'
  <2>1. /\ vetoed' = vetoed /\ actions[a].num \notin vetoed
        /\ actions'[a].num = actions[a].num
        /\ \A b \in ActionIds : b # a => actions'[b] = actions[b]
    BY <1>3 DEF approve_action, MayApprove, GateInv, AwaitingUntouched, TypeOK, Exists,
                Record
  <2> QED
    BY <2>1 DEF VetoStands, Exists
<1>4. ASSUME NEW a \in ActionIds, reject_action(a) PROVE VetoStands'
  <2>1. /\ actions'[a].num = actions[a].num /\ actions'[a].status = "rejected"
        /\ \A b \in ActionIds : b # a => actions'[b] = actions[b]
        /\ vetoed' \subseteq vetoed \cup {actions[a].num}
    BY <1>4 DEF reject_action, TypeOK, Exists, Record
  <2>2. ASSUME NEW b \in ActionIds, b # a, Exists(b), actions[b].num \in vetoed'
        PROVE  actions[b].num \in vetoed
    <3>1. actions[b].num # actions[a].num
      BY <1>4, <2>2 DEF GateInv, RecordsKnown, reject_action
    <3> QED
      BY <2>1, <2>2, <3>1
  <2> QED
    BY <2>1, <2>2 DEF VetoStands, Exists
<1>5. CASE \/ \E h \in Handlers, a \in ActionIds, c \in Choices : chatops_callback(h, a, c)
           \/ \E a \in ActionIds : LinksExpire(a)
           \/ UNCHANGED vars
  BY <1>5 DEF chatops_callback, LinksExpire, vars, VetoStands, Exists
<1>6. CASE Restart
  BY <1>6 DEF Restart, VetoStands, Exists
<1> QED
  BY <1>1, <1>2, <1>3, <1>4, <1>5, <1>6 DEF Next

\* A veto stands, whatever resubmissions, approvals and late writers follow, unless
\* the answer to an earlier prompt of the id is written over it.
THEOREM VetoesStand == Spec => []VetoStands
<1>1. Init => VetoStands
  BY DEF Init, VetoStands
<1> QED
  BY <1>1, VetoStep, TypeCorrect, GateInvariant, TableInvariant, PTL DEF Spec

-----------------------------------------------------------------------------
(***************************************************************************)
(* The policy tables.                                                      *)
(***************************************************************************)
\* Up to L2 the maturity gate runs nothing that the blast-radius gate holds.
THEOREM GatesAgreeUpToL2 == ConservativeTiers
BY DEF ConservativeTiers, evaluate_gate, _AUTO_ALLOWED_AT_TIER, Gated, evaluate,
       ACTION_BLAST_RADIUS, APPROVAL_REQUIRED_ACTIONS, _AUTO_EXECUTE_LIMIT, ActionType,
       MinimalTypes, LowTypes, MediumTypes, HighTypes, MINIMAL, LOW, MEDIUM, HIGH

\* A higher tier and a whitelist entry never take an automation away.
THEOREM HigherTierKeepsAutomation == AutomationGrows
BY DEF AutomationGrows, evaluate_gate, _AUTO_ALLOWED_AT_TIER, MaturityTier, Override,
       ACTION_BLAST_RADIUS, MINIMAL, LOW, MEDIUM, HIGH

\* Whatever the bridge sends and whatever waits for a human has an executor.
THEOREM EveryProposalExecutes == NothingIsLost
BY DEF NothingIsLost, _map_action, SameNameTypes, EXECUTOR_REGISTRY, Gated, evaluate,
       ACTION_BLAST_RADIUS, APPROVAL_REQUIRED_ACTIONS, _AUTO_EXECUTE_LIMIT, ActionType,
       MinimalTypes, LowTypes, MediumTypes, HighTypes, MINIMAL, LOW, MEDIUM, HIGH

-----------------------------------------------------------------------------
(***************************************************************************)
(* The bridge.  Its steps are steps of the router or leave the router      *)
(* alone, so that what is proved of the router holds beside it.            *)
(***************************************************************************)
BridgeInv ==
  /\ DTypeOK
  /\ left # <<>> => calls # 0
  /\ post # NoPost => left # <<>>

LEMMA ProposalIsMapped ==
  ASSUME NEW p \in Proposals
  PROVE  p.id \in ActionIds /\ _map_action(p.raw, p.ot) \in Types
BY CallsAssumption

LEMMA RouterStep == BridgeInv /\ [DNext]_dvars => [Next]_vars
<1> SUFFICES ASSUME BridgeInv, [DNext]_dvars PROVE [Next]_vars
  OBVIOUS
<1>1. ASSUME NEW c \in Calls, dispatch_proposed_actions(c) PROVE UNCHANGED vars
  BY <1>1 DEF dispatch_proposed_actions
<1>2. ASSUME NEW h \in Handlers, NEW creds \in BOOLEAN, Dispatch(h, creds) PROVE Next
  <2> DEFINE p == Head(left)
  <2>1. p \in Proposals
    BY <1>2 DEF Dispatch, BridgeInv, DTypeOK
  <2>2. submit_action(h, p.id, _map_action(p.raw, p.ot), creds)
    BY <1>2 DEF Dispatch
  <2> HIDE DEF p
  <2> QED
    BY <2>1, <2>2, ProposalIsMapped DEF Next
<1>3. CASE Unreachable \/ TimesOut
  BY <1>3 DEF Unreachable, TimesOut
<1>4. ASSUME NEW h \in Handlers, HandlerGoesOn(h) PROVE Next
  BY <1>4 DEF HandlerGoesOn, HandlerStep, Next
<1>5. CASE OtherRequest
  BY <1>5, OtherTypesAssumption DEF OtherRequest, Next
<1>6. CASE ServiceRestarts
  BY <1>6 DEF ServiceRestarts, Next
<1>7. CASE UNCHANGED dvars
  BY <1>7 DEF dvars
<1> QED
  BY <1>1, <1>2, <1>3, <1>4, <1>5, <1>6, <1>7 DEF DNext, BridgeStep

\* A result that is appended keeps the report and what is left well typed.
Outcome == {"executed", "awaiting", "failed", "other"}

LEMMA ResultTyped ==
  ASSUME BridgeInv, left # <<>>,
         NEW n \in Number \cup {0}, NEW result \in Outcome,
         Result(n, result)
  PROVE  /\ left' \in Seq(Proposals) /\ post' = NoPost
         /\ report' \in Seq([num : Number \cup {0}, result : Outcome])
<1>1. Tail(left) \in Seq(Proposals)
  BY DEF BridgeInv, DTypeOK
<1>2. [num |-> n, result |-> result] \in [num : Number \cup {0}, result : Outcome]
  OBVIOUS
<1>3. report \in Seq([num : Number \cup {0}, result : Outcome])
  BY DEF BridgeInv, DTypeOK, Outcome
<1> QED
  BY <1>1, <1>2, <1>3, AppendProperties DEF Result

LEMMA CountedIsOutcome == \A s : Counted(s) \in Outcome
BY DEF Counted, Outcome

LEMMA BridgeInit == DInit => TypeOK /\ BridgeInv
<1> SUFFICES ASSUME DInit PROVE TypeOK /\ BridgeInv
  OBVIOUS
<1>1. TypeOK
  BY TypeInit DEF DInit
<1>2. BridgeInv
  BY CallsAssumption DEF DInit, BridgeInv, DTypeOK
<1> QED
  BY <1>1, <1>2

LEMMA BridgeStepTyped == TypeOK /\ BridgeInv /\ [DNext]_dvars => BridgeInv'
<1> SUFFICES ASSUME TypeOK, BridgeInv, [DNext]_dvars PROVE BridgeInv'
  OBVIOUS
<1> USE DEF BridgeInv
<1>1. ASSUME NEW c \in Calls, dispatch_proposed_actions(c) PROVE BridgeInv'
  <2>1. c \in Seq(Proposals) /\ calls' \in 0 .. MaxCalls /\ calls' # 0
    BY <1>1, CallsAssumption DEF dispatch_proposed_actions, DTypeOK
  <2>2. post' = post /\ post = NoPost
    BY <1>1 DEF dispatch_proposed_actions
  <2> QED
    BY <1>1, <2>1, <2>2 DEF dispatch_proposed_actions, DTypeOK
<1>2. ASSUME NEW h \in Handlers, NEW creds \in BOOLEAN, Dispatch(h, creds)
      PROVE  BridgeInv'
  <2> DEFINE p == Head(left)
             n == Len(requests) + 1
  <2>1. p \in Proposals /\ calls \in 1 .. MaxCalls
    BY <1>2 DEF Dispatch, DTypeOK
  <2>2. n \in Number
    BY <1>2, BoundsAssumption DEF Dispatch, submit_action, TypeOK, Number
  <2>4. CASE task'[h] = Idle
    <3>1. Result(n, Counted(actions'[p.id].status)) /\ left # <<>> /\ UNCHANGED calls
      BY <1>2, <2>4 DEF Dispatch
    <3> HIDE DEF n, p
    <3>2. \E m \in Number, result \in Outcome : Result(m, result)
      BY <2>2, <3>1, CountedIsOutcome
    <3>3. /\ left' \in Seq(Proposals) /\ post' = NoPost
          /\ report' \in Seq([num : Number \cup {0}, result : Outcome])
      BY <3>1, <3>2, ResultTyped
    <3> QED
      BY <2>1, <3>1, <3>3 DEF DTypeOK, Outcome
  <2>5. CASE task'[h] # Idle
    <3>1. /\ post' = [handler |-> h, num |-> n] /\ left # <<>>
          /\ UNCHANGED <<left, report, calls>>
      BY <1>2, <2>5 DEF Dispatch
    <3> HIDE DEF n, p
    <3> QED
      BY <2>1, <2>2, <3>1 DEF DTypeOK
  <2> QED
    BY <2>4, <2>5
<1>3. ASSUME NEW n \in Number \cup {0}, NEW result \in Outcome, left # <<>>,
             Result(n, result), UNCHANGED calls
      PROVE  BridgeInv'
  BY <1>3, ResultTyped DEF DTypeOK, Outcome
<1>4. CASE Unreachable
  <2>1. 0 \in Number \cup {0} /\ "failed" \in Outcome
    BY DEF Outcome
  <2> QED
    BY <1>4, <1>3, <2>1 DEF Unreachable
<1>5. post # NoPost => post.num \in Number /\ left # <<>>
  BY DEF DTypeOK
<1>6. CASE TimesOut
  <2>1. "failed" \in Outcome
    BY DEF Outcome
  <2> QED
    BY <1>6, <1>3, <1>5, <2>1 DEF TimesOut
<1>7. ASSUME NEW h \in Handlers, HandlerGoesOn(h) PROVE BridgeInv'
  <2>1. CASE UNCHANGED bridge
    BY <2>1 DEF bridge, DTypeOK
  <2>2. ASSUME NEW s \in {"completed", "failed"}, post # NoPost,
               Result(post.num, Counted(s)), UNCHANGED calls
        PROVE  BridgeInv'
    BY <2>2, <1>3, <1>5, CountedIsOutcome
  <2> QED
    BY <1>7, <2>1, <2>2 DEF HandlerGoesOn
<1>8. CASE OtherRequest
  BY <1>8 DEF OtherRequest, bridge, DTypeOK
<1>9. CASE ServiceRestarts
  <2>1. "failed" \in Outcome
    BY DEF Outcome
  <2>2. CASE post = NoPost
    BY <1>9, <2>2 DEF ServiceRestarts, DTypeOK
  <2>3. CASE post # NoPost
    BY <1>9, <1>3, <1>5, <2>1, <2>3 DEF ServiceRestarts
  <2> QED
    BY <2>2, <2>3
<1>10. CASE UNCHANGED dvars
  BY <1>10 DEF dvars, bridge, DTypeOK
<1> QED
  BY <1>1, <1>2, <1>4, <1>6, <1>7, <1>8, <1>9, <1>10 DEF DNext, BridgeStep

\* The bridge's variables keep their types.
THEOREM BridgeTypeCorrect == DSpec => []DTypeOK
<1>1. TypeOK /\ BridgeInv /\ [DNext]_dvars => TypeOK'
  BY TypeStep, RouterStep
<1>2. BridgeInv => DTypeOK
  BY DEF BridgeInv
<1> QED
  BY <1>1, <1>2, BridgeInit, BridgeStepTyped, PTL DEF DSpec

\* The router beside the bridge is the router: every theorem about Spec is one
\* about DSpec.
THEOREM RouterBesideBridge == DSpec => Spec
<1>1. TypeOK /\ BridgeInv /\ [DNext]_dvars => TypeOK'
  BY TypeStep, RouterStep
<1>2. DInit => Init
  BY DEF DInit
<1> QED
  BY <1>1, <1>2, BridgeInit, BridgeStepTyped, RouterStep, PTL DEF DSpec, Spec

-----------------------------------------------------------------------------
(***************************************************************************)
(* The summary of a call.  A submission's executor is started by the       *)
(* submission in the step that numbers it or never, so what was true of a  *)
(* reported number stays true.                                             *)
(***************************************************************************)
Posted == Len(requests)

SummaryInv ==
  /\ ReportIsHonest
  /\ \A i \in DOMAIN report : report[i].num <= Posted
  /\ post # NoPost => StartedBySubmission(post.num) /\ post.num <= Posted

LEMMA AppendedRun ==
  ASSUME TypeOK, NEW run, NEW n, run.num # n \/ run.by # "submit",
         runs' = Append(runs, run)
  PROVE  StartedBySubmission(n)' <=> StartedBySubmission(n)
<1>1. /\ DOMAIN runs' = 1 .. Len(runs) + 1 /\ DOMAIN runs = 1 .. Len(runs)
      /\ Len(runs) \in Nat
      /\ \A i \in DOMAIN runs : runs'[i] = runs[i]
      /\ runs'[Len(runs) + 1] = run
  BY DEF TypeOK
<1> QED
  BY <1>1 DEF StartedBySubmission

LEMMA StartsAreSettled ==
  ASSUME TypeOK, [Next]_vars
  PROVE  /\ Posted' >= Posted
         /\ \A n \in Nat : n <= Posted =>
              (StartedBySubmission(n)' <=> StartedBySubmission(n))
<1>1. ASSUME NEW h \in Handlers, NEW a \in ActionIds, NEW t \in Types,
             NEW creds \in BOOLEAN, submit_action(h, a, t, creds)
      PROVE  /\ Posted' = Posted + 1
             /\ \A n \in Nat : n <= Posted =>
                  (StartedBySubmission(n)' <=> StartedBySubmission(n))
  <2> DEFINE run == [num |-> Posted + 1, by |-> "submit", live |-> creds]
  <2>1. Posted' = Posted + 1
    BY <1>1 DEF submit_action, Posted, TypeOK
  <2>2. runs' = runs \/ runs' = Append(runs, run)
    BY <1>1 DEF submit_action, Posted
  <2>3. ASSUME NEW n \in Nat, n <= Posted
        PROVE  StartedBySubmission(n)' <=> StartedBySubmission(n)
    <3>1. run.num # n
      BY <2>3 DEF TypeOK, Posted
    <3>2. CASE runs' = runs
      BY <3>2 DEF StartedBySubmission
    <3> HIDE DEF run
    <3>3. CASE \E q : q = run /\ runs' = Append(runs, q)
      BY <3>1, <3>3, AppendedRun
    <3> QED
      BY <2>2, <3>2, <3>3
  <2> QED
    BY <2>1, <2>3
<1>2. ASSUME NEW a \in ActionIds, approve_action(a)
      PROVE  /\ Posted' = Posted
             /\ \A n \in Nat : StartedBySubmission(n)' <=> StartedBySubmission(n)
  <2> DEFINE run == [num |-> actions[a].num, by |-> "approve", live |-> FALSE]
  <2>1. Posted' = Posted /\ (runs' = runs \/ runs' = Append(runs, run))
    BY <1>2 DEF approve_action, Posted
  <2>2. run.by # "submit"
    OBVIOUS
  <2>3. CASE runs' = runs
    BY <2>1, <2>3 DEF StartedBySubmission
  <2> HIDE DEF run
  <2>4. CASE \E q : q = run /\ runs' = Append(runs, q)
    BY <2>1, <2>2, <2>4, AppendedRun
  <2> QED
    BY <2>1, <2>3, <2>4
<1>3. Posted \in Nat
  BY DEF TypeOK, Posted
<1>4. CASE UNCHANGED <<requests, runs>>
  BY <1>3, <1>4 DEF StartedBySubmission, Posted
<1>5. ASSUME NEW h \in Handlers, HandlerStep(h) PROVE UNCHANGED <<requests, runs>>
  BY <1>5 DEF HandlerStep, ExecutorReturns, DeliverPrompt, PromptFails, PromptReturns,
     PromptRaises, TimelineAppends, FinishCallback, CallbackRaises
<1>6. ASSUME NEW h \in Handlers, NEW a \in ActionIds, NEW c \in Choices,
             chatops_callback(h, a, c)
      PROVE  UNCHANGED <<requests, runs>>
  BY <1>6 DEF chatops_callback
<1>7. ASSUME NEW a \in ActionIds, reject_action(a) \/ LinksExpire(a)
      PROVE  UNCHANGED <<requests, runs>>
  BY <1>7 DEF reject_action, LinksExpire
<1>8. CASE Restart
  BY <1>4, <1>8 DEF Restart
<1>9. CASE UNCHANGED vars
  BY <1>4, <1>9 DEF vars
<1> QED
  BY <1>1, <1>2, <1>3, <1>4, <1>5, <1>6, <1>7, <1>8, <1>9 DEF Next

\* A summary that is extended by an honest result stays honest.
LEMMA HonestResult ==
  ASSUME TypeOK, [Next]_vars, BridgeInv, SummaryInv,
         NEW n \in Number \cup {0}, n <= Posted', NEW result \in Outcome,
         result = "executed" => StartedBySubmission(n)',
         result = "awaiting" => ~StartedBySubmission(n)',
         Result(n, result)
  PROVE  SummaryInv'
<1> DEFINE entry == [num |-> n, result |-> result]
           R == [num : Number \cup {0}, result : Outcome]
<1>1. report \in Seq(R) /\ entry \in R /\ report' = Append(report, entry)
  BY DEF BridgeInv, DTypeOK, Result, Outcome
<1>2. /\ DOMAIN report' = 1 .. Len(report) + 1
      /\ \A i \in DOMAIN report : report'[i] = report[i] /\ report[i] \in R
      /\ report'[Len(report) + 1] = entry
  <2> HIDE DEF entry, R
  <2> QED
    BY <1>1
<1>3. ASSUME NEW i \in DOMAIN report', NEW e, e = report'[i]
      PROVE  /\ e.num <= Posted'
             /\ e.result = "executed" => StartedBySubmission(e.num)'
             /\ e.result = "awaiting" => ~StartedBySubmission(e.num)'
  <2>1. CASE i = Len(report) + 1
    <3>1. e.num = n /\ e.result = result
      BY <1>2, <1>3, <2>1
    <3> QED
      BY <3>1
  <2>2. CASE i # Len(report) + 1
    <3>1. i \in DOMAIN report
      BY <1>1, <1>2, <1>3, <2>2
    <3>2. /\ e = report[i] /\ e.num \in Nat /\ e.num <= Posted
          /\ Posted \in Nat /\ Posted' \in Nat
      BY <1>2, <1>3, <3>1, TypeStep, BoundsAssumption DEF SummaryInv, Number, TypeOK, Posted
    <3>3. /\ e.result = "executed" => StartedBySubmission(e.num)
          /\ e.result = "awaiting" => ~StartedBySubmission(e.num)
      BY <3>1, <3>2 DEF SummaryInv, ReportIsHonest
    <3>4. /\ Posted' >= Posted
          /\ StartedBySubmission(e.num)' <=> StartedBySubmission(e.num)
      BY <3>2, StartsAreSettled
    <3> QED
      BY <3>2, <3>3, <3>4
  <2> QED
    BY <2>1, <2>2
<1>4. post' = NoPost
  BY DEF Result
<1>5. (\A i \in DOMAIN report : report[i].num <= Posted)'
  BY <1>3
<1>6. ReportIsHonest'
  BY <1>3 DEF ReportIsHonest
<1> QED
  BY <1>4, <1>5, <1>6 DEF SummaryInv

\* The report as it was stays honest when the router moves.
LEMMA ReportStays ==
  ASSUME TypeOK, [Next]_vars, BridgeInv, SummaryInv, report' = report
  PROVE  ReportIsHonest' /\ (\A i \in DOMAIN report : report[i].num <= Posted)'
<1>1. Posted \in Nat /\ Posted' \in Nat
  BY TypeStep DEF TypeOK, Posted
<1>2. ASSUME NEW e, e.num \in Nat, e.num <= Posted
      PROVE  e.num <= Posted' /\ (StartedBySubmission(e.num)' <=> StartedBySubmission(e.num))
  BY <1>1, <1>2, StartsAreSettled
<1>3. ASSUME NEW i \in DOMAIN report PROVE report[i].num \in Nat
  <2> DEFINE R == [num : Number \cup {0}, result : Outcome]
  <2>1. report \in Seq(R)
    BY DEF BridgeInv, DTypeOK, Outcome
  <2>2. \A r \in R : r.num \in Nat
    BY BoundsAssumption DEF Number
  <2> HIDE DEF R
  <2> QED
    BY <2>1, <2>2
<1>4. ASSUME NEW i \in DOMAIN report, NEW e, e = report[i]
      PROVE  /\ e.num <= Posted'
             /\ e.result = "executed" => StartedBySubmission(e.num)'
             /\ e.result = "awaiting" => ~StartedBySubmission(e.num)'
  <2>1. e.num \in Nat /\ e.num <= Posted
    BY <1>3, <1>4 DEF SummaryInv
  <2> QED
    BY <1>2, <1>4, <2>1 DEF SummaryInv, ReportIsHonest
<1> QED
  BY <1>4 DEF ReportIsHonest

LEMMA ReportKept ==
  ASSUME TypeOK, [Next]_vars, BridgeInv, SummaryInv, UNCHANGED <<report, post>>
  PROVE  SummaryInv'
<1>1. ASSUME NEW e, e = post, post # NoPost
      PROVE  StartedBySubmission(e.num)' /\ e.num <= Posted'
  <2>1. e.num \in Nat
    BY <1>1, BoundsAssumption DEF BridgeInv, DTypeOK, Number
  <2>2. e.num <= Posted /\ StartedBySubmission(e.num)
    BY <1>1 DEF SummaryInv
  <2>3. Posted \in Nat /\ Posted' \in Nat /\ Posted' >= Posted
    BY TypeStep, StartsAreSettled DEF TypeOK, Posted
  <2> QED
    BY <2>1, <2>2, <2>3, StartsAreSettled
<1> QED
  BY <1>1, ReportStays DEF SummaryInv

\* A submission of the bridge: what it starts it starts as this submission, and
\* what the gate holds nobody has started.
LEMMA DispatchHonest ==
  ASSUME TypeOK, GateInv, [Next]_vars, BridgeInv, SummaryInv,
         NEW h \in Handlers, NEW creds \in BOOLEAN, NEW a \in ActionIds,
         NEW t \in Types, submit_action(h, a, t, creds),
         NEW n, n = Posted + 1,
         IF task'[h] = Idle
         THEN Result(n, Counted(actions'[a].status))
         ELSE post' = [handler |-> h, num |-> n] /\ report' = report
  PROVE  SummaryInv'
<1>1. n \in Number /\ Posted' = n
  BY BoundsAssumption DEF submit_action, TypeOK, Number, Posted
<1>2. StartsExecutor(t) => StartedBySubmission(n)'
  <2>1. CASE StartsExecutor(t)
    <3>1. runs' = Append(runs, [num |-> n, by |-> "submit", live |-> creds])
      BY <2>1 DEF submit_action, Posted
    <3>2. /\ Len(runs) + 1 \in DOMAIN runs'
          /\ runs'[Len(runs) + 1] = [num |-> n, by |-> "submit", live |-> creds]
      BY <3>1 DEF TypeOK
    <3> QED
      BY <3>2 DEF StartedBySubmission
  <2> QED
    BY <2>1
<1>3. ~StartsExecutor(t) => ~StartedBySubmission(n)'
  <2>1. \A i \in DOMAIN runs : runs[i].num # n
    BY DEF GateInv, HistoryKnown, TypeOK, Posted
  <2> QED
    BY <2>1 DEF submit_action, StartedBySubmission
<1>4. CASE StartsExecutor(t) /\ creds
  <2>1. task'[h] = [pc |-> "executing", id |-> a, num |-> Len(requests) + 1]
    BY <1>4 DEF submit_action, TypeOK
  <2>2. task'[h] # Idle
    BY <2>1 DEF Idle
  <2>3. post' = [handler |-> h, num |-> n] /\ report' = report
    BY <2>2
  <2>4. StartedBySubmission(n)' /\ n <= Posted' /\ post'.num = n
    BY <1>1, <1>2, <1>4, <2>3, BoundsAssumption DEF Number
  <2>5. \A m : m = n => StartedBySubmission(m)'
    BY <2>4
  <2>6. (post # NoPost => StartedBySubmission(post.num))'
    BY <2>4, <2>5 DEF StartedBySubmission
  <2> QED
    BY <2>3, <2>4, <2>6, ReportStays DEF SummaryInv
<1>5. CASE ~(StartsExecutor(t) /\ creds)
  <2>1. task'[h] = Idle
    BY <1>5 DEF submit_action, IsIdle, TypeOK, Task, Idle
  <2>2. actions'[a].status = StatusWithoutAwait(t)
    BY <1>5 DEF submit_action, TypeOK
  <2>3. Result(n, Counted(StatusWithoutAwait(t)))
    BY <2>1, <2>2
  <2>4. /\ Counted(StatusWithoutAwait(t)) = "executed" => StartsExecutor(t)
        /\ Counted(StatusWithoutAwait(t)) = "awaiting" => ~StartsExecutor(t)
    BY DEF Counted, StatusWithoutAwait, StartsExecutor, evaluate
  <2>5. PICK result \in Outcome : result = Counted(StatusWithoutAwait(t))
    BY CountedIsOutcome
  <2> QED
    BY <1>1, <1>2, <1>3, <2>3, <2>4, <2>5, HonestResult, BoundsAssumption DEF Number
<1> QED
  BY <1>4, <1>5

\* Every step of the bridge, the router and their environment.
LEMMA SummaryStep ==
  ASSUME TypeOK, GateInv, BridgeInv, SummaryInv, [DNext]_dvars
  PROVE  SummaryInv'
<1>1. [Next]_vars
  BY RouterStep
<1>2. ASSUME NEW c \in Calls, dispatch_proposed_actions(c) PROVE SummaryInv'
  <2>1. report' = <<>> /\ post' = NoPost
    BY <1>2 DEF dispatch_proposed_actions, BridgeInv
  <2> QED
    BY <2>1 DEF SummaryInv, ReportIsHonest
<1>3. ASSUME NEW h \in Handlers, NEW creds \in BOOLEAN, Dispatch(h, creds)
      PROVE  SummaryInv'
  <2>1. PICK p \in Proposals : p = Head(left)
    BY <1>3 DEF Dispatch, BridgeInv, DTypeOK
  <2>2. PICK n : n = Len(requests) + 1
    OBVIOUS
  <2>3. PICK a \in ActionIds, t \in Types : a = p.id /\ t = _map_action(p.raw, p.ot)
    BY ProposalIsMapped
  <2>4. /\ submit_action(h, a, t, creds)
        /\ IF task'[h] = Idle
           THEN Result(n, Counted(actions'[a].status))
           ELSE post' = [handler |-> h, num |-> n] /\ report' = report
    BY <1>3, <2>1, <2>2, <2>3 DEF Dispatch
  <2> QED
    BY <1>1, <2>2, <2>4, DispatchHonest DEF Posted
<1>4. ASSUME NEW n \in Number \cup {0}, n <= Posted, Result(n, "failed")
      PROVE  SummaryInv'
  <2>1. Posted \in Nat /\ Posted' \in Nat /\ Posted' >= Posted /\ n \in Nat
    BY <1>1, TypeStep, StartsAreSettled, BoundsAssumption DEF TypeOK, Posted, Number
  <2>2. n <= Posted' /\ "failed" \in Outcome
    BY <1>4, <2>1 DEF Outcome
  <2> QED
    BY <1>1, <1>4, <2>2, HonestResult
<1>5. post # NoPost => post.num \in Number /\ post.num <= Posted
  BY DEF BridgeInv, DTypeOK, SummaryInv
<1>6. CASE Unreachable
  BY <1>4, <1>6, 0 <= Posted DEF Unreachable, TypeOK, Posted
<1>7. CASE TimesOut
  BY <1>4, <1>5, <1>7 DEF TimesOut
<1>8. ASSUME NEW h \in Handlers, HandlerGoesOn(h) PROVE SummaryInv'
  <2>1. CASE UNCHANGED bridge
    BY <1>1, <2>1, ReportKept DEF bridge
  <2>2. ASSUME post # NoPost, NEW s \in {"completed", "failed"},
               Result(post.num, Counted(s))
        PROVE  SummaryInv'
    <3>1. PICK n \in Number : n = post.num /\ n <= Posted /\ StartedBySubmission(n)
      BY <1>5, <2>2 DEF SummaryInv
    <3>2. Posted \in Nat /\ Posted' \in Nat /\ Posted' >= Posted /\ n \in Nat
      BY <1>1, TypeStep, StartsAreSettled, BoundsAssumption DEF TypeOK, Posted, Number
    <3>3. n <= Posted' /\ StartedBySubmission(n)'
      BY <1>1, <3>1, <3>2, StartsAreSettled
    <3>4. PICK result \in Outcome : result = Counted(s) /\ result # "awaiting"
      BY CountedIsOutcome DEF Counted
    <3> QED
      BY <1>1, <2>2, <3>1, <3>3, <3>4, HonestResult
  <2> QED
    BY <1>8, <2>1, <2>2 DEF HandlerGoesOn
<1>9. CASE OtherRequest
  BY <1>1, <1>9, ReportKept DEF OtherRequest, bridge
<1>10. CASE ServiceRestarts
  BY <1>1, <1>4, <1>5, <1>10, ReportKept DEF ServiceRestarts
<1>11. CASE UNCHANGED dvars
  BY <1>1, <1>11, ReportKept DEF dvars, bridge
<1> QED
  BY <1>2, <1>3, <1>6, <1>7, <1>8, <1>9, <1>10, <1>11 DEF DNext, BridgeStep

\* What a call's summary counts as executed was started by its submission, and
\* what it counts as awaiting approval was not.
THEOREM SummaryIsHonest == DSpec => []ReportIsHonest
<1>1. DInit => SummaryInv
  BY DEF DInit, SummaryInv, ReportIsHonest
<1>2. TypeOK /\ GateInv /\ BridgeInv /\ SummaryInv /\ [DNext]_dvars => SummaryInv'
  BY SummaryStep
<1>3. TypeOK /\ BridgeInv /\ [DNext]_dvars => TypeOK'
  BY TypeStep, RouterStep
<1>4. SummaryInv => ReportIsHonest
  BY DEF SummaryInv
<1> QED
  BY <1>1, <1>2, <1>3, <1>4, BridgeInit, BridgeStepTyped, RouterBesideBridge,
     GateInvariant, PTL DEF DSpec

=============================================================================
