--------------------------- MODULE CaseSyncProofs ---------------------------
(***************************************************************************)
(* Proofs about CaseSync for any handlers, tickets and bounds: its types,  *)
(* that only a webhook or a lost race takes the case out of its stages,    *)
(* and that no ticket shows a status the case did not have.  Both rest on  *)
(* what a handler holds between its steps (HandlersHold): the check of a   *)
(* PATCH still holds unless it was overtaken, and what is pushed was       *)
(* committed before.                                                       *)
(***************************************************************************)
EXTENDS CaseSync, TLAPS

HandlersHold ==
  \A h \in Handlers :
    /\ Updating(h) /\ h \notin overtaken => task[h].want \in Allowed(status)
    /\ task[h].pc \in {"select_refs", "push"} => task[h].want \in held

SyncInv ==
  /\ TypeOK
  /\ "new" \in held /\ status \in held
  /\ HandlersHold
  /\ TicketsShowHeldStatus

-----------------------------------------------------------------------------
\* The status maps are total.
LEMMA StatusMaps ==
  /\ \A s \in CaseStatus : Allowed(s) \subseteq CaseStatus
  /\ \A t \in Tickets, s \in CaseStatus : Projected(t, s) \in TicketState
  /\ \A x \in TicketState : Mirrored(x) \in CaseStatus \cup {NoStatus}
BY DEF Allowed, Transitions, CaseStatus, Projected, JiraState, SnowState,
       TicketState, Mirrored

\* A handler's task has the fields of its phase.
LEMMA TaskFields ==
  ASSUME TypeOK, NEW h \in Handlers
  PROVE  /\ task[h].pc \in {"update", "select_refs"} =>
              task[h].want \in CaseStatus /\ task[h].seen \in CaseStatus
         /\ task[h].pc = "push" =>
              task[h].want \in CaseStatus /\ task[h].todo \subseteq Tickets
         /\ task[h].pc = "apply" =>
              task[h].want \in CaseStatus /\ task[h].event \in Tickets \X TicketState
         /\ task[h].pc \in {"idle", "update", "select_refs", "push", "apply"}
<1>1. task[h] \in Task
  BY DEF TypeOK
<1> QED
  BY <1>1 DEF Task, Idle

\* A state that is stored at the vendor.
LEMMA SetTyped ==
  ASSUME TypeOK, NEW t \in Tickets, NEW x \in TicketState, SetTicket(t, x)
  PROVE  /\ ticket' \in [Tickets -> TicketState \cup {NoTicket}]
         /\ events' \subseteq Tickets \X TicketState
BY DEF TypeOK, SetTicket

\* What a write of the status does to the case and to the other handlers.
LEMMA WriteTyped ==
  ASSUME SyncInv, NEW h \in Handlers, NEW s \in CaseStatus, WriteStatus(h, s),
         \A g \in Handlers : g # h => task'[g] = task[g]
  PROVE  /\ status' = s /\ held' = held \cup {s}
         /\ status' \in CaseStatus /\ held' \subseteq CaseStatus
         /\ overtaken' \subseteq Handlers
         /\ \A g \in Handlers : g # h /\ Updating(g)' /\ g \notin overtaken' =>
              task'[g].want \in Allowed(status')
<1>1. TypeOK /\ HandlersHold
  BY DEF SyncInv
<1>2. status' = s /\ held' = held \cup {s} /\ overtaken' \subseteq Handlers
  BY <1>1 DEF WriteStatus, TypeOK
<1>3. ASSUME NEW g \in Handlers, g # h, Updating(g)', g \notin overtaken'
      PROVE  task'[g].want \in Allowed(status')
  <2>1. Updating(g) /\ task'[g] = task[g]
    BY <1>3 DEF Updating
  <2>2. status' = status /\ g \notin overtaken
    BY <1>3, <2>1 DEF WriteStatus
  <2> QED
    BY <1>1, <2>1, <2>2 DEF HandlersHold
<1> QED
  BY <1>1, <1>2, <1>3 DEF TypeOK

LEMMA FinishTyped ==
  ASSUME TypeOK, NEW h \in Handlers, Finish(h)
  PROVE  /\ task' \in [Handlers -> Task] /\ task'[h].pc = "idle"
         /\ \A g \in Handlers : g # h => task'[g] = task[g]
BY DEF TypeOK, Finish, Task, Idle

LEMMA PushTyped ==
  ASSUME TypeOK, NEW h \in Handlers, NEW want \in CaseStatus,
         NEW todo \in SUBSET Tickets, Push(h, want, todo)
  PROVE  /\ task' \in [Handlers -> Task]
         /\ task'[h].pc = "idle" \/ (task'[h].pc = "push" /\ task'[h].want = want)
         /\ \A g \in Handlers : g # h => task'[g] = task[g]
<1>1. Idle \in Task /\ [pc |-> "push", want |-> want, todo |-> todo] \in Task
  BY DEF Task
<1>2. CASE todo = {}
  <2>1. task' = [task EXCEPT ![h] = Idle]
    BY <1>2 DEF Push
  <2> QED
    BY <2>1, FinishTyped DEF Finish
<1>3. CASE todo # {}
  BY <1>1, <1>3 DEF TypeOK, Push
<1> QED
  BY <1>2, <1>3

LEMMA AcknowledgeTyped ==
  ASSUME TypeOK, NEW e, Acknowledge(e)
  PROVE  events' \subseteq Tickets \X TicketState /\ faults' \in 0 .. MaxFaults
BY BoundsAssumption DEF TypeOK, Acknowledge, Fault

Creation == [todo : SUBSET Tickets, minted : SUBSET Tickets, over : BOOLEAN]

LEMMA CreationTyped ==
  ASSUME TypeOK, NEW t \in Tickets, Pushed(t) \/ NotPushed(t)
  PROVE  creation' \in Creation
<1>1. creation \in Creation
  BY DEF TypeOK, Creation
<1>2. CASE Pushed(t)
  BY <1>1, <1>2 DEF Pushed, Creation
<1>3. CASE NotPushed(t)
  BY <1>1, <1>3 DEF NotPushed, Creation
<1> QED
  BY <1>2, <1>3

-----------------------------------------------------------------------------
\* A step that changes no status and no ticket, and of the handlers at most one,
\* which then holds what it may.
LEMMA TaskStep ==
  ASSUME SyncInv, TypeOK', UNCHANGED <<status, held, ticket, edited>>,
         HandlersHold'
  PROVE  SyncInv'
BY DEF SyncInv, TicketsShowHeldStatus

\* A ticket that takes the projection of a status the case had.
LEMMA TicketStep ==
  ASSUME SyncInv, TypeOK', NEW t \in Tickets, NEW s \in held,
         ticket' = ticket \/ SetTicket(t, Projected(t, s)),
         UNCHANGED <<status, held, edited>>, HandlersHold'
  PROVE  SyncInv'
<1>1. PICK x : x = Projected(t, s)
  OBVIOUS
<1>2. \A u \in Tickets : ticket'[u] = ticket[u] \/ (u = t /\ ticket'[u] = x)
  <2>1. ticket' = ticket \/ ticket' = [ticket EXCEPT ![t] = x]
    BY <1>1 DEF SetTicket
  <2>2. ticket \in [Tickets -> TicketState \cup {NoTicket}]
    BY DEF SyncInv, TypeOK
  <2> SUFFICES ASSUME NEW u \in Tickets
               PROVE  ticket'[u] = ticket[u] \/ (u = t /\ ticket'[u] = x)
    OBVIOUS
  <2>3. CASE ticket' = ticket
    BY <2>3
  <2>4. CASE ticket' = [ticket EXCEPT ![t] = x]
    BY <2>2, <2>4
  <2> QED
    BY <2>1, <2>3, <2>4
<1>3. TicketsShowHeldStatus'
  BY <1>1, <1>2 DEF SyncInv, TicketsShowHeldStatus
<1> QED
  BY <1>3 DEF SyncInv

LEMMA SyncInit == Init => SyncInv
<1> SUFFICES ASSUME Init PROVE SyncInv
  OBVIOUS
<1>1. TypeOK
  BY BoundsAssumption DEF Init, TypeOK, CaseStatus, Task
<1>2. HandlersHold
  BY DEF Init, HandlersHold, Updating, Idle
<1> QED
  BY <1>1, <1>2 DEF Init, SyncInv, TicketsShowHeldStatus

LEMMA SyncStep == SyncInv /\ [Next]_vars => SyncInv'
<1> SUFFICES ASSUME SyncInv, [Next]_vars PROVE SyncInv'
  OBVIOUS
<1>1. TypeOK /\ HandlersHold /\ "new" \in held /\ status \in held
  BY DEF SyncInv
<1> USE BoundsAssumption
<1>2. ASSUME NEW t \in Tickets, push_case(t) PROVE SyncInv'
  <2>1. SetTicket(t, Projected(t, "new")) \/ UNCHANGED <<ticket, events>>
    BY <1>2 DEF push_case
  <2>2. "new" \in CaseStatus /\ Projected(t, "new") \in TicketState
    BY StatusMaps DEF CaseStatus
  <2>3. /\ ticket' \in [Tickets -> TicketState \cup {NoTicket}]
        /\ events' \subseteq Tickets \X TicketState
    BY <1>1, <2>1, <2>2, SetTyped DEF TypeOK
  <2>4. TypeOK'
    <3>1. creation' \in Creation
      BY <1>1, <1>2, CreationTyped DEF push_case
    <3>2. faults' \in 0 .. MaxFaults
      BY <1>1, <1>2 DEF push_case, Fault, TypeOK
    <3> QED
      BY <1>1, <1>2, <2>3, <3>1, <3>2 DEF push_case, TypeOK, case, Creation
  <2>5. HandlersHold'
    BY <1>1, <1>2 DEF push_case, HandlersHold, Updating, case
  <2> QED
    BY <1>1, <1>2, <2>1, <2>4, <2>5, TicketStep DEF push_case, case
<1>3. CASE CommitLinks
  <2>1. TypeOK'
    <3>1. creation \in Creation /\ creation' = [creation EXCEPT !.over = TRUE]
      BY <1>1, <1>3 DEF CommitLinks, TypeOK, Creation
    <3>2. creation' \in Creation
      BY <3>1 DEF Creation
    <3>3. linked' \subseteq Tickets
      BY <1>1, <1>3 DEF CommitLinks, TypeOK
    <3>4. faults' \in 0 .. MaxFaults
      BY <1>1, <1>3 DEF CommitLinks, Fault, TypeOK
    <3> QED
      BY <1>1, <1>3, <3>2, <3>3, <3>4 DEF CommitLinks, TypeOK, case, vendor, Creation
  <2>2. HandlersHold'
    BY <1>1, <1>3 DEF CommitLinks, HandlersHold, Updating, case
  <2> QED
    BY <1>3, <2>1, <2>2, TaskStep DEF CommitLinks, case, vendor
<1>4. ASSUME NEW h \in Handlers, NEW s \in CaseStatus, ReadStatus(h, s) PROVE SyncInv'
  <2>1. [pc |-> "update", want |-> s, seen |-> status] \in Task
    BY <1>1 DEF Task, TypeOK
  <2>2. TypeOK'
    BY <1>1, <1>4, <2>1 DEF ReadStatus, TypeOK, case, vendor
  <2>3. HandlersHold'
    BY <1>1, <1>4 DEF ReadStatus, HandlersHold, Updating, TypeOK, case
  <2> QED
    BY <1>4, <2>2, <2>3, TaskStep DEF ReadStatus, case, vendor
<1>5. ASSUME NEW h \in Handlers, UpdateStatus(h) PROVE SyncInv'
  <2>1. PICK want \in CaseStatus, seen \in CaseStatus :
          want = task[h].want /\ seen = task[h].seen /\ task[h].pc = "update"
    BY <1>1, <1>5, TaskFields DEF UpdateStatus, Updating
  <2>3. /\ WriteStatus(h, want)
        /\ UNCHANGED <<linked, creation, vendor, inputs, faults>>
        /\ want = seen => Finish(h)
        /\ want # seen => task' = [task EXCEPT ![h].pc = "select_refs"]
    BY <1>5, <2>1 DEF UpdateStatus
  <2>4. /\ task' \in [Handlers -> Task]
        /\ \A g \in Handlers : g # h => task'[g] = task[g]
        /\ task'[h].pc = "idle" \/ (task'[h].pc = "select_refs" /\ task'[h].want = want)
    <3>1. CASE want = seen
      <4>1. Finish(h)
        BY <2>3, <3>1
      <4>2. TypeOK
        BY <1>1
      <4>3. /\ task' \in [Handlers -> Task] /\ task'[h].pc = "idle"
            /\ \A g \in Handlers : g # h => task'[g] = task[g]
        BY <4>1, <4>2, FinishTyped
      <4> QED
        BY <4>3
    <3>2. CASE want # seen
      <4>1. /\ task[h] = [pc |-> "update", want |-> want, seen |-> seen]
            /\ task \in [Handlers -> Task]
        BY <1>1, <2>1 DEF TypeOK, Task, Idle
      <4>2. task'[h] = [pc |-> "select_refs", want |-> want, seen |-> seen]
        BY <2>3, <3>2, <4>1
      <4>3. task'[h] \in Task
        BY <4>2 DEF Task
      <4> QED
        BY <2>3, <3>2, <4>1, <4>2, <4>3
    <3> QED
      BY <3>1, <3>2
  <2>5. /\ status' = want /\ held' = held \cup {want}
        /\ status' \in CaseStatus /\ held' \subseteq CaseStatus
        /\ overtaken' \subseteq Handlers
        /\ \A g \in Handlers : g # h /\ Updating(g)' /\ g \notin overtaken' =>
             task'[g].want \in Allowed(status')
    BY <2>3, <2>4, WriteTyped
  <2>6. TypeOK'
    BY <1>1, <2>3, <2>4, <2>5 DEF TypeOK, vendor
  <2>7. HandlersHold'
    BY <1>1, <2>4, <2>5 DEF HandlersHold, Updating
  <2>8. TicketsShowHeldStatus'
    BY <2>3, <2>5 DEF SyncInv, TicketsShowHeldStatus, vendor
  <2> QED
    BY <1>1, <2>5, <2>6, <2>7, <2>8 DEF SyncInv
<1>6. ASSUME NEW h \in Handlers, UpdateFails(h) \/ Interrupted(h) PROVE SyncInv'
  <2>1. Finish(h) /\ LeaveStatus(h) /\ UNCHANGED <<linked, creation, vendor, inputs>> /\ Fault
    BY <1>6 DEF UpdateFails, AfterFailedUpdate, Interrupted
  <2>2. TypeOK'
    BY <1>1, <2>1, FinishTyped DEF Fault, LeaveStatus, TypeOK, vendor
  <2>3. HandlersHold'
    BY <1>1, <2>1, FinishTyped DEF HandlersHold, Updating, LeaveStatus
  <2> QED
    BY <2>1, <2>2, <2>3, TaskStep DEF LeaveStatus, vendor
<1>7. ASSUME NEW h \in Handlers, SelectRefs(h) PROVE SyncInv'
  <2>1. PICK want \in CaseStatus : want = task[h].want /\ want \in held
    BY <1>1, <1>7, TaskFields DEF SelectRefs, HandlersHold, Updating
  <2>2. PICK todo \in SUBSET Tickets : Push(h, want, todo)
    BY <1>1, <1>7, <2>1 DEF SelectRefs, TypeOK
  <2>3. TypeOK'
    BY <1>1, <1>7, <2>2, PushTyped DEF SelectRefs, TypeOK, case, vendor
  <2>4. HandlersHold'
    BY <1>1, <1>7, <2>1, <2>2, PushTyped DEF SelectRefs, HandlersHold, Updating, case
  <2> QED
    BY <1>7, <2>3, <2>4, TaskStep DEF SelectRefs, case, vendor
<1>8. ASSUME NEW h \in Handlers, NEW t \in Tickets, push_status_change(h, t)
      PROVE  SyncInv'
  <2>1. PICK want \in CaseStatus : want = task[h].want /\ want \in held
    BY <1>1, <1>8, TaskFields DEF push_status_change, HandlersHold, Updating
  <2>2. PICK todo \in SUBSET Tickets : Push(h, want, todo)
    BY <1>1, <1>8, <2>1, TaskFields DEF push_status_change
  <2>3. SetTicket(t, Projected(t, want)) \/ UNCHANGED <<ticket, events>>
    BY <1>8, <2>1 DEF push_status_change
  <2>4. /\ ticket' \in [Tickets -> TicketState \cup {NoTicket}]
        /\ events' \subseteq Tickets \X TicketState
    BY <1>1, <2>1, <2>3, StatusMaps, SetTyped DEF TypeOK
  <2>5. TypeOK'
    BY <1>1, <1>8, <2>2, <2>4, PushTyped DEF push_status_change, Fault, TypeOK, case
  <2>6. HandlersHold'
    BY <1>1, <1>8, <2>1, <2>2, PushTyped DEF push_status_change, HandlersHold, Updating, case
  <2> QED
    BY <1>8, <2>1, <2>3, <2>5, <2>6, TicketStep DEF push_status_change, case
<1>9. ASSUME NEW t \in Tickets, NEW x \in TicketState, EditTicket(t, x)
      PROVE  SyncInv'
  <2>1. TypeOK'
    <3>1. /\ ticket' \in [Tickets -> TicketState \cup {NoTicket}]
          /\ events' \subseteq Tickets \X TicketState
      BY <1>1, <1>9, SetTyped DEF EditTicket
    <3> QED
      BY <1>1, <1>9, <3>1 DEF EditTicket, TypeOK, case
  <2>2. HandlersHold'
    BY <1>1, <1>9 DEF EditTicket, HandlersHold, Updating, case
  <2>3. TicketsShowHeldStatus'
    BY <1>1, <1>9
       DEF EditTicket, SetTicket, SyncInv, TypeOK, TicketsShowHeldStatus, case
  <2> QED
    BY <1>1, <1>9, <2>1, <2>2, <2>3 DEF EditTicket, SyncInv, case
<1>10. ASSUME NEW h \in Handlers, NEW e \in events, WebhookIgnored(h, e) PROVE SyncInv'
  <2>1. TypeOK'
    BY <1>1, <1>10, AcknowledgeTyped DEF WebhookIgnored, TypeOK, case
  <2>2. HandlersHold'
    BY <1>1, <1>10 DEF WebhookIgnored, HandlersHold, Updating, case
  <2> QED
    BY <1>10, <2>1, <2>2, TaskStep DEF WebhookIgnored, case
<1>11. ASSUME NEW h \in Handlers, NEW e \in events, WebhookReceived(h, e) PROVE SyncInv'
  <2>1. e \in Tickets \X TicketState /\ Mirrored(e[2]) \in CaseStatus
    BY <1>1, <1>11, StatusMaps DEF WebhookReceived, IsNews, TypeOK
  <2>2. [pc |-> "apply", want |-> Mirrored(e[2]), event |-> e] \in Task
    BY <2>1 DEF Task
  <2>3. TypeOK'
    BY <1>1, <1>11, <2>2 DEF WebhookReceived, TypeOK, case, vendor
  <2>4. HandlersHold'
    BY <1>1, <1>11 DEF WebhookReceived, HandlersHold, Updating, TypeOK, case
  <2> QED
    BY <1>11, <2>3, <2>4, TaskStep DEF WebhookReceived, case, vendor
<1>12. ASSUME NEW h \in Handlers, ApplyInbound(h) PROVE SyncInv'
  <2>1. PICK want \in CaseStatus : want = task[h].want
    BY <1>1, <1>12, TaskFields DEF ApplyInbound
  <2>2. /\ WriteStatus(h, want) /\ Finish(h)
        /\ UNCHANGED <<linked, creation, ticket, edited, inputs>>
        /\ events' \subseteq Tickets \X TicketState /\ faults' \in 0 .. MaxFaults
    BY <1>1, <1>12, <2>1, AcknowledgeTyped DEF ApplyInbound
  <2>3. /\ task' \in [Handlers -> Task] /\ task'[h].pc = "idle"
        /\ \A g \in Handlers : g # h => task'[g] = task[g]
    BY <1>1, <2>2, FinishTyped
  <2>4. /\ status' = want /\ held' = held \cup {want}
        /\ status' \in CaseStatus /\ held' \subseteq CaseStatus
        /\ overtaken' \subseteq Handlers
        /\ \A g \in Handlers : g # h /\ Updating(g)' /\ g \notin overtaken' =>
             task'[g].want \in Allowed(status')
    BY <2>2, <2>3, WriteTyped
  <2>5. TypeOK'
    BY <1>1, <2>2, <2>3, <2>4 DEF TypeOK
  <2>6. HandlersHold'
    BY <1>1, <2>3, <2>4 DEF HandlersHold, Updating
  <2> QED
    BY <1>1, <2>2, <2>4, <2>5, <2>6 DEF SyncInv, TicketsShowHeldStatus
<1>13. CASE UNCHANGED vars
  BY <1>13 DEF vars, case, vendor, SyncInv, TypeOK, HandlersHold, Updating,
               TicketsShowHeldStatus
<1> QED
  BY <1>2, <1>3, <1>4, <1>5, <1>6, <1>7, <1>8, <1>9, <1>10, <1>11, <1>12, <1>13
     DEF Next, Progress

LEMMA SyncInvariant == Spec => []SyncInv
BY SyncInit, SyncStep, PTL DEF Spec

\* The case, the handlers and the tickets keep their types: no webhook and no
\* push leads out of the six statuses.
THEOREM TypeCorrect == Spec => []TypeOK
<1>1. SyncInv => TypeOK
  BY DEF SyncInv
<1> QED
  BY <1>1, SyncInvariant, PTL

\* What takes the case out of its stages is a webhook, or a PATCH under which
\* the status changed between its check and its UPDATE.
THEOREM StagesHoldWithoutRace == Spec => SkipsNeedARace
<1>1. SyncInv /\ [Next]_vars =>
        [OutOfStage => \E h \in Handlers :
           ApplyInbound(h) \/ (UpdateStatus(h) /\ h \in overtaken)]_vars
  <2> SUFFICES ASSUME SyncInv, Next, OutOfStage
               PROVE  \E h \in Handlers :
                        ApplyInbound(h) \/ (UpdateStatus(h) /\ h \in overtaken)
    OBVIOUS
  <2>1. status' # status
    BY DEF OutOfStage
  <2>2. \E h \in Handlers : UpdateStatus(h) \/ ApplyInbound(h)
    BY <2>1 DEF Next, Progress, push_case, CommitLinks, ReadStatus, SelectRefs,
       push_status_change, EditTicket, WebhookIgnored, WebhookReceived, UpdateFails,
       Interrupted, LeaveStatus, case
  <2>3. ASSUME NEW h \in Handlers, UpdateStatus(h), h \notin overtaken PROVE FALSE
    <3>1. status' = task[h].want /\ Updating(h)
      BY <2>3 DEF UpdateStatus, WriteStatus
    <3>2. task[h].want \in {status} \cup Transitions(status)
      BY <2>3, <3>1 DEF SyncInv, HandlersHold, Allowed
    <3> QED
      BY <3>1, <3>2 DEF OutOfStage
  <2> QED
    BY <2>2, <2>3
<1> QED
  BY <1>1, SyncInvariant, PTL DEF Spec, SkipsNeedARace

\* A ticket shows a status the case had, unless a user of the ITSM changed it.
THEOREM TicketsAreTrue == Spec => []TicketsShowHeldStatus
<1>1. SyncInv => TicketsShowHeldStatus
  BY DEF SyncInv
<1> QED
  BY <1>1, SyncInvariant, PTL

=============================================================================
