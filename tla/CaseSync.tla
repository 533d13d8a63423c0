------------------------------ MODULE CaseSync ------------------------------
(***************************************************************************)
(* The status of one case and of the ITSM tickets it is projected onto:    *)
(* creation and update with their fan-out (services/api cases.py and       *)
(* case_fanout.py), the vendors' webhooks back (inbox_itsm.py) and the     *)
(* status maps of the two ITSM connectors.                                 *)
(*                                                                         *)
(* Every await is a step of its own: other handlers, of any replica, run   *)
(* between the SELECT of a status and the UPDATE that rests on it, and     *)
(* between the commit and each push.  Left out, because no decision reads  *)
(* it: case_external_refs.external_status, the timeline columns and the    *)
(* system comments.                                                        *)
(***************************************************************************)
EXTENDS Naturals

CONSTANTS
  Handlers,    \* requests of the API service that can be in flight at once
  Jira,        \* tickets of Jira connectors selected for this case
  ServiceNow,  \* and of ServiceNow connectors
  NoTicket,    \* a ticket that is not created yet
  NoStatus,    \* a vendor state without an AiSOC equivalent
  MaxInputs,   \* bound on PATCH requests and on what users of the ITSM do
  MaxFaults    \* bound on errors, lost answers and crashes

Tickets == Jira \cup ServiceNow

ASSUME TicketAssumption == Jira \cap ServiceNow = {}
ASSUME BoundsAssumption ==
  MaxInputs \in Nat /\ MaxFaults \in Nat

CaseStatus == {"new", "triaged", "investigating", "contained", "resolved", "closed"}

\* A Jira status name or a ServiceNow state number; "other" is any that the
\* inbound maps do not know.
TicketState == {"open", "progress", "hold", "done", "closed", "other"}

ASSUME NoneAssumption == NoTicket \notin TicketState /\ NoStatus \notin CaseStatus

\* _TRANSITIONS
Transitions(s) ==
  CASE s = "new"           -> {"triaged"}
    [] s = "triaged"       -> {"investigating"}
    [] s = "investigating" -> {"contained", "resolved"}
    [] s = "contained"     -> {"resolved"}
    [] s = "resolved"      -> {"closed"}
    [] s = "closed"        -> {}

\* _STATUS_MAP_JIRA
JiraState(s) ==
  CASE s \in {"new", "triaged"}             -> "open"
    [] s \in {"investigating", "contained"} -> "progress"
    [] s \in {"resolved", "closed"}         -> "done"

\* _STATUS_MAP_SNOW
SnowState(s) ==
  CASE s = "new"                                       -> "open"
    [] s \in {"triaged", "investigating", "contained"} -> "progress"
    [] s = "resolved"                                  -> "done"
    [] s = "closed"                                    -> "closed"

Projected(t, s) == IF t \in Jira THEN JiraState(s) ELSE SnowState(s)

\* _map_inbound_status, the same for both vendors.
Mirrored(x) ==
  CASE x = "open"     -> "triaged"
    [] x = "progress" -> "investigating"
    [] x = "hold"     -> "contained"
    [] x = "done"     -> "resolved"
    [] x = "closed"   -> "closed"
    [] x = "other"    -> NoStatus

VARIABLES
  status,   \* aisoc_cases.status
  linked,   \* tickets with a committed case_external_refs row
  creation, \* the rest of create_case: tickets to push, tickets minted
  task,     \* the request a handler works on
  ticket,   \* state of each ticket, at the vendor
  events,   \* webhooks the vendors have yet to deliver
  held,     \* history: statuses the case has had
  overtaken, \* history: PATCHes under which the status changed since their SELECT
  edited,   \* history: states a user of the ITSM gave a ticket
  inputs, faults

case == <<status, held, overtaken>>
vendor == <<ticket, events, edited>>
vars == <<case, linked, creation, task, vendor, inputs, faults>>

Idle == [pc |-> "idle"]
Task == {Idle}
  \cup [pc : {"update", "select_refs"}, want : CaseStatus, seen : CaseStatus]
  \cup [pc : {"push"}, want : CaseStatus, todo : SUBSET Tickets]
  \cup [pc : {"apply"}, want : CaseStatus, event : Tickets \X TicketState]

TypeOK ==
  /\ status \in CaseStatus
  /\ linked \subseteq Tickets
  /\ creation \in [todo : SUBSET Tickets, minted : SUBSET Tickets, over : BOOLEAN]
  /\ task \in [Handlers -> Task]
  /\ ticket \in [Tickets -> TicketState \cup {NoTicket}]
  /\ events \subseteq Tickets \X TicketState
  /\ held \subseteq CaseStatus /\ overtaken \subseteq Handlers
  /\ edited \subseteq Tickets \X TicketState
  /\ inputs \in 0 .. MaxInputs /\ faults \in 0 .. MaxFaults

\* create_case has committed the row.
Init ==
  /\ status = "new"
  /\ linked = {}
  /\ creation = [todo |-> Tickets, minted |-> {}, over |-> FALSE]
  /\ task = [h \in Handlers |-> Idle]
  /\ ticket = [t \in Tickets |-> NoTicket]
  /\ events = {}
  /\ held = {"new"} /\ overtaken = {} /\ edited = {}
  /\ inputs = 0 /\ faults = 0

IsIdle(h) == task[h].pc = "idle"
Fault == faults < MaxFaults /\ faults' = faults + 1
Finish(h) == task' = [task EXCEPT ![h] = Idle]
Updating(h) == task[h].pc = "update"

\* Handler h writes a status; a change of it overtakes every other PATCH
\* between its SELECT and its UPDATE.
WriteStatus(h, s) ==
  /\ status' = s
  /\ held' = held \cup {s}
  /\ overtaken' = (IF s = status THEN overtaken ELSE {g \in Handlers : Updating(g)}) \ {h}

\* A PATCH ends without its UPDATE.
LeaveStatus(h) ==
  /\ UNCHANGED <<status, held>>
  /\ overtaken' = overtaken \ {h}

\* The vendor stores a state and, if it is new, fires its webhook.
SetTicket(t, x) ==
  /\ ticket' = [ticket EXCEPT ![t] = x]
  /\ events' = IF ticket[t] = x THEN events ELSE events \cup {<<t, x>>}

-----------------------------------------------------------------------------
(***************************************************************************)
(* The fan-out of create_case, one ticket after the other, and the commit  *)
(* that links them.                                                        *)
(***************************************************************************)
Pushed(t) == creation' = [creation EXCEPT !.todo = @ \ {t}, !.minted = @ \cup {t}]
NotPushed(t) == creation' = [creation EXCEPT !.todo = @ \ {t}]

push_case(t) ==
  /\ t \in creation.todo
  /\ \/ SetTicket(t, Projected(t, "new")) /\ Pushed(t) /\ UNCHANGED faults
     \/ SetTicket(t, Projected(t, "new")) /\ NotPushed(t) /\ Fault
     \/ UNCHANGED <<ticket, events>> /\ NotPushed(t) /\ Fault
  /\ UNCHANGED <<case, linked, task, edited, inputs>>

CommitLinks ==
  /\ creation.todo = {} /\ ~creation.over
  /\ \/ linked' = creation.minted /\ UNCHANGED faults
     \/ linked' = linked /\ Fault
  /\ creation' = [creation EXCEPT !.over = TRUE]
  /\ UNCHANGED <<case, task, vendor, inputs>>

-----------------------------------------------------------------------------
\* Mutant: the transition is not checked.
AnyStatus(s) == CaseStatus

\* What a PATCH may ask for, given the status it read.
Allowed(s) == {s} \cup Transitions(s)

(***************************************************************************)
(* update_case: the SELECT and the check, the UPDATE and its commit, the   *)
(* SELECT of the links, then a push for each of them.                      *)
(***************************************************************************)
ReadStatus(h, want) ==
  /\ IsIdle(h)
  /\ inputs < MaxInputs
  /\ want \in Allowed(status)
  /\ task' = [task EXCEPT ![h] = [pc |-> "update", want |-> want, seen |-> status]]
  /\ inputs' = inputs + 1
  /\ UNCHANGED <<case, linked, creation, vendor, faults>>

\* The UPDATE names the id only: whatever the status is by now, it is replaced.
UpdateStatus(h) ==
  /\ Updating(h)
  /\ WriteStatus(h, task[h].want)
  /\ IF task[h].want = task[h].seen
     THEN Finish(h)
     ELSE task' = [task EXCEPT ![h].pc = "select_refs"]
  /\ UNCHANGED <<linked, creation, vendor, inputs, faults>>

\* Mutant: the fan-out goes on after a failed commit.
FanOutAnyway(h) == task' = [task EXCEPT ![h].pc = "select_refs"]

\* 503, nothing is pushed.
AfterFailedUpdate(h) == Finish(h)

UpdateFails(h) ==
  /\ Updating(h)
  /\ Fault
  /\ AfterFailedUpdate(h)
  /\ LeaveStatus(h)
  /\ UNCHANGED <<linked, creation, vendor, inputs>>

\* The pushes that are left, or the end of the request.
Push(h, want, todo) ==
  task' = [task EXCEPT ![h] =
             IF todo = {} THEN Idle ELSE [pc |-> "push", want |-> want, todo |-> todo]]

SelectRefs(h) ==
  /\ task[h].pc = "select_refs"
  /\ Push(h, task[h].want, linked)
  /\ UNCHANGED <<case, linked, creation, vendor, inputs, faults>>

\* The vendor takes the state, whether or not its answer arrives, or refuses.
push_status_change(h, t) ==
  /\ task[h].pc = "push" /\ t \in task[h].todo
  /\ Push(h, task[h].want, task[h].todo \ {t})
  /\ \/ SetTicket(t, Projected(t, task[h].want)) /\ UNCHANGED faults
     \/ UNCHANGED <<ticket, events>> /\ Fault
  /\ UNCHANGED <<case, linked, creation, edited, inputs>>

\* The process ends, or the client goes away, in the middle of a request.
Interrupted(h) ==
  /\ ~IsIdle(h)
  /\ Fault
  /\ Finish(h)
  /\ LeaveStatus(h)
  /\ UNCHANGED <<linked, creation, vendor, inputs>>

-----------------------------------------------------------------------------
\* A user of the ITSM moves a ticket.
EditTicket(t, x) ==
  /\ ticket[t] \notin {NoTicket, x}
  /\ inputs < MaxInputs
  /\ inputs' = inputs + 1
  /\ SetTicket(t, x)
  /\ edited' = edited \cup {<<t, x>>}
  /\ UNCHANGED <<case, linked, creation, task, faults>>

(***************************************************************************)
(* inbound_itsm_webhook: deliveries come in any order.  An unlinked ticket,*)
(* an unknown state and the status the case has already are acknowledged   *)
(* without a change to the case; otherwise the status that was read is     *)
(* overwritten in a later step.  An answer that is lost, or a 503, leaves  *)
(* the delivery to be retried.                                             *)
(***************************************************************************)

IsNews(e) == e[1] \in linked /\ Mirrored(e[2]) \notin {NoStatus, status}

\* Mutant: the vendor is answered with an error and delivers again.
RefusedAgain(e) == UNCHANGED <<events, faults>>

\* The answer arrives, or it is lost.
Acknowledge(e) ==
  \/ events' = events \ {e} /\ UNCHANGED faults
  \/ events' = events /\ Fault

WebhookIgnored(h, e) ==
  /\ IsIdle(h) /\ e \in events /\ ~IsNews(e)
  /\ Acknowledge(e)
  /\ UNCHANGED <<case, linked, creation, task, ticket, edited, inputs>>

WebhookReceived(h, e) ==
  /\ IsIdle(h) /\ e \in events /\ IsNews(e)
  /\ task' = [task EXCEPT ![h] =
                [pc |-> "apply", want |-> Mirrored(e[2]), event |-> e]]
  /\ UNCHANGED <<case, linked, creation, vendor, inputs, faults>>

\* _apply_status_to_case and its commit; the status is not projected onto the
\* other tickets.
ApplyInbound(h) ==
  /\ task[h].pc = "apply"
  /\ WriteStatus(h, task[h].want)
  /\ Finish(h)
  /\ Acknowledge(task[h].event)
  /\ UNCHANGED <<linked, creation, ticket, edited, inputs>>

\* What happens without anybody's doing.
Progress ==
  \/ \E t \in Tickets : push_case(t)
  \/ CommitLinks
  \/ \E h \in Handlers :
       \/ UpdateStatus(h) \/ SelectRefs(h) \/ ApplyInbound(h)
       \/ \E t \in Tickets : push_status_change(h, t)
       \/ \E e \in events : WebhookIgnored(h, e) \/ WebhookReceived(h, e)

Next ==
  \/ Progress
  \/ \E h \in Handlers :
       \/ \E s \in CaseStatus : ReadStatus(h, s)
       \/ UpdateFails(h) \/ Interrupted(h)
  \/ \E t \in Tickets, x \in TicketState : EditTicket(t, x)

Spec == Init /\ [][Next]_vars

\* Requests are worked on, with a timeout on every call, and the vendors
\* deliver their webhooks.
FairSpec == Spec /\ WF_vars(Progress)

-----------------------------------------------------------------------------
OutOfStage == status' \notin {status} \cup Transitions(status)

\* The case leaves its stages only by a webhook or by a lost race: a PATCH that
\* skips or reverses a stage is one under which the status changed after it was
\* checked (the check reads the status, the UPDATE does not).
SkipsNeedARace ==
  [][OutOfStage => \E h \in Handlers :
       ApplyInbound(h) \/ (UpdateStatus(h) /\ h \in overtaken)]_vars

\* "Invalid status transition": no PATCH does what _TRANSITIONS forbids, and a
\* closed case stays closed.
PatchesFollowTransitions ==
  [][\A h \in Handlers : UpdateStatus(h) => ~OutOfStage]_vars

\* A ticket never shows a status the case did not have, unless a user of the
\* ITSM put it there: the fan-out starts after the commit, and a failed commit
\* pushes nothing.
TicketsShowHeldStatus ==
  \A t \in Tickets :
    \/ ticket[t] = NoTicket
    \/ <<t, ticket[t]>> \in edited
    \/ \E s \in held : ticket[t] = Projected(t, s)

\* The two directions never feed each other: when nobody acts any more, the
\* echoes of the pushes die out, the status stays and no webhook is left.
SyncSettles == <>[][status' = status /\ ticket' = ticket]_vars /\ <>[](events = {})

\* inbox_itsm.py: a redelivered "Done" event after the case has been closed
\* bumps last_synced_at "and nothing else".
DoneLeavesClosed ==
  [][\A h \in Handlers :
       task[h].pc = "apply" /\ task[h].event[2] = "done" /\ ApplyInbound(h)
         => status # "closed"]_vars
=============================================================================
