--------------------------- MODULE ActionDispatch ---------------------------
(***************************************************************************)
(* The bridge from the agents to the actions service                       *)
(* (services/agents/app/clients/actions_client.py) beside the router it    *)
(* posts to: a call maps its proposals and posts them one after the other, *)
(* each under a timeout that is shorter than what an executor may take.    *)
(*                                                                         *)
(* The bridge learns of a submission what the handler answers, if it       *)
(* answers in time; the handler goes on either way.                        *)
(***************************************************************************)
EXTENDS ActionGate

CONSTANTS
  OtherTypes, \* the types that other clients submit
  Proposals,  \* proposed actions: id, raw type, whether the target is OT
  Calls,      \* the lists an agent run or POST /actions/dispatch may pass
  MaxCalls,   \* bound on those calls
  NoPost      \* no request of the bridge is in flight

ASSUME OtherTypesAssumption == OtherTypes \subseteq Types
ASSUME CallsAssumption ==
  /\ \A p \in Proposals :
       p.id \in ActionIds /\ _map_action(p.raw, p.ot) \in Types
  /\ Calls \subseteq Seq(Proposals)
  /\ MaxCalls \in Nat
ASSUME NoPostAssumption == NoPost \notin [handler : Handlers, num : 1 .. MaxSubmits]

VARIABLES
  left,    \* proposals of the current call that are not dispatched
  post,    \* the request in flight: its handler and its submission
  report,  \* the results of the current call
  calls

bridge == <<left, post, report, calls>>
dvars == <<vars, bridge>>

DTypeOK ==
  /\ left \in Seq(Proposals)
  /\ post \in [handler : Handlers, num : Number] \cup {NoPost}
  /\ report \in Seq([num : Number \cup {0},
                     result : {"executed", "awaiting", "failed", "other"}])
  /\ calls \in 0 .. MaxCalls

DInit ==
  /\ Init
  /\ left = <<>> /\ post = NoPost /\ report = <<>> /\ calls = 0

-----------------------------------------------------------------------------
\* What dispatch_proposed_actions counts an answered status as.
Counted(status) ==
  CASE status \in {"completed", "approved"} -> "executed"
    [] status = "awaiting_approval"         -> "awaiting"
    [] OTHER                                -> "other"

Result(n, result) ==
  /\ report' = Append(report, [num |-> n, result |-> result])
  /\ left' = Tail(left)
  /\ post' = NoPost

dispatch_proposed_actions(list) ==
  /\ left = <<>> /\ calls < MaxCalls
  /\ calls' = calls + 1
  /\ left' = list /\ report' = <<>>
  /\ UNCHANGED <<vars, post>>

\* dispatch: the request reaches a handler, which answers at once or suspends.
Dispatch(h, creds) ==
  LET p == Head(left)
      n == Len(requests) + 1
  IN  /\ left # <<>> /\ post = NoPost
      /\ submit_action(h, p.id, _map_action(p.raw, p.ot), creds)
      /\ IF task'[h] = Idle
         THEN Result(n, Counted(actions'[p.id].status))
         ELSE /\ post' = [handler |-> h, num |-> n]
              /\ UNCHANGED <<left, report>>
      /\ UNCHANGED calls

\* The request does not reach the service.
Unreachable ==
  /\ left # <<>> /\ post = NoPost
  /\ Result(0, "failed")
  /\ UNCHANGED <<vars, calls>>

\* Eight seconds are over, or the connection breaks: the handler goes on.
TimesOut ==
  /\ post # NoPost
  /\ Result(post.num, "failed")
  /\ UNCHANGED <<vars, calls>>

\* A handler goes on; if it ends the bridge's request, the bridge has its answer.
HandlerGoesOn(h) ==
  \/ /\ HandlerStep(h)
     /\ post # NoPost => task'[post.handler] # Idle
     /\ UNCHANGED bridge
  \/ /\ post # NoPost /\ post.handler = h
     /\ \E s \in {"completed", "failed"} :
          ExecutorReturns(h, s) /\ Result(post.num, Counted(s))
     /\ UNCHANGED calls

\* Requests of other clients, of the ChatOps users and of approvers.
OtherRequest ==
  /\ \/ \E h \in Handlers, a \in ActionIds :
          \/ \E t \in OtherTypes, creds \in BOOLEAN : submit_action(h, a, t, creds)
          \/ \E c \in Choices : chatops_callback(h, a, c)
     \/ \E a \in ActionIds : approve_action(a) \/ reject_action(a) \/ LinksExpire(a)
  /\ UNCHANGED bridge

\* The connection of a request in flight breaks.
ServiceRestarts ==
  /\ Restart
  /\ IF post = NoPost THEN UNCHANGED <<left, post, report>> ELSE Result(post.num, "failed")
  /\ UNCHANGED calls

BridgeStep ==
  \/ \E h \in Handlers, creds \in BOOLEAN : Dispatch(h, creds)
  \/ Unreachable
  \/ TimesOut

DNext ==
  \/ \E c \in Calls : dispatch_proposed_actions(c)
  \/ BridgeStep
  \/ \E h \in Handlers : HandlerGoesOn(h)
  \/ OtherRequest
  \/ ServiceRestarts

DSpec == DInit /\ [][DNext]_dvars

\* Every outbound call has a timeout, so a suspended handler resumes.
DFairSpec == DSpec /\ \A h \in Handlers : WF_dvars(HandlerGoesOn(h))

-----------------------------------------------------------------------------
StartedBySubmission(n) ==
  \E j \in DOMAIN runs : runs[j].num = n /\ runs[j].by = "submit"

\* What the summary of a call says is so: an action it counts as executed has
\* been started, and one that awaits approval has not been started by anything
\* but an approval, whatever happened to it since.
ReportIsHonest ==
  \A i \in DOMAIN report :
    /\ report[i].result = "executed" => StartedBySubmission(report[i].num)
    /\ report[i].result = "awaiting" => ~StartedBySubmission(report[i].num)
=============================================================================
