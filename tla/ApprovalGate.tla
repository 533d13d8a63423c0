---------------------------- MODULE ApprovalGate ----------------------------
(***************************************************************************)
(* What the human gate of the actions service promises                     *)
(* (services/actions/app/api/router.py, submit_action, approve_action and  *)
(* reject_action): a submission that needs a human is held, and a held     *)
(* submission is decided once, by one step that starts it or vetoes it, or *)
(* it is forgotten.  A submission that needs nobody is started as it comes,   *)
(* or never.                                                               *)
(***************************************************************************)
EXTENDS Naturals, Sequences

VARIABLES
  verdicts,  \* the blast-radius gate's verdict on every submission so far
  held,      \* the submissions that wait for one
  vetoed,    \* the ones that a human refused
  starts     \* the submissions whose executor was started, in order

Init ==
  /\ verdicts = <<>> /\ held = {}
  /\ vetoed = {} /\ starts = <<>>

\* A new submission; the one that its id stood for before is forgotten.  One that
\* needs nobody is started if its type has an executor.
Submit(lost) ==
  LET n == Len(verdicts) + 1
  IN  /\ UNCHANGED vetoed
      /\ \/ /\ verdicts' = Append(verdicts, "awaiting_approval")
            /\ held' = (held \ lost) \cup {n}
            /\ UNCHANGED starts
         \/ /\ verdicts' = Append(verdicts, "approved")
            /\ held' = held \ lost
            /\ starts' = Append(starts, n) \/ UNCHANGED starts

Approve(n) ==
  /\ held' = held \ {n}
  /\ starts' = Append(starts, n)
  /\ UNCHANGED <<verdicts, vetoed>>

Reject(n) ==
  /\ held' = held \ {n}
  /\ vetoed' = vetoed \cup {n}
  /\ UNCHANGED <<verdicts, starts>>

\* Submissions stop waiting without having been started: the service restarts, an
\* approved type has no executor, or the answer to an earlier prompt under the same
\* id is written into the record.
Forget(lost) ==
  /\ held' = held \ lost
  /\ UNCHANGED <<verdicts, vetoed, starts>>

Next ==
  \/ \E lost \in SUBSET held : Submit(lost) \/ Forget(lost)
  \/ \E n \in held : Approve(n) \/ Reject(n)

Spec == Init /\ [][Next]_<<verdicts, held, vetoed, starts>>

=============================================================================
