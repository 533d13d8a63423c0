-------------------------- MODULE MCPlaybookEngine ---------------------------
(***************************************************************************)
(* Every playbook of three steps out of: actions, with and without a gate, *)
(* that abort or continue, conditions, and an action without a handler.    *)
(* Branches lead back to the first step or on to the last.                 *)
(***************************************************************************)
EXTENDS PlaybookEngine

Handled ==
  {s \in [kind : {"handled"}, gated : BOOLEAN, next_true : {0, 1, 3},
          next_false : {0, 1}, on_failure : {"abort", "continue"}, retry_max : {1}] :
     s.gated \/ s.next_false = 0}

Simple(kind, to) ==
  [kind |-> kind, gated |-> kind = "condition", next_true |-> to, next_false |-> 0,
   on_failure |-> "abort", retry_max |-> 0]

MCStep ==
  Handled \cup {Simple("condition", to) : to \in {0, 1, 3}} \cup {Simple("unhandled", 0)}

MCPlaybooks == {<<s, t, u>> : s \in MCStep, t \in MCStep, u \in MCStep}
=============================================================================
