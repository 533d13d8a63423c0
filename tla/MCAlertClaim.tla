---------------------------- MODULE MCAlertClaim ----------------------------
(***************************************************************************)
(* Instance of AlertClaim: two claims of one user, one of another, and two *)
(* updates that give the alert to the second and to a third user.          *)
(***************************************************************************)
EXTENDS AlertClaim, TLC

CONSTANTS ana, bo, cy, c1, c2, c3, p1, p2

MCUserOf == c1 :> ana @@ c2 :> ana @@ c3 :> bo @@ p1 :> bo @@ p2 :> cy

=============================================================================
