---------------------------- MODULE MCEntityRisk ----------------------------
(***************************************************************************)
(* Three runs of one correlation key: two copies of one event, which race  *)
(* past the duplicate check or not, and a second alert.  All three touch   *)
(* one entity, which the second alert and one of the copies take to the    *)
(* threshold and whose record names one alert only; the second alert       *)
(* touches another entity first, which it does not take there.             *)
(***************************************************************************)
EXTENDS EntityRisk, TLC

CONSTANTS r1, r2, r3, a1, a2, f1, f2, k1, n1, n2

MCAlertOf == r1 :> a1 @@ r2 :> a1 @@ r3 :> a2
MCFingerprint == a1 :> f1 @@ a2 :> f2
MCCorrKey == a1 :> k1 @@ a2 :> k1
MCEntitiesOf == a1 :> <<n1>> @@ a2 :> <<n2, n1>>
MCPoints == a1 :> 1 @@ a2 :> 2
\* The two copies are alike.
Copies == Permutations({r1, r2})
=============================================================================
