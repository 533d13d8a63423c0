--------------------------- MODULE MCGraphStream ----------------------------
(***************************************************************************)
(* Three events of two tenants, two of them on one entity, and a client of *)
(* each tenant.                                                            *)
(***************************************************************************)
EXTENDS GraphStream, TLC

CONSTANTS e1, e2, e3, t1, t2, n1, n2, c1, c2

MCTenantOf == e1 :> t1 @@ e2 :> t1 @@ e3 :> t2
MCEntityOf == e1 :> n1 @@ e2 :> n1 @@ e3 :> n2
MCClientTenant == c1 :> t1 @@ c2 :> t2
=============================================================================
