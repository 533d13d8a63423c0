------------------------ MODULE MCDetectionProposals ------------------------
(* Four requests, interchangeable.                                         *)
EXTENDS DetectionProposals, TLC

Symmetry == Permutations(ApiRequests)
=============================================================================
