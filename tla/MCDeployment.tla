---------------------------- MODULE MCDeployment ----------------------------
(* Instances of Deployment for TLC.  A complete request can fail at every  *)
(* step; the other one lacks its health target.                            *)
EXTENDS Deployment, TLC

CONSTANTS p1, r1

Body(run, argv, target) == [project |-> p1, run |-> run, argv |-> argv, target |-> target]
Complete == Body(r1, TRUE, TRUE)
Untargeted == Body(r1, TRUE, FALSE)
Symmetry == Permutations(Deployments)
MCRequests == {Complete, Untargeted}
=============================================================================
