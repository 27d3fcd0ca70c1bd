--------------------------- MODULE MCVerification ---------------------------
(* Instances of Verification for TLC: the second check depends on the      *)
(* first, the third is optional and depends on the second.                 *)
EXTENDS Verification, TLC

MCDependencies == <<{}, {1}, {2}>>
MCAttempts == <<2, 0, 1>>
=============================================================================
