--------------------------- MODULE MCProvisioning ---------------------------
(* Instances of Provisioning for TLC.  The four steps keep what the ten    *)
(* default ones have: the step without a command, a fork of two steps that *)
(* are ready together, and a join.                                         *)
EXTENDS Provisioning, TLC

ForkJoin == <<{}, {1}, {1}, {2, 3}>>
Symmetry == Permutations(Callers)
=============================================================================
