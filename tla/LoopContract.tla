---------------------------- MODULE LoopContract ----------------------------
(***************************************************************************)
(* What an autonomous loop promises about its persisted row: the state     *)
(* machine of SUDA_FORGE_PRODUCTION_READINESS.md ("Autonomous Loop         *)
(* execution contract").  A loop runs its stages one checkpoint at a time, *)
(* ends COMPLETED only with every stage done, and a loop that stopped      *)
(* BLOCKED or FAILED, or was cut off RUNNING, is resumed from its last     *)
(* checkpoint.  COMPLETED is final.                                        *)
(***************************************************************************)
EXTENDS Integers

CONSTANTS Loops, NumStages

Stages == 1..NumStages

VARIABLES
  phase,   \* status of the persisted row; "NONE": no row
  done     \* the stages checkpointed as completed

contractVars == <<phase, done>>

Init ==
  /\ phase \in [Loops -> {"NONE", "RUNNING"}]
  /\ done = [l \in Loops |-> {}]

Resume(l) ==
  /\ phase[l] \in {"RUNNING", "BLOCKED", "FAILED"}
  /\ phase' = [phase EXCEPT ![l] = "RUNNING"]
  /\ UNCHANGED done

(* The first stage that is not done yet becomes done.                      *)
StageDone(l) ==
  /\ phase[l] = "RUNNING"
  /\ \E s \in Stages \ done[l] :
       /\ \A t \in Stages : t < s => t \in done[l]
       /\ done' = [done EXCEPT ![l] = done[l] \cup {s}]
  /\ UNCHANGED phase

Stop(l) ==
  /\ phase[l] = "RUNNING" /\ done[l] # Stages
  /\ \E p \in {"BLOCKED", "FAILED"} : phase' = [phase EXCEPT ![l] = p]
  /\ UNCHANGED done

Finish(l) ==
  /\ phase[l] = "RUNNING" /\ done[l] = Stages
  /\ phase' = [phase EXCEPT ![l] = "COMPLETED"]
  /\ UNCHANGED done

Next == \E l \in Loops : Resume(l) \/ StageDone(l) \/ Stop(l) \/ Finish(l)

Spec == Init /\ [][Next]_contractVars
=============================================================================
