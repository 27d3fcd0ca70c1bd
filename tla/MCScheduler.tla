---------------------------- MODULE MCScheduler ----------------------------
(* Instances of Scheduler for TLC.                                         *)
EXTENDS Scheduler, TLC

(* Two roots, a join, and one more level behind it.                        *)
JoinGraph == (1 :> {}) @@ (2 :> {}) @@ (3 :> {1, 2}) @@ (4 :> {3})
(* The DeterministicPlanner's chain, as long as the instance allows.       *)
Chain == (1 :> {}) @@ (2 :> {1}) @@ (3 :> {2}) @@ (4 :> {3})
CyclicGraph == (1 :> {}) @@ (2 :> {1, 4}) @@ (3 :> {2}) @@ (4 :> {3})
DanglingGraph == (1 :> {9}) @@ (2 :> {}) @@ (3 :> {}) @@ (4 :> {})

(* More roots than slots.                                                  *)
WideGraph == (1 :> {}) @@ (2 :> {}) @@ (3 :> {}) @@ (4 :> {1})

MCTasks == 1..4
MCGraphs == {JoinGraph, WideGraph, Chain, CyclicGraph, DanglingGraph}
MCChain == {Chain}

(* Task 1 retries its transient error once, task 2 names no attempts.      *)
MCMaxAttempts == [t \in MCTasks |-> IF t = 1 THEN 2 ELSE 0]
MCErrors == {"transient", "broken"}
MCRetryable == [t \in MCTasks |-> {"transient"}]
MCHasDeadline == {1}
MCResults == {"", "SUCCEEDED", "WAITING"}
============================================================================
