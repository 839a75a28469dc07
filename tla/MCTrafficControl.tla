-------------------------- MODULE MCTrafficControl --------------------------
(***************************************************************************)
(* Constants of the runs of TrafficControl: small services, with the       *)
(* breakers and activators each run needs.                                 *)
(***************************************************************************)
EXTENDS TrafficControl, TLC

CONSTANTS p1, p2, p3, b1, b2, a1, a2

Count0 == [b \in Breakers |-> 0]
Count1 == [b \in Breakers |-> 1]
Ratio0 == [b \in Breakers |-> 0]
Ratio75 == [b \in Breakers |-> 75]

AllPeriodic == [a \in Activators |-> "periodic"]
AllKill == [a \in Activators |-> "retryAndKill"]
AllPause == [a \in Activators |-> "retryAndPause"]
PauseAndKill == [a \in Activators |-> IF a = a1 THEN "retryAndPause" ELSE "retryAndKill"]

DefaultOnly == [a \in Activators |-> NoStrategy]
OnePerBreaker == [a \in Activators |-> IF a = a1 THEN b1 ELSE b2]

Period2 == [a \in Activators |-> 2]
Retry0 == [a \in Activators |-> 0]
Retry1 == [a \in Activators |-> 1]
Retry2 == [a \in Activators |-> 2]
Pause1 == [a \in Activators |-> 1]

PodSymmetry == Permutations(Pods)
=============================================================================
