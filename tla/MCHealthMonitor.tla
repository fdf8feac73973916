-------------------------- MODULE MCHealthMonitor --------------------------
(***************************************************************************)
(* Model-checking instance of HealthMonitor: two pods, a status port that  *)
(* is either 0 or 8080, the boundary codes 199, 200 and 300, two          *)
(* PodWatches per pod (so a pod can be removed and re-added) and two       *)
(* writes to the reality store.                                            *)
(***************************************************************************)
EXTENDS HealthMonitor, TLC

CONSTANTS a, b

MCIds == {a, b}
MCIdsOne == {a}
MCPorts == {0, 8080}
MCCodes == {199, 200, 300}
MCSymmetry == Permutations(MCIds)
=============================================================================
