-------------------------- MODULE MCMonitorService --------------------------
(* Two monitors of different intervals under two calls of the scheduler. *)
EXTENDS MonitorService, TLC

CONSTANTS m1, m2, w1, w2

MCInterval == m1 :> 1 @@ m2 :> 3
Symmetry == Permutations({w1, w2})
=============================================================================
