---------------------------- MODULE MCServicePaths ----------------------------
(***************************************************************************)
(* ServicePaths for TLC.  The unit is 0.1 A: a source can drift in steps   *)
(* of exactly the tolerance, which may or may not exceed it.               *)
(***************************************************************************)
EXTENDS ServicePaths

MCSetpoints == {-1, 0, 1, 2, 3, 5}
===============================================================================
