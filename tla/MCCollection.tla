----------------------------- MODULE MCCollection -----------------------------
(***************************************************************************)
(* Collection for TLC: two grid meters, which nothing tells apart.         *)
(***************************************************************************)
EXTENDS Collection, TLC

MeterSymmetry == Permutations(Meters)
=============================================================================
