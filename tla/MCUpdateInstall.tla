---------------------------- MODULE MCUpdateInstall ----------------------------
(***************************************************************************)
(* UpdateInstall for TLC.                                                  *)
(***************************************************************************)
EXTENDS UpdateInstall
=============================================================================
