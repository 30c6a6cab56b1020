--------------------------- MODULE MCPrepareVersion ---------------------------
(***************************************************************************)
(* PrepareVersion for TLC: overlapping runs for the next patch and for a    *)
(* version further on.                                                     *)
(***************************************************************************)
EXTENDS PrepareVersion, TLC
CONSTANTS p1, p2
RequestsOf == p1 :> {NextPatch, 3} @@ p2 :> {2, 3}
=============================================================================
