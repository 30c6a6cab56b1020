---------------------------- MODULE MCVersionBuild ----------------------------
(***************************************************************************)
(* VersionBuild for TLC: a beta and two release candidates, which are      *)
(* packaged under the base version.                                        *)
(***************************************************************************)
EXTENDS VersionBuild, TLC
PackageOf == "beta.2" :> 1 @@ "rc.1" :> 0 @@ "rc.2" :> 0
=============================================================================
