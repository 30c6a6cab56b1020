-------------------------- MODULE MCTelemetryBridge --------------------------
(***************************************************************************)
(* TelemetryBridge for TLC.                                                *)
(***************************************************************************)
EXTENDS TelemetryBridge
=============================================================================
