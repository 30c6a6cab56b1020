------------------------------ MODULE MCShutdown ------------------------------
(***************************************************************************)
(* Shutdown, and with it MqttClient, for TLC.                              *)
(***************************************************************************)
EXTENDS Shutdown
=============================================================================
