----------------------------- MODULE MCPollWorker -----------------------------
(***************************************************************************)
(* PollWorker for TLC: two signals, so that the second can preempt the     *)
(* handler of the first at each of its steps.                              *)
(***************************************************************************)
EXTENDS PollWorker
=============================================================================
