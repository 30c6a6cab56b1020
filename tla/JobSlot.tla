------------------------------- MODULE JobSlot -------------------------------
(***************************************************************************)
(* What the bridge promises its main loop about background collection: one *)
(* slot that holds at most one telemetry job.  A job is submitted, started *)
(* and finished, its result is handed back once, and the clients the job   *)
(* reads are closed once, after a stop, and never under a running job.     *)
(*                                                                         *)
(* PollWorker implements this specification.                               *)
(***************************************************************************)

VARIABLES
    slot,      \* "free", "queued", "running" or "ready"
    stopped,   \* the owner asked for a stop
    closed     \* the clients are closed

vars == <<slot, stopped, closed>>

TypeOK ==
    /\ slot \in {"free", "queued", "running", "ready"}
    /\ stopped \in BOOLEAN
    /\ closed \in BOOLEAN

Init ==
    /\ slot = "free"
    /\ stopped = FALSE
    /\ closed = FALSE

(* A job enters the slot only when the slot is free.                       *)
Submit ==
    /\ slot = "free"
    /\ slot' = "queued"
    /\ UNCHANGED <<stopped, closed>>

(* A job starts only while nobody asked for a stop.                        *)
Start ==
    /\ slot = "queued"
    /\ ~stopped
    /\ slot' = "running"
    /\ UNCHANGED <<stopped, closed>>

(* After a stop a job that has not started is dropped.                     *)
Discard ==
    /\ slot = "queued"
    /\ stopped
    /\ slot' = "free"
    /\ UNCHANGED <<stopped, closed>>

Finish ==
    /\ slot = "running"
    /\ slot' = "ready"
    /\ UNCHANGED <<stopped, closed>>

HandBack ==
    /\ slot = "ready"
    /\ slot' = "free"
    /\ UNCHANGED <<stopped, closed>>

Stop ==
    /\ ~stopped
    /\ stopped' = TRUE
    /\ UNCHANGED <<slot, closed>>

(* The clients are closed once, after a stop, never under a running job.   *)
Close ==
    /\ stopped
    /\ ~closed
    /\ slot # "running"
    /\ closed' = TRUE
    /\ UNCHANGED <<slot, stopped>>

Next == Submit \/ Start \/ Discard \/ Finish \/ HandBack \/ Stop \/ Close

Spec == Init /\ [][Next]_vars
=============================================================================
