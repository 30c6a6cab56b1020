---------------------------- MODULE FreshTelemetry ----------------------------
(***************************************************************************)
(* What a reader of the D-Bus service may rely on: every item it shows     *)
(* was acquired less than the item's limit ago.  The publisher may change  *)
(* what is shown at any time, but time cannot pass an item's limit while   *)
(* the item is shown.                                                      *)
(*                                                                         *)
(* TelemetryBridge implements this specification.                          *)
(***************************************************************************)
EXTENDS Integers

CONSTANTS
    Sources,  \* where an item can come from
    Limit     \* for each source, the age its items must not reach

VARIABLES
    now,    \* the clock
    shown   \* the items on the bus: records of a source and an acquisition time

vars == <<now, shown>>

Young(item) == now - item.at < Limit[item.source]

Init == now = 0 /\ shown = {}

Publish ==
    /\ shown' \in SUBSET [source : Sources, at : 0..now]
    /\ \A item \in shown' : Young(item)
    /\ now' = now

(* An item that reaches its limit is withdrawn at that very instant.       *)
Advance ==
    /\ \A item \in shown : Young(item)
    /\ now' = now + 1
    /\ shown' = shown

Next == Publish \/ Advance

Spec == Init /\ [][Next]_vars
=============================================================================
