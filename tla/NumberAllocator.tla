---------------------------- MODULE NumberAllocator ----------------------------
(***************************************************************************)
(* What the release ledger (scripts/release_state.py) promises: each run   *)
(* is issued one build number, larger than every number before it, for     *)
(* good; numbers are consumed by publications in an order that never goes  *)
(* back, and only numbers that were issued.                                *)
(***************************************************************************)
EXTENDS Naturals

CONSTANT Runs  \* runs of the release workflow

VARIABLES
    counter,  \* the largest number issued
    floor,    \* the largest number consumed
    issued    \* the number of each run, 0 for none

vars == <<counter, floor, issued>>

Init ==
    /\ counter = 0 /\ floor = 0
    /\ issued = [r \in Runs |-> 0]

Issue(r) ==
    /\ issued[r] = 0
    /\ counter' > counter
    /\ issued' = [issued EXCEPT ![r] = counter']
    /\ UNCHANGED floor

(* A promotion consumes the number of its release candidate again.         *)
Consume(r) ==
    /\ issued[r] >= floor /\ issued[r] # 0
    /\ floor' = issued[r]
    /\ UNCHANGED <<counter, issued>>

Next == \E r \in Runs : Issue(r) \/ Consume(r)

Spec == Init /\ [][Next]_vars
=============================================================================
