------------------------------ MODULE Collection ------------------------------
(***************************************************************************)
(* A collection of the poll worker (App._collect_snapshot of               *)
(* dbus_evcharger/main.py): the Home Assistant poll, then the grid         *)
(* voltages, merged into one snapshot.  Time passes between any two steps. *)
(***************************************************************************)
EXTENDS HaClient

CONSTANTS Meters, NoMeter, Interval  \* of GridVoltageReader

ASSUME GridAssumption ==
    /\ NoMeter \notin Meters
    /\ Interval \in Nat \ {0}

VARIABLES
    gridService, nextDiscovery, gridStep, l1, volts, lastDiscovery,
    stage,     \* where the collection is, "waiting" between two of them
    snapshot,  \* the last snapshot returned
    started    \* when its collection began: PollWorker hands it out with it

Grid == INSTANCE GridVoltageReader

gridVars == <<gridService, nextDiscovery, gridStep, l1, volts, lastDiscovery>>
collectVars == <<stage, snapshot, started>>
allVars == <<vars, gridVars, collectVars>>

NoSnapshot == [charger |-> None, volts |-> Grid!NoVolts]

CollectionInit ==
    /\ Init
    /\ Grid!GridInit
    /\ stage = "waiting" /\ snapshot = NoSnapshot /\ started = 0

CollectStart ==
    /\ stage = "waiting"
    /\ stage' = "ha" /\ started' = now
    /\ UNCHANGED <<snapshot, vars, gridVars>>

(* ha_client.poll(), in its own steps.                                     *)
CollectHa ==
    /\ stage = "ha"
    /\ PollRefused \/ PollRequest \/ (\E values \in {None, now} : RequestOk(values)) \/ RequestFail
    /\ stage' = IF pc' = "idle" THEN "grid" ELSE "ha"
    /\ UNCHANGED <<snapshot, started, gridVars>>

(* voltage_reader.read(), in its own steps.                                *)
CollectGrid ==
    /\ stage = "grid"
    /\ Grid!GridNext
    /\ stage' = IF gridStep' = "idle" THEN "merge" ELSE "grid"
    /\ UNCHANGED <<snapshot, started, vars>>

(* Mutated: last-known values are taken for a result.                      *)
MergedTrusting == [charger |-> result.values, volts |-> volts]

(* Charger values count only when the poll succeeded.                      *)
Merged == [charger |-> IF result.ok THEN result.values ELSE None, volts |-> volts]

CollectEnd ==
    /\ stage = "merge"
    /\ stage' = "waiting"
    /\ snapshot' = Merged
    /\ UNCHANGED <<started, vars, gridVars>>

TimePasses == Tick /\ UNCHANGED <<gridVars, collectVars>>

CollectionNext ==
    \/ CollectStart \/ CollectHa \/ CollectGrid \/ CollectEnd
    \/ TimePasses

CollectionSpec == CollectionInit /\ [][CollectionNext]_allVars

-------------------------------------------------------------------------------
(* Properties.                                                             *)

(* Nothing in a snapshot was acquired before its collection began, through *)
(* all of the last-known values, the breaker and the cached meter: so the  *)
(* age the main loop counts from that time bounds the age of all it shows. *)
CollectedSinceStart ==
    stage = "waiting" =>
        /\ snapshot.charger # None => snapshot.charger >= started
        /\ \A phase \in {1, 2} :
             snapshot.volts[phase] # Grid!NoVolt => snapshot.volts[phase].at >= started

(* The voltages of one poll come from one meter (GridVoltageReader).       *)
OneMeter == Grid!OneMeter

(* Discoveries begin at least an interval apart (GridVoltageReader).       *)
DiscoveriesAreSpaced == Grid!DiscoveriesAreSpaced

(* The inductive invariant: what a collection has of Home Assistant once   *)
(* that poll is over, and of the meter while it reads it, it has read      *)
(* itself; last-known values and the voltages of the read before are       *)
(* still around, but not where the merge takes its own from.               *)
CollectionTypeOK ==
    /\ stage \in {"waiting", "ha", "grid", "merge"}
    /\ started \in 0..now
    /\ snapshot \in [charger : {None} \union 0..now, volts : [{1, 2} -> Grid!Voltages]]

Since(volt) == volt # Grid!NoVolt => volt.at >= started

HaRead ==
    /\ pc = "request" => stage = "ha" /\ pollStart >= started
    /\ stage \in {"grid", "merge"} => pollStart >= started

GridRead ==
    /\ gridStep # "idle" => stage = "grid"
    /\ Since(l1)
    /\ stage = "merge" => Since(volts[1]) /\ Since(volts[2])

CollectionIInv ==
    /\ IInv
    /\ Grid!GridIInv
    /\ CollectionTypeOK
    /\ HaRead
    /\ GridRead
    /\ CollectedSinceStart
=============================================================================
