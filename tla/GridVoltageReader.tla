--------------------------- MODULE GridVoltageReader ---------------------------
(***************************************************************************)
(* The grid voltage source (dbus_evcharger/voltage.py): find a grid meter  *)
(* on the bus, read both phases of it, forget it when neither answers.     *)
(*                                                                         *)
(* Each read is a dbus-send process with a timeout.  The bus is external:  *)
(* a phase answers with a finite positive voltage or does not, whatever it *)
(* did before.  A voltage is the meter it is of and the time of its read.  *)
(***************************************************************************)
EXTENDS Integers

CONSTANTS
    Meters,   \* the com.victronenergy.grid.* services
    NoMeter,  \* not one of them
    Interval  \* time between two discoveries

VARIABLES
    now,            \* time.monotonic()
    gridService,    \* GridVoltageReader._grid_service
    nextDiscovery,  \* GridVoltageReader._next_discovery
    gridStep,       \* what read() does next, "idle" when it has returned
    l1,             \* the voltage of the first phase in read()
    volts,          \* what the last read() returned, per phase
    lastDiscovery   \* history: when the last discovery began

gridVars == <<gridService, nextDiscovery, gridStep, l1, volts, lastDiscovery>>

NoVolt == [meter |-> NoMeter, at |-> -1]
NoVolts == [phase \in {1, 2} |-> NoVolt]

(* What _read_dbus can return for a phase of a meter.                      *)
Answers(meter) == {NoVolt, [meter |-> meter, at |-> now]}

GridInit ==
    /\ gridService = NoMeter /\ nextDiscovery = 0
    /\ gridStep = "idle"
    /\ l1 = NoVolt /\ volts = NoVolts
    /\ lastDiscovery = -Interval

-------------------------------------------------------------------------------
(* No meter is known and it is too early to look for one.                  *)
ReadNothing ==
    /\ gridStep = "idle"
    /\ gridService = NoMeter /\ now < nextDiscovery
    /\ volts' = NoVolts
    /\ UNCHANGED <<gridService, nextDiscovery, gridStep, l1, lastDiscovery>>

ReadKnown ==
    /\ gridStep = "idle"
    /\ gridService # NoMeter
    /\ gridStep' = "l1"
    /\ UNCHANGED <<gridService, nextDiscovery, l1, volts, lastDiscovery>>

StartDiscovery ==
    /\ gridStep = "idle"
    /\ gridService = NoMeter /\ now >= nextDiscovery
    /\ nextDiscovery' = now + Interval
    /\ lastDiscovery' = now
    /\ gridStep' = "discover"
    /\ UNCHANGED <<gridService, l1, volts>>

(* Mutated: only a discovery that finds nothing is throttled.              *)
DiscoverResets ==
    /\ gridStep = "discover"
    /\ \E meter \in Meters :
         gridService' = meter /\ gridStep' = "l1" /\ nextDiscovery' = now
    /\ UNCHANGED <<l1, volts, lastDiscovery>>

(* The first listed meter whose first phase answers, or none: the list     *)
(* cannot be had, or no meter on it answers.                               *)
Discover ==
    /\ gridStep = "discover"
    /\ \/ \E meter \in Meters : gridService' = meter /\ gridStep' = "l1" /\ UNCHANGED volts
       \/ gridStep' = "idle" /\ volts' = NoVolts /\ UNCHANGED gridService
    /\ UNCHANGED <<nextDiscovery, l1, lastDiscovery>>

ReadL1 ==
    /\ gridStep = "l1"
    /\ l1' \in Answers(gridService)
    /\ gridStep' = "l2"
    /\ UNCHANGED <<gridService, nextDiscovery, volts, lastDiscovery>>

(* Mutated: a phase without an answer keeps the voltage it had.            *)
ReadL2Keeping ==
    /\ gridStep = "l2"
    /\ \E l2 \in Answers(gridService) :
         /\ volts' = [volts EXCEPT ![1] = IF l1 = NoVolt THEN @ ELSE l1,
                                   ![2] = IF l2 = NoVolt THEN @ ELSE l2]
         /\ gridService' = IF l1 = NoVolt /\ l2 = NoVolt THEN NoMeter ELSE gridService
    /\ gridStep' = "idle" /\ l1' = NoVolt
    /\ UNCHANGED <<nextDiscovery, lastDiscovery>>

(* Both phases are returned as they were read; a meter of which neither    *)
(* answered is forgotten.                                                  *)
ReadL2 ==
    /\ gridStep = "l2"
    /\ \E l2 \in Answers(gridService) :
         /\ volts' = [phase \in {1, 2} |-> IF phase = 1 THEN l1 ELSE l2]
         /\ gridService' = IF l1 = NoVolt /\ l2 = NoVolt THEN NoMeter ELSE gridService
    /\ gridStep' = "idle" /\ l1' = NoVolt
    /\ UNCHANGED <<nextDiscovery, lastDiscovery>>

GridNext == ReadNothing \/ ReadKnown \/ StartDiscovery \/ Discover \/ ReadL1 \/ ReadL2

-------------------------------------------------------------------------------
(* Properties.                                                             *)

Voltages == {NoVolt} \union [meter : Meters, at : 0..now]

GridTypeOK ==
    /\ gridService \in Meters \union {NoMeter}
    /\ nextDiscovery \in 0..now + Interval
    /\ gridStep \in {"idle", "discover", "l1", "l2"}
    /\ l1 \in Voltages
    /\ volts \in [{1, 2} -> Voltages]
    /\ lastDiscovery \in {-Interval} \union 0..now

(* The voltages of the two phases never come from two meters, even when    *)
(* the meter dies, is forgotten and another one is found.                  *)
OneMeter ==
    \A a, b \in {l1, volts[1], volts[2]} \ {NoVolt} : gridStep = "idle" => a.meter = b.meter

(* However often a meter is lost and found, discoveries, which start a     *)
(* process for every name on the bus, begin at least an interval apart.    *)
DiscoveriesAreSpaced ==
    [][lastDiscovery' # lastDiscovery => now - lastDiscovery >= Interval]_gridVars

(* The inductive invariant: a discovery sets the time of the next one,     *)
(* there is a meter to read where read() reads one, and what it holds of   *)
(* the first phase, and what it returned, is of one meter.                 *)
GridIInv ==
    /\ GridTypeOK
    /\ nextDiscovery = lastDiscovery + Interval
    /\ gridStep = "discover" => gridService = NoMeter
    /\ gridStep \in {"l1", "l2"} => gridService # NoMeter
    /\ gridStep # "l2" => l1 = NoVolt
    /\ l1 # NoVolt => l1.meter = gridService
    /\ volts[1] # NoVolt /\ volts[2] # NoVolt => volts[1].meter = volts[2].meter
=============================================================================
