----------------------------- MODULE ServicePaths -----------------------------
(***************************************************************************)
(* What the D-Bus service shows of a snapshot: App._publish_snapshot sets  *)
(* one path after the other, each with a signal of its own, and ends with  *)
(* the control paths.                                                      *)
(*                                                                         *)
(* A path shows nothing (None), the default it was created with, or a      *)
(* reading, of which only the age is kept: 0 for the publication under way *)
(* or just completed, 1 for the one before it, 2 for any older one.  Only  *)
(* what a source can have is modelled; "current" stands for the optional   *)
(* readings that are shown as they come (energy and session time, too).    *)
(***************************************************************************)
EXTENDS ControlPaths, Sequences

VARIABLES
    phases,     \* config.DEFAULT_NR_OF_PHASES of this process
    snap,       \* the snapshot that is published
    next,       \* the path that is set next; 0: none
    connected,  \* /Connected
    shown,      \* what each measurement path shows
    complete    \* history: has a publication been completed, and none begun since

controlVars == <<source, seen, last, bus>>
measureVars == <<phases, snap, next, connected, shown, complete>>
serviceVars == <<source, seen, last, bus, phases, snap, next, connected, shown, complete>>

Lines == {"L1", "L2"}
Default == -1

(* The paths in the order in which update_charging sets them, and in which *)
(* they are withdrawn.                                                     *)
Order == <<
    <<"charger", "status">>, <<"charger", "current">>, <<"charger", "power">>,
    <<"L1", "power">>, <<"L1", "voltage">>, <<"L1", "current">>,
    <<"L2", "power">>, <<"L2", "voltage">>, <<"L2", "current">> >>
Paths == {Order[i] : i \in DOMAIN Order}
Control == Len(Order) + 1

(* A usable snapshot has status and power; a voltage is known or not, and  *)
(* above 50 V or not.                                                      *)
Snapshots == [usable : {TRUE}, current : BOOLEAN, volts : [Lines -> {"none", "low", "high"}]]
Unusable == [usable |-> FALSE, current |-> FALSE, volts |-> [l \in Lines |-> "none"]]

ServiceInit ==
    /\ Init
    /\ phases \in {1, 2}
    /\ snap = Unusable /\ next = 0 /\ connected = FALSE
    /\ shown = [p \in Paths |-> Default]
    /\ complete = FALSE

-------------------------------------------------------------------------------
LinePower(line) == line = "L1" \/ phases = 2

(* Does the snapshot have a reading for a path, its own or an estimate:    *)
(* power is shared equally between the lines, the current of a line is     *)
(* its power over its voltage.                                             *)
HasReading(path) ==
    snap.usable /\
    CASE path[2] \in {"status", "power"} -> path[1] \notin Lines \/ LinePower(path[1])
      [] path = <<"charger", "current">> -> snap.current
      [] path[2] = "voltage" -> snap.volts[path[1]] # "none"
      [] OTHER -> LinePower(path[1]) /\ snap.volts[path[1]] = "high"

(* A publication begins with /Connected.                                   *)
Publish(snapshot) ==
    /\ next = 0
    /\ next' = 1
    /\ snap' = snapshot
    /\ connected' = snapshot.usable
    /\ shown' = [p \in Paths |-> IF shown[p] \in {0, 1} THEN shown[p] + 1 ELSE shown[p]]
    /\ complete' = FALSE
    /\ UNCHANGED <<controlVars, phases>>

(* Mutated: a missing optional reading leaves its path alone.              *)
SetPathPresent ==
    /\ next \in DOMAIN Order
    /\ shown' = [shown EXCEPT ![Order[next]] =
                     IF HasReading(Order[next]) THEN 0
                     ELSE IF snap.usable /\ Order[next][2] = "current" THEN @ ELSE None]
    /\ next' = IF next < Len(Order) \/ snap.usable THEN next + 1 ELSE 0
    /\ complete' = (next' = 0)
    /\ UNCHANGED <<controlVars, phases, snap, connected>>

(* Mutated: a withdrawal leaves the voltages.                              *)
SetPathKeepingVolts ==
    /\ next \in DOMAIN Order
    /\ shown' = [shown EXCEPT ![Order[next]] =
                     IF HasReading(Order[next]) THEN 0
                     ELSE IF ~snap.usable /\ Order[next][2] = "voltage" THEN @ ELSE None]
    /\ next' = IF next < Len(Order) \/ snap.usable THEN next + 1 ELSE 0
    /\ complete' = (next' = 0)
    /\ UNCHANGED <<controlVars, phases, snap, connected>>

(* The next path gets its reading, or None; without a usable source no     *)
(* control path is looked at.                                              *)
SetPath ==
    /\ next \in DOMAIN Order
    /\ shown' = [shown EXCEPT ![Order[next]] = IF HasReading(Order[next]) THEN 0 ELSE None]
    /\ next' = IF next < Len(Order) \/ snap.usable THEN next + 1 ELSE 0
    /\ complete' = (next' = 0)
    /\ UNCHANGED <<controlVars, phases, snap, connected>>

(* Control fields are part of the snapshot; nothing reads them earlier.    *)
ControlFields ==
    /\ next = Control
    /\ SourceChanges
    /\ UNCHANGED measureVars

(* The last step of a publication: start/stop and set current, if due.     *)
SetControlPaths(roundedUp) ==
    /\ next = Control
    /\ HandleControlPaths(roundedUp)
    /\ next' = 0 /\ complete' = TRUE
    /\ UNCHANGED <<phases, snap, connected, shown>>

(* The supervisor restarts the process, which builds a new service, with a *)
(* changed configuration perhaps.                                          *)
ServiceRestart ==
    /\ Restart
    /\ phases' \in {1, 2}
    /\ snap' = Unusable /\ next' = 0 /\ connected' = FALSE
    /\ shown' = [p \in Paths |-> Default]
    /\ complete' = FALSE

ServiceNext ==
    \/ \E snapshot \in Snapshots \union {Unusable} : Publish(snapshot)
    \/ SetPath
    \/ ControlFields
    \/ \E roundedUp \in BOOLEAN : SetControlPaths(roundedUp)
    \/ ServiceRestart

ServiceSpec == ServiceInit /\ [][ServiceNext]_serviceVars

-------------------------------------------------------------------------------
(* Properties.                                                             *)

ServiceTypeOK ==
    /\ phases \in {1, 2}
    /\ snap \in Snapshots \union {Unusable}
    /\ next \in 0..Control
    /\ connected \in BOOLEAN /\ complete \in BOOLEAN
    /\ shown \in [Paths -> {None, Default, 0, 1, 2}]

(* Who follows the signals path by path, and so meets publications half    *)
(* written, never meets under /Connected a reading older than the          *)
(* publication before this one: none survives a withdrawal, a change of    *)
(* the source or the loss of an optional value.                            *)
NoOldReadings == connected => \A p \in Paths : shown[p] # 2

(* Every completed publication is one snapshot's: its readings and nothing *)
(* besides, or no reading when /Connected is withdrawn.                    *)
OneSnapshotShown ==
    complete => \A p \in Paths : shown[p] = None \/ (connected /\ shown[p] = 0)

(* Whatever the measurements do, the control paths are those of            *)
(* ControlPaths: unusable snapshots and publications cut off leave them.   *)
ImplementsControlPaths == Spec

(* The inductive invariant: the paths set so far are the snapshot's, those *)
(* to be set are at most one publication old.                              *)
SetSoFar ==
    \A i \in DOMAIN Order : i < next =>
        shown[Order[i]] = None \/ (connected /\ shown[Order[i]] = 0)
ToBeSet == next # 0 => \A i \in DOMAIN Order : i >= next => shown[Order[i]] \in {None, Default, 1}
Untouched == next = 0 /\ ~complete => \A p \in Paths : shown[p] = Default
Flags ==
    /\ connected = snap.usable
    /\ complete => next = 0
    /\ next = Control => connected
ServiceIInv == ServiceTypeOK /\ OneSnapshotShown /\ SetSoFar /\ ToBeSet /\ Untouched /\ Flags
===============================================================================
