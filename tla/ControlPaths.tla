----------------------------- MODULE ControlPaths -----------------------------
(***************************************************************************)
(* Control paths of the D-Bus service: how App._handle_control_paths       *)
(* mirrors the start/stop and set current of the source.                   *)
(*                                                                         *)
(* Currents are multiples of a unit in which the tolerance of 0.1 A is a   *)
(* whole number.                                                           *)
(* No source has a "mode", so /Mode keeps its default.  Nothing else       *)
(* writes these paths: a write over D-Bus raises in the callbacks that     *)
(* build_service installs, which take one argument and are given two.      *)
(***************************************************************************)
EXTENDS Integers

CONSTANTS
    MaxCurrent,    \* config.DEFAULT_MAX_CURRENT
    Tolerance,     \* 0.1 A
    Setpoints,     \* currents a source may ask for
    SwitchEntity,  \* is the start/stop entity a switch
    None           \* no value

ASSUME ConstantsAssumption ==
    /\ MaxCurrent \in Nat /\ Tolerance \in Nat
    /\ Setpoints \subseteq Int
    /\ SwitchEntity \in BOOLEAN
    /\ None \notin Int

VARIABLES
    source,   \* what the source says: the start/stop state and the set current
    seen,     \* history: the source when it was last published
    last,     \* _last_commanded_startstop and _last_commanded_setcurrent
    bus       \* /StartStop and /SetCurrent

vars == <<source, seen, last, bus>>

StartStopStates ==
    IF SwitchEntity THEN {"on", "off", "unavailable"} ELSE {"1", "0", "unavailable"}

Source == [startstop : StartStopStates, setcurrent : Setpoints \union {None}]
Unknown == [startstop |-> "unavailable", setcurrent |-> None]

Init ==
    /\ source = Unknown /\ seen = Unknown
    /\ last = [startstop |-> None, setcurrent |-> None]
    /\ bus = [startstop |-> 0, setcurrent |-> 0]

-------------------------------------------------------------------------------
(* The start/stop value of a snapshot: HaClient.poll's _i takes numbers    *)
(* only.                                                                   *)
ParsedStartStop(state) ==
    CASE state = "1" -> 1
      [] state = "0" -> 0
      [] OTHER -> None

(* Mutated: a stop, which is falsy, is not mirrored.                       *)
StartStopDueTruthy ==
    LET wanted == ParsedStartStop(source.startstop)
    IN  wanted \notin {None, 0} /\ wanted # last.startstop

(* The source wants a start/stop other than the one mirrored last.         *)
StartStopDue ==
    LET wanted == ParsedStartStop(source.startstop)
    IN  wanted # None /\ wanted # last.startstop

Distance(a, b) == IF a > b THEN a - b ELSE b - a

(* The distance exceeds 0.1 A.  Whether one of exactly 0.1 A does depends  *)
(* on the rounding of the binary subtraction.                              *)
Exceeds(distance, roundedUp) ==
    distance > Tolerance \/ (distance = Tolerance /\ roundedUp)

(* Mutated: the new value is compared with the previous one.               *)
SetCurrentDueSincePrevious(roundedUp) ==
    LET wanted == source.setcurrent
        before == IF seen.setcurrent = None THEN 0 ELSE seen.setcurrent
    IN  /\ wanted # None
        /\ 0 <= wanted /\ wanted <= MaxCurrent
        /\ Exceeds(Distance(wanted, before), roundedUp)

(* A set current in range, away from the one mirrored last.                *)
SetCurrentDue(roundedUp) ==
    LET wanted == source.setcurrent
        before == IF last.setcurrent = None THEN 0 ELSE last.setcurrent
    IN  /\ wanted # None
        /\ 0 <= wanted /\ wanted <= MaxCurrent
        /\ Exceeds(Distance(wanted, before), roundedUp)

Mirrored(paths, roundedUp) ==
    [startstop |-> IF StartStopDue THEN ParsedStartStop(source.startstop)
                                   ELSE paths.startstop,
     setcurrent |-> IF SetCurrentDue(roundedUp) THEN source.setcurrent
                                                ELSE paths.setcurrent]

HandleControlPaths(roundedUp) ==
    /\ bus' = Mirrored(bus, roundedUp)
    /\ last' = Mirrored(last, roundedUp)
    /\ seen' = source
    /\ UNCHANGED source

(* The source publishes something else.                                    *)
SourceChanges ==
    /\ source' \in Source
    /\ UNCHANGED <<seen, last, bus>>

(* The process is restarted by its supervisor.                             *)
Restart ==
    /\ seen' = Unknown
    /\ last' = [startstop |-> None, setcurrent |-> None]
    /\ bus' = [startstop |-> 0, setcurrent |-> 0]
    /\ UNCHANGED source

Next ==
    \/ \E roundedUp \in BOOLEAN : HandleControlPaths(roundedUp)
    \/ SourceChanges
    \/ Restart

Spec == Init /\ [][Next]_vars

-------------------------------------------------------------------------------
(* Properties.                                                             *)

TypeOK ==
    /\ source \in Source /\ seen \in Source
    /\ last \in [startstop : {0, 1, None}, setcurrent : 0..MaxCurrent \union {None}]
    /\ bus \in [startstop : {0, 1}, setcurrent : 0..MaxCurrent]

(* However slowly the source drifts, and whatever it showed in between,    *)
(* /SetCurrent is within the tolerance of the last value published, unless *)
(* that value is out of range.                                             *)
SetpointMirrored ==
    seen.setcurrent # None /\ 0 <= seen.setcurrent /\ seen.setcurrent <= MaxCurrent
        => Distance(bus.setcurrent, seen.setcurrent) <= Tolerance

(* What the state of a start/stop entity means.                            *)
Meaning(state) ==
    CASE state \in {"1", "on"} -> 1
      [] state \in {"0", "off"} -> 0
      [] OTHER -> None

(* "Configured HA/MQTT start/stop and current values are mirrored into the *)
(* D-Bus control paths": /StartStop follows the start/stop entity.         *)
StartStopMirrored ==
    Meaning(seen.startstop) # None => bus.startstop = Meaning(seen.startstop)

(* The inductive invariant: what was mirrored last is what the bus shows,  *)
(* or nothing was and the bus shows the default; numeric start/stop states *)
(* are followed.                                                           *)
IInv ==
    /\ TypeOK
    /\ SetpointMirrored
    /\ ~SwitchEntity => StartStopMirrored
    /\ last.startstop = None => bus.startstop = 0
    /\ last.startstop # None => bus.startstop = last.startstop
    /\ last.setcurrent = None => bus.setcurrent = 0
    /\ last.setcurrent # None => bus.setcurrent = last.setcurrent
=============================================================================
