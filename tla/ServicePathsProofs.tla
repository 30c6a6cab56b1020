-------------------------- MODULE ServicePathsProofs --------------------------
(***************************************************************************)
(* Proofs about ControlPaths and ServicePaths, for every limit, tolerance  *)
(* and setpoint: the control paths follow the source, by themselves and as *)
(* the last step of a publication, and no listener meets an old reading.   *)
(***************************************************************************)
EXTENDS ServicePaths, TLAPS

-------------------------------------------------------------------------------
(* ControlPaths.                                                           *)

(* What a start/stop state is read as.                                     *)
LEMMA ParsedType ==
  ASSUME NEW state
  PROVE  ParsedStartStop(state) \in {0, 1, None}
  BY DEF ParsedStartStop

(* A set current is mirrored only when it is a number in range.            *)
LEMMA SetCurrentDueInRange ==
  ASSUME source \in Source, NEW roundedUp \in BOOLEAN, SetCurrentDue(roundedUp)
  PROVE  source.setcurrent \in 0..MaxCurrent /\ source.setcurrent # None
<1>1. source.setcurrent \in Int \union {None}
  BY ConstantsAssumption DEF Source
<1> QED
  BY <1>1, ConstantsAssumption DEF SetCurrentDue, Exceeds

(* A set current in range that is not due is within the tolerance of the   *)
(* value mirrored last.                                                    *)
LEMMA NotDueIsNear ==
  ASSUME source \in Source, NEW roundedUp \in BOOLEAN, ~SetCurrentDue(roundedUp),
         source.setcurrent # None,
         0 <= source.setcurrent, source.setcurrent <= MaxCurrent,
         NEW held \in 0..MaxCurrent,
         held = IF last.setcurrent = None THEN 0 ELSE last.setcurrent
  PROVE  Distance(held, source.setcurrent) <= Tolerance
<1>1. source.setcurrent \in Int
  BY ConstantsAssumption DEF Source
<1>2. Distance(source.setcurrent, held) <= Tolerance
  BY <1>1, ConstantsAssumption DEF SetCurrentDue, Exceeds, Distance
<1> QED
  BY <1>1, <1>2, ConstantsAssumption DEF Distance

LEMMA InitIInv == Init => IInv
  BY ConstantsAssumption
  DEF Init, IInv, TypeOK, Source, Unknown, StartStopStates, SetpointMirrored,
      StartStopMirrored, Meaning

(* The bus shows what was mirrored last and stays near what the source     *)
(* published last: comparing with the value mirrored, not with the one     *)
(* seen before, is what makes this inductive.                              *)
LEMMA StepIInv == IInv /\ [Next]_vars => IInv'
<1> SUFFICES ASSUME IInv, [Next]_vars PROVE IInv'
  OBVIOUS
<1>1. ASSUME NEW roundedUp \in BOOLEAN, HandleControlPaths(roundedUp) PROVE IInv'
  <2> USE <1>1 DEF HandleControlPaths
  <2>1. TypeOK'
    BY ConstantsAssumption, ParsedType, SetCurrentDueInRange
    DEF IInv, TypeOK, Mirrored, StartStopDue
  <2>2. SetpointMirrored'
    <3> SUFFICES ASSUME source.setcurrent # None,
                        0 <= source.setcurrent, source.setcurrent <= MaxCurrent
                 PROVE  Distance(bus'.setcurrent, source.setcurrent) <= Tolerance
      BY DEF SetpointMirrored, Distance
    <3>1. CASE SetCurrentDue(roundedUp)
      <4>1. bus'.setcurrent = source.setcurrent /\ source.setcurrent \in Int
        BY <3>1, SetCurrentDueInRange, ConstantsAssumption DEF Mirrored, IInv, TypeOK
      <4> QED
        BY <4>1, ConstantsAssumption DEF Distance
    <3>2. CASE ~SetCurrentDue(roundedUp)
      <4>1. bus'.setcurrent = bus.setcurrent
        BY <3>2 DEF Mirrored
      <4>2. /\ bus.setcurrent \in 0..MaxCurrent
            /\ bus.setcurrent = IF last.setcurrent = None THEN 0 ELSE last.setcurrent
        BY DEF IInv, TypeOK
      <4> QED
        BY <3>2, <4>1, <4>2, NotDueIsNear DEF IInv, TypeOK
    <3> QED
      BY <3>1, <3>2
  <2>3. /\ (last.startstop = None => bus.startstop = 0)'
        /\ (last.startstop # None => bus.startstop = last.startstop)'
    BY ConstantsAssumption, ParsedType DEF IInv, TypeOK, Mirrored, StartStopDue
  <2>4. /\ (last.setcurrent = None => bus.setcurrent = 0)'
        /\ (last.setcurrent # None => bus.setcurrent = last.setcurrent)'
    BY ConstantsAssumption, SetCurrentDueInRange DEF IInv, TypeOK, Mirrored
  <2>5. ASSUME ~SwitchEntity PROVE StartStopMirrored'
    <3>1. source.startstop \in {"1", "0", "unavailable"}
      BY <2>5 DEF IInv, TypeOK, Source, StartStopStates
    <3>2. Meaning(source.startstop) = ParsedStartStop(source.startstop)
      BY <3>1 DEF Meaning, ParsedStartStop
    <3>3. ParsedStartStop(source.startstop) # None
            => bus'.startstop = ParsedStartStop(source.startstop)
      BY ParsedType DEF Mirrored, StartStopDue, IInv, TypeOK
    <3> QED
      BY <3>2, <3>3 DEF StartStopMirrored
  <2> QED
    BY <2>1, <2>2, <2>3, <2>4, <2>5 DEF IInv
<1>2. CASE SourceChanges
  BY <1>2 DEF SourceChanges, IInv, TypeOK, SetpointMirrored, Distance, StartStopMirrored
<1>3. CASE Restart
  BY <1>3, ConstantsAssumption
  DEF Restart, IInv, TypeOK, SetpointMirrored, Unknown, Source, StartStopStates,
      StartStopMirrored, Meaning
<1>4. CASE UNCHANGED vars
  BY <1>4 DEF vars, IInv, TypeOK, SetpointMirrored, Distance, StartStopMirrored
<1> QED
  BY <1>1, <1>2, <1>3, <1>4 DEF Next

(* The inductive invariant holds in every reachable state.                 *)
THEOREM Invariance == Spec => []IInv
  BY InitIInv, StepIInv, PTL DEF Spec

(* Types; in particular /SetCurrent never leaves the configured range.     *)
THEOREM TypeCorrectness == Spec => []TypeOK
<1>1. IInv => TypeOK
  BY DEF IInv
<1> QED
  BY <1>1, Invariance, PTL

(* /SetCurrent follows the source within the tolerance, however the source *)
(* drifts.                                                                 *)
THEOREM SetpointFollows == Spec => []SetpointMirrored
<1>1. IInv => SetpointMirrored
  BY DEF IInv
<1> QED
  BY <1>1, Invariance, PTL

(* /StartStop follows a start/stop entity whose states are numbers.        *)
THEOREM StartStopFollows == ~SwitchEntity /\ Spec => []StartStopMirrored
<1>1. ~SwitchEntity /\ IInv => StartStopMirrored
  BY DEF IInv
<1>2. CASE SwitchEntity
  BY <1>2, PTL
<1>3. CASE ~SwitchEntity
  BY <1>1, <1>3, Invariance, PTL
<1> QED
  BY <1>2, <1>3

-------------------------------------------------------------------------------
(* ServicePaths.                                                           *)

(* The order names nine paths, none of them twice.                         *)
LEMMA OrderLength == DOMAIN Order = 1..9 /\ Len(Order) = 9 /\ Control = 10
  BY DEF Order, Control

(* No path is named twice.                                                 *)
LEMMA OrderInjective ==
  \A i, j \in DOMAIN Order : Order[i] = Order[j] => i = j
<1> SUFFICES ASSUME NEW i \in 1..9, NEW j \in 1..9, i # j PROVE Order[i] # Order[j]
  BY OrderLength
<1>1. /\ Order[1] = <<"charger", "status">> /\ Order[2] = <<"charger", "current">>
      /\ Order[3] = <<"charger", "power">>
      /\ Order[4] = <<"L1", "power">> /\ Order[5] = <<"L1", "voltage">> /\ Order[6] = <<"L1", "current">>
      /\ Order[7] = <<"L2", "power">> /\ Order[8] = <<"L2", "voltage">> /\ Order[9] = <<"L2", "current">>
  BY DEF Order
<1>2. i \in {1, 2, 3, 4, 5, 6, 7, 8, 9} /\ j \in {1, 2, 3, 4, 5, 6, 7, 8, 9}
  OBVIOUS
<1> QED
  BY <1>1, <1>2

(* The paths are those of the order.                                       *)
LEMMA PathsAreOrdered ==
  /\ \A i \in DOMAIN Order : Order[i] \in Paths
  /\ \A p \in Paths : \E i \in DOMAIN Order : p = Order[i]
  BY DEF Paths

(* Every publication is, for the control paths, a step of ControlPaths or  *)
(* none: they are left alone by the measurements, by unusable snapshots    *)
(* and by publications that a restart cuts off.                            *)
THEOREM Refinement == ServiceSpec => ImplementsControlPaths
<1>1. ServiceInit => Init
  BY DEF ServiceInit
<1>2. [ServiceNext]_serviceVars => [Next]_vars
  BY DEF ServiceNext, Publish, SetPath, ControlFields, SetControlPaths, ServiceRestart,
         serviceVars, controlVars, vars, Next
<1> QED
  BY <1>1, <1>2, PTL DEF ServiceSpec, Spec, ImplementsControlPaths

(* Whether a snapshot is usable is known.                                  *)
LEMMA UsableIsBoolean ==
  /\ Unusable.usable = FALSE
  /\ \A snapshot \in Snapshots \union {Unusable} : snapshot.usable \in BOOLEAN
<1>1. Unusable.usable = FALSE
  BY DEF Unusable
<1>2. \A snapshot \in Snapshots : snapshot.usable = TRUE
  BY DEF Snapshots
<1> QED
  BY <1>1, <1>2

(* Before the first publication every path shows its default.              *)
LEMMA InitServiceIInv == ServiceInit => ServiceIInv
<1> SUFFICES ASSUME ServiceInit PROVE ServiceIInv
  OBVIOUS
<1>1. ServiceTypeOK
  <2>1. shown \in [Paths -> {None, Default, 0, 1, 2}]
    BY DEF ServiceInit
  <2>2. snap \in Snapshots \union {Unusable}
    BY DEF ServiceInit
  <2>3. next \in 0..Control
    BY OrderLength DEF ServiceInit
  <2>4. phases \in {1, 2} /\ connected \in BOOLEAN /\ complete \in BOOLEAN
    BY DEF ServiceInit
  <2> QED
    BY <2>1, <2>2, <2>3, <2>4 DEF ServiceTypeOK
<1>2. SetSoFar /\ ToBeSet /\ Untouched /\ OneSnapshotShown
  BY OrderLength DEF ServiceInit, SetSoFar, ToBeSet, Untouched, OneSnapshotShown
<1>3. Flags
  <2>1. next # Control
    BY OrderLength DEF ServiceInit
  <2>2. connected = snap.usable /\ ~complete
    BY UsableIsBoolean DEF ServiceInit
  <2> QED
    BY <2>1, <2>2 DEF Flags
<1> QED
  BY <1>1, <1>2, <1>3 DEF ServiceIInv

(* A publication begins only where all paths are set or untouched.         *)
LEMMA PublishKeeps ==
  ASSUME ServiceIInv, NEW snapshot \in Snapshots \union {Unusable}, Publish(snapshot)
  PROVE  ServiceIInv'
<1> USE OrderLength DEF ServiceIInv, Publish
<1>1. snapshot.usable \in BOOLEAN
  BY UsableIsBoolean
<1>2. \A p \in Paths : shown[p] \in {None, Default, 0}
  BY DEF Untouched, OneSnapshotShown
<1>3. \A p \in Paths : shown'[p] \in {None, Default, 1}
  BY <1>2, ConstantsAssumption DEF Default
<1>4. ServiceTypeOK'
  <2>1. shown' \in [Paths -> {None, Default, 0, 1, 2}]
    BY <1>3
  <2>2. connected' \in BOOLEAN /\ complete' \in BOOLEAN
    BY <1>1
  <2>3. snap' \in Snapshots \union {Unusable} /\ next' \in 0..Control /\ phases' \in {1, 2}
    BY DEF ServiceTypeOK
  <2> QED
    BY <2>1, <2>2, <2>3 DEF ServiceTypeOK
<1>5. ToBeSet' /\ SetSoFar'
  BY <1>3, PathsAreOrdered DEF ToBeSet, SetSoFar
<1> QED
  BY <1>4, <1>5 DEF OneSnapshotShown, Untouched, Flags

(* Setting one path extends what has been set, and touches no other.       *)
LEMMA SetPathKeeps == ServiceIInv /\ SetPath => ServiceIInv'
<1> SUFFICES ASSUME ServiceIInv, SetPath PROVE ServiceIInv'
  OBVIOUS
<1> USE OrderLength DEF ServiceIInv, SetPath
<1>1. shown \in [Paths -> {None, Default, 0, 1, 2}] /\ next \in 1..9 /\ Order[next] \in Paths
  BY PathsAreOrdered DEF ServiceTypeOK
<1>2. shown'[Order[next]] = None \/ (connected' /\ shown'[Order[next]] = 0)
  BY <1>1 DEF HasReading, Flags
<1>3. \A i \in DOMAIN Order : i # next => shown'[Order[i]] = shown[Order[i]]
  BY <1>1, OrderInjective, PathsAreOrdered
<1>4. shown' \in [Paths -> {None, Default, 0, 1, 2}]
  BY <1>1
<1>5. next' = IF next < 9 \/ snap.usable THEN next + 1 ELSE 0
  OBVIOUS
<1>6. \A i \in DOMAIN Order : i <= next =>
         shown'[Order[i]] = None \/ (connected' /\ shown'[Order[i]] = 0)
  BY <1>1, <1>2, <1>3 DEF SetSoFar
<1>7. next' = 0 => next = 9
  BY <1>1, <1>5
<1>8. ServiceTypeOK'
  BY <1>1, <1>4, <1>5 DEF ServiceTypeOK
<1>9. SetSoFar'
  BY <1>1, <1>5, <1>6 DEF SetSoFar
<1>10. ToBeSet'
  BY <1>1, <1>3, <1>5 DEF ToBeSet
<1>11. OneSnapshotShown'
  <2>1. complete' => next = 9
    BY <1>7
  <2>2. next = 9 => \A p \in Paths : shown'[p] = None \/ (connected' /\ shown'[p] = 0)
    BY <1>6, PathsAreOrdered
  <2> QED
    BY <2>1, <2>2 DEF OneSnapshotShown
<1>12. Untouched' /\ Flags'
  <2>1. complete' = (next' = 0)
    OBVIOUS
  <2>2. snap' = snap /\ connected' = connected /\ connected = snap.usable
    BY DEF Flags
  <2>3. next' = 10 => connected
    BY <1>1, <1>5, <2>2
  <2>4. next' = Control => connected'
    BY <2>2, <2>3, OrderLength
  <2>5. Flags'
    BY <2>1, <2>2, <2>4 DEF Flags
  <2>6. Untouched'
    BY <2>1 DEF Untouched
  <2> QED
    BY <2>5, <2>6
<1> QED
  BY <1>8, <1>9, <1>10, <1>11, <1>12

(* The control paths come when all others are set.                         *)
LEMMA SetControlPathsKeeps ==
  ASSUME ServiceIInv, NEW roundedUp \in BOOLEAN, SetControlPaths(roundedUp)
  PROVE  ServiceIInv'
<1> USE OrderLength DEF ServiceIInv, SetControlPaths
<1>1. \A i \in DOMAIN Order : shown[Order[i]] = None \/ (connected /\ shown[Order[i]] = 0)
  BY DEF SetSoFar
<1>2. ServiceTypeOK' /\ SetSoFar' /\ ToBeSet' /\ Untouched' /\ Flags'
  BY DEF ServiceTypeOK, SetSoFar, ToBeSet, Untouched, Flags
<1>3. OneSnapshotShown'
  BY <1>1, PathsAreOrdered DEF OneSnapshotShown
<1> QED
  BY <1>2, <1>3

(* The part of the paths that has been set is one snapshot's, the rest is  *)
(* what the previous publication left, or the defaults.                    *)
THEOREM ServiceInvariance == ServiceSpec => []ServiceIInv
<1>1. ServiceIInv /\ [ServiceNext]_serviceVars => ServiceIInv'
  <2> SUFFICES ASSUME ServiceIInv, [ServiceNext]_serviceVars PROVE ServiceIInv'
    OBVIOUS
  <2>1. CASE ControlFields \/ UNCHANGED serviceVars
    BY <2>1 DEF ControlFields, serviceVars, measureVars, ServiceIInv, ServiceTypeOK,
                OneSnapshotShown, SetSoFar, ToBeSet, Untouched, Flags
  <2>2. CASE ServiceRestart
    <3>1. shown' \in [Paths -> {None, Default, 0, 1, 2}] /\ snap' \in Snapshots \union {Unusable}
      BY <2>2 DEF ServiceRestart
    <3>2. next' \in 0..Control /\ next' # Control
      BY <2>2, OrderLength DEF ServiceRestart
    <3>3. phases' \in {1, 2} /\ connected' \in BOOLEAN /\ complete' \in BOOLEAN
      BY <2>2 DEF ServiceRestart
    <3>4. connected' = snap'.usable /\ ~complete'
      BY <2>2, UsableIsBoolean DEF ServiceRestart
    <3>5. ServiceTypeOK' /\ Flags'
      BY <3>1, <3>2, <3>3, <3>4 DEF ServiceTypeOK, Flags
    <3> QED
      BY <2>2, <3>5, OrderLength DEF ServiceRestart, ServiceIInv, OneSnapshotShown,
                  SetSoFar, ToBeSet, Untouched
  <2> QED
    BY <2>1, <2>2, PublishKeeps, SetPathKeeps, SetControlPathsKeeps DEF ServiceNext
<1> QED
  BY InitServiceIInv, <1>1, PTL DEF ServiceSpec

(* Whoever follows the paths one by one never meets, under /Connected, a   *)
(* reading older than the publication before the current one.              *)
THEOREM ListenersMeetNoOldReadings == ServiceSpec => []NoOldReadings
<1>1. ServiceIInv => NoOldReadings
  <2> SUFFICES ASSUME ServiceIInv, NEW p \in Paths PROVE shown[p] # 2
    BY DEF NoOldReadings
  <2>1. CASE next = 0
    BY <2>1, ConstantsAssumption DEF ServiceIInv, OneSnapshotShown, Untouched, Default
  <2>2. CASE next # 0
    <3>1. PICK i \in DOMAIN Order : p = Order[i]
      BY PathsAreOrdered
    <3>2. i \in Int /\ next \in Int
      BY OrderLength DEF ServiceIInv, ServiceTypeOK
    <3> QED
      BY <2>2, <3>1, <3>2, ConstantsAssumption DEF ServiceIInv, SetSoFar, ToBeSet, Default
  <2> QED
    BY <2>1, <2>2
<1> QED
  BY ServiceInvariance, <1>1, PTL

(* A completed publication shows one snapshot, or nothing.                 *)
THEOREM PublicationsAreWhole == ServiceSpec => []OneSnapshotShown
<1>1. ServiceIInv => OneSnapshotShown
  BY DEF ServiceIInv
<1> QED
  BY ServiceInvariance, <1>1, PTL

(* The publications of the service mirror the source as ControlPaths does: *)
(* /SetCurrent follows it within the tolerance in every state of a         *)
(* publication.                                                            *)
THEOREM ServiceFollowsSetpoint == ServiceSpec => []SetpointMirrored
  BY Refinement, SetpointFollows, PTL DEF ImplementsControlPaths

(* So does /StartStop, for an entity whose states are numbers.             *)
THEOREM ServiceFollowsStartStop == ~SwitchEntity /\ ServiceSpec => []StartStopMirrored
  BY Refinement, StartStopFollows, PTL DEF ImplementsControlPaths
===============================================================================
