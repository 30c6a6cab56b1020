---------------------------- MODULE CollectionProofs ----------------------------
(***************************************************************************)
(* Proofs about HaClient, GridVoltageReader and their composition          *)
(* Collection, for every threshold, timeout, interval, bound and set of    *)
(* meters.                                                                 *)
(***************************************************************************)
EXTENDS Collection, TLAPS

USE DEF Never, None

-------------------------------------------------------------------------------
(* HaClient.                                                               *)

(* The breaker starts closed with no failure counted.                      *)
LEMMA InitIInv == Init => IInv
  BY ConstantsAssumption DEF Init, IInv, TypeOK, OkIsThisPoll

(* Every operation of the client keeps the breaker and the history of its  *)
(* requests in agreement.                                                  *)
LEMMA StepIInv == IInv /\ [Next]_vars => IInv'
<1> SUFFICES ASSUME IInv, [Next]_vars PROVE IInv'
  OBVIOUS
<1> USE ConstantsAssumption DEF IInv, TypeOK, OkIsThisPoll
<1>1. CASE PollRefused
  BY <1>1 DEF PollRefused
<1>2. CASE PollRequest
  BY <1>2 DEF PollRequest
<1>3. CASE \E values \in {None, now} : RequestOk(values)
  BY <1>3 DEF RequestOk
<1>4. CASE RequestFail
  BY <1>4 DEF RequestFail
<1>5. CASE Tick
  BY <1>5 DEF Tick, history
<1>6. CASE UNCHANGED vars
  BY <1>6 DEF vars
<1> QED
  BY <1>1, <1>2, <1>3, <1>4, <1>5, <1>6 DEF Next

(* The inductive invariant holds in every reachable state.                 *)
THEOREM Invariance == Spec => []IInv
  BY InitIInv, StepIInv, PTL DEF Spec

(* Every variable keeps its type; the failure count never passes the       *)
(* threshold, so half-open is always exactly one failure away from open.   *)
THEOREM TypeCorrectness == Spec => []TypeOK
<1>1. IInv => TypeOK
  BY DEF IInv
<1> QED
  BY <1>1, Invariance, PTL

(* Values marked ok were fetched by the poll that returns them: last-known *)
(* values never pass as fresh.                                             *)
THEOREM OkMeansFetched == Spec => []OkIsThisPoll
<1>1. IInv => OkIsThisPoll
  BY DEF IInv
<1> QED
  BY <1>1, Invariance, PTL

(* The breaker opens at the threshold-th failure in a row, not before.     *)
THEOREM BreakerOpens == Spec => []OpensAtThreshold
<1>1. IInv => OpensAtThreshold
  BY ConstantsAssumption DEF IInv, TypeOK, OpensAtThreshold
<1> QED
  BY <1>1, Invariance, PTL

(* After the threshold Home Assistant sees one probe per reset timeout.    *)
THEOREM ProbeSpacing == Spec => ProbesAreSpaced
<1> DEFINE Probe == pc = "idle" /\ pc' = "request" /\ streak >= Threshold
                      => now - lastFailure >= ResetTimeout
<1>1. IInv /\ [Next]_vars => [Probe]_vars
  <2> SUFFICES ASSUME IInv, Next, pc = "idle", pc' = "request", streak >= Threshold
               PROVE  now - lastFailure >= ResetTimeout
    OBVIOUS
  <2>1. PollRequest
    BY DEF Next, PollRefused, RequestOk, RequestFail, Tick, IInv
  <2> QED
    BY <2>1, ConstantsAssumption DEF PollRequest, IInv, TypeOK
<1> QED
  BY <1>1, Invariance, PTL DEF Spec, ProbesAreSpaced

-------------------------------------------------------------------------------
(* GridVoltageReader.                                                      *)

(* A phase that answers does so now.                                       *)
LEMMA AnswerType ==
  ASSUME now \in Nat, NEW meter \in Meters, NEW volt \in Grid!Answers(meter)
  PROVE  /\ volt \in Grid!Voltages
         /\ volt # Grid!NoVolt => volt.meter = meter /\ volt.at = now
  BY DEF Grid!Answers, Grid!Voltages

(* The clock may go on between two steps of a read.                        *)
LEMMA VoltagesKeep ==
  ASSUME now \in Nat, now' \in Nat, now <= now'
  PROVE  Grid!Voltages \subseteq Grid!Voltages'
  BY DEF Grid!Voltages, Grid!NoVolt

LEMMA InitGridIInv == CollectionInit => Grid!GridIInv
<1> SUFFICES ASSUME CollectionInit PROVE Grid!GridIInv
  OBVIOUS
<1>1. Grid!NoVolt \in Grid!Voltages
  BY DEF Grid!Voltages
<1>2. l1 = Grid!NoVolt /\ volts = Grid!NoVolts /\ now = 0
  BY DEF CollectionInit, Init, Grid!GridInit
<1>3. volts \in [{1, 2} -> Grid!Voltages] /\ volts[1] = Grid!NoVolt
  BY <1>1, <1>2 DEF Grid!NoVolts
<1>4. Grid!GridTypeOK
  BY <1>1, <1>2, <1>3, GridAssumption DEF Grid!GridTypeOK, CollectionInit, Grid!GridInit
<1> QED
  BY <1>2, <1>3, <1>4, GridAssumption DEF Grid!GridIInv, CollectionInit, Grid!GridInit
(* Each step of a read keeps what the reader holds on one meter.           *)
LEMMA GridStepKeeps ==
  ASSUME Grid!GridIInv, Grid!GridNext, now \in Nat, now' = now
  PROVE  Grid!GridIInv'
<1> USE DEF Grid!GridIInv, Grid!GridTypeOK
<1> DEFINE None1 == Grid!NoVolt
<1>1. /\ Grid!Voltages' = Grid!Voltages /\ None1 \in Grid!Voltages
      /\ Grid!NoVolts \in [{1, 2} -> Grid!Voltages]
      /\ Grid!NoVolts[1] = None1 /\ Grid!NoVolts[2] = None1
  BY DEF Grid!Voltages, Grid!NoVolts
<1>2. CASE Grid!ReadNothing
  BY <1>1, <1>2 DEF Grid!ReadNothing
<1>3. CASE Grid!ReadKnown
  BY <1>1, <1>3 DEF Grid!ReadKnown
<1>4. CASE Grid!StartDiscovery
  BY <1>1, <1>4, GridAssumption DEF Grid!StartDiscovery
<1>5. CASE Grid!Discover
  BY <1>1, <1>5, GridAssumption DEF Grid!Discover
<1>6. CASE Grid!ReadL1
  BY <1>1, <1>6, AnswerType DEF Grid!ReadL1
<1>7. CASE Grid!ReadL2
  <2>1. PICK l2 \in Grid!Answers(gridService) :
          /\ volts' = [phase \in {1, 2} |-> IF phase = 1 THEN l1 ELSE l2]
          /\ gridService' = IF l1 = None1 /\ l2 = None1 THEN NoMeter ELSE gridService
    BY <1>7 DEF Grid!ReadL2
  <2>2. gridService \in Meters
    BY <1>7 DEF Grid!ReadL2
  <2>3. l2 \in Grid!Voltages /\ (l2 # None1 => l2.meter = gridService)
    BY <2>2, AnswerType
  <2>4. volts' \in [{1, 2} -> Grid!Voltages] /\ volts'[1] = l1 /\ volts'[2] = l2
    BY <2>1, <2>3
  <2> QED
    BY <1>1, <1>7, <2>1, <2>3, <2>4 DEF Grid!ReadL2
<1> QED
  BY <1>2, <1>3, <1>4, <1>5, <1>6, <1>7 DEF Grid!GridNext

LEMMA LongerRange ==
  ASSUME NEW a \in Nat, NEW b \in Nat, NEW i \in Nat, a <= b
  PROVE  0..(a + i) \subseteq 0..(b + i)
  OBVIOUS

(* Time may pass at any point of a read.                                   *)
LEMMA GridRests ==
  ASSUME Grid!GridIInv, UNCHANGED gridVars, now \in Nat, now' \in Nat, now <= now'
  PROVE  Grid!GridIInv'
<1>1. Grid!Voltages \subseteq Grid!Voltages' /\ Grid!NoVolt' = Grid!NoVolt
  BY VoltagesKeep DEF Grid!NoVolt
<1>2. Grid!GridTypeOK'
  <2>1. l1' \in Grid!Voltages' /\ volts' \in [{1, 2} -> Grid!Voltages']
    BY <1>1 DEF Grid!GridIInv, Grid!GridTypeOK, gridVars
  <2>2. nextDiscovery \in 0..(now + Interval) /\ lastDiscovery \in {-Interval} \union 0..now
    BY DEF Grid!GridIInv, Grid!GridTypeOK
  <2>3. Interval \in Nat
    BY GridAssumption
  <2>4. nextDiscovery \in 0..(now' + Interval)
    <3>1. 0..(now + Interval) \subseteq 0..(now' + Interval)
      BY <2>3, LongerRange
    <3> QED
      BY <2>2, <3>1
  <2>5. lastDiscovery \in {-Interval} \union 0..now'
    BY <2>2
  <2> QED
    BY <2>1, <2>4, <2>5 DEF Grid!GridIInv, Grid!GridTypeOK, gridVars
<1> QED
  BY <1>1, <1>2 DEF Grid!GridIInv, gridVars
-------------------------------------------------------------------------------
(* Collection.                                                             *)

(* In a collection, the client does nothing that it does not do alone.     *)
LEMMA HaSteps == [CollectionNext]_allVars => [Next]_vars
  BY DEF CollectionNext, CollectStart, CollectHa, CollectGrid, CollectEnd, TimePasses,
         allVars, vars, Next

(* Home Assistant's breaker works in a collection as it does alone.        *)
THEOREM HaRefinement == CollectionSpec => Spec
<1>1. CollectionInit => Init
  BY DEF CollectionInit
<1> QED
  BY <1>1, HaSteps, PTL DEF CollectionSpec, Spec

LEMMA InitCollectionIInv == CollectionInit => CollectionIInv
<1> SUFFICES ASSUME CollectionInit PROVE CollectionIInv
  OBVIOUS
<1>1. IInv /\ Grid!GridIInv
  BY InitIInv, InitGridIInv DEF CollectionInit
<1>2. /\ now = 0 /\ started = 0 /\ stage = "waiting" /\ pc = "idle" /\ gridStep = "idle"
      /\ snapshot.charger = None /\ snapshot.volts = Grid!NoVolts /\ l1 = Grid!NoVolt
  BY DEF CollectionInit, Init, Grid!GridInit, NoSnapshot
<1>3. /\ \A phase \in {1, 2} : Grid!NoVolts[phase] = Grid!NoVolt
      /\ Grid!NoVolts \in [{1, 2} -> Grid!Voltages]
  BY DEF Grid!NoVolts, Grid!Voltages
<1>4. snapshot \in [charger : {None} \union 0..now, volts : [{1, 2} -> Grid!Voltages]]
  BY <1>3 DEF CollectionInit, NoSnapshot
<1>5. CollectionTypeOK
  BY <1>2, <1>4 DEF CollectionTypeOK
<1>6. HaRead /\ GridRead /\ CollectedSinceStart
  BY <1>2, <1>3 DEF HaRead, GridRead, Since, CollectedSinceStart
<1> QED
  BY <1>1, <1>5, <1>6 DEF CollectionIInv

(* A step of the poll: a request in it begins after the collection.        *)
LEMMA CollectHaKeeps ==
  ASSUME CollectionIInv, CollectHa
  PROVE  CollectionIInv'
<1> USE DEF CollectionIInv
<1>1. UNCHANGED <<snapshot, started, gridVars, now>> /\ Next
  BY DEF CollectHa, Next, PollRefused, PollRequest, RequestOk, RequestFail
<1>2. IInv'
  BY <1>1, StepIInv
<1>3. now \in Nat /\ now' \in Nat /\ started \in 0..now
  BY <1>2 DEF IInv, TypeOK, CollectionTypeOK
<1>4. Grid!GridIInv'
  BY <1>1, <1>3, GridRests
<1>5. /\ Grid!Voltages' = Grid!Voltages /\ Grid!NoVolt' = Grid!NoVolt
      /\ stage = "ha" /\ stage' \in {"ha", "grid"}
  BY <1>1 DEF Grid!Voltages, Grid!NoVolt, CollectHa
<1>6. CollectionTypeOK'
  BY <1>1, <1>5 DEF CollectionTypeOK
<1>7. HaRead'
  <2>1. CASE pc = "request"
    BY <2>1, <1>1 DEF CollectHa, PollRefused, PollRequest, RequestOk, RequestFail, HaRead
  <2>2. CASE pc = "idle"
    BY <2>2, <1>1, <1>3 DEF CollectHa, PollRefused, PollRequest, RequestOk, RequestFail, HaRead
  <2> QED
    BY <2>1, <2>2 DEF IInv, TypeOK
<1>8. GridRead' /\ CollectedSinceStart'
  BY <1>1, <1>5 DEF GridRead, Since, CollectedSinceStart, gridVars
<1> QED
  BY <1>2, <1>4, <1>6, <1>7, <1>8

(* A step of the read: what answers in it answers after the start.         *)
LEMMA CollectGridKeeps ==
  ASSUME CollectionIInv, CollectGrid
  PROVE  CollectionIInv'
<1> USE DEF CollectionIInv
<1>1. UNCHANGED <<snapshot, started, vars>> /\ Grid!GridNext /\ UNCHANGED now
  BY DEF CollectGrid, vars
<1>2. IInv'
  BY <1>1, StepIInv
<1>3. now \in Nat /\ now' \in Nat /\ started \in 0..now
  BY <1>2 DEF IInv, TypeOK, CollectionTypeOK
<1>4. Grid!GridIInv'
  BY <1>1, <1>3, GridStepKeeps
<1>5. /\ Grid!Voltages' = Grid!Voltages /\ Grid!NoVolt' = Grid!NoVolt
      /\ stage = "grid" /\ stage' = IF gridStep' = "idle" THEN "merge" ELSE "grid"
  BY <1>1 DEF Grid!Voltages, Grid!NoVolt, CollectGrid
<1>6. CollectionTypeOK'
  BY <1>1, <1>5 DEF CollectionTypeOK
<1>7. HaRead'
  BY <1>1, <1>5 DEF HaRead, vars
<1>8. GridRead'
  <2>1. Since(Grid!NoVolt)'
    BY <1>5 DEF Since
  <2>2. \A meter \in Meters : \A volt \in Grid!Answers(meter) :
          volt # Grid!NoVolt => volt.at >= started
    BY <1>3, AnswerType
  <2>3. CASE Grid!ReadNothing
    <3>1. volts'[1] = Grid!NoVolt /\ volts'[2] = Grid!NoVolt /\ UNCHANGED <<l1, gridStep>>
      BY <2>3 DEF Grid!ReadNothing, Grid!NoVolts
    <3> QED
      BY <1>1, <1>5, <3>1 DEF GridRead, Since
  <2>4. CASE Grid!ReadKnown \/ Grid!StartDiscovery
    BY <2>4, <1>1, <1>5 DEF Grid!ReadKnown, Grid!StartDiscovery, GridRead, Since
  <2>5. CASE Grid!Discover
    <3>1. \/ gridStep' = "l1"
          \/ volts' = Grid!NoVolts /\ gridStep' = "idle"
      BY <2>5 DEF Grid!Discover
    <3>2. Grid!NoVolts[1] = Grid!NoVolt /\ Grid!NoVolts[2] = Grid!NoVolt
      BY DEF Grid!NoVolts
    <3> QED
      BY <2>5, <3>1, <3>2, <1>1, <1>5 DEF Grid!Discover, GridRead, Since
  <2>6. CASE Grid!ReadL1
    BY <2>2, <2>6, <1>1, <1>5 DEF Grid!ReadL1, GridRead, Since, Grid!GridIInv, Grid!GridTypeOK
  <2>7. CASE Grid!ReadL2
    <3>1. PICK l2 \in Grid!Answers(gridService) :
            volts' = [phase \in {1, 2} |-> IF phase = 1 THEN l1 ELSE l2]
      BY <2>7 DEF Grid!ReadL2
    <3>2. volts'[1] = l1 /\ volts'[2] = l2 /\ l1' = Grid!NoVolt
      BY <2>7, <3>1 DEF Grid!ReadL2
    <3>3. l2 # Grid!NoVolt => l2.at >= started
      BY <2>2, <2>7 DEF Grid!ReadL2, Grid!GridIInv, Grid!GridTypeOK
    <3> QED
      BY <3>2, <3>3, <1>1, <1>5, <2>7 DEF Grid!ReadL2, GridRead, Since
  <2> QED
    BY <1>1, <2>3, <2>4, <2>5, <2>6, <2>7 DEF Grid!GridNext
<1>9. CollectedSinceStart'
  BY <1>5 DEF CollectedSinceStart
<1> QED
  BY <1>2, <1>4, <1>6, <1>7, <1>8, <1>9
(* A collection begins, merges what it has read, or waits.                 *)
LEMMA OtherStepsKeep ==
  ASSUME CollectionIInv, CollectStart \/ CollectEnd \/ TimePasses
  PROVE  CollectionIInv'
<1> USE DEF CollectionIInv
<1>1. UNCHANGED gridVars /\ [Next]_vars
  BY DEF CollectStart, CollectEnd, TimePasses, Next
<1>2. IInv'
  BY <1>1, StepIInv
<1>3. now \in Nat /\ now' \in Nat /\ now <= now' /\ started \in 0..now
  BY <1>2 DEF IInv, TypeOK, CollectionTypeOK, CollectStart, CollectEnd, TimePasses, Tick, vars
<1>4. Grid!GridIInv'
  BY <1>1, <1>3, GridRests
<1>5. /\ Grid!Voltages \subseteq Grid!Voltages' /\ Grid!NoVolt' = Grid!NoVolt
  BY <1>3, VoltagesKeep DEF Grid!NoVolt
<1>6. CASE CollectStart
  <2>1. /\ stage = "waiting" /\ stage' = "ha" /\ started' = now /\ snapshot' = snapshot
        /\ UNCHANGED <<vars, gridVars>>
    BY <1>6 DEF CollectStart
  <2>2. gridStep = "idle" /\ pc = "idle" /\ l1 = Grid!NoVolt
    BY <2>1 DEF HaRead, GridRead, IInv, TypeOK, Grid!GridIInv
  <2>3. CollectionTypeOK'
    <3>1. Grid!Voltages' = Grid!Voltages
      BY <2>1 DEF vars, Grid!Voltages, Grid!NoVolt
    <3> QED
      BY <1>3, <2>1, <3>1 DEF CollectionTypeOK, vars
  <2> QED
    BY <1>2, <1>4, <1>5, <2>1, <2>2, <2>3
    DEF HaRead, GridRead, Since, CollectedSinceStart, vars, gridVars
<1>7. CASE CollectEnd
  <2>1. /\ stage = "merge" /\ stage' = "waiting" /\ snapshot' = Merged
        /\ UNCHANGED <<started, vars, gridVars>>
    BY <1>7 DEF CollectEnd
  <2>2. gridStep = "idle" /\ pc = "idle" /\ pollStart >= started
    BY <2>1 DEF HaRead, GridRead, IInv, TypeOK
  <2>3. /\ Merged.charger = IF result.ok THEN result.values ELSE None
        /\ Merged.volts = volts
    BY DEF Merged
  <2>4. Merged.charger # None => Merged.charger >= started
    BY <1>3, <2>2, <2>3 DEF IInv, TypeOK, OkIsThisPoll
  <2>5. CollectedSinceStart'
    BY <1>5, <2>1, <2>3, <2>4 DEF CollectedSinceStart, GridRead, Since
  <2>6. CollectionTypeOK'
    <3>1. Grid!Voltages' = Grid!Voltages
      BY <2>1 DEF vars, Grid!Voltages, Grid!NoVolt
    <3>2. Merged \in [charger : {None} \union 0..now, volts : [{1, 2} -> Grid!Voltages]]
      BY DEF Merged, IInv, TypeOK, Grid!GridIInv, Grid!GridTypeOK
    <3> QED
      BY <1>3, <2>1, <3>1, <3>2 DEF CollectionTypeOK, vars
  <2> QED
    BY <1>2, <1>4, <1>5, <2>1, <2>2, <2>5, <2>6 DEF HaRead, GridRead, Since, vars, gridVars
<1>8. CASE TimePasses
  <2>1. UNCHANGED <<collectVars, gridVars, pc, pollStart>>
    BY <1>8 DEF TimePasses, Tick, history
  <2>2. CollectionTypeOK'
    <3>1. snapshot = [charger |-> snapshot.charger, volts |-> snapshot.volts]
      BY DEF CollectionTypeOK
    <3>2. snapshot.charger \in {None} \union 0..now' /\ snapshot.volts \in [{1, 2} -> Grid!Voltages']
      BY <1>3, <1>5 DEF CollectionTypeOK
    <3>3. snapshot \in [charger : {None} \union 0..now', volts : [{1, 2} -> Grid!Voltages']]
      BY <3>1, <3>2
    <3> QED
      BY <1>3, <2>1, <3>3 DEF CollectionTypeOK, collectVars
  <2> QED
    BY <1>2, <1>4, <1>5, <2>1, <2>2
    DEF HaRead, GridRead, Since, CollectedSinceStart, collectVars, gridVars
<1> QED
  BY <1>6, <1>7, <1>8

(* The inductive invariant of the composition, and with it that of each    *)
(* part, holds in every state of a collection.                             *)
THEOREM CollectionInvariance == CollectionSpec => []CollectionIInv
<1>1. CollectionIInv /\ [CollectionNext]_allVars => CollectionIInv'
  <2> SUFFICES ASSUME CollectionIInv, UNCHANGED allVars PROVE CollectionIInv'
    BY CollectHaKeeps, CollectGridKeeps, OtherStepsKeep DEF CollectionNext
  <2> QED
    BY DEF allVars, vars, gridVars, collectVars, CollectionIInv, IInv, TypeOK, OkIsThisPoll,
           Grid!GridIInv, Grid!GridTypeOK, Grid!Voltages, Grid!NoVolt, CollectionTypeOK,
           HaRead, GridRead, Since, CollectedSinceStart
<1> QED
  BY InitCollectionIInv, <1>1, PTL DEF CollectionSpec

(* Nothing in a snapshot was acquired before its collection began: the     *)
(* last-known values never get into it, nor do voltages of an earlier      *)
(* read.                                                                   *)
THEOREM SnapshotsAreFresh == CollectionSpec => []CollectedSinceStart
<1>1. CollectionIInv => CollectedSinceStart
  BY DEF CollectionIInv
<1> QED
  BY <1>1, CollectionInvariance, PTL

(* Both phases of a read are of one meter, whatever meters come and go.    *)
THEOREM PhasesOfOneMeter == CollectionSpec => []OneMeter
<1>1. CollectionIInv => OneMeter
  BY DEF CollectionIInv, Grid!GridIInv, OneMeter, Grid!OneMeter
<1> QED
  BY <1>1, CollectionInvariance, PTL

(* Discoveries begin at least an interval apart, however many meters are   *)
(* found and lost.                                                         *)
THEOREM DiscoverySpacing == CollectionSpec => DiscoveriesAreSpaced
<1> DEFINE Spaced == lastDiscovery' # lastDiscovery => now - lastDiscovery >= Interval
<1>1. CollectionIInv /\ [CollectionNext]_allVars => [Spaced]_Grid!gridVars
  <2> SUFFICES ASSUME CollectionIInv, CollectionNext, lastDiscovery' # lastDiscovery
               PROVE  now - lastDiscovery >= Interval
    BY DEF allVars, gridVars, Grid!gridVars
  <2>1. Grid!StartDiscovery
    BY DEF CollectionNext, CollectStart, CollectHa, CollectGrid, CollectEnd, TimePasses, gridVars,
           Grid!GridNext, Grid!ReadNothing, Grid!ReadKnown, Grid!Discover, Grid!ReadL1, Grid!ReadL2
  <2> QED
    BY <2>1, GridAssumption
    DEF Grid!StartDiscovery, CollectionIInv, Grid!GridIInv, Grid!GridTypeOK, IInv, TypeOK
<1> QED
  BY <1>1, CollectionInvariance, PTL
  DEF CollectionSpec, DiscoveriesAreSpaced, Grid!DiscoveriesAreSpaced

(* In every collection: the breaker opens at the threshold, not before.    *)
THEOREM CollectionBreakerOpens == CollectionSpec => []OpensAtThreshold
  BY HaRefinement, BreakerOpens, PTL

(* In every collection: after the threshold, Home Assistant sees one probe *)
(* per reset timeout.                                                      *)
THEOREM CollectionProbeSpacing == CollectionSpec => ProbesAreSpaced
  BY HaRefinement, ProbeSpacing, PTL DEF ProbesAreSpaced
===============================================================================
