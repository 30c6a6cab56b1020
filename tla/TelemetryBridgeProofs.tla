------------------------- MODULE TelemetryBridgeProofs -------------------------
(***************************************************************************)
(* Proofs about TelemetryBridge, for all intervals, timeouts and limits,   *)
(* with and without the MQTT fallback, and for jobs that take any time.    *)
(***************************************************************************)
EXTENDS TelemetryBridge, TLAPS

USE DEF Never

(* A snapshot lives for two poll intervals at least.                       *)
LEMMA TtlCoversTwoPolls == Ttl \in Nat /\ PollInterval \in Nat \ {0} /\ Ttl >= 2 * PollInterval
  BY ConstantsAssumption DEF Ttl

SnapshotTimes == {Never} \union 0..now
Readings == [source : {"ha", "mqtt", "grid"}, at : 0..now]

(* What is published is younger than the limit of its source, whichever    *)
(* source that is.                                                         *)
LEMMA PublishedYoung ==
  ASSUME TypeOK, NEW snap \in Snapshot, NEW at \in SnapshotTimes
  PROVE  /\ Published(snap, at) \subseteq Readings
         /\ \A item \in Published(snap, at) : Contract!Young(item)
<1> SUFFICES ASSUME NEW item \in Published(snap, at)
             PROVE  item \in Readings /\ Contract!Young(item)
  OBVIOUS
<1>1. /\ now \in Nat /\ Fresh \in Nat /\ Ttl \in Nat
      /\ \A f \in Required : mqtt[f] \in SnapshotTimes
  BY ConstantsAssumption, TtlCoversTwoPolls DEF TypeOK, SnapshotTimes
<1>2. \/ CollectedFresh(at) /\ item \in {[source |-> "ha", at |-> at], [source |-> "grid", at |-> at]}
      \/ MqttUsable /\ \E f \in Required : item = [source |-> "mqtt", at |-> mqtt[f]]
  BY DEF Published, Items
<1>3. CASE CollectedFresh(at) /\ item \in {[source |-> "ha", at |-> at], [source |-> "grid", at |-> at]}
  <2>1. at \in 0..now /\ now - at < Ttl
    BY <1>3 DEF CollectedFresh, SnapshotTimes
  <2> QED
    BY <1>3, <2>1 DEF Readings, Contract!Young
<1>4. CASE MqttUsable /\ \E f \in Required : item = [source |-> "mqtt", at |-> mqtt[f]]
  <2>1. PICK f \in Required : item = [source |-> "mqtt", at |-> mqtt[f]]
    BY <1>4
  <2>2. mqtt[f] \in 0..now /\ now - mqtt[f] < Fresh
    BY <1>1, <1>4 DEF MqttUsable, SnapshotTimes
  <2> QED
    BY <2>1, <2>2 DEF Readings, Contract!Young
<1> QED
  BY <1>2, <1>3, <1>4

(* A usable snapshot is withdrawn only when it is too old.                 *)
LEMMA WithdrawnIsOld ==
  ASSUME NEW snap \in Snapshot, NEW at, snap.usable, at # Never, Published(snap, at) = {}
  PROVE  ~(now - at < Ttl)
<1>1. CollectedFresh(at) => Published(snap, at) # {}
  BY DEF Published, Items
<1> QED
  BY <1>1 DEF CollectedFresh

LEMMA InitIInv == Init => IInv
<1> SUFFICES ASSUME Init PROVE IInv
  OBVIOUS
<1>1. NoSnapshot \in Snapshot /\ ~NoSnapshot.usable
  BY DEF NoSnapshot, Snapshot
<1>2. NoJob \in [started : SnapshotTimes, result : Snapshot]
  BY <1>1 DEF NoJob, SnapshotTimes
<1>3. Worker!TypeOK /\ slot = "free"
  BY DEF Init, Worker!Init, Worker!TypeOK
<1>4. TypeOK
  BY <1>1, <1>2, <1>3 DEF Init, TypeOK, SnapshotTimes
<1> QED
  BY <1>1, <1>3, <1>4 DEF Init, IInv, TickedYoung, JobsFollow, Rhythm

-------------------------------------------------------------------------------
(* One lemma per action.                                                   *)

LEMMA TickStep ==
  ASSUME IInv, Tick
  PROVE  IInv'
<1> USE DEF IInv, Tick
<1>1. /\ now \in Nat /\ snapshot \in Snapshot /\ snapshotAt \in SnapshotTimes
      /\ submittedAt \in SnapshotTimes /\ PollInterval \in Nat
  BY TtlCoversTwoPolls DEF TypeOK, SnapshotTimes
<1>2. /\ UNCHANGED <<now, job, snapshot, snapshotAt, slow, mqtt>>
      /\ ~ticked /\ ticked' /\ bus' = Published(snapshot, snapshotAt)
  OBVIOUS
<1>3. bus' \subseteq Readings /\ \A item \in bus' : Contract!Young(item)
  BY <1>1, <1>2, PublishedYoung
<1>4. TickedYoung'
  BY <1>2, <1>3 DEF TickedYoung, Contract!Young
<1>5. CASE PollDue /\ slot = "free"
  <2>1. /\ slot' = "queued" /\ UNCHANGED <<stopped, closed>>
        /\ nextPoll' = now + PollInterval /\ submittedAt' = now /\ ~stopped
    BY <1>5 DEF Worker!Submit, PollDue
  <2>2. TypeOK'
    BY <1>1, <1>2, <1>3, <2>1 DEF TypeOK, Worker!TypeOK, Readings
  <2>3. JobsFollow'
    BY <1>1, <1>2, <2>1 DEF JobsFollow
  <2>4. Rhythm'
    <3> SUFFICES ASSUME ~slow, snapshotAt # Never PROVE now <= snapshotAt + PollInterval
      BY <1>2, <2>1 DEF Rhythm
    <3>1. submittedAt <= snapshotAt /\ now <= nextPoll /\ nextPoll = submittedAt + PollInterval
      BY <1>1, <1>5, <2>1 DEF Rhythm, JobsFollow, SnapshotTimes, TypeOK
    <3> QED
      BY <1>1, <3>1 DEF SnapshotTimes
  <2> QED
    BY <1>4, <2>2, <2>3, <2>4
<1>6. CASE ~(PollDue /\ slot = "free")
  <2>1. UNCHANGED <<workerVars, pollVars>>
    BY <1>6
  <2>2. TypeOK' /\ JobsFollow'
    BY <1>2, <1>3, <2>1 DEF TypeOK, Worker!TypeOK, JobsFollow, workerVars, pollVars, Readings
  <2>3. Rhythm'
    BY <1>1, <1>2, <1>6, <2>1 DEF Rhythm, PollDue, JobsFollow, workerVars, pollVars, TypeOK, SnapshotTimes
  <2> QED
    BY <1>4, <2>2, <2>3
<1> QED
  BY <1>5, <1>6

(* A snapshot counts from the start of its collection, which was after the *)
(* submission.                                                             *)
LEMMA AcceptStep ==
  ASSUME IInv, AcceptSnapshot
  PROVE  IInv'
<1> USE DEF IInv, AcceptSnapshot
<1>1. /\ now \in Nat /\ job.result \in Snapshot /\ job.started \in SnapshotTimes
      /\ submittedAt \in SnapshotTimes /\ PollInterval \in Nat
  BY TtlCoversTwoPolls DEF TypeOK, SnapshotTimes
<1>2. /\ UNCHANGED <<now, ticked, nextPoll, submittedAt, mqtt, stopped, closed>>
      /\ slot = "ready" /\ slot' = "free" /\ ~stopped
      /\ snapshot' = job.result /\ snapshotAt' = job.started /\ job' = NoJob
      /\ slow' = (now - submittedAt >= PollInterval)
  BY DEF Worker!HandBack, pollVars
<1>3. bus' = Published(job.result, job.started)
  BY <1>2 DEF Published, Items, CollectedFresh, MqttUsable
<1>4. bus' \subseteq Readings /\ \A item \in bus' : Contract!Young(item)
  BY <1>1, <1>3, PublishedYoung
<1>5. TickedYoung'
  BY <1>2, <1>4 DEF TickedYoung, Contract!Young
<1>6. TypeOK'
  BY <1>1, <1>2, <1>4 DEF TypeOK, Worker!TypeOK, NoJob, NoSnapshot, Snapshot, Readings, SnapshotTimes
<1>7. submittedAt # Never /\ job.started # Never /\ submittedAt <= job.started
  BY <1>2 DEF JobsFollow
<1>8. JobsFollow'
  BY <1>2, <1>7 DEF JobsFollow
<1>9. Rhythm'
  <2>1. /\ submittedAt <= job.started + PollInterval
        /\ nextPoll = submittedAt + PollInterval
    BY <1>1, <1>7 DEF JobsFollow, SnapshotTimes
  <2>2. ~slow' => now < nextPoll
    <3>1. ~slow' => ~(now - submittedAt >= PollInterval)
      BY <1>2
    <3>2. now \in Int /\ submittedAt \in Int /\ PollInterval \in Int
      BY <1>1 DEF SnapshotTimes
    <3> QED
      BY <2>1, <3>1, <3>2
  <2> QED
    BY <1>2, <1>7, <2>1, <2>2 DEF Rhythm
<1> QED
  BY <1>5, <1>6, <1>8, <1>9

LEMMA AdvanceStep ==
  ASSUME IInv, Advance
  PROVE  IInv'
<1> USE DEF IInv, Advance
<1>1. /\ now \in Nat /\ now' = now + 1 /\ ticked /\ ~ticked' /\ ticked' \in BOOLEAN
      /\ UNCHANGED <<workerVars, job, appVars, pollVars, mqtt>>
  BY DEF TypeOK
<1>2. 0..now \subseteq 0..now' /\ PollInterval \in Nat
  BY <1>1, TtlCoversTwoPolls
<1>3. 0..(now + PollInterval) \subseteq 0..(now' + PollInterval)
  BY <1>1, <1>2
<1>4. TypeOK'
  BY <1>1, <1>2, <1>3 DEF TypeOK, Worker!TypeOK, workerVars, appVars, pollVars
<1>5. TickedYoung' /\ JobsFollow'
  BY <1>1 DEF TickedYoung, JobsFollow, workerVars, appVars, pollVars
<1>6. Rhythm'
  <2>1. UNCHANGED <<stopped, slow, slot, snapshotAt, submittedAt, nextPoll>>
    BY <1>1 DEF workerVars, appVars, pollVars
  <2>2. nextPoll \in Int
    BY <1>1, <1>2 DEF TypeOK
  <2>3. now < nextPoll => now' < nextPoll \/ now' = nextPoll
    BY <1>1, <2>2
  <2> QED
    BY <1>1, <2>1, <2>3 DEF Rhythm
<1> QED
  BY <1>4, <1>5, <1>6

(* The worker's own steps: a job begins after its submission, and a stop   *)
(* leaves nothing to be submitted.                                         *)
LEMMA WorkerStep ==
  ASSUME IInv, CollectStart \/ CollectEnd \/ DropSnapshot \/ Stop
  PROVE  IInv'
<1> USE DEF IInv
<1>1. UNCHANGED <<now, ticked, appVars, pollVars, mqtt>>
  BY DEF CollectStart, CollectEnd, DropSnapshot, Stop
<1>2. now \in Nat /\ submittedAt \in SnapshotTimes
  BY DEF TypeOK, SnapshotTimes
<1>3. job' \in [started : SnapshotTimes, result : Snapshot]
  <2>1. job \in [started : SnapshotTimes, result : Snapshot]
    BY DEF TypeOK, SnapshotTimes
  <2>2. NoJob \in [started : SnapshotTimes, result : Snapshot]
    BY DEF NoJob, NoSnapshot, Snapshot, SnapshotTimes
  <2>3. CASE CollectStart
    BY <1>2, <2>1, <2>3 DEF CollectStart, SnapshotTimes
  <2>4. CASE CollectEnd
    BY <2>1, <2>4 DEF CollectEnd
  <2>5. CASE DropSnapshot \/ Stop
    BY <2>1, <2>2, <2>5 DEF DropSnapshot, Stop
  <2> QED
    BY <2>3, <2>4, <2>5
<1>4. Worker!TypeOK'
  BY DEF CollectStart, CollectEnd, DropSnapshot, Stop, TypeOK, Worker!TypeOK, Worker!Start,
         Worker!Finish, Worker!HandBack, Worker!Stop, Worker!Discard
<1>5. TypeOK'
  BY <1>1, <1>3, <1>4 DEF TypeOK, appVars, pollVars, SnapshotTimes
<1>6. TickedYoung'
  BY <1>1 DEF TickedYoung, Contract!Young, appVars
<1>7. JobsFollow'
  BY <1>1, <1>2 DEF JobsFollow, appVars, pollVars, CollectStart, CollectEnd, DropSnapshot, Stop,
     Worker!Start, Worker!Finish, Worker!HandBack, Worker!Stop, Worker!Discard, TypeOK, SnapshotTimes
<1>8. Rhythm'
  BY <1>1 DEF Rhythm, appVars, pollVars, CollectStart, CollectEnd, DropSnapshot, Stop,
     Worker!Start, Worker!Finish, Worker!HandBack, Worker!Stop, Worker!Discard
<1> QED
  BY <1>5, <1>6, <1>7, <1>8

(* The MQTT cache changes; what is shown of it stays until the next        *)
(* publication.                                                            *)
LEMMA MqttStep ==
  ASSUME IInv, CloseClients \/ (\E f \in Required : MqttReceive(f)) \/ MqttLose
  PROVE  IInv'
<1> USE DEF IInv
<1>1. UNCHANGED <<now, ticked, job, appVars, pollVars, slot, stopped>>
  BY DEF CloseClients, MqttReceive, MqttLose, workerVars, Worker!Close
<1>2. now \in Nat /\ mqtt \in [Required -> SnapshotTimes]
  BY DEF TypeOK, SnapshotTimes
<1>3. mqtt' \in [Required -> SnapshotTimes]
  BY <1>2 DEF CloseClients, MqttReceive, MqttLose, SnapshotTimes
<1>4. closed' \in BOOLEAN
  BY DEF CloseClients, MqttReceive, MqttLose, workerVars, Worker!Close, TypeOK, Worker!TypeOK
<1>5. TypeOK'
  BY <1>1, <1>3, <1>4 DEF TypeOK, Worker!TypeOK, appVars, pollVars, SnapshotTimes
<1>6. TickedYoung' /\ JobsFollow' /\ Rhythm'
  BY <1>1 DEF TickedYoung, Contract!Young, JobsFollow, Rhythm, appVars, pollVars
<1> QED
  BY <1>5, <1>6

LEMMA StepIInv == IInv /\ [Next]_vars => IInv'
<1> SUFFICES ASSUME IInv, UNCHANGED vars PROVE IInv'
  BY TickStep, AcceptStep, AdvanceStep, WorkerStep, MqttStep DEF Next
<1> QED
  BY DEF vars, IInv, TypeOK, Worker!TypeOK, TickedYoung, Contract!Young, JobsFollow, Rhythm

(* The inductive invariant holds in every reachable state.                 *)
THEOREM Invariance == Spec => []IInv
  BY InitIInv, StepIInv, PTL DEF Spec
(* Every variable keeps its type.                                          *)
THEOREM TypeCorrectness == Spec => []TypeOK
<1>1. IInv => TypeOK
  BY DEF IInv
<1> QED
  BY <1>1, Invariance, PTL

-------------------------------------------------------------------------------
(* The bus implements FreshTelemetry.                                      *)

LEMMA ContractInit == Init => Contract!Init
  BY DEF Init, Contract!Init

(* A step publishes, lets time pass over young readings, or shows nothing  *)
(* new.                                                                    *)
LEMMA ContractStep == IInv /\ [Next]_vars => [Contract!Next]_Contract!vars
<1> SUFFICES ASSUME IInv, [Next]_vars PROVE [Contract!Next]_Contract!vars
  OBVIOUS
<1>1. now \in Nat /\ snapshot \in Snapshot /\ snapshotAt \in SnapshotTimes
      /\ job.result \in Snapshot /\ job.started \in SnapshotTimes
  BY DEF IInv, TypeOK, SnapshotTimes
<1>2. ASSUME NEW snap \in Snapshot, NEW at \in SnapshotTimes,
             bus' = Published(snap, at), now' = now
      PROVE  Contract!Publish
  <2>1. bus' \subseteq Readings /\ \A item \in bus' : Contract!Young(item)
    BY <1>2, PublishedYoung DEF IInv
  <2> QED
    BY <1>2, <2>1 DEF Contract!Publish, Contract!Young, Readings
<1>3. CASE Tick
  BY <1>1, <1>2, <1>3 DEF Tick, Contract!Next
<1>4. CASE AcceptSnapshot
  <2>1. bus' = Published(job.result, job.started) /\ now' = now
    BY <1>4 DEF AcceptSnapshot, Published, Items, CollectedFresh, MqttUsable
  <2> QED
    BY <1>1, <1>2, <2>1 DEF Contract!Next
<1>5. CASE Advance
  BY <1>5 DEF Advance, appVars, IInv, TickedYoung, Contract!Advance, Contract!Next
<1>6. CASE \/ CollectStart \/ CollectEnd \/ DropSnapshot \/ Stop
           \/ CloseClients \/ (\E f \in Required : MqttReceive(f)) \/ MqttLose \/ UNCHANGED vars
  <2>1. UNCHANGED <<now, bus>>
    BY <1>6 DEF CollectStart, CollectEnd, DropSnapshot, Stop, CloseClients, MqttReceive, MqttLose,
       appVars, vars
  <2> QED
    BY <2>1 DEF Contract!vars
<1> QED
  BY <1>3, <1>4, <1>5, <1>6 DEF Next

(* Nothing on the bus outlives its acquisition age, whichever source it    *)
(* came from, however late its result was delivered and for however long   *)
(* jobs take.                                                              *)
THEOREM Refinement == Spec => ImplementsFreshTelemetry
  BY ContractInit, ContractStep, Invariance, PTL DEF Spec, ImplementsFreshTelemetry, Contract!Spec

-------------------------------------------------------------------------------
(* The rhythm of the polls.                                                *)

(* Only a tick submits, when the interval since the last submission is     *)
(* over.                                                                   *)
THEOREM PollSpacing == Spec => PollsAreSpaced
<1> DEFINE Spaced == submittedAt' # submittedAt /\ submittedAt # Never
                       => submittedAt' - submittedAt >= PollInterval
<1>1. IInv /\ [Next]_vars => [Spaced]_vars
  <2> SUFFICES ASSUME IInv, Next, submittedAt' # submittedAt, submittedAt # Never
               PROVE  submittedAt' - submittedAt >= PollInterval
    OBVIOUS
  <2>1. Tick /\ PollDue /\ submittedAt' = now
    BY DEF Next, Tick, CollectStart, CollectEnd, AcceptSnapshot, DropSnapshot, Stop, CloseClients,
       MqttReceive, MqttLose, Advance, pollVars
  <2>2. nextPoll = submittedAt + PollInterval /\ submittedAt \in 0..now /\ now \in Nat
    BY DEF IInv, JobsFollow, TypeOK
  <2>3. now >= submittedAt + PollInterval
    BY <2>1, <2>2, TtlCoversTwoPolls DEF PollDue
  <2> QED
    BY <2>1, <2>2, <2>3, TtlCoversTwoPolls
<1> QED
  BY <1>1, Invariance, PTL DEF Spec, PollsAreSpaced

(* While polls come back within their interval, a usable snapshot is       *)
(* followed by the next before it expires: the charger does not flicker to *)
(* disconnected between two polls, for any interval and timeout.           *)
THEOREM NoFlicker == Spec => StaysConnected
<1> DEFINE Stays == ~stopped /\ bus # {} /\ bus' = {}
                      => ~snapshot'.usable \/ slow' \/ now - submittedAt >= PollInterval
<1>1. IInv /\ [Next]_vars => [Stays]_vars
  <2> SUFFICES ASSUME IInv, Next, ~stopped, bus # {}, bus' = {}, snapshot'.usable, ~slow'
               PROVE  now - submittedAt >= PollInterval
    OBVIOUS
  <2>1. /\ now \in Nat /\ PollInterval \in Nat \ {0} /\ Ttl \in Nat /\ Ttl >= 2 * PollInterval
        /\ snapshot \in Snapshot /\ snapshotAt \in SnapshotTimes
        /\ job.result \in Snapshot /\ job.started \in SnapshotTimes
        /\ submittedAt \in SnapshotTimes
    BY TtlCoversTwoPolls DEF IInv, TypeOK, SnapshotTimes
  <2>2. Tick \/ AcceptSnapshot
    BY DEF Next, CollectStart, CollectEnd, DropSnapshot, Stop, CloseClients,
       MqttReceive, MqttLose, Advance, appVars
  <2>3. CASE Tick
    <3>1. Published(snapshot, snapshotAt) = {} /\ snapshot.usable /\ ~slow
      BY <2>3 DEF Tick
    <3>2. snapshotAt # Never
      BY <3>1 DEF IInv, JobsFollow
    <3>3. ~(now - snapshotAt < Ttl)
      BY <2>1, <3>1, <3>2, WithdrawnIsOld
    <3>4. submittedAt <= snapshotAt + PollInterval
      BY <3>1, <3>2 DEF IInv, Rhythm
    <3> QED
      BY <2>1, <3>2, <3>3, <3>4 DEF SnapshotTimes
  <2>4. CASE AcceptSnapshot
    <3>1. Published(job.result, job.started) = {} /\ job.result.usable
      BY <2>4 DEF AcceptSnapshot, Published, Items, CollectedFresh, MqttUsable
    <3>2. job.started # Never /\ submittedAt <= job.started
      BY <2>4 DEF AcceptSnapshot, Worker!HandBack, IInv, JobsFollow
    <3>3. ~(now - job.started < Ttl)
      BY <2>1, <3>1, <3>2, WithdrawnIsOld
    <3> QED
      BY <2>1, <3>2, <3>3 DEF SnapshotTimes
  <2> QED
    BY <2>2, <2>3, <2>4
<1> QED
  BY <1>1, Invariance, PTL DEF Spec, StaysConnected
================================================================================
