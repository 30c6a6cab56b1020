---------------------------- MODULE TelemetryBridge ----------------------------
(***************************************************************************)
(* The main loop of the bridge (App in dbus_evcharger/main.py): when it    *)
(* polls, which source it publishes and when it withdraws a reading.       *)
(*                                                                         *)
(* The poll worker is the one-job slot that PollWorker implements; the     *)
(* MQTT cache is the receipt stamps that MqttClient keeps.  One unit of    *)
(* time is the period of the GLib timeout that calls tick(), at most one   *)
(* second.  Readings are abstracted to the time they were acquired.        *)
(***************************************************************************)
EXTENDS Integers

CONSTANTS
    PollInterval,  \* config.POLL_INTERVAL
    HaTimeout,     \* config.HA_TIMEOUT
    Fresh,         \* mqtt_client._FRESH_SECONDS
    MaxJob,        \* longest time from the submission of a job to its delivery
    MqttUp,        \* is the MQTT fallback configured
    MaxTime        \* bound of the clock

ASSUME ConstantsAssumption ==
    /\ PollInterval \in Nat \ {0} /\ HaTimeout \in Nat \ {0} /\ Fresh \in Nat \ {0}
    /\ MaxJob \in Nat /\ MaxTime \in Nat
    /\ MqttUp \in BOOLEAN

VARIABLES
    now,          \* time.monotonic()
    ticked,       \* has the tick() of this period run
    slot,         \* the worker's job: "free", "queued", "running" or "ready"
    stopped,      \* PollWorker.stop was called
    closed,       \* the worker has closed the clients
    job,          \* start and result of the job
    snapshot,     \* App._snapshot
    snapshotAt,   \* App._snapshot_at
    nextPoll,     \* App._next_poll_at
    submittedAt,  \* history: when the last job was submitted
    slow,         \* history: was _snapshot delivered a poll interval after that, or later
    mqtt,         \* receipt stamps of the required MQTT fields
    bus           \* the readings the D-Bus service shows; none: /Connected is 0

appVars == <<snapshot, snapshotAt, slow, bus>>
pollVars == <<nextPoll, submittedAt>>
workerVars == <<slot, stopped, closed>>
vars == <<now, ticked, slot, stopped, closed, job, snapshot, snapshotAt, slow,
          nextPoll, submittedAt, mqtt, bus>>

Never == -1
Required == {"status", "power"}

(* Mutated: a snapshot lives for one poll interval.                        *)
TtlShort == IF 3 * HaTimeout > PollInterval THEN 3 * HaTimeout ELSE PollInterval

(* App._publish_snapshot: ttl                                              *)
Ttl == IF 3 * HaTimeout > 2 * PollInterval THEN 3 * HaTimeout ELSE 2 * PollInterval

(* A collected snapshot: does it hold usable charger values, and voltages. *)
Snapshot == [usable : BOOLEAN, volts : BOOLEAN]
NoSnapshot == [usable |-> FALSE, volts |-> FALSE]
NoJob == [started |-> Never, result |-> NoSnapshot]

Worker == INSTANCE JobSlot

Init ==
    /\ now = 0 /\ ticked = FALSE
    /\ Worker!Init
    /\ job = NoJob
    /\ snapshot = NoSnapshot /\ snapshotAt = Never /\ slow = FALSE
    /\ nextPoll = Never /\ submittedAt = Never
    /\ mqtt = [f \in Required |-> Never]
    /\ bus = {}

-------------------------------------------------------------------------------
(* MqttClient.poll: both required fields are within their limit.           *)
MqttUsable == MqttUp /\ \A f \in Required : mqtt[f] # Never /\ now - mqtt[f] < Fresh

(* A snapshot is admitted by the age of its collection's start.            *)
CollectedFresh(at) == at # Never /\ now - at < Ttl

(* What is published of a source with a given condition for each part.     *)
Items(usingHa, usingVolts, at) ==
    LET charger == IF usingHa THEN {[source |-> "ha", at |-> at]}
                   ELSE IF MqttUsable
                   THEN {[source |-> "mqtt", at |-> mqtt[f]] : f \in Required}
                   ELSE {}
        grid == IF usingVolts THEN {[source |-> "grid", at |-> at]} ELSE {}
    IN  IF charger = {} THEN {} ELSE charger \union grid

(* Mutated: the cached voltages outlive their acquisition under MQTT.      *)
PublishedOldVolts(snap, at) ==
    Items(CollectedFresh(at) /\ snap.usable, at # Never /\ snap.volts, at)

(* _publish_snapshot: Home Assistant while its snapshot is fresh and       *)
(* usable, else MQTT while both its fields are; grid voltages ride along   *)
(* only within the age of their acquisition; with no usable source the     *)
(* service is not connected and every measurement is withdrawn.            *)
Published(snap, at) ==
    Items(CollectedFresh(at) /\ snap.usable, CollectedFresh(at) /\ snap.volts, at)

(* tick(): submit a job when one is due and the slot is free, and publish. *)
PollDue == (nextPoll = Never \/ now >= nextPoll) /\ ~stopped

(* Mutated: the next poll is counted from the one before.                  *)
TickCatchUp ==
    /\ ~ticked
    /\ ticked' = TRUE
    /\ IF PollDue /\ slot = "free"
         THEN /\ Worker!Submit
              /\ nextPoll' = (IF nextPoll = Never THEN now ELSE nextPoll) + PollInterval
              /\ submittedAt' = now
         ELSE UNCHANGED <<workerVars, pollVars>>
    /\ bus' = Published(snapshot, snapshotAt)
    /\ UNCHANGED <<now, job, snapshot, snapshotAt, slow, mqtt>>

Tick ==
    /\ ~ticked
    /\ ticked' = TRUE
    /\ IF PollDue /\ slot = "free"
         THEN Worker!Submit /\ nextPoll' = now + PollInterval /\ submittedAt' = now
         ELSE UNCHANGED <<workerVars, pollVars>>
    /\ bus' = Published(snapshot, snapshotAt)
    /\ UNCHANGED <<now, job, snapshot, snapshotAt, slow, mqtt>>

(* The worker takes the job and notes the time.                            *)
CollectStart ==
    /\ Worker!Start
    /\ job' = [job EXCEPT !.started = now]
    /\ UNCHANGED <<now, ticked, appVars, pollVars, mqtt>>

(* _collect_snapshot: Home Assistant's values if usable, grid voltages if  *)
(* a meter answers; an exception leaves neither.                           *)
CollectEnd ==
    /\ Worker!Finish
    /\ \E result \in Snapshot : job' = [job EXCEPT !.result = result]
    /\ UNCHANGED <<now, ticked, appVars, pollVars, mqtt>>

(* _accept_snapshot, run by GLib on the main loop, publishes at once.      *)
AcceptSnapshot ==
    /\ Worker!HandBack /\ ~stopped
    /\ snapshot' = job.result /\ snapshotAt' = job.started
    /\ bus' = Published(snapshot', snapshotAt')
    /\ slow' = (now - submittedAt >= PollInterval)
    /\ job' = NoJob
    /\ UNCHANGED <<now, ticked, pollVars, mqtt>>

(* _deliver after a stop: the result is dropped.                           *)
DropSnapshot ==
    /\ Worker!HandBack /\ stopped
    /\ job' = NoJob
    /\ UNCHANGED <<now, ticked, appVars, pollVars, mqtt>>

(* A stop reaches the worker, which drops a job it has not started and     *)
(* closes the clients.                                                     *)
Stop ==
    /\ Worker!Stop \/ Worker!Discard
    /\ UNCHANGED <<now, ticked, job, appVars, pollVars, mqtt>>

CloseClients ==
    /\ Worker!Close
    /\ mqtt' = [f \in Required |-> Never]
    /\ UNCHANGED <<now, ticked, job, appVars, pollVars>>

(* The MQTT cache receives a field, drops one, or loses its connection.    *)
MqttReceive(f) ==
    /\ MqttUp /\ ~closed
    /\ mqtt' = [mqtt EXCEPT ![f] = now]
    /\ UNCHANGED <<now, ticked, workerVars, job, appVars, pollVars>>

MqttLose ==
    /\ MqttUp
    /\ \E lost \in (SUBSET Required) \ {{}} :
         mqtt' = [f \in Required |-> IF f \in lost THEN Never ELSE mqtt[f]]
    /\ UNCHANGED <<now, ticked, workerVars, job, appVars, pollVars>>

(* A period passes after its tick: GLib is not starved.  A job takes no    *)
(* more than MaxJob.                                                       *)
Advance ==
    /\ ticked /\ now < MaxTime
    /\ slot # "free" => now - submittedAt < MaxJob
    /\ now' = now + 1
    /\ ticked' = FALSE
    /\ UNCHANGED <<workerVars, job, appVars, pollVars, mqtt>>

Next ==
    \/ Tick \/ CollectStart \/ CollectEnd \/ AcceptSnapshot \/ DropSnapshot
    \/ Stop \/ CloseClients
    \/ (\E f \in Required : MqttReceive(f)) \/ MqttLose
    \/ Advance

Spec == Init /\ [][Next]_vars

-------------------------------------------------------------------------------
(* Properties.                                                             *)

TypeOK ==
    /\ now \in Nat /\ ticked \in BOOLEAN
    /\ Worker!TypeOK
    /\ job \in [started : {Never} \union 0..now, result : Snapshot]
    /\ snapshot \in Snapshot /\ slow \in BOOLEAN /\ snapshotAt \in {Never} \union 0..now
    /\ nextPoll \in {Never} \union 0..(now + PollInterval)
    /\ submittedAt \in {Never} \union 0..now
    /\ mqtt \in [Required -> {Never} \union 0..now]
    /\ bus \subseteq [source : {"ha", "mqtt", "grid"}, at : 0..now]

Contract == INSTANCE FreshTelemetry WITH
    Sources <- {"ha", "mqtt", "grid"},
    Limit <- [s \in {"ha", "mqtt", "grid"} |-> IF s = "mqtt" THEN Fresh ELSE Ttl],
    shown <- bus

(* Nothing on the bus outlives its acquisition age, whichever source it    *)
(* came from, however late its result was delivered, and although sources  *)
(* change between ticks.                                                   *)
ImplementsFreshTelemetry == Contract!Spec

(* The charger never flickers to disconnected between two polls: a         *)
(* snapshot with usable values is withdrawn only if it was delivered, or   *)
(* the poll after it has been under way, for a poll interval.              *)
StaysConnected ==
    [][~stopped /\ bus # {} /\ bus' = {}
         => ~snapshot'.usable \/ slow' \/ now - submittedAt >= PollInterval]_vars

(* However late a job comes back, Home Assistant is never polled more      *)
(* often than once per interval.                                           *)
PollsAreSpaced ==
    [][submittedAt' # submittedAt /\ submittedAt # Never
         => submittedAt' - submittedAt >= PollInterval]_vars
(* What the bus shows when the period is over is young: the tick of the    *)
(* period has seen to it, and nothing published since was older.           *)
TickedYoung == ticked => \A item \in bus : Contract!Young(item)

(* A job begins after its submission, which sets the time of the next.     *)
JobsFollow ==
    /\ nextPoll = IF submittedAt = Never THEN Never ELSE submittedAt + PollInterval
    /\ slot # "free" => submittedAt # Never
    /\ slot \in {"running", "ready"} => job.started # Never /\ submittedAt <= job.started
    /\ snapshotAt # Never => submittedAt # Never
    /\ snapshotAt = Never => ~snapshot.usable

(* The rhythm of the polls: after a snapshot that was delivered in time    *)
(* the next job is submitted as soon as it is due, so within an interval   *)
(* of that snapshot's collection.                                          *)
Rhythm ==
    ~stopped /\ ~slow /\ snapshotAt # Never =>
        /\ submittedAt <= snapshotAt + PollInterval
        /\ slot = "free" =>
              /\ submittedAt <= snapshotAt
              /\ now < nextPoll \/ (now = nextPoll /\ ~ticked)

(* The inductive invariant.                                                *)
IInv == TypeOK /\ TickedYoung /\ JobsFollow /\ Rhythm
=============================================================================
