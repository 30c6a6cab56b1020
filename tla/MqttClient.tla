------------------------------ MODULE MqttClient ------------------------------
(***************************************************************************)
(* The MQTT fallback source (dbus_evcharger/mqtt_client.py): a cache of    *)
(* the last value of each topic, filled by the paho network thread, read   *)
(* by the main loop, and torn down by the poll worker at shutdown.         *)
(*                                                                         *)
(* Three threads share two locks.  _lifecycle_lock is held across blocking *)
(* calls and is a variable here.  _lock guards the cache; its critical     *)
(* sections in the callbacks do not block and are single steps.  The one   *)
(* in disconnect() is two, because its end matters ("a final callback may  *)
(* need that lock"), and so is the one in poll(), which a signal handler   *)
(* may preempt (module Shutdown).                                          *)
(*                                                                         *)
(* A stored value is the reading it stands for: the broker connection      *)
(* (epoch) in which it was published and the time it reached the broker's  *)
(* client.  paho and the broker are external.                              *)
(***************************************************************************)
EXTENDS Integers

CONSTANTS
    Fields,     \* the topics of _FIELDS
    Fresh,      \* _FRESH_SECONDS
    Retained,   \* the fields whose publisher sets the retain flag
    MaxTime,    \* bound of the clock
    MaxEpoch    \* bound of the number of accepted connections

ASSUME ConstantsAssumption ==
    /\ Fresh \in Nat \ {0}
    /\ Retained \subseteq Fields
    /\ MaxTime \in Nat
    /\ MaxEpoch \in Nat

VARIABLES
    now,         \* time.monotonic()
    life,        \* who holds _lifecycle_lock: "free", "main" or "worker"
    cache,       \* who holds _lock across a step: "free", "main" or "worker"
    created,     \* _client is not None
    started,     \* _started
    closed,      \* _closed
    connected,   \* _connected
    snapshot,    \* _snapshot: the reading stored for each field
    received,    \* _received_at: its stamp, Never when the field is absent
    retryAfter,  \* _retry_after
    mpc,         \* main loop, inside poll()
    dpc,         \* worker, inside disconnect()
    ppc,         \* paho thread
    msg,         \* the message _on_message let through its gate
    loop,        \* paho's network thread: "off", "on" or "stopping"
    net,         \* is the client connected to the broker
    epoch,       \* number of accepted connections so far
    replay       \* fields whose retained message the broker still owes

clientVars == <<life, created, started, retryAfter>>
cacheVars == <<closed, connected, snapshot, received>>
brokerVars == <<net, epoch, replay>>
vars == <<now, life, cache, created, started, closed, connected, snapshot, received,
          retryAfter, mpc, dpc, ppc, msg, loop, net, epoch, replay>>

Never == -1
NoReading == [epoch |-> 0, at |-> 0]
Reading == [epoch : Nat, at : Nat]

(* _received_at.clear()                                                    *)
Cleared == [f \in Fields |-> Never]

Init ==
    /\ now = 0
    /\ life = "free" /\ cache = "free"
    /\ created = FALSE /\ started = FALSE /\ closed = FALSE /\ connected = FALSE
    /\ snapshot = [f \in Fields |-> NoReading]
    /\ received = Cleared
    /\ retryAfter = 0
    /\ mpc = "idle" /\ dpc = "idle" /\ ppc = "idle"
    /\ msg = [field |-> "none"]
    /\ loop = "off"
    /\ net = FALSE /\ epoch = 0 /\ replay = {}

(* The fields poll() returns a value for.                                  *)
Exposed ==
    {f \in Fields : /\ connected /\ ~closed
                    /\ received[f] # Never
                    /\ now - received[f] < Fresh}

-------------------------------------------------------------------------------
(* Main loop: poll(), and _connect() inside it.                            *)

PollStart ==
    /\ mpc = "idle"
    /\ mpc' = IF now >= retryAfter THEN "lock" ELSE "read"
    /\ UNCHANGED <<now, cache, clientVars, cacheVars, dpc, ppc, msg, loop, brokerVars>>

ConnectLock ==
    /\ mpc = "lock"
    /\ life = "free"
    /\ life' = "main"
    /\ mpc' = "connect"
    /\ UNCHANGED <<now, cache, created, started, retryAfter, cacheVars, dpc, ppc, msg,
                   loop, brokerVars>>

(* Nothing to do: closed, or the loop already runs.                        *)
ConnectReturn ==
    /\ mpc = "connect"
    /\ closed \/ started
    /\ life' = "free"
    /\ mpc' = "read"
    /\ UNCHANGED <<now, cache, created, started, retryAfter, cacheVars, dpc, ppc, msg,
                   loop, brokerVars>>

(* Mutated: _connect does not look at _closed.                             *)
ConnectStartReopens ==
    /\ mpc = "connect"
    /\ ~started
    /\ created' = TRUE /\ started' = TRUE
    /\ loop' = "on"
    /\ life' = "free"
    /\ mpc' = "read"
    /\ UNCHANGED <<now, cache, retryAfter, cacheVars, dpc, ppc, msg, brokerVars>>

(* The client is made once, connect_async records the target and           *)
(* loop_start starts the network thread.                                   *)
ConnectStart ==
    /\ mpc = "connect"
    /\ ~closed /\ ~started
    /\ created' = TRUE /\ started' = TRUE
    /\ loop' = "on"
    /\ life' = "free"
    /\ mpc' = "read"
    /\ UNCHANGED <<now, cache, retryAfter, cacheVars, dpc, ppc, msg, brokerVars>>

(* The import, the constructor or connect_async raises: retry later.       *)
ConnectFail ==
    /\ mpc = "connect"
    /\ ~closed /\ ~started
    /\ created' \in {created, TRUE}
    /\ life' = "free"
    /\ retryAfter' = now + Fresh
    /\ mpc' = "read"
    /\ UNCHANGED <<now, cache, started, cacheVars, dpc, ppc, msg, loop, brokerVars>>

(* Under _lock, return the fields of Exposed.                              *)
PollLock ==
    /\ mpc = "read"
    /\ cache = "free"
    /\ cache' = "main"
    /\ mpc' = "copy"
    /\ UNCHANGED <<now, clientVars, cacheVars, dpc, ppc, msg, loop, brokerVars>>

PollRead ==
    /\ mpc = "copy"
    /\ cache' = "free"
    /\ mpc' = "idle"
    /\ UNCHANGED <<now, clientVars, cacheVars, dpc, ppc, msg, loop, brokerVars>>

-------------------------------------------------------------------------------
(* paho network thread: the callbacks.                                     *)

(* _on_connect, accepted: under _lock, connected and no stamp survives.    *)
OnConnect ==
    /\ loop # "off" /\ ppc = "idle" /\ ~net
    /\ epoch < MaxEpoch
    /\ cache = "free"
    /\ net' = TRUE
    /\ epoch' = epoch + 1
    /\ IF closed
         THEN UNCHANGED <<connected, received, ppc>>
         ELSE connected' = TRUE /\ received' = Cleared /\ ppc' = "subscribe"
    /\ UNCHANGED <<now, cache, clientVars, closed, snapshot, mpc, dpc, msg, loop, replay>>

(* _on_connect, refused by the broker.                                     *)
OnConnectRefused ==
    /\ loop # "off" /\ ppc = "idle" /\ ~net
    /\ cache = "free"
    /\ IF closed
         THEN UNCHANGED <<connected, received>>
         ELSE connected' = FALSE /\ received' = Cleared
    /\ UNCHANGED <<now, cache, clientVars, closed, snapshot, mpc, dpc, ppc, msg, loop, brokerVars>>

(* The subscriptions of _on_connect, outside the lock.  For each the       *)
(* broker sends the retained message of the topic, if it has one.          *)
Subscribe ==
    /\ ppc = "subscribe"
    /\ ppc' = "idle"
    /\ replay' = {f \in Retained : ~closed /\ snapshot[f] # NoReading}
    /\ UNCHANGED <<now, cache, clientVars, cacheVars, mpc, dpc, msg, loop, net, epoch>>

(* Mutated: a lost connection keeps the receipt stamps.                    *)
OnDisconnectKeeps ==
    /\ loop # "off" /\ ppc = "idle" /\ net
    /\ cache = "free"
    /\ net' = FALSE /\ replay' = {}
    /\ connected' = FALSE
    /\ UNCHANGED <<now, cache, clientVars, closed, snapshot, received, mpc, dpc, ppc, msg, loop,
                   epoch>>

(* _on_disconnect                                                          *)
OnDisconnect ==
    /\ loop # "off" /\ ppc = "idle" /\ net
    /\ cache = "free"
    /\ net' = FALSE /\ replay' = {}
    /\ connected' = FALSE /\ received' = Cleared
    /\ UNCHANGED <<now, cache, clientVars, closed, snapshot, mpc, dpc, ppc, msg, loop, epoch>>

(* The gate of _on_message, under _lock: nothing passes once disconnected  *)
(* or closed.  The lock is then released and the payload decoded.          *)
Gate(m) ==
    /\ loop # "off" /\ ppc = "idle" /\ net
    /\ cache = "free"
    /\ connected /\ ~closed
    /\ msg' = m
    /\ ppc' = "store"

(* A message published now.                                                *)
OnMessage(f, valid) ==
    /\ Gate([field |-> f, valid |-> valid, reading |-> [epoch |-> epoch, at |-> now]])
    /\ UNCHANGED <<now, cache, clientVars, cacheVars, mpc, dpc, loop, brokerVars>>

(* The retained message of a topic: the reading published last.            *)
OnRetained(f) ==
    /\ f \in replay
    /\ Gate([field |-> f, valid |-> TRUE, reading |-> snapshot[f]])
    /\ replay' = replay \ {f}
    /\ UNCHANGED <<now, cache, clientVars, cacheVars, mpc, dpc, loop, net, epoch>>

(* Mutated: any topic renews every stamp.                                  *)
UpdateFieldRenewsAll ==
    /\ ppc = "store"
    /\ cache = "free"
    /\ ~closed
    /\ snapshot' = [snapshot EXCEPT ![msg.field] = IF msg.valid THEN msg.reading ELSE NoReading]
    /\ received' = [f \in Fields |->
                      IF f = msg.field
                        THEN IF msg.valid THEN now ELSE Never
                        ELSE IF received[f] = Never THEN Never ELSE now]
    /\ ppc' = "idle" /\ msg' = [field |-> "none"]
    /\ UNCHANGED <<now, cache, clientVars, closed, connected, mpc, dpc, loop, brokerVars>>

(* _update_field, under _lock: an invalid payload drops the field, a valid *)
(* one is stored and stamped unless the client was closed meanwhile.       *)
UpdateField ==
    /\ ppc = "store"
    /\ cache = "free"
    /\ IF ~msg.valid
         THEN /\ snapshot' = [snapshot EXCEPT ![msg.field] = NoReading]
              /\ received' = [received EXCEPT ![msg.field] = Never]
         ELSE IF closed
         THEN UNCHANGED <<snapshot, received>>
         ELSE /\ snapshot' = [snapshot EXCEPT ![msg.field] = msg.reading]
              /\ received' = [received EXCEPT ![msg.field] = now]
    /\ ppc' = "idle" /\ msg' = [field |-> "none"]
    /\ UNCHANGED <<now, cache, clientVars, closed, connected, mpc, dpc, loop, brokerVars>>

(* loop_stop() waits for this: the network thread ends between callbacks.  *)
LoopEnd ==
    /\ loop = "stopping" /\ ppc = "idle"
    /\ loop' = "off"
    /\ net' = FALSE /\ replay' = {}
    /\ UNCHANGED <<now, cache, clientVars, cacheVars, mpc, dpc, ppc, msg, epoch>>

-------------------------------------------------------------------------------
(* Poll worker, closing the clients: disconnect().                         *)

(* _close_clients reaches the MQTT client.                                 *)
DisconnectStart ==
    /\ dpc = "idle"
    /\ dpc' = "lock"
    /\ UNCHANGED <<now, cache, clientVars, cacheVars, mpc, ppc, msg, loop, brokerVars>>

DisconnectLock ==
    /\ dpc = "lock"
    /\ life = "free"
    /\ life' = "worker"
    /\ dpc' = "cacheLock"
    /\ UNCHANGED <<now, cache, created, started, retryAfter, cacheVars, mpc, ppc, msg, loop,
                   brokerVars>>

DisconnectCacheLock ==
    /\ dpc = "cacheLock"
    /\ cache = "free"
    /\ cache' = "worker"
    /\ dpc' = "mark"
    /\ UNCHANGED <<now, clientVars, cacheVars, mpc, ppc, msg, loop, brokerVars>>

(* Mutated: the cache lock is kept until the client has stopped.           *)
DisconnectMarkHolding ==
    /\ dpc = "mark"
    /\ closed' = TRUE /\ connected' = FALSE /\ received' = Cleared
    /\ dpc' = IF created THEN "stop" ELSE "release"
    /\ UNCHANGED <<now, cache, clientVars, snapshot, mpc, ppc, msg, loop, brokerVars>>

DisconnectMark ==
    /\ dpc = "mark"
    /\ closed' = TRUE /\ connected' = FALSE /\ received' = Cleared
    /\ cache' = "free"
    /\ dpc' = IF created THEN "stop" ELSE "release"
    /\ UNCHANGED <<now, clientVars, snapshot, mpc, ppc, msg, loop, brokerVars>>

(* client.disconnect(), then loop_stop() even if it raised.                *)
DisconnectStop ==
    /\ dpc = "stop"
    /\ loop' = IF loop = "on" THEN "stopping" ELSE loop
    /\ dpc' = "join"
    /\ UNCHANGED <<now, cache, clientVars, cacheVars, mpc, ppc, msg, brokerVars>>

DisconnectJoin ==
    /\ dpc = "join"
    /\ loop = "off"
    /\ started' = FALSE
    /\ dpc' = "release"
    /\ UNCHANGED <<now, cache, life, created, retryAfter, cacheVars, mpc, ppc, msg, loop,
                   brokerVars>>

DisconnectRelease ==
    /\ dpc = "release"
    /\ life' = "free"
    /\ dpc' = "done"
    /\ UNCHANGED <<now, cache, created, started, retryAfter, cacheVars, mpc, ppc, msg, loop, brokerVars>>

-------------------------------------------------------------------------------
(* A callback takes no time on the clock of the model, unless it waits for *)
(* the worker's critical section; the one of poll() takes none.            *)
Tick ==
    /\ now < MaxTime
    /\ mpc # "copy"
    /\ ppc = "store" => cache # "free"
    /\ now' = now + 1
    /\ UNCHANGED <<cache, clientVars, cacheVars, mpc, dpc, ppc, msg, loop, brokerVars>>

MainStep ==
    ConnectLock \/ ConnectReturn \/ ConnectStart \/ ConnectFail \/ PollLock \/ PollRead

PahoCallback == Subscribe \/ UpdateField \/ LoopEnd

PahoEvent ==
    \/ OnConnect \/ OnConnectRefused \/ OnDisconnect
    \/ \E f \in Fields : OnRetained(f) \/ \E valid \in BOOLEAN : OnMessage(f, valid)

WorkerStep ==
    \/ DisconnectLock \/ DisconnectCacheLock \/ DisconnectMark
    \/ DisconnectStop \/ DisconnectJoin \/ DisconnectRelease

-------------------------------------------------------------------------------
(* Properties.                                                             *)

Message == [field : Fields, valid : BOOLEAN, reading : Reading]

ControlTypeOK ==
    /\ life \in {"free", "main", "worker"} /\ cache \in {"free", "main", "worker"}
    /\ mpc \in {"idle", "lock", "connect", "read", "copy"}
    /\ dpc \in {"idle", "lock", "cacheLock", "mark", "stop", "join", "release", "done"}
    /\ ppc \in {"idle", "subscribe", "store"}
    /\ loop \in {"off", "on", "stopping"}

FlagTypeOK ==
    /\ created \in BOOLEAN /\ started \in BOOLEAN
    /\ closed \in BOOLEAN /\ connected \in BOOLEAN
    /\ net \in BOOLEAN

DataTypeOK ==
    /\ now \in 0..MaxTime
    /\ snapshot \in [Fields -> Reading]
    /\ received \in [Fields -> {Never} \union 0..now]
    /\ retryAfter \in Nat
    /\ ppc = "store" => msg \in Message
    /\ epoch \in Nat /\ replay \subseteq Fields

TypeOK == ControlTypeOK /\ FlagTypeOK /\ DataTypeOK

(* Outside a live connection no receipt stamp exists, so nothing received  *)
(* before a loss or before disconnect() can be exposed after it, although  *)
(* the paho thread may store a message whose gate it passed earlier.       *)
NoStampWithoutConnection == closed \/ ~connected => received = Cleared

(* Whenever no thread is inside _connect or disconnect, the started flag   *)
(* tells whether paho's loop runs: a failed setup is retried, a loop is    *)
(* never started twice, and none is left behind.  After disconnect() no    *)
(* loop runs at all, whatever poll() did at the same time and does later.  *)
LoopAccountedFor ==
    /\ life = "free" => (started <=> loop = "on")
    /\ dpc = "done" => loop = "off"
=============================================================================
