------------------------------- MODULE Shutdown -------------------------------
(***************************************************************************)
(* The MQTT client under the shutdown of dbus_evcharger/main.py.  A SIGTERM *)
(* preempts the main thread wherever it is, inside poll() or _connect() and *)
(* with the locks it holds there.  Its handler stops the poll worker and   *)
(* joins it for at most JoinLimit (worker.py: stop); the interrupted code  *)
(* goes on only after that.  The worker, out of its job, closes the        *)
(* clients, and needs those locks.                                         *)
(***************************************************************************)
EXTENDS MqttClient

CONSTANT JoinLimit      \* timeout of PollWorker.stop

ASSUME JoinLimitAssumption == JoinLimit \in Nat

VARIABLES
    hpc,        \* handler: "none", "join", "quit" and "last" after it, "exited"
    deadline    \* when the join gives up

shutdownVars == <<hpc, deadline>>
allVars == <<vars, shutdownVars>>

ShutdownInit ==
    /\ Init
    /\ hpc = "none"
    /\ deadline = 0

Running == hpc # "exited"

(* The main thread runs its own code, not the handler.                     *)
MainRuns == hpc \notin {"join", "exited"}

-------------------------------------------------------------------------------
(* A poll of the main loop.                                                *)
PollBegins ==
    /\ hpc = "none"
    /\ PollStart
    /\ UNCHANGED shutdownVars

(* quit() ends the loop after the iteration it is called in, which may     *)
(* still run a tick that is due.                                           *)
LastPoll ==
    /\ hpc = "quit"
    /\ PollStart
    /\ hpc' = "last"
    /\ UNCHANGED deadline

MainGoesOn ==
    /\ MainRuns
    /\ MainStep
    /\ UNCHANGED shutdownVars

(* _stop: the worker is told to stop, then joined.  No signal comes so     *)
(* late that the bounded clock could not reach the end of the join.        *)
SignalArrives ==
    /\ hpc = "none"
    /\ now + JoinLimit <= MaxTime
    /\ hpc' = "join"
    /\ deadline' = now + JoinLimit
    /\ UNCHANGED vars

(* Mutated: the handler joins again when the join has timed out.           *)
HandlerJoinsAgain ==
    /\ hpc = "join"
    /\ dpc = "done" \/ now >= deadline
    /\ hpc' = IF dpc = "done" THEN "quit" ELSE "join"
    /\ deadline' = IF dpc = "done" THEN 0 ELSE MaxTime
    /\ UNCHANGED vars

(* The worker has ended, or the join gives up; then mainloop.quit().       *)
HandlerReturns ==
    /\ hpc = "join"
    /\ dpc = "done" \/ now >= deadline
    /\ hpc' = "quit"
    /\ deadline' = 0
    /\ UNCHANGED vars

(* run() returns; the daemon threads end with the process, and nothing of  *)
(* its state is left.                                                      *)
ProcessExits ==
    /\ hpc \in {"quit", "last"}
    /\ mpc = "idle"
    /\ hpc' = "exited"
    /\ life' = "free" /\ cache' = "free"
    /\ created' = FALSE /\ started' = FALSE /\ closed' = FALSE /\ connected' = FALSE
    /\ snapshot' = [f \in Fields |-> NoReading] /\ received' = Cleared
    /\ retryAfter' = 0
    /\ dpc' = "idle" /\ ppc' = "idle" /\ msg' = [field |-> "none"]
    /\ loop' = "off" /\ net' = FALSE /\ epoch' = 0 /\ replay' = {}
    /\ UNCHANGED <<now, mpc, deadline>>

(* The worker finds _stopping after its job and closes the clients.        *)
WorkerCloses ==
    /\ hpc \in {"join", "quit", "last"}
    /\ DisconnectStart
    /\ UNCHANGED shutdownVars

WorkerGoesOn ==
    /\ Running
    /\ WorkerStep
    /\ UNCHANGED shutdownVars

PahoGoesOn ==
    /\ Running
    /\ PahoCallback
    /\ UNCHANGED shutdownVars

NetworkEvent ==
    /\ Running
    /\ PahoEvent
    /\ UNCHANGED shutdownVars

TimePasses ==
    /\ MainRuns
    /\ Tick
    /\ UNCHANGED shutdownVars

(* Up to the end of the join time passes, also for a main thread that was  *)
(* preempted in its critical section and a callback that waits for it.     *)
TimePassesInJoin ==
    /\ hpc = "join"
    /\ now < deadline
    /\ now' = now + 1
    /\ UNCHANGED <<cache, clientVars, cacheVars, mpc, dpc, ppc, msg, loop, brokerVars, shutdownVars>>

(* After the exit, and at the bound of the clock, nothing need happen.     *)
Rest ==
    /\ hpc = "exited" \/ now = MaxTime
    /\ UNCHANGED allVars

ShutdownNext ==
    \/ PollBegins \/ LastPoll \/ MainGoesOn
    \/ SignalArrives \/ HandlerReturns \/ ProcessExits
    \/ WorkerCloses \/ WorkerGoesOn
    \/ PahoGoesOn \/ NetworkEvent
    \/ TimePasses \/ TimePassesInJoin \/ Rest

(* Each thread goes on as long as it can, and the time of the join passes. *)
(* A job ends, because its requests have timeouts.  The locks need no more: *)
(* after the signal the main thread takes them a few times only.           *)
ShutdownFairness ==
    /\ WF_allVars(MainGoesOn \/ HandlerReturns \/ ProcessExits)
    /\ WF_allVars(WorkerCloses \/ WorkerGoesOn)
    /\ WF_allVars(PahoGoesOn)
    /\ WF_allVars(TimePassesInJoin)

ShutdownSpec == ShutdownInit /\ [][ShutdownNext]_allVars
FairShutdownSpec == ShutdownSpec /\ ShutdownFairness

-------------------------------------------------------------------------------
(* Invariants.                                                             *)

ShutdownTypeOK ==
    /\ TypeOK
    /\ hpc \in {"none", "join", "quit", "last", "exited"}
    /\ deadline \in Nat

(* Who is where tells who holds which lock.                                *)
LocksHeld ==
    /\ life = "main" <=> mpc = "connect"
    /\ life = "worker" <=> dpc \in {"cacheLock", "mark", "stop", "join", "release"}
    /\ cache = "main" <=> mpc = "copy"
    /\ cache = "worker" <=> dpc = "mark"

(* How far disconnect() has come, and what of paho's loop is left then.    *)
LoopByStep ==
    /\ started => created
    /\ dpc \in {"stop", "join", "release", "done"} => closed
    /\ dpc \in {"idle", "lock", "cacheLock", "mark", "stop"} => (IF started THEN loop = "on" ELSE loop = "off")
    /\ dpc = "stop" => created
    /\ dpc = "join" => loop # "on"
    /\ dpc \in {"release", "done"} => ~started /\ loop = "off"

(* A message that passed the gate finds the connection it came by, unless  *)
(* the client was closed meanwhile.                                        *)
StoresConnected == ppc = "store" /\ ~closed => connected

(* The join ends JoinLimit after the signal.                               *)
JoinOnTime ==
    hpc = "join" => /\ now <= deadline
                    /\ deadline <= now + JoinLimit
                    /\ deadline <= MaxTime

(* What a stop adds to the age of a reading.                               *)
Late == IF hpc = "none" THEN 0 ELSE JoinLimit

(* A message on its way to the cache, and a reading in it.                 *)
ReadingsGenuine ==
    /\ replay \subseteq Retained
    /\ ppc = "store" /\ ~closed /\ msg.field \notin Retained =>
          /\ msg.reading.epoch = epoch
          /\ dpc # "mark" =>
                /\ now <= msg.reading.at + Late
                /\ hpc = "join" => deadline <= msg.reading.at + JoinLimit
    /\ ~closed => \A f \in Fields \ Retained : received[f] # Never =>
          snapshot[f].epoch = epoch /\ received[f] <= snapshot[f].at + Late

IInv ==
    /\ ShutdownTypeOK /\ LocksHeld /\ LoopByStep
    /\ StoresConnected /\ NoStampWithoutConnection
    /\ JoinOnTime /\ ReadingsGenuine

-------------------------------------------------------------------------------
(* Properties.                                                             *)

(* Without the retain flag, what poll() exposes is a reading of the        *)
(* current broker connection and is younger than the freshness limit: no   *)
(* other topic, retained or not, and no reconnection renews it.  Only a    *)
(* stop may add to the age, by no more than the handler waits, when it     *)
(* keeps a callback from the lock of the poll it preempted.                *)
ExposedIsGenuine ==
    \A f \in Exposed \ Retained :
        /\ snapshot[f].epoch = epoch
        /\ now - snapshot[f].at < Fresh + (IF hpc = "none" THEN 0 ELSE JoinLimit)

(* disconnect() and the callback that its loop_stop() waits for never wait *)
(* for each other ("a final callback may need that lock"), nor for a lock  *)
(* that nobody will release: while disconnect() is under way, one of the   *)
(* worker and the paho thread can go on, unless the main thread is inside  *)
(* a critical section of its own, where a signal may have stopped it.      *)
DisconnectNeverStuck ==
    dpc \notin {"idle", "done"} /\ mpc \notin {"connect", "copy"}
        => ENABLED (WorkerStep \/ PahoCallback)

(* SIGTERM ends the process although the handler waits for a worker that   *)
(* waits for a lock of the very thread the handler preempted.              *)
ShutdownExits == hpc = "join" ~> hpc = "exited"
=============================================================================
