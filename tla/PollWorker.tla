------------------------------ MODULE PollWorker ------------------------------
(***************************************************************************)
(* The background poll worker (dbus_evcharger/worker.py) and the main      *)
(* thread that owns it (App.tick, App.serve and the signal handler of      *)
(* dbus_evcharger/main.py).                                                *)
(*                                                                         *)
(* Two threads: the GLib main loop submits at most one job and receives    *)
(* its result through GLib.idle_add; the worker blocks on a queue of       *)
(* capacity one.  A signal handler is Python code that runs on the main    *)
(* thread between any two of its bytecodes, so it can preempt poll() and   *)
(* _deliver() half way, and a second signal can preempt the first handler. *)
(*                                                                         *)
(* queue.Queue and threading.Event are external.  Each has a non-reentrant *)
(* lock: a put holds the queue's, which the model shows as the program     *)
(* points "inPut", and Event.set() holds the event's, at the points        *)
(* "inSet" and "notify", before and after it sets the flag.  is_set()      *)
(* takes no lock.                                                          *)
(***************************************************************************)
EXTENDS Naturals

CONSTANTS
    MaxSignals,   \* how many SIGTERM/SIGINT the process receives
    EarlySignal   \* may one arrive between signal.signal and mainloop.run

ASSUME ConstantsAssumption ==
    /\ MaxSignals \in Nat
    /\ EarlySignal \in BOOLEAN

VARIABLES
    mpc,       \* where the main thread is, under any signal handler
    hpc,       \* where the handler of each signal is
    running,   \* GLib.MainLoop's own running flag
    pending,   \* PollWorker._pending
    stopping,  \* PollWorker._stopping
    queue,     \* PollWorker._queue, maxsize 1
    idle,      \* number of _deliver calls GLib holds as idle sources
    wpc,       \* where the worker thread is
    item       \* what the worker last took from the queue

mainVars == <<mpc, hpc, running, pending, stopping>>
vars == <<mpc, hpc, running, pending, stopping, queue, idle, wpc, item>>

Signals == 1..MaxSignals

MainPoints == {"starting", "loop", "mark", "put", "inPut", "late", "callback", "exit"}
HandlerPoints ==
    {"none", "set", "inSet", "notify", "put", "inPut", "join", "quit", "done"}
WorkerPoints == {"while", "get", "check", "collect", "dispatch", "close", "done"}

-------------------------------------------------------------------------------
(* The main thread executes its latest unfinished signal handler, and its  *)
(* own code only when there is none.                                       *)

Active(i) == hpc[i] \notin {"none", "done"}
OnTop(i) == Active(i) /\ \A j \in Signals : j > i => ~Active(j)
MainRuns == \A i \in Signals : ~Active(i)

(* Queue.mutex is free: no code of the main thread is inside a put.        *)
MutexFree == mpc # "inPut" /\ \A i \in Signals : hpc[i] # "inPut"

(* The event's lock is free: only stop() sets the event, so only handlers  *)
(* take it.                                                                *)
EventFree == \A i \in Signals : hpc[i] \notin {"inSet", "notify"}

Init ==
    /\ mpc = "starting"
    /\ hpc = [i \in Signals |-> "none"]
    /\ running = FALSE
    /\ pending = FALSE
    /\ stopping = FALSE
    /\ queue = "empty"
    /\ idle = 0
    /\ wpc = "while"
    /\ item = "none"

-------------------------------------------------------------------------------
(* Main thread.                                                            *)

(* mainloop.run(): GLib sets its running flag, whatever quit() did before. *)
RunLoop ==
    /\ mpc = "starting" /\ MainRuns
    /\ mpc' = "loop"
    /\ running' = TRUE
    /\ UNCHANGED <<hpc, pending, stopping, queue, idle, wpc, item>>

(* Mutated: poll() forgets to look at _pending.                            *)
PollAcceptWhilePending ==
    /\ mpc = "loop" /\ MainRuns /\ running
    /\ ~stopping
    /\ mpc' = "mark"
    /\ UNCHANGED <<hpc, running, pending, stopping, queue, idle, wpc, item>>

(* App.tick finds a poll due and PollWorker.poll passes its two checks.    *)
PollAccept ==
    /\ mpc = "loop" /\ MainRuns /\ running
    /\ ~pending /\ ~stopping
    /\ mpc' = "mark"
    /\ UNCHANGED <<hpc, running, pending, stopping, queue, idle, wpc, item>>

PollMark ==
    /\ mpc = "mark" /\ MainRuns
    /\ pending' = TRUE
    /\ mpc' = "put"
    /\ UNCHANGED <<hpc, running, stopping, queue, idle, wpc, item>>

PollLock ==
    /\ mpc = "put" /\ MainRuns
    /\ mpc' = "inPut"
    /\ UNCHANGED <<hpc, running, pending, stopping, queue, idle, wpc, item>>

(* put_nowait stores the callback; on a full queue it raises queue.Full    *)
(* out of tick(), with _pending still set.                                 *)
PollPut ==
    /\ mpc = "inPut" /\ MainRuns
    /\ queue' = IF queue = "empty" THEN "job" ELSE queue
    /\ mpc' = "loop"
    /\ UNCHANGED <<hpc, running, pending, stopping, idle, wpc, item>>

(* GLib runs a queued _deliver: it clears _pending first.                  *)
Deliver ==
    /\ mpc = "loop" /\ MainRuns /\ running
    /\ idle > 0
    /\ idle' = idle - 1
    /\ pending' = FALSE
    /\ mpc' = "late"
    /\ UNCHANGED <<hpc, running, stopping, queue, wpc, item>>

(* A result that arrives after the stop is dropped.                        *)
DeliverCheck ==
    /\ mpc = "late" /\ MainRuns
    /\ mpc' = IF stopping THEN "loop" ELSE "callback"
    /\ UNCHANGED <<hpc, running, pending, stopping, queue, idle, wpc, item>>

DeliverCallback ==
    /\ mpc = "callback" /\ MainRuns
    /\ mpc' = "loop"
    /\ UNCHANGED <<hpc, running, pending, stopping, queue, idle, wpc, item>>

(* mainloop.run() returns and the process ends; the worker is a daemon.    *)
Exit ==
    /\ mpc = "loop" /\ MainRuns /\ ~running
    /\ mpc' = "exit"
    /\ UNCHANGED <<hpc, running, pending, stopping, queue, idle, wpc, item>>

-------------------------------------------------------------------------------
(* Signal handler _stop: App.shutdown, PollWorker.stop, mainloop.quit.     *)

Signal(i) ==
    /\ hpc[i] = "none"
    /\ \A j \in Signals : j < i => hpc[j] # "none"
    /\ mpc # "exit"
    /\ mpc = "starting" => EarlySignal
    /\ hpc' = [hpc EXCEPT ![i] = "set"]
    /\ UNCHANGED <<mpc, running, pending, stopping, queue, idle, wpc, item>>

(* Event.set() takes its lock, sets the flag, notifies and releases.  A    *)
(* set() that this handler interrupted never ends either.                  *)
StopSetLock(i) ==
    /\ hpc[i] = "set" /\ OnTop(i)
    /\ EventFree
    /\ hpc' = [hpc EXCEPT ![i] = "inSet"]
    /\ UNCHANGED <<mpc, running, pending, stopping, queue, idle, wpc, item>>

StopSet(i) ==
    /\ hpc[i] = "inSet" /\ OnTop(i)
    /\ stopping' = TRUE
    /\ hpc' = [hpc EXCEPT ![i] = "notify"]
    /\ UNCHANGED <<mpc, running, pending, queue, idle, wpc, item>>

StopSetUnlock(i) ==
    /\ hpc[i] = "notify" /\ OnTop(i)
    /\ hpc' = [hpc EXCEPT ![i] = "put"]
    /\ UNCHANGED <<mpc, running, pending, stopping, queue, idle, wpc, item>>

(* The mutex is not reentrant: a put this handler interrupted never ends.  *)
StopLock(i) ==
    /\ hpc[i] = "put" /\ OnTop(i)
    /\ MutexFree
    /\ hpc' = [hpc EXCEPT ![i] = "inPut"]
    /\ UNCHANGED <<mpc, running, pending, stopping, queue, idle, wpc, item>>

(* Mutated: stop() only sets the event.                                    *)
StopPutNothing(i) ==
    /\ hpc[i] = "inPut" /\ OnTop(i)
    /\ hpc' = [hpc EXCEPT ![i] = "join"]
    /\ UNCHANGED <<mpc, running, pending, stopping, queue, idle, wpc, item>>

(* put_nowait(None); queue.Full is ignored.                                *)
StopPut(i) ==
    /\ hpc[i] = "inPut" /\ OnTop(i)
    /\ queue' = IF queue = "empty" THEN "stop" ELSE queue
    /\ hpc' = [hpc EXCEPT ![i] = "join"]
    /\ UNCHANGED <<mpc, running, pending, stopping, idle, wpc, item>>

(* join(1.0) returns when the worker has ended or when the second is over. *)
StopJoin(i) ==
    /\ hpc[i] = "join" /\ OnTop(i)
    /\ hpc' = [hpc EXCEPT ![i] = "quit"]
    /\ UNCHANGED <<mpc, running, pending, stopping, queue, idle, wpc, item>>

(* Mutated: the handler does not quit the main loop.                       *)
LoopNoQuit(i) ==
    /\ hpc[i] = "quit" /\ OnTop(i)
    /\ hpc' = [hpc EXCEPT ![i] = "done"]
    /\ UNCHANGED <<mpc, running, pending, stopping, queue, idle, wpc, item>>

LoopQuit(i) ==
    /\ hpc[i] = "quit" /\ OnTop(i)
    /\ running' = FALSE
    /\ hpc' = [hpc EXCEPT ![i] = "done"]
    /\ UNCHANGED <<mpc, pending, stopping, queue, idle, wpc, item>>

-------------------------------------------------------------------------------
(* Worker thread (_run), alive until the process exits.                    *)

WorkerLoop ==
    /\ wpc = "while" /\ mpc # "exit"
    /\ wpc' = IF stopping THEN "close" ELSE "get"
    /\ UNCHANGED <<mainVars, queue, idle, item>>

WorkerGet ==
    /\ wpc = "get" /\ mpc # "exit"
    /\ MutexFree
    /\ queue # "empty"
    /\ item' = queue
    /\ queue' = "empty"
    /\ wpc' = "check"
    /\ UNCHANGED <<mainVars, idle>>

(* Mutated: the worker trusts the sentinel alone.                          *)
WorkerCheckSentinelOnly ==
    /\ wpc = "check" /\ mpc # "exit"
    /\ wpc' = IF item = "stop" THEN "close" ELSE "collect"
    /\ UNCHANGED <<mainVars, queue, idle, item>>

WorkerCheck ==
    /\ wpc = "check" /\ mpc # "exit"
    /\ wpc' = IF item = "stop" \/ stopping THEN "close" ELSE "collect"
    /\ UNCHANGED <<mainVars, queue, idle, item>>

(* Mutated: an exception of collect() leaves the loop.                     *)
WorkerCollectRaises ==
    /\ wpc = "collect" /\ mpc # "exit"
    /\ wpc' \in {"dispatch", "close"}
    /\ UNCHANGED <<mainVars, queue, idle, item>>

(* collect() returns a snapshot; an exception becomes a failed snapshot.   *)
(* Either way there is a result to dispatch.                               *)
WorkerCollect ==
    /\ wpc = "collect" /\ mpc # "exit"
    /\ wpc' = "dispatch"
    /\ UNCHANGED <<mainVars, queue, idle, item>>

WorkerDispatch ==
    /\ wpc = "dispatch" /\ mpc # "exit"
    /\ idle' = idle + 1
    /\ wpc' = "while"
    /\ UNCHANGED <<mainVars, queue, item>>

(* finally: close(), App._close_clients.                                   *)
WorkerClose ==
    /\ wpc = "close" /\ mpc # "exit"
    /\ wpc' = "done"
    /\ UNCHANGED <<mainVars, queue, idle, item>>

-------------------------------------------------------------------------------
MainStep ==
    \/ RunLoop \/ PollAccept \/ PollMark \/ PollLock \/ PollPut
    \/ Deliver \/ DeliverCheck \/ DeliverCallback \/ Exit

HandlerStep(i) ==
    \/ StopSetLock(i) \/ StopSet(i) \/ StopSetUnlock(i)
    \/ StopLock(i) \/ StopPut(i) \/ StopJoin(i) \/ LoopQuit(i)

WorkerStep ==
    \/ WorkerLoop \/ WorkerGet \/ WorkerCheck
    \/ WorkerCollect \/ WorkerDispatch \/ WorkerClose

(* The process has ended.                                                  *)
Ended == mpc = "exit" /\ UNCHANGED vars

Next ==
    \/ MainStep
    \/ \E i \in Signals : Signal(i) \/ HandlerStep(i)
    \/ WorkerStep
    \/ Ended

(* Both threads are scheduled, collect() and close() return (every read in *)
(* them has a timeout) and join gives up after a second.  No signal is     *)
(* ever forced to arrive, and no poll to be due.                           *)
Fairness ==
    /\ WF_vars(MainStep)
    /\ \A i \in Signals : WF_vars(HandlerStep(i))
    /\ WF_vars(WorkerStep)

Spec == Init /\ [][Next]_vars
FairSpec == Spec /\ Fairness

-------------------------------------------------------------------------------
(* Properties.                                                             *)

TypeOK ==
    /\ mpc \in MainPoints
    /\ hpc \in [Signals -> HandlerPoints]
    /\ running \in BOOLEAN
    /\ pending \in BOOLEAN
    /\ stopping \in BOOLEAN
    /\ queue \in {"empty", "job", "stop"}
    /\ idle \in {0, 1}
    /\ wpc \in WorkerPoints
    /\ item \in {"none", "job", "stop"}

WorkerHasJob == wpc \in {"collect", "dispatch"} \/ (wpc = "check" /\ item = "job")

(* Requests are coalesced: the queue, the worker and the GLib idle sources *)
(* together never hold two jobs, and while they hold one _pending is set,  *)
(* so neither a slow read nor an undelivered result lets tick() start      *)
(* another collection.                                                     *)
OneJobInFlight ==
    /\ WorkerHasJob => idle = 0
    /\ queue = "job" => idle = 0 /\ ~WorkerHasJob
    /\ (idle = 1 \/ WorkerHasJob \/ queue = "job") => pending

(* Before a stop, the put_nowait of poll() never raises queue.Full, so no  *)
(* exception escapes tick() and removes its GLib source.                   *)
NoOverflowBeforeStop == mpc = "inPut" /\ ~stopping => queue = "empty"

(* Once stop() has tried to enqueue its sentinel, a worker blocked in      *)
(* get() has something to take: ignoring queue.Full never loses the wakeup *)
(* and the worker always reaches close().                                  *)
NoLostWakeup ==
    (\E i \in Signals : hpc[i] \in {"join", "quit", "done"}) /\ wpc = "get"
        => queue # "empty"

(* While poll() is between its check and its put, the pipeline is empty.   *)
PollOwnsSlot ==
    /\ mpc \in {"mark", "put", "inPut"} => idle = 0 /\ ~WorkerHasJob /\ queue # "job"
    /\ mpc \in {"put", "inPut"} => pending

(* Every trace that stop() leaves, on either thread, says it was called.   *)
StopLeavesTrace ==
    /\ queue = "stop" => stopping
    /\ wpc = "check" /\ item = "stop" => stopping
    /\ wpc = "check" => item # "none"
    /\ wpc \in {"close", "done"} => stopping
    /\ \A i \in Signals : hpc[i] \notin {"none", "set", "inSet"} => stopping

(* The inductive invariant: the coalescing and the wakeup survive every    *)
(* preemption of the main thread because poll() owns the empty pipeline    *)
(* from its check to its put, and because a sentinel is never enqueued or  *)
(* seen before the stop flag is set.                                       *)
IInv == TypeOK /\ OneJobInFlight /\ PollOwnsSlot /\ StopLeavesTrace /\ NoLostWakeup

(* The handler on top waits for a lock that code under it, of its own      *)
(* thread, holds: the queue's or the event's.                              *)
SelfDeadlock ==
    \E i \in Signals :
        /\ OnTop(i)
        /\ \/ hpc[i] = "put" /\ ~MutexFree
           \/ hpc[i] = "set" /\ ~EventFree

(* A submitted poll is answered: its result is delivered (which clears     *)
(* _pending) even when collect() raises, unless the process is stopping or *)
(* a second signal hangs in Event.set before the flag is set.              *)
PollAnswered == pending ~> ~pending \/ stopping \/ SelfDeadlock

(* A signal that arrives once mainloop.run() was called ends the process,  *)
(* even when it is not the first one, unless it or a later one interrupted *)
(* the main thread inside Queue.put or Event.set and waits for its lock.   *)
LoopSignalExits ==
    \A i \in Signals :
        hpc[i] = "set" /\ mpc # "starting" ~> mpc = "exit" \/ SelfDeadlock

(* Every handler returns: the bounded join is the only wait in it.         *)
HandlerReturns == \A i \in Signals : hpc[i] = "set" ~> hpc[i] = "done"

(* The slot a client of the worker sees.                                   *)
Slot ==
    IF idle > 0 THEN "ready"
    ELSE IF wpc \in {"collect", "dispatch"} THEN "running"
    ELSE IF queue = "job" \/ (wpc = "check" /\ item = "job") THEN "queued"
    ELSE "free"

AbstractSlot == INSTANCE JobSlot WITH
    slot <- Slot, stopped <- stopping, closed <- wpc = "done"

(* The worker, its queue, the GLib idle sources and the signal handler     *)
(* together implement a one-job slot, under every preemption: one job at a *)
(* time, no job started after a stop, every result handed back at most     *)
(* once, and the clients closed once and never under a running job.        *)
ImplementsJobSlot == AbstractSlot!Spec
=============================================================================
