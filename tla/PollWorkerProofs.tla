--------------------------- MODULE PollWorkerProofs ---------------------------
(***************************************************************************)
(* Proofs about PollWorker for any number of signals and any preemption.   *)
(***************************************************************************)
EXTENDS PollWorker, TLAPS

(* The program starts with an empty pipeline and no stop.                  *)
LEMMA InitIInv == Init => IInv
<1> SUFFICES ASSUME Init PROVE IInv
  OBVIOUS
<1>1. \A i \in Signals : hpc[i] = "none"
  BY DEF Init
<1>2. hpc \in [Signals -> HandlerPoints]
  BY DEF Init, HandlerPoints
<1>3. TypeOK
  BY <1>2 DEF Init, TypeOK, MainPoints, WorkerPoints
<1>4. OneJobInFlight /\ PollOwnsSlot
  BY DEF Init, OneJobInFlight, PollOwnsSlot, WorkerHasJob
<1>5. StopLeavesTrace /\ NoLostWakeup
  BY <1>1 DEF Init, StopLeavesTrace, NoLostWakeup
<1> QED
  BY <1>3, <1>4, <1>5 DEF IInv

(* No step of the main thread, of a handler or of the worker breaks the    *)
(* inductive invariant.                                                    *)
LEMMA StepIInv == IInv /\ [Next]_vars => IInv'
<1> SUFFICES ASSUME IInv, [Next]_vars PROVE IInv'
  OBVIOUS
<1> USE DEF IInv, TypeOK, OneJobInFlight, PollOwnsSlot, StopLeavesTrace,
            NoLostWakeup, WorkerHasJob, MainPoints, HandlerPoints, WorkerPoints
<1>1. CASE RunLoop
  BY <1>1 DEF RunLoop
<1>2. CASE PollAccept
  BY <1>2 DEF PollAccept
<1>3. CASE PollMark
  BY <1>3 DEF PollMark
<1>4. CASE PollLock
  BY <1>4 DEF PollLock
<1>5. CASE PollPut
  BY <1>5 DEF PollPut
<1>6. CASE Deliver
  <2>1. idle = 1 /\ idle' = 0
    BY <1>6 DEF Deliver
  <2>2. ~WorkerHasJob /\ queue # "job"
    BY <2>1
  <2>3. /\ UNCHANGED <<hpc, running, stopping, queue, wpc, item>>
        /\ pending' = FALSE
        /\ mpc' = "late"
    BY <1>6 DEF Deliver
  <2>4. TypeOK'
    BY <2>1, <2>3
  <2>5. OneJobInFlight' /\ PollOwnsSlot'
    BY <2>1, <2>2, <2>3
  <2>6. StopLeavesTrace' /\ NoLostWakeup'
    BY <2>3
  <2> QED
    BY <2>4, <2>5, <2>6
<1>7. CASE DeliverCheck
  BY <1>7 DEF DeliverCheck
<1>8. CASE DeliverCallback
  BY <1>8 DEF DeliverCallback
<1>9. CASE Exit
  BY <1>9 DEF Exit
<1>10. ASSUME NEW i \in Signals, Signal(i) PROVE IInv'
  BY <1>10 DEF Signal
<1>11. ASSUME NEW i \in Signals, HandlerStep(i) PROVE IInv'
  <2>1. CASE StopSet(i)
    BY <2>1 DEF StopSet
  <2>2. CASE StopLock(i)
    BY <2>2 DEF StopLock
  <2>3. CASE StopPut(i)
    <3>1. queue' # "empty" /\ (queue' # queue => queue' = "stop")
      BY <2>3 DEF StopPut
    <3>2. stopping
      BY <2>3 DEF StopPut
    <3>3. UNCHANGED <<mpc, running, pending, stopping, idle, wpc, item>>
      BY <2>3 DEF StopPut
    <3>4. hpc' \in [Signals -> HandlerPoints]
      BY <2>3 DEF StopPut
    <3>5. queue' \in {"empty", "job", "stop"} /\ (queue' = "job" => queue = "job")
      BY <2>3 DEF StopPut
    <3>6. TypeOK'
      BY <3>3, <3>4, <3>5
    <3>7. OneJobInFlight' /\ PollOwnsSlot'
      BY <3>3, <3>5
    <3>8. StopLeavesTrace' /\ NoLostWakeup'
      BY <3>1, <3>2, <3>3
    <3> QED
      BY <3>6, <3>7, <3>8
  <2>4. CASE StopJoin(i)
    BY <2>4 DEF StopJoin
  <2>5. CASE StopSetLock(i)
    BY <2>5 DEF StopSetLock
  <2>6. CASE StopSetUnlock(i)
    BY <2>6 DEF StopSetUnlock
  <2>7. CASE LoopQuit(i)
    <3>1. UNCHANGED <<mpc, pending, stopping, queue, idle, wpc, item>>
      BY <2>7 DEF LoopQuit
    <3>2. hpc' \in [Signals -> HandlerPoints] /\ running' \in BOOLEAN
      BY <2>7 DEF LoopQuit
    <3>3. TypeOK'
      BY <3>1, <3>2
    <3>4. OneJobInFlight' /\ PollOwnsSlot'
      BY <3>1
    <3>5. StopLeavesTrace' /\ NoLostWakeup'
      BY <2>7, <3>1 DEF LoopQuit
    <3> QED
      BY <3>3, <3>4, <3>5
  <2> QED
    BY <1>11, <2>1, <2>2, <2>3, <2>4, <2>5, <2>6, <2>7 DEF HandlerStep
<1>12. CASE WorkerLoop
  BY <1>12 DEF WorkerLoop, mainVars
<1>13. CASE WorkerGet
  BY <1>13 DEF WorkerGet, mainVars
<1>14. CASE WorkerCheck
  BY <1>14 DEF WorkerCheck, mainVars
<1>15. CASE WorkerCollect
  BY <1>15 DEF WorkerCollect, mainVars
<1>16. CASE WorkerDispatch
  BY <1>16 DEF WorkerDispatch, mainVars
<1>17. CASE WorkerClose
  BY <1>17 DEF WorkerClose, mainVars
<1>18. CASE UNCHANGED vars
  BY <1>18 DEF vars
<1> QED
  BY <1>1, <1>2, <1>3, <1>4, <1>5, <1>6, <1>7, <1>8, <1>9, <1>10, <1>11, <1>12,
     <1>13, <1>14, <1>15, <1>16, <1>17, <1>18
  DEF Next, MainStep, WorkerStep, Ended

(* The inductive invariant holds in every reachable state.                 *)
THEOREM Invariance == Spec => []IInv
<1>1. Init => IInv
  BY InitIInv
<1>2. IInv /\ [Next]_vars => IInv'
  BY StepIInv
<1> QED
  BY <1>1, <1>2, PTL DEF Spec

(* Every variable keeps its type; in particular GLib never holds two       *)
(* undelivered results.                                                    *)
THEOREM TypeCorrectness == Spec => []TypeOK
<1>1. IInv => TypeOK
  BY DEF IInv
<1> QED
  BY <1>1, Invariance, PTL

(* Polls are coalesced: at most one job is in the queue, the worker or the *)
(* GLib idle sources, and _pending covers it, whatever a signal preempts.  *)
THEOREM Coalescing == Spec => []OneJobInFlight
<1>1. IInv => OneJobInFlight
  BY DEF IInv
<1> QED
  BY <1>1, Invariance, PTL

(* Before a stop, poll() never finds the queue full.                       *)
THEOREM PollNeverOverflows == Spec => []NoOverflowBeforeStop
<1>1. IInv => NoOverflowBeforeStop
  BY DEF IInv, TypeOK, PollOwnsSlot, StopLeavesTrace, NoOverflowBeforeStop
<1> QED
  BY <1>1, Invariance, PTL

(* The sentinel dropped on a full queue never costs the worker its wakeup. *)
THEOREM StopWakesWorker == Spec => []NoLostWakeup
<1>1. IInv => NoLostWakeup
  BY DEF IInv
<1> QED
  BY <1>1, Invariance, PTL

(* Every step is a step of the one-job slot or leaves it unchanged.        *)
LEMMA StepRefines ==
  IInv /\ [Next]_vars => [AbstractSlot!Next]_(AbstractSlot!vars)
<1> SUFFICES ASSUME IInv, [Next]_vars
             PROVE  [AbstractSlot!Next]_(AbstractSlot!vars)
  OBVIOUS
<1>0. /\ idle \in {0, 1} /\ queue \in {"empty", "job", "stop"}
      /\ item \in {"none", "job", "stop"} /\ wpc \in WorkerPoints
      /\ stopping \in BOOLEAN
  BY DEF IInv, TypeOK
<1>1. ASSUME UNCHANGED <<stopping, queue, idle, wpc, item>>
      PROVE  UNCHANGED AbstractSlot!vars
  BY <1>1 DEF AbstractSlot!vars, Slot
<1>2. CASE RunLoop \/ PollAccept \/ PollMark \/ PollLock \/ DeliverCheck
           \/ DeliverCallback \/ Exit
  BY <1>1, <1>2 DEF RunLoop, PollAccept, PollMark, PollLock, DeliverCheck,
     DeliverCallback, Exit
<1>3. CASE PollPut
  <2>1. idle = 0 /\ ~WorkerHasJob /\ queue # "job"
    BY <1>3 DEF PollPut, IInv, PollOwnsSlot
  <2>2. UNCHANGED <<stopping, idle, wpc, item>>
    BY <1>3 DEF PollPut
  <2>3. CASE queue = "empty"
    <3>1. queue' = "job"
      BY <1>3, <2>3 DEF PollPut
    <3>2. Slot = "free" /\ Slot' = "queued"
      BY <2>1, <2>2, <3>1 DEF Slot, WorkerHasJob
    <3>3. AbstractSlot!Submit
      BY <2>2, <3>2 DEF AbstractSlot!Submit
    <3> QED
      BY <3>3 DEF AbstractSlot!Next
  <2>4. CASE queue # "empty"
    BY <1>1, <1>3, <2>2, <2>4 DEF PollPut
  <2> QED
    BY <2>3, <2>4
<1>4. CASE Deliver
  <2>1. idle = 1 /\ idle' = 0 /\ UNCHANGED <<stopping, queue, wpc, item>>
    BY <1>0, <1>4 DEF Deliver
  <2>2. ~WorkerHasJob /\ queue # "job"
    BY <2>1 DEF IInv, OneJobInFlight
  <2>3. Slot = "ready" /\ Slot' = "free"
    BY <2>1, <2>2 DEF Slot, WorkerHasJob
  <2>4. AbstractSlot!HandBack
    BY <2>1, <2>3 DEF AbstractSlot!HandBack
  <2> QED
    BY <2>4 DEF AbstractSlot!Next
<1>5. ASSUME NEW i \in Signals, Signal(i)
      PROVE  UNCHANGED AbstractSlot!vars
  BY <1>1, <1>5 DEF Signal
<1>6. ASSUME NEW i \in Signals, HandlerStep(i)
      PROVE  [AbstractSlot!Next]_(AbstractSlot!vars)
  <2>1. CASE StopSet(i)
    <3>1. stopping' = TRUE /\ UNCHANGED <<queue, idle, wpc, item>>
      BY <2>1 DEF StopSet
    <3>2. Slot' = Slot
      BY <3>1 DEF Slot
    <3>3. CASE stopping
      BY <1>1, <3>1, <3>3
    <3>4. CASE ~stopping
      BY <3>1, <3>2, <3>4 DEF AbstractSlot!Stop, AbstractSlot!Next
    <3> QED
      BY <3>3, <3>4
  <2>2. CASE StopPut(i)
    <3>1. UNCHANGED <<stopping, idle, wpc, item>>
      BY <2>2 DEF StopPut
    <3>2. queue' = "job" <=> queue = "job"
      BY <2>2 DEF StopPut
    <3>3. Slot' = Slot
      BY <3>1, <3>2 DEF Slot
    <3> QED
      BY <3>1, <3>3 DEF AbstractSlot!vars
  <2>3. CASE StopSetLock(i) \/ StopSetUnlock(i) \/ StopLock(i) \/ StopJoin(i)
             \/ LoopQuit(i)
    BY <1>1, <2>3 DEF StopSetLock, StopSetUnlock, StopLock, StopJoin, LoopQuit
  <2> QED
    BY <1>6, <2>1, <2>2, <2>3 DEF HandlerStep
<1>7. CASE WorkerLoop
  <2>1. UNCHANGED <<stopping, queue, idle, item>>
    BY <1>7 DEF WorkerLoop, mainVars
  <2>2. wpc = "while" /\ wpc' \in {"close", "get"}
    BY <1>7 DEF WorkerLoop
  <2> QED
    BY <2>1, <2>2 DEF Slot, AbstractSlot!vars
<1>8. CASE WorkerGet
  <2>1. /\ item' = queue /\ queue' = "empty" /\ wpc = "get" /\ wpc' = "check"
        /\ UNCHANGED <<stopping, idle>>
    BY <1>8 DEF WorkerGet, mainVars
  <2> QED
    BY <2>1 DEF Slot, AbstractSlot!vars
<1>9. CASE WorkerCheck
  <2>1. wpc = "check" /\ UNCHANGED <<stopping, queue, idle, item>>
    BY <1>9 DEF WorkerCheck, mainVars
  <2>2. CASE item = "job"
    <3>1. idle = 0 /\ queue # "job" /\ Slot = "queued"
      BY <1>0, <2>1, <2>2 DEF IInv, OneJobInFlight, WorkerHasJob, Slot
    <3>2. CASE stopping
      <4>1. wpc' = "close"
        BY <1>9, <3>2 DEF WorkerCheck
      <4>2. Slot' = "free"
        BY <2>1, <3>1, <4>1 DEF Slot
      <4>3. AbstractSlot!Discard
        BY <2>1, <3>1, <3>2, <4>1, <4>2 DEF AbstractSlot!Discard
      <4> QED
        BY <4>3 DEF AbstractSlot!Next
    <3>3. CASE ~stopping
      <4>1. wpc' = "collect"
        BY <1>9, <2>2, <3>3 DEF WorkerCheck
      <4>2. Slot' = "running"
        BY <2>1, <3>1, <4>1 DEF Slot
      <4>3. AbstractSlot!Start
        BY <2>1, <3>1, <3>3, <4>1, <4>2 DEF AbstractSlot!Start
      <4> QED
        BY <4>3 DEF AbstractSlot!Next
    <3> QED
      BY <3>2, <3>3
  <2>3. CASE item = "stop"
    <3>1. wpc' = "close"
      BY <1>9, <2>3 DEF WorkerCheck
    <3> QED
      BY <2>1, <2>3, <3>1 DEF Slot, AbstractSlot!vars
  <2> QED
    BY <1>0, <2>1, <2>2, <2>3 DEF IInv, StopLeavesTrace
<1>10. CASE WorkerCollect
  <2>1. /\ wpc = "collect" /\ wpc' = "dispatch"
        /\ UNCHANGED <<stopping, queue, idle, item>>
    BY <1>10 DEF WorkerCollect, mainVars
  <2> QED
    BY <2>1 DEF Slot, AbstractSlot!vars
<1>11. CASE WorkerDispatch
  <2>1. /\ wpc = "dispatch" /\ wpc' = "while" /\ idle' = idle + 1
        /\ UNCHANGED <<stopping, queue, item>>
    BY <1>11 DEF WorkerDispatch, mainVars
  <2>2. idle = 0 /\ idle' = 1
    BY <2>1 DEF IInv, OneJobInFlight, WorkerHasJob
  <2>3. Slot = "running" /\ Slot' = "ready"
    BY <2>1, <2>2 DEF Slot
  <2>4. AbstractSlot!Finish
    BY <2>1, <2>3 DEF AbstractSlot!Finish
  <2> QED
    BY <2>4 DEF AbstractSlot!Next
<1>12. CASE WorkerClose
  <2>1. /\ wpc = "close" /\ wpc' = "done"
        /\ UNCHANGED <<stopping, queue, idle, item>>
    BY <1>12 DEF WorkerClose, mainVars
  <2>2. stopping
    BY <2>1 DEF IInv, StopLeavesTrace
  <2>3. Slot # "running" /\ Slot' = Slot
    BY <2>1 DEF Slot
  <2>4. AbstractSlot!Close
    BY <2>1, <2>2, <2>3 DEF AbstractSlot!Close
  <2> QED
    BY <2>4 DEF AbstractSlot!Next
<1>13. CASE UNCHANGED vars
  BY <1>1, <1>13 DEF vars
<1> QED
  BY <1>2, <1>3, <1>4, <1>5, <1>6, <1>7, <1>8, <1>9, <1>10, <1>11, <1>12, <1>13
  DEF Next, MainStep, WorkerStep, Ended

(* The worker with its queue, GLib idle sources and signal handlers        *)
(* implements the one-job slot.                                            *)
THEOREM Refinement == Spec => ImplementsJobSlot
<1>1. Init => AbstractSlot!Init
  BY DEF Init, AbstractSlot!Init, Slot
<1>2. IInv /\ [Next]_vars => [AbstractSlot!Next]_(AbstractSlot!vars)
  BY StepRefines
<1> QED
  BY <1>1, <1>2, Invariance, PTL DEF Spec, ImplementsJobSlot, AbstractSlot!Spec
=============================================================================
