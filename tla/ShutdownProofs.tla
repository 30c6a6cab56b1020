---------------------------- MODULE ShutdownProofs ----------------------------
(***************************************************************************)
(* Proofs about Shutdown, and with it MqttClient, for any topics, limits,  *)
(* connections and times of the signal.                                    *)
(***************************************************************************)
EXTENDS Shutdown, TLAPS

LEMMA ClearedType == Cleared \in [Fields -> {Never} \union 0..now]
  BY DEF Cleared

(* The numbers that are compared.                                          *)
LEMMA NumberTypes ==
  ASSUME ShutdownTypeOK
  PROVE  /\ now \in Nat /\ deadline \in Nat /\ Late \in Nat /\ JoinLimit \in Nat
         /\ \A f \in Fields : snapshot[f].at \in Nat /\ received[f] \in Int
         /\ ppc = "store" => msg.field \in Fields /\ msg.reading.at \in Nat
<1> USE ConstantsAssumption, JoinLimitAssumption
<1>1. now \in Nat /\ deadline \in Nat /\ Late \in Nat /\ JoinLimit \in Nat
  BY DEF ShutdownTypeOK, TypeOK, ControlTypeOK, FlagTypeOK, DataTypeOK, Late
<1>2. \A f \in Fields : snapshot[f].at \in Nat
  BY DEF ShutdownTypeOK, TypeOK, ControlTypeOK, FlagTypeOK, DataTypeOK, Reading
<1>3. \A f \in Fields : received[f] \in Int
  BY <1>1 DEF ShutdownTypeOK, TypeOK, ControlTypeOK, FlagTypeOK, DataTypeOK, Never
<1>4. ppc = "store" => msg.field \in Fields /\ msg.reading.at \in Nat
  BY DEF ShutdownTypeOK, TypeOK, ControlTypeOK, FlagTypeOK, DataTypeOK, Message, Reading
<1> QED
  BY <1>1, <1>2, <1>3, <1>4

LEMMA MessageTypes ==
  /\ NoReading \in Reading
  /\ \A f \in Fields, v \in BOOLEAN, r \in Reading :
        [field |-> f, valid |-> v, reading |-> r] \in Message
  /\ \A m \in Message : m.field \in Fields /\ m.reading \in Reading
  /\ \A e \in Nat, a \in Nat : [epoch |-> e, at |-> a] \in Reading
  BY DEF NoReading, Reading, Message

LEMMA InitIInv == ShutdownInit => IInv
<1> SUFFICES ASSUME ShutdownInit PROVE IInv
  OBVIOUS
<1> USE ConstantsAssumption, JoinLimitAssumption DEF ShutdownInit, Init
<1>1. ShutdownTypeOK
  <2>1. ControlTypeOK /\ FlagTypeOK
    BY DEF ControlTypeOK, FlagTypeOK
  <2>2. snapshot \in [Fields -> Reading] /\ now \in 0..MaxTime
    BY DEF NoReading, Reading
  <2>3. received \in [Fields -> {Never} \union 0..now]
    BY ClearedType
  <2> QED
    BY <2>1, <2>2, <2>3 DEF ShutdownTypeOK, TypeOK, DataTypeOK
<1>2. LocksHeld /\ LoopByStep /\ StoresConnected /\ JoinOnTime
  BY DEF LocksHeld, LoopByStep, StoresConnected, JoinOnTime
<1>3. NoStampWithoutConnection
  BY DEF NoStampWithoutConnection
<1>4. ReadingsGenuine
  BY DEF ReadingsGenuine, Cleared
<1> QED
  BY <1>1, <1>2, <1>3, <1>4 DEF IInv

(* The types.                                                              *)
LEMMA ControlTypesKept ==
  ASSUME IInv, [ShutdownNext]_allVars
  PROVE  (ControlTypeOK /\ hpc \in {"none", "join", "quit", "last", "exited"} /\ deadline \in Nat)'
<1> USE ConstantsAssumption, JoinLimitAssumption
<1> USE DEF vars, clientVars, cacheVars, brokerVars, shutdownVars, allVars
<1> USE DEF IInv, ShutdownTypeOK, TypeOK, ControlTypeOK, FlagTypeOK, DataTypeOK
<1>1. CASE PollBegins
  BY <1>1 DEF PollBegins, PollStart
<1>2. CASE LastPoll
  BY <1>2 DEF LastPoll, PollStart
<1>3. CASE SignalArrives
  BY <1>3 DEF SignalArrives
<1>4. CASE HandlerReturns
  BY <1>4 DEF HandlerReturns
<1>5. CASE ProcessExits
  BY <1>5 DEF ProcessExits
<1>6. CASE WorkerCloses
  BY <1>6 DEF WorkerCloses, DisconnectStart
<1>7. CASE TimePasses
  BY <1>7 DEF TimePasses, Tick, MainRuns
<1>8. CASE TimePassesInJoin
  BY <1>8 DEF TimePassesInJoin
<1>9. CASE MainGoesOn
  <2>1. CASE ConnectLock
    BY <1>9, <2>1 DEF MainGoesOn, ConnectLock
  <2>2. CASE ConnectReturn
    BY <1>9, <2>2 DEF MainGoesOn, ConnectReturn
  <2>3. CASE ConnectStart
    BY <1>9, <2>3 DEF MainGoesOn, ConnectStart
  <2>4. CASE ConnectFail
    BY <1>9, <2>4 DEF MainGoesOn, ConnectFail
  <2>5. CASE PollLock
    BY <1>9, <2>5 DEF MainGoesOn, PollLock
  <2>6. CASE PollRead
    BY <1>9, <2>6 DEF MainGoesOn, PollRead
  <2> QED
    BY <1>9, <2>1, <2>2, <2>3, <2>4, <2>5, <2>6 DEF MainGoesOn, MainStep
<1>10. CASE WorkerGoesOn
  <2>1. CASE DisconnectLock
    BY <1>10, <2>1 DEF WorkerGoesOn, DisconnectLock
  <2>2. CASE DisconnectCacheLock
    BY <1>10, <2>2 DEF WorkerGoesOn, DisconnectCacheLock
  <2>3. CASE DisconnectMark
    BY <1>10, <2>3 DEF WorkerGoesOn, DisconnectMark
  <2>4. CASE DisconnectStop
    BY <1>10, <2>4 DEF WorkerGoesOn, DisconnectStop
  <2>5. CASE DisconnectJoin
    BY <1>10, <2>5 DEF WorkerGoesOn, DisconnectJoin
  <2>6. CASE DisconnectRelease
    BY <1>10, <2>6 DEF WorkerGoesOn, DisconnectRelease
  <2> QED
    BY <1>10, <2>1, <2>2, <2>3, <2>4, <2>5, <2>6 DEF WorkerGoesOn, WorkerStep
<1>11. CASE PahoGoesOn
  BY <1>11 DEF PahoGoesOn, PahoCallback, Subscribe, UpdateField, LoopEnd
<1>12. CASE NetworkEvent
  BY <1>12 DEF NetworkEvent, PahoEvent, OnRetained, OnMessage, Gate, OnConnect,
     OnConnectRefused, OnDisconnect
<1>13. CASE UNCHANGED allVars
  BY <1>13
<1> QED
  BY <1>1, <1>2, <1>3, <1>4, <1>5, <1>6, <1>7, <1>8, <1>9, <1>10, <1>11,
     <1>12, <1>13
  DEF ShutdownNext, MainGoesOn, MainStep, WorkerGoesOn, WorkerStep, PahoGoesOn, PahoCallback,
      NetworkEvent, PahoEvent, Rest

(* The types of the flags.                                                 *)
LEMMA FlagTypesKept ==
  ASSUME IInv, [ShutdownNext]_allVars
  PROVE  FlagTypeOK'
<1> USE ConstantsAssumption, JoinLimitAssumption
<1> USE DEF vars, clientVars, cacheVars, brokerVars, shutdownVars, allVars
<1> USE DEF IInv, ShutdownTypeOK, TypeOK, FlagTypeOK
<1>1. CASE PollBegins
  BY <1>1 DEF PollBegins, PollStart
<1>2. CASE LastPoll
  BY <1>2 DEF LastPoll, PollStart
<1>3. CASE SignalArrives
  BY <1>3 DEF SignalArrives
<1>4. CASE HandlerReturns
  BY <1>4 DEF HandlerReturns
<1>5. CASE ProcessExits
  BY <1>5 DEF ProcessExits
<1>6. CASE WorkerCloses
  BY <1>6 DEF WorkerCloses, DisconnectStart
<1>7. CASE TimePasses
  BY <1>7 DEF TimePasses, Tick, MainRuns
<1>8. CASE TimePassesInJoin
  BY <1>8 DEF TimePassesInJoin
<1>9. CASE MainGoesOn
  BY <1>9 DEF MainGoesOn, MainStep, ConnectLock, ConnectReturn, ConnectStart,
     ConnectFail, PollLock, PollRead
<1>10. CASE WorkerGoesOn
  BY <1>10 DEF WorkerGoesOn, WorkerStep, DisconnectLock, DisconnectCacheLock, DisconnectMark,
     DisconnectStop, DisconnectJoin, DisconnectRelease
<1>11. CASE PahoGoesOn
  BY <1>11 DEF PahoGoesOn, PahoCallback, Subscribe, UpdateField, LoopEnd
<1>12. CASE NetworkEvent
  BY <1>12 DEF NetworkEvent, PahoEvent, OnRetained, OnMessage, Gate, OnConnect,
     OnConnectRefused, OnDisconnect
<1>13. CASE UNCHANGED allVars
  BY <1>13
<1> QED
  BY <1>1, <1>2, <1>3, <1>4, <1>5, <1>6, <1>7, <1>8, <1>9, <1>10, <1>11,
     <1>12, <1>13
  DEF ShutdownNext, MainGoesOn, MainStep, WorkerGoesOn, WorkerStep, PahoGoesOn, PahoCallback,
      NetworkEvent, PahoEvent, Rest

(* The types of what is stored.                                            *)
LEMMA DataTypesKept ==
  ASSUME IInv, [ShutdownNext]_allVars
  PROVE  DataTypeOK'
<1> USE ConstantsAssumption, JoinLimitAssumption
<1> USE DEF vars, clientVars, cacheVars, brokerVars, shutdownVars, allVars
<1> USE DEF IInv, ShutdownTypeOK, TypeOK, ControlTypeOK, FlagTypeOK, DataTypeOK
<1>1. CASE PollBegins
  BY <1>1 DEF PollBegins, PollStart
<1>2. CASE LastPoll
  BY <1>2 DEF LastPoll, PollStart
<1>3. CASE SignalArrives
  BY <1>3 DEF SignalArrives
<1>4. CASE HandlerReturns
  BY <1>4 DEF HandlerReturns
<1>5. CASE ProcessExits
  <2>1. snapshot' \in [Fields -> Reading] /\ received' = Cleared /\ now' = now
    BY <1>5, MessageTypes DEF ProcessExits
  <2> QED
    BY <1>5, <2>1, ClearedType DEF ProcessExits
<1>6. CASE WorkerCloses
  BY <1>6 DEF WorkerCloses, DisconnectStart
<1>7. CASE TimePasses
  BY <1>7 DEF TimePasses, Tick, MainRuns
<1>8. CASE TimePassesInJoin
  <2>1. now' \in 0..MaxTime /\ now' = now + 1
    BY <1>8 DEF TimePassesInJoin, JoinOnTime
  <2>2. received' \in [Fields -> {Never} \union 0..now']
    BY <1>8, <2>1 DEF TimePassesInJoin
  <2> QED
    BY <1>8, <2>1, <2>2 DEF TimePassesInJoin
<1>9. CASE ConnectLock /\ UNCHANGED shutdownVars
  BY <1>9 DEF ConnectLock
<1>10. CASE ConnectReturn /\ UNCHANGED shutdownVars
  BY <1>10 DEF ConnectReturn
<1>11. CASE ConnectStart /\ UNCHANGED shutdownVars
  BY <1>11 DEF ConnectStart
<1>12. CASE ConnectFail /\ UNCHANGED shutdownVars
  BY <1>12 DEF ConnectFail
<1>13. CASE PollLock /\ UNCHANGED shutdownVars
  BY <1>13 DEF PollLock
<1>14. CASE PollRead /\ UNCHANGED shutdownVars
  BY <1>14 DEF PollRead
<1>15. CASE WorkerGoesOn
  BY <1>15, ClearedType DEF WorkerGoesOn, WorkerStep, DisconnectLock, DisconnectCacheLock, DisconnectMark,
     DisconnectStop, DisconnectJoin, DisconnectRelease
<1>16. CASE Subscribe /\ UNCHANGED shutdownVars
  BY <1>16 DEF Subscribe
<1>17. CASE UpdateField /\ UNCHANGED shutdownVars
  <2>1. msg.field \in Fields /\ msg.reading \in Reading
    BY <1>17, MessageTypes DEF UpdateField
  <2>2. snapshot' \in [Fields -> Reading] /\ received' \in [Fields -> {Never} \union 0..now]
    BY <1>17, <2>1, MessageTypes DEF UpdateField
  <2> QED
    BY <1>17, <2>2 DEF UpdateField
<1>18. CASE LoopEnd /\ UNCHANGED shutdownVars
  BY <1>18 DEF LoopEnd
<1>19. CASE OnConnect /\ UNCHANGED shutdownVars
  BY <1>19, ClearedType DEF OnConnect
<1>20. CASE OnConnectRefused /\ UNCHANGED shutdownVars
  BY <1>20, ClearedType DEF OnConnectRefused
<1>21. CASE OnDisconnect /\ UNCHANGED shutdownVars
  BY <1>21, ClearedType DEF OnDisconnect
<1>22. CASE (\E f \in Fields : OnRetained(f)) /\ UNCHANGED shutdownVars
  <2>1. PICK f \in Fields : OnRetained(f)
    BY <1>22
  <2>2. msg' \in Message
    BY <2>1, MessageTypes DEF OnRetained, Gate
  <2> QED
    BY <2>1, <2>2 DEF OnRetained
<1>23. CASE (\E f \in Fields, valid \in BOOLEAN : OnMessage(f, valid)) /\ UNCHANGED shutdownVars
  <2>1. PICK f \in Fields, valid \in BOOLEAN : OnMessage(f, valid)
    BY <1>23
  <2>2. msg' \in Message
    BY <2>1, MessageTypes DEF OnMessage, Gate
  <2> QED
    BY <2>1, <2>2 DEF OnMessage
<1>24. CASE UNCHANGED allVars
  BY <1>24
<1> QED
  BY <1>1, <1>2, <1>3, <1>4, <1>5, <1>6, <1>7, <1>8, <1>9, <1>10, <1>11,
     <1>12, <1>13, <1>14, <1>15, <1>16, <1>17, <1>18, <1>19, <1>20, <1>21,
     <1>22, <1>23, <1>24
  DEF ShutdownNext, MainGoesOn, MainStep, WorkerGoesOn, WorkerStep, PahoGoesOn, PahoCallback,
      NetworkEvent, PahoEvent, Rest

(* A lock is taken by a thread that finds it free, and freed by that one.  *)
LEMMA LocksKept ==
  ASSUME IInv, [ShutdownNext]_allVars
  PROVE  LocksHeld'
<1> USE ConstantsAssumption, JoinLimitAssumption
<1> USE DEF vars, clientVars, cacheVars, brokerVars, shutdownVars, allVars
<1> USE DEF IInv, LocksHeld, ShutdownTypeOK, TypeOK, ControlTypeOK, FlagTypeOK,
            DataTypeOK
<1>1. CASE PollBegins
  BY <1>1 DEF PollBegins, PollStart
<1>2. CASE LastPoll
  BY <1>2 DEF LastPoll, PollStart
<1>3. CASE SignalArrives
  BY <1>3 DEF SignalArrives
<1>4. CASE HandlerReturns
  BY <1>4 DEF HandlerReturns
<1>5. CASE ProcessExits
  BY <1>5 DEF ProcessExits
<1>6. CASE WorkerCloses
  BY <1>6 DEF WorkerCloses, DisconnectStart
<1>7. CASE TimePasses
  BY <1>7 DEF TimePasses, Tick, MainRuns
<1>8. CASE TimePassesInJoin
  BY <1>8 DEF TimePassesInJoin
<1>9. CASE MainGoesOn
  BY <1>9 DEF MainGoesOn, MainStep, ConnectLock, ConnectReturn, ConnectStart,
     ConnectFail, PollLock, PollRead
<1>10. CASE WorkerGoesOn
  BY <1>10 DEF WorkerGoesOn, WorkerStep, DisconnectLock, DisconnectCacheLock, DisconnectMark,
     DisconnectStop, DisconnectJoin, DisconnectRelease
<1>11. CASE PahoGoesOn
  BY <1>11 DEF PahoGoesOn, PahoCallback, Subscribe, UpdateField, LoopEnd
<1>12. CASE NetworkEvent
  BY <1>12 DEF NetworkEvent, PahoEvent, OnRetained, OnMessage, Gate, OnConnect,
     OnConnectRefused, OnDisconnect
<1>13. CASE UNCHANGED allVars
  BY <1>13
<1> QED
  BY <1>1, <1>2, <1>3, <1>4, <1>5, <1>6, <1>7, <1>8, <1>9, <1>10, <1>11,
     <1>12, <1>13
  DEF ShutdownNext, MainGoesOn, MainStep, WorkerGoesOn, WorkerStep, PahoGoesOn, PahoCallback,
      NetworkEvent, PahoEvent, Rest

(* The loop is started under the life-cycle lock and before the close.     *)
LEMMA LoopKept ==
  ASSUME IInv, [ShutdownNext]_allVars
  PROVE  LoopByStep'
<1> USE ConstantsAssumption, JoinLimitAssumption
<1> USE DEF vars, clientVars, cacheVars, brokerVars, shutdownVars, allVars
<1> USE DEF IInv, LoopByStep, LocksHeld, ShutdownTypeOK, TypeOK, ControlTypeOK,
            FlagTypeOK, DataTypeOK
<1>1. CASE PollBegins
  BY <1>1 DEF PollBegins, PollStart
<1>2. CASE LastPoll
  BY <1>2 DEF LastPoll, PollStart
<1>3. CASE SignalArrives
  BY <1>3 DEF SignalArrives
<1>4. CASE HandlerReturns
  BY <1>4 DEF HandlerReturns
<1>5. CASE ProcessExits
  BY <1>5 DEF ProcessExits
<1>6. CASE WorkerCloses
  BY <1>6 DEF WorkerCloses, DisconnectStart
<1>7. CASE TimePasses
  BY <1>7 DEF TimePasses, Tick, MainRuns
<1>8. CASE TimePassesInJoin
  BY <1>8 DEF TimePassesInJoin
<1>9. CASE ConnectLock /\ UNCHANGED shutdownVars
  BY <1>9 DEF ConnectLock
<1>10. CASE ConnectReturn /\ UNCHANGED shutdownVars
  BY <1>10 DEF ConnectReturn
<1>11. CASE ConnectStart /\ UNCHANGED shutdownVars
  BY <1>11 DEF ConnectStart
<1>12. CASE ConnectFail /\ UNCHANGED shutdownVars
  BY <1>12 DEF ConnectFail
<1>13. CASE PollLock /\ UNCHANGED shutdownVars
  BY <1>13 DEF PollLock
<1>14. CASE PollRead /\ UNCHANGED shutdownVars
  BY <1>14 DEF PollRead
<1>15. CASE WorkerGoesOn
  BY <1>15 DEF WorkerGoesOn, WorkerStep, DisconnectLock, DisconnectCacheLock, DisconnectMark,
     DisconnectStop, DisconnectJoin, DisconnectRelease
<1>16. CASE PahoGoesOn
  BY <1>16 DEF PahoGoesOn, PahoCallback, Subscribe, UpdateField, LoopEnd
<1>17. CASE NetworkEvent
  BY <1>17 DEF NetworkEvent, PahoEvent, OnRetained, OnMessage, Gate, OnConnect,
     OnConnectRefused, OnDisconnect
<1>18. CASE UNCHANGED allVars
  BY <1>18
<1> QED
  BY <1>1, <1>2, <1>3, <1>4, <1>5, <1>6, <1>7, <1>8, <1>9, <1>10, <1>11,
     <1>12, <1>13, <1>14, <1>15, <1>16, <1>17, <1>18
  DEF ShutdownNext, MainGoesOn, MainStep, WorkerGoesOn, WorkerStep, PahoGoesOn, PahoCallback,
      NetworkEvent, PahoEvent, Rest

(* A stamp is set by a message whose connection is there.                  *)
LEMMA StampsKept ==
  ASSUME IInv, [ShutdownNext]_allVars
  PROVE  (StoresConnected /\ NoStampWithoutConnection)'
<1> USE ConstantsAssumption, JoinLimitAssumption
<1> USE DEF vars, clientVars, cacheVars, brokerVars, shutdownVars, allVars
<1> USE DEF IInv, StoresConnected, NoStampWithoutConnection, Cleared, LocksHeld,
            ShutdownTypeOK, TypeOK, ControlTypeOK, FlagTypeOK, DataTypeOK
<1>1. CASE PollBegins
  BY <1>1 DEF PollBegins, PollStart
<1>2. CASE LastPoll
  BY <1>2 DEF LastPoll, PollStart
<1>3. CASE SignalArrives
  BY <1>3 DEF SignalArrives
<1>4. CASE HandlerReturns
  BY <1>4 DEF HandlerReturns
<1>5. CASE ProcessExits
  BY <1>5 DEF ProcessExits
<1>6. CASE WorkerCloses
  BY <1>6 DEF WorkerCloses, DisconnectStart
<1>7. CASE TimePasses
  BY <1>7 DEF TimePasses, Tick, MainRuns
<1>8. CASE TimePassesInJoin
  BY <1>8 DEF TimePassesInJoin
<1>9. CASE ConnectLock /\ UNCHANGED shutdownVars
  BY <1>9 DEF ConnectLock
<1>10. CASE ConnectReturn /\ UNCHANGED shutdownVars
  BY <1>10 DEF ConnectReturn
<1>11. CASE ConnectStart /\ UNCHANGED shutdownVars
  BY <1>11 DEF ConnectStart
<1>12. CASE ConnectFail /\ UNCHANGED shutdownVars
  BY <1>12 DEF ConnectFail
<1>13. CASE PollLock /\ UNCHANGED shutdownVars
  BY <1>13 DEF PollLock
<1>14. CASE PollRead /\ UNCHANGED shutdownVars
  BY <1>14 DEF PollRead
<1>15. CASE WorkerGoesOn
  BY <1>15 DEF WorkerGoesOn, WorkerStep, DisconnectLock, DisconnectCacheLock, DisconnectMark,
     DisconnectStop, DisconnectJoin, DisconnectRelease
<1>16. CASE PahoGoesOn
  BY <1>16 DEF PahoGoesOn, PahoCallback, Subscribe, UpdateField, LoopEnd
<1>17. CASE NetworkEvent
  BY <1>17 DEF NetworkEvent, PahoEvent, OnRetained, OnMessage, Gate, OnConnect,
     OnConnectRefused, OnDisconnect
<1>18. CASE UNCHANGED allVars
  BY <1>18
<1> QED
  BY <1>1, <1>2, <1>3, <1>4, <1>5, <1>6, <1>7, <1>8, <1>9, <1>10, <1>11,
     <1>12, <1>13, <1>14, <1>15, <1>16, <1>17, <1>18
  DEF ShutdownNext, MainGoesOn, MainStep, WorkerGoesOn, WorkerStep, PahoGoesOn, PahoCallback,
      NetworkEvent, PahoEvent, Rest

(* The clock of a join.                                                    *)
LEMMA JoinKept ==
  ASSUME IInv, [ShutdownNext]_allVars
  PROVE  JoinOnTime'
<1> USE ConstantsAssumption, JoinLimitAssumption
<1> USE DEF vars, clientVars, cacheVars, brokerVars, shutdownVars, allVars
<1> USE DEF IInv, JoinOnTime, ShutdownTypeOK, TypeOK, ControlTypeOK, FlagTypeOK,
            DataTypeOK
<1>1. CASE PollBegins
  BY <1>1 DEF PollBegins, PollStart
<1>2. CASE LastPoll
  BY <1>2 DEF LastPoll, PollStart
<1>3. CASE SignalArrives
  BY <1>3 DEF SignalArrives
<1>4. CASE HandlerReturns
  BY <1>4 DEF HandlerReturns
<1>5. CASE ProcessExits
  BY <1>5 DEF ProcessExits
<1>6. CASE WorkerCloses
  BY <1>6 DEF WorkerCloses, DisconnectStart
<1>7. CASE TimePasses
  BY <1>7 DEF TimePasses, Tick, MainRuns
<1>8. CASE TimePassesInJoin
  BY <1>8 DEF TimePassesInJoin
<1>9. CASE MainGoesOn
  BY <1>9 DEF MainGoesOn, MainStep, ConnectLock, ConnectReturn, ConnectStart,
     ConnectFail, PollLock, PollRead
<1>10. CASE WorkerGoesOn
  BY <1>10 DEF WorkerGoesOn, WorkerStep, DisconnectLock, DisconnectCacheLock, DisconnectMark,
     DisconnectStop, DisconnectJoin, DisconnectRelease
<1>11. CASE PahoGoesOn
  BY <1>11 DEF PahoGoesOn, PahoCallback, Subscribe, UpdateField, LoopEnd
<1>12. CASE NetworkEvent
  BY <1>12 DEF NetworkEvent, PahoEvent, OnRetained, OnMessage, Gate, OnConnect,
     OnConnectRefused, OnDisconnect
<1>13. CASE UNCHANGED allVars
  BY <1>13
<1> QED
  BY <1>1, <1>2, <1>3, <1>4, <1>5, <1>6, <1>7, <1>8, <1>9, <1>10, <1>11,
     <1>12, <1>13
  DEF ShutdownNext, MainGoesOn, MainStep, WorkerGoesOn, WorkerStep, PahoGoesOn, PahoCallback,
      NetworkEvent, PahoEvent, Rest

(* Age and connection of what is stored and of what is about to be.        *)
LEMMA ReadingsKept ==
  ASSUME IInv, [ShutdownNext]_allVars
  PROVE  ReadingsGenuine'
<1> USE ConstantsAssumption, JoinLimitAssumption
<1> USE DEF vars, clientVars, cacheVars, brokerVars, shutdownVars, allVars
<1> USE DEF IInv, ReadingsGenuine, NoStampWithoutConnection, StoresConnected,
            JoinOnTime, Late, Cleared, Never, LocksHeld, ShutdownTypeOK, TypeOK,
            ControlTypeOK, FlagTypeOK, DataTypeOK
<1>1. CASE PollBegins
  BY <1>1 DEF PollBegins, PollStart
<1>2. CASE LastPoll
  BY <1>2 DEF LastPoll, PollStart
<1>3. CASE SignalArrives
  BY <1>3, NumberTypes DEF SignalArrives
<1>4. CASE HandlerReturns
  BY <1>4 DEF HandlerReturns
<1>5. CASE ProcessExits
  BY <1>5 DEF ProcessExits
<1>6. CASE WorkerCloses
  BY <1>6 DEF WorkerCloses, DisconnectStart
<1>7. CASE TimePasses
  BY <1>7 DEF TimePasses, Tick, MainRuns
<1>8. CASE TimePassesInJoin
  BY <1>8, NumberTypes DEF TimePassesInJoin
<1>9. CASE ConnectLock /\ UNCHANGED shutdownVars
  BY <1>9 DEF ConnectLock
<1>10. CASE ConnectReturn /\ UNCHANGED shutdownVars
  BY <1>10 DEF ConnectReturn
<1>11. CASE ConnectStart /\ UNCHANGED shutdownVars
  BY <1>11 DEF ConnectStart
<1>12. CASE ConnectFail /\ UNCHANGED shutdownVars
  BY <1>12 DEF ConnectFail
<1>13. CASE PollLock /\ UNCHANGED shutdownVars
  BY <1>13 DEF PollLock
<1>14. CASE PollRead /\ UNCHANGED shutdownVars
  BY <1>14 DEF PollRead
<1>15. CASE WorkerGoesOn
  BY <1>15 DEF WorkerGoesOn, WorkerStep, DisconnectLock, DisconnectCacheLock, DisconnectMark,
     DisconnectStop, DisconnectJoin, DisconnectRelease
<1>16. CASE PahoGoesOn
  BY <1>16 DEF PahoGoesOn, PahoCallback, Subscribe, UpdateField, LoopEnd
<1>17. CASE NetworkEvent
  BY <1>17 DEF NetworkEvent, PahoEvent, OnRetained, OnMessage, Gate, OnConnect,
     OnConnectRefused, OnDisconnect
<1>18. CASE UNCHANGED allVars
  BY <1>18
<1> QED
  BY <1>1, <1>2, <1>3, <1>4, <1>5, <1>6, <1>7, <1>8, <1>9, <1>10, <1>11,
     <1>12, <1>13, <1>14, <1>15, <1>16, <1>17, <1>18
  DEF ShutdownNext, MainGoesOn, MainStep, WorkerGoesOn, WorkerStep, PahoGoesOn, PahoCallback,
      NetworkEvent, PahoEvent, Rest

(* The state has its type; each lock is held by the thread that is inside  *)
(* its critical section; disconnect() and paho's loop keep step; a stamp   *)
(* or a reading on its way to the cache belongs to the live connection.    *)
THEOREM Invariance == ShutdownSpec => []IInv
<1>1. IInv /\ [ShutdownNext]_allVars => IInv'
  BY ControlTypesKept, FlagTypesKept, DataTypesKept, LocksKept, LoopKept, StampsKept, JoinKept,
     ReadingsKept DEF IInv, ShutdownTypeOK, TypeOK
<1> QED
  BY InitIInv, <1>1, PTL DEF ShutdownSpec

(* No receipt stamp survives a lost connection or disconnect(), whatever   *)
(* the paho thread had let through its gate before.                        *)
THEOREM NoStampsLeft == ShutdownSpec => []NoStampWithoutConnection
<1>1. IInv => NoStampWithoutConnection
  BY DEF IInv
<1> QED
  BY <1>1, Invariance, PTL

(* paho's loop runs if and only if the client believes so, and never after *)
(* disconnect(), wherever the signal, a failed setup or a poll came in.    *)
THEOREM LoopsAreAccountedFor == ShutdownSpec => []LoopAccountedFor
<1>1. IInv => LoopAccountedFor
  <2> SUFFICES ASSUME IInv PROVE LoopAccountedFor
    OBVIOUS
  <2>1. life = "free" => dpc \in {"idle", "lock", "done"}
    BY DEF IInv, ShutdownTypeOK, TypeOK, ControlTypeOK, LocksHeld
  <2> QED
    BY <2>1 DEF IInv, LoopByStep, LoopAccountedFor
<1> QED
  BY <1>1, Invariance, PTL

(* What poll() exposes without the retain flag is of this connection and   *)
(* young, give or take the time the handler waits.                         *)
THEOREM ReadingsAreGenuine == ShutdownSpec => []ExposedIsGenuine
<1>1. IInv => ExposedIsGenuine
  <2> SUFFICES ASSUME IInv, NEW f \in Exposed \ Retained
               PROVE  /\ snapshot[f].epoch = epoch
                      /\ now - snapshot[f].at < Fresh + Late
    BY DEF ExposedIsGenuine, Late
  <2>1. f \in Fields /\ ~closed /\ received[f] # Never /\ now - received[f] < Fresh
    BY DEF Exposed
  <2>2. snapshot[f].epoch = epoch /\ received[f] <= snapshot[f].at + Late
    BY <2>1 DEF IInv, ReadingsGenuine
  <2>3. now \in Nat /\ Late \in Nat /\ snapshot[f].at \in Nat /\ received[f] \in Int /\ Fresh \in Nat
    BY <2>1, NumberTypes, ConstantsAssumption DEF IInv
  <2> QED
    BY <2>1, <2>2, <2>3
<1> QED
  BY <1>1, Invariance, PTL
=============================================================================
