--------------------------- MODULE RegistryProofs ---------------------------
(***************************************************************************)
(* Proofs about Registry for every set of devices, connections and calls   *)
(* and every bound.  IInv is inductive: TypeStep and DisciplineStep take   *)
(* it across every action.  The argument for presence is the lock: between *)
(* the commit of a row and the change of the table `written` names the     *)
(* connection, nobody else can write the row ONLINE, and the entry removed *)
(* afterwards is that connection's own.                                    *)
(***************************************************************************)
EXTENDS Registry, TLAPS

\* Every step keeps the types, one step of the proof per action.
LEMMA TypeStep ==
  ASSUME TypeOK, [Next]_vars
  PROVE  TypeOK'
<1> USE IdentityAssumption
         DEF tableVars, lockVars, appVars, dbVars, connVars, netVars, callVars
<1>1. ASSUME NEW c \in Conn, Accept(c)
      PROVE  TypeOK'
  BY <1>1 DEF Accept, TypeOK, DbTypes, TableTypes, ConnTypes, CallTypes,
       Status
<1>2. ASSUME NEW c \in Conn, Leave(c)
      PROVE  TypeOK'
  BY <1>2 DEF Leave, TypeOK, DbTypes, TableTypes, ConnTypes, CallTypes, Status
<1>3. ASSUME NEW c \in Conn, PublishCommit(c)
      PROVE  TypeOK'
  <2>1. DbTypes'
    BY <1>3 DEF PublishCommit, LockFree, SetRow, MarkOnline, TypeOK, DbTypes,
         Status
  <2>2. TableTypes'
    BY <1>3 DEF PublishCommit, LockFree, SetRow, MarkOnline, TypeOK,
         TableTypes, ConnTypes, CallTypes
  <2>3. ConnTypes'
    BY <1>3 DEF PublishCommit, LockFree, SetRow, MarkOnline, TypeOK,
         TableTypes, ConnTypes
  <2>4. CallTypes'
    BY <1>3 DEF PublishCommit, LockFree, SetRow, MarkOnline, TypeOK,
         TableTypes, CallTypes
  <2> QED BY <2>1, <2>2, <2>3, <2>4 DEF TypeOK
<1>4. ASSUME NEW c \in Conn, PublishRefused(c)
      PROVE  TypeOK'
  <2>1. DbTypes'
    BY <1>4 DEF PublishRefused, LockFree, Fault, TypeOK, DbTypes, Status
  <2>2. TableTypes'
    BY <1>4 DEF PublishRefused, LockFree, Fault, TypeOK, TableTypes,
         ConnTypes, CallTypes
  <2>3. ConnTypes'
    BY <1>4 DEF PublishRefused, LockFree, Fault, TypeOK, TableTypes, ConnTypes
  <2>4. CallTypes'
    BY <1>4 DEF PublishRefused, LockFree, Fault, TypeOK, TableTypes, CallTypes
  <2> QED BY <2>1, <2>2, <2>3, <2>4 DEF TypeOK
<1>5. ASSUME NEW c \in Conn, Install(c)
      PROVE  TypeOK'
  <2>1. DbTypes'
    BY <1>5 DEF Install, Release, TypeOK, DbTypes, Status
  <2>2. TableTypes'
    BY <1>5 DEF Install, Release, TypeOK, TableTypes, ConnTypes, CallTypes
  <2>3. ConnTypes'
    BY <1>5 DEF Install, Release, TypeOK, TableTypes, ConnTypes
  <2>4. CallTypes'
    BY <1>5 DEF Install, Release, TypeOK, TableTypes, CallTypes
  <2> QED BY <2>1, <2>2, <2>3, <2>4 DEF TypeOK
<1>6. ASSUME NEW c \in Conn, CloseOld(c)
      PROVE  TypeOK'
  BY <1>6 DEF CloseOld, TypeOK, DbTypes, TableTypes, ConnTypes, CallTypes,
       Status
<1>7. ASSUME NEW c \in Conn, CancelRegister(c)
      PROVE  TypeOK'
  <2>1. DbTypes'
    BY <1>7 DEF CancelRegister, TypeOK, DbTypes, Status
  <2>2. TableTypes'
    BY <1>7 DEF CancelRegister, TypeOK, TableTypes, ConnTypes, CallTypes
  <2>3. ConnTypes'
    BY <1>7 DEF CancelRegister, TypeOK, TableTypes, ConnTypes
  <2>4. CallTypes'
    BY <1>7 DEF CancelRegister, TypeOK, TableTypes, CallTypes
  <2> QED BY <2>1, <2>2, <2>3, <2>4 DEF TypeOK
<1>8. ASSUME NEW c \in Conn, NEW m \in Call \cup {"ping"}, Receive(c, m)
      PROVE  TypeOK'
  <2>1. DbTypes'
    BY <1>8 DEF Receive, LockFree, TouchAdmits, Current, SetRow, TouchRow,
         Fault, TypeOK, DbTypes, Status
  <2>2. TableTypes'
    BY <1>8 DEF Receive, LockFree, TouchAdmits, Current, SetRow, TouchRow,
         Fault, TypeOK, TableTypes, ConnTypes, CallTypes
  <2>3. ConnTypes'
    BY <1>8 DEF Receive, LockFree, TouchAdmits, Current, SetRow, TouchRow,
         Fault, TypeOK, TableTypes, ConnTypes
  <2>4. CallTypes'
    BY <1>8 DEF Receive, LockFree, TouchAdmits, Current, SetRow, TouchRow,
         Fault, TypeOK, TableTypes, CallTypes
  <2> QED BY <2>1, <2>2, <2>3, <2>4 DEF TypeOK
<1>9. ASSUME NEW c \in Conn, Resolve(c)
      PROVE  TypeOK'
  <2>1. DbTypes'
    BY <1>9 DEF Resolve, LockFree, Answers, TypeOK, DbTypes, Status
  <2>2. TableTypes'
    BY <1>9 DEF Resolve, LockFree, Answers, TypeOK, TableTypes, ConnTypes,
         CallTypes
  <2>3. ConnTypes'
    BY <1>9 DEF Resolve, LockFree, Answers, TypeOK, TableTypes, ConnTypes
  <2>4. CallTypes'
    BY <1>9 DEF Resolve, LockFree, Answers, TypeOK, TableTypes, CallTypes
  <2> QED BY <2>1, <2>2, <2>3, <2>4 DEF TypeOK
<1>10. ASSUME NEW c \in Conn, EndServing(c)
      PROVE  TypeOK'
  BY <1>10 DEF EndServing, TypeOK, DbTypes, TableTypes, ConnTypes, CallTypes,
       Status
<1>11. ASSUME NEW c \in Conn, HandlerRetire(c)
      PROVE  TypeOK'
  <2>1. DbTypes'
    BY <1>11 DEF HandlerRetire, DisconnectCommit, DisconnectReplaced,
         DisconnectFault, Closed, FailWaiters, LockFree, Current, SetRow,
         MarkOffline, Fault, TypeOK, DbTypes, Status
  <2>2. TableTypes'
    BY <1>11 DEF HandlerRetire, DisconnectCommit, DisconnectReplaced,
         DisconnectFault, Closed, FailWaiters, LockFree, Current, SetRow,
         MarkOffline, Fault, TypeOK, TableTypes, ConnTypes, CallTypes
  <2>3. ConnTypes'
    BY <1>11 DEF HandlerRetire, DisconnectCommit, DisconnectReplaced,
         DisconnectFault, Closed, FailWaiters, LockFree, Current, SetRow,
         MarkOffline, Fault, TypeOK, TableTypes, ConnTypes
  <2>4. CallTypes'
    BY <1>11 DEF HandlerRetire, DisconnectCommit, DisconnectReplaced,
         DisconnectFault, Closed, FailWaiters, LockFree, Current, SetRow,
         MarkOffline, Fault, TypeOK, TableTypes, CallTypes
  <2> QED BY <2>1, <2>2, <2>3, <2>4 DEF TypeOK
<1>12. ASSUME NEW c \in Conn, HandlerRemove(c)
      PROVE  TypeOK'
  <2>1. DbTypes'
    BY <1>12 DEF HandlerRemove, DisconnectRemove, Closed, FailWaiters,
         Release, TypeOK, DbTypes, Status
  <2>2. TableTypes'
    BY <1>12 DEF HandlerRemove, DisconnectRemove, Closed, FailWaiters,
         Release, TypeOK, TableTypes, ConnTypes, CallTypes
  <2>3. ConnTypes'
    BY <1>12 DEF HandlerRemove, DisconnectRemove, Closed, FailWaiters,
         Release, TypeOK, TableTypes, ConnTypes
  <2>4. CallTypes'
    BY <1>12 DEF HandlerRemove, DisconnectRemove, Closed, FailWaiters,
         Release, TypeOK, TableTypes, CallTypes
  <2> QED BY <2>1, <2>2, <2>3, <2>4 DEF TypeOK
<1>13. ASSUME NEW c \in Conn, Drop(c)
      PROVE  TypeOK'
  BY <1>13 DEF Drop, TypeOK, DbTypes, TableTypes, ConnTypes, CallTypes, Status
<1>14. ASSUME NEW c \in Conn, Age(c)
      PROVE  TypeOK'
  BY <1>14 DEF Age, Current, TypeOK, DbTypes, TableTypes, ConnTypes,
       CallTypes, Status
<1>15. ASSUME NEW c \in Conn, NEW k \in Call, AgentServe(c, k)
      PROVE  TypeOK'
  <2>1. DbTypes'
    BY <1>15 DEF AgentServe, TypeOK, DbTypes, Status
  <2>2. TableTypes'
    BY <1>15 DEF AgentServe, TypeOK, TableTypes, ConnTypes, CallTypes
  <2>3. ConnTypes'
    BY <1>15 DEF AgentServe, TypeOK, TableTypes, ConnTypes
  <2>4. CallTypes'
    BY <1>15 DEF AgentServe, TypeOK, TableTypes, CallTypes
  <2> QED BY <2>1, <2>2, <2>3, <2>4 DEF TypeOK
<1>16. ASSUME MonitorCheckFails PROVE TypeOK'
  <2>1. DbTypes'
    <3>1. faults' \in Nat
      BY <1>16 DEF MonitorCheckFails, Fault, TypeOK, DbTypes
    <3>2. ready' = FALSE /\ UNCHANGED <<row, abandoned, restarts, stopping>>
      BY <1>16 DEF MonitorCheckFails, Fault
    <3> QED BY <3>1, <3>2 DEF TypeOK, DbTypes
  <2>2. TableTypes'
    BY <1>16 DEF MonitorCheckFails, Fault, TypeOK, TableTypes, ConnTypes,
         CallTypes
  <2>3. ConnTypes'
    BY <1>16 DEF MonitorCheckFails, Fault, TypeOK, TableTypes, ConnTypes
  <2>4. CallTypes'
    BY <1>16 DEF MonitorCheckFails, Fault, TypeOK, TableTypes, CallTypes
  <2> QED BY <2>1, <2>2, <2>3, <2>4 DEF TypeOK
<1>17. ASSUME MonitorBegin PROVE TypeOK'
  BY <1>17 DEF MonitorBegin, LockFree, Registered, Current, TypeOK, DbTypes,
       TableTypes, ConnTypes, CallTypes, Status
<1>18. ASSUME NEW c \in Conn, ExpireCommit(c)
      PROVE  TypeOK'
  BY <1>18 DEF ExpireCommit, SetRow, MarkOffline, TypeOK, DbTypes, TableTypes,
       ConnTypes, CallTypes, Status
<1>19. ASSUME ExpireRemove PROVE TypeOK'
  BY <1>19 DEF ExpireRemove, TypeOK, DbTypes, TableTypes, ConnTypes,
       CallTypes, Status
<1>20. ASSUME ExpireFault PROVE TypeOK'
  <2>1. DbTypes'
    <3>1. faults' \in Nat
      BY <1>20 DEF ExpireFault, Fault, TypeOK, DbTypes
    <3>2. ready' = FALSE /\ UNCHANGED <<row, abandoned, restarts, stopping>>
      BY <1>20 DEF ExpireFault, Fault
    <3> QED BY <3>1, <3>2 DEF TypeOK, DbTypes
  <2>2. TableTypes'
    BY <1>20 DEF ExpireFault, Fault, TypeOK, TableTypes, ConnTypes, CallTypes
  <2>3. ConnTypes'
    BY <1>20 DEF ExpireFault, Fault, TypeOK, TableTypes, ConnTypes
  <2>4. CallTypes'
    BY <1>20 DEF ExpireFault, Fault, TypeOK, TableTypes, CallTypes
  <2> QED BY <2>1, <2>2, <2>3, <2>4 DEF TypeOK
<1>21. ASSUME MonitorEnd PROVE TypeOK'
  BY <1>21 DEF MonitorEnd, TypeOK, DbTypes, TableTypes, ConnTypes, CallTypes,
       Status
<1>22. ASSUME BeginShutdown PROVE TypeOK'
  BY <1>22 DEF BeginShutdown, Release, TypeOK, DbTypes, TableTypes, ConnTypes,
       CallTypes, Status
<1>23. ASSUME CloseBegin PROVE TypeOK'
  BY <1>23 DEF CloseBegin, LockFree, Registered, Current, TypeOK, DbTypes,
       TableTypes, ConnTypes, CallTypes, Status
<1>24. ASSUME NEW c \in Conn, CloseDevice(c)
      PROVE  TypeOK'
  <2>1. DbTypes'
    BY <1>24 DEF CloseDevice, SetRow, MarkOffline, Fault, TypeOK, DbTypes,
         Status
  <2>2. TableTypes'
    BY <1>24 DEF CloseDevice, SetRow, MarkOffline, Fault, TypeOK, TableTypes,
         ConnTypes, CallTypes
  <2>3. ConnTypes'
    BY <1>24 DEF CloseDevice, SetRow, MarkOffline, Fault, TypeOK, TableTypes,
         ConnTypes
  <2>4. CallTypes'
    BY <1>24 DEF CloseDevice, SetRow, MarkOffline, Fault, TypeOK, TableTypes,
         CallTypes
  <2> QED BY <2>1, <2>2, <2>3, <2>4 DEF TypeOK
<1>25. ASSUME CloseEnd PROVE TypeOK'
  BY <1>25 DEF CloseEnd, FailWaiters, TypeOK, DbTypes, TableTypes, ConnTypes,
       CallTypes, Status
<1>26. ASSUME Restart PROVE TypeOK'
  BY <1>26 DEF Restart, Release, TypeOK, DbTypes, TableTypes, ConnTypes,
       CallTypes, Status
<1>27. ASSUME NEW d \in Device, Revoke(d)
      PROVE  TypeOK'
  BY <1>27 DEF Revoke, SetRow, TypeOK, DbTypes, TableTypes, ConnTypes,
       CallTypes, Status
<1>28. ASSUME NEW k \in Call, RequestOffline(k)
      PROVE  TypeOK'
  BY <1>28 DEF RequestOffline, TypeOK, DbTypes, TableTypes, ConnTypes,
       CallTypes, Status
<1>29. ASSUME NEW k \in Call, RequestQueues(k)
      PROVE  TypeOK'
  BY <1>29 DEF RequestQueues, LockFree, TypeOK, DbTypes, TableTypes,
       ConnTypes, CallTypes, Status
<1>30. ASSUME NEW k \in Call, RequestAdmitted(k)
      PROVE  TypeOK'
  <2>1. DbTypes'
    BY <1>30 DEF RequestAdmitted, LockFree, Ends, TypeOK, DbTypes, Status
  <2>2. TableTypes'
    BY <1>30 DEF RequestAdmitted, LockFree, Ends, TypeOK, TableTypes,
         ConnTypes, CallTypes
  <2>3. ConnTypes'
    BY <1>30 DEF RequestAdmitted, LockFree, Ends, TypeOK, TableTypes,
         ConnTypes
  <2>4. CallTypes'
    BY <1>30 DEF RequestAdmitted, LockFree, Ends, TypeOK, TableTypes,
         CallTypes
  <2> QED BY <2>1, <2>2, <2>3, <2>4 DEF TypeOK
<1>31. ASSUME NEW k \in Call, Transmit(k)
      PROVE  TypeOK'
  <2>1. DbTypes'
    BY <1>31 DEF Transmit, TypeOK, DbTypes, Status
  <2>2. TableTypes'
    BY <1>31 DEF Transmit, TypeOK, TableTypes, ConnTypes, CallTypes
  <2>3. ConnTypes'
    <3>0. wire \in [Conn -> SUBSET Call]
      BY DEF TypeOK, ConnTypes
    <3>1. wire' \in [Conn -> SUBSET Call]
      BY <1>31, <3>0 DEF Transmit
    <3>2. UNCHANGED <<hpc, cancelled, old, msg, sock, silent, inbox>>
      BY <1>31 DEF Transmit
    <3> QED BY <3>1, <3>2 DEF TypeOK, ConnTypes
  <2>4. CallTypes'
    BY <1>31 DEF Transmit, TypeOK, TableTypes, CallTypes
  <2> QED BY <2>1, <2>2, <2>3, <2>4 DEF TypeOK
<1>32. ASSUME NEW k \in Call, SendReturns(k)
      PROVE  TypeOK'
  <2>1. DbTypes'
    BY <1>32 DEF SendReturns, StillCurrent, Ends, TypeOK, DbTypes, Status
  <2>2. TableTypes'
    BY <1>32 DEF SendReturns, StillCurrent, Ends, TypeOK, TableTypes,
         ConnTypes, CallTypes
  <2>3. ConnTypes'
    BY <1>32 DEF SendReturns, StillCurrent, Ends, TypeOK, TableTypes,
         ConnTypes
  <2>4. CallTypes'
    BY <1>32 DEF SendReturns, StillCurrent, Ends, TypeOK, TableTypes,
         CallTypes
  <2> QED BY <2>1, <2>2, <2>3, <2>4 DEF TypeOK
<1>33. ASSUME NEW k \in Call, SendFails(k)
      PROVE  TypeOK'
  BY <1>33 DEF SendFails, TypeOK, DbTypes, TableTypes, ConnTypes, CallTypes,
       Status
<1>34. ASSUME NEW k \in Call, CallRetires(k)
      PROVE  TypeOK'
  <2>1. DbTypes'
    BY <1>34 DEF CallRetires, DisconnectCommit, DisconnectRemove,
         DisconnectReplaced, DisconnectFault, FailWaiters, Release, LockFree,
         Current, SetRow, MarkOffline, Fault, Ends, TypeOK, DbTypes, Status
  <2>2. TableTypes'
    BY <1>34 DEF CallRetires, DisconnectCommit, DisconnectRemove,
         DisconnectReplaced, DisconnectFault, FailWaiters, Release, LockFree,
         Current, SetRow, MarkOffline, Fault, Ends, TypeOK, TableTypes,
         ConnTypes, CallTypes
  <2>3. ConnTypes'
    BY <1>34 DEF CallRetires, DisconnectCommit, DisconnectRemove,
         DisconnectReplaced, DisconnectFault, FailWaiters, Release, LockFree,
         Current, SetRow, MarkOffline, Fault, Ends, TypeOK, TableTypes,
         ConnTypes
  <2>4. CallTypes'
    BY <1>34 DEF CallRetires, DisconnectCommit, DisconnectRemove,
         DisconnectReplaced, DisconnectFault, FailWaiters, Release, LockFree,
         Current, SetRow, MarkOffline, Fault, Ends, TypeOK, TableTypes,
         CallTypes
  <2> QED BY <2>1, <2>2, <2>3, <2>4 DEF TypeOK
<1>35. ASSUME NEW k \in Call, Answered(k)
      PROVE  TypeOK'
  BY <1>35 DEF Answered, Ends, TypeOK, DbTypes, TableTypes, ConnTypes,
       CallTypes, Status
<1>36. ASSUME NEW k \in Call, TimesOut(k)
      PROVE  TypeOK'
  BY <1>36 DEF TimesOut, Ends, TypeOK, DbTypes, TableTypes, ConnTypes,
       CallTypes, Status
<1>37. ASSUME NEW k \in Call, Finish(k)
      PROVE  TypeOK'
  BY <1>37 DEF Finish, LockFree, DropOwnEntry, TypeOK, DbTypes, TableTypes,
       ConnTypes, CallTypes, Status
<1>38. ASSUME NEW k \in Call, CancelCall(k)
      PROVE  TypeOK'
  <2>1. DbTypes'
    BY <1>38 DEF CancelCall, LockFree, Ends, Release, TypeOK, DbTypes, Status
  <2>2. TableTypes'
    BY <1>38 DEF CancelCall, LockFree, Ends, Release, TypeOK, TableTypes,
         ConnTypes, CallTypes
  <2>3. ConnTypes'
    BY <1>38 DEF CancelCall, LockFree, Ends, Release, TypeOK, TableTypes,
         ConnTypes
  <2>4. CallTypes'
    BY <1>38 DEF CancelCall, LockFree, Ends, Release, TypeOK, TableTypes,
         CallTypes
  <2> QED BY <2>1, <2>2, <2>3, <2>4 DEF TypeOK
<1>39. CASE UNCHANGED vars
  BY <1>39 DEF vars, TypeOK, DbTypes, TableTypes, ConnTypes, CallTypes, Status
<1> QED BY <1>1, <1>2, <1>3, <1>4, <1>5, <1>6, <1>7, <1>8, <1>9, <1>10, <1>11,
           <1>12, <1>13, <1>14, <1>15, <1>16, <1>17, <1>18, <1>19, <1>20, <1>21,
           <1>22, <1>23, <1>24, <1>25, <1>26, <1>27, <1>28, <1>29, <1>30, <1>31,
           <1>32, <1>33, <1>34, <1>35, <1>36, <1>37, <1>38, <1>39
     DEF Next, HandlerStep, ConnectionEvent, MonitorStep,
         ShutdownStep, CallStep, CallEvent

\* Every step keeps what the lock protects.
LEMMA DisciplineStep ==
  ASSUME TypeOK, Discipline, [Next]_vars
  PROVE  Discipline'
<1> USE IdentityAssumption
         DEF tableVars, lockVars, appVars, dbVars, connVars, netVars, callVars
<1>1. ASSUME NEW c \in Conn, Accept(c)
      PROVE  Discipline'
  BY <1>1 DEF Accept, Discipline, PublishingHoldsLock, WrittenIsRetiring,
       TodoIsCurrent, NewIsUnused, RetiringIsDown, ServedIsOnline,
       PresenceBacked, TypeOK, DbTypes, TableTypes, ConnTypes, CallTypes
<1>2. ASSUME NEW c \in Conn, Leave(c)
      PROVE  Discipline'
  BY <1>2 DEF Leave, Discipline, PublishingHoldsLock, WrittenIsRetiring,
       TodoIsCurrent, NewIsUnused, RetiringIsDown, ServedIsOnline,
       PresenceBacked, TypeOK, DbTypes, TableTypes, ConnTypes, CallTypes
<1>3. ASSUME NEW c \in Conn, PublishCommit(c)
      PROVE  Discipline'
  <2>1. PublishingHoldsLock'
    BY <1>3 DEF PublishCommit, LockFree, SetRow, MarkOnline, Discipline,
         PublishingHoldsLock, WrittenIsRetiring, TypeOK, DbTypes, TableTypes,
         ConnTypes
  <2>2. WrittenIsRetiring'
    BY <1>3 DEF PublishCommit, LockFree, SetRow, MarkOnline, Discipline,
         WrittenIsRetiring, PublishingHoldsLock, TodoIsCurrent, TypeOK,
         DbTypes, TableTypes, ConnTypes
  <2>3. TodoIsCurrent'
    BY <1>3 DEF PublishCommit, LockFree, SetRow, MarkOnline, Discipline,
         TodoIsCurrent, WrittenIsRetiring, PublishingHoldsLock, TypeOK,
         DbTypes, TableTypes, ConnTypes
  <2>4. NewIsUnused'
    BY <1>3 DEF PublishCommit, LockFree, SetRow, MarkOnline, Discipline,
         NewIsUnused, WrittenIsRetiring, TodoIsCurrent, TypeOK, DbTypes,
         TableTypes, ConnTypes
  <2>5. RetiringIsDown'
    BY <1>3 DEF PublishCommit, LockFree, SetRow, MarkOnline, Discipline,
         RetiringIsDown, TypeOK, TableTypes, ConnTypes, CallTypes
  <2>6. ServedIsOnline'
    BY <1>3 DEF PublishCommit, LockFree, SetRow, MarkOnline, Discipline,
         ServedIsOnline, PublishingHoldsLock, TodoIsCurrent, RetiringIsDown,
         TypeOK, DbTypes, TableTypes, ConnTypes
  <2>7. PresenceBacked'
    BY <1>3 DEF PublishCommit, LockFree, SetRow, MarkOnline, Discipline,
         PresenceBacked, WrittenIsRetiring, PublishingHoldsLock, TypeOK,
         DbTypes, TableTypes, ConnTypes
  <2> QED BY <2>1, <2>2, <2>3, <2>4, <2>5, <2>6, <2>7 DEF Discipline
<1>4. ASSUME NEW c \in Conn, PublishRefused(c)
      PROVE  Discipline'
  BY <1>4 DEF PublishRefused, LockFree, Fault, Discipline,
       PublishingHoldsLock, WrittenIsRetiring, TodoIsCurrent, NewIsUnused,
       RetiringIsDown, ServedIsOnline, PresenceBacked, TypeOK, DbTypes,
       TableTypes, ConnTypes, CallTypes
<1>5. ASSUME NEW c \in Conn, Install(c)
      PROVE  Discipline'
  <2>1. PublishingHoldsLock'
    BY <1>5 DEF Install, Release, Discipline, PublishingHoldsLock,
         WrittenIsRetiring, TypeOK, DbTypes, TableTypes, ConnTypes
  <2>2. WrittenIsRetiring'
    BY <1>5 DEF Install, Release, Discipline, WrittenIsRetiring,
         PublishingHoldsLock, TodoIsCurrent, TypeOK, DbTypes, TableTypes,
         ConnTypes
  <2>3. TodoIsCurrent'
    BY <1>5 DEF Install, Release, Discipline, TodoIsCurrent,
         WrittenIsRetiring, PublishingHoldsLock, TypeOK, DbTypes, TableTypes,
         ConnTypes
  <2>4. NewIsUnused'
    BY <1>5 DEF Install, Release, Discipline, NewIsUnused, WrittenIsRetiring,
         TodoIsCurrent, TypeOK, DbTypes, TableTypes, ConnTypes
  <2>5. RetiringIsDown'
    BY <1>5 DEF Install, Release, Discipline, RetiringIsDown, TypeOK,
         TableTypes, ConnTypes, CallTypes
  <2>6. ServedIsOnline'
    BY <1>5 DEF Install, Release, Discipline, ServedIsOnline,
         PublishingHoldsLock, TodoIsCurrent, RetiringIsDown, TypeOK, DbTypes,
         TableTypes, ConnTypes
  <2>7. PresenceBacked'
    BY <1>5 DEF Install, Release, Discipline, PresenceBacked,
         WrittenIsRetiring, PublishingHoldsLock, TypeOK, DbTypes, TableTypes,
         ConnTypes
  <2> QED BY <2>1, <2>2, <2>3, <2>4, <2>5, <2>6, <2>7 DEF Discipline
<1>6. ASSUME NEW c \in Conn, CloseOld(c)
      PROVE  Discipline'
  BY <1>6 DEF CloseOld, Discipline, PublishingHoldsLock, WrittenIsRetiring,
       TodoIsCurrent, NewIsUnused, RetiringIsDown, ServedIsOnline,
       PresenceBacked, TypeOK, DbTypes, TableTypes, ConnTypes, CallTypes
<1>7. ASSUME NEW c \in Conn, CancelRegister(c)
      PROVE  Discipline'
  BY <1>7 DEF CancelRegister, Discipline, PublishingHoldsLock,
       WrittenIsRetiring, TodoIsCurrent, NewIsUnused, RetiringIsDown,
       ServedIsOnline, PresenceBacked, TypeOK, DbTypes, TableTypes, ConnTypes,
       CallTypes
<1>8. ASSUME NEW c \in Conn, NEW m \in Call \cup {"ping"}, Receive(c, m)
      PROVE  Discipline'
  <2>1. PublishingHoldsLock'
    BY <1>8 DEF Receive, LockFree, TouchAdmits, Current, SetRow, TouchRow,
         Fault, Discipline, PublishingHoldsLock, WrittenIsRetiring, TypeOK,
         DbTypes, TableTypes, ConnTypes
  <2>2. WrittenIsRetiring'
    BY <1>8 DEF Receive, LockFree, TouchAdmits, Current, SetRow, TouchRow,
         Fault, Discipline, WrittenIsRetiring, PublishingHoldsLock,
         TodoIsCurrent, TypeOK, DbTypes, TableTypes, ConnTypes
  <2>3. TodoIsCurrent'
    BY <1>8 DEF Receive, LockFree, TouchAdmits, Current, SetRow, TouchRow,
         Fault, Discipline, TodoIsCurrent, WrittenIsRetiring,
         PublishingHoldsLock, TypeOK, DbTypes, TableTypes, ConnTypes
  <2>4. NewIsUnused'
    BY <1>8 DEF Receive, LockFree, TouchAdmits, Current, SetRow, TouchRow,
         Fault, Discipline, NewIsUnused, WrittenIsRetiring, TodoIsCurrent,
         TypeOK, DbTypes, TableTypes, ConnTypes
  <2>5. RetiringIsDown'
    BY <1>8 DEF Receive, LockFree, TouchAdmits, Current, SetRow, TouchRow,
         Fault, Discipline, RetiringIsDown, TypeOK, TableTypes, ConnTypes,
         CallTypes
  <2>6. ServedIsOnline'
    BY <1>8 DEF Receive, LockFree, TouchAdmits, Current, SetRow, TouchRow,
         Fault, Discipline, ServedIsOnline, PublishingHoldsLock,
         TodoIsCurrent, RetiringIsDown, TypeOK, DbTypes, TableTypes, ConnTypes
  <2>7. PresenceBacked'
    BY <1>8 DEF Receive, LockFree, TouchAdmits, Current, SetRow, TouchRow,
         Fault, Discipline, PresenceBacked, WrittenIsRetiring,
         PublishingHoldsLock, TypeOK, DbTypes, TableTypes, ConnTypes
  <2> QED BY <2>1, <2>2, <2>3, <2>4, <2>5, <2>6, <2>7 DEF Discipline
<1>9. ASSUME NEW c \in Conn, Resolve(c)
      PROVE  Discipline'
  BY <1>9 DEF Resolve, LockFree, Answers, Discipline, PublishingHoldsLock,
       WrittenIsRetiring, TodoIsCurrent, NewIsUnused, RetiringIsDown,
       ServedIsOnline, PresenceBacked, TypeOK, DbTypes, TableTypes, ConnTypes,
       CallTypes
<1>10. ASSUME NEW c \in Conn, EndServing(c)
      PROVE  Discipline'
  BY <1>10 DEF EndServing, Discipline, PublishingHoldsLock, WrittenIsRetiring,
       TodoIsCurrent, NewIsUnused, RetiringIsDown, ServedIsOnline,
       PresenceBacked, TypeOK, DbTypes, TableTypes, ConnTypes, CallTypes
<1>11. ASSUME NEW c \in Conn, HandlerRetire(c)
      PROVE  Discipline'
  BY <1>11 DEF HandlerRetire, DisconnectCommit, DisconnectReplaced,
       DisconnectFault, Closed, FailWaiters, LockFree, Current, SetRow,
       MarkOffline, Fault, Discipline, PublishingHoldsLock, WrittenIsRetiring,
       TodoIsCurrent, NewIsUnused, RetiringIsDown, ServedIsOnline,
       PresenceBacked, TypeOK, DbTypes, TableTypes, ConnTypes, CallTypes
<1>12. ASSUME NEW c \in Conn, HandlerRemove(c)
      PROVE  Discipline'
  BY <1>12 DEF HandlerRemove, DisconnectRemove, Closed, FailWaiters, Release,
       Discipline, PublishingHoldsLock, WrittenIsRetiring, TodoIsCurrent,
       NewIsUnused, RetiringIsDown, ServedIsOnline, PresenceBacked, TypeOK,
       DbTypes, TableTypes, ConnTypes, CallTypes
<1>13. ASSUME NEW c \in Conn, Drop(c)
      PROVE  Discipline'
  BY <1>13 DEF Drop, Discipline, PublishingHoldsLock, WrittenIsRetiring,
       TodoIsCurrent, NewIsUnused, RetiringIsDown, ServedIsOnline,
       PresenceBacked, TypeOK, DbTypes, TableTypes, ConnTypes, CallTypes
<1>14. ASSUME NEW c \in Conn, Age(c)
      PROVE  Discipline'
  BY <1>14 DEF Age, Current, Discipline, PublishingHoldsLock,
       WrittenIsRetiring, TodoIsCurrent, NewIsUnused, RetiringIsDown,
       ServedIsOnline, PresenceBacked, TypeOK, DbTypes, TableTypes, ConnTypes,
       CallTypes
<1>15. ASSUME NEW c \in Conn, NEW k \in Call, AgentServe(c, k)
      PROVE  Discipline'
  BY <1>15 DEF AgentServe, Discipline, PublishingHoldsLock, WrittenIsRetiring,
       TodoIsCurrent, NewIsUnused, RetiringIsDown, ServedIsOnline,
       PresenceBacked, TypeOK, DbTypes, TableTypes, ConnTypes, CallTypes
<1>16. ASSUME MonitorCheckFails PROVE Discipline'
  BY <1>16 DEF MonitorCheckFails, Fault, Discipline, PublishingHoldsLock,
       WrittenIsRetiring, TodoIsCurrent, NewIsUnused, RetiringIsDown,
       ServedIsOnline, PresenceBacked, TypeOK, DbTypes, TableTypes, ConnTypes,
       CallTypes
<1>17. ASSUME MonitorBegin PROVE Discipline'
  BY <1>17 DEF MonitorBegin, LockFree, Registered, Current, Discipline,
       PublishingHoldsLock, WrittenIsRetiring, TodoIsCurrent, NewIsUnused,
       RetiringIsDown, ServedIsOnline, PresenceBacked, TypeOK, DbTypes,
       TableTypes, ConnTypes, CallTypes
<1>18. ASSUME NEW c \in Conn, ExpireCommit(c)
      PROVE  Discipline'
  BY <1>18 DEF ExpireCommit, SetRow, MarkOffline, Discipline,
       PublishingHoldsLock, WrittenIsRetiring, TodoIsCurrent, NewIsUnused,
       RetiringIsDown, ServedIsOnline, PresenceBacked, TypeOK, DbTypes,
       TableTypes, ConnTypes, CallTypes
<1>19. ASSUME ExpireRemove PROVE Discipline'
  BY <1>19 DEF ExpireRemove, Discipline, PublishingHoldsLock,
       WrittenIsRetiring, TodoIsCurrent, NewIsUnused, RetiringIsDown,
       ServedIsOnline, PresenceBacked, TypeOK, DbTypes, TableTypes, ConnTypes,
       CallTypes
<1>20. ASSUME ExpireFault PROVE Discipline'
  BY <1>20 DEF ExpireFault, Fault, Discipline, PublishingHoldsLock,
       WrittenIsRetiring, TodoIsCurrent, NewIsUnused, RetiringIsDown,
       ServedIsOnline, PresenceBacked, TypeOK, DbTypes, TableTypes, ConnTypes,
       CallTypes
<1>21. ASSUME MonitorEnd PROVE Discipline'
  BY <1>21 DEF MonitorEnd, Discipline, PublishingHoldsLock, WrittenIsRetiring,
       TodoIsCurrent, NewIsUnused, RetiringIsDown, ServedIsOnline,
       PresenceBacked, TypeOK, DbTypes, TableTypes, ConnTypes, CallTypes
<1>22. ASSUME BeginShutdown PROVE Discipline'
  BY <1>22 DEF BeginShutdown, Release, Discipline, PublishingHoldsLock,
       WrittenIsRetiring, TodoIsCurrent, NewIsUnused, RetiringIsDown,
       ServedIsOnline, PresenceBacked, TypeOK, DbTypes, TableTypes, ConnTypes,
       CallTypes
<1>23. ASSUME CloseBegin PROVE Discipline'
  BY <1>23 DEF CloseBegin, LockFree, Registered, Current, Discipline,
       PublishingHoldsLock, WrittenIsRetiring, TodoIsCurrent, NewIsUnused,
       RetiringIsDown, ServedIsOnline, PresenceBacked, TypeOK, DbTypes,
       TableTypes, ConnTypes, CallTypes
<1>24. ASSUME NEW c \in Conn, CloseDevice(c)
      PROVE  Discipline'
  BY <1>24 DEF CloseDevice, SetRow, MarkOffline, Fault, Discipline,
       PublishingHoldsLock, WrittenIsRetiring, TodoIsCurrent, NewIsUnused,
       RetiringIsDown, ServedIsOnline, PresenceBacked, TypeOK, DbTypes,
       TableTypes, ConnTypes, CallTypes
<1>25. ASSUME CloseEnd PROVE Discipline'
  BY <1>25 DEF CloseEnd, FailWaiters, Discipline, PublishingHoldsLock,
       WrittenIsRetiring, TodoIsCurrent, NewIsUnused, RetiringIsDown,
       ServedIsOnline, PresenceBacked, TypeOK, DbTypes, TableTypes, ConnTypes,
       CallTypes
<1>26. ASSUME Restart PROVE Discipline'
  BY <1>26 DEF Restart, Release, Discipline, PublishingHoldsLock,
       WrittenIsRetiring, TodoIsCurrent, NewIsUnused, RetiringIsDown,
       ServedIsOnline, PresenceBacked, TypeOK, DbTypes, TableTypes, ConnTypes,
       CallTypes
<1>27. ASSUME NEW d \in Device, Revoke(d)
      PROVE  Discipline'
  BY <1>27 DEF Revoke, SetRow, Discipline, PublishingHoldsLock,
       WrittenIsRetiring, TodoIsCurrent, NewIsUnused, RetiringIsDown,
       ServedIsOnline, PresenceBacked, TypeOK, DbTypes, TableTypes, ConnTypes,
       CallTypes
<1>28. ASSUME NEW k \in Call, RequestOffline(k)
      PROVE  Discipline'
  BY <1>28 DEF RequestOffline, Discipline, PublishingHoldsLock,
       WrittenIsRetiring, TodoIsCurrent, NewIsUnused, RetiringIsDown,
       ServedIsOnline, PresenceBacked, TypeOK, DbTypes, TableTypes, ConnTypes,
       CallTypes
<1>29. ASSUME NEW k \in Call, RequestQueues(k)
      PROVE  Discipline'
  BY <1>29 DEF RequestQueues, LockFree, Discipline, PublishingHoldsLock,
       WrittenIsRetiring, TodoIsCurrent, NewIsUnused, RetiringIsDown,
       ServedIsOnline, PresenceBacked, TypeOK, DbTypes, TableTypes, ConnTypes,
       CallTypes
<1>30. ASSUME NEW k \in Call, RequestAdmitted(k)
      PROVE  Discipline'
  <2>1. PublishingHoldsLock'
    BY <1>30 DEF RequestAdmitted, LockFree, Ends, Discipline,
         PublishingHoldsLock, WrittenIsRetiring, TypeOK, DbTypes, TableTypes,
         ConnTypes
  <2>2. WrittenIsRetiring'
    BY <1>30 DEF RequestAdmitted, LockFree, Ends, Discipline,
         WrittenIsRetiring, PublishingHoldsLock, TodoIsCurrent, TypeOK,
         DbTypes, TableTypes, ConnTypes
  <2>3. TodoIsCurrent'
    BY <1>30 DEF RequestAdmitted, LockFree, Ends, Discipline, TodoIsCurrent,
         WrittenIsRetiring, PublishingHoldsLock, TypeOK, DbTypes, TableTypes,
         ConnTypes
  <2>4. NewIsUnused'
    BY <1>30 DEF RequestAdmitted, LockFree, Ends, Discipline, NewIsUnused,
         WrittenIsRetiring, TodoIsCurrent, TypeOK, DbTypes, TableTypes,
         ConnTypes
  <2>5. RetiringIsDown'
    BY <1>30 DEF RequestAdmitted, LockFree, Ends, Discipline, RetiringIsDown,
         TypeOK, TableTypes, ConnTypes, CallTypes
  <2>6. ServedIsOnline'
    BY <1>30 DEF RequestAdmitted, LockFree, Ends, Discipline, ServedIsOnline,
         PublishingHoldsLock, TodoIsCurrent, RetiringIsDown, TypeOK, DbTypes,
         TableTypes, ConnTypes
  <2>7. PresenceBacked'
    BY <1>30 DEF RequestAdmitted, LockFree, Ends, Discipline, PresenceBacked,
         WrittenIsRetiring, PublishingHoldsLock, TypeOK, DbTypes, TableTypes,
         ConnTypes
  <2> QED BY <2>1, <2>2, <2>3, <2>4, <2>5, <2>6, <2>7 DEF Discipline
<1>31. ASSUME NEW k \in Call, Transmit(k)
      PROVE  Discipline'
  BY <1>31 DEF Transmit, Discipline, PublishingHoldsLock, WrittenIsRetiring,
       TodoIsCurrent, NewIsUnused, RetiringIsDown, ServedIsOnline,
       PresenceBacked, TypeOK, DbTypes, TableTypes, ConnTypes, CallTypes
<1>32. ASSUME NEW k \in Call, SendReturns(k)
      PROVE  Discipline'
  BY <1>32 DEF SendReturns, StillCurrent, Ends, Discipline,
       PublishingHoldsLock, WrittenIsRetiring, TodoIsCurrent, NewIsUnused,
       RetiringIsDown, ServedIsOnline, PresenceBacked, TypeOK, DbTypes,
       TableTypes, ConnTypes, CallTypes
<1>33. ASSUME NEW k \in Call, SendFails(k)
      PROVE  Discipline'
  BY <1>33 DEF SendFails, Discipline, PublishingHoldsLock, WrittenIsRetiring,
       TodoIsCurrent, NewIsUnused, RetiringIsDown, ServedIsOnline,
       PresenceBacked, TypeOK, DbTypes, TableTypes, ConnTypes, CallTypes
<1>34. ASSUME NEW k \in Call, CallRetires(k)
      PROVE  Discipline'
  <2> DEFINE c == via[k]
  <2>0. c \in Conn /\ sock[c] = "down" /\ cpc[k] = "retiring" /\ UNCHANGED <<appVars, connVars, via>>
    BY <1>34 DEF CallRetires, Discipline, RetiringIsDown
  <2>1. CASE DisconnectCommit(k, c) /\ UNCHANGED <<cpc, outcome>>
    BY <2>0, <2>1 DEF DisconnectCommit, SetRow, MarkOffline, Discipline,
         PublishingHoldsLock, WrittenIsRetiring, TodoIsCurrent, NewIsUnused,
         RetiringIsDown, ServedIsOnline, PresenceBacked, TypeOK, DbTypes,
         TableTypes, ConnTypes, CallTypes, LockFree, Current, Release
  <2>2. CASE DisconnectRemove(k, c) /\ Ends(k, "unavailable")
    BY <2>0, <2>2 DEF DisconnectRemove, FailWaiters, Ends, Discipline,
         PublishingHoldsLock, WrittenIsRetiring, TodoIsCurrent, NewIsUnused,
         RetiringIsDown, ServedIsOnline, PresenceBacked, TypeOK, DbTypes,
         TableTypes, ConnTypes, CallTypes, LockFree, Current, Release
  <2>3. CASE DisconnectReplaced(c) /\ Ends(k, "unavailable")
    BY <2>0, <2>3 DEF DisconnectReplaced, FailWaiters, Ends, Discipline,
         PublishingHoldsLock, WrittenIsRetiring, TodoIsCurrent, NewIsUnused,
         RetiringIsDown, ServedIsOnline, PresenceBacked, TypeOK, DbTypes,
         TableTypes, ConnTypes, CallTypes, LockFree, Current, Release
  <2>4. CASE DisconnectFault(c) /\ Ends(k, "error")
    BY <2>0, <2>4 DEF DisconnectFault, Ends, Discipline, PublishingHoldsLock,
         WrittenIsRetiring, TodoIsCurrent, NewIsUnused, RetiringIsDown,
         ServedIsOnline, PresenceBacked, TypeOK, DbTypes, TableTypes,
         ConnTypes, CallTypes, LockFree, Current, Release
  <2> QED BY <1>34, <2>1, <2>2, <2>3, <2>4 DEF CallRetires
<1>35. ASSUME NEW k \in Call, Answered(k)
      PROVE  Discipline'
  BY <1>35 DEF Answered, Ends, Discipline, PublishingHoldsLock,
       WrittenIsRetiring, TodoIsCurrent, NewIsUnused, RetiringIsDown,
       ServedIsOnline, PresenceBacked, TypeOK, DbTypes, TableTypes, ConnTypes,
       CallTypes
<1>36. ASSUME NEW k \in Call, TimesOut(k)
      PROVE  Discipline'
  BY <1>36 DEF TimesOut, Ends, Discipline, PublishingHoldsLock,
       WrittenIsRetiring, TodoIsCurrent, NewIsUnused, RetiringIsDown,
       ServedIsOnline, PresenceBacked, TypeOK, DbTypes, TableTypes, ConnTypes,
       CallTypes
<1>37. ASSUME NEW k \in Call, Finish(k)
      PROVE  Discipline'
  BY <1>37 DEF Finish, LockFree, DropOwnEntry, Discipline,
       PublishingHoldsLock, WrittenIsRetiring, TodoIsCurrent, NewIsUnused,
       RetiringIsDown, ServedIsOnline, PresenceBacked, TypeOK, DbTypes,
       TableTypes, ConnTypes, CallTypes
<1>38. ASSUME NEW k \in Call, CancelCall(k)
      PROVE  Discipline'
  BY <1>38 DEF CancelCall, LockFree, Ends, Release, Discipline,
       PublishingHoldsLock, WrittenIsRetiring, TodoIsCurrent, NewIsUnused,
       RetiringIsDown, ServedIsOnline, PresenceBacked, TypeOK, DbTypes,
       TableTypes, ConnTypes, CallTypes
<1>39. CASE UNCHANGED vars
  BY <1>39 DEF vars, Discipline, PublishingHoldsLock, WrittenIsRetiring,
       TodoIsCurrent, NewIsUnused, RetiringIsDown, ServedIsOnline,
       PresenceBacked, TypeOK, DbTypes, TableTypes, ConnTypes, CallTypes
<1> QED BY <1>1, <1>2, <1>3, <1>4, <1>5, <1>6, <1>7, <1>8, <1>9, <1>10, <1>11,
           <1>12, <1>13, <1>14, <1>15, <1>16, <1>17, <1>18, <1>19, <1>20, <1>21,
           <1>22, <1>23, <1>24, <1>25, <1>26, <1>27, <1>28, <1>29, <1>30, <1>31,
           <1>32, <1>33, <1>34, <1>35, <1>36, <1>37, <1>38, <1>39
     DEF Next, HandlerStep, ConnectionEvent, MonitorStep,
         ShutdownStep, CallStep, CallEvent

\* IInv holds initially.
LEMMA InitIInv == Init => IInv
<1> SUFFICES ASSUME Init PROVE IInv
  OBVIOUS
<1>1. TypeOK
  BY IdentityAssumption
     DEF Init, TypeOK, DbTypes, TableTypes, ConnTypes, CallTypes, Status
<1>2. Discipline
  BY IdentityAssumption
     DEF Init, Discipline, PublishingHoldsLock, WrittenIsRetiring,
         TodoIsCurrent, NewIsUnused, RetiringIsDown, ServedIsOnline,
         PresenceBacked
<1> QED BY <1>1, <1>2 DEF IInv

\* The inductive invariant holds in every reachable state: the lock discipline
\* of register, touch, disconnect, expire and close, and the type invariant.
THEOREM Invariance == Spec => []IInv
<1>1. IInv /\ [Next]_vars => IInv'
  BY TypeStep, DisciplineStep DEF IInv
<1> QED BY InitIInv, <1>1, PTL DEF Spec

\* Every variable of the registry keeps its type.
THEOREM TypeCorrect == Spec => []TypeOK
<1>1. IInv => TypeOK
  BY DEF IInv
<1> QED BY Invariance, <1>1, PTL

\* An ONLINE row always has a registered connection behind it, a publication
\* in progress, or a finished process that left it.
THEOREM PresenceIsBacked == Spec => []PresenceBacked
<1>1. IInv => PresenceBacked
  BY DEF IInv, Discipline
<1> QED BY Invariance, <1>1, PTL

\* A served, open, recently heard connection never has its row OFFLINE.
THEOREM HealthyRow == Spec => []HealthyIsOnline
<1>1. IInv => HealthyIsOnline
  BY DEF IInv, Discipline, ServedIsOnline, HealthyIsOnline, Healthy
<1> QED BY Invariance, <1>1, PTL

\* No step overwrites a revoked row.
LEMMA RevokedStep ==
  ASSUME TypeOK, [Next]_vars
  PROVE  KeepsRevoked
<1> USE IdentityAssumption
         DEF tableVars, lockVars, appVars, dbVars, connVars, netVars, callVars
<1>1. ASSUME NEW c \in Conn, Accept(c)
      PROVE  KeepsRevoked
  BY <1>1 DEF Accept, KeepsRevoked, TypeOK, DbTypes
<1>2. ASSUME NEW c \in Conn, Leave(c)
      PROVE  KeepsRevoked
  BY <1>2 DEF Leave, KeepsRevoked, TypeOK, DbTypes
<1>3. ASSUME NEW c \in Conn, PublishCommit(c)
      PROVE  KeepsRevoked
  BY <1>3 DEF PublishCommit, LockFree, SetRow, MarkOnline, KeepsRevoked,
       TypeOK, DbTypes
<1>4. ASSUME NEW c \in Conn, PublishRefused(c)
      PROVE  KeepsRevoked
  BY <1>4 DEF PublishRefused, LockFree, Fault, KeepsRevoked, TypeOK, DbTypes
<1>5. ASSUME NEW c \in Conn, Install(c)
      PROVE  KeepsRevoked
  BY <1>5 DEF Install, Release, KeepsRevoked, TypeOK, DbTypes
<1>6. ASSUME NEW c \in Conn, CloseOld(c)
      PROVE  KeepsRevoked
  BY <1>6 DEF CloseOld, KeepsRevoked, TypeOK, DbTypes
<1>7. ASSUME NEW c \in Conn, CancelRegister(c)
      PROVE  KeepsRevoked
  BY <1>7 DEF CancelRegister, KeepsRevoked, TypeOK, DbTypes
<1>8. ASSUME NEW c \in Conn, NEW m \in Call \cup {"ping"}, Receive(c, m)
      PROVE  KeepsRevoked
  BY <1>8 DEF Receive, LockFree, TouchAdmits, Current, SetRow, TouchRow,
       Fault, KeepsRevoked, TypeOK, DbTypes
<1>9. ASSUME NEW c \in Conn, Resolve(c)
      PROVE  KeepsRevoked
  BY <1>9 DEF Resolve, LockFree, Answers, KeepsRevoked, TypeOK, DbTypes
<1>10. ASSUME NEW c \in Conn, EndServing(c)
      PROVE  KeepsRevoked
  BY <1>10 DEF EndServing, KeepsRevoked, TypeOK, DbTypes
<1>11. ASSUME NEW c \in Conn, HandlerRetire(c)
      PROVE  KeepsRevoked
  BY <1>11 DEF HandlerRetire, DisconnectCommit, DisconnectReplaced,
       DisconnectFault, Closed, FailWaiters, LockFree, Current, SetRow,
       MarkOffline, Fault, KeepsRevoked, TypeOK, DbTypes
<1>12. ASSUME NEW c \in Conn, HandlerRemove(c)
      PROVE  KeepsRevoked
  BY <1>12 DEF HandlerRemove, DisconnectRemove, Closed, FailWaiters, Release,
       KeepsRevoked, TypeOK, DbTypes
<1>13. ASSUME NEW c \in Conn, Drop(c)
      PROVE  KeepsRevoked
  BY <1>13 DEF Drop, KeepsRevoked, TypeOK, DbTypes
<1>14. ASSUME NEW c \in Conn, Age(c)
      PROVE  KeepsRevoked
  BY <1>14 DEF Age, Current, KeepsRevoked, TypeOK, DbTypes
<1>15. ASSUME NEW c \in Conn, NEW k \in Call, AgentServe(c, k)
      PROVE  KeepsRevoked
  BY <1>15 DEF AgentServe, KeepsRevoked, TypeOK, DbTypes
<1>16. ASSUME MonitorCheckFails PROVE KeepsRevoked
  BY <1>16 DEF MonitorCheckFails, Fault, KeepsRevoked, TypeOK, DbTypes
<1>17. ASSUME MonitorBegin PROVE KeepsRevoked
  BY <1>17 DEF MonitorBegin, LockFree, Registered, Current, KeepsRevoked,
       TypeOK, DbTypes
<1>18. ASSUME NEW c \in Conn, ExpireCommit(c)
      PROVE  KeepsRevoked
  BY <1>18 DEF ExpireCommit, SetRow, MarkOffline, KeepsRevoked, TypeOK,
       DbTypes
<1>19. ASSUME ExpireRemove PROVE KeepsRevoked
  BY <1>19 DEF ExpireRemove, KeepsRevoked, TypeOK, DbTypes
<1>20. ASSUME ExpireFault PROVE KeepsRevoked
  BY <1>20 DEF ExpireFault, Fault, KeepsRevoked, TypeOK, DbTypes
<1>21. ASSUME MonitorEnd PROVE KeepsRevoked
  BY <1>21 DEF MonitorEnd, KeepsRevoked, TypeOK, DbTypes
<1>22. ASSUME BeginShutdown PROVE KeepsRevoked
  BY <1>22 DEF BeginShutdown, Release, KeepsRevoked, TypeOK, DbTypes
<1>23. ASSUME CloseBegin PROVE KeepsRevoked
  BY <1>23 DEF CloseBegin, LockFree, Registered, Current, KeepsRevoked,
       TypeOK, DbTypes
<1>24. ASSUME NEW c \in Conn, CloseDevice(c)
      PROVE  KeepsRevoked
  BY <1>24 DEF CloseDevice, SetRow, MarkOffline, Fault, KeepsRevoked, TypeOK,
       DbTypes
<1>25. ASSUME CloseEnd PROVE KeepsRevoked
  BY <1>25 DEF CloseEnd, FailWaiters, KeepsRevoked, TypeOK, DbTypes
<1>26. ASSUME Restart PROVE KeepsRevoked
  BY <1>26 DEF Restart, Release, KeepsRevoked, TypeOK, DbTypes
<1>27. ASSUME NEW d \in Device, Revoke(d)
      PROVE  KeepsRevoked
  BY <1>27 DEF Revoke, SetRow, KeepsRevoked, TypeOK, DbTypes
<1>28. ASSUME NEW k \in Call, RequestOffline(k)
      PROVE  KeepsRevoked
  BY <1>28 DEF RequestOffline, KeepsRevoked, TypeOK, DbTypes
<1>29. ASSUME NEW k \in Call, RequestQueues(k)
      PROVE  KeepsRevoked
  BY <1>29 DEF RequestQueues, LockFree, KeepsRevoked, TypeOK, DbTypes
<1>30. ASSUME NEW k \in Call, RequestAdmitted(k)
      PROVE  KeepsRevoked
  BY <1>30 DEF RequestAdmitted, LockFree, Ends, KeepsRevoked, TypeOK, DbTypes
<1>31. ASSUME NEW k \in Call, Transmit(k)
      PROVE  KeepsRevoked
  BY <1>31 DEF Transmit, KeepsRevoked, TypeOK, DbTypes
<1>32. ASSUME NEW k \in Call, SendReturns(k)
      PROVE  KeepsRevoked
  BY <1>32 DEF SendReturns, StillCurrent, Ends, KeepsRevoked, TypeOK, DbTypes
<1>33. ASSUME NEW k \in Call, SendFails(k)
      PROVE  KeepsRevoked
  BY <1>33 DEF SendFails, KeepsRevoked, TypeOK, DbTypes
<1>34. ASSUME NEW k \in Call, CallRetires(k)
      PROVE  KeepsRevoked
  BY <1>34 DEF CallRetires, DisconnectCommit, DisconnectRemove,
       DisconnectReplaced, DisconnectFault, FailWaiters, Release, LockFree,
       Current, SetRow, MarkOffline, Fault, Ends, KeepsRevoked, TypeOK,
       DbTypes
<1>35. ASSUME NEW k \in Call, Answered(k)
      PROVE  KeepsRevoked
  BY <1>35 DEF Answered, Ends, KeepsRevoked, TypeOK, DbTypes
<1>36. ASSUME NEW k \in Call, TimesOut(k)
      PROVE  KeepsRevoked
  BY <1>36 DEF TimesOut, Ends, KeepsRevoked, TypeOK, DbTypes
<1>37. ASSUME NEW k \in Call, Finish(k)
      PROVE  KeepsRevoked
  BY <1>37 DEF Finish, LockFree, DropOwnEntry, KeepsRevoked, TypeOK, DbTypes
<1>38. ASSUME NEW k \in Call, CancelCall(k)
      PROVE  KeepsRevoked
  BY <1>38 DEF CancelCall, LockFree, Ends, Release, KeepsRevoked, TypeOK,
       DbTypes
<1>39. CASE UNCHANGED vars
  BY <1>39 DEF vars, KeepsRevoked, TypeOK, DbTypes
<1> QED BY <1>1, <1>2, <1>3, <1>4, <1>5, <1>6, <1>7, <1>8, <1>9, <1>10, <1>11,
           <1>12, <1>13, <1>14, <1>15, <1>16, <1>17, <1>18, <1>19, <1>20, <1>21,
           <1>22, <1>23, <1>24, <1>25, <1>26, <1>27, <1>28, <1>29, <1>30, <1>31,
           <1>32, <1>33, <1>34, <1>35, <1>36, <1>37, <1>38, <1>39
     DEF Next, HandlerStep, ConnectionEvent, MonitorStep,
         ShutdownStep, CallStep, CallEvent

\* Revocation survives every presence update of every task.
THEOREM RevokedIsFinal == Spec => RevokedSticky
<1>1. IInv /\ [Next]_vars => [KeepsRevoked]_vars
  BY RevokedStep DEF IInv
<1> QED BY Invariance, <1>1, PTL DEF Spec, RevokedSticky

\* A step that removes a healthy connection is a shutdown or a restart.
LEMMA HealthyStep ==
  ASSUME TypeOK, Discipline, [Next]_vars
  PROVE  KeepsHealthy
<1> USE IdentityAssumption
         DEF tableVars, lockVars, appVars, dbVars, connVars, netVars, callVars
<1>1. ASSUME NEW c \in Conn, Accept(c)
      PROVE  KeepsHealthy
  BY <1>1 DEF Accept, KeepsHealthy, Healthy, Discipline, WrittenIsRetiring,
       RetiringIsDown, TypeOK, DbTypes, TableTypes, ConnTypes
<1>2. ASSUME NEW c \in Conn, Leave(c)
      PROVE  KeepsHealthy
  BY <1>2 DEF Leave, KeepsHealthy, Healthy, Discipline, WrittenIsRetiring,
       RetiringIsDown, TypeOK, DbTypes, TableTypes, ConnTypes
<1>3. ASSUME NEW c \in Conn, PublishCommit(c)
      PROVE  KeepsHealthy
  BY <1>3 DEF PublishCommit, LockFree, SetRow, MarkOnline, KeepsHealthy,
       Healthy, Discipline, WrittenIsRetiring, RetiringIsDown, TypeOK,
       DbTypes, TableTypes, ConnTypes
<1>4. ASSUME NEW c \in Conn, PublishRefused(c)
      PROVE  KeepsHealthy
  BY <1>4 DEF PublishRefused, LockFree, Fault, KeepsHealthy, Healthy,
       Discipline, WrittenIsRetiring, RetiringIsDown, TypeOK, DbTypes,
       TableTypes, ConnTypes
<1>5. ASSUME NEW c \in Conn, Install(c)
      PROVE  KeepsHealthy
  BY <1>5 DEF Install, Release, KeepsHealthy, Healthy, Discipline,
       WrittenIsRetiring, RetiringIsDown, TypeOK, DbTypes, TableTypes,
       ConnTypes
<1>6. ASSUME NEW c \in Conn, CloseOld(c)
      PROVE  KeepsHealthy
  BY <1>6 DEF CloseOld, KeepsHealthy, Healthy, Discipline, WrittenIsRetiring,
       RetiringIsDown, TypeOK, DbTypes, TableTypes, ConnTypes
<1>7. ASSUME NEW c \in Conn, CancelRegister(c)
      PROVE  KeepsHealthy
  BY <1>7 DEF CancelRegister, KeepsHealthy, Healthy, Discipline,
       WrittenIsRetiring, RetiringIsDown, TypeOK, DbTypes, TableTypes,
       ConnTypes
<1>8. ASSUME NEW c \in Conn, NEW m \in Call \cup {"ping"}, Receive(c, m)
      PROVE  KeepsHealthy
  BY <1>8 DEF Receive, LockFree, TouchAdmits, Current, SetRow, TouchRow,
       Fault, KeepsHealthy, Healthy, Discipline, WrittenIsRetiring,
       RetiringIsDown, TypeOK, DbTypes, TableTypes, ConnTypes
<1>9. ASSUME NEW c \in Conn, Resolve(c)
      PROVE  KeepsHealthy
  BY <1>9 DEF Resolve, LockFree, Answers, KeepsHealthy, Healthy, Discipline,
       WrittenIsRetiring, RetiringIsDown, TypeOK, DbTypes, TableTypes,
       ConnTypes
<1>10. ASSUME NEW c \in Conn, EndServing(c)
      PROVE  KeepsHealthy
  BY <1>10 DEF EndServing, KeepsHealthy, Healthy, Discipline,
       WrittenIsRetiring, RetiringIsDown, TypeOK, DbTypes, TableTypes,
       ConnTypes
<1>11. ASSUME NEW c \in Conn, HandlerRetire(c)
      PROVE  KeepsHealthy
  BY <1>11 DEF HandlerRetire, DisconnectCommit, DisconnectReplaced,
       DisconnectFault, Closed, FailWaiters, LockFree, Current, SetRow,
       MarkOffline, Fault, KeepsHealthy, Healthy, Discipline,
       WrittenIsRetiring, RetiringIsDown, TypeOK, DbTypes, TableTypes,
       ConnTypes
<1>12. ASSUME NEW c \in Conn, HandlerRemove(c)
      PROVE  KeepsHealthy
  BY <1>12 DEF HandlerRemove, DisconnectRemove, Closed, FailWaiters, Release,
       KeepsHealthy, Healthy, Discipline, WrittenIsRetiring, RetiringIsDown,
       TypeOK, DbTypes, TableTypes, ConnTypes
<1>13. ASSUME NEW c \in Conn, Drop(c)
      PROVE  KeepsHealthy
  BY <1>13 DEF Drop, KeepsHealthy, Healthy, Discipline, WrittenIsRetiring,
       RetiringIsDown, TypeOK, DbTypes, TableTypes, ConnTypes
<1>14. ASSUME NEW c \in Conn, Age(c)
      PROVE  KeepsHealthy
  BY <1>14 DEF Age, Current, KeepsHealthy, Healthy, Discipline,
       WrittenIsRetiring, RetiringIsDown, TypeOK, DbTypes, TableTypes,
       ConnTypes
<1>15. ASSUME NEW c \in Conn, NEW k \in Call, AgentServe(c, k)
      PROVE  KeepsHealthy
  BY <1>15 DEF AgentServe, KeepsHealthy, Healthy, Discipline,
       WrittenIsRetiring, RetiringIsDown, TypeOK, DbTypes, TableTypes,
       ConnTypes
<1>16. ASSUME MonitorCheckFails PROVE KeepsHealthy
  BY <1>16 DEF MonitorCheckFails, Fault, KeepsHealthy, Healthy, Discipline,
       WrittenIsRetiring, RetiringIsDown, TypeOK, DbTypes, TableTypes,
       ConnTypes
<1>17. ASSUME MonitorBegin PROVE KeepsHealthy
  BY <1>17 DEF MonitorBegin, LockFree, Registered, Current, KeepsHealthy,
       Healthy, Discipline, WrittenIsRetiring, RetiringIsDown, TypeOK,
       DbTypes, TableTypes, ConnTypes
<1>18. ASSUME NEW c \in Conn, ExpireCommit(c)
      PROVE  KeepsHealthy
  BY <1>18 DEF ExpireCommit, SetRow, MarkOffline, KeepsHealthy, Healthy,
       Discipline, WrittenIsRetiring, RetiringIsDown, TypeOK, DbTypes,
       TableTypes, ConnTypes
<1>19. ASSUME ExpireRemove PROVE KeepsHealthy
  BY <1>19 DEF ExpireRemove, KeepsHealthy, Healthy, Discipline,
       WrittenIsRetiring, RetiringIsDown, TypeOK, DbTypes, TableTypes,
       ConnTypes
<1>20. ASSUME ExpireFault PROVE KeepsHealthy
  BY <1>20 DEF ExpireFault, Fault, KeepsHealthy, Healthy, Discipline,
       WrittenIsRetiring, RetiringIsDown, TypeOK, DbTypes, TableTypes,
       ConnTypes
<1>21. ASSUME MonitorEnd PROVE KeepsHealthy
  BY <1>21 DEF MonitorEnd, KeepsHealthy, Healthy, Discipline,
       WrittenIsRetiring, RetiringIsDown, TypeOK, DbTypes, TableTypes,
       ConnTypes
<1>22. ASSUME BeginShutdown PROVE KeepsHealthy
  BY <1>22 DEF BeginShutdown, Release, KeepsHealthy, Healthy, Discipline,
       WrittenIsRetiring, RetiringIsDown, TypeOK, DbTypes, TableTypes,
       ConnTypes
<1>23. ASSUME CloseBegin PROVE KeepsHealthy
  BY <1>23 DEF CloseBegin, LockFree, Registered, Current, KeepsHealthy,
       Healthy, Discipline, WrittenIsRetiring, RetiringIsDown, TypeOK,
       DbTypes, TableTypes, ConnTypes
<1>24. ASSUME NEW c \in Conn, CloseDevice(c)
      PROVE  KeepsHealthy
  BY <1>24 DEF CloseDevice, SetRow, MarkOffline, Fault, KeepsHealthy, Healthy,
       Discipline, WrittenIsRetiring, RetiringIsDown, TypeOK, DbTypes,
       TableTypes, ConnTypes
<1>25. ASSUME CloseEnd PROVE KeepsHealthy
  BY <1>25 DEF CloseEnd, FailWaiters, KeepsHealthy, Healthy, Discipline,
       WrittenIsRetiring, RetiringIsDown, TypeOK, DbTypes, TableTypes,
       ConnTypes
<1>26. ASSUME Restart PROVE KeepsHealthy
  BY <1>26 DEF Restart, Release, KeepsHealthy, Healthy, Discipline,
       WrittenIsRetiring, RetiringIsDown, TypeOK, DbTypes, TableTypes,
       ConnTypes
<1>27. ASSUME NEW d \in Device, Revoke(d)
      PROVE  KeepsHealthy
  BY <1>27 DEF Revoke, SetRow, KeepsHealthy, Healthy, Discipline,
       WrittenIsRetiring, RetiringIsDown, TypeOK, DbTypes, TableTypes,
       ConnTypes
<1>28. ASSUME NEW k \in Call, RequestOffline(k)
      PROVE  KeepsHealthy
  BY <1>28 DEF RequestOffline, KeepsHealthy, Healthy, Discipline,
       WrittenIsRetiring, RetiringIsDown, TypeOK, DbTypes, TableTypes,
       ConnTypes
<1>29. ASSUME NEW k \in Call, RequestQueues(k)
      PROVE  KeepsHealthy
  BY <1>29 DEF RequestQueues, LockFree, KeepsHealthy, Healthy, Discipline,
       WrittenIsRetiring, RetiringIsDown, TypeOK, DbTypes, TableTypes,
       ConnTypes
<1>30. ASSUME NEW k \in Call, RequestAdmitted(k)
      PROVE  KeepsHealthy
  BY <1>30 DEF RequestAdmitted, LockFree, Ends, KeepsHealthy, Healthy,
       Discipline, WrittenIsRetiring, RetiringIsDown, TypeOK, DbTypes,
       TableTypes, ConnTypes
<1>31. ASSUME NEW k \in Call, Transmit(k)
      PROVE  KeepsHealthy
  BY <1>31 DEF Transmit, KeepsHealthy, Healthy, Discipline, WrittenIsRetiring,
       RetiringIsDown, TypeOK, DbTypes, TableTypes, ConnTypes
<1>32. ASSUME NEW k \in Call, SendReturns(k)
      PROVE  KeepsHealthy
  BY <1>32 DEF SendReturns, StillCurrent, Ends, KeepsHealthy, Healthy,
       Discipline, WrittenIsRetiring, RetiringIsDown, TypeOK, DbTypes,
       TableTypes, ConnTypes
<1>33. ASSUME NEW k \in Call, SendFails(k)
      PROVE  KeepsHealthy
  BY <1>33 DEF SendFails, KeepsHealthy, Healthy, Discipline,
       WrittenIsRetiring, RetiringIsDown, TypeOK, DbTypes, TableTypes,
       ConnTypes
<1>34. ASSUME NEW k \in Call, CallRetires(k)
      PROVE  KeepsHealthy
  BY <1>34 DEF CallRetires, DisconnectCommit, DisconnectRemove,
       DisconnectReplaced, DisconnectFault, FailWaiters, Release, LockFree,
       Current, SetRow, MarkOffline, Fault, Ends, KeepsHealthy, Healthy,
       Discipline, WrittenIsRetiring, RetiringIsDown, TypeOK, DbTypes,
       TableTypes, ConnTypes
<1>35. ASSUME NEW k \in Call, Answered(k)
      PROVE  KeepsHealthy
  BY <1>35 DEF Answered, Ends, KeepsHealthy, Healthy, Discipline,
       WrittenIsRetiring, RetiringIsDown, TypeOK, DbTypes, TableTypes,
       ConnTypes
<1>36. ASSUME NEW k \in Call, TimesOut(k)
      PROVE  KeepsHealthy
  BY <1>36 DEF TimesOut, Ends, KeepsHealthy, Healthy, Discipline,
       WrittenIsRetiring, RetiringIsDown, TypeOK, DbTypes, TableTypes,
       ConnTypes
<1>37. ASSUME NEW k \in Call, Finish(k)
      PROVE  KeepsHealthy
  BY <1>37 DEF Finish, LockFree, DropOwnEntry, KeepsHealthy, Healthy,
       Discipline, WrittenIsRetiring, RetiringIsDown, TypeOK, DbTypes,
       TableTypes, ConnTypes
<1>38. ASSUME NEW k \in Call, CancelCall(k)
      PROVE  KeepsHealthy
  BY <1>38 DEF CancelCall, LockFree, Ends, Release, KeepsHealthy, Healthy,
       Discipline, WrittenIsRetiring, RetiringIsDown, TypeOK, DbTypes,
       TableTypes, ConnTypes
<1>39. CASE UNCHANGED vars
  BY <1>39 DEF vars, KeepsHealthy, Healthy, Discipline, WrittenIsRetiring,
       RetiringIsDown, TypeOK, DbTypes, TableTypes, ConnTypes
<1> QED BY <1>1, <1>2, <1>3, <1>4, <1>5, <1>6, <1>7, <1>8, <1>9, <1>10, <1>11,
           <1>12, <1>13, <1>14, <1>15, <1>16, <1>17, <1>18, <1>19, <1>20, <1>21,
           <1>22, <1>23, <1>24, <1>25, <1>26, <1>27, <1>28, <1>29, <1>30, <1>31,
           <1>32, <1>33, <1>34, <1>35, <1>36, <1>37, <1>38, <1>39
     DEF Next, HandlerStep, ConnectionEvent, MonitorStep,
         ShutdownStep, CallStep, CallEvent

\* A late cleanup, a failed send or the monitor never removes a healthy
\* connection from the table.
THEOREM HealthyStays == Spec => HealthyKept
<1>1. IInv /\ [Next]_vars => [KeepsHealthy]_vars
  BY HealthyStep DEF IInv
<1> QED BY Invariance, <1>1, PTL DEF Spec, HealthyKept

-----------------------------------------------------------------------------
(* The lock.                                                               *)

\* Who holds the lock, and where: a handler between the commit of its
\* publication or retirement and the change of the table, a call that retires a
\* connection, the monitor until shutdown, close() during it.  Nobody else is
\* there, and `written` names what the holder has still to remove.
LockIsHeld ==
    /\ \A c \in Conn :
        /\ lock = c <=> hpc[c] \in {"publishing", "retiring"}
        /\ hpc[c] = "publishing" => written = None
        /\ hpc[c] = "retiring" => written = c
    /\ \A k \in Call : lock = k => cpc[k] = "retiring" /\ written = via[k]
    /\ lock = "monitor" => stopping = "no"
    /\ lock = "shutdown" => stopping = "closing"
    /\ lock \in {"free", "shutdown"} => written = None

\* Every step keeps it: the lock changes hands only when it is free, and whoever
\* leaves the place that holds it lets go of it in the same step.
LEMMA LockStep ==
  ASSUME IInv, LockIsHeld, [Next]_vars
  PROVE  LockIsHeld'
<1> USE IdentityAssumption
         DEF IInv, Discipline, WrittenIsRetiring, TypeOK, TableTypes, ConnTypes, CallTypes, LockIsHeld,
             tableVars, lockVars, appVars, dbVars, connVars, netVars, callVars
<1>1. ASSUME NEW c \in Conn, Accept(c)
      PROVE  LockIsHeld'
  BY <1>1 DEF Accept
<1>2. ASSUME NEW c \in Conn, Leave(c)
      PROVE  LockIsHeld'
  BY <1>2 DEF Leave
<1>3. ASSUME NEW c \in Conn, PublishCommit(c)
      PROVE  LockIsHeld'
  BY <1>3 DEF PublishCommit, LockFree
<1>4. ASSUME NEW c \in Conn, PublishRefused(c)
      PROVE  LockIsHeld'
  BY <1>4 DEF PublishRefused
<1>5. ASSUME NEW c \in Conn, Install(c)
      PROVE  LockIsHeld'
  BY <1>5 DEF Install, Release
<1>6. ASSUME NEW c \in Conn, CloseOld(c)
      PROVE  LockIsHeld'
  BY <1>6 DEF CloseOld
<1>7. ASSUME NEW c \in Conn, CancelRegister(c)
      PROVE  LockIsHeld'
  BY <1>7 DEF CancelRegister
<1>8. ASSUME NEW c \in Conn, NEW m \in Call \cup {"ping"}, Receive(c, m)
      PROVE  LockIsHeld'
  BY <1>8 DEF Receive
<1>9. ASSUME NEW c \in Conn, Resolve(c)
      PROVE  LockIsHeld'
  BY <1>9 DEF Resolve
<1>10. ASSUME NEW c \in Conn, EndServing(c)
      PROVE  LockIsHeld'
  BY <1>10 DEF EndServing
<1>11. ASSUME NEW c \in Conn, HandlerRetire(c)
      PROVE  LockIsHeld'
  BY <1>11 DEF HandlerRetire, DisconnectCommit, DisconnectReplaced,
       DisconnectFault, Closed, LockFree
<1>12. ASSUME NEW c \in Conn, HandlerRemove(c)
      PROVE  LockIsHeld'
  BY <1>12 DEF HandlerRemove, DisconnectRemove, Closed, Release
<1>13. ASSUME NEW c \in Conn, Drop(c) \/ Age(c)
      PROVE  LockIsHeld'
  BY <1>13 DEF Drop, Age
<1>14. ASSUME NEW c \in Conn, NEW k \in Call, AgentServe(c, k)
      PROVE  LockIsHeld'
  BY <1>14 DEF AgentServe
<1>15. ASSUME MonitorCheckFails
      PROVE  LockIsHeld'
  BY <1>15 DEF MonitorCheckFails
<1>16. ASSUME MonitorBegin
      PROVE  LockIsHeld'
  BY <1>16 DEF MonitorBegin, LockFree
<1>17. ASSUME NEW c \in Conn, ExpireCommit(c)
      PROVE  LockIsHeld'
  BY <1>17 DEF ExpireCommit
<1>18. ASSUME ExpireRemove
      PROVE  LockIsHeld'
  BY <1>18 DEF ExpireRemove
<1>19. ASSUME ExpireFault
      PROVE  LockIsHeld'
  BY <1>19 DEF ExpireFault
<1>20. ASSUME MonitorEnd
      PROVE  LockIsHeld'
  BY <1>20 DEF MonitorEnd
<1>21. ASSUME BeginShutdown
      PROVE  LockIsHeld'
  BY <1>21 DEF BeginShutdown, Release
<1>22. ASSUME CloseBegin
      PROVE  LockIsHeld'
  BY <1>22 DEF CloseBegin, LockFree
<1>23. ASSUME NEW c \in Conn, CloseDevice(c)
      PROVE  LockIsHeld'
  BY <1>23 DEF CloseDevice
<1>24. ASSUME CloseEnd
      PROVE  LockIsHeld'
  BY <1>24 DEF CloseEnd
<1>25. ASSUME Restart
      PROVE  LockIsHeld'
  BY <1>25 DEF Restart, Release
<1>26. ASSUME NEW d \in Device, Revoke(d)
      PROVE  LockIsHeld'
  BY <1>26 DEF Revoke
<1>27. ASSUME NEW k \in Call, RequestOffline(k)
      PROVE  LockIsHeld'
  BY <1>27 DEF RequestOffline
<1>28. ASSUME NEW k \in Call, RequestQueues(k)
      PROVE  LockIsHeld'
  BY <1>28 DEF RequestQueues
<1>29. ASSUME NEW k \in Call, RequestAdmitted(k)
      PROVE  LockIsHeld'
  BY <1>29 DEF RequestAdmitted, Ends
<1>30. ASSUME NEW k \in Call, Transmit(k)
      PROVE  LockIsHeld'
  BY <1>30 DEF Transmit
<1>31. ASSUME NEW k \in Call, SendReturns(k)
      PROVE  LockIsHeld'
  BY <1>31 DEF SendReturns, Ends
<1>32. ASSUME NEW k \in Call, SendFails(k)
      PROVE  LockIsHeld'
  BY <1>32 DEF SendFails
<1>33. ASSUME NEW k \in Call, CallRetires(k)
      PROVE  LockIsHeld'
  BY <1>33 DEF CallRetires, DisconnectCommit, DisconnectRemove,
       DisconnectReplaced, DisconnectFault, Release, LockFree, Ends
<1>34. ASSUME NEW k \in Call, Answered(k) \/ TimesOut(k)
      PROVE  LockIsHeld'
  BY <1>34 DEF Answered, TimesOut, Ends
<1>35. ASSUME NEW k \in Call, Finish(k)
      PROVE  LockIsHeld'
  BY <1>35 DEF Finish
<1>36. ASSUME NEW k \in Call, CancelCall(k)
      PROVE  LockIsHeld'
  BY <1>36 DEF CancelCall, Release, LockFree, Ends
<1>37. CASE UNCHANGED vars
  BY <1>37 DEF vars
<1> QED BY <1>1, <1>2, <1>3, <1>4, <1>5, <1>6, <1>7, <1>8, <1>9, <1>10, <1>11,
       <1>12, <1>13, <1>14, <1>15, <1>16, <1>17, <1>18, <1>19, <1>20, <1>21,
       <1>22, <1>23, <1>24, <1>25, <1>26, <1>27, <1>28, <1>29, <1>30, <1>31,
       <1>32, <1>33, <1>34, <1>35, <1>36, <1>37 DEF Next, HandlerStep,
       ConnectionEvent, MonitorStep, ShutdownStep, CallStep, CallEvent

\* The lock of the registry is never orphaned, and never shared: register,
\* disconnect, expire and close let go of it however they end, a caller that is
\* cancelled and a monitor that is cancelled included.
THEOREM LockHasItsHolder == Spec => []LockIsHeld
<1>1. Init => LockIsHeld
  BY IdentityAssumption DEF Init, LockIsHeld
<1>2. IInv /\ LockIsHeld /\ [Next]_vars => LockIsHeld'
  BY LockStep
<1> QED BY Invariance, <1>1, <1>2, PTL DEF Spec

=============================================================================
