------------------------- MODULE RegistryCallProofs -------------------------
(***************************************************************************)
(* What callers of ConnectionRegistry.request rely on, for every set of    *)
(* devices, connections and calls.  CallDiscipline follows a request from  *)
(* its entry in the table of pending calls over the one connection it is   *)
(* written to, its one execution, and its answer, until the finally clause *)
(* drops the entry.  With it every step of the registry is a step of       *)
(* RemoteCall or changes nothing RemoteCall can see.                       *)
(***************************************************************************)
EXTENDS RegistryProofs

-----------------------------------------------------------------------------
(* The inductive invariant of calls.                                       *)

\* Every step keeps it, one step of the proof per action; those that move a
\* call, an answer or a connection's last row are taken one conjunct at a time.
LEMMA CallStepKeeps ==
  ASSUME IInv, CallDiscipline, [Next]_vars
  PROVE  CallDiscipline'
<1> USE IdentityAssumption
         DEF IInv, Discipline, TypeOK, tableVars, lockVars, appVars, dbVars, connVars, netVars, callVars
<1>1. ASSUME NEW c \in Conn, Accept(c)
      PROVE  CallDiscipline'
  BY <1>1 DEF Accept, CallDiscipline, TableIsServed, EntryIsOwners, SentOnce,
       SentIsServed, WrittenIsRetiring, PublishingHoldsLock, RetiringIsDown,
       DbTypes, TableTypes, ConnTypes, CallTypes
<1>2. ASSUME NEW c \in Conn, Leave(c)
      PROVE  CallDiscipline'
  BY <1>2 DEF Leave, CallDiscipline, TableIsServed, EntryIsOwners, SentOnce,
       SentIsServed, WrittenIsRetiring, PublishingHoldsLock, RetiringIsDown,
       DbTypes, TableTypes, ConnTypes, CallTypes
<1>3. ASSUME NEW c \in Conn, PublishCommit(c)
      PROVE  CallDiscipline'
  BY <1>3 DEF PublishCommit, LockFree, SetRow, MarkOnline, CallDiscipline,
       TableIsServed, EntryIsOwners, SentOnce, SentIsServed, WrittenIsRetiring,
       PublishingHoldsLock, RetiringIsDown, DbTypes, TableTypes, ConnTypes,
       CallTypes
<1>4. ASSUME NEW c \in Conn, PublishRefused(c)
      PROVE  CallDiscipline'
  BY <1>4 DEF PublishRefused, LockFree, Fault, CallDiscipline, TableIsServed,
       EntryIsOwners, SentOnce, SentIsServed, WrittenIsRetiring,
       PublishingHoldsLock, RetiringIsDown, DbTypes, TableTypes, ConnTypes,
       CallTypes
<1>5. ASSUME NEW c \in Conn, Install(c)
      PROVE  CallDiscipline'
  BY <1>5 DEF Install, Release, CallDiscipline, TableIsServed, EntryIsOwners,
       SentOnce, SentIsServed, WrittenIsRetiring, PublishingHoldsLock,
       RetiringIsDown, DbTypes, TableTypes, ConnTypes, CallTypes
<1>6. ASSUME NEW c \in Conn, CloseOld(c)
      PROVE  CallDiscipline'
  BY <1>6 DEF CloseOld, CallDiscipline, TableIsServed, EntryIsOwners, SentOnce,
       SentIsServed, WrittenIsRetiring, PublishingHoldsLock, RetiringIsDown,
       DbTypes, TableTypes, ConnTypes, CallTypes
<1>7. ASSUME NEW c \in Conn, CancelRegister(c)
      PROVE  CallDiscipline'
  BY <1>7 DEF CancelRegister, CallDiscipline, TableIsServed, EntryIsOwners,
       SentOnce, SentIsServed, WrittenIsRetiring, PublishingHoldsLock,
       RetiringIsDown, DbTypes, TableTypes, ConnTypes, CallTypes
<1>8. ASSUME NEW c \in Conn, NEW m \in Call \cup {"ping"}, Receive(c, m)
      PROVE  CallDiscipline'
  <2>1. TableIsServed'
    BY <1>8 DEF Receive, LockFree, TouchAdmits, Current, SetRow, TouchRow, Fault,
         CallDiscipline, TableIsServed, WrittenIsRetiring, PublishingHoldsLock,
         TableTypes, ConnTypes, DbTypes
  <2>2. EntryIsOwners'
    BY <1>8 DEF Receive, LockFree, TouchAdmits, Current, SetRow, TouchRow, Fault,
         CallDiscipline, EntryIsOwners, TableIsServed, RetiringIsDown, CallTypes,
         TableTypes, ConnTypes
  <2>3. SentOnce'
    BY <1>8 DEF Receive, LockFree, TouchAdmits, Current, SetRow, TouchRow, Fault,
         CallDiscipline, SentOnce, EntryIsOwners, SentIsServed, CallTypes,
         ConnTypes, TableTypes
  <2>4. SentIsServed'
    BY <1>8 DEF Receive, LockFree, TouchAdmits, Current, SetRow, TouchRow, Fault,
         CallDiscipline, SentIsServed, EntryIsOwners, TableIsServed,
         RetiringIsDown, CallTypes, ConnTypes, TableTypes, DbTypes
  <2> QED BY <2>1, <2>2, <2>3, <2>4 DEF CallDiscipline
<1>9. ASSUME NEW c \in Conn, Resolve(c)
      PROVE  CallDiscipline'
  BY <1>9 DEF Resolve, LockFree, Answers, CallDiscipline, TableIsServed,
       EntryIsOwners, SentOnce, SentIsServed, WrittenIsRetiring,
       PublishingHoldsLock, RetiringIsDown, DbTypes, TableTypes, ConnTypes,
       CallTypes
<1>10. ASSUME NEW c \in Conn, EndServing(c)
      PROVE  CallDiscipline'
  BY <1>10 DEF EndServing, CallDiscipline, TableIsServed, EntryIsOwners,
       SentOnce, SentIsServed, WrittenIsRetiring, PublishingHoldsLock,
       RetiringIsDown, DbTypes, TableTypes, ConnTypes, CallTypes
<1>11. ASSUME NEW c \in Conn, HandlerRetire(c)
      PROVE  CallDiscipline'
  BY <1>11 DEF HandlerRetire, DisconnectCommit, DisconnectReplaced,
       DisconnectFault, Closed, FailWaiters, LockFree, Current, SetRow,
       MarkOffline, Fault, CallDiscipline, TableIsServed, EntryIsOwners,
       SentOnce, SentIsServed, WrittenIsRetiring, PublishingHoldsLock,
       RetiringIsDown, DbTypes, TableTypes, ConnTypes, CallTypes
<1>12. ASSUME NEW c \in Conn, HandlerRemove(c)
      PROVE  CallDiscipline'
  BY <1>12 DEF HandlerRemove, DisconnectRemove, Closed, FailWaiters, Release,
       CallDiscipline, TableIsServed, EntryIsOwners, SentOnce, SentIsServed,
       WrittenIsRetiring, PublishingHoldsLock, RetiringIsDown, DbTypes,
       TableTypes, ConnTypes, CallTypes
<1>13. ASSUME NEW c \in Conn, Drop(c)
      PROVE  CallDiscipline'
  BY <1>13 DEF Drop, CallDiscipline, TableIsServed, EntryIsOwners, SentOnce,
       SentIsServed, WrittenIsRetiring, PublishingHoldsLock, RetiringIsDown,
       DbTypes, TableTypes, ConnTypes, CallTypes
<1>14. ASSUME NEW c \in Conn, Age(c)
      PROVE  CallDiscipline'
  BY <1>14 DEF Age, Current, CallDiscipline, TableIsServed, EntryIsOwners,
       SentOnce, SentIsServed, WrittenIsRetiring, PublishingHoldsLock,
       RetiringIsDown, DbTypes, TableTypes, ConnTypes, CallTypes
<1>15. ASSUME NEW c \in Conn, NEW k \in Call, AgentServe(c, k)
      PROVE  CallDiscipline'
  BY <1>15 DEF AgentServe, CallDiscipline, TableIsServed, EntryIsOwners,
       SentOnce, SentIsServed, WrittenIsRetiring, PublishingHoldsLock,
       RetiringIsDown, DbTypes, TableTypes, ConnTypes, CallTypes
<1>16. ASSUME MonitorCheckFails
      PROVE  CallDiscipline'
  BY <1>16 DEF MonitorCheckFails, Fault, CallDiscipline, TableIsServed,
       EntryIsOwners, SentOnce, SentIsServed, WrittenIsRetiring,
       PublishingHoldsLock, RetiringIsDown, DbTypes, TableTypes, ConnTypes,
       CallTypes
<1>17. ASSUME MonitorBegin
      PROVE  CallDiscipline'
  BY <1>17 DEF MonitorBegin, LockFree, Registered, Current, CallDiscipline,
       TableIsServed, EntryIsOwners, SentOnce, SentIsServed, WrittenIsRetiring,
       PublishingHoldsLock, RetiringIsDown, DbTypes, TableTypes, ConnTypes,
       CallTypes
<1>18. ASSUME NEW c \in Conn, ExpireCommit(c)
      PROVE  CallDiscipline'
  BY <1>18 DEF ExpireCommit, SetRow, MarkOffline, CallDiscipline, TableIsServed,
       EntryIsOwners, SentOnce, SentIsServed, WrittenIsRetiring,
       PublishingHoldsLock, RetiringIsDown, DbTypes, TableTypes, ConnTypes,
       CallTypes
<1>19. ASSUME ExpireRemove
      PROVE  CallDiscipline'
  BY <1>19 DEF ExpireRemove, CallDiscipline, TableIsServed, EntryIsOwners,
       SentOnce, SentIsServed, WrittenIsRetiring, PublishingHoldsLock,
       RetiringIsDown, DbTypes, TableTypes, ConnTypes, CallTypes
<1>20. ASSUME ExpireFault
      PROVE  CallDiscipline'
  BY <1>20 DEF ExpireFault, Fault, CallDiscipline, TableIsServed, EntryIsOwners,
       SentOnce, SentIsServed, WrittenIsRetiring, PublishingHoldsLock,
       RetiringIsDown, DbTypes, TableTypes, ConnTypes, CallTypes
<1>21. ASSUME MonitorEnd
      PROVE  CallDiscipline'
  BY <1>21 DEF MonitorEnd, CallDiscipline, TableIsServed, EntryIsOwners,
       SentOnce, SentIsServed, WrittenIsRetiring, PublishingHoldsLock,
       RetiringIsDown, DbTypes, TableTypes, ConnTypes, CallTypes
<1>22. ASSUME BeginShutdown
      PROVE  CallDiscipline'
  BY <1>22 DEF BeginShutdown, Release, CallDiscipline, TableIsServed,
       EntryIsOwners, SentOnce, SentIsServed, WrittenIsRetiring,
       PublishingHoldsLock, RetiringIsDown, DbTypes, TableTypes, ConnTypes,
       CallTypes
<1>23. ASSUME CloseBegin
      PROVE  CallDiscipline'
  BY <1>23 DEF CloseBegin, LockFree, Registered, Current, CallDiscipline,
       TableIsServed, EntryIsOwners, SentOnce, SentIsServed, WrittenIsRetiring,
       PublishingHoldsLock, RetiringIsDown, DbTypes, TableTypes, ConnTypes,
       CallTypes
<1>24. ASSUME NEW c \in Conn, CloseDevice(c)
      PROVE  CallDiscipline'
  BY <1>24 DEF CloseDevice, SetRow, MarkOffline, Fault, CallDiscipline,
       TableIsServed, EntryIsOwners, SentOnce, SentIsServed, WrittenIsRetiring,
       PublishingHoldsLock, RetiringIsDown, DbTypes, TableTypes, ConnTypes,
       CallTypes
<1>25. ASSUME CloseEnd
      PROVE  CallDiscipline'
  BY <1>25 DEF CloseEnd, FailWaiters, CallDiscipline, TableIsServed,
       EntryIsOwners, SentOnce, SentIsServed, WrittenIsRetiring,
       PublishingHoldsLock, RetiringIsDown, DbTypes, TableTypes, ConnTypes,
       CallTypes
<1>26. ASSUME Restart
      PROVE  CallDiscipline'
  BY <1>26 DEF Restart, Release, CallDiscipline, TableIsServed, EntryIsOwners,
       SentOnce, SentIsServed, WrittenIsRetiring, PublishingHoldsLock,
       RetiringIsDown, DbTypes, TableTypes, ConnTypes, CallTypes
<1>27. ASSUME NEW d \in Device, Revoke(d)
      PROVE  CallDiscipline'
  BY <1>27 DEF Revoke, SetRow, CallDiscipline, TableIsServed, EntryIsOwners,
       SentOnce, SentIsServed, WrittenIsRetiring, PublishingHoldsLock,
       RetiringIsDown, DbTypes, TableTypes, ConnTypes, CallTypes
<1>28. ASSUME NEW k \in Call, RequestOffline(k)
      PROVE  CallDiscipline'
  BY <1>28 DEF RequestOffline, CallDiscipline, TableIsServed, EntryIsOwners,
       SentOnce, SentIsServed, WrittenIsRetiring, PublishingHoldsLock,
       RetiringIsDown, DbTypes, TableTypes, ConnTypes, CallTypes
<1>29. ASSUME NEW k \in Call, RequestQueues(k)
      PROVE  CallDiscipline'
  BY <1>29 DEF RequestQueues, LockFree, CallDiscipline, TableIsServed,
       EntryIsOwners, SentOnce, SentIsServed, WrittenIsRetiring,
       PublishingHoldsLock, RetiringIsDown, DbTypes, TableTypes, ConnTypes,
       CallTypes
<1>30. ASSUME NEW k \in Call, RequestAdmitted(k)
      PROVE  CallDiscipline'
  BY <1>30 DEF RequestAdmitted, LockFree, Ends, CallDiscipline, TableIsServed,
       EntryIsOwners, SentOnce, SentIsServed, WrittenIsRetiring,
       PublishingHoldsLock, RetiringIsDown, DbTypes, TableTypes, ConnTypes,
       CallTypes
<1>31. ASSUME NEW k \in Call, Transmit(k)
      PROVE  CallDiscipline'
  <2>1. TableIsServed'
    BY <1>31 DEF Transmit, CallDiscipline, TableIsServed, WrittenIsRetiring,
         PublishingHoldsLock, TableTypes, ConnTypes, DbTypes
  <2>2. EntryIsOwners'
    BY <1>31 DEF Transmit, CallDiscipline, EntryIsOwners, TableIsServed,
         RetiringIsDown, CallTypes, TableTypes, ConnTypes
  <2>3. SentOnce'
    BY <1>31 DEF Transmit, CallDiscipline, SentOnce, EntryIsOwners, SentIsServed,
         CallTypes, ConnTypes, TableTypes
  <2>4. SentIsServed'
    BY <1>31 DEF Transmit, CallDiscipline, SentIsServed, EntryIsOwners,
         TableIsServed, RetiringIsDown, CallTypes, ConnTypes, TableTypes, DbTypes
  <2> QED BY <2>1, <2>2, <2>3, <2>4 DEF CallDiscipline
<1>32. ASSUME NEW k \in Call, SendReturns(k)
      PROVE  CallDiscipline'
  BY <1>32 DEF SendReturns, StillCurrent, Ends, CallDiscipline, TableIsServed,
       EntryIsOwners, SentOnce, SentIsServed, WrittenIsRetiring,
       PublishingHoldsLock, RetiringIsDown, DbTypes, TableTypes, ConnTypes,
       CallTypes
<1>33. ASSUME NEW k \in Call, SendFails(k)
      PROVE  CallDiscipline'
  BY <1>33 DEF SendFails, CallDiscipline, TableIsServed, EntryIsOwners,
       SentOnce, SentIsServed, WrittenIsRetiring, PublishingHoldsLock,
       RetiringIsDown, DbTypes, TableTypes, ConnTypes, CallTypes
<1>34. ASSUME NEW k \in Call, CallRetires(k)
      PROVE  CallDiscipline'
  <2>1. TableIsServed'
    BY <1>34 DEF CallRetires, DisconnectCommit, DisconnectRemove,
         DisconnectReplaced, DisconnectFault, FailWaiters, Release, LockFree,
         Current, SetRow, MarkOffline, Fault, Ends, CallDiscipline, TableIsServed,
         WrittenIsRetiring, PublishingHoldsLock, TableTypes, ConnTypes, DbTypes
  <2>2. EntryIsOwners'
    BY <1>34 DEF CallRetires, DisconnectCommit, DisconnectRemove,
         DisconnectReplaced, DisconnectFault, FailWaiters, Release, LockFree,
         Current, SetRow, MarkOffline, Fault, Ends, CallDiscipline, EntryIsOwners,
         TableIsServed, RetiringIsDown, CallTypes, TableTypes, ConnTypes
  <2>3. SentOnce'
    BY <1>34 DEF CallRetires, DisconnectCommit, DisconnectRemove,
         DisconnectReplaced, DisconnectFault, FailWaiters, Release, LockFree,
         Current, SetRow, MarkOffline, Fault, Ends, CallDiscipline, SentOnce,
         EntryIsOwners, SentIsServed, CallTypes, ConnTypes, TableTypes
  <2>4. SentIsServed'
    BY <1>34 DEF CallRetires, DisconnectCommit, DisconnectRemove,
         DisconnectReplaced, DisconnectFault, FailWaiters, Release, LockFree,
         Current, SetRow, MarkOffline, Fault, Ends, CallDiscipline, SentIsServed,
         EntryIsOwners, TableIsServed, RetiringIsDown, CallTypes, ConnTypes,
         TableTypes, DbTypes
  <2> QED BY <2>1, <2>2, <2>3, <2>4 DEF CallDiscipline
<1>35. ASSUME NEW k \in Call, Answered(k)
      PROVE  CallDiscipline'
  BY <1>35 DEF Answered, Ends, CallDiscipline, TableIsServed, EntryIsOwners,
       SentOnce, SentIsServed, WrittenIsRetiring, PublishingHoldsLock,
       RetiringIsDown, DbTypes, TableTypes, ConnTypes, CallTypes
<1>36. ASSUME NEW k \in Call, TimesOut(k)
      PROVE  CallDiscipline'
  BY <1>36 DEF TimesOut, Ends, CallDiscipline, TableIsServed, EntryIsOwners,
       SentOnce, SentIsServed, WrittenIsRetiring, PublishingHoldsLock,
       RetiringIsDown, DbTypes, TableTypes, ConnTypes, CallTypes
<1>37. ASSUME NEW k \in Call, Finish(k)
      PROVE  CallDiscipline'
  BY <1>37 DEF Finish, LockFree, DropOwnEntry, CallDiscipline, TableIsServed,
       EntryIsOwners, SentOnce, SentIsServed, WrittenIsRetiring,
       PublishingHoldsLock, RetiringIsDown, DbTypes, TableTypes, ConnTypes,
       CallTypes
<1>38. ASSUME NEW k \in Call, CancelCall(k)
      PROVE  CallDiscipline'
  <2>1. TableIsServed'
    BY <1>38 DEF CancelCall, LockFree, Ends, Release, CallDiscipline,
         TableIsServed, WrittenIsRetiring, PublishingHoldsLock, TableTypes,
         ConnTypes, DbTypes
  <2>2. EntryIsOwners'
    <3>1. CASE cpc' = [cpc EXCEPT ![k] = "done"] /\ cpc[k] \in {"queued", "finishing"}
      <4>1. outcome' = [outcome EXCEPT ![k] = "cancelled"]
        BY <1>38, <3>1 DEF CancelCall, Ends, CallTypes
      <4>2. UNCHANGED <<pending, fut, owner>>
        BY <1>38 DEF CancelCall
      <4> QED BY <3>1, <4>1, <4>2 DEF CallDiscipline, EntryIsOwners, CallTypes
    <3>2. CASE Ends(k, "cancelled") /\ cpc[k] \notin {"idle", "queued"}
      <4>1. UNCHANGED <<pending, fut, owner>>
        BY <1>38 DEF CancelCall
      <4> QED BY <3>2, <4>1 DEF Ends, CallDiscipline, EntryIsOwners, CallTypes
    <3> QED BY <1>38, <3>1, <3>2 DEF CancelCall
  <2>3. SentOnce'
    BY <1>38 DEF CancelCall, LockFree, Ends, Release, CallDiscipline, SentOnce,
         EntryIsOwners, SentIsServed, CallTypes, ConnTypes, TableTypes
  <2>4. SentIsServed'
    BY <1>38 DEF CancelCall, LockFree, Ends, Release, CallDiscipline,
         SentIsServed, EntryIsOwners, TableIsServed, RetiringIsDown, CallTypes,
         ConnTypes, TableTypes, DbTypes
  <2> QED BY <2>1, <2>2, <2>3, <2>4 DEF CallDiscipline
<1>39. CASE UNCHANGED vars
  BY <1>39 DEF vars, CallDiscipline, TableIsServed, EntryIsOwners, SentOnce,
       SentIsServed
<1> QED BY <1>1, <1>2, <1>3, <1>4, <1>5, <1>6, <1>7, <1>8, <1>9, <1>10, <1>11,
       <1>12, <1>13, <1>14, <1>15, <1>16, <1>17, <1>18, <1>19, <1>20, <1>21,
       <1>22, <1>23, <1>24, <1>25, <1>26, <1>27, <1>28, <1>29, <1>30, <1>31,
       <1>32, <1>33, <1>34, <1>35, <1>36, <1>37, <1>38, <1>39 DEF Next,
       HandlerStep, ConnectionEvent, MonitorStep, ShutdownStep, CallStep,
       CallEvent

\* The initial states satisfy it.
LEMMA CallInit == Init => CallDiscipline
  BY IdentityAssumption
     DEF Init, CallDiscipline, TableIsServed, EntryIsOwners, SentOnce, SentIsServed

\* The invariant of calls holds in every reachable state, beside that of presence.
THEOREM CallInvariance == Spec => [](IInv /\ CallDiscipline)
<1>1. Init => IInv /\ CallDiscipline
  BY InitIInv, CallInit
<1>2. IInv /\ CallDiscipline /\ [Next]_vars => (IInv /\ CallDiscipline)'
  BY TypeStep, DisciplineStep, CallStepKeeps DEF IInv
<1> QED BY <1>1, <1>2, PTL DEF Spec

-----------------------------------------------------------------------------
(* The invariants callers rely on.                                         *)

\* No caller is left waiting on a connection whose handler has ended, unless a
\* transaction of its cleanup failed.
THEOREM WaitersAreReleased == Spec => []WaiterIsReleased
<1>1. CallDiscipline => WaiterIsReleased
  BY DEF CallDiscipline, SentIsServed, WaiterIsReleased
<1> QED BY CallInvariance, <1>1, PTL

\* An entry outlives its call only if the caller was cancelled while it waited
\* to remove it.
THEOREM EntriesAreDropped == Spec => []LeakOnlyByCancel
<1>1. CallDiscipline => LeakOnlyByCancel
  BY DEF CallDiscipline, EntryIsOwners, LeakOnlyByCancel
<1> QED BY CallInvariance, <1>1, PTL

\* A caller is given the answer of its own request, by the connection it was sent
\* over, after its one execution.
THEOREM AnswersAreOwn == Spec => []AnswerIsOwn
<1>1. CallDiscipline => AnswerIsOwn
  BY DEF CallDiscipline, SentOnce, AnswerIsOwn
<1> QED BY CallInvariance, <1>1, PTL

-----------------------------------------------------------------------------
(* The registry implements RemoteCall.                                     *)

\* A step that leaves a call's place, its outcome and its executions alone is
\* none of RemoteCall's business.
LEMMA SilentSteps ==
  ASSUME UNCHANGED <<cpc, outcome, executed>>
  PROVE  UNCHANGED Promise!callVars
BY DEF Promise!callVars

\* Nor is one that moves an open call from one await to another.
LEMMA OpenSteps ==
  ASSUME TypeOK, NEW k \in Call, cpc[k] \notin {"idle", "done"},
         NEW p \in {"sending", "sent", "waiting", "retiring", "finishing"},
         cpc' = [cpc EXCEPT ![k] = p],
         outcome' = outcome \/ \E v : outcome' = [outcome EXCEPT ![k] = v],
         executed' = executed
  PROVE  UNCHANGED Promise!callVars
BY DEF Promise!callVars, TypeOK, CallTypes

\* A call that leaves its caller's hands is issued.
LEMMA Issued ==
  ASSUME TypeOK, NEW k \in Call, cpc[k] = "idle",
         NEW p \in {"queued", "sending", "finishing"},
         cpc' = [cpc EXCEPT ![k] = p],
         outcome' = outcome \/ \E v : outcome' = [outcome EXCEPT ![k] = v],
         executed' = executed
  PROVE  Promise!Issue(k)
BY DEF Promise!Issue, TypeOK, CallTypes

\* A call that is done returns its outcome.
LEMMA Returned ==
  ASSUME TypeOK, NEW k \in Call, NEW v \in Promise!Verdict,
         cpc[k] # "done", cpc[k] = "idle" => v = "offline",
         v = "result" => executed[k] = 1, v = "offline" => executed[k] = 0,
         cpc' = [cpc EXCEPT ![k] = "done"], outcome' = [outcome EXCEPT ![k] = v],
         executed' = executed
  PROVE  Promise!Return(k, v)
BY DEF Promise!Return, TypeOK, CallTypes

\* Every step of the registry is a step of RemoteCall or none.
LEMMA CallStepPromised ==
  ASSUME IInv, CallDiscipline, [Next]_vars
  PROVE  [Promise!Next]_(Promise!callVars)
<1> USE DEF tableVars, lockVars, appVars, dbVars, connVars, netVars, callVars, IInv
<1>1. ASSUME NEW c \in Conn, HandlerStep(c)
      PROVE  UNCHANGED <<cpc, outcome, executed>>
  BY <1>1 DEF HandlerStep, PublishCommit, PublishRefused, Install, CloseOld, Resolve,
       HandlerRetire, HandlerRemove
<1>2. ASSUME NEW c \in Conn, ConnectionEvent(c),
             ~(\E k \in Call : AgentServe(c, k))
      PROVE  UNCHANGED <<cpc, outcome, executed>>
  BY <1>2 DEF ConnectionEvent, Accept, Leave, CancelRegister, EndServing, Drop, Age,
       Receive
<1>3. ASSUME NEW c \in Conn, NEW k \in Call, AgentServe(c, k)
      PROVE  Promise!Execute(k)
  <2>1. executed[k] = 0 /\ cpc[k] # "idle" /\ outcome[k] # "offline"
    BY <1>3 DEF AgentServe, CallDiscipline, SentOnce
  <2>2. UNCHANGED <<cpc, outcome>> /\ executed' = [executed EXCEPT ![k] = 1]
    BY <1>3, <2>1 DEF AgentServe, TypeOK, CallTypes
  <2> QED BY <2>1, <2>2 DEF Promise!Execute, TypeOK, CallTypes
<1>4. ASSUME MonitorCheckFails \/ MonitorStep \/ BeginShutdown \/ ShutdownStep
      PROVE  UNCHANGED <<cpc, outcome, executed>>
  BY <1>4 DEF MonitorCheckFails, MonitorStep, MonitorBegin, ExpireCommit, ExpireRemove,
       ExpireFault, MonitorEnd, BeginShutdown, ShutdownStep, CloseBegin, CloseDevice,
       CloseEnd
<1>5. ASSUME NEW d \in Device, Revoke(d)
      PROVE  UNCHANGED <<cpc, outcome, executed>>
  BY <1>5 DEF Revoke
<1>6. ASSUME Restart
      PROVE  Promise!LoseAll
  <2>1. /\ cpc' = [k \in Call |-> IF cpc[k] = "idle" THEN "idle" ELSE "done"]
        /\ outcome' = [k \in Call |-> IF cpc[k] \in {"idle", "done"}
                                      THEN outcome[k] ELSE "lost"]
        /\ executed' = executed
    BY <1>6 DEF Restart
  <2> QED BY <2>1 DEF Promise!LoseAll, TypeOK, CallTypes
<1>7. ASSUME NEW k \in Call, RequestOffline(k)
      PROVE  Promise!Return(k, "offline")
  <2>1. executed[k] = 0
    BY <1>7 DEF RequestOffline, CallDiscipline, SentOnce
  <2> QED BY <1>7, <2>1, Returned DEF RequestOffline, Promise!Verdict
<1>8. ASSUME NEW k \in Call, RequestQueues(k)
      PROVE  Promise!Issue(k)
  BY <1>8, Issued DEF RequestQueues
<1>9. ASSUME NEW k \in Call, RequestAdmitted(k)
      PROVE  Promise!Issue(k) \/ UNCHANGED Promise!callVars
  <2>1. CASE cpc[k] = "idle"
    BY <1>9, <2>1, Issued DEF RequestAdmitted, Ends
  <2>2. CASE cpc[k] = "queued"
    BY <1>9, <2>2, OpenSteps DEF RequestAdmitted, Ends
  <2> QED BY <1>9, <2>1, <2>2 DEF RequestAdmitted
<1>10. ASSUME NEW k \in Call,
              Transmit(k) \/ SendReturns(k) \/ SendFails(k) \/ Answered(k) \/ TimesOut(k)
       PROVE  UNCHANGED Promise!callVars
  BY <1>10, OpenSteps DEF Transmit, SendReturns, SendFails, Answered, TimesOut, Ends
<1>11. ASSUME NEW k \in Call, CallRetires(k)
       PROVE  UNCHANGED Promise!callVars
  <2>1. CASE UNCHANGED <<cpc, outcome>>
    BY <1>11, <2>1, SilentSteps DEF CallRetires
  <2>2. CASE Ends(k, "unavailable") \/ Ends(k, "error")
    BY <1>11, <2>2, OpenSteps DEF CallRetires, Ends
  <2> QED BY <1>11, <2>1, <2>2 DEF CallRetires
<1>12. ASSUME NEW k \in Call, Finish(k)
       PROVE  \E v \in Promise!Verdict : Promise!Return(k, v)
  <2>1. outcome[k] \in Promise!Verdict
    BY <1>12 DEF Finish, CallDiscipline, EntryIsOwners, TypeOK, CallTypes,
         Promise!Verdict
  <2>2. /\ outcome[k] = "result" => executed[k] = 1
        /\ outcome[k] = "offline" => executed[k] = 0
    BY DEF CallDiscipline, SentOnce
  <2>3. /\ outcome' = [outcome EXCEPT ![k] = outcome[k]] /\ executed' = executed
        /\ cpc' = [cpc EXCEPT ![k] = "done"] /\ cpc[k] = "finishing"
    BY <1>12 DEF Finish, TypeOK, CallTypes
  <2>4. PICK v \in Promise!Verdict : v = outcome[k]  BY <2>1
  <2>5. Promise!Return(k, v)
    BY <2>2, <2>3, <2>4, Returned
  <2> QED BY <2>5
<1>13. ASSUME NEW k \in Call, CancelCall(k)
       PROVE  Promise!Return(k, "cancelled") \/ UNCHANGED Promise!callVars
  <2>1. CASE cpc[k] \in {"queued", "finishing"}
    BY <1>13, <2>1, Returned DEF CancelCall, Promise!Verdict
  <2>2. CASE cpc[k] \in {"sending", "sent", "retiring", "waiting"}
    BY <1>13, <2>2, OpenSteps DEF CancelCall, Ends
  <2> QED BY <1>13, <2>1, <2>2 DEF CancelCall
<1>14. CASE UNCHANGED vars
  BY <1>14, SilentSteps DEF vars
<1>15. "offline" \in Promise!Verdict /\ "cancelled" \in Promise!Verdict
  BY DEF Promise!Verdict
<1>16. (\E k \in Call : Promise!Issue(k) \/ Promise!Execute(k)
            \/ \E v \in Promise!Verdict : Promise!Return(k, v)) \/ Promise!LoseAll
        => Promise!Next
  BY DEF Promise!Next
<1>17. ASSUME NEW c \in Conn, HandlerStep(c) \/ ConnectionEvent(c)
       PROVE  [Promise!Next]_(Promise!callVars)
  <2>1. CASE HandlerStep(c)  BY <1>1, <2>1, SilentSteps
  <2>2. CASE \E k \in Call : AgentServe(c, k)  BY <1>3, <1>16, <2>2
  <2>3. CASE ConnectionEvent(c) /\ ~(\E k \in Call : AgentServe(c, k))
    BY <1>2, <2>3, SilentSteps
  <2> QED BY <1>17, <2>1, <2>2, <2>3
<1>18. ASSUME NEW k \in Call, CallStep(k) \/ CallEvent(k)
       PROVE  [Promise!Next]_(Promise!callVars)
  <2>1. CASE RequestOffline(k)  BY <1>7, <1>15, <1>16, <2>1
  <2>2. CASE RequestQueues(k)  BY <1>8, <1>16, <2>2
  <2>3. CASE RequestAdmitted(k)  BY <1>9, <1>16, <2>3
  <2>4. CASE Transmit(k) \/ SendReturns(k) \/ SendFails(k) \/ Answered(k) \/ TimesOut(k)
    BY <1>10, <2>4
  <2>5. CASE CallRetires(k)  BY <1>11, <2>5
  <2>6. CASE Finish(k)  BY <1>12, <1>16, <2>6
  <2>7. CASE CancelCall(k)  BY <1>13, <1>15, <1>16, <2>7
  <2> QED
    BY <1>18, <2>1, <2>2, <2>3, <2>4, <2>5, <2>6, <2>7 DEF CallStep, CallEvent
<1>19. CASE MonitorCheckFails \/ MonitorStep \/ BeginShutdown \/ ShutdownStep
  BY <1>4, <1>19, SilentSteps
<1>20. CASE \E d \in Device : Revoke(d)  BY <1>5, <1>20, SilentSteps
<1>21. CASE Restart  BY <1>6, <1>16, <1>21
<1> QED
  BY <1>14, <1>17, <1>18, <1>19, <1>20, <1>21 DEF Next

\* request() implements RemoteCall: a call is executed at most once, a result
\* means that it was, "offline" that it was not and will not be.
THEOREM RemoteCallRefined == Spec => ImplementsRemoteCall
<1>1. Init => Promise!Init
  BY DEF Init, Promise!Init
<1>2. IInv /\ CallDiscipline /\ [Next]_vars => [Promise!Next]_(Promise!callVars)
  BY CallStepPromised
<1> QED BY CallInvariance, <1>1, <1>2, PTL DEF Spec, ImplementsRemoteCall, Promise!Spec

-----------------------------------------------------------------------------
(* The answers.                                                            *)

\* The handler's resolve() of the answer of a call that still waits for it.
MeetTheirOwner ==
    \A c \in Conn, k \in Call :
        (hpc[c] = "touched" /\ msg[c] = k /\ Resolve(c)
            /\ cpc[k] \in {"sent", "waiting"} /\ fut[k] = "none") =>
              (fut'[k] = "result" <=> owner[k] = via[k])

\* The exact extent of AnswerReachesCaller, which the code does not keep: the
\* handler that resolves the answer of a call still waiting sets the call's
\* future if and only if the connection captured by request() is the one send()
\* wrote to.  A reconnection between the two is the only way to lose an answer
\* that has arrived.
AnswersMeetTheirOwner == [][MeetTheirOwner]_vars

\* request() and send() look the device up separately; resolve() compares with
\* what the first lookup found.
THEOREM AnswersAreMatched == Spec => AnswersMeetTheirOwner
<1>1. IInv /\ CallDiscipline /\ [Next]_vars => [MeetTheirOwner]_vars
  <2> SUFFICES ASSUME IInv, CallDiscipline,
                      NEW c \in Conn, NEW k \in Call,
                      hpc[c] = "touched", msg[c] = k, Resolve(c),
                      cpc[k] \in {"sent", "waiting"}, fut[k] = "none"
               PROVE  fut'[k] = "result" <=> owner[k] = via[k]
    BY DEF MeetTheirOwner
  <2>1. via[k] = c /\ pending[k] = owner[k] /\ c # None /\ k # "ping"
    BY IdentityAssumption DEF CallDiscipline, SentOnce, EntryIsOwners
  <2>2. CASE owner[k] = c
    BY <2>1, <2>2 DEF Resolve, Answers, IInv, TypeOK, CallTypes
  <2>3. CASE owner[k] # c
    BY <2>1, <2>3 DEF Resolve, Answers, IInv, TypeOK, CallTypes
  <2> QED BY <2>1, <2>2, <2>3
<1> QED BY CallInvariance, <1>1, PTL DEF Spec, AnswersMeetTheirOwner

-----------------------------------------------------------------------------
(* What a call comes to.                                                   *)

\* What a call that is over was told stays so, and stays true.
VerdictKept ==
    \A k \in Call : cpc[k] = "done" =>
          /\ cpc'[k] = "done" /\ outcome'[k] = outcome[k]
          /\ outcome[k] = "offline" => executed'[k] = 0
          /\ outcome[k] = "result" => executed'[k] = 1
\* What request() returned or raised is final: no late answer, retry of a
\* connection or restart changes it, a call told "offline" is never executed
\* after all, and one that has its result is not executed again.
VerdictsStand == [][VerdictKept]_vars

\* A step that runs nothing and ends no call twice keeps every verdict.
LEMMA VerdictStep ==
  ASSUME IInv, CallDiscipline, [Next]_vars
  PROVE  VerdictKept
<1> USE DEF VerdictKept, IInv, TypeOK, CallTypes,
            tableVars, lockVars, appVars, dbVars, connVars, netVars, callVars
<1>1. ASSUME NEW k \in Call
      PROVE  /\ outcome[k] = "offline" => executed[k] = 0
             /\ outcome[k] = "result" => executed[k] = 1
  BY DEF CallDiscipline, SentOnce
<1>2. CASE UNCHANGED <<cpc, outcome, executed>>
  BY <1>1, <1>2
<1>3. ASSUME NEW c \in Conn, NEW k \in Call, AgentServe(c, k)
      PROVE  VerdictKept
  <2>1. executed[k] = 0 /\ outcome[k] # "offline" /\ outcome[k] # "result"
    BY <1>3 DEF AgentServe, CallDiscipline, SentOnce
  <2> QED BY <1>1, <1>3, <2>1 DEF AgentServe
<1>4. ASSUME NEW k \in Call, cpc[k] # "done", executed' = executed,
             cpc' = [cpc EXCEPT ![k] = cpc'[k]],
             outcome' = [outcome EXCEPT ![k] = outcome'[k]]
      PROVE  VerdictKept
  BY <1>1, <1>4
<1>5. CASE Restart
  BY <1>1, <1>5 DEF Restart
<1>6. ASSUME NEW k \in Call, CallStep(k) \/ CallEvent(k)
      PROVE  VerdictKept
  <2>1. /\ cpc[k] # "done" /\ executed' = executed
    BY <1>6 DEF CallStep, CallEvent, RequestOffline, RequestQueues, RequestAdmitted,
         Transmit, SendReturns, SendFails, CallRetires, Answered, TimesOut,
         Finish, CancelCall, Ends
  <2>2. cpc' = [cpc EXCEPT ![k] = cpc'[k]] /\ outcome' = [outcome EXCEPT ![k] = outcome'[k]]
    BY <1>6 DEF CallStep, CallEvent, RequestOffline, RequestQueues, RequestAdmitted,
         Transmit, SendReturns, SendFails, CallRetires, Answered, TimesOut,
         Finish, CancelCall, Ends
  <2> QED BY <1>4, <2>1, <2>2
<1>7. ASSUME NEW c \in Conn, HandlerStep(c)
      PROVE  UNCHANGED <<cpc, outcome, executed>>
  BY <1>7 DEF HandlerStep, PublishCommit, PublishRefused, Install, CloseOld, Resolve,
       HandlerRetire, HandlerRemove
<1>8. ASSUME NEW c \in Conn, ConnectionEvent(c)
      PROVE  VerdictKept
  <2>1. CASE \E k \in Call : AgentServe(c, k)  BY <1>3, <2>1
  <2>2. CASE ~(\E k \in Call : AgentServe(c, k))
    <3>1. UNCHANGED <<cpc, outcome, executed>>
      BY <1>8, <2>2 DEF ConnectionEvent, Accept, Leave, CancelRegister, EndServing, Drop,
           Age, Receive
    <3> QED BY <1>2, <3>1
  <2> QED BY <2>1, <2>2
<1>9. ASSUME MonitorCheckFails \/ MonitorStep \/ BeginShutdown \/ ShutdownStep
             \/ \E d \in Device : Revoke(d)
      PROVE  UNCHANGED <<cpc, outcome, executed>>
  BY <1>9 DEF MonitorCheckFails, MonitorStep, MonitorBegin, ExpireCommit, ExpireRemove,
       ExpireFault, MonitorEnd, BeginShutdown, ShutdownStep, CloseBegin, CloseDevice,
       CloseEnd, Revoke
<1>10. CASE UNCHANGED vars
  BY <1>2, <1>10 DEF vars
<1> QED BY <1>2, <1>5, <1>6, <1>7, <1>8, <1>9, <1>10 DEF Next

\* A call leaves one verdict behind, and "offline" is told before anything is
\* sent.
THEOREM VerdictsAreFinal == Spec => VerdictsStand
<1>1. IInv /\ CallDiscipline /\ [Next]_vars => [VerdictKept]_vars
  BY VerdictStep
<1> QED BY CallInvariance, <1>1, PTL DEF Spec, VerdictsStand

-----------------------------------------------------------------------------
\* What a call captured and where it was written is a connection of its target.
Addressed ==
    \A k \in Call :
        /\ owner[k] # None => DeviceOf[owner[k]] = Target[k]
        /\ via[k] # None => DeviceOf[via[k]] = Target[k]
        /\ executed[k] > 0 => via[k] # None

\* A request captures, and writes to, what the table holds for its device; and
\* the table holds a device's own connection.
LEMMA AddressStep ==
  ASSUME IInv, CallDiscipline, Addressed, [Next]_vars
  PROVE  Addressed'
<1> USE DEF Addressed, tableVars, lockVars, appVars, dbVars, connVars, netVars, callVars
<1>1. ASSUME NEW c \in Conn, HandlerStep(c)
      PROVE  UNCHANGED <<owner, via, executed>>
  BY <1>1 DEF HandlerStep, PublishCommit, PublishRefused, Install, CloseOld, Resolve,
       HandlerRetire, HandlerRemove
<1>2. ASSUME NEW c \in Conn, ConnectionEvent(c)
      PROVE  Addressed'
  <2>1. ASSUME NEW k \in Call, AgentServe(c, k)
        PROVE  Addressed'
    <3>1. via[k] = c /\ c # None
      BY <2>1, IdentityAssumption DEF AgentServe, CallDiscipline, SentOnce
    <3> QED BY <2>1, <3>1 DEF AgentServe, IInv, TypeOK, CallTypes
  <2>2. ASSUME ~(\E k \in Call : AgentServe(c, k))
        PROVE  UNCHANGED <<owner, via, executed>>
    BY <1>2, <2>2 DEF ConnectionEvent, Accept, Leave, CancelRegister, EndServing, Drop,
         Age, Receive
  <2> QED BY <2>1, <2>2
<1>3. ASSUME MonitorCheckFails \/ MonitorStep \/ BeginShutdown \/ ShutdownStep
             \/ Restart \/ \E d \in Device : Revoke(d)
      PROVE  UNCHANGED <<owner, via, executed>>
  BY <1>3 DEF MonitorCheckFails, MonitorStep, MonitorBegin, ExpireCommit, ExpireRemove,
       ExpireFault, MonitorEnd, BeginShutdown, ShutdownStep, CloseBegin, CloseDevice,
       CloseEnd, Restart, Revoke
<1>4. ASSUME NEW k \in Call, RequestQueues(k) \/ RequestAdmitted(k)
      PROVE  Addressed'
  <2>1. conns[Target[k]] # None => DeviceOf[conns[Target[k]]] = Target[k]
    BY IdentityAssumption DEF CallDiscipline, TableIsServed
  <2>2. executed[k] = 0 /\ executed' = executed
    BY <1>4 DEF RequestQueues, RequestAdmitted, CallDiscipline, SentOnce
  <2> QED BY <1>4, <2>1, <2>2 DEF RequestQueues, RequestAdmitted, IInv, TypeOK, CallTypes
<1>5. ASSUME NEW k \in Call, CallStep(k) \/ CallEvent(k),
             ~RequestQueues(k), ~RequestAdmitted(k)
      PROVE  UNCHANGED <<owner, via, executed>>
  BY <1>5 DEF CallStep, CallEvent, RequestOffline, Transmit, SendReturns, SendFails,
       CallRetires, Answered, TimesOut, Finish, CancelCall
<1>6. CASE UNCHANGED vars
  BY <1>6 DEF vars
<1>7. CASE UNCHANGED <<owner, via, executed>>
  BY <1>7
<1> QED BY <1>1, <1>2, <1>3, <1>4, <1>5, <1>6, <1>7 DEF Next

\* The request is on its way over the connection, or its answer is.
Carried(c, k) == k \in wire[c] \cup inbox[c] \/ msg[c] = k

\* A request is never carried or executed by any device but its target, however
\* often connections are replaced, closed and opened while it is under way.
CallsStayOnDevice ==
    \A k \in Call :
        /\ \A c \in Conn : Carried(c, k) => DeviceOf[c] = Target[k]
        /\ executed[k] > 0 => via[k] \in Conn /\ DeviceOf[via[k]] = Target[k]

\* The entry registered under the lock is of the device that authenticated.
THEOREM CallsAreAddressed == Spec => []CallsStayOnDevice
<1>1. Init => Addressed
  BY DEF Init, Addressed
<1>2. IInv /\ CallDiscipline /\ Addressed /\ [Next]_vars => Addressed'
  BY AddressStep
<1>3. IInv /\ CallDiscipline /\ Addressed => CallsStayOnDevice
  <2> SUFFICES ASSUME IInv, CallDiscipline, Addressed, NEW k \in Call
               PROVE  /\ \A c \in Conn : Carried(c, k) => DeviceOf[c] = Target[k]
                      /\ executed[k] > 0 =>
                            via[k] \in Conn /\ DeviceOf[via[k]] = Target[k]
    BY DEF CallsStayOnDevice
  <2>1. ASSUME NEW c \in Conn, Carried(c, k)
        PROVE  via[k] = c /\ c # None
    BY <2>1, IdentityAssumption DEF Carried, CallDiscipline, SentOnce, IInv, TypeOK,
         ConnTypes
  <2> QED BY <2>1 DEF Addressed, IInv, TypeOK, CallTypes
<1> QED BY CallInvariance, <1>1, <1>2, <1>3, PTL DEF Spec

=============================================================================
