-------------------------- MODULE AgentClientProofs --------------------------
(***************************************************************************)
(* What holds of the Agent client for any requests and any exponent at     *)
(* which the backoff overflows, and that it serves as Servant says.        *)
(***************************************************************************)
EXTENDS AgentClient, TLAPS

-----------------------------------------------------------------------------
(* The inductive invariant.                                                *)

\* The initial states satisfy it.
LEMMA InitIInv == Init => IInv
<1> SUFFICES ASSUME Init PROVE IInv
  OBVIOUS
<1>1. TypeOK
  <2>1. attempt \in 0..MaxExponent
    BY ExponentAssumption DEF Init
  <2>2. executed \in [Request -> Nat]
    BY DEF Init
  <2>3. QED
    BY <2>1, <2>2 DEF Init, TypeOK, Serving
<1>2. SocketIsLocal /\ RequestsApart /\ DelayIsFinite
  BY DEF Init, SocketIsLocal, RequestsApart, DelayIsFinite
<1>3. HeartbeatIsOwned /\ EndsForAReason
  BY DEF Init, HeartbeatIsOwned, EndsForAReason, Serving
<1>4. QED
  BY <1>1, <1>2, <1>3 DEF IInv

\* A step that changes nothing keeps it.
LEMMA StutterIInv == IInv /\ UNCHANGED vars => IInv'
  BY DEF IInv, TypeOK, SocketIsLocal, RequestsApart, DelayIsFinite, HeartbeatIsOwned,
      EndsForAReason, runVars, signalVars, linkVars, workVars, vars, Serving

\* Every step of the main task, and of what surrounds it, keeps it.
LEMMA StepIInv == IInv /\ Next => IInv'
<1> SUFFICES ASSUME IInv, Next PROVE IInv'
  OBVIOUS
<1> USE RequestAssumption, ExponentAssumption
      DEF IInv, TypeOK, SocketIsLocal, RequestsApart, DelayIsFinite, HeartbeatIsOwned, EndsForAReason,
          runVars, signalVars, linkVars, workVars, Serving
<1>1. CASE LoopHead
  BY <1>1 DEF LoopHead
<1>2. CASE BackoffOver
  <2>1. attempt' \in 0..MaxExponent
    <3>1. attempt \in Int /\ 0 <= attempt /\ attempt < MaxExponent
      BY <1>2 DEF BackoffOver
    <3>2. attempt' = attempt + 1
      BY <1>2 DEF BackoffOver
    <3>3. QED
      BY ONLY <3>1, <3>2, ExponentAssumption
  <2>2. QED
    BY <1>2, <2>1 DEF BackoffOver
<1>3. CASE Connected
  BY <1>3 DEF Connected
<1>4. CASE ConnectFails
  BY <1>4 DEF ConnectFails, ConnectionEnds, After
<1>5. CASE Welcomed
  BY <1>5 DEF Welcomed, NextMessage
<1>6. CASE GreetingFails
  BY <1>6 DEF GreetingFails
<1>7. CASE Pong
  BY <1>7 DEF Pong, NextMessage
<1>8. ASSUME NEW r \in Request, ReceiveRequest(r) PROVE IInv'
  BY <1>8 DEF ReceiveRequest
<1>9. CASE ReceiveFails
  BY <1>9 DEF ReceiveFails
<1>10. CASE Dispatched
  BY <1>10 DEF Dispatched
<1>11. CASE ReplyFails
  BY <1>11 DEF ReplyFails
<1>12. CASE Replied
  BY <1>12 DEF Replied, NextMessage
<1>13. CASE Retired
  BY <1>13 DEF Retired
<1>14. CASE Left
  BY <1>14 DEF Left, ConnectionEnds, After, ForgetUnread
<1>15. CASE HeartbeatRaises
  BY <1>15 DEF HeartbeatRaises
<1>16. CASE HeartbeatReturns
  BY <1>16 DEF HeartbeatReturns
<1>17. ASSUME NEW r \in Request, GatewaySends(r) PROVE IInv'
  BY <1>17 DEF GatewaySends
<1>18. CASE LinkLost
  BY <1>18 DEF LinkLost
<1>19. ASSUME NEW r \in Request, OrphanEnds(r) PROVE IInv'
  BY <1>19 DEF OrphanEnds
<1>20. CASE Stop
  BY <1>20 DEF Stop
<1>21. CASE Interrupt
  BY <1>21 DEF Interrupt, ConnectionEnds, After
<1> QED
  BY <1>1, <1>2, <1>3, <1>4, <1>5, <1>6, <1>7, <1>8, <1>9, <1>10, <1>11, <1>12, <1>13, <1>14, <1>15, <1>16, <1>17, <1>18, <1>19, <1>20, <1>21
  DEF Next, MainStep, ReceiveStep, Surroundings

-----------------------------------------------------------------------------
(* The theorems on the inductive invariant.                                *)

\* The invariant holds throughout.
THEOREM Invariance == Spec => []IInv
<1>1. IInv /\ [Next]_vars => IInv'
  BY StutterIInv, StepIInv
<1>2. QED
  BY InitIInv, <1>1, PTL DEF Spec

\* Every variable keeps its type: the attempt counter never passes the exponent
\* at which the delay of Backoff.delay overflows.
THEOREM TypeCorrect == Spec => []TypeOK
<1>1. IInv => TypeOK
  BY DEF IInv
<1>2. QED
  BY Invariance, <1>1, PTL

\* The heartbeat task of _connected lives exactly as long as its connection is
\* served, whatever ends it.
THEOREM HeartbeatHasAnOwner == Spec => []HeartbeatIsOwned
<1>1. IInv => HeartbeatIsOwned
  BY DEF IInv
<1>2. QED
  BY Invariance, <1>1, PTL

\* run() returns or raises only when stopped, interrupted, given an error that
\* it does not catch, or when its backoff overflows.
THEOREM ReasonToEnd == Spec => []EndsForAReason
<1>1. IInv => EndsForAReason
  BY DEF IInv
<1>2. QED
  BY Invariance, <1>1, PTL

-----------------------------------------------------------------------------
(* The refinement of Servant.                                              *)

Lives == [r \in Request |-> Life(r)]

\* What one request goes through is what happens to the function of them all.
LEMMA OneMoves ==
    ASSUME NEW r \in Request, NEW to, Life(r)' = to,
           \A q \in Request \ {r} : Life(q)' = Life(q)
    PROVE  Lives' = [Lives EXCEPT ![r] = to]
  BY DEF Lives

\* A step that leaves the requests alone, and does not move a dispatch on, is a
\* stutter.
LEMMA NothingMoves ==
    ASSUME IInv, UNCHANGED workVars, req # None => pc' = pc
    PROVE  UNCHANGED <<Lives, executed>>
<1>1. ASSUME NEW r \in Request
      PROVE  Life(r)' = Life(r)
  <2>1. r = req => pc' = pc
    BY RequestAssumption
  <2>2. QED
    BY <2>1 DEF Life, workVars
<1>2. QED
  BY <1>1 DEF Lives, workVars

\* Whatever a step does to the requests, each is in a stage of Servant.
LEMMA LifeIsAStage == \A r \in Request : Life(r) \in Promise!Stages
  BY DEF Life, Promise!Stages

\* The requests of a connection that is closed are lost.
LEMMA ClosedIsHungUp ==
    ASSUME IInv, pc = "leaving", sock' = "none", inbox' = {},
           UNCHANGED <<sent, req, orphans, executed, answered>>
    PROVE  Promise!HangUp
<1> USE DEF IInv, TypeOK, SocketIsLocal, RequestsApart
<1>1. sock # "none" /\ req = None
  OBVIOUS
<1>2. ASSUME NEW r \in Request
      PROVE  /\ Life(r)' = IF Life(r) = "queued" THEN "lost" ELSE Life(r)
             /\ Life(r) \notin {"running", "ran"}
  BY <1>1, RequestAssumption DEF Life
<1>3. Lives' = [r \in Request |-> IF Lives[r] = "queued" THEN "lost" ELSE Lives[r]]
  BY <1>2 DEF Lives
<1>4. \A r \in Request : Lives[r] \notin {"running", "ran"}
  BY <1>2 DEF Lives
<1>5. QED
  BY <1>1, <1>3, <1>4 DEF Lives, Promise!HangUp

\* Requests given up one way or another, with the socket still there.
LEMMA GivenUp ==
    ASSUME UNCHANGED executed, sock # "none", sock' # "none",
           \A r \in Request :
               \/ Life(r)' = Life(r)
               \/ Life(r) \in {"queued", "running", "ran"} /\ Life(r)' = "lost"
               \/ Life(r) = "running" /\ Life(r)' = "adrift"
    PROVE  Promise!Forsaken
<1>1. Lives' \in [Request -> Promise!Stages]
  <2>1. \A r \in Request : Life(r)' \in Promise!Stages
    BY LifeIsAStage DEF Promise!Stages
  <2>2. QED
    BY <2>1 DEF Lives
<1>2. QED
  BY <1>1 DEF Lives, Promise!Forsaken

PromiseVars == <<sock # "none", Lives, executed>>
PromiseStep == Promise!Next \/ UNCHANGED PromiseVars

\* The main task: every step is one of Servant's, or none.
LEMMA MainRefines == IInv /\ IInv' /\ MainStep => PromiseStep
<1> SUFFICES ASSUME IInv, IInv', MainStep
             PROVE  PromiseStep
  OBVIOUS
<1> USE RequestAssumption DEF IInv, TypeOK, SocketIsLocal, RequestsApart
<1>1. CASE \/ LoopHead \/ BackoffOver \/ ConnectFails \/ Welcomed \/ GreetingFails
           \/ Pong \/ ReceiveFails \/ Retired
  <2>1. UNCHANGED <<workVars, sock>> /\ req = None
    BY <1>1 DEF LoopHead, BackoffOver, ConnectFails, Welcomed, GreetingFails, Pong,
        ReceiveFails, Retired, linkVars
  <2>2. QED
    BY <2>1, NothingMoves DEF PromiseStep, PromiseVars
<1>2. CASE Connected
  <2>1. UNCHANGED workVars /\ req = None /\ sock = "none" /\ sock' = "open"
    BY <1>2 DEF Connected
  <2>2. QED
    BY <2>1, NothingMoves DEF Lives, PromiseStep, Promise!Next, Promise!PickUp
<1>3. ASSUME NEW r \in Request, ReceiveRequest(r)
      PROVE  PromiseStep
  <2>1. Life(r) = "queued" /\ Life(r)' = "running"
    BY <1>3 DEF ReceiveRequest, Life
  <2>2. \A q \in Request \ {r} : Life(q)' = Life(q)
    BY <1>3 DEF ReceiveRequest, Life
  <2>3. \A q \in Request : Life(q) \notin {"running", "ran"}
    BY <1>3 DEF ReceiveRequest, Life
  <2>4. Lives' = [Lives EXCEPT ![r] = "running"]
    BY <2>1, <2>2, OneMoves
  <2>5. UNCHANGED <<sock, executed>>
    BY <1>3 DEF ReceiveRequest, linkVars
  <2>6. Promise!TakenUp(r)
    BY <2>1, <2>3, <2>4, <2>5 DEF Lives, Promise!TakenUp, Promise!Move
  <2>7. QED
    BY <2>6 DEF PromiseStep, Promise!Next
<1>4. CASE Dispatched
  <2>1. req \in Request /\ Life(req) = "running"
    BY <1>4 DEF Dispatched, Life
  <2>2. Life(req)' = "ran"
    BY <1>4, <2>1 DEF Dispatched, Life
  <2>3. \A q \in Request \ {req} : Life(q)' = Life(q)
    BY <1>4 DEF Dispatched, Life
  <2>4. PICK r \in Request : r = req
    BY <2>1
  <2>5. Lives' = [Lives EXCEPT ![r] = "ran"]
    <3>1. req' = req
      BY <1>4 DEF Dispatched
    <3>2. Life(r)' = "ran"
      BY <2>2, <2>4, <3>1 DEF Life
    <3>3. QED
      BY <2>3, <2>4, <3>2, OneMoves
  <2>6. /\ UNCHANGED sock
        /\ executed' = executed \/ executed' = [executed EXCEPT ![r] = @ + 1]
    BY <1>4, <2>4 DEF Dispatched, linkVars
  <2>7. Promise!Ran(r)
    BY <2>1, <2>4, <2>5, <2>6 DEF Lives, Promise!Ran, Promise!Move
  <2>8. QED
    BY <2>7 DEF PromiseStep, Promise!Next
<1>5. CASE ReplyFails
  <2>1. ASSUME NEW r \in Request
        PROVE  Life(r)' = Life(r) \/ (Life(r) = "ran" /\ Life(r)' = "lost")
    BY <1>5 DEF ReplyFails, Life
  <2>2. UNCHANGED <<sock, executed>> /\ sock # "none"
    BY <1>5 DEF ReplyFails, linkVars
  <2>3. Promise!Forsaken
    BY <2>1, <2>2, GivenUp
  <2>4. QED
    BY <2>3 DEF PromiseStep, Promise!Next
<1>6. CASE Replied
  <2>1. PICK r \in Request : r = req
    BY <1>6 DEF Replied
  <2>2. Life(r) = "ran" /\ Life(r)' = "answered"
    BY <1>6, <2>1 DEF Replied, Life
  <2>3. \A q \in Request \ {r} : Life(q)' = Life(q)
    BY <1>6, <2>1 DEF Replied, Life
  <2>4. Lives' = [Lives EXCEPT ![r] = "answered"]
    BY <2>2, <2>3, OneMoves
  <2>5. UNCHANGED <<sock, executed>> /\ sock # "none"
    BY <1>6 DEF Replied, linkVars
  <2>6. Promise!Answered(r)
    BY <2>2, <2>4, <2>5 DEF Lives, Promise!Answered, Promise!Move
  <2>7. QED
    BY <2>6 DEF PromiseStep, Promise!Next
<1>7. CASE Left
  <2>1. Promise!HangUp
    BY <1>7, ClosedIsHungUp DEF Left, ForgetUnread
  <2>2. QED
    BY <2>1 DEF PromiseStep, Promise!Next
<1>8. QED
  BY <1>1, <1>2, <1>3, <1>4, <1>5, <1>6, <1>7 DEF MainStep, ReceiveStep

\* So are the heartbeat, the Gateway, the network, the threads left behind and
\* the interrupt.
LEMMA SurroundingsRefine == IInv /\ IInv' /\ Surroundings => PromiseStep
<1> SUFFICES ASSUME IInv, IInv', Surroundings
             PROVE  PromiseStep
  OBVIOUS
<1> USE RequestAssumption DEF IInv, TypeOK, SocketIsLocal, RequestsApart
<1>1. CASE HeartbeatRaises \/ HeartbeatReturns \/ Stop
  <2>1. UNCHANGED <<workVars, sock>> /\ pc' = pc
    BY <1>1 DEF HeartbeatRaises, HeartbeatReturns, Stop, runVars, linkVars
  <2>2. QED
    BY <2>1, NothingMoves DEF PromiseStep, PromiseVars
<1>2. CASE LinkLost
  <2>1. ASSUME NEW r \in Request
        PROVE  Life(r)' = Life(r) \/ (Life(r) = "queued" /\ Life(r)' = "lost")
    BY <1>2 DEF LinkLost, Life, runVars
  <2>2. UNCHANGED executed /\ sock # "none" /\ sock' # "none"
    BY <1>2 DEF LinkLost
  <2>3. Promise!Forsaken
    BY <2>1, <2>2, GivenUp
  <2>4. QED
    BY <2>3 DEF PromiseStep, Promise!Next
<1>3. ASSUME NEW r \in Request, GatewaySends(r)
      PROVE  PromiseStep
  <2>1. Life(r) = "unsent" /\ Life(r)' = "queued"
    BY <1>3 DEF GatewaySends, Life
  <2>2. \A q \in Request \ {r} : Life(q)' = Life(q)
    BY <1>3 DEF GatewaySends, Life, runVars
  <2>3. Lives' = [Lives EXCEPT ![r] = "queued"]
    BY <2>1, <2>2, OneMoves
  <2>4. UNCHANGED <<sock, executed>> /\ sock # "none"
    BY <1>3 DEF GatewaySends, linkVars
  <2>5. Promise!Sent(r)
    BY <2>1, <2>3, <2>4 DEF Lives, Promise!Sent, Promise!Move
  <2>6. QED
    BY <2>5 DEF PromiseStep, Promise!Next
<1>4. ASSUME NEW r \in Request, OrphanEnds(r)
      PROVE  PromiseStep
  <2>1. Life(r) = "adrift" /\ Life(r)' = "lost"
    BY <1>4 DEF OrphanEnds, Life
  <2>2. \A q \in Request \ {r} : Life(q)' = Life(q)
    BY <1>4 DEF OrphanEnds, Life, runVars
  <2>3. Lives' = [Lives EXCEPT ![r] = "lost"]
    BY <2>1, <2>2, OneMoves
  <2>4. /\ UNCHANGED sock
        /\ executed' = executed \/ executed' = [executed EXCEPT ![r] = @ + 1]
    BY <1>4 DEF OrphanEnds, linkVars
  <2>5. Promise!Ran(r)
    BY <2>1, <2>3, <2>4 DEF Lives, Promise!Ran, Promise!Move
  <2>6. QED
    BY <2>5 DEF PromiseStep, Promise!Next
<1>5. CASE Interrupt
  <2>1. CASE pc \in {"connecting", "waiting", "greeting", "retiring"}
    <3>1. UNCHANGED <<workVars, sock>> /\ req = None
      BY <1>5, <2>1 DEF Interrupt, Serving
    <3>2. QED
      BY <3>1, NothingMoves DEF PromiseStep, PromiseVars
  <2>2. CASE pc \in Serving
    <3>1. ASSUME NEW r \in Request
          PROVE  \/ Life(r)' = Life(r)
                 \/ Life(r) \in {"running", "ran"} /\ Life(r)' = "lost"
                 \/ Life(r) = "running" /\ Life(r)' = "adrift"
      BY <1>5, <2>2 DEF Interrupt, Serving, Life
    <3>2. UNCHANGED <<sock, executed>> /\ sock # "none"
      BY <1>5, <2>2 DEF Interrupt, Serving
    <3>3. Promise!Forsaken
      BY <3>1, <3>2, GivenUp
    <3>4. QED
      BY <3>3 DEF PromiseStep, Promise!Next
  <2>3. CASE pc = "leaving"
    <3>1. Promise!HangUp
      BY <1>5, <2>3, ClosedIsHungUp DEF Interrupt, Serving
    <3>2. QED
      BY <3>1 DEF PromiseStep, Promise!Next
  <2>4. QED
    BY <1>5, <2>1, <2>2, <2>3 DEF Interrupt
<1>6. QED
  BY <1>1, <1>2, <1>3, <1>4, <1>5 DEF Surroundings

\* The client serves as Servant says: at most one effect per request, one
\* request at a time, and an answer only over the connection it came by.
THEOREM ServantRefined == Spec => ImplementsServant
<1>1. Init => Promise!Init
  <2> SUFFICES ASSUME Init PROVE Promise!Init
    OBVIOUS
  <2>1. \A r \in Request : Life(r) = "unsent"
    BY RequestAssumption DEF Init, Life
  <2>2. QED
    BY <2>1 DEF Init, Promise!Init
<1>2. IInv /\ IInv' /\ [Next]_vars => [Promise!Next]_PromiseVars
  <2> SUFFICES ASSUME IInv, IInv', [Next]_vars
               PROVE  PromiseStep
    BY DEF PromiseStep
  <2>1. CASE UNCHANGED vars
    <3>1. UNCHANGED <<workVars, sock>> /\ pc' = pc
      BY <2>1 DEF vars, runVars, linkVars
    <3>2. QED
      BY <3>1, NothingMoves DEF PromiseStep, PromiseVars
  <2>2. QED
    BY <2>1, MainRefines, SurroundingsRefine DEF Next
<1>3. QED
  BY <1>1, <1>2, Invariance, PTL DEF Spec, ImplementsServant, Promise!Spec, PromiseVars, Lives

-----------------------------------------------------------------------------
(* What follows from it over several steps.                                *)

\* A request has its effect at most once, whatever becomes of the connection,
\* of the task or of the thread that serves it; and one that has had it is
\* neither unread, nor in hand before its dispatch, nor adrift in a thread.
EffectOnce ==
    \A r \in Request :
        /\ executed[r] \in {0, 1}
        /\ executed[r] = 1 =>
             r \in sent \ (inbox \cup orphans) /\ (r = req => pc = "replying")

\* A request is read once from one socket, dispatch() is awaited once, and a
\* thread it left behind ends once.
THEOREM EffectsAreSingle == Spec => []EffectOnce
<1>1. Init => EffectOnce
  BY DEF Init, EffectOnce
<1>2. IInv /\ EffectOnce /\ [Next]_vars => EffectOnce'
  <2> SUFFICES ASSUME IInv, EffectOnce, [Next]_vars PROVE EffectOnce'
    OBVIOUS
  <2> USE RequestAssumption
        DEF IInv, TypeOK, RequestsApart, EffectOnce, runVars, signalVars, linkVars, workVars,
            Serving
  <2>1. CASE Dispatched
    BY <2>1 DEF Dispatched
  <2>2. ASSUME NEW r \in Request, OrphanEnds(r) PROVE EffectOnce'
    BY <2>2 DEF OrphanEnds
  <2>3. ASSUME NEW r \in Request, ReceiveRequest(r) PROVE EffectOnce'
    BY <2>3 DEF ReceiveRequest
  <2>4. ASSUME NEW r \in Request, GatewaySends(r) PROVE EffectOnce'
    BY <2>4 DEF GatewaySends
  <2>5. CASE Replied \/ ReplyFails
    BY <2>5 DEF Replied, ReplyFails, NextMessage
  <2>6. CASE Interrupt
    BY <2>6 DEF Interrupt, ConnectionEnds
  <2>7. CASE Left \/ LinkLost
    BY <2>7 DEF Left, LinkLost, ConnectionEnds, ForgetUnread
  <2>8. CASE \/ LoopHead \/ BackoffOver \/ Connected \/ ConnectFails \/ Welcomed
             \/ GreetingFails \/ Pong \/ ReceiveFails \/ Retired
    <3>1. UNCHANGED workVars /\ req = None
      BY <2>8 DEF LoopHead, BackoffOver, Connected, ConnectFails, Welcomed, GreetingFails,
           Pong, ReceiveFails, Retired
    <3>2. QED
      BY <3>1
  <2>9. CASE HeartbeatRaises \/ HeartbeatReturns \/ Stop \/ UNCHANGED vars
    <3>1. UNCHANGED <<workVars, pc>>
      BY <2>9 DEF HeartbeatRaises, HeartbeatReturns, Stop, vars
    <3>2. QED
      BY <3>1
  <2>10. QED
    BY <2>1, <2>2, <2>3, <2>4, <2>5, <2>6, <2>7, <2>8, <2>9
    DEF Next, MainStep, ReceiveStep, Surroundings
<1>3. QED
  BY Invariance, <1>1, <1>2, PTL DEF Spec

\* A cancellation is in flight only on the way out of _connected, and then run()
\* has ended.
CancelIsLeaving == failure = "cancel" => pc \in {"retiring", "leaving", "ended"}

\* What no step undoes: the stop event; a cancellation in flight whose heartbeat
\* has not raised before it; and, under either, that run() begins no connection.
AskedToEnd == stop \/ Cancelling
EndStands ==
    /\ stop => stop'
    /\ Cancelling => Cancelling'
    /\ AskedToEnd /\ pc # "connecting" => pc' # "connecting"
RequestStands == [][EndStands]_vars

\* The safety side of EndIsObeyed, for any requests and any exponent.  A
\* cancellation that finds the heartbeat raised is not among them: Retired puts
\* the heartbeat's error in its place.  Nor is an interrupt that is delivered
\* while the heartbeat is awaited, which never becomes a cancellation in flight.
THEOREM RequestToEndStands == Spec => RequestStands
<1>1. Init => CancelIsLeaving
  BY DEF Init, CancelIsLeaving
<1>2. IInv /\ CancelIsLeaving /\ [Next]_vars => CancelIsLeaving' /\ EndStands
  <2> SUFFICES ASSUME IInv, CancelIsLeaving, [Next]_vars
               PROVE  CancelIsLeaving' /\ EndStands
    OBVIOUS
  <2> USE DEF IInv, TypeOK, HeartbeatIsOwned, CancelIsLeaving, EndStands, AskedToEnd,
              Cancelling, runVars, signalVars, linkVars, Serving
  <2>1. CASE LoopHead \/ BackoffOver \/ Connected \/ Welcomed \/ GreetingFails
    BY <2>1 DEF LoopHead, BackoffOver, Connected, Welcomed, GreetingFails, NextMessage
  <2>2. CASE ConnectFails \/ Left
    BY <2>2 DEF ConnectFails, Left, ConnectionEnds, After
  <2>3. CASE ReceiveStep \/ Dispatched \/ Replied \/ ReplyFails
    BY <2>3 DEF ReceiveStep, Pong, ReceiveFails, ReceiveRequest, Dispatched, Replied,
         ReplyFails, NextMessage
  <2>4. CASE Retired
    BY <2>4 DEF Retired
  <2>5. CASE HeartbeatRaises \/ HeartbeatReturns \/ Stop
    BY <2>5 DEF HeartbeatRaises, HeartbeatReturns, Stop
  <2>6. CASE LinkLost \/ \E r \in Request : GatewaySends(r) \/ OrphanEnds(r)
    BY <2>6 DEF LinkLost, GatewaySends, OrphanEnds
  <2>7. CASE Interrupt
    BY <2>7 DEF Interrupt, ConnectionEnds, After
  <2>8. CASE UNCHANGED vars
    BY <2>8 DEF vars
  <2>9. QED
    BY <2>1, <2>2, <2>3, <2>4, <2>5, <2>6, <2>7, <2>8 DEF Next, MainStep, Surroundings
<1>3. QED
  BY Invariance, <1>1, <1>2, PTL DEF Spec, RequestStands

\* A connection is left without an exception only once the stop event is set.
QuietMeansStop == pc \in {"retiring", "leaving"} /\ failure = "none" => stop

\* The exact extent of BackoffResets, which the code does not keep: unless it is
\* being stopped, run() never lowers backoff_attempt, whatever connection it had
\* in between.
BackoffOnlyGrows == [][stop \/ attempt' >= attempt]_vars

\* run() assigns 0 after _connected() returns, which it does only at a stop.
THEOREM BackoffNeverResets == Spec => BackoffOnlyGrows
<1>1. Init => QuietMeansStop
  BY DEF Init, QuietMeansStop
<1>2. IInv /\ QuietMeansStop /\ [Next]_vars => QuietMeansStop' /\ (stop \/ attempt' >= attempt)
  <2> SUFFICES ASSUME IInv, QuietMeansStop, [Next]_vars
               PROVE  QuietMeansStop' /\ (stop \/ attempt' >= attempt)
    OBVIOUS
  <2> USE ExponentAssumption
        DEF IInv, TypeOK, QuietMeansStop, runVars, signalVars, linkVars, Serving
  <2>1. CASE LoopHead \/ BackoffOver \/ Connected \/ Welcomed \/ GreetingFails
    BY <2>1 DEF LoopHead, BackoffOver, Connected, Welcomed, GreetingFails, NextMessage
  <2>2. CASE ConnectFails \/ Left
    BY <2>2 DEF ConnectFails, Left, ConnectionEnds, After
  <2>3. CASE ReceiveStep \/ Dispatched \/ Replied \/ ReplyFails
    BY <2>3 DEF ReceiveStep, Pong, ReceiveFails, ReceiveRequest, Dispatched, Replied,
         ReplyFails, NextMessage
  <2>4. CASE Retired
    BY <2>4 DEF Retired
  <2>5. CASE HeartbeatRaises \/ HeartbeatReturns \/ Stop
    BY <2>5 DEF HeartbeatRaises, HeartbeatReturns, Stop
  <2>6. CASE LinkLost \/ \E r \in Request : GatewaySends(r) \/ OrphanEnds(r)
    BY <2>6 DEF LinkLost, GatewaySends, OrphanEnds
  <2>7. CASE Interrupt
    BY <2>7 DEF Interrupt, ConnectionEnds, After
  <2>8. CASE UNCHANGED vars
    BY <2>8 DEF vars
  <2>9. QED
    BY <2>1, <2>2, <2>3, <2>4, <2>5, <2>6, <2>7, <2>8 DEF Next, MainStep, Surroundings
<1>3. QED
  BY Invariance, <1>1, <1>2, PTL DEF Spec, BackoffOnlyGrows

\* Once run() has ended it stays so, and nothing more happens to any request,
\* except what a thread left adrift by an interrupt still does.
EndIsQuiet ==
    pc = "ended" =>
        /\ pc' = "ended" /\ UNCHANGED <<sent, answered>>
        /\ \A r \in Request : executed'[r] # executed[r] => r \in orphans
EndsAreQuiet == [][EndIsQuiet]_vars

\* There is no socket and no heartbeat any more, and dispatch() is not awaited.
THEOREM NothingAfterTheEnd == Spec => EndsAreQuiet
<1>1. IInv /\ [Next]_vars => EndIsQuiet
  <2> SUFFICES ASSUME IInv, [Next]_vars, pc = "ended"
               PROVE  EndIsQuiet
    BY DEF EndIsQuiet
  <2> USE DEF IInv, TypeOK, SocketIsLocal, HeartbeatIsOwned, EndIsQuiet, Serving,
              runVars, signalVars, linkVars, workVars
  <2>1. ~MainStep
    BY DEF MainStep, ReceiveStep, LoopHead, BackoffOver, Connected, ConnectFails, Welcomed,
        GreetingFails, Pong, ReceiveFails, ReceiveRequest, Dispatched, Replied, ReplyFails,
        Retired, Left
  <2>2. CASE Surroundings
    BY <2>2 DEF Surroundings, HeartbeatRaises, HeartbeatReturns, LinkLost, Stop, Interrupt,
         GatewaySends, OrphanEnds
  <2>3. QED
    BY <2>1, <2>2 DEF Next, vars
<1>2. QED
  BY Invariance, <1>1, PTL DEF Spec, EndsAreQuiet

=============================================================================
