-------------------------- MODULE OperationsProofs --------------------------
(***************************************************************************)
(* Proofs about the Gateway's operations, for any number of devices,       *)
(* operations, owners and request ids, any durations and any clock: the    *)
(* properties of Operations that are invariants, and that Operations       *)
(* implements Admission.                                                   *)
(*                                                                         *)
(* The inductive invariant is IInv.  Flow says what an operation's place   *)
(* in its handler tells of its request and its result, Backing which rows  *)
(* stand behind it; neither follows from the properties themselves.        *)
(***************************************************************************)
EXTENDS Operations, TLAPS

\* The two ways an operation leaves a transaction behind: to the next one, or
\* to its audit event with a result.
Moves(o) ==
    \/ \E place \in Place \ {"recording"} : Goes(o, place)
    \/ \E result \in Result \ {"none"} : Settles(o, result)

\* Either way the operations keep their types.
LEMMA MoveTypes ==
    ASSUME TypeOK, NEW o \in Op, Moves(o)
    PROVE  OpTypes'
<1>1. ASSUME NEW place \in Place \ {"recording"}, Goes(o, place)
       PROVE  OpTypes'
  BY <1>1 DEF TypeOK, RowTypes, OpTypes, Goes
<1>2. ASSUME NEW result \in Result \ {"none"}, Settles(o, result)
       PROVE  OpTypes'
  BY <1>2 DEF TypeOK, OpTypes, Settles, Place
<1>3. QED
  BY <1>1, <1>2 DEF Moves

\* A lease that is released is a lease still, with its device and its owner.
LEMMA ReleasedType ==
    ASSUME TypeOK
    PROVE  \A l \in Op : /\ Released(leases[l]) \in LeaseTypes
                         /\ Released(leases[l]).state = "released"
                         /\ Released(leases[l]).device = leases[l].device
                         /\ Released(leases[l]).owner = leases[l].owner
BY DEF TypeOK, RowTypes, LeaseTypes, Released

\* Callers pass on arguments of the right types.
LEMMA ArgsTyped ==
    ASSUME NEW k \in Kind
    PROVE  Args(k) \subseteq ArgTypes
<1>1. SUFFICES ASSUME NEW a \in Args(k)
               PROVE  a \in ArgTypes
  OBVIOUS
<1>2. Ttl \subseteq Nat /\ {0} \subseteq Nat
  BY OperationsAssumption
<1>3. PICK ttls \in {Ttl, {0}} :
        a \in [device : Device, owner : Owner \cup {None}, lease : Op \cup {None},
               request : Request \cup {None}, ttl : ttls]
  BY DEF Args, Granted
<1>4. ttls \subseteq Nat
  BY <1>2, <1>3
<1>5. QED
  BY <1>3, <1>4 DEF ArgTypes


\* Every step keeps the types.
LEMMA TypeStep ==
    ASSUME TypeOK, [Next]_vars
    PROVE  TypeOK'
<1> USE OperationsAssumption
<1>1. ASSUME NEW o \in Op, Authorize(o)
       PROVE  TypeOK'
  <2>1. Moves(o)
    BY <1>1 DEF Moves, Authorize, Fails, Stage, Kind, Place, Result
  <2>2. OpTypes'
    BY <2>1, MoveTypes
  <2>3. kind' \in [Op -> Kind] /\ arg' \in [Op -> ArgTypes]
    BY <1>1, ArgsTyped DEF Authorize, TypeOK
  <2>4. RowTypes' /\ Remote!TypeOK'
    BY <1>1 DEF Authorize, TypeOK, RowTypes, Remote!TypeOK, callVars
  <2>5. QED
    BY <2>2, <2>3, <2>4 DEF TypeOK
<1>2. ASSUME NEW o \in Op, AcquireLease(o)
       PROVE  TypeOK'
  <2>1. Moves(o)
    BY <1>2 DEF Moves, AcquireLease, Fails, Stage, Kind, Place, Result
  <2>2. OpTypes'
    BY <2>1, MoveTypes
  <2>3. leases' \in [Op -> LeaseTypes]
    <3>1. \A l \in Op : Released(leases[l]) \in LeaseTypes
      BY ReleasedType
    <3>2. stamp[o] + arg[o].ttl \in Nat
      BY DEF TypeOK, OpTypes, ArgTypes
    <3>3. [state |-> "open", device |-> arg[o].device, owner |-> arg[o].owner,
           expires |-> stamp[o] + arg[o].ttl] \in LeaseTypes
      BY <3>2 DEF TypeOK, ArgTypes, LeaseTypes
    <3>4. leases \in [Op -> LeaseTypes]
      BY DEF TypeOK, RowTypes
    <3>5. QED
      BY <1>2, <3>1, <3>3, <3>4 DEF AcquireLease
  <2>4. RowTypes' /\ Remote!TypeOK'
    BY <1>2, <2>3 DEF AcquireLease, TypeOK, RowTypes, Remote!TypeOK, callVars
  <2>5. QED
    BY <1>2, <2>2, <2>4 DEF TypeOK, AcquireLease
<1>3. ASSUME NEW o \in Op, ValidateLease(o)
       PROVE  TypeOK'
  <2>1. Moves(o)
    BY <1>3 DEF Moves, ValidateLease, Fails, Stage, Kind, Place, Result
  <2>2. OpTypes'
    BY <2>1, MoveTypes
  <2>3. RowTypes' /\ Remote!TypeOK'
    BY <1>3 DEF ValidateLease, TypeOK, RowTypes, Remote!TypeOK, callVars
  <2>4. QED
    BY <1>3, <2>2, <2>3 DEF TypeOK, ValidateLease
<1>4. ASSUME NEW o \in Op, ReleaseReads(o)
       PROVE  TypeOK'
  <2>1. Moves(o)
    BY <1>4 DEF Moves, ReleaseReads, Fails, Stage, Kind, Place, Result
  <2>2. OpTypes'
    BY <2>1, MoveTypes
  <2>3. RowTypes' /\ Remote!TypeOK'
    BY <1>4 DEF ReleaseReads, TypeOK, RowTypes, Remote!TypeOK, callVars
  <2>4. QED
    BY <1>4, <2>2, <2>3 DEF TypeOK, ReleaseReads
<1>5. ASSUME NEW o \in Op, ReleaseWrites(o)
       PROVE  TypeOK'
  <2>1. Moves(o)
    BY <1>5 DEF Moves, ReleaseWrites, Fails, Stage, Kind, Place, Result
  <2>2. OpTypes'
    BY <2>1, MoveTypes
  <2>3. leases' \in [Op -> LeaseTypes]
    BY <1>5, ReleasedType DEF ReleaseWrites, TypeOK, RowTypes
  <2>4. RowTypes' /\ Remote!TypeOK'
    BY <1>5, <2>3 DEF ReleaseWrites, TypeOK, RowTypes, Remote!TypeOK, callVars
  <2>5. QED
    BY <1>5, <2>2, <2>4 DEF TypeOK, ReleaseWrites
<1>6. ASSUME NEW o \in Op, ClaimRequest(o)
       PROVE  TypeOK'
  <2>1. Moves(o)
    BY <1>6 DEF Moves, ClaimRequest, Fails, Stage, Kind, Place, Result
  <2>2. OpTypes'
    BY <2>1, MoveTypes
  <2>3. RowTypes' /\ Remote!TypeOK'
    BY <1>6 DEF ClaimRequest, TypeOK, RowTypes, Remote!TypeOK, callVars
  <2>4. QED
    BY <1>6, <2>2, <2>3 DEF TypeOK, ClaimRequest
<1>7. ASSUME NEW o \in Op, Dispatch(o)
       PROVE  TypeOK'
  <2>1. Moves(o)
    BY <1>7 DEF Moves, Dispatch, Fails, Stage, Kind, Place, Result
  <2>2. OpTypes'
    BY <2>1, MoveTypes
  <2>3. RowTypes' /\ Remote!TypeOK'
    BY <1>7 DEF Dispatch, TypeOK, RowTypes, Remote!TypeOK, callVars,
        Remote!Issue, Remote!Return, Remote!Verdict
  <2>4. QED
    BY <1>7, <2>2, <2>3 DEF TypeOK, Dispatch
<1>8. ASSUME NEW o \in Op, AgentExecutes(o)
       PROVE  TypeOK'
  BY <1>8 DEF AgentExecutes, Remote!Execute, opVars, TypeOK, RowTypes,
      OpTypes, Place, Result, Remote!TypeOK, Remote!Verdict
<1>9. ASSUME NEW o \in Op, Returns(o)
       PROVE  TypeOK'
  <2>1. Moves(o)
    BY <1>9 DEF Moves, Returns, Fails, Stage, Kind, Place, Result
  <2>2. OpTypes'
    BY <2>1, MoveTypes
  <2>3. RowTypes' /\ Remote!TypeOK'
    BY <1>9 DEF Returns, TypeOK, RowTypes, Remote!TypeOK, callVars,
        Remote!Return, Remote!Verdict
  <2>4. QED
    BY <1>9, <2>2, <2>3 DEF TypeOK, Returns
<1>10. ASSUME NEW o \in Op, Record(o)
       PROVE  TypeOK'
  BY <1>10 DEF Record, Ends, callVars, TypeOK, RowTypes, OpTypes, Place,
      Result, Remote!TypeOK, Remote!Verdict
<1>11. ASSUME NEW o \in Op, CancelOp(o)
       PROVE  TypeOK'
  <2>1. Remote!TypeOK'
    <3>1. CASE Remote!Return(o, "cancelled")
      BY <3>1 DEF TypeOK, Remote!TypeOK, Remote!Return, Remote!Verdict
    <3>2. CASE UNCHANGED callVars
      BY <3>2 DEF TypeOK, Remote!TypeOK, callVars
    <3>3. QED
      BY <1>11, <3>1, <3>2 DEF CancelOp
  <2>2. RowTypes' /\ OpTypes'
    BY <1>11 DEF CancelOp, Ends, TypeOK, RowTypes, OpTypes, Place
  <2>3. QED
    BY <1>11, <2>1, <2>2 DEF TypeOK, CancelOp
<1>12. ASSUME Crash
       PROVE  TypeOK'
  BY <1>12 DEF Crash, Remote!LoseAll, Remote!Verdict, TypeOK, RowTypes,
      OpTypes, Place, Result, Remote!TypeOK
<1>13. ASSUME NEW d \in Device, SetLevel(d)
       PROVE  TypeOK'
  BY <1>13 DEF SetLevel, opVars, callVars, TypeOK, RowTypes, OpTypes, Place,
      Result, Remote!TypeOK, Remote!Verdict
<1>14. ASSUME Tick
       PROVE  TypeOK'
  BY <1>14 DEF Tick, opVars, callVars, TypeOK, RowTypes, OpTypes, Place,
      Result, Remote!TypeOK, Remote!Verdict
<1>15. ASSUME UNCHANGED vars
       PROVE  TypeOK'
  BY <1>15 DEF vars, opVars, callVars, TypeOK, RowTypes, OpTypes, Place,
      Result, Remote!TypeOK, Remote!Verdict
<1>16. QED
  BY <1>1, <1>2, <1>3, <1>4, <1>5, <1>6, <1>7, <1>8, <1>9, <1>10, <1>11,
      <1>12, <1>13, <1>14, <1>15 DEF Next, OpStep

\* An operation's place goes on telling of its request and its result.
LEMMA FlowStep ==
    ASSUME TypeOK, Flow, [Next]_vars
    PROVE  Flow'
<1>1. ASSUME NEW o \in Op, Authorize(o)
       PROVE  Flow'
  BY <1>1 DEF Authorize, Goes, Settles, Fails, Stage, Args, Granted, Admits,
      callVars, Kind, Guarded, Flow, TypeOK, RowTypes, OpTypes, Place,
      Result, Remote!TypeOK, Remote!Verdict
<1>2. ASSUME NEW o \in Op, AcquireLease(o)
       PROVE  Flow'
  BY <1>2 DEF AcquireLease, Settles, Fails, Open, Expired, Released,
      callVars, Flow, TypeOK, RowTypes, OpTypes, Place, Result,
      Remote!TypeOK, Remote!Verdict
<1>3. ASSUME NEW o \in Op, ValidateLease(o)
       PROVE  Flow'
  BY <1>3 DEF ValidateLease, Goes, Settles, Fails, Valid, callVars, Flow,
      TypeOK, RowTypes, OpTypes, Place, Result, Remote!TypeOK,
      Remote!Verdict
<1>4. ASSUME NEW o \in Op, ReleaseReads(o)
       PROVE  Flow'
  BY <1>4 DEF ReleaseReads, Goes, Settles, Fails, callVars, Flow, TypeOK,
      RowTypes, OpTypes, Place, Result, Remote!TypeOK, Remote!Verdict
<1>5. ASSUME NEW o \in Op, ReleaseWrites(o)
       PROVE  Flow'
  BY <1>5 DEF ReleaseWrites, Settles, Fails, Releasable, callVars, Flow,
      TypeOK, RowTypes, OpTypes, Place, Result, Remote!TypeOK,
      Remote!Verdict
<1>6. ASSUME NEW o \in Op, ClaimRequest(o)
       PROVE  Flow'
  BY <1>6 DEF ClaimRequest, Goes, Settles, Fails, Unclaimed, callVars, Flow,
      TypeOK, RowTypes, OpTypes, Place, Result, Remote!TypeOK,
      Remote!Verdict
<1>7. ASSUME NEW o \in Op, Dispatch(o)
       PROVE  Flow'
  BY <1>7 DEF Dispatch, Goes, Settles, Remote!Issue, Remote!Return,
      Remote!Verdict, Flow, TypeOK, RowTypes, OpTypes, Place, Result,
      Remote!TypeOK
<1>8. ASSUME NEW o \in Op, AgentExecutes(o)
       PROVE  Flow'
  BY <1>8 DEF AgentExecutes, Remote!Execute, opVars, Flow, TypeOK, RowTypes,
      OpTypes, Place, Result, Remote!TypeOK, Remote!Verdict
<1>9. ASSUME NEW o \in Op, Returns(o)
       PROVE  Flow'
  BY <1>9 DEF Returns, Settles, Successful, Remote!Return, Remote!Verdict,
      Flow, TypeOK, RowTypes, OpTypes, Place, Result, Remote!TypeOK
<1>10. ASSUME NEW o \in Op, Record(o)
       PROVE  Flow'
  BY <1>10 DEF Record, Ends, callVars, Flow, TypeOK, RowTypes, OpTypes,
      Place, Result, Remote!TypeOK, Remote!Verdict
<1>11. ASSUME NEW o \in Op, CancelOp(o)
       PROVE  Flow'
  BY <1>11 DEF CancelOp, Ends, callVars, Remote!Return, Remote!Verdict,
      Flow, TypeOK, RowTypes, OpTypes, Place, Result, Remote!TypeOK
<1>12. ASSUME Crash
       PROVE  Flow'
  BY <1>12 DEF Crash, Remote!LoseAll, Remote!Verdict, Flow, TypeOK,
      RowTypes, OpTypes, Place, Result, Remote!TypeOK
<1>13. ASSUME NEW d \in Device, SetLevel(d)
       PROVE  Flow'
  BY <1>13 DEF SetLevel, opVars, callVars, Flow, TypeOK, RowTypes, OpTypes,
      Place, Result, Remote!TypeOK, Remote!Verdict
<1>14. ASSUME Tick
       PROVE  Flow'
  BY <1>14 DEF Tick, opVars, callVars, Flow, TypeOK, RowTypes, OpTypes,
      Place, Result, Remote!TypeOK, Remote!Verdict
<1>15. ASSUME UNCHANGED vars
       PROVE  Flow'
  BY <1>15 DEF vars, opVars, callVars, Flow, TypeOK, RowTypes, OpTypes,
      Place, Result, Remote!TypeOK, Remote!Verdict
<1>16. QED
  BY <1>1, <1>2, <1>3, <1>4, <1>5, <1>6, <1>7, <1>8, <1>9, <1>10, <1>11,
      <1>12, <1>13, <1>14, <1>15 DEF Next, OpStep

\* Only an acquisition and a release write leases.
LEMMA LeaseWriters ==
    ASSUME [Next]_vars
    PROVE  UNCHANGED leases \/ \E o \in Op : AcquireLease(o) \/ ReleaseWrites(o)
BY DEF Next, OpStep, vars, opVars, Authorize, ValidateLease, ReleaseReads,
    ClaimRequest, Dispatch, AgentExecutes, Returns, Record, CancelOp, Crash,
    SetLevel, Tick

\* A lease, once granted, keeps its device and its owner, and a released one
\* stays released.
LEMMA RowsKept ==
    ASSUME TypeOK, Flow, Backing, [Next]_vars
    PROVE  \A l \in Op : leases[l].state # "absent" =>
               /\ leases'[l].state # "absent"
               /\ leases'[l].device = leases[l].device
               /\ leases'[l].owner = leases[l].owner
               /\ leases[l].state = "released" => leases'[l].state = "released"
<1>1. ASSUME NEW o \in Op, AcquireLease(o), NEW l \in Op, leases[l].state # "absent"
       PROVE  leases'[l] \in {leases[l], Released(leases[l])}
  <2>1. l # o
    BY <1>1 DEF AcquireLease, Backing
  <2>2. QED
    BY <1>1, <2>1 DEF AcquireLease
<1>2. ASSUME NEW o \in Op, ReleaseWrites(o), NEW l \in Op
       PROVE  leases'[l] \in {leases[l], Released(leases[l])}
  BY <1>2 DEF ReleaseWrites, TypeOK, RowTypes
<1>3. QED
  BY <1>1, <1>2, LeaseWriters, ReleasedType

\* A device's unreleased lease stays the only one: an acquisition is granted
\* only when none is left that it did not retire.
LEMMA LeaseStep ==
    ASSUME TypeOK, LeaseExclusive, [Next]_vars
    PROVE  LeaseExclusive'
<1>1. ASSUME NEW o \in Op, AcquireLease(o)
       PROVE  LeaseExclusive'
  BY <1>1, ReleasedType
  DEF AcquireLease, Open, LeaseExclusive, TypeOK, RowTypes, OpTypes, ArgTypes
<1>2. ASSUME NEW o \in Op, ReleaseWrites(o)
       PROVE  LeaseExclusive'
  <2>1. \A l \in Op : leases'[l] \in {leases[l], Released(leases[l])}
    BY <1>2 DEF ReleaseWrites, TypeOK, RowTypes
  <2>2. QED
    BY <2>1, ReleasedType DEF LeaseExclusive
<1>3. QED
  BY <1>1, <1>2, LeaseWriters DEF LeaseExclusive

\* No operation runs into the unique index: an unreleased lease of the device
\* is either retired by the acquisition or found active, since Expired and
\* "active" split the leases between them.
LEMMA ObstacleStep ==
    ASSUME TypeOK, ExpiredIsNoObstacle, [Next]_vars
    PROVE  ExpiredIsNoObstacle'
<1>1. ASSUME NEW o \in Op, Authorize(o)
       PROVE  ExpiredIsNoObstacle'
  BY <1>1 DEF Authorize, Goes, Settles, Fails, Stage, Args, Granted, Admits,
      callVars, ExpiredIsNoObstacle, TypeOK, OpTypes
<1>2. ASSUME NEW o \in Op, AcquireLease(o)
       PROVE  ExpiredIsNoObstacle'
  BY <1>2 DEF AcquireLease, Settles, Fails, Open, Expired, ExpiredIsNoObstacle,
      TypeOK, RowTypes, OpTypes, LeaseTypes
<1>3. ASSUME NEW o \in Op, ValidateLease(o)
       PROVE  ExpiredIsNoObstacle'
  BY <1>3 DEF ValidateLease, Goes, Settles, Fails, Valid, callVars,
      ExpiredIsNoObstacle, TypeOK, OpTypes
<1>4. ASSUME NEW o \in Op, ReleaseReads(o)
       PROVE  ExpiredIsNoObstacle'
  BY <1>4 DEF ReleaseReads, Goes, Settles, Fails, callVars,
      ExpiredIsNoObstacle, TypeOK, OpTypes
<1>5. ASSUME NEW o \in Op, ReleaseWrites(o)
       PROVE  ExpiredIsNoObstacle'
  BY <1>5 DEF ReleaseWrites, Settles, Fails, Releasable, callVars,
      ExpiredIsNoObstacle, TypeOK, OpTypes
<1>6. ASSUME NEW o \in Op, ClaimRequest(o)
       PROVE  ExpiredIsNoObstacle'
  BY <1>6 DEF ClaimRequest, Goes, Settles, Fails, Unclaimed, callVars,
      ExpiredIsNoObstacle, TypeOK, OpTypes
<1>7. ASSUME NEW o \in Op, Dispatch(o)
       PROVE  ExpiredIsNoObstacle'
  BY <1>7 DEF Dispatch, Goes, Settles, Remote!Issue, Remote!Return,
      Remote!Verdict, ExpiredIsNoObstacle, TypeOK, OpTypes
<1>8. ASSUME NEW o \in Op, AgentExecutes(o)
       PROVE  ExpiredIsNoObstacle'
  BY <1>8 DEF AgentExecutes, Remote!Execute, opVars, ExpiredIsNoObstacle,
      TypeOK, OpTypes
<1>9. ASSUME NEW o \in Op, Returns(o)
       PROVE  ExpiredIsNoObstacle'
  BY <1>9 DEF Returns, Settles, Successful, Remote!Return, Remote!Verdict,
      ExpiredIsNoObstacle, TypeOK, OpTypes
<1>10. ASSUME NEW o \in Op, Record(o)
       PROVE  ExpiredIsNoObstacle'
  BY <1>10 DEF Record, Ends, callVars, ExpiredIsNoObstacle, TypeOK, OpTypes
<1>11. ASSUME NEW o \in Op, CancelOp(o)
       PROVE  ExpiredIsNoObstacle'
  BY <1>11 DEF CancelOp, Ends, callVars, Remote!Return, Remote!Verdict,
      ExpiredIsNoObstacle, TypeOK, OpTypes
<1>12. ASSUME Crash
       PROVE  ExpiredIsNoObstacle'
  BY <1>12 DEF Crash, Remote!LoseAll, Remote!Verdict, ExpiredIsNoObstacle,
      TypeOK, OpTypes
<1>13. ASSUME NEW d \in Device, SetLevel(d)
       PROVE  ExpiredIsNoObstacle'
  BY <1>13 DEF SetLevel, opVars, callVars, ExpiredIsNoObstacle, TypeOK,
      OpTypes
<1>14. ASSUME Tick
       PROVE  ExpiredIsNoObstacle'
  BY <1>14 DEF Tick, opVars, callVars, ExpiredIsNoObstacle, TypeOK, OpTypes
<1>15. ASSUME UNCHANGED vars
       PROVE  ExpiredIsNoObstacle'
  BY <1>15 DEF vars, opVars, callVars, ExpiredIsNoObstacle, TypeOK, OpTypes
<1>16. QED
  BY <1>1, <1>2, <1>3, <1>4, <1>5, <1>6, <1>7, <1>8, <1>9, <1>10, <1>11,
      <1>12, <1>13, <1>14, <1>15 DEF Next, OpStep

\* The rows go on standing behind the operations.
LEMMA BackingStep ==
    ASSUME TypeOK, Flow, Backing, [Next]_vars
    PROVE  Backing'
<1> USE OperationsAssumption
<1>1. ASSUME NEW o \in Op, Authorize(o)
       PROVE  Backing'
  BY <1>1 DEF Authorize, Goes, Settles, Fails, Stage, Args, Granted, Admits,
      callVars, Kind, Guarded, Backing, Flow, TypeOK, RowTypes, OpTypes,
      Place, Result, Remote!TypeOK, Remote!Verdict
<1>2. ASSUME NEW o \in Op, AcquireLease(o)
       PROVE  Backing'
  <2>1. \A l \in Op : leases'[l].state # "absent" =>
            leases[l].state # "absent" \/ (l = o /\ pc'[o] = "recording")
    BY <1>2 DEF AcquireLease, Settles, Fails, Open, TypeOK, RowTypes, OpTypes
  <2>2. kind[o] = "acquire" /\ UNCHANGED <<kind, arg, phase, claims>>
    BY <1>2 DEF AcquireLease, Flow, callVars
  <2>3. \A p \in Op \ {o} : pc'[p] = pc[p] /\ res'[p] = res[p]
    BY <1>2 DEF AcquireLease, Settles, Fails, TypeOK, OpTypes
  <2>4. pc'[o] = "recording"
    BY <1>2 DEF AcquireLease, Settles, Fails, TypeOK, OpTypes
  <2>5. \A l \in Op : leases[l].state # "absent" =>
            /\ leases'[l].state # "absent"
            /\ leases'[l].device = leases[l].device
            /\ leases'[l].owner = leases[l].owner
            /\ leases[l].state = "released" => leases'[l].state = "released"
    BY RowsKept
  <2>6. QED
    BY <2>1, <2>2, <2>3, <2>4, <2>5 DEF Backing, Flow
<1>3. ASSUME NEW o \in Op, ValidateLease(o)
       PROVE  Backing'
  BY <1>3 DEF ValidateLease, Goes, Settles, Fails, Valid, callVars, Backing,
      Flow, TypeOK, RowTypes, OpTypes, Place, Result, Remote!TypeOK,
      Remote!Verdict
<1>4. ASSUME NEW o \in Op, ReleaseReads(o)
       PROVE  Backing'
  BY <1>4 DEF ReleaseReads, Goes, Settles, Fails, callVars, Backing, Flow,
      TypeOK, RowTypes, OpTypes, Place, Result, Remote!TypeOK,
      Remote!Verdict
<1>5. ASSUME NEW o \in Op, ReleaseWrites(o)
       PROVE  Backing'
  <2>1. \A l \in Op : leases'[l].state # "absent" => leases[l].state # "absent"
    BY <1>5 DEF ReleaseWrites, Releasable, TypeOK, RowTypes
  <2>2. /\ kind[o] = "release" /\ arg[o].lease \in Op
        /\ UNCHANGED <<kind, arg, phase, claims>>
    BY <1>5 DEF ReleaseWrites, Flow, Backing, callVars
  <2>3. \A p \in Op \ {o} : pc'[p] = pc[p] /\ res'[p] = res[p]
    BY <1>5 DEF ReleaseWrites, Settles, Fails, TypeOK, OpTypes
  <2>4. pc'[o] = "recording" /\ pc[o] = "freeing"
    BY <1>5 DEF ReleaseWrites, Settles, Fails, TypeOK, OpTypes
  <2>5. res'[o] = "SUCCESS" => leases'[arg[o].lease].state = "released"
    BY <1>5, <2>2, ReleasedType
    DEF ReleaseWrites, Settles, Fails, TypeOK, RowTypes, OpTypes
  <2>6. \A l \in Op : leases[l].state # "absent" =>
            /\ leases'[l].state # "absent"
            /\ leases'[l].device = leases[l].device
            /\ leases'[l].owner = leases[l].owner
            /\ leases[l].state = "released" => leases'[l].state = "released"
    BY RowsKept
  <2>7. QED
    BY <2>1, <2>2, <2>3, <2>4, <2>5, <2>6 DEF Backing, Flow
<1>6. ASSUME NEW o \in Op, ClaimRequest(o)
       PROVE  Backing'
  BY <1>6 DEF ClaimRequest, Goes, Settles, Fails, Unclaimed, callVars,
      Backing, Flow, TypeOK, RowTypes, OpTypes, Place, Result,
      Remote!TypeOK, Remote!Verdict
<1>7. ASSUME NEW o \in Op, Dispatch(o)
       PROVE  Backing'
  BY <1>7 DEF Dispatch, Goes, Settles, Remote!Issue, Remote!Return,
      Remote!Verdict, Backing, Flow, TypeOK, RowTypes, OpTypes, Place,
      Result, Remote!TypeOK
<1>8. ASSUME NEW o \in Op, AgentExecutes(o)
       PROVE  Backing'
  BY <1>8 DEF AgentExecutes, Remote!Execute, opVars, Backing, Flow, TypeOK,
      RowTypes, OpTypes, Place, Result, Remote!TypeOK, Remote!Verdict
<1>9. ASSUME NEW o \in Op, Returns(o)
       PROVE  Backing'
  BY <1>9 DEF Returns, Settles, Successful, Remote!Return, Remote!Verdict,
      Backing, Flow, TypeOK, RowTypes, OpTypes, Place, Result, Remote!TypeOK
<1>10. ASSUME NEW o \in Op, Record(o)
       PROVE  Backing'
  BY <1>10 DEF Record, Ends, callVars, Backing, Flow, TypeOK, RowTypes,
      OpTypes, Place, Result, Remote!TypeOK, Remote!Verdict
<1>11. ASSUME NEW o \in Op, CancelOp(o)
       PROVE  Backing'
  BY <1>11 DEF CancelOp, Ends, callVars, Remote!Return, Remote!Verdict,
      Backing, Flow, TypeOK, RowTypes, OpTypes, Place, Result, Remote!TypeOK
<1>12. ASSUME Crash
       PROVE  Backing'
  BY <1>12 DEF Crash, Remote!LoseAll, Remote!Verdict, Backing, Flow, TypeOK,
      RowTypes, OpTypes, Place, Result, Remote!TypeOK
<1>13. ASSUME NEW d \in Device, SetLevel(d)
       PROVE  Backing'
  BY <1>13 DEF SetLevel, opVars, callVars, Backing, Flow, TypeOK, RowTypes,
      OpTypes, Place, Result, Remote!TypeOK, Remote!Verdict
<1>14. ASSUME Tick
       PROVE  Backing'
  BY <1>14 DEF Tick, opVars, callVars, Backing, Flow, TypeOK, RowTypes,
      OpTypes, Place, Result, Remote!TypeOK, Remote!Verdict
<1>15. ASSUME UNCHANGED vars
       PROVE  Backing'
  BY <1>15 DEF vars, opVars, callVars, Backing, Flow, TypeOK, RowTypes,
      OpTypes, Place, Result, Remote!TypeOK, Remote!Verdict
<1>16. QED
  BY <1>1, <1>2, <1>3, <1>4, <1>5, <1>6, <1>7, <1>8, <1>9, <1>10, <1>11,
      <1>12, <1>13, <1>14, <1>15 DEF Next, OpStep

\* Of several releases of one lease one succeeds: the second finds the lease
\* released, by Backing.
LEMMA ReleasedStep ==
    ASSUME TypeOK, Flow, Backing, ReleasedOnce, [Next]_vars
    PROVE  ReleasedOnce'
<1>1. ASSUME NEW o \in Op, Authorize(o)
       PROVE  ReleasedOnce'
  <2>1. kind'[o] = "release" => res'[o] # "SUCCESS"
    BY <1>1 DEF Authorize, Goes, Settles, Fails, Flow, TypeOK, OpTypes, Result
  <2>2. \A p \in Op \ {o} : kind'[p] = kind[p] /\ arg'[p] = arg[p] /\ res'[p] = res[p]
    BY <1>1 DEF Authorize, Goes, Settles, Fails, TypeOK, OpTypes
  <2>3. QED
    BY <2>1, <2>2 DEF ReleasedOnce, TypeOK
<1>2. ASSUME NEW o \in Op, AcquireLease(o)
       PROVE  ReleasedOnce'
  BY <1>2 DEF AcquireLease, Settles, Fails, Open, Expired, Released,
      callVars, Backing, ReleasedOnce, Flow, TypeOK, RowTypes, OpTypes,
      Place, Result, Remote!TypeOK, Remote!Verdict
<1>3. ASSUME NEW o \in Op, ValidateLease(o)
       PROVE  ReleasedOnce'
  BY <1>3 DEF ValidateLease, Goes, Settles, Fails, Valid, callVars, Backing,
      ReleasedOnce, Flow, TypeOK, RowTypes, OpTypes, Place, Result,
      Remote!TypeOK, Remote!Verdict
<1>4. ASSUME NEW o \in Op, ReleaseReads(o)
       PROVE  ReleasedOnce'
  BY <1>4 DEF ReleaseReads, Goes, Settles, Fails, callVars, Backing,
      ReleasedOnce, Flow, TypeOK, RowTypes, OpTypes, Place, Result,
      Remote!TypeOK, Remote!Verdict
<1>5. ASSUME NEW o \in Op, ReleaseWrites(o)
       PROVE  ReleasedOnce'
  BY <1>5 DEF ReleaseWrites, Settles, Fails, Releasable, callVars, Backing,
      ReleasedOnce, Flow, TypeOK, RowTypes, OpTypes, Place, Result,
      Remote!TypeOK, Remote!Verdict
<1>6. ASSUME NEW o \in Op, ClaimRequest(o)
       PROVE  ReleasedOnce'
  BY <1>6 DEF ClaimRequest, Goes, Settles, Fails, Unclaimed, callVars,
      Backing, ReleasedOnce, Flow, TypeOK, RowTypes, OpTypes, Place, Result,
      Remote!TypeOK, Remote!Verdict
<1>7. ASSUME NEW o \in Op, Dispatch(o)
       PROVE  ReleasedOnce'
  BY <1>7 DEF Dispatch, Goes, Settles, Remote!Issue, Remote!Return,
      Remote!Verdict, Backing, ReleasedOnce, Flow, TypeOK, RowTypes,
      OpTypes, Place, Result, Remote!TypeOK
<1>8. ASSUME NEW o \in Op, AgentExecutes(o)
       PROVE  ReleasedOnce'
  BY <1>8 DEF AgentExecutes, Remote!Execute, opVars, Backing, ReleasedOnce,
      Flow, TypeOK, RowTypes, OpTypes, Place, Result, Remote!TypeOK,
      Remote!Verdict
<1>9. ASSUME NEW o \in Op, Returns(o)
       PROVE  ReleasedOnce'
  <2>1. kind[o] # "release"
    BY <1>9 DEF Returns, Flow
  <2>2. \A p \in Op \ {o} : res'[p] = res[p]
    BY <1>9 DEF Returns, Settles, TypeOK, OpTypes
  <2>3. QED
    BY <1>9, <2>1, <2>2 DEF Returns, ReleasedOnce
<1>10. ASSUME NEW o \in Op, Record(o)
       PROVE  ReleasedOnce'
  BY <1>10 DEF Record, Ends, callVars, Backing, ReleasedOnce, Flow, TypeOK,
      RowTypes, OpTypes, Place, Result, Remote!TypeOK, Remote!Verdict
<1>11. ASSUME NEW o \in Op, CancelOp(o)
       PROVE  ReleasedOnce'
  BY <1>11 DEF CancelOp, Ends, callVars, Remote!Return, Remote!Verdict,
      Backing, ReleasedOnce, Flow, TypeOK, RowTypes, OpTypes, Place, Result,
      Remote!TypeOK
<1>12. ASSUME Crash
       PROVE  ReleasedOnce'
  BY <1>12 DEF Crash, Remote!LoseAll, Remote!Verdict, Backing, ReleasedOnce,
      Flow, TypeOK, RowTypes, OpTypes, Place, Result, Remote!TypeOK
<1>13. ASSUME NEW d \in Device, SetLevel(d)
       PROVE  ReleasedOnce'
  BY <1>13 DEF SetLevel, opVars, callVars, Backing, ReleasedOnce, Flow,
      TypeOK, RowTypes, OpTypes, Place, Result, Remote!TypeOK,
      Remote!Verdict
<1>14. ASSUME Tick
       PROVE  ReleasedOnce'
  BY <1>14 DEF Tick, opVars, callVars, Backing, ReleasedOnce, Flow, TypeOK,
      RowTypes, OpTypes, Place, Result, Remote!TypeOK, Remote!Verdict
<1>15. ASSUME UNCHANGED vars
       PROVE  ReleasedOnce'
  BY <1>15 DEF vars, opVars, callVars, Backing, ReleasedOnce, Flow, TypeOK,
      RowTypes, OpTypes, Place, Result, Remote!TypeOK, Remote!Verdict
<1>16. QED
  BY <1>1, <1>2, <1>3, <1>4, <1>5, <1>6, <1>7, <1>8, <1>9, <1>10, <1>11,
      <1>12, <1>13, <1>14, <1>15 DEF Next, OpStep

\* The inductive invariant holds at the start ...
LEMMA InitInvariant ==
    Init => IInv
BY DEF Init, IInv, TypeOK, RowTypes, OpTypes, LeaseTypes, ArgTypes, NoLease, NoArgs,
    Place, Result, Kind, Remote!Init, Remote!TypeOK, Remote!Verdict, Flow, Backing,
    LeaseExclusive, ExpiredIsNoObstacle, ReleasedOnce

\* ... and in every reachable state.
THEOREM Invariance == Spec => []IInv
<1>1. IInv /\ [Next]_vars => IInv'
  BY TypeStep, FlowStep, BackingStep, LeaseStep, ObstacleStep, ReleasedStep DEF IInv
<1>2. QED
  BY InitInvariant, <1>1, PTL DEF Spec

\* Every variable keeps its type, and no operation records without a result.
THEOREM TypeCorrect == Spec => []TypeOK
<1>1. IInv => TypeOK
  BY DEF IInv
<1>2. QED
  BY Invariance, <1>1, PTL

\* LeaseService.acquire never leaves a device with two unreleased leases.
THEOREM LeaseExclusivity == Spec => []LeaseExclusive
<1>1. IInv => LeaseExclusive
  BY DEF IInv
<1>2. QED
  BY Invariance, <1>1, PTL

\* An acquisition never fails on an expired lease that nobody released.
THEOREM NoObstacle == Spec => []ExpiredIsNoObstacle
<1>1. IInv => ExpiredIsNoObstacle
  BY DEF IInv
<1>2. QED
  BY Invariance, <1>1, PTL

\* Of several releases of one lease one succeeds.
THEOREM OneRelease == Spec => []ReleasedOnce
<1>1. IInv => ReleasedOnce
  BY DEF IInv
<1>2. QED
  BY Invariance, <1>1, PTL

\* mutate() sends only under a lease its caller acquired on the device.
THEOREM SentWithLease == Spec => []SentUnderOwnLease
<1>1. IInv => SentUnderOwnLease
  BY DEF IInv, Backing, SentUnderOwnLease
<1>2. QED
  BY Invariance, <1>1, PTL

\* What the audit calls a success was executed; what it calls a denial was not.
THEOREM FaithfulAudit == Spec => []AuditIsFaithful
<1>1. IInv => AuditIsFaithful
  <2>1. SUFFICES ASSUME IInv, NEW o \in Op
                 PROVE  /\ (audit[o] = "SUCCESS" /\ kind[o] \in {"read", "mutate"}) => runs[o] = 1
                        /\ audit[o] = "DENIED" => phase[o] = "idle" /\ runs[o] = 0
    BY DEF AuditIsFaithful
  <2>2. QED
    BY <2>1 DEF IInv, Flow
<1>2. QED
  BY Invariance, <1>1, PTL

\* A lease ends by expiring or by its owner's release.
THEOREM LeasesAreKept == Spec => LeaseKept
<1> DEFINE Kept == \A l \in Op :
        (leases[l].state = "open" /\ leases'[l].state = "released") =>
            \/ leases[l].expires <= clock
            \/ \E o \in Op : /\ pc[o] = "freeing" /\ pc'[o] = "recording"
                             /\ arg[o].lease = l /\ arg[o].owner = leases[l].owner
<1>1. IInv /\ [Next]_vars => Kept
  <2>1. SUFFICES ASSUME IInv, [Next]_vars, NEW l \in Op,
                        leases[l].state = "open", leases'[l].state = "released"
                 PROVE  \/ leases[l].expires <= clock
                        \/ \E o \in Op : /\ pc[o] = "freeing" /\ pc'[o] = "recording"
                                         /\ arg[o].lease = l /\ arg[o].owner = leases[l].owner
    OBVIOUS
  <2>2. ASSUME NEW o \in Op, AcquireLease(o)
        PROVE  leases[l].expires <= clock
    <3>1. leases[l].expires <= stamp[o]
      BY <2>1, <2>2 DEF AcquireLease, Expired
    <3>2. stamp[o] <= clock /\ stamp[o] \in Nat /\ clock \in Nat /\ leases[l].expires \in Nat
      BY <2>1 DEF IInv, Flow, TypeOK, RowTypes, OpTypes, LeaseTypes
    <3>3. QED
      BY <3>1, <3>2
  <2>3. ASSUME NEW o \in Op, ReleaseWrites(o)
        PROVE  /\ pc[o] = "freeing" /\ pc'[o] = "recording"
               /\ arg[o].lease = l /\ arg[o].owner = leases[l].owner
    <3>1. arg[o].lease = l
      BY <2>1, <2>3 DEF ReleaseWrites, IInv, TypeOK, RowTypes
    <3>2. pc[o] = "freeing" /\ pc'[o] = "recording"
      BY <2>1, <2>3 DEF ReleaseWrites, Settles, Fails, IInv, TypeOK, OpTypes
    <3>3. arg[o].owner = leases[l].owner
      BY <2>1, <3>1, <3>2 DEF IInv, Flow, Backing
    <3>4. QED
      BY <3>1, <3>2, <3>3
  <2>4. QED
    BY <2>1, <2>2, <2>3, LeaseWriters
<1>2. QED
  BY Invariance, <1>1, PTL DEF Spec, LeaseKept

\* The effects under a request id, for Admission.
Effects(r) == {o \in Op : kind[o] = "mutate" /\ arg[o].request = r /\ runs[o] > 0}

\* An attempt that executes is the first under its request id: it holds the claim.
LEMMA ExecuteRefines ==
    ASSUME IInv, NEW o \in Op, AgentExecutes(o)
    PROVE  [Guard!Next]_Guard!admissionVars
<1>1. /\ runs' = [runs EXCEPT ![o] = 1] /\ runs[o] = 0 /\ phase[o] # "idle"
      /\ UNCHANGED <<kind, arg, claims>>
  BY DEF AgentExecutes, Remote!Execute, opVars
<1>2. runs \in [Op -> 0..1]
  BY DEF IInv, TypeOK, Remote!TypeOK
<1>3. CASE kind[o] # "mutate"
  <2>1. \A r \in Request : Effects(r)' = Effects(r)
    BY <1>1, <1>2, <1>3 DEF Effects
  <2>2. QED
    BY <1>1, <2>1 DEF Guard!admissionVars, Effects
<1>4. CASE kind[o] = "mutate"
  <2>1. PICK r \in Request : r = arg[o].request /\ claims[r] = o
    BY <1>1, <1>4 DEF IInv, Flow, Backing
  <2>2. Effects(r) = {}
    BY <1>1, <2>1 DEF IInv, Flow, Backing, Effects
  <2>3. Effects(r)' = {o}
    BY <1>1, <1>2, <1>4, <2>1, <2>2 DEF Effects
  <2>4. \A s \in Request \ {r} : Effects(s)' = Effects(s)
    BY <1>1, <1>2, <2>1 DEF Effects
  <2>5. [q \in Request |-> Effects(q)'] = [[q \in Request |-> Effects(q)] EXCEPT ![r] = {o}]
    BY <2>3, <2>4
  <2>6. Guard!Effect(r)
    <3>1. claims[r] # None
      BY <2>1, OperationsAssumption
    <3>2. {q \in Request : claims'[q] # None} = {q \in Request : claims[q] # None}
      BY <1>1
    <3>3. QED
      BY <2>2, <2>5, <3>1, <3>2 DEF Guard!Effect, Effects
  <2>7. QED
    BY <2>6 DEF Guard!Next
<1>5. QED
  BY <1>3, <1>4

\* A claim spends its request id; every other step leaves the ids and the
\* effects alone.
LEMMA StepRefines ==
    ASSUME IInv, [Next]_vars
    PROVE  [Guard!Next]_Guard!admissionVars
<1>1. ASSUME NEW o \in Op, ClaimRequest(o)
       PROVE  [Guard!Next]_Guard!admissionVars
  <2>1. UNCHANGED <<kind, arg, runs>>
    BY <1>1 DEF ClaimRequest, callVars
  <2>2. CASE UNCHANGED claims
    BY <2>1, <2>2 DEF Guard!admissionVars
  <2>3. CASE claims' # claims
    <3>1. PICK r \in Request : r = arg[o].request /\ claims[r] = None
      BY <1>1, <2>3 DEF ClaimRequest, Unclaimed, IInv, Flow, Backing
    <3>2. claims' = [claims EXCEPT ![r] = o] /\ claims \in [Request -> Op \cup {None}]
      BY <1>1, <2>3, <3>1 DEF ClaimRequest, IInv, TypeOK, RowTypes
    <3>3. o # None
      BY OperationsAssumption
    <3>4. {q \in Request : claims'[q] # None} = {q \in Request : claims[q] # None} \cup {r}
      BY <3>1, <3>2, <3>3
    <3>5. Guard!Spend(r)
      BY <2>1, <3>1, <3>4 DEF Guard!Spend
    <3>6. QED
      BY <3>5 DEF Guard!Next
  <2>4. QED
    BY <2>2, <2>3
<1>2. ASSUME NEW o \in Op, AgentExecutes(o)
       PROVE  [Guard!Next]_Guard!admissionVars
  BY <1>2, ExecuteRefines
<1>3. ASSUME NEW o \in Op, Authorize(o)
       PROVE  UNCHANGED Guard!admissionVars
  <2>1. runs[o] = 0 /\ UNCHANGED <<claims, runs>>
    BY <1>3 DEF Authorize, callVars, IInv, Flow, TypeOK, Remote!TypeOK
  <2>2. \A p \in Op \ {o} : kind'[p] = kind[p] /\ arg'[p] = arg[p]
    BY <1>3 DEF Authorize, IInv, TypeOK
  <2>3. \A r \in Request : Effects(r)' = Effects(r)
    BY <2>1, <2>2 DEF Effects
  <2>4. QED
    BY <2>1, <2>3 DEF Guard!admissionVars, Effects
<1>4. CASE UNCHANGED <<kind, arg, claims, runs>>
  BY <1>4 DEF Guard!admissionVars
<1>5. \/ \E o \in Op : ClaimRequest(o) \/ AgentExecutes(o) \/ Authorize(o)
      \/ UNCHANGED <<kind, arg, claims, runs>>
  BY DEF Next, OpStep, vars, opVars, callVars, AcquireLease, ValidateLease, ReleaseReads,
      ReleaseWrites, Dispatch, Returns, Record, CancelOp, Crash, SetLevel, Tick,
      Remote!Issue, Remote!Return, Remote!LoseAll
<1>6. QED
  BY <1>1, <1>2, <1>3, <1>4, <1>5

\* The replay guard keeps its promise: a mutation's request id is spent once,
\* before its dispatch, and has at most one effect.
THEOREM AdmissionRefined == Spec => ImplementsAdmission
<1>1. Init => Guard!Init
  BY DEF Init, Remote!Init, Guard!Init
<1>2. IInv /\ [Next]_vars => [Guard!Next]_Guard!admissionVars
  BY StepRefines
<1>3. QED
  BY Invariance, <1>1, <1>2, PTL DEF Spec, ImplementsAdmission, Guard!Spec

-----------------------------------------------------------------------------
(* Corollaries of the invariant.                                           *)

\* Two mutations under one request id never both reach an Agent, whatever was
\* retried, cancelled or lost in between.
OneEffectPerRequest ==
    \A o, p \in Op :
        (kind[o] = "mutate" /\ kind[p] = "mutate" /\ arg[o].request = arg[p].request
            /\ runs[o] > 0 /\ runs[p] > 0) => o = p

\* The claim of RequestReplayGuard, made before dispatch, tells them apart.
THEOREM OneEffect == Spec => []OneEffectPerRequest
<1>1. IInv => OneEffectPerRequest
  <2> SUFFICES ASSUME IInv, NEW o \in Op, NEW p \in Op,
                      kind[o] = "mutate", kind[p] = "mutate",
                      arg[o].request = arg[p].request, runs[o] > 0, runs[p] > 0
               PROVE  o = p
    BY DEF OneEffectPerRequest
  <2>1. phase[o] # "idle" /\ phase[p] # "idle"
    BY DEF IInv, Flow, TypeOK, Remote!TypeOK
  <2>2. claims[arg[o].request] = o /\ claims[arg[p].request] = p
    BY <2>1 DEF IInv, Backing
  <2> QED BY <2>2
<1> QED BY Invariance, <1>1, PTL

\* A spent request id stays spent, by the same operation: no error path, crash
\* or restart gives it back.
ClaimsKept == \A r \in Request : claims[r] # None => claims'[r] = claims[r]
ClaimsArePermanent == [][ClaimsKept]_vars

\* request_claims is written by one insert and by nothing else.
THEOREM ClaimsAreFinal == Spec => ClaimsArePermanent
<1>1. IInv /\ [Next]_vars => ClaimsKept
  <2> SUFFICES ASSUME IInv, [Next]_vars
               PROVE  ClaimsKept
    OBVIOUS
  <2>1. ASSUME NEW o \in Op, ClaimRequest(o)
        PROVE  ClaimsKept
    BY <2>1 DEF ClaimRequest, Unclaimed, ClaimsKept, IInv, TypeOK, RowTypes
  <2>2. UNCHANGED claims \/ \E o \in Op : ClaimRequest(o)
    BY DEF Next, OpStep, vars, opVars, Authorize, AcquireLease, ValidateLease, ReleaseReads,
        ReleaseWrites, Dispatch, AgentExecutes, Returns, Record, CancelOp, Crash,
        SetLevel, Tick
  <2> QED BY <2>1, <2>2 DEF ClaimsKept
<1> QED BY Invariance, <1>1, PTL DEF Spec, ClaimsArePermanent

\* The rows of leases are history: a lease keeps its device, its owner and its
\* end, and a released one is never opened again.
LeaseRowKept(l) ==
    leases[l].state # "absent" => leases'[l] \in {leases[l], Released(leases[l])}
LeaseRowsStand == [][\A l \in Op : LeaseRowKept(l)]_vars

\* acquire() writes rows of its own and retires; release() sets released_at.
THEOREM LeaseRowsAreHistory == Spec => LeaseRowsStand
<1>1. IInv /\ [Next]_vars => \A l \in Op : LeaseRowKept(l)
  <2> SUFFICES ASSUME IInv, [Next]_vars, NEW l \in Op, leases[l].state # "absent"
               PROVE  leases'[l] \in {leases[l], Released(leases[l])}
    BY DEF LeaseRowKept
  <2>1. ASSUME NEW o \in Op, AcquireLease(o)
        PROVE  leases'[l] \in {leases[l], Released(leases[l])}
    <3>1. l # o
      BY <2>1 DEF AcquireLease, IInv, Backing
    <3> QED BY <2>1, <3>1 DEF AcquireLease
  <2>2. ASSUME NEW o \in Op, ReleaseWrites(o)
        PROVE  leases'[l] \in {leases[l], Released(leases[l])}
    BY <2>2 DEF ReleaseWrites, IInv, TypeOK, RowTypes
  <2> QED BY <2>1, <2>2, LeaseWriters
<1> QED BY Invariance, <1>1, PTL DEF Spec, LeaseRowsStand

\* How far MutationUnderLease holds: a mutation whose own lease is still
\* unreleased is dispatched while no other lease of its device is.  The second
\* lease of a counterexample can exist only once the first was retired between
\* validate() and execute().
DispatchesUnderOpenLease(o, l) ==
    (kind[o] = "mutate" /\ phase[o] = "idle" /\ phase'[o] = "open"
        /\ leases[arg[o].lease].state = "open" /\ l # arg[o].lease) =>
            ~(leases[l].state = "open" /\ leases[l].device = arg[o].device)
MutationUnderItsLease == [][\A o, l \in Op : DispatchesUnderOpenLease(o, l)]_vars

\* An operation's request opens when it is dispatched.
LEMMA OpensByDispatch ==
  ASSUME IInv, [Next]_vars, NEW o \in Op, phase[o] = "idle", phase'[o] = "open"
  PROVE  Dispatch(o)
<1> USE DEF IInv, TypeOK, Remote!TypeOK
<1>1. UNCHANGED phase \/ Crash \/ \E p \in Op : Dispatch(p) \/ Returns(p) \/ CancelOp(p)
  BY DEF Next, OpStep, vars, opVars, callVars, Authorize, AcquireLease, ValidateLease,
      ReleaseReads, ReleaseWrites, ClaimRequest, AgentExecutes, Record, SetLevel, Tick,
      Remote!Execute
<1>2. ~Crash
  BY DEF Crash, Remote!LoseAll
<1>3. ASSUME NEW p \in Op, Returns(p) \/ CancelOp(p)
      PROVE  FALSE
  BY <1>3 DEF Returns, CancelOp, Remote!Return, callVars
<1>4. ASSUME NEW p \in Op, Dispatch(p)
      PROVE  p = o
  BY <1>4 DEF Dispatch, Remote!Issue, Remote!Return
<1> QED BY <1>1, <1>2, <1>3, <1>4

\* mutate() validates its lease, and leases of a device exclude each other.
THEOREM MutationsUnderOpenLeases == Spec => MutationUnderItsLease
<1>1. IInv /\ [Next]_vars => \A o, l \in Op : DispatchesUnderOpenLease(o, l)
  <2> SUFFICES ASSUME IInv, [Next]_vars, NEW o \in Op, NEW l \in Op,
                      kind[o] = "mutate", phase[o] = "idle", phase'[o] = "open",
                      leases[arg[o].lease].state = "open", l # arg[o].lease,
                      leases[l].state = "open", leases[l].device = arg[o].device
               PROVE  FALSE
    BY DEF DispatchesUnderOpenLease
  <2>1. pc[o] = "executing"
    BY OpensByDispatch DEF Dispatch
  <2>2. arg[o].lease \in Op /\ leases[arg[o].lease].device = arg[o].device
    BY <2>1 DEF IInv, Backing
  <2> QED BY <2>2 DEF IInv, LeaseExclusive
<1> QED BY Invariance, <1>1, PTL DEF Spec, MutationUnderItsLease

-----------------------------------------------------------------------------
(* The end of an operation.                                                *)

\* An audit event belongs to an operation that is over, and so does no open
\* request.
OverIsOver ==
    \A o \in Op :
        /\ audit[o] # "none" => pc[o] = "done"
        /\ pc[o] \in {"recording", "done"} => phase[o] # "open"

\* What an operation that is over leaves as it is.
EndKept ==
    \A o \in Op : pc[o] = "done" =>
        /\ pc'[o] = "done" /\ audit'[o] = audit[o] /\ phase'[o] = phase[o]
        /\ phase[o] = "idle" => runs'[o] = 0

\* The end of an operation is final: its audit event is never rewritten or added
\* later, and a request that was not sent by then is never executed.
EndIsFinal == [][EndKept]_vars

\* Each step keeps both.
LEMMA OverStep ==
  ASSUME IInv, OverIsOver, [Next]_vars
  PROVE  OverIsOver' /\ EndKept
<1> USE DEF IInv, TypeOK, RowTypes, OpTypes, Remote!TypeOK, OverIsOver, EndKept
<1>1. ASSUME NEW o \in Op
      PROVE  phase[o] = "idle" => runs[o] = 0
  BY DEF Flow
<1>2. ASSUME NEW o \in Op, Authorize(o) \/ AcquireLease(o) \/ ValidateLease(o)
             \/ ReleaseReads(o) \/ ReleaseWrites(o) \/ ClaimRequest(o)
      PROVE  /\ phase[o] = "idle" /\ pc[o] # "done"
             /\ pc' = [pc EXCEPT ![o] = pc'[o]] /\ pc'[o] # "done"
             /\ UNCHANGED <<audit, callVars>>
  <2>1. phase[o] = "idle"
    BY <1>2 DEF Flow, Authorize, AcquireLease, ValidateLease, ReleaseReads, ReleaseWrites,
        ClaimRequest
  <2> QED
    BY <1>2, <2>1 DEF Authorize, AcquireLease, ValidateLease, ReleaseReads, ReleaseWrites,
        ClaimRequest, Goes, Settles, Fails, Stage
<1>3. ASSUME NEW o \in Op, phase[o] = "idle", pc[o] # "done", pc' = [pc EXCEPT ![o] = pc'[o]],
             pc'[o] # "done", UNCHANGED <<audit, callVars>>
      PROVE  OverIsOver' /\ EndKept
  BY <1>1, <1>3 DEF callVars
<1>4. ASSUME NEW o \in Op, Dispatch(o)
      PROVE  OverIsOver' /\ EndKept
  BY <1>1, <1>4 DEF Dispatch, Goes, Settles, Remote!Issue, Remote!Return
<1>5. ASSUME NEW o \in Op, AgentExecutes(o)
      PROVE  OverIsOver' /\ EndKept
  BY <1>1, <1>5 DEF AgentExecutes, Remote!Execute, opVars
<1>6. ASSUME NEW o \in Op, Returns(o)
      PROVE  OverIsOver' /\ EndKept
  BY <1>1, <1>6 DEF Returns, Settles, Remote!Return
<1>7. ASSUME NEW o \in Op, Record(o)
      PROVE  OverIsOver' /\ EndKept
  BY <1>1, <1>7 DEF Record, Ends, callVars, Flow
<1>8. ASSUME NEW o \in Op, CancelOp(o)
      PROVE  OverIsOver' /\ EndKept
  BY <1>1, <1>8 DEF CancelOp, Ends, callVars, Remote!Return, Flow
<1>9. CASE Crash
  BY <1>1, <1>9 DEF Crash, Remote!LoseAll
<1>10. CASE UNCHANGED <<audit, pc, callVars>>
  BY <1>1, <1>10 DEF callVars
<1>11. \/ UNCHANGED <<audit, pc, callVars>> \/ Crash
       \/ \E o \in Op : OpStep(o) \/ AgentExecutes(o) \/ CancelOp(o)
  BY DEF Next, vars, opVars, SetLevel, Tick
<1> QED BY <1>2, <1>3, <1>4, <1>5, <1>6, <1>7, <1>8, <1>9, <1>10, <1>11 DEF OpStep

\* Whichever of the answer, a cancellation and the end of the process comes
\* first, an operation ends once.
THEOREM EndsAreFinal == Spec => EndIsFinal
<1>1. Init => OverIsOver
  BY DEF Init, OverIsOver
<1>2. IInv /\ OverIsOver /\ [Next]_vars => OverIsOver' /\ [EndKept]_vars
  BY OverStep
<1> QED BY Invariance, <1>1, <1>2, PTL DEF Spec, EndIsFinal

-----------------------------------------------------------------------------
(* Composition with the registry.                                          *)

\* An operation asks of its request what RemoteCall promises, and no more.
LEMMA RemoteStep ==
  ASSUME IInv, [Next]_vars
  PROVE  [Remote!Next]_callVars
<1>1. ASSUME NEW o \in Op, AgentExecutes(o) \/ Dispatch(o) \/ Returns(o) \/ CancelOp(o)
      PROVE  [Remote!Next]_callVars
  <2>1. \/ UNCHANGED callVars \/ Remote!Execute(o) \/ Remote!Issue(o)
        \/ \E v \in {"result", "offline", "error", "cancelled"} : Remote!Return(o, v)
    BY <1>1 DEF AgentExecutes, Dispatch, Returns, CancelOp
  <2> QED BY <2>1 DEF Remote!Next, Remote!Verdict
<1>2. CASE Crash
  BY <1>2 DEF Crash, Remote!Next
<1>3. \/ UNCHANGED callVars \/ Crash
      \/ \E o \in Op : AgentExecutes(o) \/ Dispatch(o) \/ Returns(o) \/ CancelOp(o)
  BY DEF Next, OpStep, vars, Authorize, AcquireLease, ValidateLease, ReleaseReads,
      ReleaseWrites, ClaimRequest, Record, SetLevel, Tick
<1> QED BY <1>1, <1>2, <1>3

\* The requests of the operations follow RemoteCall, the interface that Registry
\* implements: no operation is executed twice, or after "offline", or answered
\* without having been executed, across cancellations and ends of the process.
THEOREM UsesRemoteCall == Spec => Remote!Spec
<1>1. Init => Remote!Init
  BY DEF Init
<1>2. IInv /\ [Next]_vars => [Remote!Next]_(Remote!callVars)
  BY RemoteStep DEF callVars, Remote!callVars
<1> QED BY Invariance, <1>1, <1>2, PTL DEF Spec, Remote!Spec

=============================================================================
