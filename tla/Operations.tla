----------------------------- MODULE Operations -----------------------------
(***************************************************************************)
(* The Gateway's operations (gateway/operations.py) with the mutation      *)
(* leases (gateway/leases.py), the replay guard (gateway/auth.py), the     *)
(* audit (gateway/audit.py), the rows behind them                          *)
(* (persistence/repositories.py) and the CLI commands that change a        *)
(* device's authority from another process.                                *)
(*                                                                         *)
(* An operation is one tool call, made once, in a task of its own.  Each   *)
(* of its transactions is an action: a transaction commits whole or rolls  *)
(* back, and between two of them other tasks, the clock and the CLI go on. *)
(* A SELECT opens no SQLite transaction, so a SELECT followed by an UPDATE *)
(* in one session is two actions.  A lease id is the operation that        *)
(* acquired it.  What happens between dispatch and answer is the promise   *)
(* of ConnectionRegistry.request, RemoteCall, which Registry implements.   *)
(*                                                                         *)
(* Left out: ids of no device (refused like a revoked one) or of no lease  *)
(* (refused like a foreign one; nobody guesses an id before it is given),  *)
(* and a request id that is not a UUID (the tool schemas admit none).      *)
(***************************************************************************)
EXTENDS Integers

CONSTANTS
    Device, Op, Owner, Request,
    None,           \* no row, no argument
    Ttl,            \* the lease durations callers ask for
    MaxTime         \* bound: ticks of the clock

ASSUME OperationsAssumption ==
    /\ None \notin Device \cup Op \cup Owner \cup Request
    /\ Ttl \subseteq Nat
    /\ MaxTime \in Nat

VARIABLES
    level,      \* what a device's status and permission_level admit
    leases,     \* the leases table
    claims,     \* the request_claims table, with the operation that claimed
    audit,      \* the audit event of each operation
    clock,
    pc, kind, arg,
    stamp,      \* the `now` an operation read before its transaction
    res,        \* the result it is about to record
    phase, runs, verdict    \* RemoteCall: the request each operation sends

opVars == <<pc, kind, arg, stamp, res>>
callVars == <<phase, runs, verdict>>
vars == <<level, leases, claims, audit, clock, opVars, callVars>>

Remote == INSTANCE RemoteCall WITH Call <- Op

\* list_devices, device_info, read, acquire_lease, release_lease, mutate.
Kind == {"list", "info", "read", "acquire", "release", "mutate"}
Guarded == {"acquire", "release", "mutate"}

Place == {"idle", "acquiring", "validating", "releasing", "freeing", "claiming",
          "executing", "awaiting", "recording", "done"}
\* CLASH is an ERROR whose error_type is IntegrityError.
Result == {"none", "SUCCESS", "DENIED", "ERROR", "CLASH"}

\* A revoked device admits nothing whatever its permission level, and
\* FULL_ACCESS admits what READ_WRITE does.
Level == {"REVOKED", "READ_ONLY", "READ_WRITE"}

Granted == {l \in Op : leases[l].state # "absent"}

\* What the tool of each kind passes on.
Args(k) ==
    [device : Device,
     owner : IF k \in Guarded THEN Owner ELSE {None},
     lease : IF k \in {"release", "mutate"} THEN Granted ELSE {None},
     request : IF k = "mutate" THEN Request ELSE {None},
     ttl : IF k = "acquire" THEN Ttl ELSE {0}]

NoArgs == [device |-> None, owner |-> None, lease |-> None, request |-> None, ttl |-> 0]
NoLease == [state |-> "absent", device |-> None, owner |-> None, expires |-> 0]

-----------------------------------------------------------------------------
(* Helpers.  A definition marked "fault:" is a seeded mistake that a        *)
(* property must reject; no action uses it.                                *)

\* On to the next transaction; those on leases read the clock before they begin.
Goes(o, place) ==
    /\ pc' = [pc EXCEPT ![o] = place]
    /\ stamp' = [stamp EXCEPT ![o] =
                   IF place \in {"acquiring", "validating"} THEN clock ELSE 0]
    /\ UNCHANGED res

\* fault: the error path records what the operation had before
SettlesUnset(o, result) ==
    pc' = [pc EXCEPT ![o] = "recording"] /\ stamp' = [stamp EXCEPT ![o] = 0] /\ UNCHANGED res
\* The operation has its result and goes on to record it.
Settles(o, result) ==
    /\ pc' = [pc EXCEPT ![o] = "recording"]
    /\ res' = [res EXCEPT ![o] = result]
    /\ stamp' = [stamp EXCEPT ![o] = 0]

\* A transaction fails and is rolled back: the error is recorded.
Fails(o) == Settles(o, "ERROR")

\* _authorize, but for the capability.
Admits(d, k) == level[d] \in (IF k \in Guarded THEN {"READ_WRITE"} ELSE Level \ {"REVOKED"})

\* Where an authorized operation goes next.
Stage(k) ==
    IF k = "read" THEN "executing" ELSE IF k = "acquire" THEN "acquiring" ELSE "validating"

\* fault: the slot is kept for each owner of a device
OpenForOwner(l, o) ==
    /\ leases[l].state = "open" /\ leases[l].device = arg[o].device
    /\ leases[l].owner = arg[o].owner
\* The rows the unique index holds against the acquisition o: the unreleased
\* leases of its device.
Open(l, o) == leases[l].state = "open" /\ leases[l].device = arg[o].device

\* fault: a lease that ends at this very moment is not retired
ExpiredStrictly(l, now) == leases[l].expires < now
\* fault: the retirement has no WHERE expires_at <= now
ExpiredAlways(l, now) == TRUE
Expired(l, now) == leases[l].expires <= now

\* The row with its released_at set.
Released(lease) ==
    [state |-> "released", device |-> lease.device, owner |-> lease.owner,
     expires |-> lease.expires]

-----------------------------------------------------------------------------
(* An operation, step by step.                                             *)

\* The call arrives and _authorize runs; list_devices needs none.  Whether the
\* device has the capability a read or a mutation needs was fixed at pairing:
\* either may be.
Authorize(o) ==
    /\ pc[o] = "idle"
    /\ \E k \in Kind : \E a \in Args(k) :
        /\ kind' = [kind EXCEPT ![o] = k]
        /\ arg' = [arg EXCEPT ![o] = a]
        /\ \/ k = "list" /\ Settles(o, "SUCCESS")
           \/ k = "info" /\ Admits(a.device, k) /\ Settles(o, "SUCCESS")
           \/ k \notin {"list", "info"} /\ Admits(a.device, k) /\ Goes(o, Stage(k))
           \/ /\ (k # "list" /\ ~Admits(a.device, k)) \/ k \in {"read", "mutate"}
              /\ Settles(o, "DENIED")
           \/ Fails(o)
    /\ UNCHANGED <<level, leases, claims, audit, clock, callVars>>

\* LeaseRepository.acquire, one transaction whose first statement is a write:
\* expired leases are retired, an active one is a conflict, the unique index
\* has the last word, and any refusal rolls the retirement back.
AcquireLease(o) ==
    LET now == stamp[o]
        retired == {l \in Op : Open(l, o) /\ Expired(l, now)}
        held == \E l \in Op \ retired : Open(l, o) /\ leases[l].expires > now
        clash == \E l \in Op \ retired : Open(l, o)
    IN
    /\ pc[o] = "acquiring"
    /\ \/ /\ arg[o].ttl > 0 /\ ~held /\ ~clash
          /\ leases' = [l \in Op |->
                IF l = o THEN [state |-> "open", device |-> arg[o].device,
                               owner |-> arg[o].owner, expires |-> now + arg[o].ttl]
                ELSE IF l \in retired THEN Released(leases[l])
                ELSE leases[l]]
          /\ Settles(o, "SUCCESS")
       \/ /\ arg[o].ttl > 0 /\ held
          /\ Settles(o, "DENIED") /\ UNCHANGED leases
       \/ /\ arg[o].ttl = 0 \/ (clash /\ ~held)
          /\ Settles(o, IF arg[o].ttl = 0 THEN "ERROR" ELSE "CLASH") /\ UNCHANGED leases
       \/ Fails(o) /\ UNCHANGED leases
    /\ UNCHANGED <<level, claims, audit, clock, kind, arg, callVars>>

\* fault: any caller may use a lease
ValidForAnyone(o) ==
    LET lease == leases[arg[o].lease] IN
    lease.state = "open" /\ lease.device = arg[o].device /\ lease.expires > stamp[o]
\* LeaseService.validate, at the moment read before the transaction.
Valid(o) ==
    LET lease == leases[arg[o].lease] IN
    /\ lease.state = "open" /\ lease.device = arg[o].device
    /\ lease.owner = arg[o].owner /\ lease.expires > stamp[o]

ValidateLease(o) ==
    /\ pc[o] = "validating"
    /\ \/ /\ Valid(o)
          /\ Goes(o, IF kind[o] = "release" THEN "releasing" ELSE "claiming")
       \/ ~Valid(o) /\ Settles(o, "DENIED")
       \/ Fails(o)
    /\ UNCHANGED <<level, leases, claims, audit, clock, kind, arg, callVars>>

\* LeaseService.release reads the lease once more ...
ReleaseReads(o) ==
    LET lease == leases[arg[o].lease] IN
    /\ pc[o] = "releasing"
    /\ \/ /\ lease.state = "open" /\ lease.owner = arg[o].owner
          /\ Goes(o, "freeing")
       \/ /\ ~(lease.state = "open" /\ lease.owner = arg[o].owner)
          /\ Settles(o, "DENIED")
       \/ Fails(o)
    /\ UNCHANGED <<level, leases, claims, audit, clock, kind, arg, callVars>>

\* fault: the update has no WHERE released_at IS NULL
ReleasableAlways(l) == TRUE
Releasable(l) == leases[l].state = "open"

\* ... and releases it, unless somebody else has.
ReleaseWrites(o) ==
    /\ pc[o] = "freeing"
    /\ \/ /\ Releasable(arg[o].lease)
          /\ leases' = [leases EXCEPT ![arg[o].lease] = Released(@)]
          /\ Settles(o, "SUCCESS")
       \/ /\ ~Releasable(arg[o].lease)
          /\ Settles(o, "DENIED") /\ UNCHANGED leases
       \/ Fails(o) /\ UNCHANGED leases
    /\ UNCHANGED <<level, claims, audit, clock, kind, arg, callVars>>

\* fault: an id is taken again once its claimant has ended
UnclaimedOrEnded(r) == \A o \in Op : claims[r] = o => pc[o] = "done"
Unclaimed(r) == claims[r] = None

\* RequestReplayGuard.claim: the insert succeeds once for each id.
ClaimRequest(o) ==
    /\ pc[o] = "claiming"
    /\ \/ /\ Unclaimed(arg[o].request)
          /\ claims' = [claims EXCEPT ![arg[o].request] = o]
          /\ Goes(o, "executing")
       \/ /\ ~Unclaimed(arg[o].request)
          /\ Settles(o, "DENIED") /\ UNCHANGED claims
       \/ Fails(o) /\ UNCHANGED claims
    /\ UNCHANGED <<level, leases, audit, clock, kind, arg, callVars>>

\* execute(): the request is handed to the registry, or its device is offline.
Dispatch(o) ==
    /\ pc[o] = "executing"
    /\ \/ Remote!Issue(o) /\ Goes(o, "awaiting")
       \/ Remote!Return(o, "offline") /\ Settles(o, "ERROR")
    /\ UNCHANGED <<level, leases, claims, audit, clock, kind, arg>>

\* The Agent carries the request out, perhaps long after its caller is gone.
AgentExecutes(o) ==
    /\ Remote!Execute(o)
    /\ UNCHANGED <<level, leases, claims, audit, clock, opVars>>

\* fault: a lost connection counts as an answer
SuccessfulOrLost == {"result", "error"}
Successful == {"result"}

\* The answer, which may be the Agent's own error, or a failure that leaves
\* open whether the request was executed; the kinds of failure are alike here.
Returns(o) ==
    /\ pc[o] = "awaiting"
    /\ \E v \in {"result", "offline", "error"} :
        /\ Remote!Return(o, v)
        /\ \/ v \in Successful /\ Settles(o, "SUCCESS")
           \/ Settles(o, "ERROR")
    /\ UNCHANGED <<level, leases, claims, audit, clock, kind, arg>>

Ends(o) ==
    /\ pc' = [pc EXCEPT ![o] = "done"]
    /\ stamp' = [stamp EXCEPT ![o] = 0]

\* The audit event is committed, and the caller gets its result or its error;
\* if that fails, the caller gets the database's error instead.
Record(o) ==
    /\ pc[o] = "recording"
    /\ Ends(o)
    /\ audit' = [audit EXCEPT ![o] = res[o]] \/ UNCHANGED audit
    /\ UNCHANGED <<level, leases, claims, clock, kind, arg, res, callVars>>

\* The task is cancelled: CancelledError is not an Exception, so nothing is
\* recorded.
CancelOp(o) ==
    /\ pc[o] \notin {"idle", "done"}
    /\ Ends(o)
    /\ IF pc[o] = "awaiting" THEN Remote!Return(o, "cancelled") ELSE UNCHANGED callVars
    /\ UNCHANGED <<level, leases, claims, audit, clock, kind, arg, res>>

-----------------------------------------------------------------------------
(* Around the operations.                                                  *)

\* The process ends, with every operation it was running, and is started again.
Crash ==
    /\ \E o \in Op : pc[o] \notin {"idle", "done"}
    /\ pc' = [o \in Op |-> IF pc[o] = "idle" THEN "idle" ELSE "done"]
    /\ stamp' = [o \in Op |-> 0]
    /\ Remote!LoseAll
    /\ UNCHANGED <<level, leases, claims, audit, clock, kind, arg, res>>

\* `devices revoke` and `devices set-permission`, which reads the row and then
\* writes the permission alone: a revocation in between stands.
SetLevel(d) ==
    /\ level[d] # "REVOKED"
    /\ \E new \in Level : level' = [level EXCEPT ![d] = new]
    /\ UNCHANGED <<leases, claims, audit, clock, opVars, callVars>>

Tick ==
    /\ clock < MaxTime /\ clock' = clock + 1
    /\ UNCHANGED <<level, leases, claims, audit, opVars, callVars>>

-----------------------------------------------------------------------------
Init ==
    /\ level \in [Device -> Level]
    /\ leases = [l \in Op |-> NoLease] /\ claims = [r \in Request |-> None]
    /\ audit = [o \in Op |-> "none"] /\ clock = 0
    /\ pc = [o \in Op |-> "idle"] /\ kind = [o \in Op |-> "list"]
    /\ arg = [o \in Op |-> NoArgs] /\ stamp = [o \in Op |-> 0]
    /\ res = [o \in Op |-> "none"]
    /\ Remote!Init

OpStep(o) ==
    \/ Authorize(o) \/ AcquireLease(o) \/ ValidateLease(o)
    \/ ReleaseReads(o) \/ ReleaseWrites(o) \/ ClaimRequest(o)
    \/ Dispatch(o) \/ Returns(o) \/ Record(o)

Next ==
    \/ \E o \in Op : OpStep(o) \/ AgentExecutes(o) \/ CancelOp(o)
    \/ \E d \in Device : SetLevel(d)
    \/ Crash \/ Tick

Spec == Init /\ [][Next]_vars

-----------------------------------------------------------------------------
(* Properties.                                                             *)

ArgTypes ==
    [device : Device \cup {None}, owner : Owner \cup {None}, lease : Op \cup {None},
     request : Request \cup {None}, ttl : Nat]

LeaseTypes ==
    [state : {"absent", "open", "released"}, device : Device \cup {None},
     owner : Owner \cup {None}, expires : Nat]

RowTypes ==
    /\ level \in [Device -> Level] /\ leases \in [Op -> LeaseTypes]
    /\ claims \in [Request -> Op \cup {None}]
    /\ audit \in [Op -> Result] /\ clock \in Nat

OpTypes ==
    /\ pc \in [Op -> Place] /\ res \in [Op -> Result] /\ stamp \in [Op -> Nat]
    /\ \A o \in Op : pc[o] = "recording" => res[o] # "none"

\* Every variable has its type, and an operation that records has a result.
TypeOK ==
    /\ RowTypes /\ OpTypes /\ Remote!TypeOK
    /\ kind \in [Op -> Kind] /\ arg \in [Op -> ArgTypes]

\* What an operation's place says of its request, its result and its kind: the
\* inductive part of the properties below.
Flow ==
    \A o \in Op :
        /\ pc[o] = "awaiting" => phase[o] = "open"
        /\ pc[o] \notin {"awaiting", "recording", "done"} => phase[o] = "idle"
        /\ pc[o] \notin {"recording", "done"} => res[o] = "none"
        /\ pc[o] = "acquiring" => kind[o] = "acquire"
        /\ pc[o] = "validating" => kind[o] \in {"release", "mutate"}
        /\ pc[o] \in {"releasing", "freeing"} => kind[o] = "release"
        /\ pc[o] = "claiming" => kind[o] = "mutate"
        /\ pc[o] \in {"executing", "awaiting"} => kind[o] \in {"read", "mutate"}
        /\ runs[o] # 0 => phase[o] # "idle"
        /\ res[o] = "DENIED" => phase[o] = "idle"
        /\ (res[o] = "SUCCESS" /\ kind[o] \in {"read", "mutate"}) => runs[o] = 1
        /\ audit[o] \in {"none", res[o]}
        /\ stamp[o] <= clock

\* The rows that stand behind an operation.
Backing ==
    \A o \in Op :
        /\ leases[o].state # "absent" =>
              kind[o] = "acquire" /\ pc[o] \notin {"idle", "acquiring"}
        /\ (pc[o] # "idle" /\ kind[o] \in {"release", "mutate"}) =>
              arg[o].lease \in Op /\ leases[arg[o].lease].state # "absent"
        /\ (pc[o] # "idle" /\ kind[o] = "mutate") => arg[o].request \in Request
        /\ (kind[o] = "release" /\ res[o] = "SUCCESS") =>
              leases[arg[o].lease].state = "released"
        /\ (kind[o] \in {"release", "mutate"}
              /\ (pc[o] \in {"releasing", "freeing", "claiming", "executing"}
                    \/ phase[o] # "idle")) =>
              /\ leases[arg[o].lease].device = arg[o].device
              /\ leases[arg[o].lease].owner = arg[o].owner
        /\ (kind[o] = "mutate" /\ (pc[o] = "executing" \/ phase[o] # "idle")) =>
              claims[arg[o].request] = o

\* A device has at most one unreleased lease, whoever acquires, whenever each
\* read the clock, and however many expired leases nobody released.
LeaseExclusive ==
    \A l, m \in Op :
        (leases[l].state = "open" /\ leases[m].state = "open"
            /\ leases[l].device = leases[m].device) => l = m

\* An expired lease is no obstacle: an acquisition is granted or meets an
\* active lease, and never runs into the unique index, not even at the very
\* moment a lease expires.
ExpiredIsNoObstacle == \A o \in Op : res[o] # "CLASH"

\* A lease ends by expiring or by its owner's release, and by nothing else.
LeaseKept ==
    [][\A l \in Op :
        (leases[l].state = "open" /\ leases'[l].state = "released") =>
            \/ leases[l].expires <= clock
            \/ \E o \in Op : /\ pc[o] = "freeing" /\ pc'[o] = "recording"
                             /\ arg[o].lease = l /\ arg[o].owner = leases[l].owner]_vars

\* Of several releases of one lease one succeeds.
ReleasedOnce ==
    \A o, p \in Op :
        (kind[o] = "release" /\ kind[p] = "release" /\ arg[o].lease = arg[p].lease
            /\ res[o] = "SUCCESS" /\ res[p] = "SUCCESS") => o = p

\* What reaches an Agent as a mutation was sent under a lease its caller had
\* acquired on that very device.
SentUnderOwnLease ==
    \A o \in Op : (kind[o] = "mutate" /\ phase[o] # "idle") =>
        /\ leases[arg[o].lease].device = arg[o].device
        /\ leases[arg[o].lease].owner = arg[o].owner

\* The audit does not lie: what it calls a success was executed, and what it
\* calls a denial was not and never will be.
AuditIsFaithful ==
    \A o \in Op :
        /\ (audit[o] = "SUCCESS" /\ kind[o] \in {"read", "mutate"}) => runs[o] = 1
        /\ audit[o] = "DENIED" => phase[o] = "idle" /\ runs[o] = 0

\* The replay guard keeps its promise: each mutation id is spent once, before
\* its dispatch, and has at most one effect.
Guard == INSTANCE Admission WITH
    Attempt <- Op,
    spent <- {r \in Request : claims[r] # None},
    ran <- [r \in Request |-> {o \in Op :
              kind[o] = "mutate" /\ arg[o].request = r /\ runs[o] > 0}]

ImplementsAdmission == Guard!Spec

\* The inductive invariant.
IInv ==
    /\ TypeOK /\ Flow /\ Backing
    /\ LeaseExclusive /\ ExpiredIsNoObstacle /\ ReleasedOnce

\* docs/security.md: against two concurrent callers, an exclusive lease for
\* mutations.  No mutation is dispatched to a device while another lease on it
\* is active.
MutationUnderLease ==
    [][\A o, l \in Op :
        (kind[o] = "mutate" /\ phase[o] = "idle" /\ phase'[o] = "open" /\ l # arg[o].lease) =>
            ~(leases[l].state = "open" /\ leases[l].device = arg[o].device
                /\ leases[l].expires > clock)]_vars

=============================================================================
