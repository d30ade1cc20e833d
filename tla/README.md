# Verification of gptlink

gptlink lets a chat client operate remote machines: a **Gateway** (one asyncio
process, a SQLite database) exposes MCP tools and keeps one WebSocket per
device; an **Agent** on each device executes what it is sent under its own
policy. The same Agent code also runs under a **local chat runtime** without a
Gateway. This directory holds TLA+ models of that code, TLC configurations for
them, and proofs checked by TLAPS. Paths below are relative to the package
`src/gptlink/` of the repository.

## 1. Inventory

| Component | State | Operations | Talks to |
|---|---|---|---|
| Connection registry `gateway/registry.py` | `_connections` (device to connection), `_pending` (request to connection and future), `_lock` | register, touch, disconnect, send, request, resolve, expire, close | the sockets, the device rows |
| Agent WebSocket handler `gateway/websocket.py` | one task per socket: handshake, serving loop, finally clause | authenticate, register, touch and resolve each message, pong, disconnect | registry |
| Lifecycle `gateway/app.py` | `ready`, the monitor task | monitor cycle, startup, shutdown | registry, database |
| Persistence `persistence/` | rows: devices, pairing codes, leases, request claims, audit events | conditional updates, one transaction each | SQLite, shared with the CLI |
| Operations `gateway/operations.py`, `auth.py`, `audit.py` | none of its own | authorize, claim, execute, audit | leases, registry through `remote.py` |
| Leases `gateway/leases.py` | lease rows | acquire, validate, release | operations |
| Pairing `gateway/pairing.py` | pairing rows | create_code, redeem | HTTP API, Agent `pair` |
| MCP tools `mcp/`, `gateway/remote.py` | none | one tool call each | operations, registry |
| Protocol `protocol/` | none | validation of a message | both ends |
| Agent client `agent/client.py`, `reconnect.py`, `__main__.py` | credential file, backoff attempt, socket, heartbeat task | pair, run, serve, heartbeat | Gateway |
| Agent dispatcher `agent/dispatcher.py` | none | one request at a time | jobs, filesystem, git |
| Jobs `agent/jobs.py`, `agent/executors/` | job table, semaphore, process | start, run, timeout, cancel, output | the operating system |
| Filesystem `agent/filesystem/` | the files | list, read, search, atomic write | the operating system |
| Local chat `local/`, `chat/` | ids seen in a turn, grants of the session, audit log | gather context, take a turn, authorize, execute, record | dispatcher, the operator, the chat backend |
| CLI `cli/main.py` | none | revoke, permission, approve, ... | the database, from another process |

What makes the system hard is in six places.

* **The Gateway's event loop.** Handlers, callers, the monitor and the shutdown
  interleave at every `await`; tasks are cancelled at any of them; the row of a
  device and the in-memory table change in two steps; and the CLI writes the
  same rows from another process. What must hold: an `ONLINE` row is backed by a
  connection, a served connection is never marked `OFFLINE` by somebody else's
  cleanup, revocation is final, every caller gets an answer, and no request is
  executed twice.
* **The gates before an effect** (authorize, lease, claim) are separate
  transactions with the effect after them. What must hold: a request id has at
  most one effect, the audit tells what happened, leases of a device exclude one
  another.
* **Pairing**: several redemptions of one code at once, each with a slow
  verification between its attempt and its effect. What must hold: limited
  attempts, none of them free, one device for a code, and only while it is valid.
* **The Agent's jobs**: a task, a process group and a semaphore, with the
  timeout, the natural exit and a cancellation racing. What must hold: the
  concurrency limit, a status that tells the truth, no process left behind.
* **The Agent's connection**: two tasks on one socket that may be refused, lost or
  silent, and a `finally` clause that awaits one of them while the other is being
  cancelled. What must hold: requests are served one at a time and at most once,
  a dead connection is left, and the Agent ends when its stop event is set.
* **The local session**: a task that waits for threads (the operator's prompt, a
  file being written, the audit record) and can be interrupted while they go on.
  What must hold: no effect without the operator's leave, no proposal executed
  twice, an audit and a report that tell the truth, files that are whole.

`PROJECT.json` lists every component with its status, the map from definitions to
source lines, and under `hazards` each place where the code is hard to test, with
the properties that cover it or the module that will.

## 2. Plan

| Step | Modules | State |
|---|---|---|
| 1 | `Registry` (handlers, monitor, shutdown, callers, CLI), abstract specification `RemoteCall` | done |
| 2 | `RegistryProofs`: types, presence, revocation | done |
| 3 | `Jobs`, `JobsProofs`: the job manager over the Linux and the Windows executor | done |
| 4 | `Operations`, abstract specification `Admission`, `OperationsProofs` | done |
| 5 | `Pairing`, abstract specification `Voucher`, `PairingProofs` | done |
| 6 | `AgentClient`, abstract specification `Servant`, `AgentClientProofs` | done |
| 7 | `AtomicWrite`; `LocalChat`, which composes it; abstract specification `Consent`; `LocalChatProofs` | done |
| 8 | `RegistryCallProofs`: the invariants of calls, `Registry` implements `RemoteCall` | done |
| 9 | What the invariants imply over several steps: finality (verdicts, audit events, outcomes, codes, records), the lock, addressing, single effects, and the exact extent of the findings | done |
| 10 | What the abstract specifications promise by themselves, as `EffectsAreConsented` does for `Consent` | next |

`Operations` meets `Registry` through `RemoteCall`: it uses that module's actions
(`Remote!Issue`, `Remote!Execute`, `Remote!Return`, `Remote!LoseAll`) for what
happens between dispatch and answer, and run `registry` shows that `Registry` implements
it; `UsesRemoteCall` proves that the requests of `Operations` keep to it. The
composition is through that interface and never a product of the two.
`Registry` in turn assumes of its peer, in `AgentServe`, that a request is executed
at most once and answered on its own connection: that is what `Servant` states and
`AgentClient` implements. `LocalChat` takes `AtomicWrite` in by EXTENDS: the thread of
a write runs its actions, which the session's task waits for or leaves alone.

## 3. Registry and RemoteCall

An action is the code between two suspensions that another task can tell apart.
A commit and the change of the table that follows it are two actions under
`lock`; `written` names the connection whose row is committed while the table
does not show it yet.

| Code | Variables and actions |
|---|---|
| `_connections`, `_pending`, `_lock` | `conns`, `pending` (the connection that owns an entry), `lock` (its holder) |
| `agent_websocket` | `hpc`, `sock`, `msg`, `old`: `Accept`, `Leave`, `PublishCommit`, `PublishRefused`, `Install`, `CloseOld`, `CancelRegister`, `Receive`, `Resolve`, `EndServing`, then the `Disconnect...`, `Handler...` and `Closed` steps of its finally clause |
| monitor, `expire()` | `todo`, `expired`, `silent`: `MonitorCheckFails`, `MonitorBegin`, `ExpireCommit`, `ExpireRemove`, `ExpireFault`, `MonitorEnd` |
| lifespan, `close()` | `ready`, `stopping`: `BeginShutdown`, `CloseBegin`, `CloseDevice`, `CloseEnd`, `Restart` (also after a crash) |
| `request()`, `send()` | `cpc`, `owner` (the connection captured), `via` (the one written to), `fut`, `outcome`: `RequestOffline`, `RequestQueues`, `RequestAdmitted`, `Transmit`, `SendReturns`, `SendFails`, `CallRetires`, `Answered`, `TimesOut`, `Finish`, `CancelCall` |
| device rows | `row`, through `MarkOnline`, `MarkOffline`, `TouchRow`, the three conditional updates; `Fault` is a transaction that fails |
| CLI `devices revoke` | `Revoke` |
| the network, the Agent, time | `wire`, `inbox`: `Drop`, `AgentServe`, `Age` |

`executed` and `abandoned` (devices whose row a finished process left `ONLINE`)
are history variables that no guard reads. Choices worth knowing:

* Shutdown may begin at any moment. The ASGI server normally ends the handlers
  first, but nothing in this code enforces it.
* A handler is cancelled at most once while its publication is shielded.
* `BUSY` and `DEGRADED` are never assigned by the program and are left out; the
  branch "request ID already pending" is unreachable, ids being fresh or claimed.
* A device's last message is abstracted to "older than the threshold or not"
  (`silent`), so the heartbeat's numeric values play no part.

`RemoteCall` is what callers may rely on: a call is executed at most once,
possibly after its caller gave up; a result means it was executed; "offline" means
that it was not and will not be; any other failure leaves it open.

| Run | Instance | Shows |
|---|---|---|
| `registry` | 2 devices, 3 connections (2 of one device), 1 call, 1 fault, 1 restart | `PresenceBacked`, `HealthyIsOnline`, `HealthyKept`, `RevokedSticky`, `WaiterIsReleased`, `LeakOnlyByCancel`, `AnswerIsOwn`, `ImplementsRemoteCall` |
| `registry_live` | 1 device, 2 connections, 1 call, 1 fault, 1 restart, fairness | `OfflineUnlessAbandoned`, `RevokedIsCutOff`, `EveryCallReturns` |
| `registry_late_answer` | 1 device, 2 connections, 1 call | refutes `AnswerReachesCaller` |

Two connections of one device are what replacement needs (the third and fourth
only repeat it); the second device makes `expire()` and `close()` visit more than
one entry, so that a fault or a shutdown can fall between them; one fault and one
restart are the first of each, and the proofs take any number. Calls share nothing
with one another but the lock and the connection, so one call against everything
else is the interesting instance. Symmetry (the two connections of a device) is
used in the safety run only.

Two scopes in `MCRegistry` keep the product of all this out (CONSTRAINT). They limit
what these runs show, and each of their conjuncts says there what it leaves out:

* `SafetyScope` (run `registry`). Without a call, everything happens: a fault, a
  shutdown at any point with `close()` over both devices, a crash, a second process
  that serves the first device again. The second device's connection is served, lost,
  expired and closed, but sends no message, is not cancelled and not revoked. A call
  is made while the second device is away and no transaction fails, and meets
  replacement, expiry, cancellation, revocation and the end of its process. A call
  together with a failed transaction (where `WaiterIsReleased` makes an exception
  anyway) is left to `RegistryCallProofs` and to the next scope.
* `LiveScope` (run `registry_live`). Without a call, everything happens to one device
  and its two connections. A call is followed over one connection (`OverOne`), with a
  failed transaction or a revocation and with the shutdown, or across a replacement
  (`AcrossTwo`), with expiry, broken transports and its cancellation, until it returns.
  A call that meets both a replacement and a fault, a revocation or the shutdown is
  not followed, and TLC says nothing of a liveness property beyond a scope. Nor is
  there a second device: a fault of `expire()` at its second device is in `registry`
  and in the proofs, which are about safety.

Fairness. Every task that can run is run by the event loop; `asyncio.Lock` serves
its waiters in order, hence strong fairness where a task waits for it again and
again; the request timeout fires; a write to a transport completes or fails; a
broken transport is reported; a device that cannot be heard passes the threshold;
a process that has finished `close()` ends. Nothing makes an Agent connect or
answer, the CLI revoke, or a crash happen.

## 4. Operations and Admission

One operation is one tool call in a task of its own. Each of its transactions is an
action, which commits whole or fails; between two of them the other operations,
the clock, the CLI and the end of the process go on.

| Code | Actions |
|---|---|
| `_authorize` at the head of each operation | `Authorize` (`Admits`: status and permission level as `level`; whether the device has the capability is open) |
| `LeaseService.acquire`, `LeaseRepository.acquire`, the unique index | `AcquireLease` (`Open`, `Expired`, `Released`) |
| `LeaseService.validate` | `ValidateLease` (`Valid`) |
| `LeaseService.release` | `ReleaseReads`, `ReleaseWrites`: a SELECT opens no SQLite transaction, so the UPDATE after it is a step of its own |
| `RequestReplayGuard.claim` | `ClaimRequest` (`Unclaimed`) |
| `execute()`, `RemoteOperations` | `Dispatch`, `AgentExecutes`, `Returns` |
| `_record_error`, `AuditService.record` | `Settles`, then `Record` |
| cancellation, the end of the process, `devices revoke` and `set-permission`, time | `CancelOp`, `Crash`, `SetLevel`, `Tick` |

`stamp` is the `now` an operation read before its transaction began, which may be
in the past when the transaction runs. A lease id is the operation that acquired
it. `list_devices` and `device_info` end at once; `read` skips lease and claim.
`CLASH` is the result of an acquisition that ran into the unique index.

Run `operations` has 3 operations of 2 owners on one device, one request id,
durations 0 (refused) and 1, two ticks: enough for a lease to be acquired, expire
at the very moment another is acquired, be released twice, and for three mutations
to compete for one id. Leases of two devices do not meet in any statement, so the
second device is left to the proofs. It shows `LeaseExclusive`,
`ExpiredIsNoObstacle`, `ReleasedOnce`, `LeaseKept`, `SentUnderOwnLease`,
`AuditIsFaithful`, and that the operations implement `Admission`: an id is spent
once, before anything is dispatched, and has at most one effect. Deadlock is not
checked in this module: operations are one-shot and the instance stops when they
have ended. `operations_lease` refutes `MutationUnderLease`.

What the audit does not promise: a cancelled operation records nothing
(`CancelledError` is no `Exception`), nor does one whose audit transaction fails
after the effect; both are behaviours of the model, and `AuditIsFaithful` speaks
of the events that exist.

## 5. Jobs

`run` is the task of `_run`, `reader` that of `_execute`, `stage` the termination
run by `_run`, `canceller` and `grace` that run by `cancel()`. The Agent's message
loop awaits each request, so at most one `cancel()` is under way. A job's processes
are the shell and one background child that holds the pipes; what a process does on
SIGTERM, and when it exits, is open. `asyncio.wait_for` and `Process.wait()` are
those of Python 3.12: the latter waits for the pipes too.

`tree` is what holds a job's processes together: on Linux the group, on Windows the
Job Object, which is "unowned" until the shell is put into it and "closed" when its
handle is. Closing kills what is in the object; asyncio hears of it later, so a
killed process stays "live" until its exit is noticed. The initial states have both
platforms.

| Code | Actions |
|---|---|
| `start` | `Start` |
| `_run`: semaphore, timeout, the except clauses | `Admit`, `RunReturns`, `Timeout`, `ReaderCancelled`, `StopBegins`, `StopReturns`, `Ends` |
| `_execute`, `on_chunk`, `LinuxExecutor.run` | `Spawn`, `Report`, `Chunk`, `ReadEnds` |
| `WindowsShellExecutor.run`: the assignment and the finally clause | also `AssignFails`, `RefusalEnds`; `CloseObject` in `ReadEnds` and `ReaderCancelled` |
| `LinuxExecutor.terminate` | `NothingToStop`, `SigTerm`, `GraceOver`, `SigKill`, `Stopped` |
| `WindowsShellExecutor.terminate` | `NothingToStop`, `TerminateObject`, `Stopped` |
| `cancel` | `CancelTooLate`, `CancelBegins`, `CancelGraceOver`, `CancelReturns`, `CancelTask` |
| the processes | `ShellExits`, `ShellForks`, `ChildExits` |

Run `jobs` has two jobs on one slot (one waits for the other), room for one chunk of
two bytes and no second: it shows `ShellIsGone`, `ShellsBounded`,
`TruncationReported`, `EveryJobEnds` and `CancelIsOver`. Fairness: tasks that can
run do, timers fire, the semaphore serves its waiters in order, and the system kills
what is in a closed Job Object; no process exits by itself. `jobs_pending` and
`jobs_survivor` refute `CancelIsReported` and `TimeoutKillsGroup`. Processes that
leave the group, and the end of the Agent itself, are not modelled.

The two liveness properties have an exception, `Escaped`, which TLC insisted on. On
Windows the shell runs for a moment before it is in its Job Object; a child started
then is in no object, nothing kills it, and while it holds the pipes the termination
waits for it: the job keeps its slot, and a `cancel()` keeps the Agent's message
loop. docs/windows-agent.md says that the assignment comes immediately after the
creation. The same moment makes a job `FAILED` whose shell was done before it could
be put into the object (`AssignFails`).

## 6. Pairing and Voucher

One redemption is one `POST /api/v1/pair`. Its transaction begins with the UPDATE
of `begin_attempt`, so it holds SQLite's writer lock (`writer`) through the
verification, which runs in a thread, until it commits; requests that wait for the
lock, the clock, cancellation and the end of the process go on meanwhile. What the
transaction did is seen only in `Commit`, and `Fail` and `Crash` undo it.

| Code | Actions |
|---|---|
| `pairing create`, `create_code`, `add_unique_locator` | `CreateCode` |
| `redeem` up to its first statement, `begin_attempt` | `Arrive` (reads the clock), `BeginAttempt` (`Available`) |
| the verification and the second look at the clock | `Verify` (`StillValid`) |
| the device, `used_at`, the commit; the answer after it | `Commit` (`Spent`, `After`) |
| a busy database, a failed transaction, cancellation; the end of the process | `Fail`, `Crash` |
| the response, `AgentClient.pair` | `Deliver`, which may also lose it |

A code is its locator and its secret, so a wrong guess is another code with the same
locator. `stamp` is the `now` a redemption read last, before it had the lock in
`Arrive`, under it in `Verify`. `used_at` is zero where the code has `NULL`, and
`redeemer` tells the two apart. Other writers of the database only keep a
redemption waiting or make it fail, which the model allows at any time.

Run `pairing` has two codes of one locator (one can be offered, the other is a wrong
guess of it) and one of another, three redemptions, two attempts and a duration of
one tick in two: enough for two wrong guesses to use a code up, for a right one to
come too late by the first or by the second look at the clock, and for a second right
one to follow a first. Redemptions are one-shot, so deadlock is not checked. The run
shows `GuessesArePaid`, `CredentialIsEarned` and that the code implements `Voucher`.
That the Agent stores the credential of every device is not promised: a lost response
leaves a device nobody can use and a spent code, which is a behaviour of the model.

## 7. AgentClient and Servant

`pc` is the await at which the main task stands, `failure` the exception in flight
through `_connected` and its `finally` clause, `beat` the heartbeat task.

| Code | Actions |
|---|---|
| the loop of `run()`, its `except` clause, the backoff | `LoopHead`, `ConnectionEnds` (`After`), `BackoffOver` |
| `connect`, the hello and the welcome | `Connected`, `ConnectFails`, `Welcomed`, `GreetingFails` |
| the receive loop | `Pong`, `ReceiveRequest`, `ReceiveFails`, `Dispatched`, `Replied`, `ReplyFails`, `NextMessage` |
| the `finally` clause; leaving `async with connect(...)` | `Retired`, `Left` |
| `_heartbeat` | `HeartbeatRaises`, `HeartbeatReturns` |
| Ctrl-C under `asyncio.run`, the stop event | `Interrupt`, `Stop` |
| the Gateway, the network, a thread whose dispatch was cancelled | `GatewaySends`, `LinkLost`, `OrphanEnds` |

A socket is open, down (the library knows) or silent (nobody at the other end, and
nothing says so). Requests that were received before the connection went down are
still read, and executed, after it. Which errors are worth a retry is open where the
code may raise either kind (`GreetingFails`, `ReceiveFails`). `MaxExponent` is 1024,
the first attempt for which `base * 2**attempt` overflows; TLC takes 3. No code of the
program sets the stop event, but `run()` takes one. Once the main task has
ended the Agent stops, so deadlock is not checked.

Run `agent` has two requests, which may come over one connection or over two, one
interrupt and one stop. It shows:

* `EndsForAReason`: `run()` ends when asked, for an error no retry would mend, or
  because of the overflow.
* `EndIsObeyed`: the stop event ends it wherever it is, and so does a cancellation in
  flight whose heartbeat has not raised. Not every interrupt comes to that. One that is
  delivered while `finally` awaits the heartbeat is taken by `suppress(CancelledError)`,
  over an open socket too (after a timeout of `recv`, say); one raised while the
  heartbeat has died of the lost connection gives way to the heartbeat's error. In both
  cases `run()` goes on, and nothing here is claimed of them: they are behaviours of the
  model, and no document says what Ctrl-C does.
* `LossIsNoticed`: a connection that is lost or silent is left.
* `ImplementsServant`: one request at a time, each at most once, answered over the
  line it came by, and what a line leaves unfinished is lost.

Fairness: every await of the main task ends (each is under a timeout, or a write, or
a dispatch that returns). That a dispatch returns is an assumption: on Windows a
`cancel()` may not, if a child escaped its Job Object (section 5), and an Agent that
waits there neither obeys a stop nor notices a loss. A connection kept up by pongs may last forever, unless the
stop event is set, the socket is dead or a request waits (`MustMove`). Nothing makes
the Gateway send. `agent_backoff` refutes `BackoffResets`.

## 8. LocalChat, AtomicWrite and Consent

One task runs the session; `pc` is the await where it stands. A proposal is named by
its turn and its id; turn 0 is the context gathered at the start, whose actions go
through the same `execute()`. Of the eleven tools the nine that change nothing are
"read".

| Code | Actions |
|---|---|
| health check, choice of a conversation | `Attach` |
| `collect_workspace_context` | `Gather`, `Gathered` |
| the prompt of the session | `UserSpeaks`, `UserLeaves` |
| `run_turn` | `TurnBegins`, `Proposed`, `Duplicate`, `TurnEnds`, `BackendFails` |
| `execute`: the message, the policy, the approval, the dispatch | `Rejected`, `PolicyDenies`, `Ask`, `Authorized`, `Approved`, `Denied`, `ReadReturns`, `WriteReturns` |
| `execute`: the `finally` clause, and what its caller does next | `Recorded`, `RecordFails` |
| `interactive_prompt` in its thread | `OperatorAnswers` |
| `FilesystemOperations.write` in its thread | `Thread`, the actions of `AtomicWrite` |
| Ctrl-C, the wait for threads at the end, a loss of power | `Interrupt`, `Exit`, `Crash` |

`asyncio.run` turns the first Ctrl-C into a cancellation of the task where it
awaits; a second one ends the process at once and is not modelled. While the user is
being prompted the loop is blocked, so the cancellation waits for the first await
after it (`pending`). A thread cannot be cancelled: a prompt stays open, a write goes
on, and the record of that action says "error". If that record then fails, its
`OSError` takes the place of the cancellation, `run_turn` reports "internal_error" and
the session goes on beside the thread; TLC reaches two writers of one file that way.
`Exit` waits for the threads, as the interpreter does. Jobs still running then are
cancelled as in `Jobs`.

`AtomicWrite` has one target and any number of writers. A file is "soft" while its
content could still be lost with the power; `Replaced` makes the target what the
temporary file was. Removing the temporary file is assumed to succeed for its owner.

Run `local_chat` has two ids, two turns of two actions, and the scope of
`MCLocalChat`: one action of context and two proposals in the turns, ids in order.
That is enough for a duplicate, a repetition in a later turn, a grant used by a
second proposal, two writers at once and a turn that reaches its limit. Its
properties:

* `AuditIsFaithful` relates effects, records and what the model was told. An effect
  with no record, or a record that says "error", is possible only after an interrupt
  or a loss of power, or when the model was told "internal_error".
* `ImplementsConsent`: no effect without leave, none twice, and no report of a failure
  that is, or will be, an effect.
* `FileIntact`: the target is never part of a write, even after a loss of power, which
  rests on `fsync` before `os.replace`. A temporary file outlives its writer only when
  the machine stopped.
* `SessionGoesOn`: if the operator answers every prompt, the session comes back to its
  user or ends. Fairness: what can run does, the backend answers or times out, and
  threads that wait for nobody get on. A step that leaves the scope is a proposal, which
  the backend never has to make: `TurnEnds` and `BackendFails` remain.

A final answer that comes after exactly the permitted number of actions is dropped
(`run_turn` never looks at it): in the model it is one of the ways a turn ends.

## 9. Where code and documentation disagree

Each is a run whose one property states what a document, docstring or test says.

* `registry_late_answer`: `request()` captures the connection before it waits for
  the lock, and `send()` looks the device up again. When a replacement is published
  in between, the operation is executed and its answer discarded as another
  connection's; the caller times out.
* `operations_lease`: `mutate()` validates its lease, then claims, then dispatches.
  A lease that expires or is released in between lets another caller acquire the
  device's lease, and the first mutation is dispatched all the same.
* `jobs_pending`: cancelling a job that has no slot yet leaves it `PENDING` for ever.
* `jobs_survivor`: when the shell has exited and a child holds the pipes, the timeout
  and the cancellation send no signal, and the child lives on.
* `agent_backoff`: the backoff is reset only when `_connected()` returns, which it does
  only at the stop event. After a connection that worked, the Agent waits as if it
  had not; the waits stay at the cap, and at the 1025th loss in the life of the process
  `2**attempt` no longer fits a float and `run()` ends with `OverflowError`.

How far each of the documented promises does hold is proved (section 10):
`AnswersAreMatched` (an answer is lost only if the connection captured and the one
written to differ), `MutationsUnderOpenLeases` (two open leases stand behind a dispatch
only if the first was retired after its validation), `StartedJobsAreReported` (only a
job that never had a reader stays `PENDING`), `SigkillIsEnough` (a termination that
does go as far as SIGKILL leaves nothing alive), `BackoffNeverResets` (no step lowers
the attempt except at a stop).

One more has no run of its own: a process that ends without `close()`, or whose
`close()` cannot update a row, leaves that row `ONLINE`, and no later process corrects it
while the Agent stays away, although `docs/architecture.md` (lines 46-47) says that loss
marks a device `OFFLINE`. `OfflineUnlessAbandoned` makes exactly these rows its exception
(`abandoned`); without the exception, in an instance of one device and one connection,
TLC finds it violated by a commit of the `ONLINE` row and a crash.

## 10. What is proved

The theorems hold for every value of the constants under the named assumptions of
the modules: for `Registry`, that each connection authenticates as one device and
each call has one target, and that identities differ from the markers of the lock;
for `Operations`, that `None` is nobody and durations are naturals; for `Jobs`, that
limits are naturals and at least one slot exists; for `Pairing`, that each code has
a locator and the duration and the limit are positive, which the constructor checks;
for `AgentClient`, that `None` is no request; for `LocalChat`, that a turn allows at
least one action, which the settings check, and that a writer is a proposal.

| Module | Inductive invariant | Theorems |
|---|---|---|
| `RegistryProofs` | `TypeOK` and `Discipline` | `TypeCorrect`, `PresenceIsBacked`, `HealthyRow`, `RevokedIsFinal`, `HealthyStays`, `LockHasItsHolder` |
| `RegistryCallProofs` | the above and `CallDiscipline` | `WaitersAreReleased`, `EntriesAreDropped`, `AnswersAreOwn`, `RemoteCallRefined`, `AnswersAreMatched`, `VerdictsAreFinal`, `CallsAreAddressed` |
| `OperationsProofs` | `TypeOK`, `Flow`, `Backing` and three of the properties | `TypeCorrect`, `LeaseExclusivity`, `NoObstacle`, `OneRelease`, `LeasesAreKept`, `SentWithLease`, `FaithfulAudit`, `AdmissionRefined`, `OneEffect`, `ClaimsAreFinal`, `LeaseRowsAreHistory`, `MutationsUnderOpenLeases`, `EndsAreFinal`, `UsesRemoteCall` |
| `PairingProofs` | `TypeOK`, `WriterWorks`, `DevicesAreRedeemers`, `CredentialIsEarned` | `TypeCorrect`, `EarnedCredential`, `PaidGuesses`, `VoucherRefined`, `CodesAreClosedForGood`, `OneDeviceForACode` |
| `AgentClientProofs` | `TypeOK`, `SocketIsLocal`, `RequestsApart`, `DelayIsFinite`, `HeartbeatIsOwned`, `EndsForAReason` | `TypeCorrect`, `HeartbeatHasAnOwner`, `ReasonToEnd`, `ServantRefined`, `EffectsAreSingle`, `RequestToEndStands`, `BackoffNeverResets`, `NothingAfterTheEnd` |
| `LocalChatProofs` | `TypeOK`, `Chronicle`, `Consents`, `Writes`, `InHand`, `ReplacesSynced`, `FileIntact`, `AuditIsFaithful` | `TypeCorrect`, `FileStaysIntact`, `AuditTellsTheTruth`, `ConsentKept`, `EffectsAreConsented`, `ReadOnlyIsReadOnly`, `WritersTakeTurns`, `HistoryIsFinal` |
| `JobsProofs` | `TypeOK`, `ReaderAhead`, `ShellIsGone`, `SlotsBounded` | `TypeCorrect`, `NoShellOutlivesItsJob`, `ShellLimit`, `DroppedOutputIsTold`, `OutcomesAreFinal`, `StartedJobsAreReported`, `SuccessLeavesNothing`, `HandlesAreClosed`, `SigkillIsEnough` |

*Presence.* `PresenceBacked` is not inductive: the step that removes an entry
after its OFFLINE commit needs to know that nobody made the row `ONLINE` in
between and that the entry is still the same connection's. `Discipline` says so:
`written` is set only under the lock, and every writer of presence but the revoking
CLI takes it; the CLI never makes a row `ONLINE`.

*Calls.* `CallDiscipline` follows a request. `EntryIsOwners` ties its entry to the
connection it captured, `SentOnce` says that it is in one place of one connection, not
yet executed or executed once, and `SentIsServed` that the handler of the connection it
was sent over has not ended without telling it. The last needs `TableIsServed`: what the
table holds is past its publication, and is closed only after a failed transaction.
The three invariants of callers are parts of it. `RemoteCallRefined` maps every step
inside an open call to a stutter, `AgentServe` to `Execute`, the finally clause to
`Return` and the end of the process to `LoseAll`; "offline" is told only before
anything was sent.

*Operations.* `Flow` says what an operation's place tells of its request and its
result; `Backing` says which rows stand behind it: the lease it names was granted
and keeps its device and owner (`RowsKept`), a dispatched mutation holds the claim
of its id. A second effect under one id would need a second operation holding the
same claim; a second success of `release` would need a lease already released to
be released again. `LeaseExclusive` is inductive by itself, since an acquisition
is granted only when every open lease of the device was just retired;
`ExpiredIsNoObstacle` holds because `<=` in the retirement and `>` in the conflict
test leave no lease between them. `AdmissionRefined` maps claims to spent ids and
executed mutations to effects: a granted claim is `Spend`, the execution of a
mutation is `Effect`, every other step stutters.

*Jobs.* `ReaderAhead`, the same on both platforms, bounds what the shell can be by how far the reader has come,
so that a job can be done only behind a reader that is finished; `SlotsBounded`
counts the holders of slots, and every live shell belongs to one. `TruncationReported`
is inductive by itself: a chunk is dropped and the job marked in one step.

*Pairing.* `WriterWorks` is the argument: from the attempt to the commit nobody else
writes, so the row found unredeemed and below its limit still is when the attempt is
added and the device written. `DevicesAreRedeemers` ties each device to the row of the
code it presented, so that a redeemed code's row is never written again.
`PaidGuesses` counts: a commit tells one more redemption and spends one more attempt,
every other step tells nobody. `VoucherRefined` maps a commit to a `Miss` or a
`Redeem`, an insertion to `Offer`, and every other step to a stutter.

*Agent client.* `RequestsApart` says that a request is in one place at a time: unread,
being served, adrift in an abandoned thread, or answered. `SocketIsLocal` says that
nothing unread outlives its socket. With these, `ServantRefined` maps each request to
its place, the execution in a thread to `Ran`, and the end of a connection to `HangUp`.

*Local chat.* `Consents` keeps every grant tied to an answer of the operator, `Writes`
keeps every thread tied to a proposal that was allowed and is not reported yet, or was
left behind by an interrupt; `InHand` says what `execute()` knows at each await;
`Chronicle` says that a proposal not made has left no trace, so that a new turn starts
with fresh names. `FileStaysIntact` rests on `ReplacesSynced`: what is moved into place
was synced. `ConsentKept` maps a dispatch or a replaced file to `Act`, an answer to
`Answer`, a record (made or failed) to `Tell`.

Some of the theorems state properties that are defined in the proof modules, next to
them, and that no run has among its own: consequences over several steps of what the
runs check. Most need more than the invariant:

*The lock.* `LockIsHeld` is inductive beside the invariant: it lists the places that
hold the lock, and every action that leaves one releases it, a cancellation included.

*Finality of calls and operations.* `VerdictsAreFinal` and `EndsAreFinal` are two views
of one fact on either side of `RemoteCall`. A call ends once because every ending
action needs it open; nothing is executed after "offline" because that is told before
anything is sent. On the operations' side `OverIsOver` is the strengthening: an
operation with an audit event is over, and one that records or is over has no open
request. `CallsAreAddressed` needs `Addressed`: owner and connection written to are
taken from the table, which holds a device's own connections.

*One effect.* `OneEffect` follows from `Backing`: whatever was executed was dispatched,
whatever was dispatched holds the claim of its id, and an id has one claim.

*After a job.* `Aftermath` is the strengthening: what the reader, the Job Object, the
outcome and a termination tell of the processes. Its two lines on SIGKILL hold because
only a live shell starts processes, and the group is signalled as one.

*Single effects on the Agent.* `EffectOnce` is inductive beside `RequestsApart`: a
request without an effect is unread, being dispatched or adrift, and having the effect
takes it out of these. `RequestToEndStands`, the safety side of `EndIsObeyed`, needs
`CancelIsLeaving`: a cancellation in flight is on its way out of `_connected()`, or has
ended `run()`. `QuietMeansStop`
says that `_connected()` returns, rather than raises, only at a stop, which gives
`BackoffNeverResets`.

*Consent.* `ConsentPromises` is proved of `Consent` alone, for every behaviour of that
specification; `ConsentKept` carries it over to the session. `ReadOnlyIsReadOnly` adds
that the file itself is moved only by a write that was allowed.

Every inductive invariant, and every property above, was first checked with TLC on the
instances of sections 3 to 8.

## 11. What is only model-checked

Liveness under fairness (`OfflineUnlessAbandoned`, `RevokedIsCutOff`,
`EveryCallReturns`, `EveryJobEnds`, `CancelIsOver`, `EndIsObeyed`, `LossIsNoticed`,
`SessionGoesOn`), which is out of the prover's reach. Every invariant, every action
property and every refinement that a passing run checks is also proved.

Definitions marked "fault:" are seeded mistakes, each in front of the definition it
is a variant of. No action uses them: substituting one must make the property named
in `PROJECT.json` fail, which shows that the property can.

## 12. What is not modelled

* On Windows, the failure of `TerminateJobObject` on a handle the manager holds, and
  the helper processes with which the WSL executor resolves a path.
* Settings, protocol validation, MCP tool schemas, prompts, HTTP clients, health
  endpoints, token hashing, redaction: checks and conversions of one value at a
  time, without state that two steps share.
* Filesystem reads and searches, git: reads of the operating system, which `LocalChat`
  has as succeeding or failing.
* A local session's commands after it has proposed them: `Jobs` has them. That
  `typer.prompt` blocks the loop, so that timeouts of running commands wait for the
  user, is listed under `hazards` without a property.
* Tables no Gateway code writes (jobs, outputs, approvals).
