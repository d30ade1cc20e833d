------------------------------ MODULE Registry ------------------------------
(***************************************************************************)
(* The Gateway's connection registry (gateway/registry.py) together with   *)
(* the code that drives it: the Agent WebSocket handler                    *)
(* (gateway/websocket.py), the presence monitor and the shutdown path      *)
(* (gateway/app.py), the presence statements of DeviceRepository           *)
(* (persistence/repositories.py) and the revoke command of the CLI, which  *)
(* is another process writing to the same database.                        *)
(*                                                                         *)
(* The Gateway is one asyncio event loop.  Code between two awaits runs    *)
(* without interruption, so an action below is the code between two        *)
(* suspensions that other tasks can tell apart.  A database transaction    *)
(* and the change of the in-memory table it announces are two steps under  *)
(* one asyncio.Lock: `written` is the connection whose row has been        *)
(* committed while the table does not show it yet.                         *)
(*                                                                         *)
(* A connection is one accepted WebSocket, used once.  A call is one       *)
(* invocation of ConnectionRegistry.request; its request id is the call    *)
(* itself, since reads draw a fresh uuid4 and a mutation's id is claimed   *)
(* durably before it is dispatched (gateway/auth.py), so two calls never   *)
(* share one and the "already pending" branch is unreachable.              *)
(***************************************************************************)
EXTENDS Integers, FiniteSets

CONSTANTS
    Device, Conn, Call,
    DeviceOf,       \* the device each connection authenticates as
    Target,         \* the device each call is addressed to
    None,           \* no connection
    MaxFaults,      \* bound: database transactions that may fail
    MaxRestarts     \* bound: times the Gateway process ends and is started

ASSUME IdentityAssumption ==
    /\ DeviceOf \in [Conn -> Device]
    /\ Target \in [Call -> Device]
    /\ None \notin Conn
    /\ Conn \cap Call = {}
    /\ {"free", "monitor", "shutdown", "ping"} \cap (Conn \cup Call) = {}

ASSUME BoundAssumption == MaxFaults \in Nat /\ MaxRestarts \in Nat

VARIABLES
    row,        \* devices.status of each device: ONLINE, OFFLINE or REVOKED
    abandoned,  \* history: devices whose row a finished process left ONLINE
    conns,      \* ConnectionRegistry._connections
    pending,    \* ConnectionRegistry._pending: the connection owning a call
    lock,       \* who holds ConnectionRegistry._lock
    written,    \* connection whose row was committed under the held lock
    todo,       \* connections the monitor or close() has still to visit
    expired,    \* connections it has removed and not closed yet
    ready,      \* app.state.ready
    stopping,   \* whether the lifespan has entered its finally clause
    hpc,        \* where the WebSocket handler of a connection stands
    cancelled,  \* handlers cancelled while their publication was running
    old,        \* the connection a registration replaced, still to be closed
    msg,        \* the message a handler is processing
    sock,       \* the transport of a connection
    silent,     \* connections whose last_seen is older than the threshold
    wire,       \* calls sent over a connection, unread by the Agent
    inbox,      \* answers sent over a connection, unread by the Gateway
    executed,   \* history: how many times an Agent has executed a call
    cpc,        \* where a call stands
    owner,      \* the connection request() captured
    via,        \* the connection send() wrote to
    fut,        \* the call's future
    outcome,    \* how the call ended
    faults, restarts

tableVars == <<conns, pending>>
lockVars == <<lock, written, todo, expired>>
appVars == <<ready, stopping, restarts>>
dbVars == <<row, abandoned, faults>>
connVars == <<hpc, cancelled, old, msg, sock, silent>>
netVars == <<wire, inbox, executed>>
callVars == <<cpc, owner, via, outcome>>
vars == <<tableVars, lockVars, appVars, dbVars, connVars, netVars, callVars, fut>>

-----------------------------------------------------------------------------
(* Rows and helpers.  A definition marked "fault:" is a seeded mistake that *)
(* a property must reject; no action uses it.                              *)

Status == {"ONLINE", "OFFLINE", "REVOKED"}

\* The three conditional updates: presence never overrides revocation.
MarkOnline(status) == IF status = "REVOKED" THEN status ELSE "ONLINE"
\* fault: the update has no WHERE status <> 'REVOKED'
MarkOfflineUnguarded(status) == "OFFLINE"
MarkOffline(status) == IF status = "REVOKED" THEN status ELSE "OFFLINE"
TouchRow(status) == IF status = "OFFLINE" THEN "ONLINE" ELSE status

SetRow(d, status) == row' = [row EXCEPT ![d] = status]

Fault == faults < MaxFaults /\ faults' = faults + 1

\* fault: any connection of the device will do
CurrentByDevice(c) == conns[DeviceOf[c]] # None
\* `self._connections.get(connection.device_id) is connection`
Current(c) == conns[DeviceOf[c]] = c

\* fault: the values of the table, with the holes
RegisteredWithHoles == {conns[d] : d \in Device}
\* fault: connections whose transport is gone are left to their handlers
RegisteredOpen == {c \in Conn : Current(c) /\ sock[c] = "open"}
Registered == {c \in Conn : Current(c)}

\* fault: the state lock is not taken
LockIgnored == TRUE
LockFree == lock = "free"
Release == lock' = "free" /\ written' = None

\* fault: a retired connection's calls are left waiting
FailNobody(cs) == UNCHANGED <<pending, fut>>
\* Drop the entries the connections own; fail their futures.
FailWaiters(cs) ==
    /\ pending' = [k \in Call |-> IF pending[k] \in cs THEN None ELSE pending[k]]
    /\ fut' = [k \in Call |-> IF pending[k] \in cs /\ fut[k] = "none"
                              THEN "failed" ELSE fut[k]]

-----------------------------------------------------------------------------
(* The WebSocket handler of a connection.                                  *)

\* DeviceAuthenticator.authenticate, for a device that shows its own token.
Authenticates(d) == row[d] # "REVOKED"

\* The hello is authenticated while the Gateway is ready, the welcome sent.
Accept(c) ==
    /\ hpc[c] = "new" /\ ready /\ Authenticates(DeviceOf[c])
    /\ hpc' = [hpc EXCEPT ![c] = "welcomed"]
    /\ sock' = [sock EXCEPT ![c] = "open"]
    /\ UNCHANGED <<tableVars, lockVars, appVars, dbVars, cancelled, old, msg,
                   silent, netVars, callVars, fut>>

\* The handler ends before a connection exists: the welcome cannot be sent,
\* or the task is cancelled there.
Leave(c) ==
    /\ hpc[c] = "welcomed" /\ c \notin cancelled
    /\ hpc' = [hpc EXCEPT ![c] = "closed"]
    /\ sock' = [sock EXCEPT ![c] = "down"]
    /\ UNCHANGED <<tableVars, lockVars, appVars, dbVars, cancelled, old, msg,
                   silent, netVars, callVars, fut>>

\* The shielded publication takes the lock and commits ONLINE.
PublishCommit(c) ==
    /\ hpc[c] = "welcomed" /\ LockFree /\ row[DeviceOf[c]] # "REVOKED"
    /\ SetRow(DeviceOf[c], MarkOnline(row[DeviceOf[c]]))
    /\ abandoned' = abandoned \ {DeviceOf[c]}
    /\ lock' = c
    /\ hpc' = [hpc EXCEPT ![c] = "publishing"]
    /\ UNCHANGED <<tableVars, written, todo, expired, appVars, faults,
                   cancelled, old, msg, sock, silent, netVars, callVars, fut>>

\* Revoked since it was authenticated, or the transaction fails: register
\* raises and the handler closes the socket, having no connection to retire.
PublishRefused(c) ==
    /\ hpc[c] = "welcomed" /\ LockFree
    /\ \/ row[DeviceOf[c]] = "REVOKED" /\ UNCHANGED faults
       \/ Fault
    /\ hpc' = [hpc EXCEPT ![c] = "closed"]
    /\ sock' = [sock EXCEPT ![c] = "down"]
    /\ UNCHANGED <<tableVars, lockVars, appVars, row, abandoned, cancelled, old,
                   msg, silent, netVars, callVars, fut>>

\* After the commit the table is changed and the lock released.  A caller
\* cancelled meanwhile has waited for this and now retires what it published.
Install(c) ==
    /\ hpc[c] = "publishing"
    /\ conns' = [conns EXCEPT ![DeviceOf[c]] = c]
    /\ old' = [old EXCEPT ![c] = conns[DeviceOf[c]]]
    /\ Release
    /\ silent' = silent \ {c}
    /\ cancelled' = cancelled \ {c}
    /\ hpc' = [hpc EXCEPT ![c] =
                 IF c \in cancelled THEN "abandoning"
                 ELSE IF conns[DeviceOf[c]] # None THEN "replacing" ELSE "serving"]
    /\ UNCHANGED <<pending, todo, expired, appVars, dbVars, msg, sock, netVars,
                   callVars, fut>>

\* The replaced connection is closed with 4409.
CloseOld(c) ==
    /\ hpc[c] = "replacing"
    /\ sock' = [sock EXCEPT ![old[c]] = "down"]
    /\ old' = [old EXCEPT ![c] = None]
    /\ hpc' = [hpc EXCEPT ![c] = "serving"]
    /\ UNCHANGED <<tableVars, lockVars, appVars, dbVars, cancelled, msg, silent,
                   netVars, callVars, fut>>

\* The handler's task is cancelled inside register.
CancelRegister(c) ==
    /\ \/ /\ hpc[c] \in {"welcomed", "publishing"} /\ c \notin cancelled
          /\ cancelled' = cancelled \cup {c}
          /\ UNCHANGED <<hpc, old>>
       \/ /\ hpc[c] = "replacing"
          /\ hpc' = [hpc EXCEPT ![c] = "abandoning"]
          /\ old' = [old EXCEPT ![c] = None]
          /\ UNCHANGED cancelled
    /\ UNCHANGED <<tableVars, lockVars, appVars, dbVars, msg, sock, silent,
                   netVars, callVars, fut>>

\* fault: revocation is not checked on each message
TouchAdmitsRevoked(c) == Current(c)
\* A message is received and touch() runs: the connection must still be the
\* current one and its device not revoked; the row is refreshed.
TouchAdmits(c) == Current(c) /\ row[DeviceOf[c]] # "REVOKED"

Receive(c, m) ==
    /\ hpc[c] = "serving" /\ LockFree
    /\ \/ m = "ping" /\ sock[c] = "open" /\ UNCHANGED inbox
       \/ m \in inbox[c] /\ inbox' = [inbox EXCEPT ![c] = @ \ {m}]
    /\ UNCHANGED <<tableVars, lockVars, appVars, abandoned, cancelled, old, sock,
                   wire, executed, callVars, fut>>
    /\ \/ /\ TouchAdmits(c)
          /\ SetRow(DeviceOf[c], TouchRow(row[DeviceOf[c]]))
          /\ silent' = silent \ {c}
          /\ msg' = [msg EXCEPT ![c] = m]
          /\ hpc' = [hpc EXCEPT ![c] = "touched"]
          /\ UNCHANGED faults
       \/ /\ ~TouchAdmits(c)
          /\ hpc' = [hpc EXCEPT ![c] = "closing"]
          /\ UNCHANGED <<row, silent, msg, faults>>
       \/ /\ Current(c) /\ Fault
          /\ hpc' = [hpc EXCEPT ![c] = "closing"]
          /\ UNCHANGED <<row, silent, msg>>

\* fault: the owner of the entry is not compared
AnswersAnyone(c, k) == TRUE
\* An answer counts only on the connection that owns the pending entry.
Answers(c, k) == pending[k] = c

\* resolve(): an answer nobody waits for, or owned by another connection, is
\* dropped; a heartbeat is answered with a pong.
Resolve(c) ==
    /\ hpc[c] = "touched"
    /\ \/ msg[c] = "ping" /\ UNCHANGED <<pending, fut>>
       \/ /\ msg[c] # "ping" /\ LockFree
          /\ \/ /\ pending[msg[c]] # None /\ Answers(c, msg[c])
                /\ pending' = [pending EXCEPT ![msg[c]] = None]
                /\ fut' = [fut EXCEPT ![msg[c]] = IF @ = "none" THEN "result" ELSE @]
             \/ /\ ~(pending[msg[c]] # None /\ Answers(c, msg[c]))
                /\ UNCHANGED <<pending, fut>>
    /\ hpc' = [hpc EXCEPT ![c] = "serving"]
    /\ msg' = [msg EXCEPT ![c] = "ping"]
    /\ UNCHANGED <<conns, lockVars, appVars, dbVars, cancelled, old, sock, silent,
                   netVars, callVars>>

\* The loop ends: the transport is gone, the message is malformed or
\* unexpected, the pong cannot be sent, or the task is cancelled.
EndServing(c) ==
    /\ hpc[c] \in {"serving", "touched"}
    /\ hpc' = [hpc EXCEPT ![c] = "closing"]
    /\ msg' = [msg EXCEPT ![c] = "ping"]
    /\ UNCHANGED <<tableVars, lockVars, appVars, dbVars, cancelled, old, sock,
                   silent, netVars, callVars, fut>>

-----------------------------------------------------------------------------
(* ConnectionRegistry.disconnect, run by process p on connection c: the    *)
(* handler in its finally clause, or a call whose send failed.             *)

DisconnectCommit(p, c) ==
    /\ LockFree /\ Current(c)
    /\ SetRow(DeviceOf[c], MarkOffline(row[DeviceOf[c]]))
    /\ lock' = p /\ written' = c
    /\ UNCHANGED <<tableVars, todo, expired, abandoned, faults, fut>>

\* The transaction raises before the table or a pending call is touched.
DisconnectFault(c) ==
    /\ LockFree /\ Current(c) /\ Fault
    /\ UNCHANGED <<tableVars, lockVars, row, abandoned, fut>>

DisconnectRemove(p, c) ==
    /\ lock = p /\ written = c
    /\ conns' = [conns EXCEPT ![DeviceOf[c]] = None]
    /\ FailWaiters({c})
    /\ Release
    /\ UNCHANGED <<todo, expired, dbVars>>

\* Another connection has taken the entry: only this one's calls are failed.
DisconnectReplaced(c) ==
    /\ LockFree /\ ~Current(c)
    /\ FailWaiters({c})
    /\ UNCHANGED <<conns, lockVars, dbVars>>

Closed(c, others) ==
    /\ hpc' = [hpc EXCEPT ![c] = "closed"]
    /\ sock' = [x \in Conn |-> IF x \in {c} \cup others THEN "down" ELSE sock[x]]
    /\ old' = [old EXCEPT ![c] = None]
    /\ UNCHANGED <<cancelled, msg, silent>>

HandlerRetire(c) ==
    /\ hpc[c] \in {"closing", "abandoning"}
    /\ \/ /\ DisconnectCommit(c, c)
          /\ hpc' = [hpc EXCEPT ![c] = "retiring"]
          /\ UNCHANGED <<cancelled, old, msg, sock, silent>>
       \/ DisconnectReplaced(c) /\ Closed(c, {old[c]} \ {None})
       \/ DisconnectFault(c) /\ Closed(c, {})
    /\ UNCHANGED <<appVars, netVars, callVars>>

HandlerRemove(c) ==
    /\ hpc[c] = "retiring"
    /\ DisconnectRemove(c, c)
    /\ Closed(c, {old[c]} \ {None})
    /\ UNCHANGED <<appVars, netVars, callVars>>

-----------------------------------------------------------------------------
(* The presence monitor: a database check, then expire().                  *)

\* The check fails: new connections are refused until a later cycle succeeds.
MonitorCheckFails ==
    /\ stopping = "no" /\ lock # "monitor" /\ Fault
    /\ ready' = FALSE
    /\ UNCHANGED <<tableVars, lockVars, stopping, restarts, row, abandoned,
                   connVars, netVars, callVars, fut>>

MonitorBegin ==
    /\ stopping = "no" /\ LockFree
    /\ lock' = "monitor" /\ todo' = Registered
    /\ UNCHANGED <<tableVars, written, expired, appVars, dbVars, connVars,
                   netVars, callVars, fut>>

\* A connection past the threshold: its row is committed ...
ExpireCommit(c) ==
    /\ lock = "monitor" /\ written = None /\ c \in todo \cap silent
    /\ SetRow(DeviceOf[c], MarkOffline(row[DeviceOf[c]]))
    /\ written' = c
    /\ UNCHANGED <<tableVars, lock, todo, expired, appVars, abandoned, faults,
                   connVars, netVars, callVars, fut>>

\* ... and its entry removed.  Its calls are left to the handler's disconnect.
ExpireRemove ==
    /\ lock = "monitor" /\ written # None
    /\ conns' = [conns EXCEPT ![DeviceOf[written]] = None]
    /\ todo' = todo \ {written}
    /\ expired' = expired \cup {written}
    /\ written' = None
    /\ UNCHANGED <<pending, lock, appVars, dbVars, connVars, netVars, callVars, fut>>

\* A transaction fails midway: the connections already removed are forgotten
\* without the 4408 close.
ExpireFault ==
    /\ lock = "monitor" /\ written = None /\ todo \cap silent # {} /\ Fault
    /\ lock' = "free" /\ todo' = {} /\ expired' = {} /\ ready' = FALSE
    /\ UNCHANGED <<tableVars, written, stopping, restarts, row, abandoned,
                   connVars, netVars, callVars, fut>>

\* Everything left is fresh: the lock is released, the expired ones are closed.
MonitorEnd ==
    /\ lock = "monitor" /\ written = None /\ todo \cap silent = {}
    /\ lock' = "free" /\ todo' = {} /\ expired' = {} /\ ready' = TRUE
    /\ sock' = [c \in Conn |-> IF c \in expired THEN "down" ELSE sock[c]]
    /\ UNCHANGED <<tableVars, written, stopping, restarts, dbVars, hpc, cancelled,
                   old, msg, silent, netVars, callVars, fut>>

-----------------------------------------------------------------------------
(* The end of the process: lifespan shutdown, close(), and a crash.        *)

\* The monitor task is cancelled, wherever in expire() it stands.
BeginShutdown ==
    /\ stopping = "no" /\ restarts < MaxRestarts
    /\ stopping' = "closing" /\ ready' = FALSE
    /\ IF lock = "monitor"
       THEN Release /\ todo' = {} /\ expired' = {}
       ELSE UNCHANGED lockVars
    /\ UNCHANGED <<tableVars, restarts, dbVars, connVars, netVars, callVars, fut>>

CloseBegin ==
    /\ stopping = "closing" /\ LockFree
    /\ lock' = "shutdown" /\ todo' = Registered
    /\ UNCHANGED <<tableVars, written, expired, appVars, dbVars, connVars,
                   netVars, callVars, fut>>

\* Persisting OFFLINE is best effort; the entry goes either way.
CloseDevice(c) ==
    /\ lock = "shutdown" /\ c \in todo
    /\ \/ /\ SetRow(DeviceOf[c], MarkOffline(row[DeviceOf[c]]))
          /\ UNCHANGED <<abandoned, faults>>
       \/ Fault /\ abandoned' = abandoned \cup {DeviceOf[c]} /\ UNCHANGED row
    /\ conns' = [conns EXCEPT ![DeviceOf[c]] = None]
    /\ todo' = todo \ {c}
    /\ expired' = expired \cup {c}
    /\ UNCHANGED <<pending, lock, written, appVars, connVars, netVars, callVars, fut>>

CloseEnd ==
    /\ lock = "shutdown" /\ todo = {}
    /\ FailWaiters(Conn)
    /\ lock' = "free" /\ expired' = {} /\ stopping' = "closed"
    /\ sock' = [c \in Conn |-> IF c \in expired THEN "down" ELSE sock[c]]
    /\ UNCHANGED <<conns, written, todo, ready, restarts, dbVars, hpc, cancelled,
                   old, msg, silent, netVars, callVars>>

\* The process is gone, after close() or by a crash at any point, and a new
\* one has initialised the database, which leaves every row as it was.
Restart ==
    /\ restarts < MaxRestarts /\ restarts' = restarts + 1
    /\ stopping' = "no" /\ ready' = TRUE
    /\ abandoned' = {d \in Device : row[d] = "ONLINE"}
    /\ conns' = [d \in Device |-> None]
    /\ pending' = [k \in Call |-> None]
    /\ Release /\ todo' = {} /\ expired' = {}
    /\ hpc' = [c \in Conn |-> IF hpc[c] = "new" THEN "new" ELSE "closed"]
    /\ sock' = [c \in Conn |-> IF hpc[c] = "new" THEN "none" ELSE "down"]
    /\ old' = [c \in Conn |-> None] /\ msg' = [c \in Conn |-> "ping"]
    /\ cancelled' = {} /\ silent' = {}
    /\ inbox' = [c \in Conn |-> {}]
    /\ cpc' = [k \in Call |-> IF cpc[k] = "idle" THEN "idle" ELSE "done"]
    /\ outcome' = [k \in Call |-> IF cpc[k] \in {"idle", "done"}
                                  THEN outcome[k] ELSE "lost"]
    /\ UNCHANGED <<row, faults, wire, executed, owner, via, fut>>

-----------------------------------------------------------------------------
(* The environment: the CLI, the network and the Agents.                   *)

\* `gptlink devices revoke`, in a process and transaction of its own.
Revoke(d) ==
    /\ row[d] # "REVOKED" /\ SetRow(d, "REVOKED")
    /\ UNCHANGED <<tableVars, lockVars, appVars, abandoned, faults, connVars,
                   netVars, callVars, fut>>

\* The Agent closes its socket or the transport breaks.
Drop(c) ==
    /\ sock[c] = "open"
    /\ sock' = [sock EXCEPT ![c] = "down"]
    /\ UNCHANGED <<tableVars, lockVars, appVars, dbVars, hpc, cancelled, old, msg,
                   silent, netVars, callVars, fut>>

\* The offline threshold passes without a message.
Age(c) ==
    /\ Current(c) /\ c \notin silent
    /\ silent' = silent \cup {c}
    /\ UNCHANGED <<tableVars, lockVars, appVars, dbVars, hpc, cancelled, old, msg,
                   sock, netVars, callVars, fut>>

\* The Agent reads a request, executes it and answers on the same connection;
\* a connection lost meanwhile loses the answer.
AgentServe(c, k) ==
    /\ k \in wire[c]
    /\ wire' = [wire EXCEPT ![c] = @ \ {k}]
    /\ executed' = [executed EXCEPT ![k] = @ + 1]
    /\ \/ sock[c] = "open" /\ inbox' = [inbox EXCEPT ![c] = @ \cup {k}]
       \/ sock[c] = "down" /\ UNCHANGED inbox
    /\ UNCHANGED <<tableVars, lockVars, appVars, dbVars, connVars, callVars, fut>>

-----------------------------------------------------------------------------
(* A caller of ConnectionRegistry.request.                                 *)

Ends(k, result) ==
    /\ cpc' = [cpc EXCEPT ![k] = "finishing"]
    /\ outcome' = [outcome EXCEPT ![k] = result]

\* No connection: "device is offline", raised before anything is registered.
RequestOffline(k) ==
    /\ cpc[k] = "idle" /\ conns[Target[k]] = None
    /\ cpc' = [cpc EXCEPT ![k] = "done"]
    /\ outcome' = [outcome EXCEPT ![k] = "offline"]
    /\ UNCHANGED <<tableVars, lockVars, appVars, dbVars, connVars, netVars, owner,
                   via, fut>>

\* The connection is captured, then the caller has to wait for the lock.
RequestQueues(k) ==
    /\ cpc[k] = "idle" /\ conns[Target[k]] # None /\ ~LockFree
    /\ owner' = [owner EXCEPT ![k] = conns[Target[k]]]
    /\ cpc' = [cpc EXCEPT ![k] = "queued"]
    /\ UNCHANGED <<tableVars, lockVars, appVars, dbVars, connVars, netVars, via,
                   fut, outcome>>

\* The entry is registered for the captured connection and, with no await in
\* between, send() looks the device up again and starts writing to what it
\* finds.  With the lock free the capture belongs to the same step.
RequestAdmitted(k) ==
    LET captured == IF cpc[k] = "queued" THEN owner[k] ELSE conns[Target[k]]
        current == conns[Target[k]]
    IN  /\ cpc[k] \in {"idle", "queued"} /\ captured # None /\ LockFree
        /\ owner' = [owner EXCEPT ![k] = captured]
        /\ pending' = [pending EXCEPT ![k] = captured]
        /\ via' = [via EXCEPT ![k] = current]
        /\ \/ current = None /\ Ends(k, "offline")
           \/ /\ current # None
              /\ cpc' = [cpc EXCEPT ![k] = "sending"]
              /\ UNCHANGED outcome
        /\ UNCHANGED <<conns, lockVars, appVars, dbVars, connVars, netVars, fut>>

\* The frame leaves while send_text is suspended.
Transmit(k) ==
    /\ cpc[k] = "sending" /\ sock[via[k]] = "open"
    /\ wire' = [wire EXCEPT ![via[k]] = @ \cup {k}]
    /\ cpc' = [cpc EXCEPT ![k] = "sent"]
    /\ UNCHANGED <<tableVars, lockVars, appVars, dbVars, connVars, inbox, executed,
                   owner, via, fut, outcome>>

StillCurrent(k) == conns[Target[k]] = via[k]

\* fault: a call whose connection was replaced is sent again
SendReturnsReplaying(k) ==
    /\ cpc[k] = "sent"
    /\ \/ StillCurrent(k) /\ cpc' = [cpc EXCEPT ![k] = "waiting"] /\ UNCHANGED via
       \/ /\ ~StillCurrent(k) /\ conns[Target[k]] # None
          /\ cpc' = [cpc EXCEPT ![k] = "sending"]
          /\ via' = [via EXCEPT ![k] = conns[Target[k]]]
    /\ UNCHANGED <<tableVars, lockVars, appVars, dbVars, connVars, netVars, owner,
                   fut, outcome>>

\* send_text returns; a connection replaced meanwhile makes the outcome
\* ambiguous and is reported, never replayed.
SendReturns(k) ==
    /\ cpc[k] = "sent"
    /\ \/ /\ StillCurrent(k)
          /\ cpc' = [cpc EXCEPT ![k] = "waiting"]
          /\ UNCHANGED outcome
       \/ ~StillCurrent(k) /\ Ends(k, "unavailable")
    /\ UNCHANGED <<tableVars, lockVars, appVars, dbVars, connVars, netVars, owner,
                   via, fut>>

\* send_text raises: the caller retires the connection itself.
SendFails(k) ==
    /\ cpc[k] \in {"sending", "sent"} /\ sock[via[k]] = "down"
    /\ cpc' = [cpc EXCEPT ![k] = "retiring"]
    /\ UNCHANGED <<tableVars, lockVars, appVars, dbVars, connVars, netVars, owner,
                   via, fut, outcome>>

CallRetires(k) ==
    /\ cpc[k] = "retiring"
    /\ \/ DisconnectCommit(k, via[k]) /\ UNCHANGED <<cpc, outcome>>
       \/ DisconnectRemove(k, via[k]) /\ Ends(k, "unavailable")
       \/ DisconnectReplaced(via[k]) /\ Ends(k, "unavailable")
       \/ DisconnectFault(via[k]) /\ Ends(k, "error")
    /\ UNCHANGED <<appVars, connVars, netVars, owner, via>>

\* The future is set, or the timeout passes first.
Answered(k) ==
    /\ cpc[k] = "waiting" /\ fut[k] # "none"
    /\ Ends(k, IF fut[k] = "result" THEN "result" ELSE "unavailable")
    /\ UNCHANGED <<tableVars, lockVars, appVars, dbVars, connVars, netVars, owner,
                   via, fut>>

\* fault: the timeout covers only a call whose connection is still current
TimesOutWhileConnected(k) ==
    /\ cpc[k] = "waiting" /\ StillCurrent(k)
    /\ Ends(k, "timeout")
    /\ UNCHANGED <<tableVars, lockVars, appVars, dbVars, connVars, netVars, owner,
                   via, fut>>

TimesOut(k) ==
    /\ cpc[k] = "waiting"
    /\ Ends(k, "timeout")
    /\ UNCHANGED <<tableVars, lockVars, appVars, dbVars, connVars, netVars, owner,
                   via, fut>>

\* fault: only a call whose future is set cleans up
DropAnsweredEntry(k) ==
    pending' = [pending EXCEPT ![k] = IF fut[k] = "none" THEN @ ELSE None]
DropOwnEntry(k) == pending' = [pending EXCEPT ![k] = None]

\* The finally clause takes the lock and drops the call's own entry.
Finish(k) ==
    /\ cpc[k] = "finishing" /\ LockFree
    /\ DropOwnEntry(k)
    /\ cpc' = [cpc EXCEPT ![k] = "done"]
    /\ UNCHANGED <<conns, lockVars, appVars, dbVars, connVars, netVars, owner, via,
                   fut, outcome>>

\* The caller is cancelled: before the entry exists it simply ends; while
\* sending or waiting it runs the finally clause; while retiring a connection
\* it lets go of the lock; and in the finally clause itself, waiting for the
\* lock, it leaves its entry behind.
CancelCall(k) ==
    /\ \/ /\ cpc[k] = "queued"
          /\ cpc' = [cpc EXCEPT ![k] = "done"]
          /\ outcome' = [outcome EXCEPT ![k] = "cancelled"]
          /\ UNCHANGED <<lock, written>>
       \/ /\ cpc[k] \in {"sending", "sent", "retiring", "waiting"}
          /\ Ends(k, "cancelled")
          /\ IF lock = k THEN Release ELSE UNCHANGED <<lock, written>>
       \/ /\ cpc[k] = "finishing" /\ ~LockFree
          /\ cpc' = [cpc EXCEPT ![k] = "done"]
          /\ outcome' = [outcome EXCEPT ![k] = "cancelled"]
          /\ UNCHANGED <<lock, written>>
    /\ UNCHANGED <<tableVars, todo, expired, appVars, dbVars, connVars, netVars,
                   owner, via, fut>>

-----------------------------------------------------------------------------
(* The specification.                                                      *)

Init ==
    /\ row = [d \in Device |-> "OFFLINE"] /\ abandoned = {}
    /\ conns = [d \in Device |-> None]
    /\ pending = [k \in Call |-> None]
    /\ lock = "free" /\ written = None /\ todo = {} /\ expired = {}
    /\ ready = TRUE /\ stopping = "no"
    /\ hpc = [c \in Conn |-> "new"] /\ cancelled = {}
    /\ old = [c \in Conn |-> None] /\ msg = [c \in Conn |-> "ping"]
    /\ sock = [c \in Conn |-> "none"] /\ silent = {}
    /\ wire = [c \in Conn |-> {}] /\ inbox = [c \in Conn |-> {}]
    /\ executed = [k \in Call |-> 0]
    /\ cpc = [k \in Call |-> "idle"]
    /\ owner = [k \in Call |-> None] /\ via = [k \in Call |-> None]
    /\ fut = [k \in Call |-> "none"] /\ outcome = [k \in Call |-> "none"]
    /\ faults = 0 /\ restarts = 0

HandlerStep(c) ==
    \/ PublishCommit(c) \/ PublishRefused(c) \/ Install(c) \/ CloseOld(c)
    \/ Resolve(c) \/ HandlerRetire(c) \/ HandlerRemove(c)

ConnectionEvent(c) ==
    \/ Accept(c) \/ Leave(c) \/ CancelRegister(c) \/ EndServing(c)
    \/ Drop(c) \/ Age(c)
    \/ \E m \in Call \cup {"ping"} : Receive(c, m)
    \/ \E k \in Call : AgentServe(c, k)

MonitorStep ==
    \/ MonitorBegin \/ (\E c \in Conn : ExpireCommit(c)) \/ ExpireRemove
    \/ ExpireFault \/ MonitorEnd

ShutdownStep == CloseBegin \/ (\E c \in Conn : CloseDevice(c)) \/ CloseEnd

CallStep(k) ==
    \/ RequestAdmitted(k) \/ SendReturns(k) \/ CallRetires(k)
    \/ Answered(k) \/ Finish(k)

CallEvent(k) ==
    \/ RequestOffline(k) \/ RequestQueues(k) \/ Transmit(k) \/ SendFails(k)
    \/ TimesOut(k) \/ CancelCall(k)

Next ==
    \/ \E c \in Conn : HandlerStep(c) \/ ConnectionEvent(c)
    \/ \E k \in Call : CallStep(k) \/ CallEvent(k)
    \/ \E d \in Device : Revoke(d)
    \/ MonitorCheckFails \/ MonitorStep
    \/ BeginShutdown \/ ShutdownStep \/ Restart

Spec == Init /\ [][Next]_vars

(* The event loop runs every task that can run, and asyncio.Lock hands the *)
(* lock to its waiters in order: a task waiting for it again and again is  *)
(* not overtaken forever (strong fairness).  asyncio.timeout always fires. *)
(* A write to a transport completes or fails, a broken transport is        *)
(* reported to the handler, and a device that cannot be heard any more     *)
(* passes the threshold.  A process past close() ends.  Nothing makes an   *)
(* Agent connect, answer or ping, or a caller issue a request.             *)
Fairness ==
    /\ \A c \in Conn :
        /\ SF_vars(HandlerStep(c))
        /\ WF_vars(sock[c] = "down" /\ EndServing(c))
        /\ WF_vars((sock[c] = "down" \/ row[DeviceOf[c]] = "REVOKED") /\ Age(c))
    /\ SF_vars(MonitorStep) /\ SF_vars(ShutdownStep)
    /\ WF_vars(stopping = "closed" /\ Restart)
    /\ \A k \in Call :
        /\ SF_vars(cpc[k] # "idle" /\ CallStep(k))
        /\ WF_vars(TimesOut(k)) /\ WF_vars(Transmit(k) \/ SendFails(k))

FairSpec == Spec /\ Fairness

-----------------------------------------------------------------------------
(* Types.                                                                  *)

DbTypes ==
    /\ row \in [Device -> Status] /\ abandoned \in SUBSET Device
    /\ faults \in Nat /\ restarts \in Nat
    /\ ready \in BOOLEAN /\ stopping \in {"no", "closing", "closed"}

TableTypes ==
    /\ conns \in [Device -> Conn \cup {None}]
    /\ lock \in {"free", "monitor", "shutdown"} \cup Conn \cup Call
    /\ written \in Conn \cup {None}
    /\ todo \in SUBSET Conn /\ expired \in SUBSET Conn

ConnTypes ==
    /\ hpc \in [Conn -> {"new", "welcomed", "publishing", "replacing", "serving",
                         "touched", "closing", "abandoning", "retiring", "closed"}]
    /\ cancelled \in SUBSET Conn
    /\ old \in [Conn -> Conn \cup {None}]
    /\ msg \in [Conn -> Call \cup {"ping"}]
    /\ sock \in [Conn -> {"none", "open", "down"}]
    /\ silent \in SUBSET Conn
    /\ wire \in [Conn -> SUBSET Call] /\ inbox \in [Conn -> SUBSET Call]

CallTypes ==
    /\ pending \in [Call -> Conn \cup {None}]
    /\ executed \in [Call -> Nat]
    /\ cpc \in [Call -> {"idle", "queued", "sending", "sent", "retiring", "waiting",
                         "finishing", "done"}]
    /\ owner \in [Call -> Conn \cup {None}]
    /\ via \in [Call -> Conn \cup {None}]
    /\ fut \in [Call -> {"none", "result", "failed"}]
    /\ outcome \in [Call -> {"none", "result", "offline", "unavailable", "timeout",
                             "cancelled", "error", "lost"}]

\* Every variable has its type.
TypeOK == DbTypes /\ TableTypes /\ ConnTypes /\ CallTypes

-----------------------------------------------------------------------------
(* What the lock protects: the inductive part of the safety properties.    *)

\* A publication holds the lock and has its row ONLINE or revoked meanwhile.
PublishingHoldsLock ==
    \A c \in Conn : hpc[c] = "publishing" =>
        lock = c /\ row[DeviceOf[c]] # "OFFLINE"

\* While a row has been committed and its entry is still there, the lock is
\* held, the connection is current, and nobody has made the row ONLINE again.
WrittenIsRetiring ==
    written # None =>
        /\ lock \notin {"free", "shutdown"}
        /\ conns[DeviceOf[written]] = written
        /\ row[DeviceOf[written]] # "ONLINE"
        /\ lock = "monitor" => written \in silent

\* What the monitor or close() has still to visit is in the table.
TodoIsCurrent ==
    \A c \in todo : lock \in {"monitor", "shutdown"} /\ conns[DeviceOf[c]] = c

\* A connection that was never accepted is nowhere to be found.
NewIsUnused ==
    \A c \in Conn : hpc[c] = "new" =>
        /\ sock[c] = "none" /\ c \notin expired
        /\ \A d \in Device : conns[d] # c
        /\ \A x \in Conn : old[x] # c

\* A call retires a connection only after its transport has failed.
RetiringIsDown ==
    \A k \in Call :
        /\ cpc[k] \in {"sending", "sent", "retiring"} => via[k] \in Conn
        /\ cpc[k] = "retiring" => sock[via[k]] = "down"

\* From publication on, an open connection that is current and not silent has
\* its row ONLINE or revoked.
ServedIsOnline ==
    \A c \in Conn :
        (conns[DeviceOf[c]] = c /\ hpc[c] \in {"replacing", "serving", "touched"}
            /\ sock[c] = "open" /\ c \notin silent) => row[DeviceOf[c]] # "OFFLINE"

-----------------------------------------------------------------------------
(* What is known of a call: the inductive part of what callers rely on.     *)

\* The table holds connections of the right device, past their publication; a
\* closed one is there only because a transaction failed.
TableIsServed ==
    \A d \in Device : conns[d] # None =>
        /\ DeviceOf[conns[d]] = d
        /\ hpc[conns[d]] \notin {"new", "welcomed", "publishing"}
        /\ hpc[conns[d]] = "closed" => faults > 0

\* A call has no entry before it is admitted; then it has one, of the
\* connection it captured, until its future is set or it ends.
EntryIsOwners ==
    \A k \in Call :
        /\ cpc[k] \in {"idle", "queued"} => pending[k] = None /\ fut[k] = "none"
        /\ pending[k] \in {None, owner[k]}
        /\ cpc[k] \in {"sending", "sent", "waiting"} /\ fut[k] = "none" => pending[k] = owner[k]
        /\ outcome[k] = "none" <=> cpc[k] \notin {"finishing", "done"}
        /\ cpc[k] = "done" /\ pending[k] # None => outcome[k] = "cancelled"

\* A request or its answer is under way on the one connection it was sent over,
\* a request before and an answer after its one execution; what was not sent, or
\* was refused as offline, is nowhere.
SentOnce ==
    \A k \in Call :
        /\ executed[k] \in {0, 1}
        /\ \A c \in Conn :
            /\ k \in wire[c] => via[k] = c /\ executed[k] = 0
            /\ k \in inbox[c] \/ msg[c] = k => via[k] = c /\ executed[k] = 1
        /\ cpc[k] \in {"idle", "queued", "sending"} \/ outcome[k] = "offline" =>
            executed[k] = 0 /\ \A c \in Conn : k \notin wire[c]
        /\ fut[k] = "result" => owner[k] = via[k] /\ executed[k] = 1
        /\ outcome[k] = "result" => executed[k] = 1

\* The connection a call is sent over is past its publication, and when its
\* handler ends the call is told, unless a transaction failed.
SentIsServed ==
    \A k \in Call : cpc[k] \in {"sending", "sent", "waiting"} =>
        /\ via[k] \in Conn /\ hpc[via[k]] \notin {"new", "welcomed", "publishing"}
        /\ fut[k] = "none" /\ owner[k] = via[k] /\ hpc[via[k]] = "closed" => faults > 0

CallDiscipline == TableIsServed /\ EntryIsOwners /\ SentOnce /\ SentIsServed

-----------------------------------------------------------------------------
(* Properties.                                                             *)

\* An ONLINE row is backed: the table holds a connection of the device, or one
\* is being published under the lock, or an earlier process left the row behind.
\* (The commit-then-publish protocol of register, disconnect, expire, close.)
PresenceBacked ==
    \A d \in Device : row[d] = "ONLINE" =>
        \/ conns[d] # None \/ d \in abandoned
        \/ \E c \in Conn : hpc[c] = "publishing" /\ DeviceOf[c] = d

\* The inductive invariant: types and what the lock protects.
Discipline ==
    /\ PublishingHoldsLock /\ WrittenIsRetiring /\ TodoIsCurrent
    /\ NewIsUnused /\ RetiringIsDown /\ ServedIsOnline /\ PresenceBacked
IInv == TypeOK /\ Discipline

Healthy(c) ==
    /\ conns[DeviceOf[c]] = c /\ hpc[c] = "serving" /\ sock[c] = "open" /\ c \notin silent

\* A current connection that is open and heard from has its row ONLINE, unless
\* the device was revoked: no late cleanup of another connection, expiry or
\* interrupted retirement leaves a served device OFFLINE.
HealthyIsOnline == \A c \in Conn : Healthy(c) => row[DeviceOf[c]] # "OFFLINE"

KeepsRevoked == \A d \in Device : row[d] = "REVOKED" => row'[d] = "REVOKED"
\* Revocation is final: no presence update of any task overwrites it.
RevokedSticky == [][KeepsRevoked]_vars

KeepsHealthy ==
    \A c \in Conn : Healthy(c) =>
        conns'[DeviceOf[c]] # None \/ lock = "shutdown" \/ restarts' > restarts

\* A healthy connection leaves the table only when a newer one of its device is
\* published or the process shuts down or ends: the cleanup of an older
\* connection and the monitor never remove it.
HealthyKept == [][KeepsHealthy]_vars

Unreachable(d) == \A c \in Conn : DeviceOf[c] = d => sock[c] # "open"

\* Once every transport of a device is gone for good, its row ends up other
\* than ONLINE, even if a cleanup transaction fails; the exception is a row that
\* a finished process left behind.
OfflineUnlessAbandoned ==
    \A d \in Device :
        <>[]Unreachable(d) => <>[](row[d] # "ONLINE" \/ d \in abandoned)

\* A revoked device loses its registered connection, whether its Agent keeps
\* sending or falls silent.
RevokedIsCutOff == \A d \in Device : row[d] = "REVOKED" ~> conns[d] = None

\* A caller is not left waiting on a connection whose handler is gone, unless a
\* failed transaction cut the handler's cleanup short.  (Calls that captured
\* one connection and were sent over another are the subject of
\* AnswerReachesCaller.)
WaiterIsReleased ==
    \A k \in Call :
        (cpc[k] = "waiting" /\ fut[k] = "none" /\ owner[k] = via[k]
            /\ hpc[via[k]] = "closed") => faults > 0

\* An entry outlives its call only if the caller was cancelled in the finally
\* clause that removes it.
LeakOnlyByCancel ==
    \A k \in Call : pending[k] # None /\ cpc[k] = "done" => outcome[k] = "cancelled"

\* A call is answered over the connection it was registered for and sent over,
\* and only after an Agent executed it.
AnswerIsOwn ==
    \A k \in Call : fut[k] = "result" => owner[k] = via[k] /\ executed[k] = 1

\* Every request returns.
EveryCallReturns == \A k \in Call : (cpc[k] # "idle") ~> (cpc[k] = "done")

\* The docstring of request(): it sends once and awaits the response with the
\* same request ID.  A handler that resolves the answer of a call which is
\* still waiting sets the call's future.
AnswerReachesCaller ==
    [][\A c \in Conn, k \in Call :
        (hpc[c] = "touched" /\ msg[c] = k /\ Resolve(c)
            /\ cpc[k] = "waiting" /\ fut[k] = "none") => fut'[k] = "result"]_vars

\* What request() promises, as an abstract specification.
Promise == INSTANCE RemoteCall WITH
    phase <- [k \in Call |-> IF cpc[k] \in {"idle", "done"} THEN cpc[k] ELSE "open"],
    runs <- executed,
    verdict <- [k \in Call |-> IF cpc[k] = "done" THEN outcome[k] ELSE "none"]

\* The registry implements it.
ImplementsRemoteCall == Promise!Spec

=============================================================================
