----------------------------- MODULE AgentClient -----------------------------
(***************************************************************************)
(* The Agent's outbound client: AgentClient.run, _connected and _heartbeat *)
(* (agent/client.py), the dispatcher it serves requests with               *)
(* (agent/dispatcher.py), the backoff (agent/reconnect.py) and the command *)
(* that runs it all under asyncio.run (agent/__main__.py).                 *)
(*                                                                         *)
(* The main task is a program counter: "idle" is the head of run()'s loop; *)
(* "connecting", "greeting", "receiving", "dispatching", "replying",       *)
(* "retiring" (the finally clause, awaiting the heartbeat) and "leaving"   *)
(* (the socket being closed) are the awaits of _connected; "waiting" is    *)
(* the backoff.  `failure` is the exception in flight.  The heartbeat is a *)
(* second task on the same event loop.                                     *)
(***************************************************************************)
EXTENDS Integers, FiniteSets

CONSTANTS
    Request,        \* requests the Gateway may send, each of them once
    None,           \* no request
    MaxExponent     \* the attempt whose 2**attempt exceeds a float: 1024

ASSUME RequestAssumption == None \notin Request
ASSUME ExponentAssumption == MaxExponent \in Nat

VARIABLES
    pc,         \* where the main task stands
    failure,    \* what is being raised: none, retry, fatal or cancel
    attempt,    \* backoff_attempt
    welcomed,   \* history: served by the Gateway since the last backoff
    stop,       \* stop_event
    interrupt,  \* whether the keyboard interrupt has come
    sock,       \* the socket; "silent": nobody at the other end any more
    beat,       \* the heartbeat task: none, alive, dead (raised) or over
    sent,       \* requests the Gateway has sent
    inbox,      \* those this connection has received and nobody has read
    req,        \* the request being served
    orphans,    \* requests whose thread outlived the dispatch that started it
    executed,   \* how many times each request has had its effect
    answered    \* requests whose answer was written to their connection

runVars == <<pc, failure, attempt, welcomed>>
signalVars == <<stop, interrupt>>
linkVars == <<sock, beat>>
workVars == <<sent, inbox, req, orphans, executed, answered>>
vars == <<runVars, signalVars, linkVars, workVars>>

Serving == {"receiving", "dispatching", "replying"}

-----------------------------------------------------------------------------
(* run()                                                                   *)

\* fault: only a connection that was never welcomed is tried again
AfterUnwelcomed(kind) ==
    IF kind = "none" THEN "idle"
    ELSE IF kind = "retry" /\ ~stop /\ attempt < MaxExponent /\ ~welcomed
         THEN "waiting" ELSE "ended"
\* fault: the cancellation is caught with what is worth a retry
AfterCatchingCancel(kind) ==
    IF kind = "none" THEN "idle"
    ELSE IF kind \in {"retry", "cancel"} /\ ~stop /\ attempt < MaxExponent
         THEN "waiting" ELSE "ended"
\* fault: the delay is computed for one attempt too many
AfterOverflow(kind) ==
    IF kind = "none" THEN "idle"
    ELSE IF kind = "retry" /\ ~stop /\ attempt <= MaxExponent
         THEN "waiting" ELSE "ended"
\* Where the end of a connection leads: `except` catches what is worth a retry,
\* and computes the delay of the attempt, in floating point.
After(kind) ==
    IF kind = "none" THEN "idle"
    ELSE IF kind = "retry" /\ ~stop /\ attempt < MaxExponent
         THEN "waiting" ELSE "ended"

ConnectionEnds(kind) ==
    /\ pc' = After(kind)
    /\ failure' = kind
    /\ attempt' = IF kind = "none" THEN 0 ELSE attempt
    /\ UNCHANGED welcomed

LoopHead ==
    /\ pc = "idle"
    /\ pc' = IF stop THEN "ended" ELSE "connecting"
    /\ failure' = "none"
    /\ UNCHANGED <<attempt, welcomed, signalVars, linkVars, workVars>>

\* The delay passes, or the stop event cuts it short.
BackoffOver ==
    /\ pc = "waiting"
    /\ pc' = "idle" /\ attempt' = attempt + 1 /\ welcomed' = FALSE
    /\ UNCHANGED <<failure, signalVars, linkVars, workVars>>

-----------------------------------------------------------------------------
(* _connected()                                                            *)

\* The head of the receive loop: the stop event is looked at between messages.
NextMessage == pc' = IF stop THEN "retiring" ELSE "receiving"

Connected ==
    /\ pc = "connecting"
    /\ pc' = "greeting" /\ sock' = "open"
    /\ UNCHANGED <<failure, attempt, welcomed, signalVars, beat, workVars>>

\* The connection is refused or times out; the stored Gateway URL or device id
\* may also be unusable.
ConnectFails ==
    /\ pc = "connecting"
    /\ \E kind \in {"retry", "fatal"} : ConnectionEnds(kind)
    /\ UNCHANGED <<signalVars, linkVars, workVars>>

Welcomed ==
    /\ pc = "greeting" /\ sock = "open"
    /\ NextMessage
    /\ beat' = "alive" /\ welcomed' = TRUE
    /\ UNCHANGED <<failure, attempt, signalVars, sock, workVars>>

\* No welcome in time, somebody else's welcome, or text that does not parse.
GreetingFails ==
    /\ pc = "greeting"
    /\ pc' = "leaving" /\ failure' \in {"retry", "fatal"}
    /\ UNCHANGED <<attempt, welcomed, signalVars, linkVars, workVars>>

Pong ==
    /\ pc = "receiving" /\ sock = "open"
    /\ NextMessage
    /\ UNCHANGED <<failure, attempt, welcomed, signalVars, linkVars, workVars>>

ReceiveRequest(r) ==
    /\ pc = "receiving" /\ r \in inbox
    /\ pc' = "dispatching" /\ req' = r /\ inbox' = inbox \ {r}
    /\ UNCHANGED <<failure, attempt, welcomed, signalVars, linkVars, sent, orphans,
                   executed, answered>>

\* fault: recv has no timeout
ReceiveFailsOnLossOnly ==
    /\ pc = "receiving"
    /\ pc' = "retiring"
    /\ \/ inbox = {} /\ sock = "down" /\ failure' = "retry"
       \/ sock = "open" /\ failure' \in {"retry", "fatal"}
    /\ UNCHANGED <<attempt, welcomed, signalVars, linkVars, workVars>>
\* recv ends: the connection is lost, or nothing has arrived for two heartbeat
\* intervals; or a message is binary, malformed or of another device.
ReceiveFails ==
    /\ pc = "receiving"
    /\ pc' = "retiring"
    /\ \/ inbox = {} /\ failure' = "retry"
       \/ sock = "open" /\ failure' \in {"retry", "fatal"}
    /\ UNCHANGED <<attempt, welcomed, signalVars, linkVars, workVars>>

\* dispatch() returns a result, or an error for whatever was raised.
Dispatched ==
    /\ pc = "dispatching"
    /\ pc' = "replying"
    /\ executed' = executed \/ executed' = [executed EXCEPT ![req] = @ + 1]
    /\ UNCHANGED <<failure, attempt, welcomed, signalVars, linkVars, sent, inbox,
                   req, orphans, answered>>

ReplyFails ==
    /\ pc = "replying" /\ sock = "down"
    /\ pc' = "retiring" /\ failure' = "retry" /\ req' = None
    /\ UNCHANGED <<attempt, welcomed, signalVars, linkVars, sent, inbox, orphans,
                   executed, answered>>

Replied ==
    /\ pc = "replying" /\ sock # "down"
    /\ NextMessage
    /\ answered' = answered \cup {req} /\ req' = None
    /\ UNCHANGED <<failure, attempt, welcomed, signalVars, linkVars, sent, inbox,
                   orphans, executed>>

\* `finally`: the heartbeat is cancelled and awaited.  One that has already
\* raised raises again here, in the place of whatever was in flight.
Retired ==
    /\ pc = "retiring"
    /\ pc' = "leaving"
    /\ beat' = "none"
    /\ failure' = IF beat = "dead" THEN "retry" ELSE failure
    /\ UNCHANGED <<attempt, welcomed, signalVars, sock, workVars>>

\* fault: what the connection received outlives it
KeepUnread == UNCHANGED inbox
ForgetUnread == inbox' = {}

\* The socket is closed; what it received and nobody read goes with it.
Left ==
    /\ pc = "leaving"
    /\ sock' = "none" /\ ForgetUnread
    /\ ConnectionEnds(failure)
    /\ UNCHANGED <<signalVars, beat, sent, req, orphans, executed, answered>>

-----------------------------------------------------------------------------
(* The heartbeat, the Gateway, the network, the thread of an abandoned     *)
(* dispatch, and the two ways to ask the Agent to end.                     *)

\* A ping cannot be sent; nobody looks at the task until it is awaited.  Once
\* it is cancelled it can only be cancelled.
HeartbeatRaises ==
    /\ beat = "alive" /\ sock = "down" /\ pc \in Serving
    /\ beat' = "dead"
    /\ UNCHANGED <<runVars, signalVars, sock, workVars>>

HeartbeatReturns ==
    /\ beat = "alive" /\ stop /\ pc \in Serving
    /\ beat' = "over"
    /\ UNCHANGED <<runVars, signalVars, sock, workVars>>

GatewaySends(r) ==
    /\ sock = "open" /\ pc \in {"greeting", "retiring"} \cup Serving /\ r \notin sent
    /\ sent' = sent \cup {r} /\ inbox' = inbox \cup {r}
    /\ UNCHANGED <<runVars, signalVars, linkVars, req, orphans, executed, answered>>

\* The connection is lost, with some of what was on its way; or the other end
\* vanishes without a word.
LinkLost ==
    /\ \/ sock \in {"open", "silent"} /\ sock' = "down"
       \/ sock = "open" /\ sock' = "silent"
    /\ inbox' \in SUBSET inbox
    /\ UNCHANGED <<runVars, signalVars, beat, sent, req, orphans, executed, answered>>

OrphanEnds(r) ==
    /\ r \in orphans
    /\ orphans' = orphans \ {r}
    /\ executed' = executed \/ executed' = [executed EXCEPT ![r] = @ + 1]
    /\ UNCHANGED <<runVars, signalVars, linkVars, sent, inbox, req, answered>>

Stop ==
    /\ ~stop /\ pc # "ended"
    /\ stop' = TRUE
    /\ UNCHANGED <<runVars, interrupt, linkVars, workVars>>

\* A keyboard interrupt cancels the main task at the await where it stands.  A
\* thread that dispatch() was waiting for goes on by itself.  While the
\* heartbeat is awaited, `suppress(CancelledError)` takes the cancellation for
\* the heartbeat's own.
Interrupt ==
    /\ ~interrupt /\ pc \notin {"idle", "ended"}
    /\ \/ /\ pc \in {"connecting", "waiting"}
          /\ ConnectionEnds("cancel")
          /\ UNCHANGED <<sock, workVars>>
       \/ /\ pc = "greeting"
          /\ pc' = "leaving" /\ failure' = "cancel"
          /\ UNCHANGED <<attempt, welcomed, sock, workVars>>
       \/ /\ pc \in Serving
          /\ pc' = "retiring" /\ failure' = "cancel" /\ req' = None
          /\ \/ pc = "dispatching" /\ orphans' = orphans \cup {req}
             \/ UNCHANGED orphans
          /\ UNCHANGED <<attempt, welcomed, sock, sent, inbox, executed, answered>>
       \/ /\ pc = "retiring" /\ beat = "alive"
          /\ UNCHANGED <<runVars, sock, workVars>>
       \/ /\ pc = "leaving"
          /\ sock' = "none" /\ inbox' = {}
          /\ ConnectionEnds("cancel")
          /\ UNCHANGED <<sent, req, orphans, executed, answered>>
    /\ interrupt' = TRUE
    /\ UNCHANGED <<stop, beat>>

-----------------------------------------------------------------------------
(* The specification.                                                      *)

Init ==
    /\ pc = "idle" /\ failure = "none" /\ attempt = 0 /\ welcomed = FALSE
    /\ stop = FALSE /\ interrupt = FALSE
    /\ sock = "none" /\ beat = "none"
    /\ sent = {} /\ inbox = {} /\ req = None /\ orphans = {}
    /\ executed = [r \in Request |-> 0] /\ answered = {}

ReceiveStep == Pong \/ ReceiveFails \/ \E r \in Request : ReceiveRequest(r)

MainStep ==
    \/ LoopHead \/ BackoffOver
    \/ Connected \/ ConnectFails \/ Welcomed \/ GreetingFails
    \/ ReceiveStep \/ Dispatched \/ Replied \/ ReplyFails \/ Retired \/ Left

Surroundings ==
    \/ HeartbeatRaises \/ HeartbeatReturns \/ LinkLost \/ Stop \/ Interrupt
    \/ \E r \in Request : GatewaySends(r) \/ OrphanEnds(r)

Next == MainStep \/ Surroundings

Spec == Init /\ [][Next]_vars

(* Every await of the main task ends: connecting, the welcome and recv are *)
(* under a timeout, close() has one of its own, a write completes or       *)
(* fails, the backoff is capped, and what dispatch() calls returns.  The   *)
(* last is assumed, not shown: cancelling a command whose child was never  *)
(* in its Job Object may not return on Windows (Jobs, Escaped), and then   *)
(* none of the liveness properties here holds.  A connection may be kept   *)
(* up by pongs forever, unless the stop event is set or a request is       *)
(* waiting; nothing makes the Gateway send or answer, nor an interrupt or  *)
(* a stop come.                                                            *)
MustMove == pc = "receiving" => stop \/ sock # "open" \/ inbox # {}

FairSpec == Spec /\ WF_vars(MustMove /\ MainStep)

-----------------------------------------------------------------------------
(* Types and how the variables hang together: the inductive part.          *)

\* Every variable has its type.
TypeOK ==
    /\ pc \in {"idle", "connecting", "greeting", "leaving", "retiring", "waiting",
               "ended"} \cup Serving
    /\ failure \in {"none", "retry", "fatal", "cancel"}
    /\ attempt \in 0..MaxExponent
    /\ welcomed \in BOOLEAN /\ stop \in BOOLEAN /\ interrupt \in BOOLEAN
    /\ sock \in {"none", "open", "silent", "down"}
    /\ beat \in {"none", "alive", "dead", "over"}
    /\ sent \in SUBSET Request /\ inbox \in SUBSET sent
    /\ req \in sent \cup {None} /\ orphans \in SUBSET sent
    /\ executed \in [Request -> Nat] /\ answered \in SUBSET sent

\* There is a socket from the connection to its closing, and it alone has
\* anything unread.
SocketIsLocal ==
    /\ sock = "none" <=> pc \in {"idle", "connecting", "waiting", "ended"}
    /\ sock = "none" => inbox = {}

\* A request is in one place: unread, being served, adrift or answered.
RequestsApart ==
    /\ req # None <=> pc \in {"dispatching", "replying"}
    /\ req \notin inbox \cup orphans \cup answered
    /\ inbox \cap (orphans \cup answered) = {} /\ orphans \cap answered = {}

\* While the backoff runs, its delay could be computed.
DelayIsFinite == pc = "waiting" => attempt < MaxExponent

-----------------------------------------------------------------------------
(* Properties.                                                             *)

\* The heartbeat task exists exactly while its connection is served: none is
\* left behind by a connection, however it ended, and none is missing.
HeartbeatIsOwned == beat # "none" <=> pc \in Serving \cup {"retiring"}

\* run() ends because it was asked to, for an error that no retry would mend,
\* or because the delay of the attempt could not be computed.
EndsForAReason ==
    pc = "ended" => stop \/ failure \in {"cancel", "fatal"} \/ attempt = MaxExponent

\* The inductive invariant.
IInv ==
    /\ TypeOK /\ SocketIsLocal /\ RequestsApart /\ DelayIsFinite
    /\ HeartbeatIsOwned /\ EndsForAReason

\* A cancellation is in flight, and the heartbeat has not raised before it.
Cancelling == failure = "cancel" /\ beat # "dead"

\* The stop event ends run() wherever it finds it, and so does a cancellation in
\* flight, through the heartbeat's end and the closing of the socket.  Not every
\* interrupt comes to that: one delivered while `finally` awaits the heartbeat is
\* taken for the heartbeat's own cancellation (Interrupt), over an open socket
\* too, and one raised while the heartbeat has died of the lost connection gives
\* way to its error (Retired).  In these two cases run() goes on.
EndIsObeyed == (stop \/ Cancelling) ~> pc = "ended"

\* A connection that is lost, or silent, does not hold the Agent: it comes to
\* try another one, or ends.
LossIsNoticed == sock \in {"silent", "down"} ~> pc \in {"connecting", "ended"}

\* tests/unit/test_agent_client.py names it: the backoff "resets after success".
\* The first wait after a connection that the Gateway welcomed is the shortest.
BackoffResets == pc = "waiting" /\ welcomed => attempt = 0

\* Where a request is, in Servant's terms.
Life(r) ==
    IF r \in answered THEN "answered"
    ELSE IF r = req THEN (IF pc = "dispatching" THEN "running" ELSE "ran")
    ELSE IF r \in inbox THEN "queued"
    ELSE IF r \in orphans THEN "adrift"
    ELSE IF r \in sent THEN "lost" ELSE "unsent"

Promise == INSTANCE Servant WITH
    line <- sock # "none", life <- [r \in Request |-> Life(r)], runs <- executed

\* The client serves as Servant says.
ImplementsServant == Promise!Spec

=============================================================================
