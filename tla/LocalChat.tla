------------------------------ MODULE LocalChat ------------------------------
(***************************************************************************)
(* `gptlink local --chat` (cli/main.py): a session that lets a chat model  *)
(* propose actions on the workspace.  It gathers its context, and then     *)
(* takes turns: the user says something, ChatOrchestrator.run_turn         *)
(* (chat/orchestrator.py) carries proposals and results between the model  *)
(* and LocalRuntime.execute (local/runtime.py), which authorizes           *)
(* (local/approvals.py), dispatches (agent/dispatcher.py) and audits       *)
(* (local/audit.py).                                                       *)
(*                                                                         *)
(* One task does it all: `pc` is the await where it stands.  The operator  *)
(* is asked, and files are written, in threads, which outlive a task that  *)
(* is cancelled.  A proposal is named by its turn and its id; turn 0 is    *)
(* the context.  "read" stands for the nine tools that change nothing.     *)
(***************************************************************************)
EXTENDS Integers, AtomicWrite

CONSTANTS
    Id,         \* action ids
    None,       \* no tool
    MaxActions, \* local_max_actions_per_turn
    MaxTurns    \* bound: turns of the session

ASSUME ChatAssumption ==
    /\ MaxActions \in Nat \ {0} /\ MaxTurns \in Nat \ {0}
    /\ None \notin {"read", "write", "start"}
    /\ Writer = (0..MaxTurns) \X Id

Proposal == (0..MaxTurns) \X Id
Tool == {"read", "write", "start"}
Mutating == {"write", "start"}

VARIABLES
    pc,         \* where the session's task stands
    turn,
    seen,       \* ids handled in this turn
    left,       \* iterations left to it
    cur,        \* the proposal in hand
    status,     \* the status execute() will record
    raised,     \* what execute() is left by: none, or a cancellation
    interrupt,  \* Ctrl-C: none, pending until the next await, or delivered
    permission,
    granted,    \* SessionApprover._session_tools
    tool,       \* history: the tool of each proposal
    asked,      \* proposals whose prompt is open
    answer,     \* the operator's answers
    deeds,      \* history: how often each proposal had its effect
    log,        \* the audit record of each proposal
    told        \* history: what the model was told of each

taskVars == <<pc, turn, seen, left, cur, status, raised, interrupt>>
consentVars == <<permission, granted, tool, asked, answer>>
effectVars == <<deeds, log, told>>
vars == <<taskVars, consentVars, effectVars, fileVars>>

-----------------------------------------------------------------------------
(* The turn.                                                               *)

\* The backend is healthy and a conversation attached, or the command ends.
Attach ==
    /\ pc = "checking"
    /\ pc' \in {"gathering", "ended"}
    /\ UNCHANGED <<turn, seen, left, cur, status, raised, interrupt, consentVars,
                   effectVars, fileVars>>

\* collect_workspace_context: a listing, some files and the Git status.
Gather(i) ==
    /\ pc = "gathering" /\ tool[<<0, i>>] = None
    /\ pc' = "deciding" /\ cur' = <<0, i>>
    /\ tool' = [tool EXCEPT ![<<0, i>>] = "read"]
    /\ UNCHANGED <<turn, seen, left, status, raised, interrupt, permission, granted,
                   asked, answer, effectVars, fileVars>>

TurnBegins ==
    /\ pc' = "sending" /\ turn' = turn + 1 /\ seen' = {} /\ left' = MaxActions
    /\ UNCHANGED <<cur, status, raised, interrupt, consentVars, effectVars, fileVars>>

Gathered == pc = "gathering" /\ TurnBegins

\* The prompt blocks the event loop: an interrupt that found it there is raised
\* at the first await of the next turn.
UserSpeaks == pc = "user" /\ interrupt # "pending" /\ turn < MaxTurns /\ TurnBegins

UserLeaves ==
    /\ pc = "user"
    /\ pc' = "ended"
    /\ UNCHANGED <<turn, seen, left, cur, status, raised, interrupt, consentVars,
                   effectVars, fileVars>>

\* fault: one iteration too many
ExhaustedLate == left < 0
\* `for _ in range(max_actions_per_turn)` is through.
Exhausted == left = 0

\* fault: an id is taken for handled only once it is reported
HandledIfReported(i) == <<turn, i>> \in {p \in Proposal : told[p] = "ok"}
Handled(i) == i \in seen

\* The answer is final, malformed, or one too many for the turn.
TurnEnds ==
    /\ pc = "sending"
    /\ pc' = "user"
    /\ UNCHANGED <<turn, seen, left, cur, status, raised, interrupt, consentVars,
                   effectVars, fileVars>>

\* An id handled in this turn is reported as a duplicate.
Duplicate(i) ==
    /\ pc = "sending" /\ ~Exhausted /\ Handled(i)
    /\ left' = left - 1
    /\ UNCHANGED <<pc, turn, seen, cur, status, raised, interrupt, consentVars,
                   effectVars, fileVars>>

Proposed(i, t) ==
    /\ pc = "sending" /\ ~Exhausted /\ ~Handled(i)
    /\ pc' = "deciding" /\ cur' = <<turn, i>> /\ seen' = seen \cup {i}
    /\ left' = left - 1
    /\ tool' = [tool EXCEPT ![<<turn, i>>] = t]
    /\ UNCHANGED <<turn, status, raised, interrupt, permission, granted, asked, answer,
                   effectVars, fileVars>>

\* The backend fails, times out or answers for another conversation.
BackendFails ==
    /\ pc = "sending"
    /\ pc' = "ended"
    /\ UNCHANGED <<turn, seen, left, cur, status, raised, interrupt, consentVars,
                   effectVars, fileVars>>

-----------------------------------------------------------------------------
(* execute().                                                              *)

Records(what) == pc' = "recording" /\ status' = what

\* _message() rejects a path, a length or a job id.
Rejected ==
    /\ pc = "deciding"
    /\ \E what \in {"denied", "error"} : Records(what)
    /\ UNCHANGED <<turn, seen, left, cur, raised, interrupt, consentVars, effectVars,
                   fileVars>>

Forbidden == tool[cur] \in Mutating /\ permission = "READ_ONLY"

Granted == tool[cur] \notin Mutating \/ tool[cur] \in granted

PolicyDenies ==
    /\ pc = "deciding" /\ Forbidden
    /\ Records("denied")
    /\ UNCHANGED <<turn, seen, left, cur, raised, interrupt, consentVars, effectVars,
                   fileVars>>

Ask ==
    /\ pc = "deciding" /\ ~Forbidden /\ ~Granted
    /\ pc' = "asking" /\ asked' = asked \cup {cur}
    /\ UNCHANGED <<turn, seen, left, cur, status, raised, interrupt, permission, granted,
                   tool, answer, effectVars, fileVars>>

\* The prompt's thread reads a line, or the end of the input, whether or not
\* the task still waits for it.
OperatorAnswers(p) ==
    /\ p \in asked
    /\ asked' = asked \ {p}
    /\ \E a \in {"once", "session", "deny", "lost"} : answer' = [answer EXCEPT ![p] = a]
    /\ UNCHANGED <<taskVars, permission, granted, tool, effectVars, fileVars>>

\* What dispatch() does at once: a command is started as a job, or is not; a
\* file is written in a thread.
Dispatch ==
    \/ /\ tool[cur] = "start"
       /\ \/ Records("ok") /\ deeds' = [deeds EXCEPT ![cur] = @ + 1]
          \/ Records("error") /\ UNCHANGED deeds
       /\ UNCHANGED fileVars
    \/ /\ tool[cur] = "write"
       /\ pc' = "acting" /\ WriteBegins(cur)
       /\ UNCHANGED <<status, deeds>>
    \/ /\ tool[cur] = "read"
       /\ pc' = "acting"
       /\ UNCHANGED <<status, deeds, fileVars>>

Authorized ==
    /\ pc = "deciding" /\ ~Forbidden /\ Granted
    /\ Dispatch
    /\ UNCHANGED <<turn, seen, left, cur, raised, interrupt, consentVars, log, told>>

\* The task resumes with the answer.
Approved ==
    /\ pc = "asking" /\ answer[cur] \in {"once", "session"}
    /\ granted' = IF answer[cur] = "session" THEN granted \cup {tool[cur]} ELSE granted
    /\ Dispatch
    /\ UNCHANGED <<turn, seen, left, cur, raised, interrupt, permission, tool, asked,
                   answer, log, told>>

Denied ==
    /\ pc = "asking" /\ answer[cur] \in {"deny", "lost"}
    /\ Records(IF answer[cur] = "deny" THEN "denied" ELSE "error")
    /\ UNCHANGED <<turn, seen, left, cur, raised, interrupt, consentVars, effectVars,
                   fileVars>>

ReadReturns ==
    /\ pc = "acting" /\ tool[cur] = "read"
    /\ \/ Records("ok") /\ deeds' = [deeds EXCEPT ![cur] = @ + 1]
       \/ Records("error") /\ UNCHANGED deeds
    /\ UNCHANGED <<turn, seen, left, cur, raised, interrupt, consentVars, log, told,
                   fileVars>>

\* fault: the thread is taken to be over when the file is there
WriteOverWhenThere == stage[cur] = "written"
WriteOver == stage[cur] \in {"written", "failed"}

WriteReturns ==
    /\ pc = "acting" /\ WriteOver
    /\ Records(IF stage[cur] = "written" THEN "ok" ELSE "error")
    /\ UNCHANGED <<turn, seen, left, cur, raised, interrupt, consentVars, effectVars,
                   fileVars>>

\* What the model is told otherwise: `{"ok":true}`, a local_action_error, or
\* "internal_error" when the prompt's input had ended.
Report ==
    IF status = "ok" THEN "ok" ELSE IF answer[cur] = "lost" THEN "unknown" ELSE "failed"

\* execute() is left with its record made: the caller goes on, except after a
\* cancellation.  The model is told at its next message.
Recorded ==
    /\ pc = "recording"
    /\ log' = [log EXCEPT ![cur] = status]
    /\ IF raised = "cancel"
       THEN pc' = "ended" /\ UNCHANGED told
       ELSE /\ pc' = IF turn = 0 THEN "gathering" ELSE "sending"
            /\ told' = [told EXCEPT ![cur] = Report]
    /\ status' = "error"
    /\ UNCHANGED <<turn, seen, left, cur, raised, interrupt, consentVars, deeds, fileVars>>

\* fault: a failing audit is none of the model's business
VerdictOfStatus == IF status = "ok" THEN "ok" ELSE "failed"
\* What the model is told when the record failed: "internal_error".
Verdict == "unknown"

\* The error of the audit takes the place of the result, and of a cancellation:
\* run_turn reports it and goes on.  Nobody catches it around the context.
RecordFails ==
    /\ pc = "recording"
    /\ IF turn = 0
       THEN pc' = "ended" /\ UNCHANGED told
       ELSE pc' = "sending" /\ told' = [told EXCEPT ![cur] = Verdict]
    /\ status' = "error" /\ raised' = "none"
    /\ UNCHANGED <<turn, seen, left, cur, interrupt, consentVars, deeds, log, fileVars>>

-----------------------------------------------------------------------------
(* Interrupts, threads, the end.                                           *)

\* The first Ctrl-C cancels the task where it awaits.  Threads go on: a prompt
\* stays open, a write proceeds, an audit record is made or not.
Interrupt ==
    /\ interrupt = "none"
    /\ \/ /\ pc \in {"checking", "sending"}
          /\ pc' = "ended" /\ interrupt' = "heard"
          /\ UNCHANGED <<status, raised, log>>
       \/ /\ pc = "user"
          /\ interrupt' = "pending"
          /\ UNCHANGED <<pc, status, raised, log>>
       \/ /\ pc \in {"asking", "acting"}
          /\ Records("error") /\ raised' = "cancel" /\ interrupt' = "heard"
          /\ UNCHANGED log
       \/ /\ pc = "recording"
          /\ pc' = "ended" /\ interrupt' = "heard"
          /\ log' = log \/ log' = [log EXCEPT ![cur] = status]
          /\ UNCHANGED <<status, raised>>
    /\ UNCHANGED <<turn, seen, left, cur, consentVars, deeds, told, fileVars>>

\* A write in its thread; moving the file into place is the deed.
Thread(p) ==
    \/ WriteStep(p) /\ UNCHANGED <<taskVars, consentVars, effectVars>>
    \/ /\ Replaced(p)
       /\ deeds' = [deeds EXCEPT ![p] = @ + 1]
       /\ UNCHANGED <<taskVars, consentVars, log, told>>

\* asyncio.run and the interpreter wait for every thread.
Exit ==
    /\ pc = "ended" /\ asked = {} /\ \A p \in Proposal : stage[p] \notin Writing
    /\ pc' = "gone"
    /\ UNCHANGED <<turn, seen, left, cur, status, raised, interrupt, consentVars,
                   effectVars, fileVars>>

\* The machine stops, at any point.
Crash ==
    /\ pc # "gone"
    /\ pc' = "gone" /\ asked' = {}
    /\ PowerLoss
    /\ UNCHANGED <<turn, seen, left, cur, status, raised, interrupt, permission, granted,
                   tool, answer, effectVars>>

-----------------------------------------------------------------------------
Init ==
    /\ pc = "checking" /\ turn = 0 /\ seen = {} /\ left = 0
    /\ cur \in {<<0, i>> : i \in Id} /\ status = "error" /\ raised = "none"
    /\ interrupt = "none"
    /\ permission \in {"READ_ONLY", "READ_WRITE"} /\ granted = {}
    /\ tool = [p \in Proposal |-> None]
    /\ asked = {} /\ answer = [p \in Proposal |-> "none"]
    /\ deeds = [p \in Proposal |-> 0]
    /\ log = [p \in Proposal |-> "none"] /\ told = [p \in Proposal |-> "none"]
    /\ FileInit

TurnStep ==
    \/ Attach \/ Gathered \/ TurnEnds \/ BackendFails
    \/ \E i \in Id : Gather(i) \/ Duplicate(i) \/ \E t \in Tool : Proposed(i, t)

ExecuteStep ==
    \/ PolicyDenies \/ Rejected \/ Ask \/ Authorized \/ Approved \/ Denied
    \/ ReadReturns \/ WriteReturns \/ Recorded \/ RecordFails

Next ==
    \/ TurnStep \/ ExecuteStep \/ UserSpeaks \/ UserLeaves
    \/ \E p \in Proposal : OperatorAnswers(p) \/ Thread(p)
    \/ Interrupt \/ Exit \/ Crash

Spec == Init /\ [][Next]_vars

(* The loop runs what can run: the backend answers or the request times    *)
(* out, and threads that do not wait for a person get on.  Nothing makes   *)
(* the user speak or the operator answer.                                  *)
Fairness ==
    /\ WF_vars(TurnStep \/ ExecuteStep \/ Exit)
    /\ \A p \in Proposal : WF_vars(Thread(p))

FairSpec == Spec /\ Fairness

-----------------------------------------------------------------------------
(* Properties.                                                             *)

\* Every variable has its type; no turn has more iterations than its limit.
TypeOK ==
    /\ pc \in {"checking", "gathering", "user", "sending", "deciding", "asking", "acting",
               "recording", "ended", "gone"}
    /\ turn \in 0..MaxTurns /\ seen \in SUBSET Id /\ left \in 0..MaxActions
    /\ cur \in Proposal /\ status \in {"ok", "denied", "error"} /\ raised \in {"none", "cancel"}
    /\ interrupt \in {"none", "pending", "heard"}
    /\ permission \in {"READ_ONLY", "READ_WRITE"} /\ granted \in SUBSET Mutating
    /\ tool \in [Proposal -> Tool \cup {None}]
    /\ asked \in SUBSET Proposal
    /\ answer \in [Proposal -> {"none", "once", "session", "deny", "lost"}]
    /\ deeds \in [Proposal -> Nat]
    /\ log \in [Proposal -> {"none", "ok", "denied", "error"}]
    /\ told \in [Proposal -> {"none", "ok", "failed", "unknown"}]
    /\ FileType

\* The record says what happened.  What it calls ok happened, what it calls
\* denied did not; what the model is told as a fact is on record; an effect that
\* the record calls an error, or that has no record, is one that an interrupt or
\* the machine cut short, one in hand, or one reported as unknown.
AuditIsFaithful ==
    \A p \in Proposal :
        /\ log[p] = "ok" => deeds[p] = 1
        /\ log[p] = "denied" => deeds[p] = 0
        /\ told[p] = "ok" => log[p] = "ok"
        /\ told[p] = "failed" => log[p] \in {"denied", "error"}
        /\ deeds[p] > 0 /\ log[p] = "error" => interrupt = "heard"
        /\ deeds[p] > 0 /\ log[p] = "none" =>
             \/ told[p] = "unknown" \/ interrupt = "heard" \/ pc \in {"ended", "gone"}
             \/ p = cur /\ pc \in {"acting", "recording"}

Promise == INSTANCE Consent

\* docs/local-chat.md: mutations need the operator, or a grant for their tool,
\* and "Duplicate action IDs are not executed twice in one turn".
ImplementsConsent == Promise!Spec

\* As long as the operator answers every prompt, the session always comes back
\* to its user or ends: a turn ends, and so does an interrupted session.
SessionGoesOn ==
    []<>(asked = {}) =>
        (pc \notin {"user", "gone"} ~> pc \in {"user", "gone"})

-----------------------------------------------------------------------------
(* How the variables hang together: the inductive part.                    *)

\* Only turns begun, and in this one only ids handled, have proposals; a
\* proposal that was not made has left no trace.
Chronicle ==
    /\ pc \in {"checking", "gathering"} => turn = 0
    /\ pc \in {"sending", "user"} => turn > 0
    /\ \A t \in 0..MaxTurns, i \in Id :
          tool[<<t, i>>] # None => t < turn \/ (t = turn /\ (turn = 0 \/ i \in seen))
    /\ \A p \in Proposal : tool[p] = None =>
          /\ p \notin asked /\ answer[p] = "none" /\ deeds[p] = 0
          /\ log[p] = "none" /\ told[p] = "none" /\ stage[p] = "idle"

\* Prompts and grants are those of the operator of a session that may write.
Consents ==
    /\ \A p \in asked :
          permission = "READ_WRITE" /\ tool[p] \in Mutating /\ answer[p] = "none"
    /\ \A t \in granted : \E q \in Proposal : tool[q] = t /\ answer[q] = "session"

\* A write in its thread was allowed and is not reported yet, and one that goes
\* on without execute() goes on after an interrupt.
Writes ==
    \A p \in Proposal :
        /\ tool[p] = "write" => deeds[p] = IF stage[p] = "written" THEN 1 ELSE 0
        /\ stage[p] # "idle" => tool[p] = "write"
        /\ stage[p] \in Writing =>
              /\ Promise!Allowed(p)
              /\ told[p] \in {"none", "unknown"} /\ log[p] \in {"none", "error"}
              /\ (p = cur /\ pc = "acting") \/ interrupt = "heard"

\* What execute() knows of the proposal in hand at each of its awaits.
InHand ==
    /\ pc \in {"deciding", "asking", "acting", "recording"} =>
          tool[cur] # None /\ log[cur] = "none" /\ told[cur] = "none"
    /\ pc \in {"deciding", "asking"} => deeds[cur] = 0 /\ stage[cur] = "idle"
    /\ pc = "deciding" => cur \notin asked /\ answer[cur] = "none"
    /\ pc = "asking" => permission = "READ_WRITE" /\ tool[cur] \in Mutating
    /\ pc = "acting" /\ tool[cur] = "read" => deeds[cur] = 0
    /\ pc = "acting" /\ tool[cur] # "read" => tool[cur] = "write"
    /\ pc = "recording" =>
          /\ (status = "ok" => deeds[cur] = 1 /\ raised = "none")
          /\ (status = "denied" => raised = "none")
          /\ (status # "ok" /\ raised = "none" => deeds[cur] = 0 /\ stage[cur] \notin Writing)
    /\ raised = "cancel" => interrupt = "heard" /\ pc \in {"recording", "ended", "gone"}

IInv ==
    /\ TypeOK /\ Chronicle /\ Consents /\ Writes /\ InHand
    /\ ReplacesSynced /\ FileIntact /\ AuditIsFaithful

=============================================================================
