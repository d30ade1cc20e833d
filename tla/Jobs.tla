-------------------------------- MODULE Jobs --------------------------------
(***************************************************************************)
(* The Agent's job manager (agent/jobs.py) over the Linux executor         *)
(* (agent/executors/linux.py) or the Windows one (windows_process.py),     *)
(* driven by the Agent's message loop, which awaits one request at a time, *)
(* so that at most one cancel() runs.                                      *)
(*                                                                         *)
(* A job is a task (`run`) that takes a slot of the semaphore and waits,   *)
(* with a timeout, for a second task (`reader`) that starts the shell in a *)
(* process group of its own and reads its output until it has exited and   *)
(* its pipes are closed.  asyncio.wait_for cancels the reader, waits for   *)
(* it to end and only then reports the timeout or the cancellation.  The   *)
(* group is the shell and one background child that holds the pipes.       *)
(* Everything a process does on its own, and when, is nondeterministic.    *)
(*                                                                         *)
(* On Windows the shell is put into a Job Object of its own once it has    *)
(* been created: what it started before is not in it.  Terminating or      *)
(* closing the object kills what is in it, once: asyncio hears of it later *)
(* (`tree` is "closed" and the process still "live").                      *)
(*                                                                         *)
(* Process.wait() is that of the Python 3.12 the project is built for: it  *)
(* returns when the shell has exited and the pipes are closed.             *)
(***************************************************************************)
EXTENDS Integers, FiniteSets

CONSTANTS
    Job,
    None,           \* no job
    MaxJobs,        \* max_concurrent_jobs
    MaxOutput,      \* max_output_bytes
    ChunkSize       \* sizes of the chunks read from the pipes

ASSUME JobsAssumption ==
    /\ None \notin Job
    /\ MaxJobs \in Nat \ {0} /\ MaxOutput \in Nat /\ ChunkSize \subseteq Nat

VARIABLES
    run,        \* where _run stands
    reader,     \* where _execute stands
    stage,      \* where the termination run by _run stands
    shell,      \* the shell process and its return code
    child,      \* a background process of its group
    tree,       \* "group" on Linux; on Windows the Job Object of the shell
    known,      \* whether job.process is set
    result,     \* job.result
    bytes,      \* job.output_bytes
    lost,       \* history: whether a chunk was dropped
    canceller,  \* the job cancel() is terminating
    grace       \* where the termination run by cancel() stands

jobVars == <<run, reader, stage>>
procVars == <<shell, child, tree, known>>
outVars == <<result, bytes, lost>>
cancelVars == <<canceller, grace>>
vars == <<jobVars, procVars, outVars, cancelVars>>

\* RUNNING is never assigned: a job is PENDING until it ends.
Status == {"PENDING", "SUCCEEDED", "FAILED", "CANCELLED", "TIMED_OUT"}

-----------------------------------------------------------------------------
(* The processes of a job.  A definition marked "fault:" is a seeded mistake     *)
(* that a property must reject; no action uses it.                         *)

Posix(j) == tree[j] = "group"

\* The transport is finished: the shell has exited and the pipes are closed.
Quiet(j) == shell[j] \in {"ok", "failed"} /\ child[j] \notin {"live", "stray"}

\* No process was reported yet, or its return code is known.
NothingToStop(j) == ~known[j] \/ shell[j] # "live"

\* SIGTERM to the group: each member may exit, or handle the signal.
SigTerm(j) ==
    /\ Posix(j)
    /\ \E after \in (IF shell[j] = "live" THEN {"live", "ok", "failed"} ELSE {shell[j]}) :
          shell' = [shell EXCEPT ![j] = after]
    /\ \E after \in (IF child[j] = "live" THEN {"live", "gone"} ELSE {child[j]}) :
          child' = [child EXCEPT ![j] = after]
    /\ UNCHANGED tree

\* SIGKILL to the group.
SigKill(j) ==
    /\ Posix(j)
    /\ shell' = [shell EXCEPT ![j] = IF @ = "live" THEN "failed" ELSE @]
    /\ child' = [child EXCEPT ![j] = IF @ = "live" THEN "gone" ELSE @]
    /\ UNCHANGED tree

\* fault: the handle of the Job Object is leaked
LeakObject(j) == UNCHANGED tree
\* The handle is taken out of the manager's table and closed, which kills what
\* is in the object; a second time there is nothing to close.
CloseObject(j) == tree' = [tree EXCEPT ![j] = IF @ = "object" THEN "closed" ELSE @]

\* The Job Object is terminated and its handle closed.
TerminateObject(j) == ~Posix(j) /\ CloseObject(j) /\ UNCHANGED <<shell, child>>

\* terminate() up to its first await.
StopsTree(j) == SigTerm(j) \/ TerminateObject(j)

\* fault: the process is signalled and not waited for
StoppedAtOnce(j) == TRUE
\* What terminate() awaits.
Stopped(j) == Quiet(j)

Killed(j) == tree[j] = "closed"

ShellExits(j) ==
    /\ shell[j] = "live"
    /\ \E code \in {"ok", "failed"} :
          /\ Killed(j) => code = "failed"
          /\ shell' = [shell EXCEPT ![j] = code]
    /\ UNCHANGED <<jobVars, child, tree, known, outVars, cancelVars>>

\* `command &`: the child inherits the group or the object, and the pipes.
ShellForks(j) ==
    /\ shell[j] = "live" /\ child[j] = "none" /\ ~Killed(j)
    /\ child' = [child EXCEPT ![j] = IF tree[j] = "unowned" THEN "stray" ELSE "live"]
    /\ UNCHANGED <<jobVars, shell, tree, known, outVars, cancelVars>>

ChildExits(j) ==
    /\ child[j] \in {"live", "stray"}
    /\ child' = [child EXCEPT ![j] = "gone"]
    /\ UNCHANGED <<jobVars, shell, tree, known, outVars, cancelVars>>

-----------------------------------------------------------------------------
(* The job's task.                                                         *)

\* fault: a job that failed keeps its slot
HoldersAfterFailure ==
    {j \in Job : run[j] \notin {"none", "queued", "done"} \/ result[j].status = "FAILED"}
\* The jobs inside `async with self.semaphore`.
Holders == {j \in Job : run[j] \notin {"none", "queued", "done"}}

\* fault: one job too many
SlotFreeOffByOne == Cardinality(Holders) <= MaxJobs
SlotFree == Cardinality(Holders) < MaxJobs

\* fault: the outcome is built afresh
VerdictAfresh(j, status) == [status |-> status, truncated |-> FALSE]
\* Every outcome keeps the truncation seen so far.
Verdict(j, status) == [status |-> status, truncated |-> result[j].truncated]

Ends(j, status) ==
    /\ result' = [result EXCEPT ![j] = Verdict(j, status)]
    /\ run' = [run EXCEPT ![j] = "done"]
    /\ stage' = [stage EXCEPT ![j] = "none"]

\* start(): the task is created and its id returned.
Start(j) ==
    /\ run[j] = "none" /\ canceller = None
    /\ run' = [run EXCEPT ![j] = "queued"]
    /\ UNCHANGED <<reader, stage, procVars, outVars, cancelVars>>

\* The slot is taken and the reader created; the timeout starts here.
Admit(j) ==
    /\ run[j] = "queued" /\ SlotFree
    /\ run' = [run EXCEPT ![j] = "waiting"]
    /\ reader' = [reader EXCEPT ![j] = "created"]
    /\ UNCHANGED <<stage, procVars, outVars, cancelVars>>

\* The reader's first step starts the shell, or fails to: no executor for the
\* shell, a WSL directory outside the roots, no process.
Spawn(j) ==
    /\ run[j] = "waiting" /\ reader[j] = "created"
    /\ \/ /\ shell' = [shell EXCEPT ![j] = "live"]
          /\ reader' = [reader EXCEPT ![j] = "spawning"]
       \/ reader' = [reader EXCEPT ![j] = "failed"] /\ UNCHANGED shell
    /\ UNCHANGED <<run, stage, child, tree, known, outVars, cancelVars>>

\* The pipes are connected, on Windows the shell is put into an object, and
\* on_process is called.
Report(j) ==
    /\ run[j] = "waiting" /\ reader[j] = "spawning"
    /\ tree' = [tree EXCEPT ![j] = IF Posix(j) THEN "group" ELSE "object"]
    /\ known' = [known EXCEPT ![j] = TRUE]
    /\ reader' = [reader EXCEPT ![j] = "reading"]
    /\ UNCHANGED <<run, stage, shell, child, outVars, cancelVars>>

\* The object cannot be created, or the shell, having exited perhaps, not be put
\* into it: the shell is killed and waited for, its process never reported.
AssignFails(j) ==
    /\ run[j] = "waiting" /\ reader[j] = "spawning" /\ ~Posix(j)
    /\ shell' = [shell EXCEPT ![j] = IF @ = "live" THEN "failed" ELSE @]
    /\ reader' = [reader EXCEPT ![j] = "refused"]
    /\ UNCHANGED <<run, stage, child, tree, known, outVars, cancelVars>>

RefusalEnds(j) ==
    /\ run[j] = "waiting" /\ reader[j] = "refused" /\ Quiet(j)
    /\ reader' = [reader EXCEPT ![j] = "failed"]
    /\ UNCHANGED <<run, stage, procVars, outVars, cancelVars>>

\* fault: the size is compared before the chunk is added
FitsBeforeAdding(j, size) == bytes[j] < MaxOutput
Fits(j, size) == bytes[j] + size <= MaxOutput

\* on_chunk(): a chunk beyond the limit is dropped and the job marked; a later
\* one that fits is kept.
Chunk(j) ==
    /\ reader[j] = "reading"
    /\ \E size \in ChunkSize :
        \/ /\ Fits(j, size)
           /\ bytes' = [bytes EXCEPT ![j] = @ + size]
           /\ UNCHANGED <<result, lost>>
        \/ /\ ~Fits(j, size)
           /\ result' = [result EXCEPT ![j] = [status |-> @.status, truncated |-> TRUE]]
           /\ lost' = lost \cup {j}
           /\ UNCHANGED bytes
    /\ UNCHANGED <<jobVars, procVars, cancelVars>>

ReadEnds(j) ==
    /\ run[j] = "waiting" /\ reader[j] = "reading" /\ Quiet(j)
    /\ reader' = [reader EXCEPT ![j] = "finished"]
    /\ CloseObject(j)
    /\ UNCHANGED <<run, stage, shell, child, known, outVars, cancelVars>>

\* wait_for returns or raises what the reader did.
RunReturns(j) ==
    /\ run[j] = "waiting" /\ reader[j] \in {"finished", "failed"}
    /\ Ends(j, IF reader[j] = "finished" /\ shell[j] = "ok" THEN "SUCCEEDED" ELSE "FAILED")
    /\ UNCHANGED <<reader, procVars, bytes, lost, cancelVars>>

\* The timeout fires, perhaps just after the reader has ended.
Timeout(j) ==
    /\ run[j] = "waiting"
    /\ run' = [run EXCEPT ![j] = "expiring"]
    /\ UNCHANGED <<reader, stage, procVars, outVars, cancelVars>>

\* The reader's cancellation is delivered.  A shell whose creation it
\* interrupts is killed by asyncio, alone; while reading, the finally clause of
\* the Windows executor closes the object.
ReaderCancelled(j) ==
    /\ run[j] \in {"expiring", "cancelling"}
    /\ reader[j] \in {"created", "spawning", "refused", "reading"}
    /\ reader' = [reader EXCEPT ![j] = "cancelled"]
    /\ shell' = [shell EXCEPT ![j] =
                   IF reader[j] = "spawning" /\ @ = "live" THEN "failed" ELSE @]
    /\ IF reader[j] = "reading" THEN CloseObject(j) ELSE UNCHANGED tree
    /\ UNCHANGED <<run, stage, child, known, outVars, cancelVars>>

\* With the reader gone, terminate() is called: it returns at once if there is
\* nothing to stop, otherwise it signals the group, or terminates the object,
\* and waits.
StopBegins(j) ==
    /\ run[j] \in {"expiring", "cancelling"}
    /\ reader[j] \in {"finished", "failed", "cancelled"}
    /\ \/ /\ NothingToStop(j)
          /\ Ends(j, IF run[j] = "expiring" THEN "TIMED_OUT" ELSE "CANCELLED")
          /\ UNCHANGED <<shell, child, tree>>
       \/ /\ ~NothingToStop(j)
          /\ StopsTree(j)
          /\ run' = [run EXCEPT ![j] = IF @ = "expiring" THEN "stopping" ELSE "aborting"]
          /\ stage' = [stage EXCEPT ![j] = "grace"]
          /\ UNCHANGED result
    /\ UNCHANGED <<reader, known, bytes, lost, cancelVars>>

GraceOver(j) ==
    /\ stage[j] = "grace" /\ ~Stopped(j)
    /\ SigKill(j)
    /\ stage' = [stage EXCEPT ![j] = "killed"]
    /\ UNCHANGED <<run, reader, known, outVars, cancelVars>>

StopReturns(j) ==
    /\ run[j] \in {"stopping", "aborting"} /\ Stopped(j)
    /\ Ends(j, IF run[j] = "stopping" THEN "TIMED_OUT" ELSE "CANCELLED")
    /\ UNCHANGED <<reader, procVars, bytes, lost, cancelVars>>

-----------------------------------------------------------------------------
(* cancel(), called by the message loop.                                   *)

\* task.cancel(): outside the try of _run it ends the task and leaves the
\* result as it was; a wait is turned into a cancellation; a termination that
\* _run is awaiting is cut short.
CancelTask(j) ==
    \/ /\ run[j] = "queued"
       /\ run' = [run EXCEPT ![j] = "done"]
       /\ UNCHANGED <<result, stage>>
    \/ /\ run[j] \in {"waiting", "expiring", "cancelling"}
       /\ run' = [run EXCEPT ![j] = "cancelling"]
       /\ UNCHANGED <<result, stage>>
    \/ run[j] \in {"stopping", "aborting"} /\ Ends(j, "CANCELLED")
    \/ run[j] = "done" /\ UNCHANGED <<run, result, stage>>

\* A task that is done is not cancelled, and the caller told so.
CancelTooLate(j) == canceller = None /\ run[j] = "done" /\ UNCHANGED vars

CancelBegins(j) ==
    /\ canceller = None /\ run[j] \notin {"none", "done"}
    /\ \/ NothingToStop(j) /\ CancelTask(j) /\ UNCHANGED <<shell, child, tree, canceller, grace>>
       \/ /\ ~NothingToStop(j)
          /\ StopsTree(j)
          /\ canceller' = j /\ grace' = "grace"
          /\ UNCHANGED <<run, stage, result>>
    /\ UNCHANGED <<reader, known, bytes, lost>>

CancelGraceOver(j) ==
    /\ canceller = j /\ grace = "grace" /\ ~Stopped(j)
    /\ SigKill(j)
    /\ grace' = "killed"
    /\ UNCHANGED <<jobVars, known, outVars, canceller>>

CancelReturns(j) ==
    /\ canceller = j /\ Stopped(j)
    /\ CancelTask(j)
    /\ canceller' = None /\ grace' = "none"
    /\ UNCHANGED <<reader, procVars, bytes, lost>>

-----------------------------------------------------------------------------
Init ==
    /\ run = [j \in Job |-> "none"] /\ reader = [j \in Job |-> "none"]
    /\ stage = [j \in Job |-> "none"]
    /\ shell = [j \in Job |-> "none"] /\ child = [j \in Job |-> "none"]
    /\ \E owner \in {"group", "unowned"} : tree = [j \in Job |-> owner]
    /\ known = [j \in Job |-> FALSE]
    /\ result = [j \in Job |-> [status |-> "PENDING", truncated |-> FALSE]]
    /\ bytes = [j \in Job |-> 0] /\ lost = {}
    /\ canceller = None /\ grace = "none"

ProcessStep(j) == ShellExits(j) \/ ShellForks(j) \/ ChildExits(j)
ReaderStep(j) ==
    \/ Spawn(j) \/ Report(j) \/ AssignFails(j) \/ RefusalEnds(j)
    \/ Chunk(j) \/ ReadEnds(j)
RunStep(j) ==
    \/ RunReturns(j) \/ Timeout(j) \/ ReaderCancelled(j)
    \/ StopBegins(j) \/ GraceOver(j) \/ StopReturns(j)
CancelStep(j) == CancelGraceOver(j) \/ CancelReturns(j)

Next ==
    \E j \in Job :
        \/ Start(j) \/ Admit(j) \/ ReaderStep(j) \/ RunStep(j) \/ ProcessStep(j)
        \/ CancelTooLate(j) \/ CancelBegins(j) \/ CancelStep(j)

Spec == Init /\ [][Next]_vars

(* The event loop runs what can run; timers fire; the semaphore hands its  *)
(* slots to its waiters in order, so that a queued job is not passed over  *)
(* for ever (strong fairness); what was in an object that is closed is     *)
(* killed by the system.  Nothing makes a process exit by itself, a        *)
(* command be issued or a job be cancelled.                                *)
Fairness ==
    \A j \in Job :
        /\ SF_vars(Admit(j)) /\ WF_vars(RunStep(j)) /\ WF_vars(CancelStep(j))
        /\ WF_vars(Killed(j) /\ ShellExits(j))
        /\ WF_vars(Killed(j) /\ child[j] = "live" /\ ChildExits(j))

FairSpec == Spec /\ Fairness

-----------------------------------------------------------------------------
(* Properties.                                                             *)

\* Every variable has its type; the output kept never exceeds its limit.
TypeOK ==
    /\ run \in [Job -> {"none", "queued", "waiting", "expiring", "cancelling",
                        "stopping", "aborting", "done"}]
    /\ reader \in [Job -> {"none", "created", "spawning", "refused", "reading",
                           "finished", "failed", "cancelled"}]
    /\ stage \in [Job -> {"none", "grace", "killed"}]
    /\ shell \in [Job -> {"none", "live", "ok", "failed"}]
    /\ child \in [Job -> {"none", "live", "stray", "gone"}]
    /\ tree \in [Job -> {"group", "unowned", "object", "closed"}]
    /\ known \in [Job -> BOOLEAN]
    /\ result \in [Job -> [status : Status, truncated : BOOLEAN]]
    /\ bytes \in [Job -> 0..MaxOutput] /\ lost \in SUBSET Job
    /\ canceller \in Job \cup {None} /\ grace \in {"none", "grace", "killed"}

\* How far the reader has come bounds what the shell can be: the inductive part
\* of the properties below.
ReaderAhead ==
    \A j \in Job :
        /\ run[j] \in {"none", "queued"} => reader[j] = "none"
        /\ reader[j] \in {"none", "created"} => shell[j] = "none"
        /\ shell[j] = "live" /\ ~known[j] => reader[j] = "spawning"
        /\ reader[j] \in {"finished", "refused", "failed"} => shell[j] # "live"
        /\ run[j] \in {"stopping", "aborting"} => known[j]
        /\ run[j] \in {"stopping", "aborting", "done"} =>
             reader[j] \notin {"created", "spawning", "refused", "reading"}

\* No more jobs than max_concurrent_jobs hold a slot.
SlotsBounded == IsFiniteSet(Holders) /\ Cardinality(Holders) <= MaxJobs

\* A job that has ended has no shell running, however its exit, its timeout and
\* cancellations of it interleaved (terminate() is awaited on every path).
ShellIsGone == \A j \in Job : run[j] = "done" => shell[j] # "live"

\* There are never more shells than max_concurrent_jobs.
ShellsBounded == Cardinality({j \in Job : shell[j] = "live"}) <= MaxJobs

IInv == TypeOK /\ ReaderAhead /\ ShellIsGone /\ SlotsBounded

\* Whichever way a job ends, its result says whether output was dropped.
TruncationReported == \A j \in Job : result[j].truncated <=> j \in lost

\* A child that was started before its shell was put into the Job Object: no
\* termination reaches it, and Process.wait() waits for its pipes.
Escaped(j) == child[j] = "stray"

\* Every job ends: the timeout, the signals and the semaphore see to it, unless a
\* child escaped the Job Object of the job, or of one that keeps a slot from it.
EveryJobEnds ==
    \A j \in Job : (run[j] # "none") ~> (run[j] = "done" \/ \E i \in Job : Escaped(i))

\* cancel() returns, and the message loop goes on, whatever the processes do but
\* escape the Job Object.
CancelIsOver == \A j \in Job : (canceller = j) ~> (canceller # j \/ Escaped(j))

\* tests/integration/test_jobs.py: after cancel() has returned True the job is
\* reported as cancelled; at the least, one that has ended is not still pending.
CancelIsReported == \A j \in Job : run[j] = "done" => result[j].status # "PENDING"

\* docs/architecture.md: a timeout ends the process group like a cancellation
\* does, with SIGKILL if necessary.  Nothing of a group that was reported is
\* alive once its job is TIMED_OUT.
TimeoutKillsGroup ==
    \A j \in Job :
        known[j] /\ Posix(j) /\ result[j].status = "TIMED_OUT" =>
            shell[j] # "live" /\ child[j] # "live"

=============================================================================
