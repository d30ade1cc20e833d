----------------------------- MODULE JobsProofs -----------------------------
(***************************************************************************)
(* Proofs about Jobs, for every set of jobs and every limit.  The          *)
(* invariant says how far the reader must have come for a shell to be      *)
(* alive, and counts the slots: with it, a job that has ended has no       *)
(* shell, and the live shells belong to holders of slots.                  *)
(***************************************************************************)
EXTENDS Jobs, FiniteSetTheorems, TLAPS

\* An outcome is well typed, and only the job's own entries change.
LEMMA EndsTypes ==
    ASSUME TypeOK, NEW j \in Job, NEW status \in Status, Ends(j, status)
    PROVE  /\ result' \in [Job -> [status : Status, truncated : BOOLEAN]]
           /\ run' \in [Job -> {"none", "queued", "waiting", "expiring",
                       "cancelling", "stopping", "aborting", "done"}]
           /\ stage' \in [Job -> {"none", "grace", "killed"}]
<1>1. Verdict(j, status) \in [status : Status, truncated : BOOLEAN]
  BY DEF TypeOK, Verdict
<1>2. QED
  BY <1>1 DEF TypeOK, Ends

\* Cancelling the task of a job keeps the types, whatever the task was at.
LEMMA CancelTaskTypes ==
    ASSUME TypeOK, NEW j \in Job, CancelTask(j)
    PROVE  /\ result' \in [Job -> [status : Status, truncated : BOOLEAN]]
           /\ run' \in [Job -> {"none", "queued", "waiting", "expiring",
                       "cancelling", "stopping", "aborting", "done"}]
           /\ stage' \in [Job -> {"none", "grace", "killed"}]
<1>1. "CANCELLED" \in Status
  BY DEF Status
<1>2. CASE Ends(j, "CANCELLED")
  BY <1>1, <1>2, EndsTypes DEF TypeOK, CancelTask
<1>3. CASE ~Ends(j, "CANCELLED")
  BY <1>3 DEF TypeOK, CancelTask
<1>4. QED
  BY <1>2, <1>3

\* Signals, and the end of a Job Object, leave the processes well typed.
LEMMA StopTypes ==
    ASSUME TypeOK, NEW j \in Job, StopsTree(j)
    PROVE  /\ shell' \in [Job -> {"none", "live", "ok", "failed"}]
           /\ child' \in [Job -> {"none", "live", "stray", "gone"}]
           /\ tree' \in [Job -> {"group", "unowned", "object", "closed"}]
<1>1. CASE SigTerm(j)
  BY <1>1 DEF TypeOK, SigTerm
<1>2. CASE TerminateObject(j)
  BY <1>2 DEF TypeOK, TerminateObject, CloseObject
<1>3. QED
  BY <1>1, <1>2 DEF StopsTree

\* They start no shell.
LEMMA StopEndsShells ==
    ASSUME TypeOK, NEW j \in Job, StopsTree(j)
    PROVE  \A i \in Job : /\ shell'[i] = "live" => shell[i] = "live"
                          /\ shell[i] = "none" => shell'[i] = "none"
                          /\ i # j => shell'[i] = shell[i]
  BY DEF TypeOK, StopsTree, SigTerm, TerminateObject

\* Every step keeps the types.
LEMMA TypeStep ==
    ASSUME TypeOK, [Next]_vars
    PROVE  TypeOK'
<1> USE JobsAssumption
<1>1. ASSUME NEW j \in Job, Start(j)
       PROVE  TypeOK'
  BY <1>1 DEF Start, procVars, outVars, cancelVars, TypeOK, Status
<1>2. ASSUME NEW j \in Job, Admit(j)
       PROVE  TypeOK'
  BY <1>2 DEF Admit, SlotFree, procVars, outVars, cancelVars, Holders, TypeOK,
      Status
<1>3. ASSUME NEW j \in Job, Spawn(j)
       PROVE  TypeOK'
  BY <1>3 DEF Spawn, outVars, cancelVars, TypeOK, Status
<1>4. ASSUME NEW j \in Job, Report(j)
       PROVE  TypeOK'
  BY <1>4 DEF Report, Posix, outVars, cancelVars, TypeOK, Status
<1>4a. ASSUME NEW j \in Job, AssignFails(j)
       PROVE  TypeOK'
  BY <1>4a DEF AssignFails, outVars, cancelVars, TypeOK
<1>4b. ASSUME NEW j \in Job, RefusalEnds(j)
       PROVE  TypeOK'
  BY <1>4b DEF RefusalEnds, Quiet, procVars, outVars, cancelVars, TypeOK
<1>5. ASSUME NEW j \in Job, Chunk(j)
       PROVE  TypeOK'
  <2>1. PICK size \in ChunkSize :
          \/ /\ Fits(j, size)
             /\ bytes' = [bytes EXCEPT ![j] = @ + size]
             /\ UNCHANGED <<result, lost>>
          \/ /\ ~Fits(j, size)
             /\ result' = [result EXCEPT ![j] = [status |-> @.status, truncated |-> TRUE]]
             /\ lost' = lost \cup {j}
             /\ UNCHANGED bytes
    BY <1>5 DEF Chunk
  <2>2. bytes' \in [Job -> 0..MaxOutput]
    <3>1. bytes[j] \in 0..MaxOutput /\ size \in Nat /\ MaxOutput \in Nat
      BY DEF TypeOK
    <3>2. CASE Fits(j, size) /\ bytes' = [bytes EXCEPT ![j] = @ + size]
      BY <3>1, <3>2 DEF TypeOK, Fits
    <3>3. CASE UNCHANGED bytes
      BY <3>3 DEF TypeOK
    <3>4. QED
      BY <2>1, <3>2, <3>3
  <2>3. result' \in [Job -> [status : Status, truncated : BOOLEAN]]
    <3>1. [status |-> result[j].status, truncated |-> TRUE]
             \in [status : Status, truncated : BOOLEAN]
      BY DEF TypeOK
    <3>2. CASE UNCHANGED result
      BY <3>2 DEF TypeOK
    <3>3. CASE result' = [result EXCEPT ![j] = [status |-> @.status, truncated |-> TRUE]]
      BY <3>1, <3>3 DEF TypeOK
    <3>4. QED
      BY <2>1, <3>2, <3>3
  <2>4. lost' \in SUBSET Job
    BY <2>1 DEF TypeOK
  <2>5. QED
    BY <1>5, <2>2, <2>3, <2>4 DEF TypeOK, Chunk, jobVars, procVars, cancelVars
<1>6. ASSUME NEW j \in Job, ReadEnds(j)
       PROVE  TypeOK'
  BY <1>6 DEF ReadEnds, Quiet, CloseObject, procVars, outVars, cancelVars, TypeOK, Status
<1>7. ASSUME NEW j \in Job, RunReturns(j)
       PROVE  TypeOK'
  BY <1>7 DEF RunReturns, Ends, procVars, cancelVars, Verdict, TypeOK, Status
<1>8. ASSUME NEW j \in Job, Timeout(j)
       PROVE  TypeOK'
  BY <1>8 DEF Timeout, procVars, outVars, cancelVars, TypeOK, Status
<1>9. ASSUME NEW j \in Job, ReaderCancelled(j)
       PROVE  TypeOK'
  BY <1>9 DEF ReaderCancelled, CloseObject, outVars, cancelVars, TypeOK, Status
<1>10. ASSUME NEW j \in Job, StopBegins(j)
       PROVE  TypeOK'
  <2>1. CASE NothingToStop(j) /\ Ends(j, IF run[j] = "expiring" THEN "TIMED_OUT" ELSE "CANCELLED")
             /\ UNCHANGED <<shell, child, tree>>
    <3>1. (IF run[j] = "expiring" THEN "TIMED_OUT" ELSE "CANCELLED") \in Status
      BY DEF Status
    <3>2. QED
      BY <1>10, <2>1, <3>1, EndsTypes DEF TypeOK, StopBegins, cancelVars
  <2>2. CASE ~NothingToStop(j)
    <3>1. run' \in [Job -> {"none", "queued", "waiting", "expiring", "cancelling",
                           "stopping", "aborting", "done"}]
      BY <1>10, <2>2 DEF TypeOK, StopBegins
    <3>2. QED
      BY <1>10, <2>2, <3>1, StopTypes DEF TypeOK, StopBegins, cancelVars
  <2>3. QED
    BY <1>10, <2>1, <2>2 DEF StopBegins
<1>11. ASSUME NEW j \in Job, GraceOver(j)
       PROVE  TypeOK'
  BY <1>11 DEF GraceOver, Stopped, SigKill, Posix, outVars, cancelVars, Quiet, TypeOK,
      Status
<1>12. ASSUME NEW j \in Job, StopReturns(j)
       PROVE  TypeOK'
  BY <1>12 DEF StopReturns, Stopped, Ends, procVars, cancelVars, Quiet, Verdict,
      TypeOK, Status
<1>13. ASSUME NEW j \in Job, ShellExits(j)
       PROVE  TypeOK'
  BY <1>13 DEF ShellExits, Killed, jobVars, outVars, cancelVars, TypeOK, Status
<1>14. ASSUME NEW j \in Job, ShellForks(j)
       PROVE  TypeOK'
  BY <1>14 DEF ShellForks, Killed, jobVars, outVars, cancelVars, TypeOK, Status
<1>15. ASSUME NEW j \in Job, ChildExits(j)
       PROVE  TypeOK'
  BY <1>15 DEF ChildExits, jobVars, outVars, cancelVars, TypeOK, Status
<1>16. ASSUME NEW j \in Job, CancelTooLate(j)
       PROVE  TypeOK'
  BY <1>16 DEF CancelTooLate, vars, jobVars, procVars, outVars, cancelVars,
      TypeOK, Status
<1>17. ASSUME NEW j \in Job, CancelBegins(j)
       PROVE  TypeOK'
  <2>1. CASE NothingToStop(j) /\ CancelTask(j)
             /\ UNCHANGED <<shell, child, tree, canceller, grace>>
    BY <1>17, <2>1, CancelTaskTypes DEF TypeOK, CancelBegins
  <2>2. CASE ~NothingToStop(j)
    BY <1>17, <2>2, StopTypes DEF TypeOK, CancelBegins
  <2>3. QED
    BY <1>17, <2>1, <2>2 DEF CancelBegins
<1>18. ASSUME NEW j \in Job, CancelGraceOver(j)
       PROVE  TypeOK'
  BY <1>18 DEF CancelGraceOver, Stopped, SigKill, Posix, jobVars, outVars, Quiet,
      TypeOK, Status
<1>19. ASSUME NEW j \in Job, CancelReturns(j)
       PROVE  TypeOK'
  BY <1>19, CancelTaskTypes DEF TypeOK, CancelReturns, procVars
<1>20. ASSUME UNCHANGED vars
       PROVE  TypeOK'
  BY <1>20 DEF vars, jobVars, procVars, outVars, cancelVars, TypeOK, Status
<1>21. QED
  BY <1>1, <1>2, <1>3, <1>4, <1>4a, <1>4b, <1>5, <1>6, <1>7, <1>8, <1>9, <1>10,
     <1>11, <1>12, <1>13, <1>14, <1>15, <1>16, <1>17, <1>18, <1>19, <1>20
     DEF Next, ReaderStep, RunStep, ProcessStep, CancelStep

\* A shell is alive only under a reader or a termination that will end it:
\* each step keeps that, and leaves no shell to a job that ends.
LEMMA AheadStep ==
    ASSUME TypeOK, ReaderAhead, ShellIsGone, [Next]_vars
    PROVE  (ReaderAhead /\ ShellIsGone)'
<1> USE JobsAssumption
<1>1. ASSUME NEW j \in Job, Start(j)
       PROVE  (ReaderAhead /\ ShellIsGone)'
  BY <1>1 DEF Start, procVars, outVars, cancelVars, TypeOK, Status, ReaderAhead,
      ShellIsGone
<1>2. ASSUME NEW j \in Job, Admit(j)
       PROVE  (ReaderAhead /\ ShellIsGone)'
  BY <1>2 DEF Admit, SlotFree, procVars, outVars, cancelVars, Holders, TypeOK,
      Status, ReaderAhead, ShellIsGone
<1>3. ASSUME NEW j \in Job, Spawn(j)
       PROVE  (ReaderAhead /\ ShellIsGone)'
  BY <1>3 DEF Spawn, outVars, cancelVars, TypeOK, Status, ReaderAhead,
      ShellIsGone
<1>4. ASSUME NEW j \in Job, Report(j)
       PROVE  (ReaderAhead /\ ShellIsGone)'
  BY <1>4 DEF Report, Posix, outVars, cancelVars, TypeOK, Status, ReaderAhead,
      ShellIsGone
<1>4a. ASSUME NEW j \in Job, AssignFails(j)
       PROVE  (ReaderAhead /\ ShellIsGone)'
  BY <1>4a DEF AssignFails, outVars, cancelVars, TypeOK, ReaderAhead, ShellIsGone
<1>4b. ASSUME NEW j \in Job, RefusalEnds(j)
       PROVE  (ReaderAhead /\ ShellIsGone)'
  BY <1>4b DEF RefusalEnds, Quiet, procVars, outVars, cancelVars, TypeOK, ReaderAhead, ShellIsGone
<1>5. ASSUME NEW j \in Job, Chunk(j)
       PROVE  (ReaderAhead /\ ShellIsGone)'
  BY <1>5 DEF Chunk, Fits, jobVars, procVars, cancelVars, TypeOK, Status,
      ReaderAhead, ShellIsGone
<1>6. ASSUME NEW j \in Job, ReadEnds(j)
       PROVE  (ReaderAhead /\ ShellIsGone)'
  BY <1>6 DEF ReadEnds, Quiet, CloseObject, procVars, outVars, cancelVars, TypeOK, Status,
      ReaderAhead, ShellIsGone
<1>7. ASSUME NEW j \in Job, RunReturns(j)
       PROVE  (ReaderAhead /\ ShellIsGone)'
  BY <1>7 DEF RunReturns, Ends, procVars, cancelVars, Verdict, TypeOK, Status,
      ReaderAhead, ShellIsGone
<1>8. ASSUME NEW j \in Job, Timeout(j)
       PROVE  (ReaderAhead /\ ShellIsGone)'
  BY <1>8 DEF Timeout, procVars, outVars, cancelVars, TypeOK, Status,
      ReaderAhead, ShellIsGone
<1>9. ASSUME NEW j \in Job, ReaderCancelled(j)
       PROVE  (ReaderAhead /\ ShellIsGone)'
  BY <1>9 DEF ReaderCancelled, CloseObject, outVars, cancelVars, TypeOK, Status, ReaderAhead,
      ShellIsGone
<1>10. ASSUME NEW j \in Job, StopBegins(j)
       PROVE  (ReaderAhead /\ ShellIsGone)'
  <2>1. CASE ~NothingToStop(j) /\ StopsTree(j)
    BY <1>10, <2>1, StopEndsShells DEF StopBegins, NothingToStop, cancelVars, TypeOK,
       ReaderAhead, ShellIsGone
  <2>2. CASE NothingToStop(j) /\ UNCHANGED <<shell, child, tree>>
    BY <1>10, <2>2 DEF StopBegins, NothingToStop, Ends, cancelVars, TypeOK,
       ReaderAhead, ShellIsGone
  <2>3. QED
    BY <1>10, <2>1, <2>2 DEF StopBegins
<1>11. ASSUME NEW j \in Job, GraceOver(j)
       PROVE  (ReaderAhead /\ ShellIsGone)'
  BY <1>11 DEF GraceOver, Stopped, SigKill, Posix, outVars, cancelVars, Quiet, TypeOK,
      Status, ReaderAhead, ShellIsGone
<1>12. ASSUME NEW j \in Job, StopReturns(j)
       PROVE  (ReaderAhead /\ ShellIsGone)'
  BY <1>12 DEF StopReturns, Stopped, Ends, procVars, cancelVars, Quiet, Verdict,
      TypeOK, Status, ReaderAhead, ShellIsGone
<1>13. ASSUME NEW j \in Job, ShellExits(j)
       PROVE  (ReaderAhead /\ ShellIsGone)'
  BY <1>13 DEF ShellExits, Killed, jobVars, outVars, cancelVars, TypeOK, Status,
      ReaderAhead, ShellIsGone
<1>14. ASSUME NEW j \in Job, ShellForks(j)
       PROVE  (ReaderAhead /\ ShellIsGone)'
  BY <1>14 DEF ShellForks, Killed, jobVars, outVars, cancelVars, TypeOK, Status,
      ReaderAhead, ShellIsGone
<1>15. ASSUME NEW j \in Job, ChildExits(j)
       PROVE  (ReaderAhead /\ ShellIsGone)'
  BY <1>15 DEF ChildExits, jobVars, outVars, cancelVars, TypeOK, Status,
      ReaderAhead, ShellIsGone
<1>16. ASSUME NEW j \in Job, CancelTooLate(j)
       PROVE  (ReaderAhead /\ ShellIsGone)'
  BY <1>16 DEF CancelTooLate, vars, jobVars, procVars, outVars, cancelVars,
      TypeOK, Status, ReaderAhead, ShellIsGone
<1>17. ASSUME NEW j \in Job, CancelBegins(j)
       PROVE  (ReaderAhead /\ ShellIsGone)'
  <2>1. CASE ~NothingToStop(j) /\ StopsTree(j)
    BY <1>17, <2>1, StopEndsShells DEF CancelBegins, TypeOK, ReaderAhead, ShellIsGone
  <2>2. CASE NothingToStop(j) /\ CancelTask(j)
             /\ UNCHANGED <<shell, child, tree, canceller, grace>>
    BY <1>17, <2>2 DEF CancelBegins, NothingToStop, CancelTask, Ends, TypeOK,
       ReaderAhead, ShellIsGone
  <2>3. QED
    BY <1>17, <2>1, <2>2 DEF CancelBegins
<1>18. ASSUME NEW j \in Job, CancelGraceOver(j)
       PROVE  (ReaderAhead /\ ShellIsGone)'
  BY <1>18 DEF CancelGraceOver, Stopped, SigKill, Posix, jobVars, outVars, Quiet,
      TypeOK, Status, ReaderAhead, ShellIsGone
<1>19. ASSUME NEW j \in Job, CancelReturns(j)
       PROVE  (ReaderAhead /\ ShellIsGone)'
  BY <1>19 DEF CancelReturns, Stopped, CancelTask, procVars, Quiet, Ends,
      Verdict, TypeOK, Status, ReaderAhead, ShellIsGone
<1>20. ASSUME UNCHANGED vars
       PROVE  (ReaderAhead /\ ShellIsGone)'
  BY <1>20 DEF vars, jobVars, procVars, outVars, cancelVars, TypeOK, Status,
      ReaderAhead, ShellIsGone
<1>21. QED
  BY <1>1, <1>2, <1>3, <1>4, <1>4a, <1>4b, <1>5, <1>6, <1>7, <1>8, <1>9, <1>10,
     <1>11, <1>12, <1>13, <1>14, <1>15, <1>16, <1>17, <1>18, <1>19, <1>20
     DEF Next, ReaderStep, RunStep, ProcessStep, CancelStep

\* The holders of slots grow only when a job is admitted, by that job.
LEMMA HoldersGrow ==
    ASSUME TypeOK, [Next]_vars, ~\E j \in Job : Admit(j)
    PROVE  Holders' \subseteq Holders
<1>1. ASSUME NEW j \in Job, run[j] \in {"none", "queued", "done"}
      PROVE  run'[j] \in {"none", "queued", "done"}
  <2>1. CASE UNCHANGED run
    BY <1>1, <2>1
  <2>2. ASSUME NEW k \in Job,
               \/ Start(k) \/ ReaderStep(k) \/ RunStep(k) \/ ProcessStep(k)
               \/ CancelTooLate(k) \/ CancelBegins(k) \/ CancelStep(k)
        PROVE  run'[j] \in {"none", "queued", "done"}
    BY <1>1, <2>2 DEF TypeOK, ReaderStep, RunStep, ProcessStep, CancelStep, Start, Spawn,
       Report, AssignFails, RefusalEnds, Chunk, ReadEnds, RunReturns, Timeout, ReaderCancelled, StopBegins,
       GraceOver, StopReturns, ShellExits, ShellForks, ChildExits, CancelTooLate,
       CancelBegins, CancelGraceOver, CancelReturns, CancelTask, Ends, jobVars, vars
  <2>3. QED
    BY <2>1, <2>2 DEF Next, vars, jobVars
<1>2. QED
  BY <1>1 DEF Holders

\* Every step keeps the number of slots in use within the limit.
LEMMA SlotsStep ==
    ASSUME TypeOK, SlotsBounded, [Next]_vars
    PROVE  SlotsBounded'
<1>1. MaxJobs \in Nat
  BY JobsAssumption
<1>2. CASE \E j \in Job : Admit(j)
  <2>1. PICK j \in Job : Admit(j)
    BY <1>2
  <2>2. Holders' = Holders \cup {j}
    BY <2>1 DEF Admit, Holders, TypeOK
  <2>3. Cardinality(Holders) \in Nat /\ Cardinality(Holders) < MaxJobs
    BY <2>1, FS_CardinalityType DEF Admit, SlotFree, SlotsBounded
  <2>4. IsFiniteSet(Holders')
        /\ Cardinality(Holders') = (IF j \in Holders THEN Cardinality(Holders)
                                    ELSE Cardinality(Holders) + 1)
    BY <2>2, FS_AddElement DEF SlotsBounded
  <2>5. QED
    BY <1>1, <2>3, <2>4 DEF SlotsBounded
<1>3. CASE ~\E j \in Job : Admit(j)
  <2>1. Holders' \subseteq Holders
    BY <1>3, HoldersGrow
  <2>2. IsFiniteSet(Holders') /\ Cardinality(Holders') <= Cardinality(Holders)
    BY <2>1, FS_Subset DEF SlotsBounded
  <2>3. Cardinality(Holders) \in Nat /\ Cardinality(Holders') \in Nat
    BY <2>2, FS_CardinalityType DEF SlotsBounded
  <2>4. QED
    BY <1>1, <2>2, <2>3 DEF SlotsBounded
<1>4. QED
  BY <1>2, <1>3

\* The inductive invariant holds before any job is started.
LEMMA InitInvariant ==
    ASSUME Init
    PROVE  IInv
<1>1. TypeOK
  BY JobsAssumption DEF Init, TypeOK, Status
<1>2. ReaderAhead /\ ShellIsGone
  BY DEF Init, ReaderAhead, ShellIsGone
<1>3. SlotsBounded
  <2>1. Holders = {}
    BY DEF Init, Holders
  <2>2. QED
    BY <2>1, FS_EmptySet, JobsAssumption DEF SlotsBounded
<1>4. QED
  BY <1>1, <1>2, <1>3 DEF IInv

\* The inductive invariant holds in every reachable state.
THEOREM Invariance == Spec => []IInv
<1>1. Init => IInv
  BY InitInvariant
<1>2. IInv /\ [Next]_vars => IInv'
  BY TypeStep, AheadStep, SlotsStep DEF IInv
<1>3. QED
  BY <1>1, <1>2, PTL DEF Spec

\* Every variable of the job manager keeps its type, and the output a job keeps
\* never exceeds max_output_bytes.
THEOREM TypeCorrect == Spec => []TypeOK
  BY Invariance, PTL DEF IInv

\* Whatever the order of exits, timeouts and cancellations, a job whose _run has
\* ended has no shell running.
THEOREM NoShellOutlivesItsJob == Spec => []ShellIsGone
  BY Invariance, PTL DEF IInv

\* At no time are there more shells than max_concurrent_jobs: each belongs to a
\* job that holds a slot.
THEOREM ShellLimit == Spec => []ShellsBounded
<1>1. IInv => ShellsBounded
  <2> SUFFICES ASSUME IInv PROVE ShellsBounded
    OBVIOUS
  <2> DEFINE Live == {j \in Job : shell[j] = "live"}
  <2>1. Live \subseteq Holders
    BY DEF IInv, TypeOK, ReaderAhead, ShellIsGone, Holders
  <2>2. IsFiniteSet(Live) /\ Cardinality(Live) <= Cardinality(Holders)
    BY <2>1, FS_Subset DEF IInv, SlotsBounded
  <2>3. Cardinality(Holders) \in Nat /\ Cardinality(Live) \in Nat /\ MaxJobs \in Nat
    BY <2>2, FS_CardinalityType, JobsAssumption DEF IInv, SlotsBounded
  <2>4. Cardinality(Live) <= MaxJobs
    BY <2>2, <2>3 DEF IInv, SlotsBounded
  <2>5. QED
    BY <2>4 DEF ShellsBounded
<1>2. QED
  BY <1>1, Invariance, PTL

\* A chunk is dropped and the job marked in one step, and every outcome keeps the
\* mark.
LEMMA MarkStep ==
    ASSUME TypeOK, TruncationReported, [Next]_vars
    PROVE  TruncationReported'
<1> USE DEF TypeOK, TruncationReported
<1>1. ASSUME NEW j \in Job, UNCHANGED <<result, lost>>
      PROVE  TruncationReported'
  BY <1>1
<1>2. ASSUME NEW j \in Job, NEW status \in Status, Ends(j, status), UNCHANGED lost
      PROVE  TruncationReported'
  BY <1>2 DEF Ends, Verdict
<1>3. {"SUCCEEDED", "FAILED", "CANCELLED", "TIMED_OUT"} \subseteq Status
  BY DEF Status
<1>4. ASSUME NEW j \in Job, Start(j) \/ Admit(j) \/ ProcessStep(j)
      PROVE  TruncationReported'
  BY <1>1, <1>4 DEF Start, Admit, ProcessStep, ShellExits, ShellForks, ChildExits,
     outVars
<1>5. ASSUME NEW j \in Job, ReaderStep(j)
      PROVE  TruncationReported'
  <2>1. CASE Spawn(j) \/ Report(j) \/ AssignFails(j) \/ RefusalEnds(j) \/ ReadEnds(j)
    BY <1>1, <2>1 DEF Spawn, Report, AssignFails, RefusalEnds, ReadEnds, outVars
  <2>2. CASE Chunk(j)
    <3>1. PICK size \in ChunkSize :
              \/ UNCHANGED <<result, lost>>
              \/ /\ result' = [result EXCEPT ![j] = [status |-> @.status, truncated |-> TRUE]]
                 /\ lost' = lost \cup {j}
      BY <2>2 DEF Chunk
    <3>2. QED
      BY <1>1, <3>1
  <2>3. QED
    BY <1>5, <2>1, <2>2 DEF ReaderStep
<1>6. ASSUME NEW j \in Job, RunStep(j)
      PROVE  TruncationReported'
  <2>1. CASE RunReturns(j)
    BY <1>2, <1>3, <2>1 DEF RunReturns
  <2>2. CASE Timeout(j) \/ ReaderCancelled(j) \/ GraceOver(j)
    BY <1>1, <2>2 DEF Timeout, ReaderCancelled, GraceOver, outVars
  <2>3. CASE StopBegins(j)
    BY <1>1, <1>2, <1>3, <2>3 DEF StopBegins
  <2>4. CASE StopReturns(j)
    BY <1>2, <1>3, <2>4 DEF StopReturns
  <2>5. QED
    BY <1>6, <2>1, <2>2, <2>3, <2>4 DEF RunStep
<1>7. ASSUME NEW j \in Job, CancelTask(j), UNCHANGED lost
      PROVE  TruncationReported'
  BY <1>1, <1>2, <1>3, <1>7 DEF CancelTask
<1>8. ASSUME NEW j \in Job, CancelBegins(j) \/ CancelStep(j)
      PROVE  TruncationReported'
  BY <1>1, <1>7, <1>8 DEF CancelBegins, CancelStep, CancelGraceOver, CancelReturns,
     outVars
<1>9. CASE UNCHANGED vars
  BY <1>9 DEF vars, outVars
<1>10. ASSUME NEW j \in Job, CancelTooLate(j)
       PROVE  UNCHANGED vars
  BY <1>10 DEF CancelTooLate
<1>11. QED
  BY <1>4, <1>5, <1>6, <1>8, <1>9, <1>10 DEF Next

\* No output is dropped without the job's result saying so, whichever of its exit,
\* its timeout and its cancellation ends it.
THEOREM DroppedOutputIsTold == Spec => []TruncationReported
<1>1. Init => TruncationReported
  <2> SUFFICES ASSUME Init, NEW j \in Job PROVE result[j].truncated <=> j \in lost
    BY DEF TruncationReported
  <2>1. result[j].truncated = FALSE /\ j \notin lost
    BY DEF Init
  <2>2. QED
    BY <2>1
<1>2. IInv /\ TruncationReported /\ [Next]_vars => TruncationReported'
  BY MarkStep DEF IInv
<1>3. QED
  BY Invariance, <1>1, <1>2, PTL DEF Spec

-----------------------------------------------------------------------------
(* What a job leaves behind.                                               *)

\* What a job's outcome, its Job Object and a termination that went as far as
\* SIGKILL tell of its processes: beside IInv, inductive.
Aftermath ==
    \A j \in Job :
        /\ known[j] \/ reader[j] \in {"spawning", "reading"} => shell[j] # "none"
        /\ reader[j] = "finished" => Quiet(j)
        /\ tree[j] = "object" => reader[j] = "reading"
        /\ result[j].status # "PENDING" => run[j] = "done"
        /\ run[j] = "done" /\ result[j].status = "PENDING" => reader[j] = "none"
        /\ result[j].status = "SUCCEEDED" => reader[j] = "finished" /\ shell[j] = "ok"
        /\ stage[j] # "none" => run[j] \in {"stopping", "aborting"}
        /\ canceller = j => known[j]
        /\ stage[j] = "killed" \/ (canceller = j /\ grace = "killed") =>
             Posix(j) /\ shell[j] # "live" /\ child[j] # "live"

\* What a job that is done has to show for itself stays as it is.
OutcomeKept ==
    \A j \in Job : run[j] = "done" =>
        /\ run'[j] = "done" /\ result'[j] = result[j] /\ bytes'[j] = bytes[j]
        /\ j \in lost' <=> j \in lost

\* Each step keeps both.
LEMMA AftermathStep ==
  ASSUME IInv, Aftermath, [Next]_vars
  PROVE  Aftermath' /\ OutcomeKept
<1> USE JobsAssumption DEF IInv, TypeOK, ReaderAhead, Aftermath, OutcomeKept, Quiet, Posix,
            jobVars, procVars, outVars, cancelVars
<1>1. ASSUME NEW j \in Job, Start(j)
      PROVE  Aftermath' /\ OutcomeKept
  BY <1>1 DEF Start
<1>2. ASSUME NEW j \in Job, Admit(j)
      PROVE  Aftermath' /\ OutcomeKept
  BY <1>2 DEF Admit
<1>3. ASSUME NEW j \in Job, Spawn(j)
      PROVE  Aftermath' /\ OutcomeKept
  BY <1>3 DEF Spawn
<1>4. ASSUME NEW j \in Job, Report(j)
      PROVE  Aftermath' /\ OutcomeKept
  BY <1>4 DEF Report, Posix
<1>5. ASSUME NEW j \in Job, AssignFails(j)
      PROVE  Aftermath' /\ OutcomeKept
  BY <1>5 DEF AssignFails
<1>6. ASSUME NEW j \in Job, RefusalEnds(j)
      PROVE  Aftermath' /\ OutcomeKept
  BY <1>6 DEF RefusalEnds
<1>7. ASSUME NEW j \in Job, Chunk(j)
      PROVE  Aftermath' /\ OutcomeKept
  BY <1>7 DEF Chunk
<1>8. ASSUME NEW j \in Job, ReadEnds(j)
      PROVE  Aftermath' /\ OutcomeKept
  BY <1>8 DEF ReadEnds, Quiet, CloseObject
<1>9. ASSUME NEW j \in Job, RunReturns(j)
      PROVE  Aftermath' /\ OutcomeKept
  BY <1>9 DEF RunReturns, Ends, Verdict, Quiet
<1>10. ASSUME NEW j \in Job, Timeout(j)
      PROVE  Aftermath' /\ OutcomeKept
  BY <1>10 DEF Timeout
<1>11. ASSUME NEW j \in Job, ReaderCancelled(j)
      PROVE  Aftermath' /\ OutcomeKept
  BY <1>11 DEF ReaderCancelled, CloseObject
<1>12. ASSUME NEW j \in Job, StopBegins(j)
      PROVE  Aftermath' /\ OutcomeKept
  BY <1>12 DEF StopBegins, NothingToStop, StopsTree, SigTerm, TerminateObject,
       CloseObject, Ends, Verdict
<1>13. ASSUME NEW j \in Job, GraceOver(j)
      PROVE  Aftermath' /\ OutcomeKept
  BY <1>13 DEF GraceOver, SigKill
<1>14. ASSUME NEW j \in Job, StopReturns(j)
      PROVE  Aftermath' /\ OutcomeKept
  BY <1>14 DEF StopReturns, Ends, Verdict
<1>15. ASSUME NEW j \in Job, ShellExits(j) \/ ShellForks(j) \/ ChildExits(j)
      PROVE  Aftermath' /\ OutcomeKept
  BY <1>15 DEF ShellExits, ShellForks, ChildExits
<1>16. ASSUME NEW j \in Job, CancelTooLate(j)
      PROVE  Aftermath' /\ OutcomeKept
  BY <1>16 DEF CancelTooLate, vars
<1>17. ASSUME NEW j \in Job, CancelBegins(j)
      PROVE  Aftermath' /\ OutcomeKept
  BY <1>17 DEF CancelBegins, NothingToStop, StopsTree, SigTerm,
       TerminateObject, CloseObject, CancelTask, Ends, Verdict
<1>18. ASSUME NEW j \in Job, CancelGraceOver(j)
      PROVE  Aftermath' /\ OutcomeKept
  BY <1>18 DEF CancelGraceOver, SigKill
<1>19. ASSUME NEW j \in Job, CancelReturns(j)
      PROVE  Aftermath' /\ OutcomeKept
  BY <1>19 DEF CancelReturns, CancelTask, Ends, Verdict
<1>20. CASE UNCHANGED vars
  BY <1>20 DEF vars
<1> QED BY <1>1, <1>2, <1>3, <1>4, <1>5, <1>6, <1>7, <1>8, <1>9, <1>10, <1>11,
       <1>12, <1>13, <1>14, <1>15, <1>16, <1>17, <1>18, <1>19, <1>20 DEF Next,
       ReaderStep, RunStep, ProcessStep, CancelStep

\* It holds in every reachable state, together with IInv.
THEOREM AftermathHolds == Spec => [](IInv /\ Aftermath)
<1>1. Init => Aftermath
  BY JobsAssumption DEF Init, Aftermath, Posix, Quiet
<1>2. IInv /\ Aftermath /\ [Next]_vars => Aftermath'
  BY AftermathStep
<1> QED BY Invariance, <1>1, <1>2, PTL DEF Spec

\* The outcome of a job is final: no chunk, exit, timeout or cancellation that
\* comes after _run has ended changes its result, its output or what is said of it.
OutcomeIsFinal == [][OutcomeKept]_vars

\* job.result is written by _run and, up to its end, by on_chunk.
THEOREM OutcomesAreFinal == Spec => OutcomeIsFinal
<1>1. IInv /\ Aftermath /\ [Next]_vars => [OutcomeKept]_vars
  BY AftermathStep
<1> QED BY AftermathHolds, <1>1, PTL DEF Spec, OutcomeIsFinal

\* How far CancelIsReported holds: the one job that can be over and PENDING is the
\* one cancelled in the queue, for which no reader, and so no process, was made.
PendingIsUnstarted ==
    \A j \in Job : run[j] = "done" /\ result[j].status = "PENDING" =>
        reader[j] = "none" /\ shell[j] = "none"

\* From the slot on, _run sets an outcome however it ends.
THEOREM StartedJobsAreReported == Spec => []PendingIsUnstarted
<1>1. IInv /\ Aftermath => PendingIsUnstarted
  BY DEF IInv, ReaderAhead, Aftermath, PendingIsUnstarted
<1> QED BY AftermathHolds, <1>1, PTL

\* A job that SUCCEEDED has left nothing of its group behind, not even on Windows
\* a child that escaped the object: its output ended because its pipes closed.
SuccessIsQuiet ==
    \A j \in Job : result[j].status = "SUCCEEDED" => shell[j] = "ok" /\ Quiet(j)

\* wait_for returns what the reader did, and the reader ended at Quiet.
THEOREM SuccessLeavesNothing == Spec => []SuccessIsQuiet
<1>1. Aftermath => SuccessIsQuiet
  BY DEF Aftermath, SuccessIsQuiet
<1> QED BY AftermathHolds, <1>1, PTL

\* A Job Object whose handle is open belongs to a job that is still being read.
HandleIsClosed == \A j \in Job : tree[j] = "object" => reader[j] = "reading" /\ run[j] # "done"

\* On Windows no job that is over keeps the handle of its object, or what it
\* would keep alive.
THEOREM HandlesAreClosed == Spec => []HandleIsClosed
<1>1. IInv /\ Aftermath => HandleIsClosed
  BY DEF IInv, ReaderAhead, Aftermath, HandleIsClosed
<1> QED BY AftermathHolds, <1>1, PTL

\* Once terminate() has gone as far as SIGKILL, on the path of _run or of cancel(),
\* nothing of the group is alive, and nothing comes alive while it waits.
KilledStayDead ==
    \A j \in Job : stage[j] = "killed" \/ (canceller = j /\ grace = "killed") =>
        shell[j] # "live" /\ child[j] # "live"

\* Only a live shell starts processes of the group, and no step revives one.
THEOREM SigkillIsEnough == Spec => []KilledStayDead
<1>1. Aftermath => KilledStayDead
  BY DEF Aftermath, KilledStayDead
<1> QED BY AftermathHolds, <1>1, PTL

=============================================================================
