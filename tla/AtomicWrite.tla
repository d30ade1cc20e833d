----------------------------- MODULE AtomicWrite -----------------------------
(***************************************************************************)
(* FilesystemOperations.write (agent/filesystem/operations.py) of one      *)
(* file, by any number of writers: threads of one session or of several    *)
(* processes, which the code does not keep apart.  A temporary file is     *)
(* created beside the target, filled, synced and moved over it.            *)
(*                                                                         *)
(* `file` is what the target holds: "old", a write that is on disk         *)
(* ("kept"), one that is complete but would not survive a loss of power    *)
(* ("soft"), or only part of one ("torn").                                 *)
(***************************************************************************)
CONSTANT Writer

VARIABLES
    file,   \* the target
    temp,   \* each writer's temporary file: none, part, full or synced
    stage   \* where each write stands

fileVars == <<file, temp, stage>>

Writing == {"begun", "filling", "syncing", "replacing"}

WriteBegins(w) ==
    /\ stage[w] = "idle"
    /\ stage' = [stage EXCEPT ![w] = "begun"]
    /\ UNCHANGED <<file, temp>>

\* The capability, the permission, the size or the path is refused, or no
\* temporary file can be created.
WriteRefused(w) ==
    /\ stage[w] = "begun"
    /\ stage' = [stage EXCEPT ![w] = "failed"]
    /\ UNCHANGED <<file, temp>>

TempCreated(w) ==
    /\ stage[w] = "begun"
    /\ stage' = [stage EXCEPT ![w] = "filling"]
    /\ temp' = [temp EXCEPT ![w] = "part"]
    /\ UNCHANGED file

Filled(w) ==
    /\ stage[w] = "filling"
    /\ stage' = [stage EXCEPT ![w] = "syncing"]
    /\ temp' = [temp EXCEPT ![w] = "full"]
    /\ UNCHANGED file

\* fault: flushed to the kernel only
FlushOnly(w) == UNCHANGED temp
Fsync(w) == temp' = [temp EXCEPT ![w] = "synced"]

Synced(w) ==
    /\ stage[w] = "syncing"
    /\ stage' = [stage EXCEPT ![w] = "replacing"]
    /\ Fsync(w)
    /\ UNCHANGED file

\* os.replace; the unlink in `finally` finds nothing.
Replaced(w) ==
    /\ stage[w] = "replacing"
    /\ stage' = [stage EXCEPT ![w] = "written"]
    /\ temp' = [temp EXCEPT ![w] = "none"]
    /\ file' = CASE temp[w] = "synced" -> "kept" [] temp[w] = "full" -> "soft" [] OTHER -> "torn"

\* Something of that fails, and `finally` removes the temporary file.
WriteFails(w) ==
    /\ stage[w] \in {"filling", "syncing", "replacing"}
    /\ stage' = [stage EXCEPT ![w] = "failed"]
    /\ temp' = [temp EXCEPT ![w] = "none"]
    /\ UNCHANGED file

WriteStep(w) ==
    \/ WriteRefused(w) \/ TempCreated(w) \/ Filled(w) \/ Synced(w) \/ WriteFails(w)

\* The machine stops: no writer goes on, and only what was synced is kept.
PowerLoss ==
    /\ file' = IF file = "soft" THEN "torn" ELSE file
    /\ stage' = [w \in Writer |-> IF stage[w] \in Writing THEN "dead" ELSE stage[w]]
    /\ UNCHANGED temp

FileInit ==
    /\ file = "old"
    /\ temp = [w \in Writer |-> "none"] /\ stage = [w \in Writer |-> "idle"]

FileType ==
    /\ file \in {"old", "kept", "soft", "torn"}
    /\ temp \in [Writer -> {"none", "part", "full", "synced"}]
    /\ stage \in [Writer -> {"idle", "written", "failed", "dead"} \cup Writing]

\* A write is moved into place only once it is on disk: the inductive part.
ReplacesSynced ==
    /\ file # "soft"
    /\ \A w \in Writer :
        /\ stage[w] = "begun" => temp[w] = "none"
        /\ stage[w] = "replacing" => temp[w] = "synced"

\* The target is never part of a write, not even after a loss of power, and a
\* temporary file outlives its writer only if the machine stopped under it.
FileIntact ==
    /\ file # "torn"
    /\ \A w \in Writer : temp[w] # "none" => stage[w] \in Writing \cup {"dead"}

=============================================================================
