----------------------------- MODULE RemoteCall -----------------------------
(***************************************************************************)
(* What ConnectionRegistry.request promises its callers, whatever happens  *)
(* to connections, the database and the process: a call is executed at     *)
(* most once and possibly after its caller gave up; a result is returned   *)
(* only for a call that was executed; a call refused as "offline" was not  *)
(* executed and never will be; every other failure is ambiguous.           *)
(***************************************************************************)
EXTENDS Naturals

CONSTANT Call

VARIABLES
    phase,      \* idle, open (between request and return), done
    runs,       \* how many times an Agent has executed the call
    verdict     \* what the caller was told

callVars == <<phase, runs, verdict>>

Verdict == {"result", "offline", "unavailable", "timeout", "cancelled", "error", "lost"}

TypeOK ==
    /\ phase \in [Call -> {"idle", "open", "done"}]
    /\ runs \in [Call -> 0..1]
    /\ verdict \in [Call -> Verdict \cup {"none"}]

Init ==
    /\ phase = [k \in Call |-> "idle"]
    /\ runs = [k \in Call |-> 0]
    /\ verdict = [k \in Call |-> "none"]

Issue(k) ==
    /\ phase[k] = "idle" /\ phase' = [phase EXCEPT ![k] = "open"]
    /\ UNCHANGED <<runs, verdict>>

\* The caller may be gone by now; it must not have been told "offline".
Execute(k) ==
    /\ phase[k] # "idle" /\ runs[k] = 0 /\ verdict[k] # "offline"
    /\ runs' = [runs EXCEPT ![k] = 1]
    /\ UNCHANGED <<phase, verdict>>

Return(k, v) ==
    /\ phase[k] = "open" \/ (phase[k] = "idle" /\ v = "offline")
    /\ v = "result" => runs[k] = 1
    /\ v = "offline" => runs[k] = 0
    /\ phase' = [phase EXCEPT ![k] = "done"]
    /\ verdict' = [verdict EXCEPT ![k] = v]
    /\ UNCHANGED runs

\* The process ends and takes every open call with it.
LoseAll ==
    /\ phase' = [k \in Call |-> IF phase[k] = "open" THEN "done" ELSE phase[k]]
    /\ verdict' = [k \in Call |-> IF phase[k] = "open" THEN "lost" ELSE verdict[k]]
    /\ UNCHANGED runs

Next ==
    \/ \E k \in Call : Issue(k) \/ Execute(k) \/ \E v \in Verdict : Return(k, v)
    \/ LoseAll

Spec == Init /\ [][Next]_callVars

=============================================================================
