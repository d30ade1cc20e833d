----------------------------- MODULE Admission -----------------------------
(***************************************************************************)
(* What the replay guard promises for a mutation request id, as            *)
(* docs/architecture.md states it: an id is spent once, before anything is *)
(* dispatched, and never given back; at most one attempt under it has an   *)
(* effect, whatever is cancelled, lost or restarted.                       *)
(***************************************************************************)
CONSTANTS Request, Attempt

VARIABLES
    spent,      \* the request ids that were claimed
    ran         \* the attempts that had an effect, for each request id

admissionVars == <<spent, ran>>

Init == spent = {} /\ ran = [r \in Request |-> {}]

Spend(r) == r \notin spent /\ spent' = spent \cup {r} /\ UNCHANGED ran

Effect(r) ==
    /\ r \in spent /\ ran[r] = {}
    /\ \E a \in Attempt : ran' = [ran EXCEPT ![r] = {a}]
    /\ UNCHANGED spent

Next == \E r \in Request : Spend(r) \/ Effect(r)

Spec == Init /\ [][Next]_admissionVars

=============================================================================
