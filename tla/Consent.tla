------------------------------- MODULE Consent -------------------------------
(***************************************************************************)
(* What a local session promises its operator about what the chat model    *)
(* proposes: a proposal has its effect at most once; a mutation, only if   *)
(* the session may write and the operator allowed that very proposal, or   *)
(* its tool for the session.  The model hears of success only after the    *)
(* effect, and of failure only if there is none and will be none; of a     *)
(* proposal reported as unknown, nothing is promised.                      *)
(***************************************************************************)
EXTENDS Integers

CONSTANTS Proposal, Tool, Mutating, None

VARIABLES
    permission, \* READ_ONLY or READ_WRITE
    tool,       \* the tool of each proposal made
    answer,     \* the operator's
    deeds,      \* how often each proposal had its effect
    told        \* what the model was told of it

vars == <<permission, tool, answer, deeds, told>>

Allowed(p) ==
    \/ tool[p] \notin Mutating
    \/ /\ permission = "READ_WRITE"
       /\ \/ answer[p] = "once"
          \/ \E q \in Proposal : tool[q] = tool[p] /\ answer[q] = "session"

Propose(p) ==
    /\ tool[p] = None
    /\ \E t \in Tool : tool' = [tool EXCEPT ![p] = t]
    /\ UNCHANGED <<permission, answer, deeds, told>>

Answer(p) ==
    /\ permission = "READ_WRITE" /\ tool[p] \in Mutating /\ answer[p] = "none"
    /\ \E a \in {"once", "session", "deny", "lost"} : answer' = [answer EXCEPT ![p] = a]
    /\ UNCHANGED <<permission, tool, deeds, told>>

Act(p) ==
    /\ tool[p] # None /\ Allowed(p) /\ deeds[p] = 0 /\ told[p] \in {"none", "unknown"}
    /\ deeds' = [deeds EXCEPT ![p] = 1]
    /\ UNCHANGED <<permission, tool, answer, told>>

Tell(p) ==
    /\ tool[p] # None /\ told[p] = "none"
    /\ \/ deeds[p] = 1 /\ told' = [told EXCEPT ![p] = "ok"]
       \/ deeds[p] = 0 /\ told' = [told EXCEPT ![p] = "failed"]
       \/ told' = [told EXCEPT ![p] = "unknown"]
    /\ UNCHANGED <<permission, tool, answer, deeds>>

Init ==
    /\ permission \in {"READ_ONLY", "READ_WRITE"}
    /\ tool = [p \in Proposal |-> None] /\ answer = [p \in Proposal |-> "none"]
    /\ deeds = [p \in Proposal |-> 0] /\ told = [p \in Proposal |-> "none"]

Next == \E p \in Proposal : Propose(p) \/ Answer(p) \/ Act(p) \/ Tell(p)

Spec == Init /\ [][Next]_vars

=============================================================================
