------------------------------- MODULE Servant -------------------------------
(***************************************************************************)
(* What the Agent promises about the requests it is sent: they are served  *)
(* one at a time, each has its effect at most once and is answered only    *)
(* after it was taken up, over the line it came by.  What a line leaves    *)
(* unfinished when it goes down is lost: never taken up or answered later. *)
(* A request cut short while it ran is adrift: its effect may still come.  *)
(* This is what Registry assumes of its peer (AgentServe).                 *)
(***************************************************************************)
EXTENDS Integers

CONSTANT Request

VARIABLES
    line,   \* whether there is a line to the Gateway
    life,   \* where each request is
    runs    \* how many times it has had its effect

Stages == {"unsent", "queued", "running", "ran", "answered", "adrift", "lost"}

Move(r, from, to) == life[r] = from /\ life' = [life EXCEPT ![r] = to]

Sent(r) == line /\ Move(r, "unsent", "queued") /\ UNCHANGED <<line, runs>>

TakenUp(r) ==
    /\ \A q \in Request : life[q] \notin {"running", "ran"}
    /\ Move(r, "queued", "running") /\ UNCHANGED <<line, runs>>

\* It has its effect, or fails without one.
Ran(r) ==
    /\ Move(r, "running", "ran") \/ Move(r, "adrift", "lost")
    /\ runs' = runs \/ runs' = [runs EXCEPT ![r] = @ + 1]
    /\ UNCHANGED line

Answered(r) == line /\ Move(r, "ran", "answered") /\ UNCHANGED <<line, runs>>

Forsaken ==
    /\ life' \in [Request -> Stages]
    /\ \A r \in Request :
        \/ life'[r] = life[r]
        \/ life[r] \in {"queued", "running", "ran"} /\ life'[r] = "lost"
        \/ life[r] = "running" /\ life'[r] = "adrift"
    /\ UNCHANGED <<line, runs>>

PickUp == ~line /\ line' = TRUE /\ UNCHANGED <<life, runs>>

HangUp ==
    /\ line /\ line' = FALSE
    /\ life' = [r \in Request |-> IF life[r] = "queued" THEN "lost" ELSE life[r]]
    /\ \A r \in Request : life[r] \notin {"running", "ran"}
    /\ UNCHANGED runs

Init == line = FALSE /\ life = [r \in Request |-> "unsent"] /\ runs = [r \in Request |-> 0]

Next ==
    \/ PickUp \/ HangUp \/ Forsaken
    \/ \E r \in Request : Sent(r) \/ TakenUp(r) \/ Ran(r) \/ Answered(r)

Spec == Init /\ [][Next]_<<line, life, runs>>

=============================================================================
