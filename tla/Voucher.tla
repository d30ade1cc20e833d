------------------------------ MODULE Voucher ------------------------------
(***************************************************************************)
(* What a pairing code promises (docs/architecture.md: limited attempts,   *)
(* single use): an offered code takes at most Max guesses, right or wrong, *)
(* and one bearer at most, after whom it takes no guess at all.            *)
(***************************************************************************)
EXTENDS Naturals

CONSTANTS Code, Bearer, Max

VARIABLES
    offered,    \* the codes handed out
    tries,      \* the guesses each code has taken
    bearers     \* who redeemed it

voucherVars == <<offered, tries, bearers>>

Init ==
    /\ offered = {}
    /\ tries = [c \in Code |-> 0]
    /\ bearers = [c \in Code |-> {}]

Offer(c) == c \notin offered /\ offered' = offered \cup {c} /\ UNCHANGED <<tries, bearers>>

Try(c) ==
    /\ c \in offered /\ bearers[c] = {} /\ tries[c] < Max
    /\ tries' = [tries EXCEPT ![c] = @ + 1]
    /\ UNCHANGED offered

Miss(c) == Try(c) /\ UNCHANGED bearers
Redeem(c) == Try(c) /\ \E b \in Bearer : bearers' = [bearers EXCEPT ![c] = {b}]

Next == \E c \in Code : Offer(c) \/ Miss(c) \/ Redeem(c)

Spec == Init /\ [][Next]_voucherVars

=============================================================================
