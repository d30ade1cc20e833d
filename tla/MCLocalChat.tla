----------------------------- MODULE MCLocalChat -----------------------------
(* An instance of LocalChat for TLC. *)
EXTENDS LocalChat, FiniteSets

CONSTANTS i1, i2

TwoIds == {i1, i2}

Writers == Proposal

\* One action of context and two of the turns, in one turn or in two; ids are
\* used in order, which loses nothing, for they differ in nothing.
Scope ==
    /\ cur # <<0, i2>> /\ tool[<<0, i2>>] = None
    /\ Cardinality({p \in Proposal : p[1] > 0 /\ tool[p] # None}) <= 2
    /\ \A t \in 1..MaxTurns : tool[<<t, i1>>] = None => tool[<<t, i2>>] = None

=============================================================================
