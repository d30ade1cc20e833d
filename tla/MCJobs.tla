------------------------------- MODULE MCJobs -------------------------------
(***************************************************************************)
(* Instances of Jobs for TLC: two jobs share one slot, so that one waits   *)
(* for the other; the second chunk of a job does not fit.                  *)
(***************************************************************************)
EXTENDS Jobs

CONSTANTS j1, j2

TwoJobs == {j1, j2}
Sizes == {2}

=============================================================================
