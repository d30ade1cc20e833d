---------------------------- MODULE MCOperations ----------------------------
(***************************************************************************)
(* Operations for TLC: three concurrent operations of two owners on one    *)
(* device, all mutations under one request id, with leases of no duration  *)
(* (refused) and of one tick.                                              *)
(***************************************************************************)
EXTENDS Operations, TLC

CONSTANTS o1, o2, o3, a, b, r1, d1

ThreeOps == {o1, o2, o3}
TwoOwners == {a, b}
OneDevice == {d1}
OneRequest == {r1}
Durations == {0, 1}

\* Operations and owners are alike; every property of these runs is of safety.
Alike == Permutations(Op) \cup Permutations(Owner)
=============================================================================
