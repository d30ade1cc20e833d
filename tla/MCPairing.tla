----------------------------- MODULE MCPairing -----------------------------
(***************************************************************************)
(* Pairing for TLC: two codes with one locator, of which one can be        *)
(* offered and the other is a wrong guess, and one code of another         *)
(* locator; three redemptions, two attempts for each code.                 *)
(***************************************************************************)
EXTENDS Pairing, TLC

CONSTANTS c1, c2, c3, l1, l2, p1, p2, p3

ThreeCodes == {c1, c2, c3}
TwoLocators == {l1, l2}
ThreeRedemptions == {p1, p2, p3}
MCLocatorOf == [c \in Code |-> IF c = c3 THEN l2 ELSE l1]

\* Every property of the run is of safety, and MCLocatorOf tells c3 alone apart.
Alike == Permutations({c1, c2}) \cup Permutations(Redemption)
=============================================================================
