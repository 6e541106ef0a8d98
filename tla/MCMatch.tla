------------------------------ MODULE MCMatch -------------------------------
(***************************************************************************)
(* Instances of Match for TLC: clients and invitations are model values.   *)
(* Nothing in Match tells two clients apart but Leavers and Deaf, which    *)
(* match_safety leaves empty, and nothing two invitations, so permuting    *)
(* them is a symmetry of that run.                                         *)
(***************************************************************************)
EXTENDS Match, TLC

CONSTANTS a, b, v1, v2

Two      == {a, b}
OneInv   == {v1}
TwoInvs  == {v1, v2}
Nobody   == {}
OnlyB    == {b}
First    == {1}
Second   == {2}
AnyRole  == 0 .. 3
Same     == Permutations(Two) \cup Permutations(TwoInvs)
=============================================================================
