------------------------------- MODULE MCLogin -------------------------------
(***************************************************************************)
(* Connections that log in twice under names of which one does not fit in  *)
(* the player registry, and invite.                                        *)
(***************************************************************************)
EXTENDS Login

CONSTANTS n1, n2, n3

ThreeNames == {n1, n2, n3}
=============================================================================
