------------------------------- MODULE MCGame -------------------------------
(***************************************************************************)
(* An instance of Game for TLC.  Each role plays into its own part of the  *)
(* nine cells, so that boards stay few while a board can still be filled   *)
(* without a line, and each role can complete lines; the cells 3, 5, 7 and *)
(* the coordinate 0, which names no cell, are sent by both.                *)
(***************************************************************************)
EXTENDS Game

SplitCords == <<{0, 1, 2, 3, 5, 6, 7, 9}, {0, 3, 4, 5, 7, 8}>>
=============================================================================
