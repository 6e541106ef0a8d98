----------------------------- MODULE GameStates -----------------------------
(***************************************************************************)
(* What the rest of the server can tell about a GAME (src/game.c): whose   *)
(* turn it is, whether it is over, who is recorded as the winner and       *)
(* whether its semaphore can still be taken.  A game is a value of Games;  *)
(* the operators say which values each library call may leave behind.      *)
(* The board is abstracted away: a legal move may or may not complete a    *)
(* line.  AbstractGame turns the operators into a state machine that       *)
(* Game.tla is checked to implement, and Match.tla keeps one such value    *)
(* per accepted invitation.                                                *)
(***************************************************************************)
EXTENDS Naturals

NullRole == 0
Roles    == {1, 2}
Other(r) == 3 - r

Games == [turn   : Roles,
          over   : BOOLEAN,
          winner : Roles \cup {NullRole},
          seph   : {0, 1}]

\* game_create
NewGame == [turn |-> 1, over |-> FALSE, winner |-> NullRole, seph |-> 1]

(***************************************************************************)
(* game_apply_move of a move that is on turn and on an empty cell: the     *)
(* turn passes on, and either no line is complete (and nothing else        *)
(* changes) or the game is over.  Which cell the code credits the win to   *)
(* depends on the line, so any role, or none, may end up as the winner.    *)
(* A game that is over is not refused.                                     *)
(***************************************************************************)
Passed(g, o, w) == [turn |-> Other(g.turn), over |-> o, winner |-> w,
                    seph |-> g.seph]

AfterMove(g) == {Passed(g, g.over, g.winner)} \cup
                {Passed(g, TRUE, w) : w \in Roles \cup {NullRole}}

\* game_apply_move of a move on turn whose cell is taken or does not exist:
\* the call returns -1 and never posts the semaphore.
AfterMisplay(g) == [turn |-> g.turn, over |-> g.over, winner |-> g.winner,
                    seph |-> 0]

\* game_resign by either player: the code always records the second one.
AfterResign(g) == [turn |-> g.turn, over |-> TRUE, winner |-> 2,
                   seph |-> g.seph]
=============================================================================
