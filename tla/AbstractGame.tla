---------------------------- MODULE AbstractGame ----------------------------
(***************************************************************************)
(* A GAME as its callers see it: a value of Games that changes only by a   *)
(* legal move, by a misplay (which leaves the semaphore taken for good) or *)
(* by a resignation.  Every other call leaves it as it was.                *)
(***************************************************************************)
EXTENDS GameStates

VARIABLE game

Init == game = NewGame

\* A call to game_apply_move that returns 0.
Move == /\ game.seph = 1
        /\ game' \in AfterMove(game)

\* A call to game_apply_move that returns -1 from inside the board scan.
Misplay == /\ game.seph = 1
           /\ game' = AfterMisplay(game)

\* A call to game_resign with a role.
Resign == /\ game.seph = 1
          /\ game' = AfterResign(game)

Next == Move \/ Misplay \/ Resign

Spec == Init /\ [][Next]_game
=============================================================================
