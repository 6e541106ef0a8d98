------------------------- MODULE AbstractInvitation -------------------------
(***************************************************************************)
(* What one INVITATION (src/invitation.c) promises whatever the clients    *)
(* do with it: it is offered once, accepted at most once, and only while   *)
(* it is open; the game created then is never replaced; it is closed at    *)
(* most once, either open, and then it never gets a game, or accepted,     *)
(* and then its game is over.                                              *)
(***************************************************************************)
EXTENDS GameStates

VARIABLES state,   \* "NONE" before inv_create, then the INVITATION_STATE
          game     \* gameRef

NoGame == [turn |-> NullRole, over |-> FALSE, winner |-> NullRole, seph |-> 0]

Init == state = "NONE" /\ game = NoGame

\* inv_create
Create == /\ state = "NONE"
          /\ state' = "OPEN"
          /\ UNCHANGED game

\* inv_accept
Accept == /\ state = "OPEN"
          /\ state' = "ACCEPTED"
          /\ game' = NewGame

\* game_apply_move, also after the invitation was closed.
Play == /\ game.seph = 1
        /\ game' \in AfterMove(game)
        /\ UNCHANGED state

\* game_apply_move of a misplay: nothing happens to the game afterwards.
Misplay == /\ game.seph = 1
           /\ game' = AfterMisplay(game)
           /\ UNCHANGED state

\* inv_close before the invitation is accepted, with or without a role.
CloseOpen == /\ state = "OPEN"
             /\ state' = "CLOSED"
             /\ UNCHANGED game

\* inv_close with a role once there is a game: the game is resigned.
CloseGame == /\ state = "ACCEPTED"
             /\ game.seph = 1
             /\ state' = "CLOSED"
             /\ game' = AfterResign(game)

Next == Create \/ Accept \/ Play \/ Misplay \/ CloseOpen \/ CloseGame

Spec == Init /\ [][Next]_<<state, game>>

-----------------------------------------------------------------------------
TypeOK == /\ state \in {"NONE", "OPEN", "ACCEPTED", "CLOSED"}
          /\ game \in Games \cup {NoGame}

(***************************************************************************)
(* inv_close and inv_accept never leave an invitation half way: one that   *)
(* is accepted has a game, one that is not yet accepted has none, and one  *)
(* that was closed with a game has a game that is over.                    *)
(***************************************************************************)
GameMatchesState ==
    /\ state \in {"NONE", "OPEN"} => game = NoGame
    /\ state = "ACCEPTED" => game # NoGame
    /\ state = "CLOSED" /\ game # NoGame => game.over
=============================================================================
