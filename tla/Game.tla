-------------------------------- MODULE Game --------------------------------
(***************************************************************************)
(* One GAME object of src/game.c and the two service threads that play it. *)
(*                                                                         *)
(* A thread handles MOVE with two calls, game_parse_move and then          *)
(* game_apply_move (client_make_move, src/client.c:720-724); each takes    *)
(* the semaphore seph of the game, so each is one step here, and the       *)
(* opponent may run between them.  move[r] is the GAME_MOVE the thread of  *)
(* role r holds between its two calls.  A thread resigns, by way of        *)
(* inv_close, at most once per invitation.                                 *)
(*                                                                         *)
(* The 3x3 board is a function on Cells, the cell with coordinate c being  *)
(* gameboard[(c-1) / 3][(c-1) % 3].                                        *)
(***************************************************************************)
EXTENDS GameStates, Integers, FiniteSets

CONSTANT Cords   \* Cords[r]: the values of str[0] - '0' that role r sends

ASSUME CordsAssumption == Cords \in [Roles -> SUBSET Int]

Cells  == 1 .. 9
Blank  == " "
Syms   == {"X", "O"}
NoMove == [cord |-> 0, turn |-> NullRole, sym |-> Blank]

\* A move string: its strlen, its first character as a digit, its last one.
Strings(r) == [len : {1, 2, 4}, first : Cords[r], last : Syms]

GameMoves == [cord : Int, turn : Roles, sym : Syms]

VARIABLES
    board,         \* gameboard: the role that marked each cell, 0 if none
    expectedTurn,  \* the role that is on the move
    sym,           \* player1Sym and player2Sym
    gameover,
    winner,
    seph,          \* value of the semaphore between two calls
    move,          \* the parsed move each thread holds, or NoMove
    resigner       \* history: who resigned, NullRole if nobody did

vars == <<board, expectedTurn, sym, gameover, winner, seph, move, resigner>>

Init == /\ board        = [c \in Cells |-> NullRole]
        /\ expectedTurn = 1
        /\ sym          = [r \in Roles |-> Blank]
        /\ gameover     = FALSE
        /\ winner       = NullRole
        /\ seph         = 1
        /\ move         = [r \in Roles |-> NoMove]
        /\ resigner     = NullRole

-----------------------------------------------------------------------------
(***************************************************************************)
(* game_apply_move looks for a complete line in this order, rows, columns, *)
(* diagonals, and takes the winner from the cell "credited".  For columns  *)
(* that is gameboard[i][0], i being the column, and for the second         *)
(* diagonal gameboard[0][0].                                               *)
(***************************************************************************)
Lines == << [cells |-> {1, 2, 3}, credited |-> 1],
            [cells |-> {4, 5, 6}, credited |-> 4],
            [cells |-> {7, 8, 9}, credited |-> 7],
            [cells |-> {1, 4, 7}, credited |-> 1],
            [cells |-> {2, 5, 8}, credited |-> 4],
            [cells |-> {3, 6, 9}, credited |-> 7],
            [cells |-> {1, 5, 9}, credited |-> 1],
            [cells |-> {3, 5, 7}, credited |-> 1] >>

Complete(b, n, r) == \A c \in Lines[n].cells : b[c] = r

CompleteLines(b) == {n \in 1 .. 8 : \E r \in Roles : Complete(b, n, r)}

\* The line the checks stop at: gameEnded skips the later ones.
FirstLine(b) == CHOOSE n \in CompleteLines(b) :
                    \A k \in CompleteLines(b) : n <= k

CreditedWinner(b) == b[Lines[FirstLine(b)].credited]

(***************************************************************************)
(* Definitions marked "Slip" are the definition that follows them with a   *)
(* plausible mistake in it.  Nothing uses them: they show which property   *)
(* such a mistake would break.                                             *)
(***************************************************************************)
\* Slip: the checks stop before the diagonals.
WonByRowOrColumn(b) == CompleteLines(b) \cap (1 .. 6) # {}

\* gameEnded: some check found a complete line.
Won(b) == CompleteLines(b) # {}

(***************************************************************************)
(* game_parse_move.  The first move a role sends, legal or not, gives it   *)
(* its symbol, before anyone asks whose turn it is.                        *)
(***************************************************************************)
\* Slip: everybody is given an X.
SymsAllX(s, r) == IF s[r] # Blank THEN s ELSE [s EXCEPT ![r] = "X"]

SymsAfterParse(s, r) ==
    IF s[r] # Blank
    THEN s
    ELSE [s EXCEPT ![r] = IF s[Other(r)] = "X" THEN "O" ELSE "X"]

\* The GAME_MOVE made from str, or NoMove where the code returns NULL.  The
\* guard of the "c<-S" form is the code's: it refuses every string.
ParsedMove(str, s, r) ==
    CASE str.len = 1 -> [cord |-> str.first, turn |-> r, sym |-> s[r]]
      [] str.len = 4 -> IF str.last # "X" \/ str.last # "O"
                        THEN NoMove
                        ELSE [cord |-> str.first, turn |-> r, sym |-> str.last]
      [] OTHER       -> NoMove

ParseMove(r) ==
    /\ seph = 1
    /\ move[r] = NoMove
    /\ \E str \in Strings(r) :
          /\ sym' = IF str.len = 1 THEN SymsAfterParse(sym, r) ELSE sym
          /\ move' = [move EXCEPT ![r] = ParsedMove(str, sym', r)]
    /\ UNCHANGED <<board, expectedTurn, gameover, winner, seph, resigner>>

-----------------------------------------------------------------------------
(***************************************************************************)
(* game_apply_move of the move held by the thread of role r.               *)
(***************************************************************************)
Holds(r) == seph = 1 /\ move[r] # NoMove

\* Slip: the turn is not checked.
OnAnyTurn(m) == m.sym = sym[m.turn]

OnTurn(m) == m.turn = expectedTurn /\ m.sym = sym[m.turn]

\* Slip: a taken cell is not refused.
PlayableOver(m) == m.cord \in Cells

Playable(m) == m.cord \in Cells /\ board[m.cord] = NullRole

\* Slip: a thread that is not on turn waits instead of being refused.
RejectWrongSymbolOnly(r) ==
    /\ Holds(r)
    /\ move[r].turn = expectedTurn
    /\ ~ OnTurn(move[r])
    /\ move' = [move EXCEPT ![r] = NoMove]
    /\ UNCHANGED <<board, expectedTurn, sym, gameover, winner, seph, resigner>>

\* Not this role's turn, or not its symbol: -1, the semaphore posted.
RejectMove(r) ==
    /\ Holds(r)
    /\ ~ OnTurn(move[r])
    /\ move' = [move EXCEPT ![r] = NoMove]
    /\ UNCHANGED <<board, expectedTurn, sym, gameover, winner, seph, resigner>>

\* Slip: the turn passes on before the cell is looked at.
MisplayPassesTurn(r) ==
    /\ Holds(r)
    /\ OnTurn(move[r])
    /\ ~ Playable(move[r])
    /\ seph' = 0
    /\ expectedTurn' = Other(expectedTurn)
    /\ move' = [move EXCEPT ![r] = NoMove]
    /\ UNCHANGED <<board, sym, gameover, winner, resigner>>

\* The cell is taken, or no cell has this coordinate: -1 without sem_post.
MisplayMove(r) ==
    /\ Holds(r)
    /\ OnTurn(move[r])
    /\ ~ Playable(move[r])
    /\ seph' = 0
    /\ move' = [move EXCEPT ![r] = NoMove]
    /\ UNCHANGED <<board, expectedTurn, sym, gameover, winner, resigner>>

\* The cell is marked, the turn passes on, and the lines are checked.
PlaceMark(r) ==
    /\ Holds(r)
    /\ OnTurn(move[r])
    /\ Playable(move[r])
    /\ board' = [board EXCEPT ![move[r].cord] = r]
    /\ expectedTurn' = IF expectedTurn = 1 THEN 2 ELSE 1
    /\ IF Won(board')
       THEN gameover' = TRUE /\ winner' = CreditedWinner(board')
       ELSE UNCHANGED <<gameover, winner>>
    /\ move' = [move EXCEPT ![r] = NoMove]
    /\ UNCHANGED <<sym, seph, resigner>>

\* game_resign, called from inv_close, which succeeds once per invitation.
Resign(r) ==
    /\ seph = 1
    /\ move[r] = NoMove
    /\ resigner = NullRole
    /\ gameover' = TRUE
    /\ winner' = 2
    /\ resigner' = r
    /\ UNCHANGED <<board, expectedTurn, sym, seph, move>>

\* game_unparse_state, cell by cell; it changes nothing.
Unparsed == [c \in Cells |-> IF board[c] = NullRole THEN Blank ELSE sym[board[c]]]

Apply(r) == RejectMove(r) \/ MisplayMove(r) \/ PlaceMark(r)

Next == \E r \in Roles : ParseMove(r) \/ Apply(r) \/ Resign(r)

\* A thread that holds a move runs on: it calls game_apply_move and returns
\* from it, unless the semaphore is gone.
Spec == Init /\ [][Next]_vars /\ \A r \in Roles : WF_vars(Apply(r))

-----------------------------------------------------------------------------
Marks(b, r) == {c \in Cells : b[c] = r}

TypeOK == /\ board \in [Cells -> Roles \cup {NullRole}]
          /\ expectedTurn \in Roles
          /\ sym \in [Roles -> Syms \cup {Blank}]
          /\ gameover \in BOOLEAN
          /\ winner \in Roles \cup {NullRole}
          /\ seph \in {0, 1}
          /\ move \in [Roles -> GameMoves \cup {NoMove}]
          /\ resigner \in Roles \cup {NullRole}

(***************************************************************************)
(* Whatever the two threads interleave, the marks on the board are those   *)
(* of an alternating game: the roles have the same number of them, or the  *)
(* first has one more and the second is on the move.                       *)
(***************************************************************************)
TurnBalance ==
    Cardinality(Marks(board, 1)) =
        Cardinality(Marks(board, 2)) + (IF expectedTurn = 2 THEN 1 ELSE 0)

\* The two players never share a symbol, and whoever has a mark on the board
\* has a symbol.
SymbolsApart ==
    /\ sym[1] # Blank => sym[1] # sym[2]
    /\ \A r \in Roles : Marks(board, r) # {} => sym[r] # Blank

(***************************************************************************)
(* What game_unparse_state prints tells blank cells and the marks of the   *)
(* two players apart, although symbols are given out in parse order, also  *)
(* to a player who parses a move out of turn.                              *)
(***************************************************************************)
BoardIsReadable ==
    \A c, d \in Cells : Unparsed[c] = Unparsed[d] => board[c] = board[d]

(***************************************************************************)
(* A parsed move is still attributed to its own role and symbol when it is *)
(* applied, whatever the opponent did meanwhile: the symbol test of        *)
(* game_apply_move can fail no move that game_parse_move made.             *)
(***************************************************************************)
MoveStaysOwn ==
    \A r \in Roles : move[r] # NoMove =>
        /\ move[r].turn = r
        /\ move[r].sym = sym[r]

(***************************************************************************)
(* A complete line and a resignation each end the game, and nothing ends   *)
(* it without one of them but a board that is full: no order of the checks *)
(* misses a line or sees one that is not there.  (game.h:127-128 counts a  *)
(* full board as a drawn game that is over; the code goes on with it.)     *)
(***************************************************************************)
OverHasCause ==
    LET ended == CompleteLines(board) # {} \/ resigner # NullRole
        full  == \A c \in Cells : board[c] # NullRole
    IN  /\ ended => gameover
        /\ gameover => ended \/ full

(***************************************************************************)
(* A mark is never overwritten or removed, a step adds at most one mark,   *)
(* the one of the role that was on the move, and the turn passes on with   *)
(* that step only; a game that is over stays over.                         *)
(***************************************************************************)
MarksArePermanent ==
    [][ /\ \A c \in Cells : board[c] # NullRole => board'[c] = board[c]
        /\ (expectedTurn' # expectedTurn) <=>
              \E c \in Cells : board' = [board EXCEPT ![c] = expectedTurn]
                               /\ board' # board
        /\ board' # board => expectedTurn' # expectedTurn
        /\ gameover => gameover' ]_vars

(***************************************************************************)
(* A move that was parsed is answered, one way or another, unless some     *)
(* misplay took the semaphore of the game for good.                        *)
(***************************************************************************)
AnsweredUnlessLeaked ==
    (<>(seph = 0)) \/ \A r \in Roles : move[r] # NoMove ~> move[r] = NoMove

\* The detailed game is an AbstractGame: board, symbols and moves hidden.
Abs == INSTANCE AbstractGame
           WITH game <- [turn   |-> expectedTurn,
                         over   |-> gameover,
                         winner |-> winner,
                         seph   |-> seph]

(***************************************************************************)
(* Every step of the two threads is a legal move, a misplay, a resignation *)
(* or nothing at all for the callers of the game.                          *)
(***************************************************************************)
ImplementsAbstractGame == Abs!Spec

-----------------------------------------------------------------------------
(***************************************************************************)
(* What game.h promises and the code does not keep.                        *)
(***************************************************************************)

\* game.h:126: game_get_winner returns "The GAME_ROLE of the winning player":
\* a winner by a line is the role that owns a line.
WinnerOwnsALine ==
    gameover /\ resigner = NullRole =>
        \E n \in CompleteLines(board) : Complete(board, n, winner)
=============================================================================
