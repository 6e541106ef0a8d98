----------------------------- MODULE GameProofs -----------------------------
(***************************************************************************)
(* Proofs about Game, for every set of coordinates that clients may send.  *)
(*                                                                         *)
(* GameInv is the inductive invariant.  MoveStaysOwn is what makes it      *)
(* inductive: a mark is made with the symbol and the role of the move that *)
(* was parsed some steps before, so the balance of marks and the symbols   *)
(* on the board are safe only because a parsed move cannot change owner    *)
(* between the two calls.                                                  *)
(***************************************************************************)
EXTENDS Game, FiniteSetTheorems, TLAPS

GameInv == /\ TypeOK
           /\ MoveStaysOwn
           /\ SymbolsApart
           /\ TurnBalance
           /\ OverHasCause

-----------------------------------------------------------------------------
(***************************************************************************)
(* A nonempty set of line numbers has a least element: the CHOOSE of       *)
(* FirstLine, the order of the checks in game_apply_move, is defined.      *)
(***************************************************************************)
LEMMA LeastLine ==
    ASSUME NEW S \in SUBSET (1 .. 8), S # {}
    PROVE  \E n \in S : \A k \in S : n <= k
<1>1. CASE 1 \in S  BY <1>1
<1>2. CASE 1 \notin S /\ 2 \in S  BY <1>2
<1>3. CASE {1, 2} \cap S = {} /\ 3 \in S  BY <1>3
<1>4. CASE {1, 2, 3} \cap S = {} /\ 4 \in S  BY <1>4
<1>5. CASE {1, 2, 3, 4} \cap S = {} /\ 5 \in S  BY <1>5
<1>6. CASE {1, 2, 3, 4, 5} \cap S = {} /\ 6 \in S  BY <1>6
<1>7. CASE {1, 2, 3, 4, 5, 6} \cap S = {} /\ 7 \in S  BY <1>7
<1>8. CASE {1, 2, 3, 4, 5, 6, 7} \cap S = {}
  <2>1. \A k \in S : k = 8  BY <1>8
  <2>2. 8 \in S  BY <2>1
  <2>3. \A k \in S : 8 <= k  BY <2>1
  <2> QED  BY <2>2, <2>3
<1> QED  BY <1>1, <1>2, <1>3, <1>4, <1>5, <1>6, <1>7, <1>8

(***************************************************************************)
(* The winner read from the board when a line is complete is a role, or    *)
(* none when the credited cell is empty: never anything else.              *)
(***************************************************************************)
LEMMA CreditedType ==
    ASSUME NEW b \in [Cells -> Roles \cup {NullRole}], CompleteLines(b) # {}
    PROVE  CreditedWinner(b) \in Roles \cup {NullRole}
<1>1. CompleteLines(b) \in SUBSET (1 .. 8)  BY DEF CompleteLines
<1>2. FirstLine(b) \in 1 .. 8
  <2>1. \E n \in CompleteLines(b) : \A k \in CompleteLines(b) : n <= k
    BY <1>1, LeastLine
  <2> QED  BY <1>1, <2>1 DEF FirstLine
<1>3. \A n \in 1 .. 8 : Lines[n].credited \in Cells
  BY DEF Lines, Cells
<1> QED  BY <1>2, <1>3 DEF CreditedWinner

(***************************************************************************)
(* game_parse_move gives out a symbol only to a role that has none, and    *)
(* then one the other role does not have.                                  *)
(***************************************************************************)
LEMMA ParseGivesFreshSymbol ==
    ASSUME NEW s \in [Roles -> Syms \cup {Blank}], NEW r \in Roles,
           s[1] # Blank => s[1] # s[2]
    PROVE  LET t == SymsAfterParse(s, r)
           IN  /\ t \in [Roles -> Syms \cup {Blank}]
               /\ t[r] \in Syms
               /\ t[Other(r)] = s[Other(r)]
               /\ s[r] # Blank => t = s
               /\ t[1] # Blank => t[1] # t[2]
<1> DEFINE t == SymsAfterParse(s, r)
<1>1. r \in {1, 2} /\ Other(r) \in {1, 2} /\ Other(r) # r
      /\ (r = 1 => Other(r) = 2) /\ (r = 2 => Other(r) = 1)
  BY DEF Roles, Other
<1>2. CASE s[r] # Blank
  <2>1. t = s  BY <1>2 DEF SymsAfterParse
  <2> QED  BY <2>1, <1>1, <1>2 DEF Roles
<1>3. CASE s[r] = Blank
  <2> DEFINE x == IF s[Other(r)] = "X" THEN "O" ELSE "X"
  <2>1. t = [s EXCEPT ![r] = x]  BY <1>3 DEF SymsAfterParse
  <2>2. x \in Syms /\ x # s[Other(r)] /\ x # Blank  BY DEF Syms, Blank
  <2> HIDE DEF x, t
  <2>3. /\ t \in [Roles -> Syms \cup {Blank}]
        /\ t[r] = x /\ t[Other(r)] = s[Other(r)]
    BY <1>1, <2>1, <2>2 DEF Roles
  <2>4. t[1] # t[2]  BY <1>1, <2>2, <2>3
  <2> QED  BY <1>3, <2>2, <2>3, <2>4 DEF t
<1> QED  BY <1>2, <1>3

(***************************************************************************)
(* Marking an empty cell completes lines, it never breaks one.             *)
(***************************************************************************)
LEMMA LinesStayComplete ==
    ASSUME NEW b \in [Cells -> Roles \cup {NullRole}], NEW r \in Roles,
           NEW c \in Cells, b[c] = NullRole
    PROVE  CompleteLines(b) \subseteq CompleteLines([b EXCEPT ![c] = r])
<1> DEFINE d == [b EXCEPT ![c] = r]
<1>1. \A n \in 1 .. 8 : Lines[n].cells \subseteq Cells  BY DEF Lines, Cells
<1>2. SUFFICES ASSUME NEW n \in 1 .. 8, NEW q \in Roles, Complete(b, n, q)
               PROVE  Complete(d, n, q)
  BY DEF CompleteLines
<1>3. \A k \in Lines[n].cells : k \in Cells /\ b[k] = q
  BY <1>1, <1>2 DEF Complete
<1>4. q # NullRole  BY DEF Roles, NullRole
<1>5. \A k \in Lines[n].cells : d[k] = b[k]  BY <1>3, <1>4
<1> QED  BY <1>3, <1>5 DEF Complete

(***************************************************************************)
(* A mark in an empty cell adds one to the marks of its role and leaves    *)
(* those of the other role alone.                                          *)
(***************************************************************************)
LEMMA MarkCounts ==
    ASSUME NEW b \in [Cells -> Roles \cup {NullRole}], NEW r \in Roles,
           NEW c \in Cells, b[c] = NullRole
    PROVE  LET d == [b EXCEPT ![c] = r]
           IN  /\ Cardinality(Marks(b, r)) \in Nat
               /\ Cardinality(Marks(b, Other(r))) \in Nat
               /\ Cardinality(Marks(d, r)) = Cardinality(Marks(b, r)) + 1
               /\ Marks(d, Other(r)) = Marks(b, Other(r))
<1> DEFINE d == [b EXCEPT ![c] = r]
<1>1. IsFiniteSet(Cells)  BY 1 \in Int, 9 \in Int, FS_Interval DEF Cells
<1>2. \A q : Marks(b, q) \subseteq Cells  BY DEF Marks
<1>3. \A q : IsFiniteSet(Marks(b, q)) /\ Cardinality(Marks(b, q)) \in Nat
  BY <1>1, <1>2, FS_Subset, FS_CardinalityType
<1>4. Marks(d, r) = Marks(b, r) \cup {c}  BY DEF Marks, Roles, NullRole
<1>5. c \notin Marks(b, r)  BY DEF Marks, Roles, NullRole
<1>6. Cardinality(Marks(d, r)) = Cardinality(Marks(b, r)) + 1
  BY <1>3, <1>4, <1>5, FS_AddElement
<1>7. Marks(d, Other(r)) = Marks(b, Other(r))
  BY DEF Marks, Roles, NullRole, Other
<1> QED  BY <1>3, <1>6, <1>7

-----------------------------------------------------------------------------
LEMMA InitInv == Init => GameInv
<1> SUFFICES ASSUME Init PROVE GameInv  OBVIOUS
<1> USE DEF Init
<1>1. TypeOK  BY DEF TypeOK, Roles, NullRole, NoMove, Syms
<1>2. MoveStaysOwn  BY DEF MoveStaysOwn
<1>3. \A r \in Roles : Marks(board, r) = {}
  BY DEF Marks, Roles, NullRole
<1>4. SymbolsApart  BY <1>3 DEF SymbolsApart, Roles
<1>5. TurnBalance  BY <1>3, FS_EmptySet DEF TurnBalance, Roles
<1>6. CompleteLines(board) = {}
  <2>1. \A n \in 1 .. 8 : Lines[n].cells \subseteq Cells /\ Lines[n].cells # {}
    BY DEF Lines, Cells
  <2> QED  BY <2>1 DEF CompleteLines, Complete, Roles, NullRole
<1>7. OverHasCause  BY <1>6 DEF OverHasCause
<1> QED  BY <1>1, <1>2, <1>4, <1>5, <1>7 DEF GameInv

LEMMA ParseKeepsInv ==
    ASSUME GameInv, NEW r \in Roles, ParseMove(r)
    PROVE  GameInv'
<1>0. TypeOK /\ MoveStaysOwn /\ SymbolsApart /\ TurnBalance /\ OverHasCause
  BY DEF GameInv
<1>1. PICK str \in Strings(r) :
          /\ sym' = IF str.len = 1 THEN SymsAfterParse(sym, r) ELSE sym
          /\ move' = [move EXCEPT ![r] = ParsedMove(str, sym', r)]
  BY DEF ParseMove
<1>2. UNCHANGED <<board, expectedTurn, gameover, winner, seph, resigner>>
  BY DEF ParseMove
<1>3. /\ sym' \in [Roles -> Syms \cup {Blank}]
      /\ str.len = 1 => sym'[r] \in Syms
      /\ sym'[Other(r)] = sym[Other(r)]
      /\ sym[r] # Blank => sym' = sym
      /\ sym'[1] # Blank => sym'[1] # sym'[2]
  BY <1>0, <1>1, ParseGivesFreshSymbol DEF TypeOK, SymbolsApart
<1>4. \/ ParsedMove(str, sym', r) = NoMove
      \/ /\ str.len = 1
         /\ ParsedMove(str, sym', r) =
               [cord |-> str.first, turn |-> r, sym |-> sym'[r]]
  <2>1. CASE str.len = 1  BY <2>1 DEF ParsedMove
  <2>2. CASE str.len # 1
    <3>1. str.last # "X" \/ str.last # "O"  OBVIOUS
    <3> QED  BY <2>2, <3>1 DEF ParsedMove
  <2> QED  BY <2>1, <2>2
<1>5. ParsedMove(str, sym', r) \in GameMoves \cup {NoMove}
  <2>1. Cords[r] \subseteq Int  BY CordsAssumption
  <2>2. str.first \in Int  BY <2>1 DEF Strings
  <2> QED  BY <1>3, <1>4, <2>2 DEF GameMoves
<1>6. move' \in [Roles -> GameMoves \cup {NoMove}]
  BY <1>0, <1>1, <1>5 DEF TypeOK
<1>7. TypeOK'  BY <1>0, <1>2, <1>3, <1>6 DEF TypeOK
<1>8. MoveStaysOwn'
  <2> SUFFICES ASSUME NEW q \in Roles, move'[q] # NoMove
               PROVE  move'[q].turn = q /\ move'[q].sym = sym'[q]
    BY DEF MoveStaysOwn
  <2>1. CASE q = r  BY <2>1, <1>0, <1>1, <1>4 DEF TypeOK
  <2>2. CASE q # r
    <3>1. q = Other(r)  BY <2>2 DEF Roles, Other
    <3>2. move'[q] = move[q]  BY <2>2, <1>0, <1>1 DEF TypeOK
    <3> QED  BY <3>1, <3>2, <1>0, <1>3 DEF MoveStaysOwn
  <2> QED  BY <2>1, <2>2
<1>9. SymbolsApart'
  <2>1. \A q \in Roles : Marks(board, q)' = Marks(board, q)
    BY <1>2 DEF Marks
  <2>2. \A q \in Roles : sym[q] # Blank => sym'[q] # Blank
    BY <1>3 DEF Roles, Other
  <2> QED  BY <1>0, <1>3, <2>1, <2>2 DEF SymbolsApart
<1>10. TurnBalance'  BY <1>0, <1>2 DEF TurnBalance, Marks
<1>11. OverHasCause'
  BY <1>0, <1>2 DEF OverHasCause, CompleteLines, Complete
<1> QED  BY <1>7, <1>8, <1>9, <1>10, <1>11 DEF GameInv

LEMMA PlaceKeepsInv ==
    ASSUME GameInv, NEW r \in Roles, PlaceMark(r)
    PROVE  GameInv'
<1>0. TypeOK /\ MoveStaysOwn /\ SymbolsApart /\ TurnBalance /\ OverHasCause
  BY DEF GameInv
<1> DEFINE c == move[r].cord
<1>1. /\ move[r] # NoMove /\ move[r].turn = r /\ move[r].sym = sym[r]
      /\ expectedTurn = r
      /\ c \in Cells /\ board[c] = NullRole
      /\ board' = [board EXCEPT ![c] = r]
      /\ move' = [move EXCEPT ![r] = NoMove]
      /\ sym' = sym /\ seph' = seph /\ resigner' = resigner
  BY <1>0 DEF PlaceMark, Holds, OnTurn, Playable, MoveStaysOwn
<1>2. expectedTurn' = Other(r)  BY <1>1 DEF PlaceMark, Roles, Other
<1>3. sym[r] \in Syms
  BY <1>0, <1>1 DEF TypeOK, GameMoves
<1>4. board' \in [Cells -> Roles \cup {NullRole}]  BY <1>0, <1>1 DEF TypeOK
<1>5. gameover' \in BOOLEAN /\ winner' \in Roles \cup {NullRole}
  <2>1. CASE CompleteLines(board') # {}
    BY <2>1, <1>4, CreditedType DEF PlaceMark, Won
  <2>2. CASE CompleteLines(board') = {}
    BY <2>2, <1>0 DEF PlaceMark, TypeOK, Won
  <2> QED  BY <2>1, <2>2
<1>6. TypeOK'
  BY <1>0, <1>1, <1>2, <1>4, <1>5 DEF TypeOK, Roles, Other
<1>7. MoveStaysOwn'  BY <1>0, <1>1 DEF MoveStaysOwn, TypeOK
<1>8. /\ Cardinality(Marks(board, r)) \in Nat
      /\ Cardinality(Marks(board, Other(r))) \in Nat
      /\ Cardinality(Marks(board', r)) = Cardinality(Marks(board, r)) + 1
      /\ Marks(board', Other(r)) = Marks(board, Other(r))
  BY <1>0, <1>1, MarkCounts DEF TypeOK
<1>9. SymbolsApart'
  <2>1. \A q \in Roles : Marks(board', q) # {} => sym[q] # Blank
    <3> SUFFICES ASSUME NEW q \in Roles, Marks(board', q) # {}
                 PROVE  sym[q] # Blank
      OBVIOUS
    <3>1. CASE q = r  BY <3>1, <1>3 DEF Syms, Blank
    <3>2. CASE q # r
      <4>1. q = Other(r)  BY <3>2 DEF Roles, Other
      <4> QED  BY <4>1, <1>0, <1>8 DEF SymbolsApart
    <3> QED  BY <3>1, <3>2
  <2> QED  BY <1>0, <1>1, <2>1 DEF SymbolsApart
<1>10. TurnBalance'
  <2>1. CASE r = 1  BY <2>1, <1>0, <1>1, <1>2, <1>8 DEF TurnBalance, Other
  <2>2. CASE r = 2  BY <2>2, <1>0, <1>1, <1>2, <1>8 DEF TurnBalance, Other
  <2> QED  BY <2>1, <2>2 DEF Roles
<1>11. OverHasCause'
  <2>1. CompleteLines(board) \subseteq CompleteLines(board')
    BY <1>0, <1>1, LinesStayComplete DEF TypeOK
  <2>2. CompleteLines(board)' = CompleteLines(board')
    BY DEF CompleteLines, Complete
  <2>3. CASE CompleteLines(board') # {}
    BY <2>2, <2>3 DEF OverHasCause, PlaceMark, Won
  <2>4. CASE CompleteLines(board') = {}
    \* There was an empty cell, so the game was over with a resignation only.
    <3>1. CompleteLines(board) = {} /\ gameover' = gameover
      BY <2>1, <2>4 DEF PlaceMark, Won
    <3>2. gameover <=> resigner # NullRole
      BY <3>1, <1>0, <1>1 DEF OverHasCause
    <3> QED  BY <3>1, <3>2, <2>2, <2>4, <1>1 DEF OverHasCause
  <2> QED  BY <2>3, <2>4
<1> QED  BY <1>6, <1>7, <1>9, <1>10, <1>11 DEF GameInv

\* The steps that touch neither the board nor the symbols.
LEMMA OthersKeepInv ==
    ASSUME GameInv, NEW r \in Roles,
           RejectMove(r) \/ MisplayMove(r) \/ Resign(r)
    PROVE  GameInv'
<1>0. TypeOK /\ MoveStaysOwn /\ SymbolsApart /\ TurnBalance /\ OverHasCause
  BY DEF GameInv
<1>1. /\ board' = board /\ expectedTurn' = expectedTurn /\ sym' = sym
      /\ move' = move \/ move' = [move EXCEPT ![r] = NoMove]
  BY DEF RejectMove, MisplayMove, Resign
<1>2. TypeOK'
  <2>1. CASE RejectMove(r)  BY <2>1, <1>0, <1>1 DEF RejectMove, TypeOK
  <2>2. CASE MisplayMove(r)  BY <2>2, <1>0, <1>1 DEF MisplayMove, TypeOK
  <2>3. CASE Resign(r)  BY <2>3, <1>0, <1>1 DEF Resign, TypeOK, Roles
  <2> QED  BY <2>1, <2>2, <2>3
<1>3. MoveStaysOwn'  BY <1>0, <1>1 DEF MoveStaysOwn, TypeOK
<1>4. SymbolsApart'  BY <1>0, <1>1 DEF SymbolsApart, Marks
<1>5. TurnBalance'  BY <1>0, <1>1 DEF TurnBalance, Marks
<1>6. OverHasCause'
  <2>1. CompleteLines(board)' = CompleteLines(board)
    BY <1>1 DEF CompleteLines, Complete
  <2>2. CASE RejectMove(r)  BY <2>1, <2>2, <1>0 DEF RejectMove, OverHasCause
  <2>3. CASE MisplayMove(r)  BY <2>1, <2>3, <1>0 DEF MisplayMove, OverHasCause
  <2>4. CASE Resign(r)
    BY <2>4 DEF Resign, OverHasCause, Roles, NullRole
  <2> QED  BY <2>2, <2>3, <2>4
<1> QED  BY <1>2, <1>3, <1>4, <1>5, <1>6 DEF GameInv

LEMMA NextInv == GameInv /\ [Next]_vars => GameInv'
<1> SUFFICES ASSUME GameInv, [Next]_vars PROVE GameInv'  OBVIOUS
<1>1. CASE UNCHANGED vars
  BY <1>1 DEF vars, GameInv, TypeOK, MoveStaysOwn, SymbolsApart, TurnBalance,
              Marks, OverHasCause, CompleteLines, Complete
<1>2. ASSUME NEW r \in Roles, ParseMove(r) PROVE GameInv'
  BY <1>2, ParseKeepsInv
<1>3. ASSUME NEW r \in Roles, PlaceMark(r) PROVE GameInv'
  BY <1>3, PlaceKeepsInv
<1>4. ASSUME NEW r \in Roles, RejectMove(r) \/ MisplayMove(r) \/ Resign(r)
      PROVE GameInv'
  BY <1>4, OthersKeepInv
<1> QED  BY <1>1, <1>2, <1>3, <1>4 DEF Next, Apply

(***************************************************************************)
(* Every reachable state of a game satisfies the inductive invariant.      *)
(***************************************************************************)
THEOREM GameInvariant == Spec => []GameInv
BY InitInv, NextInv, PTL DEF Spec

(***************************************************************************)
(* The variables of the game have their types in every reachable state: in *)
(* particular the winner is a role or none, although it is read from a     *)
(* cell that need not belong to the complete line.                         *)
(***************************************************************************)
THEOREM TypeCorrect == Spec => []TypeOK
<1>1. GameInv => TypeOK  BY DEF GameInv
<1> QED  BY <1>1, GameInvariant, PTL

(***************************************************************************)
(* The marks on the board are always those of an alternating game, however *)
(* the two threads interleave game_parse_move and game_apply_move.         *)
(***************************************************************************)
THEOREM AlternatingMarks == Spec => []TurnBalance
<1>1. GameInv => TurnBalance  BY DEF GameInv
<1> QED  BY <1>1, GameInvariant, PTL

(***************************************************************************)
(* The two players never share a symbol and every mark can be printed.     *)
(***************************************************************************)
THEOREM DistinctSymbols == Spec => []SymbolsApart
<1>1. GameInv => SymbolsApart  BY DEF GameInv
<1> QED  BY <1>1, GameInvariant, PTL

(***************************************************************************)
(* A move held between parsing and applying keeps its role and its symbol. *)
(***************************************************************************)
THEOREM ParsedMovesStayOwn == Spec => []MoveStaysOwn
<1>1. GameInv => MoveStaysOwn  BY DEF GameInv
<1> QED  BY <1>1, GameInvariant, PTL

(***************************************************************************)
(* A complete line and a resignation always end a game, and nothing else   *)
(* does, a full board aside: as long as a cell is empty, a game is over if *)
(* and only if somebody has a line or has resigned.                        *)
(***************************************************************************)
THEOREM GamesEndForACause == Spec => []OverHasCause
<1>1. GameInv => OverHasCause  BY DEF GameInv
<1> QED  BY <1>1, GameInvariant, PTL

-----------------------------------------------------------------------------
(***************************************************************************)
(* What a legal move is for the callers of the game.                       *)
(***************************************************************************)
LEMMA PlaceIsAbstractMove ==
    ASSUME GameInv, NEW r \in Roles, PlaceMark(r)
    PROVE  Abs!Move
<1>0. TypeOK /\ MoveStaysOwn /\ GameInv'  BY PlaceKeepsInv DEF GameInv
<1>1. /\ seph = 1 /\ seph' = 1
      /\ expectedTurn' = Other(expectedTurn)
  BY <1>0 DEF PlaceMark, Holds, TypeOK, Roles, Other
<1>2. \/ gameover' = TRUE /\ winner' \in Roles \cup {NullRole}
      \/ gameover' = gameover /\ winner' = winner
  BY <1>0 DEF PlaceMark, GameInv, TypeOK
<1>3. Abs!Other(expectedTurn) = expectedTurn'
  BY <1>1 DEF Abs!Other, Other
<1> QED  BY <1>1, <1>2, <1>3
         DEF Abs!Move, Abs!AfterMove, Abs!Passed, Abs!Roles, Abs!NullRole,
             Roles, NullRole

LEMMA StepIsAbstractStep ==
    GameInv /\ [Next]_vars
      => [Abs!Next]_[turn |-> expectedTurn, over |-> gameover,
                     winner |-> winner, seph |-> seph]
<1> DEFINE g == [turn |-> expectedTurn, over |-> gameover,
                 winner |-> winner, seph |-> seph]
<1> SUFFICES ASSUME GameInv, [Next]_vars PROVE [Abs!Next]_g  OBVIOUS
<1>1. CASE UNCHANGED vars  BY <1>1 DEF vars
<1>2. ASSUME NEW r \in Roles, ParseMove(r) \/ RejectMove(r)
      PROVE  g' = g
  BY <1>2 DEF ParseMove, RejectMove
<1>3. ASSUME NEW r \in Roles, PlaceMark(r) PROVE Abs!Move
  BY <1>3, PlaceIsAbstractMove
<1>4. ASSUME NEW r \in Roles, MisplayMove(r) PROVE Abs!Misplay
  BY <1>4 DEF MisplayMove, Holds, Abs!Misplay, Abs!AfterMisplay
<1>5. ASSUME NEW r \in Roles, Resign(r) PROVE Abs!Resign
  BY <1>5 DEF Resign, Abs!Resign, Abs!AfterResign
<1> QED  BY <1>1, <1>2, <1>3, <1>4, <1>5 DEF Next, Apply, Abs!Next

(***************************************************************************)
(* Every behaviour of the two threads on a game is, for the rest of the    *)
(* server, one of the abstract game: moves that pass the turn on,          *)
(* misplays, resignations, and calls that change nothing.                  *)
(***************************************************************************)
THEOREM GameImplementsAbstractGame == Spec => ImplementsAbstractGame
<1>1. Init => Abs!Init
  BY DEF Init, Abs!Init, Abs!NewGame, Abs!NullRole, NullRole
<1> QED  BY <1>1, StepIsAbstractStep, GameInvariant, PTL
            DEF Spec, ImplementsAbstractGame, Abs!Spec

-----------------------------------------------------------------------------
\* MarksArePermanent, as a formula about one step.
PermanentStep ==
    /\ \A c \in Cells : board[c] # NullRole => board'[c] = board[c]
    /\ (expectedTurn' # expectedTurn) <=>
          \E c \in Cells : board' = [board EXCEPT ![c] = expectedTurn]
                           /\ board' # board
    /\ board' # board => expectedTurn' # expectedTurn
    /\ gameover => gameover'

LEMMA StepIsPermanent ==
    GameInv /\ [Next]_vars => [PermanentStep]_vars
<1> SUFFICES ASSUME GameInv, Next PROVE PermanentStep
  OBVIOUS
<1>1. ASSUME NEW r \in Roles,
             ParseMove(r) \/ RejectMove(r) \/ MisplayMove(r) \/ Resign(r)
      PROVE  PermanentStep
  <2>1. board' = board /\ expectedTurn' = expectedTurn
        /\ (gameover' = gameover \/ gameover' = TRUE)
    BY <1>1 DEF ParseMove, RejectMove, MisplayMove, Resign
  <2> QED  BY <2>1 DEF PermanentStep
<1>2. ASSUME NEW r \in Roles, PlaceMark(r) PROVE PermanentStep
  <2> DEFINE k == move[r].cord
  <2>1. TypeOK /\ MoveStaysOwn  BY DEF GameInv
  <2>2. /\ expectedTurn = r /\ k \in Cells /\ board[k] = NullRole
        /\ board' = [board EXCEPT ![k] = r]
        /\ (gameover' = gameover \/ gameover' = TRUE)
        /\ expectedTurn' = Other(r)
    BY <1>2, <2>1 DEF PlaceMark, Holds, OnTurn, Playable, MoveStaysOwn,
                      Roles, Other
  <2>3. board'[k] = r /\ board' # board /\ expectedTurn' # expectedTurn
    BY <2>1, <2>2 DEF TypeOK, Roles, NullRole, Other
  <2>4. \A c \in Cells : board[c] # NullRole => board'[c] = board[c]
    BY <2>1, <2>2 DEF TypeOK
  <2>5. gameover => gameover'  BY <2>2
  <2> QED  BY <2>2, <2>3, <2>4, <2>5 DEF PermanentStep
<1> QED  BY <1>1, <1>2 DEF Next, Apply

(***************************************************************************)
(* What game_unparse_state prints is readable: equal signs are equal       *)
(* marks, and a mark is never printed as a blank.                          *)
(***************************************************************************)
THEOREM BoardsStayReadable == Spec => []BoardIsReadable
<1>1. ASSUME GameInv PROVE BoardIsReadable
  <2>1. TypeOK /\ SymbolsApart  BY <1>1 DEF GameInv
  <2> SUFFICES ASSUME NEW c \in Cells, NEW d \in Cells,
                      Unparsed[c] = Unparsed[d], board[c] # board[d]
               PROVE  FALSE
    BY DEF BoardIsReadable
  <2>2. \A k \in Cells : board[k] # NullRole => sym[board[k]] # Blank
    BY <2>1 DEF TypeOK, SymbolsApart, Marks
  <2>3. sym[1] # Blank => sym[1] # sym[2]
    BY <2>1 DEF SymbolsApart
  <2>4. board[c] \in {0, 1, 2} /\ board[d] \in {0, 1, 2}
    BY <2>1 DEF TypeOK, Roles, NullRole
  <2> QED  BY <2>2, <2>3, <2>4 DEF Unparsed, NullRole
<1> QED  BY <1>1, GameInvariant, PTL

(***************************************************************************)
(* No step removes or overwrites a mark, marks more than one cell, passes  *)
(* the turn without a mark or revives a game that is over.                 *)
(***************************************************************************)
THEOREM MarksPermanent == Spec => MarksArePermanent
<1>1. GameInv /\ [Next]_vars => [PermanentStep]_vars  BY StepIsPermanent
<1>2. Spec => [][PermanentStep]_vars  BY <1>1, GameInvariant, PTL DEF Spec
<1> QED  BY <1>2 DEF MarksArePermanent, PermanentStep
=============================================================================
