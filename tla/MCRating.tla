------------------------------ MODULE MCRating ------------------------------
(***************************************************************************)
(* Instances of Rating for TLC.  The ratings differ by 0, 10, and around   *)
(* 400, 800 and 1200, so that all weights of the expected score occur and  *)
(* a result may move a difference from one to the next.                    *)
(***************************************************************************)
EXTENDS Rating, TLC

CONSTANTS p1, p2, p3, p4, th1, th2

FourPlayers == {p1, p2, p3, p4}
TwoThreads  == {th1, th2}
Spread      == {p1 :> 700 @@ p2 :> 1500 @@ p3 :> 1890 @@ p4 :> 1900}
AnyPairs    == FourPlayers \X FourPlayers
TwoParties  == {pair \in AnyPairs : pair[1] # pair[2]}
NewPlayers  == {[x \in FourPlayers |-> 1500]}
=============================================================================
