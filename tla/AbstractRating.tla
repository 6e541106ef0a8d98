--------------------------- MODULE AbstractRating ---------------------------
(***************************************************************************)
(* What the comment of player_post_result (src/player.c) promises of the   *)
(* ratings, without saying how they are computed: a result moves points    *)
(* from one of its two players to the other, at once.  A win never costs   *)
(* the winner points; it brings at least half the stake against a player   *)
(* of the same or a higher rating and at most half against a lower one.    *)
(* Of a draw the player with the lower rating has the profit.              *)
(*                                                                         *)
(* Nothing is promised of results that were posted at the same time for a  *)
(* player (raced), and less of players so far apart that the expected      *)
(* score of the stronger one is 1 in the arithmetic of the code.           *)
(***************************************************************************)
EXTENDS Integers

CONSTANT Players

VARIABLES rating, raced

Stake   == 32
FarGap  == 6400   \* (r2-r1)/400 is 16 in size: 1 + 10^-16 is 1
Results == 0 .. 2 \* draw, player1 won, player2 won

\* Points that p receives in this step.
Received(p) == rating'[p] - rating[p]

\* Player q hands d points to player p.
Transfer(p, q, d) ==
    rating' = [rating EXCEPT ![p] = rating[p] + d, ![q] = rating[q] - d]

\* The winner p takes what a win against q is worth.
Win(p, q) ==
    LET d == Received(p)
    IN  /\ d \in 0 .. Stake
        /\ rating[p] <= rating[q] => d >= Stake \div 2
        /\ rating[p] >= rating[q] => d <= Stake \div 2
        /\ Transfer(p, q, d)

Draw(p, q) ==
    LET d == Received(p)
    IN  /\ d \in -(Stake \div 2) .. (Stake \div 2)
        /\ rating[p] <= rating[q] => d >= 0
        /\ rating[p] >= rating[q] => d <= 0
        /\ Transfer(p, q, d)

\* Both change, within the stake, but what one gains the other need not lose.
Apart(p, q) ==
    /\ Received(p) \in -Stake .. Stake
    /\ Received(q) \in -Stake .. Stake
    /\ rating' = [rating EXCEPT ![p] = rating'[p], ![q] = rating'[q]]

Near(p, q) == /\ rating[p] - rating[q] < FarGap
              /\ rating[q] - rating[p] < FarGap

Post(p, q, result) ==
    /\ ~ raced /\ ~ raced'
    /\ p # q
    /\ IF ~ Near(p, q) THEN Apart(p, q)
       ELSE CASE result = 0 -> Draw(p, q)
              [] result = 1 -> Win(p, q)
              [] result = 2 -> Win(q, p)

Race == raced' /\ rating' \in [Players -> Int]

Init == rating \in [Players -> Int] /\ raced = FALSE

Next == \/ \E p, q \in Players, result \in Results : Post(p, q, result)
        \/ Race

Spec == Init /\ [][Next]_<<rating, raced>>
=============================================================================
