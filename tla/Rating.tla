------------------------------- MODULE Rating -------------------------------
(***************************************************************************)
(* player_post_result of src/player.c, called by the service threads for   *)
(* the games that end in src/client.c.                                     *)
(*                                                                         *)
(* Both ratings are read without a lock, and each is written under the     *)
(* semaphore of its player, one after the other.  A step is one read, one  *)
(* sem_wait, or one write with its sem_post.                               *)
(*                                                                         *)
(* client_get_player may return NULL for an opponent who has left; then    *)
(* player_post_result does nothing, and there is no step for it.  Two      *)
(* clients may play as one PLAYER (see Login), so player1 and player2 may  *)
(* be the same.                                                            *)
(*                                                                         *)
(* As elsewhere, a "Slip" is the definition that follows it with a         *)
(* plausible mistake in it; nothing uses it.                               *)
(***************************************************************************)
EXTENDS Integers, FiniteSets

CONSTANTS
    Players,        \* the PLAYERs
    NoPlayer,       \* NULL, in the locals of a thread that posts nothing
    Pairs,          \* the pairs of PLAYERs whose games end
    Threads,        \* the service threads
    StartRatings,   \* ratings: PLAYER_INITIAL_RATING or what games have left
    MaxPosts        \* a bound on the results posted

ASSUME RatingAssumption ==
    /\ IsFiniteSet(Threads)
    /\ NoPlayer \notin Players
    /\ Pairs \subseteq Players \X Players
    /\ StartRatings \subseteq [Players -> Int]
    /\ MaxPosts \in Nat

VARIABLES
    rating,   \* of every PLAYER
    seph,     \* of every PLAYER: 1 when free
    pc,       \* per thread: the step of player_post_result it is at
    frame,    \* per thread: parameters and locals of player_post_result
    posted,   \* the number of calls so far
    raced,    \* history: two calls for one player were under way at once
    due,      \* history: the rating if every result counted
    sums      \* history: the ratings that some of the results explain

vars == <<rating, seph, pc, frame, posted, raced, due, sums>>

Results == 0 .. 2 \* GAME_ROLE of the winner, NULL_ROLE for a draw

Idle == [player1 |-> NoPlayer, player2 |-> NoPlayer, result |-> 0,
         r1 |-> 0, r2 |-> 0]

Init == /\ rating \in StartRatings
        /\ seph   = [p \in Players |-> 1]
        /\ pc     = [t \in Threads |-> "idle"]
        /\ frame  = [t \in Threads |-> Idle]
        /\ posted = 0
        /\ raced  = FALSE
        /\ due    = rating
        /\ sums   = [p \in Players |-> {rating[p]}]

-----------------------------------------------------------------------------
(***************************************************************************)
(* The arithmetic.  A score is counted in halves: 0, 1 or 2.  The quotient *)
(* q of the C division is the only thing the gain depends on.  With k for  *)
(* 10^|q|, the expected score is 1/(1+k) or k/(1+k), and the cast to int   *)
(* cuts the fraction off.  From |q| = 3 on k does not matter to what is    *)
(* left, until the double 1 + 10^-16 is 1.                                 *)
(***************************************************************************)

\* Division and cast in C round towards zero.
Truncated(n, d) == IF n >= 0 THEN n \div d ELSE -((-n) \div d)

Quotient(r, other) == Truncated(other - r, 400)

Weight(q) == CASE q = 0        -> 1
               [] q \in {1, -1} -> 10
               [] q \in {2, -2} -> 100
               [] OTHER         -> 1000

\* Slip: the division rounds down, as \div does.
GainFloored(q, h) ==
    LET k == Weight(q)
        w == IF q >= 0 THEN 1 ELSE k
    IN  (16 * h * (1 + k) - 32 * w) \div (1 + k)

\* (int)(32*(s - e)) for the score s = h/2.
Gain(q, h) ==
    LET k == Weight(q)
        w == IF q >= 0 THEN 1 ELSE k
    IN  CASE q >= 17  -> 16 * h
          [] q <= -16 -> 16 * h - 32
          [] OTHER    -> Truncated(16 * h * (1 + k) - 32 * w, 1 + k)

\* Twice s1 and s2.
Score1(result) == CASE result = 0 -> 1 [] result = 1 -> 2 [] OTHER -> 0
Score2(result) == 2 - Score1(result)

Gain1(f) == Gain(Quotient(f.r1, f.r2), Score1(f.result))
Gain2(f) == Gain(Quotient(f.r2, f.r1), Score2(f.result))

-----------------------------------------------------------------------------
At(t, step) == pc[t] = step

Goto(t, step) == pc' = [pc EXCEPT ![t] = step]

Parties(t) == {frame[t].player1, frame[t].player2}

Active == {t \in Threads : pc[t] # "idle"}

\* The call, and its read of the rating of player1.
Post(t) ==
    /\ At(t, "idle")
    /\ posted < MaxPosts
    /\ posted' = posted + 1
    /\ \E p1, p2 \in Players, result \in Results :
          /\ <<p1, p2>> \in Pairs
          /\ frame' = [frame EXCEPT ![t] =
                          [player1 |-> p1, player2 |-> p2, result |-> result,
                           r1 |-> rating[p1], r2 |-> 0]]
          /\ raced' = \/ raced
                      \/ p1 = p2
                      \/ \E u \in Active : Parties(u) \cap {p1, p2} # {}
    /\ Goto(t, "read2")
    /\ UNCHANGED <<rating, seph, due, sums>>

\* Its read of the rating of player2.
ReadSecond(t) ==
    /\ At(t, "read2")
    /\ frame' = [frame EXCEPT ![t].r2 = rating[frame[t].player2]]
    /\ Goto(t, "lock1")
    /\ UNCHANGED <<rating, seph, posted, raced, due, sums>>

\* sem_wait for the semaphore of player p.
Lock(t, p, before, after) ==
    /\ At(t, before)
    /\ seph[p] > 0
    /\ seph' = [seph EXCEPT ![p] = seph[p] - 1]
    /\ Goto(t, after)
    /\ UNCHANGED <<rating, frame, posted, raced, due, sums>>

\* Player p is rated r + gain.
Rate(p, r, gain) ==
    /\ rating' = [rating EXCEPT ![p] = r + gain]
    /\ due' = [due EXCEPT ![p] = due[p] + gain]
    /\ sums' = [sums EXCEPT ![p] = sums[p] \cup {x + gain : x \in sums[p]}]

LockFirst(t)  == Lock(t, frame[t].player1, "lock1", "write1")

\* Slip: player1 stays locked until player2 is rated.
WriteFirstKeepsLock(t) ==
    /\ At(t, "write1")
    /\ Rate(frame[t].player1, frame[t].r1, Gain1(frame[t]))
    /\ Goto(t, "lock2")
    /\ UNCHANGED <<seph, frame, posted, raced>>

WriteFirst(t) ==
    /\ At(t, "write1")
    /\ Rate(frame[t].player1, frame[t].r1, Gain1(frame[t]))
    /\ seph' = [seph EXCEPT ![frame[t].player1] = 1]
    /\ Goto(t, "lock2")
    /\ UNCHANGED <<frame, posted, raced>>

LockSecond(t) == Lock(t, frame[t].player2, "lock2", "write2")

\* Slip: player2 is rated from the rating of player1.
WriteSecondFromFirst(t) ==
    /\ At(t, "write2")
    /\ Rate(frame[t].player2, frame[t].r1, Gain2(frame[t]))
    /\ seph' = [seph EXCEPT ![frame[t].player2] = 1]
    /\ Goto(t, "idle")
    /\ frame' = [frame EXCEPT ![t] = Idle]
    /\ UNCHANGED <<posted, raced>>

WriteSecond(t) ==
    /\ At(t, "write2")
    /\ Rate(frame[t].player2, frame[t].r2, Gain2(frame[t]))
    /\ seph' = [seph EXCEPT ![frame[t].player2] = 1]
    /\ Goto(t, "idle")
    /\ frame' = [frame EXCEPT ![t] = Idle]
    /\ UNCHANGED <<posted, raced>>

-----------------------------------------------------------------------------
\* The steps a call takes once it is made.
Proceed(t) == \/ ReadSecond(t)
              \/ LockFirst(t)  \/ WriteFirst(t)
              \/ LockSecond(t) \/ WriteSecond(t)

Next == \E t \in Threads : Post(t) \/ Proceed(t)

\* A thread that can run does; no game need end.  With finitely many results
\* no semaphore is taken from a waiting thread for ever.
Spec == /\ Init /\ [][Next]_vars
        /\ \A t \in Threads : WF_vars(Proceed(t))

-----------------------------------------------------------------------------
Frames == [player1 : Players \cup {NoPlayer}, player2 : Players \cup {NoPlayer},
           result : Results, r1 : Int, r2 : Int]

TypeOK ==
    /\ rating \in [Players -> Int]
    /\ seph \in [Players -> {0, 1}]
    /\ pc \in [Threads -> {"idle", "read2", "lock1", "write1", "lock2", "write2"}]
    /\ frame \in [Threads -> Frames]
    /\ posted \in 0 .. MaxPosts
    /\ raced \in BOOLEAN
    /\ due \in [Players -> Int]
    /\ sums \in [Players -> SUBSET Int]

(***************************************************************************)
(* Results may be lost when two are posted at once, but a rating is always *)
(* one that some of the results of its player explain: start, plus the     *)
(* gains of those results, each once.                                      *)
(***************************************************************************)
RatingExplained == \A p \in Players : rating[p] \in sums[p]

(***************************************************************************)
(* A PLAYER is locked by one thread, and only while that thread is about   *)
(* to write its rating.                                                    *)
(***************************************************************************)
Holds(t, p) == \/ pc[t] = "write1" /\ frame[t].player1 = p
               \/ pc[t] = "write2" /\ frame[t].player2 = p

LocksSound ==
    \A p \in Players :
        /\ seph[p] = 0 <=> \E t \in Threads : Holds(t, p)
        /\ \A t, u \in Threads : Holds(t, p) /\ Holds(u, p) => t = u

\* The threads that have read both ratings.
Computed == {t \in Threads : pc[t] \in {"lock1", "write1", "lock2", "write2"}}

\* The ratings when every thread in Computed is done.
Settled ==
    [p \in Players |->
        IF \E t \in Computed : frame[t].player1 = p
        THEN LET t == CHOOSE u \in Computed : frame[u].player1 = p
             IN  frame[t].r1 + Gain1(frame[t])
        ELSE IF \E t \in Computed : frame[t].player2 = p
        THEN LET t == CHOOSE u \in Computed : frame[u].player2 = p
             IN  frame[t].r2 + Gain2(frame[t])
        ELSE rating[p]]

Abstract == INSTANCE AbstractRating WITH rating <- Settled

(***************************************************************************)
(* As long as no two results of a player are posted at once, the two reads *)
(* and two writes of player_post_result are as good as one step that       *)
(* transfers points in the sense of AbstractRating, although the integer   *)
(* division and the cast cut off fractions on both sides.                  *)
(***************************************************************************)
ImplementsAbstractRating == Abstract!Spec

(***************************************************************************)
(* Posting a result ends, whatever the others post: no thread holds the    *)
(* semaphore of one player while it waits for that of another.             *)
(***************************************************************************)
PostsEnd == \A t \in Threads : pc[t] # "idle" ~> pc[t] = "idle"

(***************************************************************************)
(* player.c:36-37, "Be sure that all the operations that might be called   *)
(* concurrently are thread-safe": when nobody posts, every result counts.  *)
(* (Of a PLAYER that is rated against itself the second write would undo   *)
(* the first, on one thread alone; Pairs is to leave such games out.)      *)
(***************************************************************************)
EveryResultCounts == Active = {} => rating = due
=============================================================================
