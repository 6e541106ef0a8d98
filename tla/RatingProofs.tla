---------------------------- MODULE RatingProofs ----------------------------
(***************************************************************************)
(* For any players, threads, starting ratings and number of results:       *)
(* ratings are explained by results, a PLAYER is locked by one thread, and *)
(* results that are not posted at once for a player are transfers of       *)
(* points in the sense of AbstractRating.                                  *)
(***************************************************************************)
EXTENDS Rating, TLAPS

PCs == {"idle", "read2", "lock1", "write1", "lock2", "write2"}

\* A thread inside player_post_result knows its players.
PartiesKnown ==
    \A t \in Threads :
        pc[t] # "idle" => frame[t].player1 \in Players /\ frame[t].player2 \in Players

\* What a thread has read was a rating that results explain.
ReadsExplained ==
    \A t \in Threads :
        /\ pc[t] # "idle" => frame[t].r1 \in sums[frame[t].player1]
        /\ pc[t] \notin {"idle", "read2"} => frame[t].r2 \in sums[frame[t].player2]

RatingInv == /\ TypeOK
             /\ PartiesKnown
             /\ ReadsExplained
             /\ RatingExplained
             /\ LocksSound

(***************************************************************************)
(* The quotient of the C division is an integer.                           *)
(***************************************************************************)
LEMMA QuotientType ==
    ASSUME NEW r \in Int, NEW other \in Int
    PROVE  Quotient(r, other) \in Int
  BY DEF Quotient, Truncated

(***************************************************************************)
(* What is left of the gain when the fraction is cut off.                  *)
(***************************************************************************)
GainTable(q, h) ==
    IF q = 0      THEN IF h = 0 THEN -16 ELSE IF h = 1 THEN 0   ELSE 16
    ELSE IF q = 1  THEN IF h = 0 THEN -2  ELSE IF h = 1 THEN 13  ELSE 29
    ELSE IF q = -1 THEN IF h = 0 THEN -29 ELSE IF h = 1 THEN -13 ELSE 2
    ELSE IF q > 1  THEN IF h = 0 THEN 0   ELSE IF h = 1 THEN 15  ELSE 31
    ELSE               IF h = 0 THEN -31 ELSE IF h = 1 THEN -15 ELSE 0

LEMMA GainIsTable ==
    ASSUME NEW q \in Int, NEW h \in 0 .. 2, -15 <= q, q <= 16
    PROVE  Gain(q, h) = GainTable(q, h)
<1> DEFINE k == Weight(q)
           w == IF q >= 0 THEN 1 ELSE k
<1>1. Gain(q, h) = Truncated(16 * h * (1 + k) - 32 * w, 1 + k)
  BY DEF Gain
<1>2. h \in {0, 1, 2}
  OBVIOUS
<1>3. CASE q = 0
  <2>1. k = 1 /\ w = 1
    BY <1>3 DEF Weight
  <2> HIDE DEF k, w
  <2> QED
    BY <1>1, <1>2, <1>3, <2>1 DEF Truncated, GainTable
<1>4. CASE q = 1 \/ q = -1
  <2>1. k = 10 /\ w = IF q = 1 THEN 1 ELSE 10
    BY <1>4 DEF Weight
  <2> HIDE DEF k, w
  <2> QED
    BY <1>1, <1>2, <1>4, <2>1 DEF Truncated, GainTable
<1>5. CASE q = 2 \/ q = -2
  <2>1. k = 100 /\ w = IF q = 2 THEN 1 ELSE 100
    BY <1>5 DEF Weight
  <2> HIDE DEF k, w
  <2> QED
    BY <1>1, <1>2, <1>5, <2>1 DEF Truncated, GainTable
<1>6. CASE q > 2 \/ q < -2
  <2>1. k = 1000 /\ w = IF q > 2 THEN 1 ELSE 1000
    BY <1>6 DEF Weight
  <2> HIDE DEF k, w
  <2> QED
    BY <1>1, <1>2, <1>6, <2>1 DEF Truncated, GainTable
<1> QED
  BY <1>3, <1>4, <1>5, <1>6

(***************************************************************************)
(* The gain within the precision of a double: what one player wins the     *)
(* other loses; the bounds of a win and of a draw follow the sign of the   *)
(* quotient.                                                               *)
(***************************************************************************)
LEMMA GainFacts ==
    ASSUME NEW q \in Int, NEW h \in 0 .. 2, -15 <= q, q <= 15
    PROVE  /\ Gain(q, h) \in Int
           /\ Gain(-q, 2 - h) = -Gain(q, h)
           /\ h = 2 => /\ Gain(q, h) \in 0 .. 32
                       /\ q >= 0 => Gain(q, h) >= 16
                       /\ q <= 0 => Gain(q, h) <= 16
           /\ h = 1 => /\ Gain(q, h) \in -16 .. 16
                       /\ q >= 0 => Gain(q, h) >= 0
                       /\ q <= 0 => Gain(q, h) <= 0
<1>1. Gain(q, h) = GainTable(q, h)
  BY GainIsTable
<1>2. Gain(-q, 2 - h) = GainTable(-q, 2 - h)
  <2>1. -q \in Int /\ 2 - h \in 0 .. 2 /\ -15 <= -q /\ -q <= 16
    OBVIOUS
  <2> QED
    BY <2>1, GainIsTable
<1>3. h \in {0, 1, 2}
  OBVIOUS
<1> QED
  BY <1>1, <1>2, <1>3 DEF GainTable

(***************************************************************************)
(* The gain at any distance: an integer within the stake.                  *)
(***************************************************************************)
LEMMA GainBound ==
    ASSUME NEW q \in Int, NEW h \in 0 .. 2
    PROVE  Gain(q, h) \in -32 .. 32
<1>1. h \in {0, 1, 2}
  OBVIOUS
<1>2. CASE q >= 17
  BY <1>1, <1>2 DEF Gain
<1>3. CASE q <= -16
  BY <1>1, <1>3 DEF Gain
<1>4. CASE -15 <= q /\ q <= 16
  BY <1>1, <1>4, GainIsTable DEF GainTable
<1> QED
  BY <1>2, <1>3, <1>4

(***************************************************************************)
(* The gains of the two players of a call.                                 *)
(***************************************************************************)
LEMMA GainTypes ==
    ASSUME NEW f \in Frames
    PROVE  Gain1(f) \in -32 .. 32 /\ Gain2(f) \in -32 .. 32
<1>1. f.r1 \in Int /\ f.r2 \in Int /\ f.result \in {0, 1, 2}
  BY DEF Frames, Results
<1>2. Score1(f.result) \in 0 .. 2 /\ Score2(f.result) \in 0 .. 2
  BY <1>1 DEF Score1, Score2
<1>3. Quotient(f.r1, f.r2) \in Int /\ Quotient(f.r2, f.r1) \in Int
  BY <1>1, QuotientType
<1> QED
  BY <1>2, <1>3, GainBound DEF Gain1, Gain2

-----------------------------------------------------------------------------
(***************************************************************************)
(* Every step of a thread keeps RatingInv.                                 *)
(***************************************************************************)
LEMMA InitRating == Init => RatingInv
<1> SUFFICES ASSUME Init PROVE RatingInv
  OBVIOUS
<1>1. TypeOK
  <2>1. rating \in [Players -> Int] /\ due \in [Players -> Int]
    BY RatingAssumption DEF Init
  <2>2. sums \in [Players -> SUBSET Int]
    BY <2>1 DEF Init
  <2>3. Idle \in Frames
    BY DEF Idle, Frames, Results
  <2>4. frame \in [Threads -> Frames] /\ raced \in BOOLEAN
    BY <2>3 DEF Init
  <2>5. /\ seph \in [Players -> {0, 1}]
        /\ pc \in [Threads -> PCs]
        /\ posted \in 0 .. MaxPosts
    BY RatingAssumption DEF Init, PCs
  <2> QED
    BY <2>1, <2>2, <2>4, <2>5 DEF TypeOK, PCs
<1>2. RatingExplained /\ ReadsExplained /\ PartiesKnown
  BY <1>1 DEF Init, RatingExplained, ReadsExplained, PartiesKnown, TypeOK
<1>3. LocksSound
  BY DEF Init, LocksSound, Holds
<1> QED
  BY <1>1, <1>2, <1>3 DEF RatingInv

(***************************************************************************)
(* Rating a player keeps types and explanations, and only adds to what is  *)
(* explained.                                                              *)
(***************************************************************************)
LEMMA RateKeeps ==
    ASSUME RatingInv, NEW p \in Players, NEW r \in sums[p], NEW gain \in Int,
           Rate(p, r, gain)
    PROVE  /\ rating' \in [Players -> Int]
           /\ due' \in [Players -> Int]
           /\ sums' \in [Players -> SUBSET Int]
           /\ RatingExplained'
           /\ \A x \in Players : sums[x] \subseteq sums'[x]
<1> USE DEF RatingInv, TypeOK
<1>1. r \in Int /\ sums[p] \subseteq Int
  OBVIOUS
<1>2. {x + gain : x \in sums[p]} \subseteq Int
  BY <1>1
<1>3. rating' \in [Players -> Int] /\ due' \in [Players -> Int]
  BY <1>1 DEF Rate
<1>4. sums' \in [Players -> SUBSET Int]
  BY <1>1, <1>2 DEF Rate
<1>5. \A x \in Players : sums[x] \subseteq sums'[x]
  BY DEF Rate
<1>6. ASSUME NEW x \in Players PROVE rating'[x] \in sums'[x]
  <2>1. CASE x = p
    BY <2>1 DEF Rate
  <2>2. CASE x # p
    BY <2>2, <1>5 DEF Rate, RatingExplained
  <2> QED
    BY <2>1, <2>2
<1> QED
  BY <1>3, <1>4, <1>5, <1>6 DEF RatingExplained

(***************************************************************************)
(* One step per action.                                                    *)
(***************************************************************************)
LEMMA StepRating == RatingInv /\ [Next]_vars => RatingInv'
<1> SUFFICES ASSUME RatingInv, [Next]_vars PROVE RatingInv'
  OBVIOUS
<1>1. CASE UNCHANGED vars
  BY <1>1 DEF RatingInv, vars, TypeOK, PartiesKnown, ReadsExplained,
              RatingExplained, LocksSound, Holds
<1>2. ASSUME NEW t \in Threads, Post(t) PROVE RatingInv'
  <2>1. PICK p1 \in Players, p2 \in Players, res \in Results :
           frame' = [frame EXCEPT ![t] =
                       [player1 |-> p1, player2 |-> p2, result |-> res,
                        r1 |-> rating[p1], r2 |-> 0]]
    BY <1>2 DEF Post
  <2>2. TypeOK'
    <3>1. raced' \in BOOLEAN
      BY <1>2 DEF Post
    <3>2. rating[p1] \in Int
      BY DEF RatingInv, TypeOK
    <3>3. frame' \in [Threads -> Frames]
      BY <2>1, <3>2 DEF RatingInv, TypeOK, Frames
    <3>4. pc' \in [Threads -> PCs] /\ posted' \in 0 .. MaxPosts
      BY <1>2, RatingAssumption DEF RatingInv, TypeOK, Post, Goto, PCs
    <3> QED
      BY <1>2, <3>1, <3>3, <3>4 DEF RatingInv, TypeOK, Post, PCs
  <2>3. pc' = [pc EXCEPT ![t] = "read2"] /\ pc[t] = "idle"
    BY <1>2 DEF Post, Goto, At
  <2>4. PartiesKnown'
    BY <2>1, <2>3 DEF RatingInv, TypeOK, PartiesKnown
  <2>5. ReadsExplained'
    BY <1>2, <2>1, <2>3 DEF RatingInv, TypeOK, ReadsExplained, RatingExplained, Post
  <2>6. RatingExplained'
    BY <1>2 DEF RatingInv, RatingExplained, Post
  <2>7. \A u \in Threads, p \in Players : Holds(u, p)' <=> Holds(u, p)
    BY <2>1, <2>3 DEF RatingInv, TypeOK, Holds
  <2>8. LocksSound'
    BY <1>2, <2>7 DEF RatingInv, LocksSound, Post
  <2> QED
    BY <2>2, <2>4, <2>5, <2>6, <2>8 DEF RatingInv
<1>3. ASSUME NEW t \in Threads, ReadSecond(t) PROVE RatingInv'
  <2>1. /\ frame' = [frame EXCEPT ![t].r2 = rating[frame[t].player2]]
        /\ pc' = [pc EXCEPT ![t] = "lock1"] /\ pc[t] = "read2"
        /\ frame[t] \in Frames
        /\ frame[t].player2 \in Players
    BY <1>3 DEF ReadSecond, Goto, At, RatingInv, TypeOK, PartiesKnown
  <2>2. TypeOK'
    BY <1>3, <2>1 DEF RatingInv, TypeOK, ReadSecond, Frames
  <2>3. \A u \in Threads : /\ frame'[u].player1 = frame[u].player1
                          /\ frame'[u].player2 = frame[u].player2
                          /\ frame'[u].r1 = frame[u].r1
                          /\ u # t => frame'[u].r2 = frame[u].r2
    BY <2>1 DEF RatingInv, TypeOK, Frames
  <2>4. frame'[t].r2 = rating[frame[t].player2]
    BY <2>1 DEF RatingInv, TypeOK, Frames
  <2>5. PartiesKnown'
    BY <2>1, <2>3 DEF RatingInv, TypeOK, PartiesKnown
  <2>6. ReadsExplained'
    BY <1>3, <2>1, <2>3, <2>4
       DEF RatingInv, TypeOK, ReadsExplained, RatingExplained, ReadSecond
  <2>7. RatingExplained'
    BY <1>3 DEF RatingInv, RatingExplained, ReadSecond
  <2>8. \A u \in Threads, p \in Players : Holds(u, p)' <=> Holds(u, p)
    BY <2>1, <2>3 DEF RatingInv, TypeOK, Holds
  <2>9. LocksSound'
    BY <1>3, <2>8 DEF RatingInv, LocksSound, ReadSecond
  <2> QED
    BY <2>2, <2>5, <2>6, <2>7, <2>9 DEF RatingInv
<1>4. ASSUME NEW t \in Threads, LockFirst(t) \/ LockSecond(t) PROVE RatingInv'
  <2>1. PICK p \in Players :
           /\ seph[p] > 0
           /\ seph' = [seph EXCEPT ![p] = seph[p] - 1]
           /\ \/ /\ p = frame[t].player1
                 /\ pc[t] = "lock1" /\ pc' = [pc EXCEPT ![t] = "write1"]
              \/ /\ p = frame[t].player2
                 /\ pc[t] = "lock2" /\ pc' = [pc EXCEPT ![t] = "write2"]
    BY <1>4 DEF LockFirst, LockSecond, Lock, At, Goto, RatingInv, PartiesKnown
  <2>2. UNCHANGED <<rating, frame, posted, raced, due, sums>>
    BY <1>4 DEF LockFirst, LockSecond, Lock
  <2>3. seph[p] = 1 /\ seph'[p] = 0
    BY <2>1 DEF RatingInv, TypeOK
  <2>4. TypeOK'
    BY <2>1, <2>2, <2>3 DEF RatingInv, TypeOK
  <2>5. PartiesKnown' /\ ReadsExplained' /\ RatingExplained'
    BY <2>1, <2>2
       DEF RatingInv, TypeOK, PartiesKnown, ReadsExplained, RatingExplained
  <2>6. \A u \in Threads : ~ Holds(u, p)
    BY <2>3 DEF RatingInv, LocksSound
  <2>7. \A u \in Threads, x \in Players :
           Holds(u, x)' <=> Holds(u, x) \/ (u = t /\ x = p)
    BY <2>1, <2>2, <2>6 DEF RatingInv, TypeOK, Holds
  <2>8. LocksSound'
    BY <2>1, <2>3, <2>6, <2>7 DEF RatingInv, TypeOK, LocksSound
  <2> QED
    BY <2>4, <2>5, <2>8 DEF RatingInv
<1>5. ASSUME NEW t \in Threads, WriteFirst(t) PROVE RatingInv'
  <2> DEFINE p == frame[t].player1
  <2>1. /\ p \in Players /\ frame[t].r1 \in sums[p] /\ frame[t] \in Frames
        /\ pc[t] = "write1" /\ pc' = [pc EXCEPT ![t] = "lock2"]
        /\ UNCHANGED <<frame, posted, raced>>
        /\ seph' = [seph EXCEPT ![p] = 1]
        /\ Holds(t, p)
    BY <1>5 DEF WriteFirst, At, Goto, RatingInv, TypeOK, PartiesKnown,
                ReadsExplained, Holds
  <2>2. Gain1(frame[t]) \in Int
    BY <2>1, GainTypes
  <2>3. /\ rating' \in [Players -> Int] /\ due' \in [Players -> Int]
        /\ sums' \in [Players -> SUBSET Int]
        /\ RatingExplained'
        /\ \A x \in Players : sums[x] \subseteq sums'[x]
    BY <1>5, <2>1, <2>2, RateKeeps DEF WriteFirst
  <2>4. TypeOK'
    BY <2>1, <2>3 DEF RatingInv, TypeOK
  <2>5. PartiesKnown'
    BY <2>1 DEF RatingInv, TypeOK, PartiesKnown
  <2>6. ReadsExplained'
    BY <2>1, <2>3, <2>5 DEF RatingInv, TypeOK, ReadsExplained, PartiesKnown
  <2>7. \A u \in Threads, x \in Players : Holds(u, x)' <=> Holds(u, x) /\ u # t
    BY <2>1 DEF RatingInv, TypeOK, Holds
  <2>8. \A x \in Players : x # p => ~ Holds(t, x)
    BY <2>1 DEF Holds
  <2>9. LocksSound'
    BY <2>1, <2>7, <2>8 DEF RatingInv, TypeOK, LocksSound
  <2> QED
    BY <2>3, <2>4, <2>5, <2>6, <2>9 DEF RatingInv
<1>6. ASSUME NEW t \in Threads, WriteSecond(t) PROVE RatingInv'
  <2> DEFINE p == frame[t].player2
  <2>1. /\ p \in Players /\ frame[t].r2 \in sums[p] /\ frame[t] \in Frames
        /\ pc[t] = "write2" /\ pc' = [pc EXCEPT ![t] = "idle"]
        /\ frame' = [frame EXCEPT ![t] = Idle]
        /\ UNCHANGED <<posted, raced>>
        /\ seph' = [seph EXCEPT ![p] = 1]
        /\ Holds(t, p)
    BY <1>6 DEF WriteSecond, At, Goto, RatingInv, TypeOK, PartiesKnown,
                ReadsExplained, Holds
  <2>2. Gain2(frame[t]) \in Int
    BY <2>1, GainTypes
  <2>3. /\ rating' \in [Players -> Int] /\ due' \in [Players -> Int]
        /\ sums' \in [Players -> SUBSET Int]
        /\ RatingExplained'
        /\ \A x \in Players : sums[x] \subseteq sums'[x]
    BY <1>6, <2>1, <2>2, RateKeeps DEF WriteSecond
  <2>4. TypeOK'
    <3>1. Idle \in Frames
      BY DEF Idle, Frames, Results
    <3> QED
      BY <2>1, <2>3, <3>1 DEF RatingInv, TypeOK
  <2>5. PartiesKnown'
    BY <2>1 DEF RatingInv, TypeOK, PartiesKnown
  <2>6. ReadsExplained'
    BY <2>1, <2>3, <2>5 DEF RatingInv, TypeOK, ReadsExplained, PartiesKnown
  <2>7. \A u \in Threads, x \in Players : Holds(u, x)' <=> Holds(u, x) /\ u # t
    BY <2>1 DEF RatingInv, TypeOK, Holds
  <2>8. \A x \in Players : x # p => ~ Holds(t, x)
    BY <2>1 DEF Holds
  <2>9. LocksSound'
    BY <2>1, <2>7, <2>8 DEF RatingInv, TypeOK, LocksSound
  <2> QED
    BY <2>3, <2>4, <2>5, <2>6, <2>9 DEF RatingInv
<1> QED
  BY <1>1, <1>2, <1>3, <1>4, <1>5, <1>6 DEF Next, Proceed

(***************************************************************************)
(* RatingInv holds throughout.                                             *)
(***************************************************************************)
LEMMA RatingInvariant == Spec => []RatingInv
<1> QED
  BY InitRating, StepRating, PTL DEF Spec

(***************************************************************************)
(* player.c is type correct: gains are integers, semaphores binary.        *)
(***************************************************************************)
THEOREM RatingTypeCorrect == Spec => []TypeOK
<1>1. RatingInv => TypeOK
  BY DEF RatingInv
<1> QED
  BY <1>1, RatingInvariant, PTL

(***************************************************************************)
(* Whatever is posted at once, a rating is one that some of the results of *)
(* its player explain.                                                     *)
(***************************************************************************)
THEOREM RatingsStayExplained == Spec => []RatingExplained
<1>1. RatingInv => RatingExplained
  BY DEF RatingInv
<1> QED
  BY <1>1, RatingInvariant, PTL

(***************************************************************************)
(* A PLAYER is locked exactly while one thread is about to write it.       *)
(***************************************************************************)
THEOREM LocksStaySound == Spec => []LocksSound
<1>1. RatingInv => LocksSound
  BY DEF RatingInv
<1> QED
  BY <1>1, RatingInvariant, PTL

-----------------------------------------------------------------------------
(***************************************************************************)
(* While nothing is raced, the calls under way have players of their own,  *)
(* and what each has read or written is what the ratings are.              *)
(***************************************************************************)
OwnParties ==
    \A t \in Active :
        /\ frame[t].player1 # frame[t].player2
        /\ \A u \in Active : u # t =>
              /\ frame[u].player1 # frame[t].player1
              /\ frame[u].player1 # frame[t].player2
              /\ frame[u].player2 # frame[t].player2

ReadsCurrent ==
    \A t \in Active :
        LET f == frame[t]
        IN  /\ rating[f.player1] = IF pc[t] \in {"lock2", "write2"}
                                   THEN f.r1 + Gain1(f) ELSE f.r1
            /\ pc[t] # "read2" => rating[f.player2] = f.r2

Undisturbed == ~ raced => OwnParties /\ ReadsCurrent

LEMMA InitUndisturbed == Init => Undisturbed
  BY DEF Init, Undisturbed, OwnParties, ReadsCurrent, Active

LEMMA StepUndisturbed == RatingInv /\ Undisturbed /\ [Next]_vars => Undisturbed'
<1> SUFFICES ASSUME RatingInv, Undisturbed, [Next]_vars, ~ raced'
             PROVE  OwnParties' /\ ReadsCurrent'
  BY DEF Undisturbed
<1>0. ~ raced
  BY DEF Next, Proceed, Post, ReadSecond, LockFirst, LockSecond, Lock,
         WriteFirst, WriteSecond, vars
<1>a. OwnParties /\ ReadsCurrent /\ TypeOK /\ PartiesKnown
  BY <1>0 DEF Undisturbed, RatingInv
<1>1. CASE UNCHANGED vars
  BY <1>1, <1>a DEF vars, OwnParties, ReadsCurrent, Active
<1>2. ASSUME NEW t \in Threads, Post(t) PROVE OwnParties' /\ ReadsCurrent'
  <2>1. PICK p1 \in Players, p2 \in Players, res \in Results :
           /\ frame' = [frame EXCEPT ![t] =
                          [player1 |-> p1, player2 |-> p2, result |-> res,
                           r1 |-> rating[p1], r2 |-> 0]]
           /\ p1 # p2
           /\ \A u \in Active : Parties(u) \cap {p1, p2} = {}
    BY <1>2 DEF Post
  <2>2. pc' = [pc EXCEPT ![t] = "read2"] /\ pc[t] = "idle" /\ rating' = rating
    BY <1>2 DEF Post, Goto, At
  <2>3. \A u \in Active : /\ frame[u].player1 \notin {p1, p2}
                         /\ frame[u].player2 \notin {p1, p2}
    BY <2>1 DEF Parties
  <2>4. Active' = Active \cup {t} /\ t \notin Active
    BY <2>2, <1>a DEF Active, TypeOK
  <2>5. frame'[t].player1 = p1 /\ frame'[t].player2 = p2 /\ frame'[t].r1 = rating[p1]
    BY <2>1, <1>a DEF TypeOK
  <2>6. \A u \in Active : frame'[u] = frame[u] /\ pc'[u] = pc[u]
    BY <2>1, <2>2, <2>4, <1>a DEF TypeOK, Active
  <2>7. OwnParties'
    BY <2>1, <2>3, <2>4, <2>5, <2>6, <1>a DEF OwnParties
  <2>8. pc'[t] = "read2"
    BY <2>2, <1>a DEF TypeOK
  <2>9. ReadsCurrent'
    BY <2>2, <2>4, <2>5, <2>6, <2>8, <1>a DEF ReadsCurrent
  <2> QED
    BY <2>7, <2>9
<1>3. ASSUME NEW t \in Threads, ReadSecond(t) PROVE OwnParties' /\ ReadsCurrent'
  <2>1. /\ frame' = [frame EXCEPT ![t].r2 = rating[frame[t].player2]]
        /\ pc' = [pc EXCEPT ![t] = "lock1"] /\ pc[t] = "read2"
        /\ frame[t] \in Frames
        /\ rating' = rating
    BY <1>3, <1>a DEF ReadSecond, Goto, At, TypeOK
  <2>2. Active' = Active /\ t \in Active /\ Active \subseteq Threads
    BY <2>1, <1>a DEF Active, TypeOK
  <2>3. ASSUME NEW u \in Active
        PROVE  /\ frame'[u].player1 = frame[u].player1
               /\ frame'[u].player2 = frame[u].player2
               /\ frame'[u].r1 = frame[u].r1
               /\ u # t => frame'[u] = frame[u] /\ pc'[u] = pc[u]
    <3>1. u \in Threads
      BY <2>2
    <3>2. CASE u = t
      BY <2>1, <3>2, <1>a DEF TypeOK, Frames
    <3>3. CASE u # t
      BY <2>1, <3>1, <3>3, <1>a DEF TypeOK
    <3> QED
      BY <3>2, <3>3
  <2>4. frame'[t].r2 = rating[frame[t].player2] /\ pc'[t] = "lock1"
    BY <2>1, <1>a DEF TypeOK, Frames
  <2>5. OwnParties'
    BY <2>2, <2>3, <1>a DEF OwnParties
  <2>6. ReadsCurrent'
    BY <2>1, <2>2, <2>3, <2>4, <1>a DEF ReadsCurrent
  <2> QED
    BY <2>5, <2>6
<1>4. ASSUME NEW t \in Threads, LockFirst(t) \/ LockSecond(t)
      PROVE  OwnParties' /\ ReadsCurrent'
  <2>1. /\ \/ pc[t] = "lock1" /\ pc' = [pc EXCEPT ![t] = "write1"]
           \/ pc[t] = "lock2" /\ pc' = [pc EXCEPT ![t] = "write2"]
        /\ rating' = rating /\ frame' = frame
    BY <1>4 DEF LockFirst, LockSecond, Lock, At, Goto
  <2>2. Active' = Active
    BY <2>1, <1>a DEF Active, TypeOK
  <2>3. \A u \in Threads :
           /\ pc'[u] \in {"lock2", "write2"} <=> pc[u] \in {"lock2", "write2"}
           /\ pc'[u] = "read2" <=> pc[u] = "read2"
    BY <2>1, <1>a DEF TypeOK
  <2> QED
    BY <2>1, <2>2, <2>3, <1>a DEF OwnParties, ReadsCurrent, Active
<1>5. ASSUME NEW t \in Threads, WriteFirst(t) PROVE OwnParties' /\ ReadsCurrent'
  <2> DEFINE p == frame[t].player1
  <2>1. /\ rating' = [rating EXCEPT ![p] = frame[t].r1 + Gain1(frame[t])]
        /\ frame' = frame
        /\ pc[t] = "write1" /\ pc' = [pc EXCEPT ![t] = "lock2"]
    BY <1>5 DEF WriteFirst, At, Goto, Rate
  <2>2. Active' = Active /\ t \in Active /\ p \in Players
    BY <2>1, <1>a DEF Active, TypeOK, PartiesKnown
  <2>3. OwnParties'
    BY <2>1, <2>2, <1>a DEF OwnParties
  <2>4. ASSUME NEW u \in Active, u # t
        PROVE  /\ rating'[frame[u].player1] = rating[frame[u].player1]
               /\ rating'[frame[u].player2] = rating[frame[u].player2]
               /\ pc'[u] = pc[u]
    BY <2>1, <2>2, <2>4, <1>a DEF OwnParties, TypeOK, Active, PartiesKnown
  <2>5. /\ rating'[p] = frame[t].r1 + Gain1(frame[t])
        /\ rating'[frame[t].player2] = frame[t].r2
        /\ pc'[t] = "lock2"
    BY <2>1, <2>2, <1>a DEF OwnParties, ReadsCurrent, TypeOK, PartiesKnown
  <2>6. ReadsCurrent'
    BY <2>1, <2>2, <2>4, <2>5, <1>a DEF ReadsCurrent
  <2> QED
    BY <2>3, <2>6
<1>6. ASSUME NEW t \in Threads, WriteSecond(t) PROVE OwnParties' /\ ReadsCurrent'
  <2> DEFINE p == frame[t].player2
  <2>1. /\ rating' = [rating EXCEPT ![p] = frame[t].r2 + Gain2(frame[t])]
        /\ frame' = [frame EXCEPT ![t] = Idle]
        /\ pc[t] = "write2" /\ pc' = [pc EXCEPT ![t] = "idle"]
    BY <1>6 DEF WriteSecond, At, Goto, Rate
  <2>2. Active' = Active \ {t} /\ t \in Active /\ p \in Players
    BY <2>1, <1>a DEF Active, TypeOK, PartiesKnown
  <2>3. ASSUME NEW u \in Active, u # t
        PROVE  /\ rating'[frame[u].player1] = rating[frame[u].player1]
               /\ rating'[frame[u].player2] = rating[frame[u].player2]
               /\ pc'[u] = pc[u] /\ frame'[u] = frame[u]
    BY <2>1, <2>2, <2>3, <1>a DEF OwnParties, TypeOK, Active, PartiesKnown
  <2>4. OwnParties'
    BY <2>2, <2>3, <1>a DEF OwnParties
  <2>5. ReadsCurrent'
    BY <2>2, <2>3, <1>a DEF ReadsCurrent
  <2> QED
    BY <2>4, <2>5
<1> QED
  BY <1>1, <1>2, <1>3, <1>4, <1>5, <1>6 DEF Next, Proceed

-----------------------------------------------------------------------------
(***************************************************************************)
(* Settled as a function of the threads C that have computed their gains,  *)
(* their locals f and the ratings r.                                       *)
(***************************************************************************)
SettledBy(C, f, r) ==
    [p \in Players |->
        IF \E t \in C : f[t].player1 = p
        THEN LET t == CHOOSE u \in C : f[u].player1 = p
             IN  f[t].r1 + Gain1(f[t])
        ELSE IF \E t \in C : f[t].player2 = p
        THEN LET t == CHOOSE u \in C : f[u].player2 = p
             IN  f[t].r2 + Gain2(f[t])
        ELSE r[p]]

LEMMA SettledIsBy == Settled = SettledBy(Computed, frame, rating)
  BY DEF Settled, SettledBy

(***************************************************************************)
(* If the threads in C have players of their own, each player is settled   *)
(* by one of them.                                                         *)
(***************************************************************************)
LEMMA SettledFacts ==
    ASSUME NEW C, NEW f, NEW r, NEW p \in Players,
           \A t \in C :
              /\ f[t].player1 # f[t].player2
              /\ \A u \in C : u # t =>
                    /\ f[u].player1 # f[t].player1
                    /\ f[u].player1 # f[t].player2
                    /\ f[u].player2 # f[t].player2
    PROVE  /\ \A t \in C : f[t].player1 = p =>
                 SettledBy(C, f, r)[p] = f[t].r1 + Gain1(f[t])
           /\ \A t \in C : f[t].player2 = p =>
                 SettledBy(C, f, r)[p] = f[t].r2 + Gain2(f[t])
           /\ (\A t \in C : f[t].player1 # p /\ f[t].player2 # p) =>
                 SettledBy(C, f, r)[p] = r[p]
<1>1. ASSUME NEW t \in C, f[t].player1 = p
      PROVE  SettledBy(C, f, r)[p] = f[t].r1 + Gain1(f[t])
  <2> DEFINE w == CHOOSE u \in C : f[u].player1 = p
  <2>1. w \in C /\ f[w].player1 = p
    BY <1>1
  <2>2. w = t
    BY <1>1, <2>1
  <2>3. SettledBy(C, f, r)[p] = f[w].r1 + Gain1(f[w])
    BY <1>1 DEF SettledBy
  <2> QED
    BY <2>2, <2>3
<1>2. ASSUME NEW t \in C, f[t].player2 = p
      PROVE  SettledBy(C, f, r)[p] = f[t].r2 + Gain2(f[t])
  <2> DEFINE w == CHOOSE u \in C : f[u].player2 = p
  <2>1. w \in C /\ f[w].player2 = p
    BY <1>2
  <2>2. w = t
    BY <1>2, <2>1
  <2>3. \A u \in C : f[u].player1 # p
    BY <1>2
  <2>4. SettledBy(C, f, r)[p] = f[w].r2 + Gain2(f[w])
    BY <1>2, <2>3 DEF SettledBy
  <2> QED
    BY <2>2, <2>4
<1>3. ASSUME \A t \in C : f[t].player1 # p /\ f[t].player2 # p
      PROVE  SettledBy(C, f, r)[p] = r[p]
  BY <1>3 DEF SettledBy
<1> QED
  BY <1>1, <1>2, <1>3

(***************************************************************************)
(* Raced or not, settled ratings are integers.                             *)
(***************************************************************************)
LEMMA SettledType ==
    ASSUME NEW C \in SUBSET Threads, NEW f \in [Threads -> Frames],
           NEW r \in [Players -> Int]
    PROVE  SettledBy(C, f, r) \in [Players -> Int]
<1> SUFFICES ASSUME NEW p \in Players PROVE SettledBy(C, f, r)[p] \in Int
  BY DEF SettledBy
<1>1. \A t \in C : /\ f[t].r1 + Gain1(f[t]) \in Int
                  /\ f[t].r2 + Gain2(f[t]) \in Int
  <2> SUFFICES ASSUME NEW t \in C
               PROVE  /\ f[t].r1 + Gain1(f[t]) \in Int
                      /\ f[t].r2 + Gain2(f[t]) \in Int
    OBVIOUS
  <2>1. f[t] \in Frames
    OBVIOUS
  <2>2. f[t].r1 \in Int /\ f[t].r2 \in Int
    BY <2>1 DEF Frames
  <2> QED
    BY <2>1, <2>2, GainTypes
<1>2. CASE \E t \in C : f[t].player1 = p
  <2> DEFINE w == CHOOSE u \in C : f[u].player1 = p
  <2>1. w \in C
    BY <1>2
  <2>2. SettledBy(C, f, r)[p] = f[w].r1 + Gain1(f[w])
    BY <1>2 DEF SettledBy
  <2> QED
    BY <1>1, <2>1, <2>2
<1>3. CASE /\ ~ \E t \in C : f[t].player1 = p
           /\ \E t \in C : f[t].player2 = p
  <2> DEFINE w == CHOOSE u \in C : f[u].player2 = p
  <2>1. w \in C
    BY <1>3
  <2>2. SettledBy(C, f, r)[p] = f[w].r2 + Gain2(f[w])
    BY <1>3 DEF SettledBy
  <2> QED
    BY <1>1, <2>1, <2>2
<1>4. CASE ~ \E t \in C : f[t].player1 = p \/ f[t].player2 = p
  BY <1>4 DEF SettledBy
<1> QED
  BY <1>2, <1>3, <1>4

LEMMA SettledInt == TypeOK => Settled \in [Players -> Int]
<1>1. Computed \in SUBSET Threads
  BY DEF Computed
<1> QED
  BY <1>1, SettledType, SettledIsBy DEF TypeOK

LEMMA SettledIntNext == TypeOK' => Settled' \in [Players -> Int]
<1> SUFFICES ASSUME TypeOK' PROVE Settled' \in [Players -> Int]
  OBVIOUS
<1>1. Computed' \in SUBSET Threads
  BY DEF Computed
<1>2. Settled' = SettledBy(Computed', frame', rating')
  BY DEF Settled, SettledBy
<1>3. frame' \in [Threads -> Frames] /\ rating' \in [Players -> Int]
  BY DEF TypeOK
<1> QED
  BY <1>1, <1>2, <1>3, SettledType

(***************************************************************************)
(* The gains of a call, within the precision of a double, are a transfer   *)
(* whose size fits the result and the two ratings.                         *)
(***************************************************************************)
LEMMA GainsFit ==
    ASSUME NEW f \in Frames, f.r1 - f.r2 < 6400, f.r2 - f.r1 < 6400
    PROVE  /\ Gain2(f) = -Gain1(f)
           /\ f.result = 1 => /\ Gain1(f) \in 0 .. 32
                              /\ f.r1 <= f.r2 => Gain1(f) >= 16
                              /\ f.r1 >= f.r2 => Gain1(f) <= 16
           /\ f.result = 2 => /\ Gain2(f) \in 0 .. 32
                              /\ f.r2 <= f.r1 => Gain2(f) >= 16
                              /\ f.r2 >= f.r1 => Gain2(f) <= 16
           /\ f.result = 0 => /\ Gain1(f) \in -16 .. 16
                              /\ f.r1 <= f.r2 => Gain1(f) >= 0
                              /\ f.r1 >= f.r2 => Gain1(f) <= 0
<1> DEFINE q == Quotient(f.r1, f.r2)
           h == Score1(f.result)
<1>1. f.r1 \in Int /\ f.r2 \in Int /\ f.result \in {0, 1, 2}
  BY DEF Frames, Results
<1>2. /\ q \in Int /\ -15 <= q /\ q <= 15
      /\ Quotient(f.r2, f.r1) = -q
      /\ f.r1 <= f.r2 => q >= 0
      /\ f.r1 >= f.r2 => q <= 0
  <2>1. PICK r, other : r = f.r1 /\ other = f.r2
    OBVIOUS
  <2>2. r \in Int /\ other \in Int /\ r - other < 6400 /\ other - r < 6400
    BY <1>1, <2>1
  <2>3. q = Quotient(r, other) /\ Quotient(f.r2, f.r1) = Quotient(other, r)
    BY <2>1
  <2> HIDE DEF q
  <2>4. /\ Quotient(r, other) \in Int
        /\ Quotient(other, r) = -Quotient(r, other)
        /\ r <= other => Quotient(r, other) >= 0
        /\ r >= other => Quotient(r, other) <= 0
        /\ Quotient(r, other) <= 15 /\ Quotient(r, other) >= -15
    BY <2>2 DEF Quotient, Truncated
  <2> QED
    BY <2>1, <2>2, <2>3, <2>4
<1>3. /\ h \in 0 .. 2 /\ Score2(f.result) = 2 - h
      /\ f.result = 0 => h = 1
      /\ f.result = 1 => h = 2
      /\ f.result = 2 => h = 0
  BY <1>1 DEF Score1, Score2
<1>4. Gain1(f) = Gain(q, h) /\ Gain2(f) = Gain(-q, 2 - h)
  BY <1>2, <1>3 DEF Gain1, Gain2
<1> HIDE DEF q, h
<1>5. Gain(-q, 2 - h) = -Gain(q, h)
  BY <1>2, <1>3, GainFacts
<1>6. h = 2 => /\ Gain(q, h) \in 0 .. 32
               /\ q >= 0 => Gain(q, h) >= 16
               /\ q <= 0 => Gain(q, h) <= 16
  BY <1>2, <1>3, GainFacts
<1>7. h = 1 => /\ Gain(q, h) \in -16 .. 16
               /\ q >= 0 => Gain(q, h) >= 0
               /\ q <= 0 => Gain(q, h) <= 0
  BY <1>2, <1>3, GainFacts
<1>8. h = 0 => /\ Gain(-q, 2 - h) \in 0 .. 32
               /\ -q >= 0 => Gain(-q, 2 - h) >= 16
               /\ -q <= 0 => Gain(-q, 2 - h) <= 16
  <2> SUFFICES ASSUME h = 0
               PROVE  /\ Gain(-q, 2) \in 0 .. 32
                      /\ -q >= 0 => Gain(-q, 2) >= 16
                      /\ -q <= 0 => Gain(-q, 2) <= 16
    OBVIOUS
  <2>1. -q \in Int /\ -15 <= -q /\ -q <= 15 /\ 2 \in 0 .. 2
    BY <1>2
  <2> QED
    BY <2>1, GainFacts
<1>9. f.result = 1 => /\ Gain1(f) \in 0 .. 32
                      /\ f.r1 <= f.r2 => Gain1(f) >= 16
                      /\ f.r1 >= f.r2 => Gain1(f) <= 16
  BY <1>2, <1>3, <1>4, <1>6
<1>10. f.result = 2 => /\ Gain2(f) \in 0 .. 32
                       /\ f.r2 <= f.r1 => Gain2(f) >= 16
                       /\ f.r2 >= f.r1 => Gain2(f) <= 16
  BY <1>1, <1>2, <1>3, <1>4, <1>8
<1>11. f.result = 0 => /\ Gain1(f) \in -16 .. 16
                       /\ f.r1 <= f.r2 => Gain1(f) >= 0
                       /\ f.r1 >= f.r2 => Gain1(f) <= 0
  BY <1>2, <1>3, <1>4, <1>7
<1> QED
  BY <1>4, <1>5, <1>9, <1>10, <1>11

(***************************************************************************)
(* A call whose players have the ratings it has read is, once settled, a   *)
(* result in the sense of AbstractRating.                                  *)
(***************************************************************************)
LEMMA CallIsPost ==
    ASSUME NEW f \in Frames, f.player1 \in Players, f.player2 \in Players,
           f.player1 # f.player2, ~ raced, ~ raced',
           Settled \in [Players -> Int],
           Settled[f.player1] = f.r1, Settled[f.player2] = f.r2,
           Settled' = [Settled EXCEPT ![f.player1] = f.r1 + Gain1(f),
                                      ![f.player2] = f.r2 + Gain2(f)]
    PROVE  Abstract!Post(f.player1, f.player2, f.result)
<1> DEFINE p == f.player1
           q == f.player2
           S == Settled
<1>1. f.r1 \in Int /\ f.r2 \in Int /\ f.result \in {0, 1, 2}
  BY DEF Frames, Results
<1>2. Gain1(f) \in -32 .. 32 /\ Gain2(f) \in -32 .. 32
  BY GainTypes
<1>3. S'[p] - S[p] = Gain1(f) /\ S'[q] - S[q] = Gain2(f)
  BY <1>1, <1>2
<1>4. CASE ~ Abstract!Near(p, q)
  <2>1. S' = [S EXCEPT ![p] = S'[p], ![q] = S'[q]]
    OBVIOUS
  <2>2. Abstract!Apart(p, q)
    BY <1>2, <1>3, <2>1 DEF Abstract!Apart, Abstract!Received, Abstract!Stake
  <2> QED
    BY <1>4, <2>2 DEF Abstract!Post
<1>5. CASE Abstract!Near(p, q)
  <2>1. f.r1 - f.r2 < 6400 /\ f.r2 - f.r1 < 6400
    BY <1>5 DEF Abstract!Near, Abstract!FarGap
  <2>2. Gain2(f) = -Gain1(f)
    BY <2>1, GainsFit
  <2>3. CASE f.result = 0
    <3>1. /\ Gain1(f) \in -16 .. 16
          /\ f.r1 <= f.r2 => Gain1(f) >= 0
          /\ f.r1 >= f.r2 => Gain1(f) <= 0
      BY <2>1, <2>3, GainsFit
    <3>2. Abstract!Transfer(p, q, Gain1(f))
      BY <1>1, <1>2, <2>2 DEF Abstract!Transfer
    <3>3. Abstract!Draw(p, q)
      BY <1>3, <3>1, <3>2 DEF Abstract!Draw, Abstract!Received, Abstract!Stake
    <3> QED
      BY <1>5, <2>3, <3>3 DEF Abstract!Post
  <2>4. CASE f.result = 1
    <3>1. /\ Gain1(f) \in 0 .. 32
          /\ f.r1 <= f.r2 => Gain1(f) >= 16
          /\ f.r1 >= f.r2 => Gain1(f) <= 16
      BY <2>1, <2>4, GainsFit
    <3>2. Abstract!Transfer(p, q, Gain1(f))
      BY <1>1, <1>2, <2>2 DEF Abstract!Transfer
    <3>3. Abstract!Win(p, q)
      BY <1>3, <3>1, <3>2 DEF Abstract!Win, Abstract!Received, Abstract!Stake
    <3> QED
      BY <1>5, <2>4, <3>3 DEF Abstract!Post
  <2>5. CASE f.result = 2
    <3>1. /\ Gain2(f) \in 0 .. 32
          /\ f.r2 <= f.r1 => Gain2(f) >= 16
          /\ f.r2 >= f.r1 => Gain2(f) <= 16
      BY <2>1, <2>5, GainsFit
    <3>2. S' = [S EXCEPT ![q] = f.r2 + Gain2(f), ![p] = f.r1 - Gain2(f)]
      <4>1. f.r1 + Gain1(f) = f.r1 - Gain2(f)
        BY <1>1, <1>2, <2>2
      <4> QED
        BY <4>1
    <3>3. Abstract!Transfer(q, p, Gain2(f))
      BY <3>2 DEF Abstract!Transfer
    <3>4. Abstract!Win(q, p)
      BY <1>3, <3>1, <3>3 DEF Abstract!Win, Abstract!Received, Abstract!Stake
    <3> QED
      BY <1>5, <2>5, <3>4 DEF Abstract!Post
  <2> QED
    BY <1>1, <2>3, <2>4, <2>5
<1> QED
  BY <1>4, <1>5

(***************************************************************************)
(* Settled ratings stay when the same threads have computed, and only      *)
(* ratings change that these settle.                                       *)
(***************************************************************************)
Own(C, f) ==
    \A t \in C :
        /\ f[t].player1 # f[t].player2
        /\ \A u \in C : u # t =>
              /\ f[u].player1 # f[t].player1
              /\ f[u].player1 # f[t].player2
              /\ f[u].player2 # f[t].player2

PartyIn(C, f, p) == \E t \in C : f[t].player1 = p \/ f[t].player2 = p

LEMMA SettledAt ==
    ASSUME NEW C, NEW f, NEW r, Own(C, f)
    PROVE  /\ \A p \in Players, t \in C : f[t].player1 = p =>
                 SettledBy(C, f, r)[p] = f[t].r1 + Gain1(f[t])
           /\ \A p \in Players, t \in C : f[t].player2 = p =>
                 SettledBy(C, f, r)[p] = f[t].r2 + Gain2(f[t])
           /\ \A p \in Players : ~ PartyIn(C, f, p) =>
                 SettledBy(C, f, r)[p] = r[p]
<1> SUFFICES ASSUME NEW p \in Players
             PROVE  /\ \A t \in C : f[t].player1 = p =>
                          SettledBy(C, f, r)[p] = f[t].r1 + Gain1(f[t])
                    /\ \A t \in C : f[t].player2 = p =>
                          SettledBy(C, f, r)[p] = f[t].r2 + Gain2(f[t])
                    /\ ~ PartyIn(C, f, p) => SettledBy(C, f, r)[p] = r[p]
  OBVIOUS
<1> QED
  BY SettledFacts DEF Own, PartyIn

LEMMA SettledSame ==
    ASSUME NEW C, NEW f, NEW g, NEW r, NEW s, Own(C, f),
           \A t \in C : g[t] = f[t],
           \A p \in Players : ~ PartyIn(C, f, p) => s[p] = r[p]
    PROVE  SettledBy(C, g, s) = SettledBy(C, f, r)
<1>1. Own(C, g)
  BY DEF Own
<1>2. ASSUME NEW p \in Players
      PROVE  SettledBy(C, g, s)[p] = SettledBy(C, f, r)[p]
  <2>1. CASE ~ PartyIn(C, f, p)
    <3>1. ~ PartyIn(C, g, p)
      BY <2>1 DEF PartyIn
    <3> QED
      BY <1>1, <2>1, <3>1, SettledAt
  <2>2. CASE PartyIn(C, f, p)
    <3>1. PICK t \in C : f[t].player1 = p \/ f[t].player2 = p
      BY <2>2 DEF PartyIn
    <3>2. g[t] = f[t]
      OBVIOUS
    <3>3. CASE f[t].player1 = p
      <4>1. SettledBy(C, f, r)[p] = f[t].r1 + Gain1(f[t])
        BY <3>3, SettledAt
      <4>2. SettledBy(C, g, s)[p] = g[t].r1 + Gain1(g[t])
        BY <3>2, <3>3, <1>1, SettledAt
      <4> QED
        BY <3>2, <4>1, <4>2
    <3>4. CASE f[t].player2 = p
      <4>1. SettledBy(C, f, r)[p] = f[t].r2 + Gain2(f[t])
        BY <3>4, SettledAt
      <4>2. SettledBy(C, g, s)[p] = g[t].r2 + Gain2(g[t])
        BY <3>2, <3>4, <1>1, SettledAt
      <4> QED
        BY <3>2, <4>1, <4>2
    <3> QED
      BY <3>1, <3>3, <3>4
  <2> QED
    BY <2>1, <2>2
<1> QED
  BY <1>2 DEF SettledBy

(***************************************************************************)
(* When one thread more has computed, its two players are settled anew,    *)
(* and nobody else.                                                        *)
(***************************************************************************)
LEMMA SettledMore ==
    ASSUME NEW C, NEW t, t \notin C, NEW f, NEW r, NEW p \in Players,
           Own(C \cup {t}, f)
    PROVE  /\ p = f[t].player1 => /\ SettledBy(C, f, r)[p] = r[p]
                                  /\ SettledBy(C \cup {t}, f, r)[p]
                                        = f[t].r1 + Gain1(f[t])
           /\ p = f[t].player2 => /\ SettledBy(C, f, r)[p] = r[p]
                                  /\ SettledBy(C \cup {t}, f, r)[p]
                                        = f[t].r2 + Gain2(f[t])
           /\ p # f[t].player1 /\ p # f[t].player2 =>
                 SettledBy(C \cup {t}, f, r)[p] = SettledBy(C, f, r)[p]
<1> DEFINE D == C \cup {t}
<1>1. Own(C, f)
  BY DEF Own
<1>2. p = f[t].player1 \/ p = f[t].player2 => ~ PartyIn(C, f, p)
  BY DEF Own, PartyIn
<1>3. p = f[t].player1 => SettledBy(D, f, r)[p] = f[t].r1 + Gain1(f[t])
  <2> HIDE DEF D
  <2>1. t \in D /\ Own(D, f)
    BY DEF D
  <2> QED
    BY <2>1, SettledAt
<1>4. p = f[t].player2 => SettledBy(D, f, r)[p] = f[t].r2 + Gain2(f[t])
  <2> HIDE DEF D
  <2>1. t \in D /\ Own(D, f)
    BY DEF D
  <2> QED
    BY <2>1, SettledAt
<1>5. p = f[t].player1 \/ p = f[t].player2 => SettledBy(C, f, r)[p] = r[p]
  BY <1>1, <1>2, SettledAt
<1>6. ASSUME p # f[t].player1, p # f[t].player2
      PROVE  SettledBy(D, f, r)[p] = SettledBy(C, f, r)[p]
  <2>1. CASE PartyIn(C, f, p)
    <3>1. PICK u \in C : f[u].player1 = p \/ f[u].player2 = p
      BY <2>1 DEF PartyIn
    <3>2. u \in D
      OBVIOUS
    <3> HIDE DEF D
    <3>3. Own(D, f)
      BY DEF D
    <3>4. CASE f[u].player1 = p
      BY <1>1, <3>2, <3>3, <3>4, SettledAt
    <3>5. CASE f[u].player2 = p
      BY <1>1, <3>2, <3>3, <3>5, SettledAt
    <3> QED
      BY <3>1, <3>4, <3>5
  <2>2. CASE ~ PartyIn(C, f, p)
    <3>1. ~ PartyIn(D, f, p)
      BY <1>6, <2>2 DEF PartyIn
    <3> HIDE DEF D
    <3>2. Own(D, f)
      BY DEF D
    <3> QED
      BY <1>1, <2>2, <3>1, <3>2, SettledAt
  <2> QED
    BY <2>1, <2>2
<1> QED
  BY <1>3, <1>4, <1>5, <1>6

(***************************************************************************)
(* Every step is, once settled, a result, a race or nothing.               *)
(***************************************************************************)
LEMMA SettledNext == Settled' = SettledBy(Computed', frame', rating')
  BY DEF Settled, SettledBy

LEMMA StepAbstract ==
    RatingInv /\ TypeOK' /\ Undisturbed /\ [Next]_vars
        => [Abstract!Next]_<<Settled, raced>>
<1> SUFFICES ASSUME RatingInv, TypeOK', Undisturbed, [Next]_vars
             PROVE  [Abstract!Next]_<<Settled, raced>>
  OBVIOUS
<1>1. CASE raced'
  BY <1>1, SettledIntNext DEF Abstract!Next, Abstract!Race
<1>2. CASE ~ raced'
  <2>1. ~ raced
    BY <1>2 DEF Next, Proceed, Post, ReadSecond, LockFirst, LockSecond, Lock,
                WriteFirst, WriteSecond, vars
  <2>2. OwnParties /\ ReadsCurrent /\ TypeOK /\ PartiesKnown
    BY <2>1 DEF Undisturbed, RatingInv
  <2>3. raced' = raced
    BY <1>2, <2>1, <2>2 DEF TypeOK
  <2>4. Own(Computed, frame)
    BY <2>2 DEF OwnParties, Own, Computed, Active
  <2>5. ASSUME Computed' = Computed,
               \A t \in Computed : frame'[t] = frame[t],
               \A p \in Players : ~ PartyIn(Computed, frame, p) => rating'[p] = rating[p]
        PROVE  Settled' = Settled
    <3>1. SettledBy(Computed, frame', rating') = SettledBy(Computed, frame, rating)
      BY <2>4, <2>5, SettledSame
    <3> QED
      BY <2>5, <3>1, SettledIsBy, SettledNext
  <2>6. CASE UNCHANGED vars
    BY <2>5, <2>6 DEF vars, Computed
  <2>7. ASSUME NEW t \in Threads, Post(t) PROVE Settled' = Settled
    <3>1. PICK x : frame' = [frame EXCEPT ![t] = x]
      BY <2>7 DEF Post
    <3>2. pc' = [pc EXCEPT ![t] = "read2"] /\ pc[t] = "idle" /\ rating' = rating
      BY <2>7 DEF Post, Goto, At
    <3>3. Computed' = Computed /\ t \notin Computed
      BY <3>2, <2>2 DEF Computed, TypeOK
    <3>4. \A u \in Computed : frame'[u] = frame[u]
      BY <3>1, <3>3, <2>2 DEF Computed, TypeOK
    <3> QED
      BY <2>5, <3>2, <3>3, <3>4
  <2>8. ASSUME NEW t \in Threads, LockFirst(t) \/ LockSecond(t)
        PROVE  Settled' = Settled
    <3>1. /\ \/ pc[t] = "lock1" /\ pc' = [pc EXCEPT ![t] = "write1"]
             \/ pc[t] = "lock2" /\ pc' = [pc EXCEPT ![t] = "write2"]
          /\ rating' = rating /\ frame' = frame
      BY <2>8 DEF LockFirst, LockSecond, Lock, At, Goto
    <3>2. Computed' = Computed
      BY <3>1, <2>2 DEF Computed, TypeOK
    <3> QED
      BY <2>5, <3>1, <3>2
  <2>9. ASSUME NEW t \in Threads, WriteFirst(t) PROVE Settled' = Settled
    <3>1. /\ rating' = [rating EXCEPT ![frame[t].player1] =
                           frame[t].r1 + Gain1(frame[t])]
          /\ frame' = frame
          /\ pc[t] = "write1" /\ pc' = [pc EXCEPT ![t] = "lock2"]
      BY <2>9 DEF WriteFirst, At, Goto, Rate
    <3>2. Computed' = Computed /\ t \in Computed
      BY <3>1, <2>2 DEF Computed, TypeOK
    <3>3. ASSUME NEW p \in Players, ~ PartyIn(Computed, frame, p)
          PROVE  rating'[p] = rating[p]
      BY <3>1, <3>2, <3>3, <2>2 DEF PartyIn, TypeOK
    <3> QED
      BY <2>5, <3>1, <3>2, <3>3
  <2>10. ASSUME NEW t \in Threads, WriteSecond(t) PROVE Settled' = Settled
    <3> DEFINE C == Computed \ {t}
    <3>1. /\ rating' = [rating EXCEPT ![frame[t].player2] =
                           frame[t].r2 + Gain2(frame[t])]
          /\ frame' = [frame EXCEPT ![t] = Idle]
          /\ pc[t] = "write2" /\ pc' = [pc EXCEPT ![t] = "idle"]
      BY <2>10 DEF WriteSecond, At, Goto, Rate
    <3>2. Computed' = C /\ t \in Computed /\ t \in Active /\ Computed \subseteq Threads
      BY <3>1, <2>2 DEF Computed, Active, TypeOK
    <3>3. Computed = C \cup {t} /\ t \notin C
      BY <3>2
    <3>4. /\ rating[frame[t].player1] = frame[t].r1 + Gain1(frame[t])
          /\ frame[t].player1 # frame[t].player2
          /\ frame[t].player1 \in Players /\ frame[t].player2 \in Players
      BY <3>1, <3>2, <2>2 DEF ReadsCurrent, OwnParties, PartiesKnown
    <3>5. \A u \in C : frame'[u] = frame[u]
      BY <3>1, <3>2, <2>2 DEF TypeOK
    <3> HIDE DEF C
    <3>6. Own(C \cup {t}, frame) /\ Own(C, frame)
      BY <2>4, <3>3 DEF Own
    <3>7. SettledBy(C, frame', rating') = SettledBy(C, frame, rating')
      BY <3>5, <3>6, SettledSame
    <3> DEFINE p1 == frame[t].player1
               p2 == frame[t].player2
    <3>a. ASSUME NEW r, NEW p \in Players
          PROVE  /\ p = p1 => SettledBy(C, frame, r)[p] = r[p]
                 /\ p = p2 => SettledBy(C, frame, r)[p] = r[p]
                 /\ p = p1 => SettledBy(Computed, frame, r)[p]
                                = frame[t].r1 + Gain1(frame[t])
                 /\ p = p2 => SettledBy(Computed, frame, r)[p]
                                = frame[t].r2 + Gain2(frame[t])
                 /\ p # p1 /\ p # p2 =>
                       SettledBy(Computed, frame, r)[p] = SettledBy(C, frame, r)[p]
      BY <3>3, <3>6, SettledMore
    <3>8. ASSUME NEW p \in Players
          PROVE  SettledBy(C, frame, rating')[p] = SettledBy(Computed, frame, rating)[p]
      <4>1. CASE p = frame[t].player1
        <5>1. SettledBy(C, frame, rating')[p] = rating'[p]
          BY <4>1, <3>a
        <5>2. SettledBy(Computed, frame, rating)[p] = frame[t].r1 + Gain1(frame[t])
          BY <4>1, <3>a
        <5>3. rating'[p] = rating[p]
          BY <4>1, <3>1, <3>4, <2>2 DEF TypeOK
        <5> QED
          BY <4>1, <5>1, <5>2, <5>3, <3>4
      <4>2. CASE p = frame[t].player2
        <5>1. SettledBy(C, frame, rating')[p] = rating'[p]
          BY <4>2, <3>a
        <5>2. SettledBy(Computed, frame, rating)[p] = frame[t].r2 + Gain2(frame[t])
          BY <4>2, <3>a
        <5>3. rating'[p] = frame[t].r2 + Gain2(frame[t])
          BY <4>2, <3>1, <3>4, <2>2 DEF TypeOK
        <5> QED
          BY <5>1, <5>2, <5>3
      <4>3. CASE p # frame[t].player1 /\ p # frame[t].player2
        <5>1. SettledBy(Computed, frame, rating)[p] = SettledBy(C, frame, rating)[p]
          BY <4>3, <3>a
        <5>2. rating'[p] = rating[p]
          BY <4>3, <3>1, <2>2 DEF TypeOK
        <5>3. SettledBy(C, frame, rating')[p] = SettledBy(C, frame, rating)[p]
          BY <5>2 DEF SettledBy
        <5> QED
          BY <5>1, <5>3
      <4> QED
        BY <4>1, <4>2, <4>3
    <3>9. SettledBy(C, frame, rating') = SettledBy(Computed, frame, rating)
      BY <3>8 DEF SettledBy
    <3> QED
      BY <3>2, <3>7, <3>9, SettledIsBy, SettledNext
  <2>11. ASSUME NEW t \in Threads, ReadSecond(t)
         PROVE  Abstract!Post(frame[t].player1, frame[t].player2, frame[t].result)
    <3> DEFINE g == frame'[t]
    <3>1. /\ frame' = [frame EXCEPT ![t].r2 = rating[frame[t].player2]]
          /\ pc' = [pc EXCEPT ![t] = "lock1"] /\ pc[t] = "read2"
          /\ rating' = rating /\ frame[t] \in Frames
      BY <2>11, <2>2 DEF ReadSecond, Goto, At, TypeOK
    <3>2. /\ Computed' = Computed \cup {t} /\ t \notin Computed
          /\ t \in Active
      BY <3>1, <2>2 DEF Computed, Active, TypeOK
    <3>3. /\ g.player1 = frame[t].player1 /\ g.player2 = frame[t].player2
          /\ g.result = frame[t].result /\ g.r1 = frame[t].r1
          /\ g.r2 = rating[frame[t].player2]
      BY <3>1, <2>2 DEF TypeOK, Frames
    <3>4. \A u \in Computed : frame'[u] = frame[u]
      BY <3>1, <3>2, <2>2 DEF TypeOK, Computed
    <3>5. /\ g \in Frames
          /\ g.player1 \in Players /\ g.player2 \in Players
          /\ g.player1 # g.player2
          /\ rating[g.player1] = g.r1 /\ rating[g.player2] = g.r2
      <4>1. g \in Frames
        BY DEF TypeOK
      <4>2. frame[t].player1 \in Players /\ frame[t].player2 \in Players
        BY <3>1, <2>2 DEF PartiesKnown
      <4>3. /\ frame[t].player1 # frame[t].player2
            /\ rating[frame[t].player1] = frame[t].r1
        BY <3>1, <3>2, <2>2 DEF OwnParties, ReadsCurrent
      <4> QED
        BY <4>1, <4>2, <4>3, <3>3
    <3>6. Own(Computed \cup {t}, frame)
      BY <3>2, <2>2 DEF OwnParties, Own, Computed, Active
    <3>7. Own(Computed \cup {t}, frame')
      BY <3>2, <3>3, <3>4, <3>6 DEF Own
    <3>8. Settled = SettledBy(Computed, frame', rating)
      BY <2>4, <3>4, SettledSame, SettledIsBy
    <3>9. Settled' = SettledBy(Computed \cup {t}, frame', rating)
      BY <3>1, <3>2, SettledNext
    <3>10. Settled \in [Players -> Int] /\ Settled' \in [Players -> Int]
      BY <2>2, SettledInt, SettledIntNext
    <3>11. ASSUME NEW p \in Players
           PROVE  /\ p = g.player1 => /\ Settled[p] = rating[p]
                                      /\ Settled'[p] = g.r1 + Gain1(g)
                  /\ p = g.player2 => /\ Settled[p] = rating[p]
                                      /\ Settled'[p] = g.r2 + Gain2(g)
                  /\ p # g.player1 /\ p # g.player2 => Settled'[p] = Settled[p]
      BY <3>2, <3>7, <3>8, <3>9, SettledMore
    <3> HIDE DEF g
    <3>12. Settled[g.player1] = g.r1 /\ Settled[g.player2] = g.r2
      BY <3>5, <3>11
    <3>13. Settled' = [Settled EXCEPT ![g.player1] = g.r1 + Gain1(g),
                                      ![g.player2] = g.r2 + Gain2(g)]
      BY <3>5, <3>10, <3>11
    <3>14. Abstract!Post(g.player1, g.player2, g.result)
      BY <1>2, <2>1, <3>5, <3>10, <3>12, <3>13, CallIsPost
    <3> QED
      BY <3>3, <3>14
  <2>12. ASSUME NEW t \in Threads, ReadSecond(t) PROVE Abstract!Next
    <3>1. /\ frame[t].player1 \in Players /\ frame[t].player2 \in Players
          /\ frame[t].result \in Abstract!Results
      BY <2>12, <2>2 DEF ReadSecond, At, PartiesKnown, TypeOK, Frames, Results,
                         Abstract!Results
    <3> QED
      BY <2>11, <2>12, <3>1 DEF Abstract!Next
  <2> QED
    BY <2>3, <2>6, <2>7, <2>8, <2>9, <2>10, <2>12 DEF Next, Proceed
<1> QED
  BY <1>1, <1>2

(***************************************************************************)
(* player_post_result implements AbstractRating: results that are not      *)
(* posted at once for a player are transfers of points, made at once,      *)
(* whose size fits the result and the ratings.                             *)
(***************************************************************************)
THEOREM RatingImplementsAbstractRating == Spec => ImplementsAbstractRating
<1>1. Init => Abstract!Init
  <2> SUFFICES ASSUME Init PROVE Abstract!Init
    OBVIOUS
  <2>1. Settled \in [Players -> Int]
    BY InitRating, SettledInt DEF RatingInv
  <2> QED
    BY <2>1 DEF Init, Abstract!Init
<1>2. RatingInv => TypeOK
  BY DEF RatingInv
<1>3. Spec => []Undisturbed
  BY InitUndisturbed, StepUndisturbed, RatingInvariant, PTL DEF Spec
<1> QED
  BY <1>1, <1>2, <1>3, RatingInvariant, StepAbstract, PTL
     DEF Spec, ImplementsAbstractRating, Abstract!Spec
=============================================================================
