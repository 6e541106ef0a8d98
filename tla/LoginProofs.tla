----------------------------- MODULE LoginProofs -----------------------------
EXTENDS Login, LeastElement, FiniteSetTheorems, SequenceTheorems, TLAPS

(***************************************************************************)
(* Proofs about Login, for any number of connections, slots and names.     *)
(*                                                                         *)
(* LoginInv is the inductive invariant.  Its parts lean on each other:     *)
(*                                                                         *)
(*   - a name keeps to one PLAYER because the registry fills from its      *)
(*     first slot (Packed) and the slot that a scan found is still the     *)
(*     right one when it is taken (FramesFit), which in turn needs the     *)
(*     semaphore that is held from scan to return (PregSound);             *)
(*   - a count covers the pointers to its PLAYER because what a client or  *)
(*     a thread points to is in the registry (PointersUsed), so that no    *)
(*     step resets its count;                                              *)
(*   - the count of a CLIENT covers its uses because a thread that gives   *)
(*     up its slot has but one (TableFits) and a thread that has found it  *)
(*     counts while its own does not (ClientsCounted).                     *)
(*                                                                         *)
(* The lemmas come in the order: first members and scans; what a step      *)
(* leaves alone; one lemma per part of LoginInv; then the theorems, with   *)
(* an invariant of their own where LoginInv does not imply the property.   *)
(* The last is about who waits for whom: WaitInv.                          *)
(***************************************************************************)

(***************************************************************************)
(* What a thread knows at a step: the locals that the step uses.           *)
(***************************************************************************)
Fits(c) ==
    /\ pc[c] \in {"register", "take"} => frame[c].name \in Names
    /\ pc[c] = "take" => frame[c].slot = SlotFor(frame[c].name)
    /\ pc[c] \in {"loginRead", "inviteRead"} => frame[c].slot \in Slots
    /\ pc[c] \in {"loginRef", "inviteRef", "peer", "target"} =>
           frame[c].peer \in Conns
    /\ pc[c] \in {"set", "loginRead", "loginRef"} =>
           player[c] # NoPlayer /\ playerRef[c] = NoPlayer
    /\ pc[c] = "logout" => playerRef[c] # NoPlayer

FramesFit == \A c \in Conns : Fits(c)

\* The semaphore of the player registry is held between scan and return.
PregSound == \A c \in Conns : pc[c] = "take" <=> preg = c

\* The player registry fills up from its first slot.
Packed == \A s, t \in PLAYERs : s < t /\ Used(t) => Used(s)

\* A PLAYER that a client or a service thread points to is in the registry.
PointersUsed ==
    \A c \in Conns : /\ player[c] # NoPlayer => Used(player[c])
                     /\ playerRef[c] # NoPlayer => Used(playerRef[c])

Live(c) == pc[c] \notin {"none", "gone"}

Listed(c) == \E i \in Slots : clients[i] = c

\* A client is in the table at most once, and only while its thread runs.
TableFits ==
    /\ \A i, j \in Slots : clients[i] = clients[j] /\ clients[i] # NoConn => i = j
    /\ \A i \in Slots : clients[i] # NoConn => Live(clients[i])

\* How many of Conns point to s.
Pointers(f, s) == Cardinality({c \in Conns : f[c] = s})

\* The client that creg_lookup has returned to a thread, while it is used.
PeerOf == [c \in Conns |-> IF pc[c] \in {"peer", "target"} THEN frame[c].peer ELSE NoConn]

\* The count of a client covers those that use it, its thread and invitations;
\* it starts with the thread.
Covered(c) == ref[c] >= Pointers(PeerOf, c) + (IF Live(c) THEN 1 ELSE 0)
                                            + (IF c \in named THEN 1 ELSE 0)

ClientsCounted ==
    \A c \in Conns : Covered(c) /\ (pc[c] = "none" => ref[c] = 0)

LoginInv == /\ TypeOK
            /\ FramesFit
            /\ PregSound
            /\ Packed
            /\ OnePlayerPerName
            /\ PointersUsed
            /\ RefsCoverPointers
            /\ TableFits
            /\ ClientsCounted

-----------------------------------------------------------------------------
\* The first of a finite set of numbers is in the set, and none is smaller.
LEMMA FirstIsLeast ==
    ASSUME NEW S \in SUBSET Int, IsFiniteSet(S), S # {}
    PROVE  First(S) \in S /\ \A k \in S : First(S) <= k
BY LeastExists DEF First

\* The slots of either registry are finitely many numbers.
LEMMA FiniteSlots ==
    /\ Slots \subseteq Nat /\ IsFiniteSet(Slots)
    /\ PLAYERs \subseteq Nat \ {0} /\ IsFiniteSet(PLAYERs)
    /\ Conns \subseteq Nat \ {0} /\ IsFiniteSet(Conns)
BY LoginAssumption, FS_Interval DEF Slots, PLAYERs, Conns

(***************************************************************************)
(* preg_register's scan finds the first slot that has the name or is free. *)
(***************************************************************************)
LEMMA SlotForFinds ==
    ASSUME NEW n
    PROVE  \/ /\ SlotFor(n) = NoSlot
              /\ \A t \in PLAYERs : players[t] \notin {n, NoName}
           \/ /\ SlotFor(n) \in PLAYERs
              /\ players[SlotFor(n)] \in {n, NoName}
              /\ \A t \in PLAYERs : t < SlotFor(n) => players[t] \notin {n, NoName}
<1>1. CASE Matching(n) = {}
  BY <1>1 DEF SlotFor, Matching
<1>2. CASE Matching(n) # {}
  <2>0. PLAYERs \subseteq Int /\ IsFiniteSet(PLAYERs) /\ Matching(n) \subseteq PLAYERs
    BY FiniteSlots DEF Matching
  <2>1. Matching(n) \in SUBSET Int /\ IsFiniteSet(Matching(n))
    BY <2>0, FS_Subset
  <2>2. PICK s : s = First(Matching(n))
    OBVIOUS
  <2>3. s \in Matching(n) /\ \A k \in Matching(n) : s <= k
    BY <1>2, <2>1, <2>2, FirstIsLeast
  <2>4. SlotFor(n) = s
    BY <1>2, <2>2 DEF SlotFor
  <2> QED
    BY <2>3, <2>4, FiniteSlots DEF Matching
<1> QED
  BY <1>1, <1>2

\* The first of some slots of the table is one of them.
LEMMA FirstSlotIn ==
    ASSUME NEW S \in SUBSET Slots, S # {}
    PROVE  First(S) \in S
<1>1. Slots \subseteq Int /\ IsFiniteSet(Slots)
  BY FiniteSlots
<1>2. S \in SUBSET Int
  BY <1>1
<1>3. IsFiniteSet(S)
  BY <1>1, FS_Subset
<1> QED
  BY <1>2, <1>3, FirstIsLeast

-----------------------------------------------------------------------------
(***************************************************************************)
(* What a step of the thread of c leaves alone.                            *)
(***************************************************************************)
Step(c) == \/ Register(c) \/ Login(c) \/ LoginNoPayload(c) \/ Invite(c)
           \/ InviteNoPayload(c)
           \/ Proceed(c) \/ ReadEof(c)

\* A step of the thread of c leaves the locals of every other thread, and the
\* PLAYER of every other client, as they are.
LEMMA OthersStay ==
    ASSUME TypeOK, NEW c \in Conns, Step(c), NEW d \in Conns, d # c
    PROVE  /\ pc'[d] = pc[d] /\ frame'[d] = frame[d]
           /\ player'[d] = player[d] /\ playerRef'[d] = playerRef[d]
           /\ signedIN'[d] = signedIN[d] /\ answers'[d] = answers[d]
           /\ asked'[d] = asked[d] /\ again'[d] = again[d]
<1> USE DEF TypeOK, Goto, Return, Request, Answer, registries, logins, history, asking
<1>1. ASSUME \/ Register(c) \/ Login(c) \/ LoginNoPayload(c) \/ Invite(c)
             \/ InviteNoPayload(c) \/ ReadEof(c)
      PROVE  /\ pc'[d] = pc[d] /\ frame'[d] = frame[d]
             /\ player'[d] = player[d] /\ playerRef'[d] = playerRef[d]
             /\ signedIN'[d] = signedIN[d] /\ answers'[d] = answers[d]
             /\ asked'[d] = asked[d] /\ again'[d] = again[d]
  BY <1>1 DEF Register, Login, LoginNoPayload, Invite, InviteNoPayload, ReadEof
<1>2. ASSUME \/ RegisterScan(c) \/ RegisterTake(c) \/ LoginRefused(c)
             \/ LoginScan(c) \/ LoginSet(c) \/ LoginFound(c)
      PROVE  /\ pc'[d] = pc[d] /\ frame'[d] = frame[d]
             /\ player'[d] = player[d] /\ playerRef'[d] = playerRef[d]
             /\ signedIN'[d] = signedIN[d] /\ answers'[d] = answers[d]
             /\ asked'[d] = asked[d] /\ again'[d] = again[d]
  BY <1>2 DEF RegisterScan, RegisterTake, LoginRefused, LoginScan, LoginSet,
              LoginFound
<1>3. ASSUME \/ InviteScan(c) \/ InviteRef(c) \/ MakeInvitation(c) \/ MakeTarget(c)
             \/ LookupRead(c) \/ LookupFreed(c)
             \/ Logout(c) \/ Unref(c) \/ Unregister(c)
      PROVE  /\ pc'[d] = pc[d] /\ frame'[d] = frame[d]
             /\ player'[d] = player[d] /\ playerRef'[d] = playerRef[d]
             /\ signedIN'[d] = signedIN[d] /\ answers'[d] = answers[d]
             /\ asked'[d] = asked[d] /\ again'[d] = again[d]
  BY <1>3 DEF InviteScan, InviteRef, MakeInvitation, MakeTarget, LookupRead,
              LookupFreed,
              Logout, Unref, Unregister
<1> QED
  BY <1>1, <1>2, <1>3 DEF Step, Proceed

(***************************************************************************)
(* The initial state.                                                      *)
(***************************************************************************)
LEMMA InitInv == Init => LoginInv
<1> SUFFICES ASSUME Init PROVE LoginInv
  OBVIOUS
<1>1. TypeOK
  <2>1. \A c \in Conns : answers[c] \in Seq({"ACK", "NACK"})
    BY DEF Init
  <2>2. frame \in [Conns -> Frames] /\ answers \in [Conns -> Seq({"ACK", "NACK"})]
    BY <2>1 DEF Init, Idle, Frames
  <2>3. requests \in 0 .. MaxRequests
    BY LoginAssumption DEF Init
  <2> QED
    BY <2>2, <2>3 DEF Init, TypeOK, Steps
<1>2. FramesFit /\ PregSound /\ TableFits
  BY FiniteSlots DEF Init, FramesFit, Fits, PregSound, TableFits, NoConn
<1>3. Packed /\ OnePlayerPerName /\ PointersUsed /\ RefsCoverPointers
  BY DEF Init, Packed, OnePlayerPerName, PointersUsed, RefsCoverPointers, Used
<1>4. ClientsCounted
  <2> SUFFICES ASSUME NEW c \in Conns
               PROVE  Covered(c) /\ ref[c] = 0
    BY DEF ClientsCounted
  <2>1. {d \in Conns : PeerOf[d] = c} = {}
    BY FiniteSlots DEF Init, PeerOf, NoConn
  <2>2. Pointers(PeerOf, c) = 0
    BY <2>1, FS_EmptySet DEF Pointers
  <2> QED
    BY <2>2 DEF Init, Live, Covered
<1> QED
  BY <1>1, <1>2, <1>3, <1>4 DEF LoginInv

(***************************************************************************)
(* A count is not negative, and that of a PLAYER or CLIENT which a thread  *)
(* gives up is at least one.                                               *)
(***************************************************************************)
LEMMA PointersType ==
    ASSUME NEW f, NEW s
    PROVE  Pointers(f, s) \in Nat
<1>1. {c \in Conns : f[c] = s} \subseteq Conns /\ IsFiniteSet(Conns)
  BY FiniteSlots
<1>2. IsFiniteSet({c \in Conns : f[c] = s})
  BY <1>1, FS_Subset
<1> QED
  BY <1>2, FS_CardinalityType DEF Pointers

\* A PLAYER of the registry has a reference.
LEMMA UsedIsReferenced ==
    ASSUME LoginInv, NEW s \in PLAYERs, Used(s)
    PROVE  reference[s] \in Nat \ {0}
<1>1. reference[s] >= 1 + Pointers(playerRef, s) + Pointers(player, s)
  BY DEF LoginInv, RefsCoverPointers, Pointers
<1>2. Pointers(playerRef, s) \in Nat /\ Pointers(player, s) \in Nat
  BY PointersType
<1>3. reference[s] \in Nat
  BY DEF LoginInv, TypeOK
<1> QED
  BY <1>1, <1>2, <1>3

\* A client whose thread runs has a reference to give up.
LEMMA LiveIsCounted ==
    ASSUME LoginInv, NEW c \in Conns, Live(c)
    PROVE  ref[c] \in Nat \ {0}
<1>1. ref[c] >= Pointers(PeerOf, c) + 1 + (IF c \in named THEN 1 ELSE 0)
  BY DEF LoginInv, ClientsCounted, Covered
<1>2. Pointers(PeerOf, c) \in Nat /\ ref[c] \in Nat
  BY PointersType DEF LoginInv, TypeOK
<1> QED
  BY <1>1, <1>2

-----------------------------------------------------------------------------
(***************************************************************************)
(* Types.                                                                  *)
(***************************************************************************)
LEMMA TypeStep ==
    ASSUME LoginInv, NEW c \in Conns, Step(c)
    PROVE  TypeOK'
<1> USE DEF TypeOK, Goto, Return, Request, Answer, At, registries, logins, history,
            asking,
            Steps
<1>0. TypeOK /\ Fits(c) /\ c # NoConn
  BY FiniteSlots DEF LoginInv, FramesFit, NoConn
<1>a. /\ Idle \in Frames
      /\ \A f \in Frames :
             /\ \A n \in Names : [f EXCEPT !.name = n] \in Frames
             /\ \A s \in PLAYERs \cup Slots \cup {NoSlot} : [f EXCEPT !.slot = s] \in Frames
             /\ \A d \in Conns \cup {NoConn} : [f EXCEPT !.peer = d] \in Frames
  BY DEF Idle, Frames
<1>1. ASSUME Register(c) PROVE TypeOK'
  <2>1. First(SlotsOf(NoConn)) \in Slots \/ SlotsOf(NoConn) = {}
    BY FirstSlotIn DEF SlotsOf
  <2> QED
    BY <1>0, <1>a, <1>1, <2>1 DEF Register
<1>2. ASSUME Login(c) PROVE TypeOK'
  BY <1>0, <1>a, <1>2, LoginAssumption DEF Login
<1>3. ASSUME LoginNoPayload(c) PROVE TypeOK'
  BY <1>0, <1>a, <1>3 DEF LoginNoPayload
<1>4. ASSUME Invite(c) \/ InviteNoPayload(c) PROVE TypeOK'
  <2>1. ASSUME Invite(c) PROVE TypeOK'
    BY <1>0, <1>a, <2>1, LoginAssumption DEF Invite
  <2>2. ASSUME InviteNoPayload(c) PROVE TypeOK'
    BY <1>0, <2>2 DEF InviteNoPayload
  <2> QED
    BY <1>4, <2>1, <2>2
<1>5. ASSUME RegisterScan(c) PROVE TypeOK'
  <2>1. SlotFor(frame[c].name) \in PLAYERs \cup {NoSlot}
    BY SlotForFinds
  <2> QED
    BY <1>0, <1>a, <1>5, <2>1 DEF RegisterScan
<1>6. ASSUME RegisterTake(c) PROVE TypeOK'
  <2>1. frame[c].slot \in PLAYERs \cup {NoSlot}
    BY <1>0, <1>a, <1>6, SlotForFinds DEF RegisterTake, Fits
  <2>2. \A s \in PLAYERs : Referenced(s) \in Nat
    BY <1>0 DEF Referenced
  <2>3. frame[c].name \in Names
    BY <1>0, <1>6 DEF RegisterTake, Fits
  <2>4. CASE frame[c].slot = NoSlot
    <3>1. /\ player' = [player EXCEPT ![c] = NoPlayer]
          /\ answers' = [answers EXCEPT ![c] = Append(answers[c], "NACK")]
          /\ UNCHANGED <<players, reference>>
      BY <1>6, <2>4 DEF RegisterTake
    <3>2. /\ player' \in [Conns -> PLAYERs \cup {NoPlayer}]
          /\ answers' \in [Conns -> Seq({"ACK", "NACK"})]
      BY <1>0, <3>1
    <3> QED
      BY <1>0, <1>6, <3>1, <3>2 DEF RegisterTake
  <2>5. CASE frame[c].slot \in PLAYERs /\ frame[c].slot # NoSlot
    <3>1. PICK s \in PLAYERs : s = frame[c].slot /\ s # NoSlot
      BY <2>5
    <3>2. /\ players' = [players EXCEPT ![s] = frame[c].name]
          /\ reference' = [reference EXCEPT ![s] = Referenced(s)]
          /\ player' = [player EXCEPT ![c] = s]
      BY <1>6, <3>1 DEF RegisterTake
    <3>3. /\ players' \in [PLAYERs -> Names \cup {NoName}]
          /\ reference' \in [PLAYERs -> Nat]
          /\ player' \in [Conns -> PLAYERs \cup {NoPlayer}]
      BY <1>0, <2>2, <2>3, <3>2
    <3>4. answers' = answers
      BY <1>6, <3>1 DEF RegisterTake
    <3> QED
      BY <1>0, <1>6, <3>3, <3>4 DEF RegisterTake
  <2> QED
    BY <2>1, <2>4, <2>5
<1>7. ASSUME LoginRefused(c) PROVE TypeOK'
  BY <1>0, <1>a, <1>7 DEF LoginRefused
<1>8. ASSUME LoginScan(c) PROVE TypeOK'
  <2>1. PICK S : S = LoggedInAs(frame[c].name)
    OBVIOUS
  <2>2. S = {} \/ First(S) \in Slots
    BY <2>1, FirstSlotIn DEF LoggedInAs
  <2>3. CASE S = {}
    BY <1>0, <1>a, <1>8, <2>1, <2>3 DEF LoginScan
  <2>4. CASE S # {}
    <3>1. First(S) \in Slots
      BY <2>2, <2>4
    <3>2. frame' \in [Conns -> Frames]
      <4>1. frame' = [frame EXCEPT ![c].slot = First(S)]
        BY <1>8, <2>1, <2>4 DEF LoginScan
      <4> QED
        BY <1>0, <1>a, <3>1, <4>1
    <3> QED
      BY <1>0, <1>8, <2>1, <2>4, <3>2 DEF LoginScan
  <2> QED
    BY <2>3, <2>4
<1>9. ASSUME LoginSet(c) PROVE TypeOK'
  BY <1>0, <1>a, <1>9 DEF LoginSet, Fits
<1>10. ASSUME LoginFound(c) PROVE TypeOK'
  BY <1>0, <1>a, <1>10 DEF LoginFound, Counted, Fits
<1>11. ASSUME InviteScan(c) PROVE TypeOK'
  <2>1. PICK S : S = LoggedInAs(frame[c].name)
    OBVIOUS
  <2>2. S = {} \/ First(S) \in Slots
    BY <2>1, FirstSlotIn DEF LoggedInAs
  <2>3. CASE S = {}
    BY <1>0, <1>a, <1>11, <2>1, <2>3 DEF InviteScan
  <2>4. CASE S # {}
    <3>1. First(S) \in Slots
      BY <2>2, <2>4
    <3>2. frame' \in [Conns -> Frames]
      <4>1. frame' = [frame EXCEPT ![c].slot = First(S)]
        BY <1>11, <2>1, <2>4 DEF InviteScan
      <4> QED
        BY <1>0, <1>a, <3>1, <4>1
    <3> QED
      BY <1>0, <1>11, <2>1, <2>4, <3>2 DEF InviteScan
  <2> QED
    BY <2>3, <2>4
<1>12. ASSUME InviteRef(c) PROVE TypeOK'
  BY <1>0, <1>a, <1>12 DEF InviteRef, Counted, Fits
<1>13. ASSUME MakeInvitation(c) \/ MakeTarget(c) PROVE TypeOK'
  <2>1. ASSUME MakeInvitation(c) PROVE TypeOK'
    <3>1. \/ /\ pc' = [pc EXCEPT ![c] = "recv"] /\ frame' = [frame EXCEPT ![c] = Idle]
             /\ ref' = ref /\ named' = named
          \/ /\ pc' = [pc EXCEPT ![c] = "target"] /\ frame' = frame
             /\ ref' = [ref EXCEPT ![c] = ref[c] + 1] /\ named' = named \cup {c}
      BY <2>1, Zenon DEF MakeInvitation
    <3>2. frame' \in [Conns -> Frames]
      BY <1>0, <1>a, <3>1
    <3>3. ref' \in [Conns -> Nat]
      <4>1. ref[c] + 1 \in Nat /\ ref \in [Conns -> Nat]
        BY <1>0
      <4> QED
        BY <3>1, <4>1
    <3>4. pc' \in [Conns -> Steps] /\ named' \subseteq Conns
      BY <1>0, <3>1
    <3>5. UNCHANGED <<clients, players, reference, preg, playerRef, seph, player,
                      signedIN, answers, asked, again, requests, raced, crashed>>
      BY <2>1 DEF MakeInvitation
    <3> QED
      BY <1>0, <3>2, <3>3, <3>4, <3>5
  <2>2. ASSUME MakeTarget(c) PROVE TypeOK'
    BY <1>0, <1>a, <2>2 DEF MakeTarget, Counted, Fits
  <2> QED
    BY <1>13, <2>1, <2>2
<1>14. ASSUME LookupRead(c) PROVE TypeOK'
  <2>1. clients[frame[c].slot] \in Conns \cup {NoConn}
    BY <1>0, <1>a, <1>14 DEF LookupRead, Fits
  <2>2. CASE clients[frame[c].slot] = NoConn
    BY <1>0, <1>14, <2>2 DEF LookupRead
  <2>3. CASE clients[frame[c].slot] # NoConn
    <3>1. PICK d \in Conns : d = clients[frame[c].slot]
      BY <2>1, <2>3
    <3>2. frame' = [frame EXCEPT ![c].peer = d]
      BY <1>14, <2>3, <3>1 DEF LookupRead
    <3>3. frame' \in [Conns -> Frames]
      BY <1>0, <1>a, <3>2
    <3> QED
      BY <1>0, <1>14, <2>3, <3>3 DEF LookupRead
  <2> QED
    BY <2>2, <2>3
<1>15. ASSUME LookupFreed(c) PROVE TypeOK'
  BY <1>0, <1>a, <1>15 DEF LookupFreed
<1>16. ASSUME Logout(c) PROVE TypeOK'
  <2>1. playerRef[c] \in PLAYERs /\ reference[playerRef[c]] \in Nat \ {0}
    BY <1>0, <1>a, <1>16, UsedIsReferenced DEF Logout, Fits, LoginInv, PointersUsed
  <2> QED
    BY <1>0, <1>a, <1>16, <2>1 DEF Logout
<1>17. ASSUME Unref(c) PROVE TypeOK'
  <2>1. player[c] # NoPlayer =>
            player[c] \in PLAYERs /\ reference[player[c]] \in Nat \ {0}
    BY <1>0, <1>a, UsedIsReferenced DEF LoginInv, PointersUsed
  <2> QED
    BY <1>0, <1>a, <1>17, <2>1 DEF Unref
<1>18. ASSUME Unregister(c) PROVE TypeOK'
  <2>1. ref[c] \in Nat \ {0}
    BY <1>18, LiveIsCounted DEF Unregister, Live
  <2>2. First(SlotsOf(c)) \in Slots \/ SlotsOf(c) = {}
    BY FirstSlotIn DEF SlotsOf
  <2>0. answers' \in [Conns -> Seq({"ACK", "NACK"})]
    BY <1>0, <1>18 DEF Unregister
  <2>3. CASE SlotsOf(c) = {}
    BY <1>0, <1>18, <2>0, <2>3 DEF Unregister
  <2>4. CASE SlotsOf(c) # {}
    <3>1. PICK i \in Slots : i = First(SlotsOf(c))
      BY <2>2, <2>4
    <3>2. /\ clients' = [clients EXCEPT ![i] = NoConn]
          /\ ref' = [ref EXCEPT ![c] = ref[c] - 1]
      BY <1>18, <2>4, <3>1 DEF Unregister
    <3>3. clients' \in [Slots -> Conns \cup {NoConn}] /\ ref' \in [Conns -> Nat]
      BY <1>0, <2>1, <3>2
    <3> QED
      BY <1>0, <1>18, <2>0, <3>3 DEF Unregister
  <2> QED
    BY <2>3, <2>4
<1>19. ASSUME ReadEof(c) PROVE TypeOK'
  BY <1>0, <1>a, <1>19 DEF ReadEof
<1> QED
  BY <1>1, <1>2, <1>3, <1>4, <1>5, <1>6, <1>7, <1>8, <1>9, <1>10, <1>11, <1>12,
     <1>13, <1>14, <1>15, <1>16, <1>17, <1>18, <1>19 DEF Step, Proceed

-----------------------------------------------------------------------------
(***************************************************************************)
(* What the threads know stays true.  A thread that has scanned the player *)
(* registry holds its semaphore, so that no other thread adds a PLAYER     *)
(* before it has taken the slot it found.                                  *)
(***************************************************************************)
LEMMA PlayersStay ==
    ASSUME NEW c \in Conns, Step(c), ~ RegisterTake(c)
    PROVE  players' = players
<1> USE DEF registries, logins, history, asking, Request
<1>1. ASSUME \/ Register(c) \/ Login(c) \/ LoginNoPayload(c) \/ Invite(c)
             \/ InviteNoPayload(c) \/ ReadEof(c)
      PROVE  players' = players
  BY <1>1 DEF Register, Login, LoginNoPayload, Invite, InviteNoPayload, ReadEof
<1>2. ASSUME \/ RegisterScan(c) \/ LoginRefused(c) \/ LoginScan(c)
             \/ LoginSet(c) \/ LoginFound(c)
      PROVE  players' = players
  BY <1>2 DEF RegisterScan, LoginRefused, LoginScan, LoginSet, LoginFound
<1>3. ASSUME \/ InviteScan(c) \/ InviteRef(c) \/ MakeInvitation(c) \/ MakeTarget(c)
             \/ LookupRead(c) \/ LookupFreed(c)
             \/ Logout(c) \/ Unref(c) \/ Unregister(c)
      PROVE  players' = players
  BY <1>3 DEF InviteScan, InviteRef, MakeInvitation, MakeTarget, LookupRead,
              LookupFreed,
              Logout, Unref, Unregister
<1> QED
  BY <1>1, <1>2, <1>3 DEF Step, Proceed

\* Every step keeps PregSound.
LEMMA PregStep ==
    ASSUME LoginInv, NEW c \in Conns, Step(c)
    PROVE  PregSound'
<1> USE DEF TypeOK, Goto, Return, Request, At, registries, logins, history, asking
<1>0. TypeOK /\ PregSound /\ NoConn \notin Conns
  BY FiniteSlots DEF LoginInv, NoConn
<1>1. \A d \in Conns : d # c => pc'[d] = pc[d]
  BY <1>0, OthersStay
<1>2. \/ preg' = preg /\ (pc'[c] = "take" <=> pc[c] = "take")
      \/ preg = NoConn /\ preg' = c /\ pc'[c] = "take"
      \/ pc[c] = "take" /\ preg' = NoConn /\ pc'[c] # "take"
  <2>1. ASSUME \/ Register(c) \/ Login(c) \/ LoginNoPayload(c) \/ Invite(c)
               \/ InviteNoPayload(c) \/ ReadEof(c)
        PROVE  preg' = preg /\ (pc'[c] = "take" <=> pc[c] = "take")
    BY <2>1, <1>0 DEF Register, Login, LoginNoPayload, Invite, InviteNoPayload,
                      ReadEof
  <2>2. ASSUME LoginRefused(c) \/ LoginScan(c) \/ LoginSet(c) \/ LoginFound(c)
        PROVE  preg' = preg /\ (pc'[c] = "take" <=> pc[c] = "take")
    BY <2>2, <1>0 DEF LoginRefused, LoginScan, LoginSet, LoginFound
  <2>3. ASSUME \/ InviteScan(c) \/ InviteRef(c) \/ MakeInvitation(c) \/ MakeTarget(c)
               \/ LookupRead(c) \/ LookupFreed(c)
               \/ Logout(c) \/ Unref(c) \/ Unregister(c)
        PROVE  preg' = preg /\ (pc'[c] = "take" <=> pc[c] = "take")
    BY <2>3, <1>0 DEF InviteScan, InviteRef, MakeInvitation, MakeTarget, LookupRead,
                      LookupFreed, Logout, Unref, Unregister
  <2>4. ASSUME RegisterScan(c)
        PROVE  preg = NoConn /\ preg' = c /\ pc'[c] = "take"
    BY <2>4, <1>0 DEF RegisterScan, PregFree
  <2>5. ASSUME RegisterTake(c)
        PROVE  pc[c] = "take" /\ preg' = NoConn /\ pc'[c] # "take"
    BY <2>5, <1>0 DEF RegisterTake
  <2> QED
    BY <2>1, <2>2, <2>3, <2>4, <2>5 DEF Step, Proceed
<1> QED
  BY <1>0, <1>1, <1>2 DEF PregSound

\* Every step keeps FramesFit.
LEMMA FrameStep ==
    ASSUME LoginInv, NEW c \in Conns, Step(c)
    PROVE  FramesFit'
<1>0. TypeOK /\ Fits(c) /\ PregSound
  BY DEF LoginInv, FramesFit
<1>1. ASSUME NEW d \in Conns, d # c
      PROVE  Fits(d)'
  <2>1. /\ pc'[d] = pc[d] /\ frame'[d] = frame[d]
        /\ player'[d] = player[d] /\ playerRef'[d] = playerRef[d]
    BY <1>0, <1>1, OthersStay
  <2>2. pc[d] = "take" => SlotFor(frame[d].name)' = SlotFor(frame[d].name)
    <3> SUFFICES ASSUME pc[d] = "take"
                 PROVE  SlotFor(frame[d].name)' = SlotFor(frame[d].name)
      OBVIOUS
    <3>1. ~ RegisterTake(c)
      BY <1>0, <1>1 DEF PregSound, RegisterTake, At
    <3>2. players' = players
      BY <3>1, PlayersStay
    <3> QED
      BY <2>1, <3>2 DEF SlotFor, Matching
  <2>3. Fits(d)
    BY DEF LoginInv, FramesFit
  <2> QED
    BY <2>1, <2>2, <2>3 DEF Fits
<1>2. Fits(c)'
  <2> USE DEF TypeOK, Goto, Return, Request, At, registries, logins, history, asking
  <2>1. ASSUME \/ Register(c) \/ LoginNoPayload(c) \/ LoginRefused(c)
               \/ RegisterTake(c) \/ LoginSet(c) \/ LoginFound(c)
        PROVE  pc'[c] \in {"recv", "login"}
    BY <2>1, <1>0 DEF Register, LoginNoPayload, LoginRefused, RegisterTake,
                      LoginSet, LoginFound
  <2>2. ASSUME MakeTarget(c) \/ Logout(c) \/ Unref(c) \/ Unregister(c)
        PROVE  pc'[c] \in {"recv", "unref", "unregister", "gone"}
    BY <2>2, <1>0 DEF MakeTarget, Logout, Unref, Unregister
  <2>3. ASSUME pc'[c] \in {"recv", "login", "unref", "unregister", "gone"}
        PROVE  Fits(c)'
    BY <2>3 DEF Fits
  <2>4. ASSUME Login(c) \/ Invite(c) PROVE Fits(c)'
    <3>1. PICK n \in Names : frame' = [frame EXCEPT ![c].name = n]
      BY <2>4 DEF Login, Invite
    <3>2. frame'[c].name \in Names
      BY <1>0, <3>1 DEF Frames
    <3>3. pc'[c] \in {"register", "invite"}
      BY <2>4, <1>0 DEF Login, Invite
    <3> QED
      BY <3>2, <3>3 DEF Fits
  <2>5. ASSUME RegisterScan(c) PROVE Fits(c)'
    <3>1. PICK n \in Names : n = frame[c].name
      BY <2>5, <1>0 DEF RegisterScan, Fits
    <3>2. PICK s : s = SlotFor(n)
      OBVIOUS
    <3>3. frame' = [frame EXCEPT ![c].slot = s] /\ pc'[c] = "take" /\ players' = players
      BY <2>5, <1>0, <3>1, <3>2 DEF RegisterScan
    <3>4. frame'[c].name = n /\ frame'[c].slot = s
      BY <1>0, <3>1, <3>3 DEF Frames
    <3>5. SlotFor(n)' = s
      BY <3>2, <3>3 DEF SlotFor, Matching
    <3>6. SlotFor(frame[c].name)' = SlotFor(n)'
      BY <3>4 DEF SlotFor, Matching
    <3> QED
      BY <3>3, <3>4, <3>5, <3>6 DEF Fits
  <2>6. ASSUME LoginScan(c) PROVE Fits(c)'
    <3>1. PICK S : S = LoggedInAs(frame[c].name)
      OBVIOUS
    <3>2. S = {} \/ First(S) \in Slots
      BY <3>1, FirstSlotIn DEF LoggedInAs
    <3>3. player'[c] # NoPlayer /\ playerRef'[c] = NoPlayer
      BY <2>6 DEF LoginScan, MayLogIn
    <3>4. CASE S = {}
      <4>1. pc'[c] = "set"
        BY <2>6, <1>0, <3>1, <3>4 DEF LoginScan
      <4> QED
        BY <4>1, <3>3 DEF Fits
    <3>5. CASE S # {}
      <4>1. pc'[c] = "loginRead" /\ frame' = [frame EXCEPT ![c].slot = First(S)]
        BY <2>6, <1>0, <3>1, <3>5 DEF LoginScan
      <4>2. frame'[c].slot \in Slots
        BY <1>0, <3>2, <3>5, <4>1 DEF Frames
      <4> QED
        BY <4>1, <4>2, <3>3 DEF Fits
    <3> QED
      BY <3>4, <3>5
  <2>7. ASSUME InviteScan(c) PROVE Fits(c)'
    <3>1. PICK S : S = LoggedInAs(frame[c].name)
      OBVIOUS
    <3>2. S = {} \/ First(S) \in Slots
      BY <3>1, FirstSlotIn DEF LoggedInAs
    <3>3. CASE S = {}
      <4>1. pc'[c] = "recv"
        BY <2>7, <1>0, <3>1, <3>3 DEF InviteScan
      <4> QED
        BY <4>1 DEF Fits
    <3>4. CASE S # {}
      <4>1. pc'[c] = "inviteRead" /\ frame' = [frame EXCEPT ![c].slot = First(S)]
        BY <2>7, <1>0, <3>1, <3>4 DEF InviteScan
      <4>2. frame'[c].slot \in Slots
        BY <1>0, <3>2, <3>4, <4>1 DEF Frames
      <4> QED
        BY <4>1, <4>2 DEF Fits
    <3> QED
      BY <3>3, <3>4
  <2>8. ASSUME LookupRead(c) PROVE Fits(c)'
    <3>1. /\ pc[c] \in {"loginRead", "inviteRead"}
          /\ frame[c].slot \in Slots
          /\ player' = player /\ playerRef' = playerRef
      BY <2>8, <1>0 DEF LookupRead, Fits
    <3>2. CASE clients[frame[c].slot] = NoConn
      <4>1. pc' = pc /\ frame' = frame
        BY <2>8, <3>2 DEF LookupRead
      <4> QED
        BY <1>0, <3>1, <4>1 DEF Fits
    <3>3. CASE clients[frame[c].slot] # NoConn
      <4>1. PICK d \in Conns : d = clients[frame[c].slot]
        BY <1>0, <3>1, <3>3
      <4>2. frame' = [frame EXCEPT ![c].peer = d]
        BY <2>8, <3>3, <4>1 DEF LookupRead
      <4>3. pc'[c] = IF pc[c] = "loginRead" THEN "loginRef" ELSE "inviteRef"
        BY <2>8, <1>0, <3>3 DEF LookupRead
      <4>4. frame'[c].peer = d
        BY <1>0, <4>2 DEF Frames
      <4> QED
        BY <1>0, <3>1, <4>3, <4>4 DEF Fits
    <3> QED
      BY <3>2, <3>3
  <2>9. ASSUME LookupFreed(c) PROVE Fits(c)'
    <3>1. /\ pc' = pc /\ frame' = frame /\ player' = player /\ playerRef' = playerRef
          /\ pc[c] \in {"loginRef", "inviteRef"}
      BY <2>9 DEF LookupFreed
    <3> QED
      BY <1>0, <3>1 DEF Fits
  <2>10. ASSUME InviteRef(c) PROVE Fits(c)'
    <3>1. pc'[c] = "peer" /\ pc[c] = "inviteRef" /\ frame' = frame
      BY <2>10, <1>0 DEF InviteRef
    <3> QED
      BY <1>0, <3>1 DEF Fits
  <2>11. ASSUME ReadEof(c) PROVE Fits(c)'
    <3>1. playerRef' = playerRef
      BY <2>11 DEF ReadEof
    <3>2. \/ pc' = [pc EXCEPT ![c] = "unref"]
          \/ pc' = [pc EXCEPT ![c] = "logout"] /\ playerRef[c] # NoPlayer
      BY <2>11, Zenon DEF ReadEof
    <3> QED
      BY <1>0, <3>1, <3>2 DEF Fits
  <2>12. ASSUME InviteNoPayload(c) PROVE Fits(c)'
    <3>1. pc'[c] = "recv"
      BY <2>12, <1>0 DEF InviteNoPayload
    <3> QED
      BY <3>1 DEF Fits
  <2>13. ASSUME MakeInvitation(c) PROVE Fits(c)'
    <3>1. pc'[c] = "recv" \/ (pc'[c] = "target" /\ pc[c] = "peer" /\ frame' = frame)
      BY <2>13, <1>0 DEF MakeInvitation
    <3> QED
      BY <1>0, <3>1 DEF Fits
  <2> QED
    BY <2>1, <2>2, <2>3, <2>4, <2>5, <2>6, <2>7, <2>8, <2>9, <2>10, <2>11,
       <2>12, <2>13 DEF Step, Proceed
<1> QED
  BY <1>1, <1>2 DEF FramesFit

-----------------------------------------------------------------------------
(***************************************************************************)
(* A step adds at most one PLAYER, in the first slot that has the name or  *)
(* is free, and never changes the name of one that exists.                 *)
(***************************************************************************)
LEMMA PlayersAfter ==
    ASSUME LoginInv, NEW c \in Conns, Step(c)
    PROVE  \/ players' = players
           \/ \E n \in Names, s \in PLAYERs :
                 /\ RegisterTake(c)
                 /\ n = frame[c].name /\ s = frame[c].slot
                 /\ players' = [players EXCEPT ![s] = n]
                 /\ players[s] \in {n, NoName}
                 /\ \A t \in PLAYERs : t < s => players[t] \notin {n, NoName}
<1>1. CASE ~ RegisterTake(c)
  BY <1>1, PlayersStay
<1>2. ASSUME RegisterTake(c), frame[c].slot = NoSlot PROVE players' = players
  BY <1>2 DEF RegisterTake
<1>3. ASSUME RegisterTake(c), frame[c].slot # NoSlot
      PROVE  \E n \in Names, s \in PLAYERs :
                 /\ RegisterTake(c)
                 /\ n = frame[c].name /\ s = frame[c].slot
                 /\ players' = [players EXCEPT ![s] = n]
                 /\ players[s] \in {n, NoName}
                 /\ \A t \in PLAYERs : t < s => players[t] \notin {n, NoName}
  <2>1. Fits(c) /\ pc[c] = "take"
    BY <1>3 DEF LoginInv, FramesFit, RegisterTake, At
  <2>2. PICK n \in Names : n = frame[c].name /\ frame[c].slot = SlotFor(n)
    BY <2>1 DEF Fits
  <2>3. PICK s \in PLAYERs : s = SlotFor(n) /\ s = frame[c].slot
    BY <1>3, <2>2, SlotForFinds
  <2>4. /\ players[s] \in {n, NoName}
        /\ \A t \in PLAYERs : t < s => players[t] \notin {n, NoName}
    BY <2>3, <1>3, <2>2, SlotForFinds
  <2>5. players' = [players EXCEPT ![s] = n]
    BY <1>3, <2>2, <2>3 DEF RegisterTake
  <2> QED
    BY <1>3, <2>2, <2>3, <2>4, <2>5
<1> QED
  BY <1>1, <1>2, <1>3

\* A PLAYER that is in the registry keeps its name.
LEMMA NamesStay ==
    ASSUME LoginInv, NEW c \in Conns, Step(c), NEW p \in PLAYERs, Used(p)
    PROVE  players'[p] = players[p] /\ Used(p)'
<1>1. players \in [PLAYERs -> Names \cup {NoName}]
  BY DEF LoginInv, TypeOK
<1>2. players'[p] = players[p]
  BY <1>1, PlayersAfter DEF Used
<1> QED
  BY <1>2 DEF Used

\* Every step keeps Packed.
LEMMA PackedStep ==
    ASSUME LoginInv, NEW c \in Conns, Step(c)
    PROVE  /\ Packed'
           /\ \A s, t \in PLAYERs :
                 Used(s)' /\ players'[s] = players'[t] => s = t
<1>0. /\ players \in [PLAYERs -> Names \cup {NoName}]
      /\ Packed
      /\ \A s, t \in PLAYERs : Used(s) /\ players[s] = players[t] => s = t
  BY DEF LoginInv, TypeOK, OnePlayerPerName
<1>1. CASE players' = players
  BY <1>0, <1>1 DEF Packed, Used
<1>2. ASSUME NEW n \in Names, NEW s \in PLAYERs,
             players' = [players EXCEPT ![s] = n],
             players[s] \in {n, NoName},
             \A t \in PLAYERs : t < s => players[t] \notin {n, NoName}
      PROVE  /\ Packed'
             /\ \A a, b \in PLAYERs :
                   Used(a)' /\ players'[a] = players'[b] => a = b
  <2>0. n # NoName /\ PLAYERs \subseteq Int
    BY LoginAssumption, FiniteSlots
  <2>1. Packed'
    <3> SUFFICES ASSUME NEW a \in PLAYERs, NEW b \in PLAYERs, a < b, players'[b] # NoName
                 PROVE  players'[a] # NoName
      BY DEF Packed, Used
    <3>1. CASE b = s
      BY <3>1, <1>0, <1>2, <2>0
    <3>2. CASE b # s
      BY <3>2, <1>0, <1>2, <2>0 DEF Packed, Used
    <3> QED
      BY <3>1, <3>2
  <2>2. ASSUME NEW b \in PLAYERs, b # s PROVE players[b] # n
    <3>1. CASE b < s
      BY <1>2, <3>1
    <3>2. CASE s < b
      BY <1>0, <1>2, <2>0, <2>2, <3>2 DEF Packed, Used
    <3> QED
      BY <2>0, <2>2, <3>1, <3>2
  <2>3. ASSUME NEW a \in PLAYERs, NEW b \in PLAYERs,
               Used(a)', players'[a] = players'[b]
        PROVE  a = b
    BY <1>0, <1>2, <2>0, <2>2, <2>3 DEF Used
  <2> QED
    BY <2>1, <2>3
<1> QED
  BY <1>1, <1>2, PlayersAfter

-----------------------------------------------------------------------------
(***************************************************************************)
(* Who registered a name holds the PLAYER of that name, and a PLAYER that  *)
(* is pointed to exists.                                                   *)
(***************************************************************************)
Registered == {"login", "set", "loginRead", "loginRef"}

\* What c points to after a step, it pointed to before, or preg_register has
\* just returned it.
LEMMA PointersAfterStep ==
    ASSUME LoginInv, NEW c \in Conns, Step(c)
    PROVE  /\ \/ player'[c] = player[c]
              \/ player'[c] = NoPlayer
              \/ player'[c] \in PLAYERs /\ players'[player'[c]] # NoName
           /\ \/ playerRef'[c] = playerRef[c]
              \/ playerRef'[c] = NoPlayer
              \/ playerRef'[c] = player[c] /\ player[c] # NoPlayer
           /\ pc'[c] \in Registered /\ player'[c] # NoPlayer =>
                 players'[player'[c]] = frame'[c].name
<1> USE DEF TypeOK, Goto, Return, Request, At, registries, logins, history, asking
<1>0. TypeOK /\ Fits(c) /\ OnePlayerPerName
  BY DEF LoginInv, FramesFit
<1>1. ASSUME \/ Register(c) \/ Login(c) \/ LoginNoPayload(c) \/ Invite(c)
             \/ InviteNoPayload(c) \/ ReadEof(c)
             \/ RegisterScan(c) \/ LoginRefused(c) \/ LoginFound(c)
      PROVE  player' = player /\ playerRef' = playerRef /\ pc'[c] \notin Registered
  <2>1. player' = player /\ playerRef' = playerRef
    BY <1>1 DEF Register, Login, LoginNoPayload, Invite, InviteNoPayload, ReadEof,
                RegisterScan,
                LoginRefused, LoginFound
  <2>2. pc'[c] \notin Registered
    BY <1>1, <1>0 DEF Register, Login, LoginNoPayload, Invite, InviteNoPayload,
                      ReadEof, RegisterScan,
                LoginRefused, LoginFound, Registered
  <2> QED
    BY <2>1, <2>2
<1>2. ASSUME \/ InviteScan(c) \/ InviteRef(c) \/ MakeInvitation(c)
             \/ MakeTarget(c) \/ Unregister(c)
      PROVE  player' = player /\ playerRef' = playerRef /\ pc'[c] \notin Registered
  BY <1>2, <1>0 DEF InviteScan, InviteRef, MakeInvitation, MakeTarget, Unregister,
                    Registered
<1>3. ASSUME LoginScan(c) \/ LookupRead(c) \/ LookupFreed(c)
      PROVE  /\ player' = player /\ playerRef' = playerRef /\ players' = players
             /\ frame'[c].name = frame[c].name
             /\ pc'[c] \in Registered => pc[c] \in Registered
  BY <1>3, <1>0 DEF LoginScan, LookupRead, LookupFreed, Registered, Frames
<1>4. ASSUME RegisterTake(c), frame[c].slot # NoSlot
      PROVE  /\ player'[c] \in PLAYERs /\ playerRef' = playerRef
             /\ players'[player'[c]] # NoName /\ players'[player'[c]] = frame'[c].name
  <2>1. PICK n \in Names : n = frame[c].name /\ frame[c].slot = SlotFor(n)
    BY <1>0, <1>4 DEF RegisterTake, Fits
  <2>2. PICK s \in PLAYERs : s = frame[c].slot /\ s # NoSlot
    BY <1>4, <2>1, SlotForFinds DEF RegisterTake
  <2>3. /\ player' = [player EXCEPT ![c] = s] /\ players' = [players EXCEPT ![s] = n]
        /\ frame' = frame /\ playerRef' = playerRef
    BY <1>4, <2>1, <2>2 DEF RegisterTake
  <2>4. player'[c] = s /\ players'[s] = n /\ n # NoName
    BY <1>0, <2>3, LoginAssumption
  <2> QED
    BY <2>1, <2>3, <2>4 DEF Used
<1>5. ASSUME RegisterTake(c), frame[c].slot = NoSlot
      PROVE  player'[c] = NoPlayer /\ playerRef' = playerRef
  BY <1>0, <1>5 DEF RegisterTake
<1>6. ASSUME LoginSet(c)
      PROVE  /\ player' = player /\ playerRef'[c] = player[c] /\ player[c] # NoPlayer
             /\ pc'[c] \notin Registered
  BY <1>0, <1>6 DEF LoginSet, Fits, Registered
<1>7. ASSUME Logout(c)
      PROVE  /\ player' = player /\ playerRef'[c] = NoPlayer
             /\ pc'[c] \notin Registered
  BY <1>0, <1>7 DEF Logout, Registered
<1>8. ASSUME Unref(c)
      PROVE  /\ player'[c] = NoPlayer /\ playerRef' = playerRef
             /\ pc'[c] \notin Registered
  BY <1>0, <1>8 DEF Unref, Registered
<1> HIDE DEF TypeOK, Goto, Return, Request, At, registries, logins, history, asking
<1>9. ASSUME player' = player, players' = players,
             frame'[c].name = frame[c].name,
             pc'[c] \in Registered => pc[c] \in Registered
      PROVE  pc'[c] \in Registered /\ player'[c] # NoPlayer =>
                 players'[player'[c]] = frame'[c].name
  BY <1>0, <1>9 DEF OnePlayerPerName, Registered
<1> QED
  BY <1>1, <1>2, <1>3, <1>4, <1>5, <1>6, <1>7, <1>8, <1>9 DEF Step, Proceed

\* Every step keeps OnePlayerPerName.
LEMMA OnePlayerStep ==
    ASSUME LoginInv, NEW c \in Conns, Step(c)
    PROVE  OnePlayerPerName' /\ PointersUsed'
<1>0. TypeOK /\ PointersUsed /\ OnePlayerPerName
  BY DEF LoginInv
<1>1. ASSUME NEW d \in Conns
      PROVE  /\ player[d] # NoPlayer => player[d] \in PLAYERs /\ Used(player[d])
             /\ playerRef[d] # NoPlayer => playerRef[d] \in PLAYERs /\ Used(playerRef[d])
  BY <1>0 DEF TypeOK, PointersUsed
<1>2. ASSUME NEW d \in Conns
      PROVE  /\ player'[d] # NoPlayer => players'[player'[d]] # NoName
             /\ playerRef'[d] # NoPlayer => players'[playerRef'[d]] # NoName
  <2>1. ASSUME NEW p \in PLAYERs, Used(p) PROVE players'[p] # NoName
    BY <2>1, NamesStay DEF Used
  <2>2. CASE d = c
    BY <1>1, <2>1, <2>2, PointersAfterStep
  <2>3. CASE d # c
    <3>1. player'[d] = player[d] /\ playerRef'[d] = playerRef[d]
      BY <1>0, <2>3, OthersStay
    <3> QED
      BY <1>1, <2>1, <3>1
  <2> QED
    BY <2>2, <2>3
<1>3. PointersUsed'
  BY <1>2 DEF PointersUsed, Used
<1>4. ASSUME NEW d \in Conns, pc'[d] \in Registered, player'[d] # NoPlayer
      PROVE  players'[player'[d]] = frame'[d].name
  <2>1. CASE d = c
    BY <1>4, <2>1, PointersAfterStep
  <2>2. CASE d # c
    <3>1. pc'[d] = pc[d] /\ frame'[d] = frame[d] /\ player'[d] = player[d]
      BY <1>0, <2>2, OthersStay
    <3>2. players[player[d]] = frame[d].name
      BY <1>0, <1>4, <3>1 DEF OnePlayerPerName, Registered
    <3>3. players'[player[d]] = players[player[d]]
      BY <1>1, <1>4, <3>1, NamesStay
    <3> QED
      BY <3>1, <3>2, <3>3
  <2> QED
    BY <2>1, <2>2
<1>5. \A s, t \in PLAYERs : Used(s)' /\ players'[s] = players'[t] => s = t
  BY PackedStep
<1> QED
  BY <1>3, <1>4, <1>5 DEF OnePlayerPerName, Registered

-----------------------------------------------------------------------------
(***************************************************************************)
(* The pointers to a PLAYER when one of the threads or clients points      *)
(* elsewhere.                                                              *)
(***************************************************************************)
LEMMA PointersChange ==
    ASSUME NEW f, NEW g, NEW s, NEW c \in Conns, \A d \in Conns \ {c} : g[d] = f[d]
    PROVE  /\ Pointers(f, s) \in Nat /\ Pointers(g, s) \in Nat
           /\ f[c] # s /\ g[c] # s => Pointers(g, s) = Pointers(f, s)
           /\ f[c] # s /\ g[c] = s => Pointers(g, s) = Pointers(f, s) + 1
           /\ f[c] = s /\ g[c] # s => Pointers(f, s) = Pointers(g, s) + 1
           /\ f[c] = s /\ g[c] = s => Pointers(g, s) = Pointers(f, s)
<1> DEFINE F == {d \in Conns : f[d] = s}
           G == {d \in Conns : g[d] = s}
<1>1. IsFiniteSet(F) /\ IsFiniteSet(G)
  <2>1. F \subseteq Conns /\ G \subseteq Conns /\ IsFiniteSet(Conns)
    BY FiniteSlots
  <2> QED
    BY <2>1, FS_Subset
<1>2. Cardinality(F) \in Nat /\ Cardinality(G) \in Nat
  BY <1>1, FS_CardinalityType
<1>3. ASSUME f[c] = s, g[c] = s PROVE G = F
  BY <1>3
<1>4. ASSUME f[c] # s, g[c] = s PROVE G = F \cup {c} /\ c \notin F
  BY <1>4
<1>5. ASSUME f[c] = s, g[c] # s PROVE F = G \cup {c} /\ c \notin G
  BY <1>5
<1>6. ASSUME f[c] # s, g[c] # s PROVE G = F
  BY <1>6
<1>7. Pointers(f, s) = Cardinality(F) /\ Pointers(g, s) = Cardinality(G)
  BY DEF Pointers
<1> HIDE DEF F, G
<1>8. ASSUME f[c] # s, g[c] = s PROVE Cardinality(G) = Cardinality(F) + 1
  BY <1>1, <1>4, <1>8, FS_AddElement
<1>9. ASSUME f[c] = s, g[c] # s PROVE Cardinality(F) = Cardinality(G) + 1
  BY <1>1, <1>5, <1>9, FS_AddElement
<1> QED
  BY <1>2, <1>3, <1>6, <1>7, <1>8, <1>9

\* How a step moves the number of the pointers to s: by that of c.
LEMMA PointersStep ==
    ASSUME LoginInv, NEW c \in Conns, Step(c), NEW s
    PROVE  /\ Pointers(player', s) \in Nat /\ Pointers(playerRef', s) \in Nat
           /\ player[c] # s /\ player'[c] # s =>
                  Pointers(player', s) = Pointers(player, s)
           /\ player[c] # s /\ player'[c] = s =>
                  Pointers(player', s) = Pointers(player, s) + 1
           /\ player[c] = s /\ player'[c] # s =>
                  Pointers(player, s) = Pointers(player', s) + 1
           /\ player[c] = s /\ player'[c] = s =>
                  Pointers(player', s) = Pointers(player, s)
           /\ playerRef[c] # s /\ playerRef'[c] # s =>
                  Pointers(playerRef', s) = Pointers(playerRef, s)
           /\ playerRef[c] # s /\ playerRef'[c] = s =>
                  Pointers(playerRef', s) = Pointers(playerRef, s) + 1
           /\ playerRef[c] = s /\ playerRef'[c] # s =>
                  Pointers(playerRef, s) = Pointers(playerRef', s) + 1
<1>1. \A d \in Conns \ {c} : player'[d] = player[d] /\ playerRef'[d] = playerRef[d]
  BY OthersStay DEF LoginInv
<1>2. PICK f, g : f = player /\ g = player'
  OBVIOUS
<1>3. PICK h, k : h = playerRef /\ k = playerRef'
  OBVIOUS
<1>4. (\A d \in Conns \ {c} : g[d] = f[d]) /\ (\A d \in Conns \ {c} : k[d] = h[d])
  BY <1>1, <1>2, <1>3
<1>5. /\ Pointers(g, s) \in Nat
      /\ f[c] # s /\ g[c] # s => Pointers(g, s) = Pointers(f, s)
      /\ f[c] # s /\ g[c] = s => Pointers(g, s) = Pointers(f, s) + 1
      /\ f[c] = s /\ g[c] # s => Pointers(f, s) = Pointers(g, s) + 1
      /\ f[c] = s /\ g[c] = s => Pointers(g, s) = Pointers(f, s)
  BY <1>4, PointersChange
<1>6. /\ Pointers(k, s) \in Nat
      /\ h[c] # s /\ k[c] # s => Pointers(k, s) = Pointers(h, s)
      /\ h[c] # s /\ k[c] = s => Pointers(k, s) = Pointers(h, s) + 1
      /\ h[c] = s /\ k[c] # s => Pointers(h, s) = Pointers(k, s) + 1
  BY <1>4, PointersChange
<1> QED
  BY <1>2, <1>3, <1>5, <1>6

\* Nobody points to a PLAYER that is not in the registry.
LEMMA NoPointers ==
    ASSUME LoginInv, NEW s \in PLAYERs, ~ Used(s)
    PROVE  Pointers(player, s) = 0 /\ Pointers(playerRef, s) = 0
<1>1. s # NoPlayer
  BY FiniteSlots DEF NoPlayer
<1>2. {d \in Conns : player[d] = s} = {} /\ {d \in Conns : playerRef[d] = s} = {}
  BY <1>1 DEF LoginInv, PointersUsed
<1> QED
  BY <1>2, FS_EmptySet DEF Pointers

(***************************************************************************)
(* A step that points to a PLAYER adds a reference, and one that drops a   *)
(* reference points to it no longer.                                       *)
(***************************************************************************)
LEMMA RefsStep ==
    ASSUME LoginInv, NEW c \in Conns, Step(c)
    PROVE  RefsCoverPointers'
<1> DEFINE Sound(s) == reference[s] >= 1 + Pointers(playerRef, s) + Pointers(player, s)
           SoundNext(s) == reference'[s] >= 1 + Pointers(playerRef', s) + Pointers(player', s)
<1>0. TypeOK /\ Fits(c) /\ PointersUsed
  BY DEF LoginInv, FramesFit
<1>1. ASSUME NEW s \in PLAYERs, Used(s) PROVE Sound(s)
  BY <1>1 DEF LoginInv, RefsCoverPointers, Pointers
<1>2. SUFFICES ASSUME NEW s \in PLAYERs, players'[s] # NoName PROVE SoundNext(s)
  BY DEF RefsCoverPointers, Pointers, Used
<1>3. /\ player \in [Conns -> PLAYERs \cup {NoPlayer}]
      /\ playerRef \in [Conns -> PLAYERs \cup {NoPlayer}]
      /\ reference \in [PLAYERs -> Nat]
      /\ players \in [PLAYERs -> Names \cup {NoName}]
      /\ s # NoPlayer /\ reference[s] \in Nat
      /\ Pointers(player, s) \in Nat /\ Pointers(playerRef, s) \in Nat
  BY <1>0, FiniteSlots, PointersType DEF TypeOK, NoPlayer
<1>4. ASSUME player' = player, playerRef' = playerRef, reference' = reference,
             players' = players
      PROVE  SoundNext(s)
  BY <1>1, <1>2, <1>4 DEF Used
<1>5. ASSUME RegisterTake(c), frame[c].slot = NoSlot PROVE SoundNext(s)
  <2>1. /\ player' = [player EXCEPT ![c] = NoPlayer]
        /\ playerRef' = playerRef /\ reference' = reference /\ players' = players
    BY <1>5 DEF RegisterTake, logins
  <2>2. Sound(s)
    BY <1>1, <1>2, <2>1 DEF Used
  <2>3. Pointers(player', s) \in Nat /\ Pointers(player', s) <= Pointers(player, s)
    <3>1. player'[c] = NoPlayer
      BY <1>3, <2>1
    <3>2. \/ Pointers(player', s) = Pointers(player, s)
          \/ Pointers(player, s) = Pointers(player', s) + 1
      BY <1>3, <3>1, PointersStep
    <3> QED
      BY <1>3, <3>2, PointersStep
  <2> QED
    BY <1>3, <2>1, <2>2, <2>3
<1>6. ASSUME RegisterTake(c), frame[c].slot # NoSlot PROVE SoundNext(s)
  <2>1. PICK n \in Names : n = frame[c].name /\ frame[c].slot = SlotFor(n)
    BY <1>0, <1>6 DEF RegisterTake, Fits, At
  <2>2. PICK t \in PLAYERs : t = frame[c].slot /\ t # NoSlot
    BY <1>6, <2>1, SlotForFinds
  <2>3. /\ player' = [player EXCEPT ![c] = t] /\ players' = [players EXCEPT ![t] = n]
        /\ reference' = [reference EXCEPT ![t] = Referenced(t)]
        /\ playerRef' = playerRef
    BY <1>6, <2>1, <2>2 DEF RegisterTake, logins
  <2>4. /\ Pointers(player', s) \in Nat
        /\ s # t => Pointers(player', s) <= Pointers(player, s)
        /\ Pointers(player', s) <= Pointers(player, s) + 1
    <3>1. player'[c] = t
      BY <1>3, <2>3
    <3>2. \/ Pointers(player', s) = Pointers(player, s)
          \/ Pointers(player, s) = Pointers(player', s) + 1
          \/ s = t /\ Pointers(player', s) = Pointers(player, s) + 1
      BY <3>1, PointersStep
    <3> QED
      BY <1>3, <3>2, PointersStep
  <2>5. CASE s # t
    <3>1. reference'[s] = reference[s] /\ Used(s)
      BY <1>2, <1>3, <2>3, <2>5 DEF Used
    <3> QED
      BY <1>1, <1>3, <2>3, <2>4, <2>5, <3>1
  <2>6. CASE s = t /\ Used(s)
    <3>1. reference'[s] = reference[s] + 1
      BY <1>3, <2>3, <2>6 DEF Referenced, Used
    <3> QED
      BY <1>1, <1>3, <2>3, <2>4, <2>6, <3>1
  <2>7. CASE s = t /\ ~ Used(s)
    <3>1. reference'[s] = 2
      BY <1>3, <2>3, <2>7 DEF Referenced, Used
    <3>2. Pointers(player, s) = 0 /\ Pointers(playerRef, s) = 0
      BY <2>7, NoPointers
    <3> QED
      BY <2>3, <2>4, <3>1, <3>2
  <2> QED
    BY <2>5, <2>6, <2>7
<1>7. ASSUME LoginSet(c) PROVE SoundNext(s)
  <2>1. PICK p \in PLAYERs : p = player[c] /\ playerRef[c] = NoPlayer
    BY <1>0, <1>3, <1>7 DEF LoginSet, Fits, At
  <2>2. /\ playerRef' = [playerRef EXCEPT ![c] = p]
        /\ reference' = [reference EXCEPT ![p] = reference[p] + 1]
        /\ player' = player /\ players' = players
    BY <1>7, <2>1 DEF LoginSet
  <2>3. Sound(s)
    BY <1>1, <1>2, <2>2 DEF Used
  <2>4. CASE p = s
    <3>1. Pointers(playerRef', s) = Pointers(playerRef, s) + 1
      BY <1>3, <2>1, <2>2, <2>4, PointersStep
    <3> QED
      BY <1>3, <2>2, <2>3, <2>4, <3>1
  <2>5. CASE p # s
    <3>1. Pointers(playerRef', s) = Pointers(playerRef, s)
      BY <1>3, <2>1, <2>2, <2>5, PointersStep
    <3> QED
      BY <1>3, <2>2, <2>3, <2>5, <3>1
  <2> QED
    BY <2>4, <2>5
<1>8. ASSUME Logout(c) PROVE SoundNext(s)
  <2>1. PICK p \in PLAYERs : p = playerRef[c]
    BY <1>0, <1>3, <1>8 DEF Logout, Fits, At
  <2>2. /\ playerRef' = [playerRef EXCEPT ![c] = NoPlayer]
        /\ reference' = [reference EXCEPT ![p] = reference[p] - 1]
        /\ player' = player /\ players' = players
    BY <1>8, <2>1 DEF Logout
  <2>3. Sound(s)
    BY <1>1, <1>2, <2>2 DEF Used
  <2>4. CASE p = s
    <3>1. Pointers(playerRef, s) = Pointers(playerRef', s) + 1
          /\ Pointers(playerRef', s) \in Nat
      BY <1>3, <2>1, <2>2, <2>4, PointersStep
    <3> QED
      BY <1>3, <2>2, <2>3, <2>4, <3>1
  <2>5. CASE p # s
    <3>1. Pointers(playerRef', s) = Pointers(playerRef, s)
      BY <1>3, <2>1, <2>2, <2>5, PointersStep
    <3> QED
      BY <1>3, <2>2, <2>3, <2>5, <3>1
  <2> QED
    BY <2>4, <2>5
<1>9. ASSUME Unref(c), player[c] # NoPlayer PROVE SoundNext(s)
  <2>1. PICK p \in PLAYERs : p = player[c]
    BY <1>3, <1>9
  <2>2. /\ player' = [player EXCEPT ![c] = NoPlayer]
        /\ reference' = [reference EXCEPT ![p] = reference[p] - 1]
        /\ playerRef' = playerRef /\ players' = players
    BY <1>9, <2>1 DEF Unref, logins
  <2>3. Sound(s)
    BY <1>1, <1>2, <2>2 DEF Used
  <2>4. CASE p = s
    <3>1. Pointers(player, s) = Pointers(player', s) + 1
          /\ Pointers(player', s) \in Nat
      BY <1>3, <2>1, <2>2, <2>4, PointersStep
    <3> QED
      BY <1>3, <2>2, <2>3, <2>4, <3>1
  <2>5. CASE p # s
    <3>1. Pointers(player', s) = Pointers(player, s)
      BY <1>3, <2>1, <2>2, <2>5, PointersStep
    <3> QED
      BY <1>3, <2>2, <2>3, <2>5, <3>1
  <2> QED
    BY <2>4, <2>5
<1>10. ASSUME Unref(c), player[c] = NoPlayer
       PROVE  /\ player' = player /\ playerRef' = playerRef
              /\ reference' = reference /\ players' = players
  BY <1>3, <1>10 DEF Unref, logins
<1>11. ASSUME \/ Register(c) \/ Login(c) \/ LoginNoPayload(c) \/ Invite(c)
              \/ InviteNoPayload(c) \/ ReadEof(c)
              \/ RegisterScan(c) \/ LoginRefused(c) \/ LoginScan(c) \/ LoginFound(c)
       PROVE  /\ player' = player /\ playerRef' = playerRef
              /\ reference' = reference /\ players' = players
  BY <1>11 DEF Register, Login, LoginNoPayload, Invite, InviteNoPayload, ReadEof,
               RegisterScan,
               LoginRefused, LoginScan, LoginFound, registries, logins
<1>12. ASSUME \/ InviteScan(c) \/ InviteRef(c) \/ MakeInvitation(c) \/ MakeTarget(c)
              \/ LookupRead(c) \/ LookupFreed(c) \/ Unregister(c)
       PROVE  /\ player' = player /\ playerRef' = playerRef
              /\ reference' = reference /\ players' = players
  BY <1>12 DEF InviteScan, InviteRef, MakeInvitation, MakeTarget, LookupRead,
               LookupFreed,
               Unregister, registries, logins
<1> QED
  BY <1>4, <1>5, <1>6, <1>7, <1>8, <1>9, <1>10, <1>11, <1>12 DEF Step, Proceed

-----------------------------------------------------------------------------
(***************************************************************************)
(* The table: a client enters it when its thread starts and leaves it when *)
(* the thread ends.                                                        *)
(***************************************************************************)
LEMMA TableStep ==
    ASSUME LoginInv, NEW c \in Conns, Step(c)
    PROVE  TableFits'
<1> USE DEF Goto, Return, Request, At, registries, logins, history, asking
<1>0. TypeOK /\ TableFits /\ NoConn \notin Conns
  BY FiniteSlots DEF LoginInv, NoConn
<1>1. \A d \in Conns : d # c => pc'[d] = pc[d]
  BY <1>0, OthersStay
<1>2. pc \in [Conns -> Steps] /\ clients \in [Slots -> Conns \cup {NoConn}]
  BY <1>0 DEF TypeOK
<1>3. ASSUME clients' = clients, pc'[c] \notin {"none", "gone"}
      PROVE  TableFits'
  BY <1>0, <1>1, <1>2, <1>3 DEF TableFits, Live
<1>4. ASSUME Register(c) PROVE TableFits'
  <2>1. pc[c] = "none" /\ pc'[c] = "recv"
    BY <1>2, <1>4 DEF Register
  <2>2. \A i \in Slots : clients[i] # c
    BY <1>0, <2>1 DEF TableFits, Live
  <2>3. CASE SlotsOf(NoConn) = {}
    BY <1>3, <1>4, <2>1, <2>3 DEF Register
  <2>4. CASE SlotsOf(NoConn) # {}
    <3>1. PICK i \in Slots : i = First(SlotsOf(NoConn))
      BY <2>4, FirstSlotIn DEF SlotsOf
    <3>2. clients' = [clients EXCEPT ![i] = c]
      BY <1>4, <2>4, <3>1 DEF Register
    <3> QED
      BY <1>0, <1>1, <1>2, <2>1, <2>2, <3>2 DEF TableFits, Live
  <2> QED
    BY <2>3, <2>4
<1>5. ASSUME Unregister(c) PROVE TableFits'
  <2>1. CASE SlotsOf(c) = {}
    <3>1. clients' = clients
      BY <1>5, <2>1 DEF Unregister
    <3> QED
      BY <1>0, <1>1, <1>2, <2>1, <3>1 DEF TableFits, Live, SlotsOf
  <2>2. CASE SlotsOf(c) # {}
    <3>1. PICK i \in Slots : i = First(SlotsOf(c)) /\ clients[i] = c
      BY <2>2, FirstSlotIn DEF SlotsOf
    <3>2. clients' = [clients EXCEPT ![i] = NoConn]
      BY <1>5, <2>2, <3>1 DEF Unregister
    <3>3. \A j \in Slots : clients'[j] # c
      BY <1>0, <1>2, <3>1, <3>2 DEF TableFits
    <3> QED
      BY <1>0, <1>1, <1>2, <3>2, <3>3 DEF TableFits, Live
  <2> QED
    BY <2>1, <2>2
<1>6. ASSUME \/ Login(c) \/ LoginNoPayload(c) \/ Invite(c) \/ InviteNoPayload(c)
             \/ ReadEof(c)
             \/ RegisterScan(c) \/ RegisterTake(c)
      PROVE  clients' = clients /\ pc'[c] \notin {"none", "gone"}
  BY <1>2, <1>6 DEF Login, LoginNoPayload, Invite, InviteNoPayload, ReadEof,
                    RegisterScan, RegisterTake
<1>7. ASSUME LoginRefused(c) \/ LoginScan(c) \/ LoginSet(c) \/ LoginFound(c)
      PROVE  clients' = clients /\ pc'[c] \notin {"none", "gone"}
  BY <1>2, <1>7 DEF LoginRefused, LoginScan, LoginSet, LoginFound
<1>8. ASSUME \/ InviteScan(c) \/ InviteRef(c) \/ MakeInvitation(c)
             \/ MakeTarget(c) \/ Logout(c) \/ Unref(c)
      PROVE  clients' = clients /\ pc'[c] \notin {"none", "gone"}
  BY <1>2, <1>8 DEF InviteScan, InviteRef, MakeInvitation, MakeTarget, Logout, Unref
<1>9. ASSUME LookupRead(c) \/ LookupFreed(c)
      PROVE  clients' = clients /\ pc'[c] \notin {"none", "gone"}
  BY <1>2, <1>9 DEF LookupRead, LookupFreed
<1> QED
  BY <1>3, <1>4, <1>5, <1>6, <1>7, <1>8, <1>9 DEF Step, Proceed

-----------------------------------------------------------------------------
(***************************************************************************)
(* The counts of clients.  A step of c changes those of c and of the       *)
(* client c looks at only, and the use of the latter only.                 *)
(***************************************************************************)
LEMMA UsesStep ==
    ASSUME LoginInv, NEW c \in Conns, Step(c), NEW s
    PROVE  /\ Pointers(PeerOf', s) \in Nat
           /\ PeerOf[c] # s /\ PeerOf'[c] # s =>
                  Pointers(PeerOf', s) = Pointers(PeerOf, s)
           /\ PeerOf[c] # s /\ PeerOf'[c] = s =>
                  Pointers(PeerOf', s) = Pointers(PeerOf, s) + 1
           /\ PeerOf[c] = s /\ PeerOf'[c] # s =>
                  Pointers(PeerOf, s) = Pointers(PeerOf', s) + 1
           /\ PeerOf[c] = s /\ PeerOf'[c] = s =>
                  Pointers(PeerOf', s) = Pointers(PeerOf, s)
<1>1. \A d \in Conns \ {c} : pc'[d] = pc[d] /\ frame'[d] = frame[d]
  BY OthersStay DEF LoginInv
<1>2. \A d \in Conns \ {c} : PeerOf'[d] = PeerOf[d]
  BY <1>1 DEF PeerOf
<1>3. PICK f, g : f = PeerOf /\ g = PeerOf'
  OBVIOUS
<1>4. \A d \in Conns \ {c} : g[d] = f[d]
  BY <1>2, <1>3
<1>5. /\ Pointers(g, s) \in Nat
      /\ f[c] # s /\ g[c] # s => Pointers(g, s) = Pointers(f, s)
      /\ f[c] # s /\ g[c] = s => Pointers(g, s) = Pointers(f, s) + 1
      /\ f[c] = s /\ g[c] # s => Pointers(f, s) = Pointers(g, s) + 1
      /\ f[c] = s /\ g[c] = s => Pointers(g, s) = Pointers(f, s)
  BY <1>4, PointersChange
<1> QED
  BY <1>3, <1>5

\* Every step keeps ClientsCounted.
LEMMA ClientsStep ==
    ASSUME LoginInv, NEW c \in Conns, Step(c)
    PROVE  ClientsCounted'
<1> USE DEF Goto, Return, Request, At, registries, logins, history, asking
<1>0. TypeOK /\ Fits(c) /\ NoConn \notin Conns
  BY FiniteSlots DEF LoginInv, FramesFit, NoConn
<1>1. pc \in [Conns -> Steps] /\ ref \in [Conns -> Nat] /\ frame \in [Conns -> Frames]
  BY <1>0 DEF TypeOK
<1>2. SUFFICES ASSUME NEW d \in Conns
               PROVE  Covered(d)' /\ (pc'[d] = "none" => ref'[d] = 0)
  BY DEF ClientsCounted
<1>3. /\ Covered(d) /\ (pc[d] = "none" => ref[d] = 0)
      /\ ref[d] \in Nat /\ Pointers(PeerOf, d) \in Nat /\ Pointers(PeerOf', d) \in Nat
  BY <1>1, PointersType DEF LoginInv, ClientsCounted
<1>4. d # c => pc'[d] = pc[d]
  BY <1>0, OthersStay
<1>5. /\ PeerOf[c] = IF pc[c] \in {"peer", "target"} THEN frame[c].peer ELSE NoConn
      /\ PeerOf'[c] = IF pc'[c] \in {"peer", "target"} THEN frame'[c].peer ELSE NoConn
  BY DEF PeerOf
<1>6. ASSUME ref' = ref, named' = named, Live(c), Live(c)', PeerOf'[c] = PeerOf[c]
      PROVE  Covered(d)' /\ (pc'[d] = "none" => ref'[d] = 0)
  <2>1. Pointers(PeerOf', d) = Pointers(PeerOf, d)
    BY <1>6, UsesStep
  <2>2. Live(d) <=> Live(d)'
    BY <1>4, <1>6 DEF Live
  <2>3. pc'[d] = "none" => pc[d] = "none"
    BY <1>4, <1>6 DEF Live
  <2> QED
    BY <1>3, <1>6, <2>1, <2>2, <2>3 DEF Covered
<1>7. ASSUME \/ Login(c) \/ LoginNoPayload(c) \/ Invite(c) \/ InviteNoPayload(c)
             \/ ReadEof(c)
             \/ RegisterScan(c) \/ RegisterTake(c)
      PROVE  ref' = ref /\ named' = named /\ Live(c) /\ Live(c)' /\ PeerOf'[c] = PeerOf[c]
  BY <1>1, <1>5, <1>7 DEF Login, LoginNoPayload, Invite, InviteNoPayload, ReadEof,
                          RegisterScan,
                          RegisterTake, Live
<1>8. ASSUME LoginRefused(c) \/ LoginScan(c) \/ LoginSet(c) \/ InviteScan(c)
      PROVE  ref' = ref /\ named' = named /\ Live(c) /\ Live(c)' /\ PeerOf'[c] = PeerOf[c]
  BY <1>1, <1>5, <1>8 DEF LoginRefused, LoginScan, LoginSet, InviteScan, Live
<1>9. ASSUME LookupRead(c) \/ LookupFreed(c) \/ Logout(c) \/ Unref(c)
      PROVE  ref' = ref /\ named' = named /\ Live(c) /\ Live(c)' /\ PeerOf'[c] = PeerOf[c]
  BY <1>1, <1>5, <1>9 DEF LookupRead, LookupFreed, Logout, Unref, Live
<1>10. ASSUME Register(c)
       PROVE  Covered(d)' /\ (pc'[d] = "none" => ref'[d] = 0)
  <2>1. /\ pc[c] = "none" /\ pc'[c] = "recv" /\ named' = named
        /\ ref' = [ref EXCEPT ![c] = 1]
    BY <1>1, <1>10 DEF Register
  <2>2. PeerOf[c] = NoConn /\ PeerOf'[c] = NoConn
    BY <1>5, <2>1
  <2>3. Pointers(PeerOf', d) = Pointers(PeerOf, d)
    BY <1>0, <2>2, UsesStep
  <2>4. CASE d = c
    BY <1>1, <1>3, <2>1, <2>3, <2>4 DEF Covered, Live
  <2>5. CASE d # c
    BY <1>1, <1>3, <1>4, <2>1, <2>3, <2>5 DEF Covered, Live
  <2> QED
    BY <2>4, <2>5
<1>11. ASSUME LoginFound(c) \/ InviteRef(c)
       PROVE  Covered(d)' /\ (pc'[d] = "none" => ref'[d] = 0)
  <2>1. PICK e \in Conns : e = frame[c].peer
    BY <1>0, <1>11 DEF LoginFound, InviteRef, Fits
  <2>2. /\ ref[e] > 0 /\ ref' = [ref EXCEPT ![e] = ref[e] + 1] /\ named' = named
        /\ Live(c) /\ Live(c)' /\ pc[c] \notin {"peer", "target"}
    BY <1>1, <1>11, <2>1 DEF LoginFound, InviteRef, Counted, Live
  <2>3. PeerOf[c] = NoConn /\ PeerOf'[c] \in {NoConn, e}
    <3>1. \/ pc'[c] = "peer" /\ frame' = frame
          \/ pc'[c] = "recv"
      BY <1>1, <1>11 DEF InviteRef, LoginFound
    <3> QED
      BY <1>5, <2>1, <2>2, <3>1
  <2>4. Live(d) <=> Live(d)'
    BY <1>4, <2>2 DEF Live
  <2>5. pc'[d] = "none" => pc[d] = "none" /\ d # c
    BY <1>4, <2>2 DEF Live
  <2>6. CASE d = e
    <3>1. \/ Pointers(PeerOf', d) = Pointers(PeerOf, d)
          \/ Pointers(PeerOf', d) = Pointers(PeerOf, d) + 1
      BY <1>0, <2>3, UsesStep
    <3> QED
      BY <1>1, <1>3, <2>2, <2>4, <2>5, <2>6, <3>1 DEF Covered
  <2>7. CASE d # e
    <3>1. Pointers(PeerOf', d) = Pointers(PeerOf, d)
      BY <1>0, <2>3, <2>7, UsesStep
    <3> QED
      BY <1>1, <1>3, <2>2, <2>4, <2>5, <2>7, <3>1 DEF Covered
  <2> QED
    BY <2>6, <2>7
<1>12. ASSUME MakeInvitation(c)
       PROVE  Covered(d)' /\ (pc'[d] = "none" => ref'[d] = 0)
  <2>1. PICK e \in Conns : e = frame[c].peer
    BY <1>0, <1>12 DEF MakeInvitation, Fits
  <2>2. /\ pc[c] = "peer" /\ pc'[c] \in {"recv", "target"}
        /\ \/ e = c /\ ref' = ref /\ named' = named /\ pc'[c] = "recv"
           \/ /\ e # c /\ ref' = [ref EXCEPT ![c] = ref[c] + 1]
              /\ named' = named \cup {c} /\ pc'[c] = "target" /\ frame' = frame
    BY <1>1, <1>12, <2>1 DEF MakeInvitation
  <2>3. PeerOf[c] = e /\ PeerOf'[c] \in {NoConn, e}
    BY <1>5, <2>1, <2>2
  <2>4. Live(d) <=> Live(d)'
    BY <1>4, <2>2 DEF Live
  <2>5. Pointers(PeerOf', d) <= Pointers(PeerOf, d)
    <3>1. d # e => Pointers(PeerOf', d) = Pointers(PeerOf, d)
      BY <1>0, <2>3, UsesStep
    <3>2. d = e => \/ Pointers(PeerOf', d) = Pointers(PeerOf, d)
                   \/ Pointers(PeerOf, d) = Pointers(PeerOf', d) + 1
      BY <1>0, <2>3, UsesStep
    <3> QED
      BY <1>3, <3>1, <3>2
  <2>6. pc'[d] = "none" => pc[d] = "none" /\ d # c
    BY <1>4, <2>2
  <2>7. CASE d = c
    BY <1>1, <1>3, <2>2, <2>4, <2>5, <2>6, <2>7 DEF Covered
  <2>8. CASE d # c
    BY <1>1, <1>3, <2>2, <2>4, <2>5, <2>6, <2>8 DEF Covered
  <2> QED
    BY <2>7, <2>8
<1>14. ASSUME MakeTarget(c)
       PROVE  Covered(d)' /\ (pc'[d] = "none" => ref'[d] = 0)
  <2>1. PICK e \in Conns : e = frame[c].peer
    BY <1>0, <1>14 DEF MakeTarget, Fits
  <2>2. /\ pc[c] = "target" /\ pc'[c] = "recv"
        /\ ref' = [ref EXCEPT ![e] = ref[e] + 1] /\ named' = named \cup {e}
    BY <1>1, <1>14, <2>1 DEF MakeTarget, Counted
  <2>3. PeerOf[c] = e /\ PeerOf'[c] = NoConn
    BY <1>5, <2>1, <2>2
  <2>4. Live(d) <=> Live(d)'
    BY <1>4, <2>2 DEF Live
  <2>5. /\ d = e => Pointers(PeerOf, d) = Pointers(PeerOf', d) + 1
        /\ d # e => Pointers(PeerOf', d) = Pointers(PeerOf, d)
    BY <1>0, <2>3, UsesStep
  <2>6. pc'[d] = "none" => pc[d] = "none"
    BY <1>4, <2>2
  <2>7. CASE d = e
    <3>1. ref[d] >= 1
      BY <1>3, <2>5, <2>7 DEF Covered
    <3> QED
      BY <1>1, <1>3, <2>2, <2>4, <2>5, <2>6, <2>7, <3>1 DEF Covered
  <2>8. CASE d # e
    BY <1>1, <1>3, <2>2, <2>4, <2>5, <2>6, <2>8 DEF Covered
  <2> QED
    BY <2>7, <2>8
<1>13. ASSUME Unregister(c)
       PROVE  Covered(d)' /\ (pc'[d] = "none" => ref'[d] = 0)
  <2>1. /\ pc[c] = "unregister" /\ pc'[c] = "gone" /\ named' = named
        /\ ref' = ref \/ ref' = [ref EXCEPT ![c] = ref[c] - 1]
    BY <1>1, <1>13 DEF Unregister
  <2>2. PeerOf[c] = NoConn /\ PeerOf'[c] = NoConn
    BY <1>5, <2>1
  <2>3. Pointers(PeerOf', d) = Pointers(PeerOf, d)
    BY <1>0, <2>2, UsesStep
  <2>4. CASE d = c
    BY <1>1, <1>3, <2>1, <2>3, <2>4 DEF Covered, Live
  <2>5. CASE d # c
    BY <1>1, <1>3, <1>4, <2>1, <2>3, <2>5 DEF Covered, Live
  <2> QED
    BY <2>4, <2>5
<1> QED
  BY <1>6, <1>7, <1>8, <1>9, <1>10, <1>11, <1>12, <1>13, <1>14 DEF Step, Proceed

-----------------------------------------------------------------------------
(***************************************************************************)
(* LoginInv is inductive.                                                  *)
(***************************************************************************)
THEOREM LoginInvariant == Spec => []LoginInv
<1>1. LoginInv /\ [Next]_vars => LoginInv'
  <2> SUFFICES ASSUME LoginInv, [Next]_vars
               PROVE  LoginInv'
    OBVIOUS
  <2>1. ASSUME NEW c \in Conns, Step(c) PROVE LoginInv'
    <3>1. TypeOK' /\ FramesFit' /\ PregSound'
      BY <2>1, TypeStep, FrameStep, PregStep
    <3>2. Packed' /\ OnePlayerPerName' /\ PointersUsed'
      BY <2>1, PackedStep, OnePlayerStep
    <3>3. RefsCoverPointers' /\ TableFits' /\ ClientsCounted'
      BY <2>1, RefsStep, TableStep, ClientsStep
    <3> QED
      BY <3>1, <3>2, <3>3 DEF LoginInv
  <2>2. CASE UNCHANGED vars
    <3> USE <2>2 DEF vars
    <3>1. TypeOK'
      BY DEF LoginInv, TypeOK
    <3>2. FramesFit' /\ PregSound'
      BY DEF LoginInv, FramesFit, Fits, SlotFor, Matching, PregSound
    <3>3. Packed' /\ OnePlayerPerName' /\ PointersUsed'
      BY DEF LoginInv, Packed, OnePlayerPerName, PointersUsed, Used
    <3>4. RefsCoverPointers' /\ TableFits'
      BY DEF LoginInv, RefsCoverPointers, TableFits, Used, Live
    <3>5. ClientsCounted'
      BY DEF LoginInv, ClientsCounted, Covered, Live, Pointers, PeerOf
    <3> QED
      BY <3>1, <3>2, <3>3, <3>4, <3>5 DEF LoginInv
  <2> QED
    BY <2>1, <2>2 DEF Next, Step
<1> QED
  BY <1>1, InitInv, PTL DEF Spec

(***************************************************************************)
(* Login is type correct, for any number of connections, slots and names.  *)
(***************************************************************************)
THEOREM LoginTypeCorrect == Spec => []TypeOK
<1>1. LoginInv => TypeOK
  BY DEF LoginInv
<1> QED
  BY <1>1, LoginInvariant, PTL

(***************************************************************************)
(* A name never gets a second PLAYER, and who has registered a name holds  *)
(* the PLAYER of that name.                                                *)
(***************************************************************************)
THEOREM NamesHaveOnePlayer == Spec => []OnePlayerPerName
<1>1. LoginInv => OnePlayerPerName
  BY DEF LoginInv
<1> QED
  BY <1>1, LoginInvariant, PTL

(***************************************************************************)
(* No PLAYER is freed while something points to it.                        *)
(***************************************************************************)
THEOREM PlayersStayReferenced == Spec => []RefsCoverPointers
<1>1. LoginInv => RefsCoverPointers
  BY DEF LoginInv
<1> QED
  BY <1>1, LoginInvariant, PTL

(***************************************************************************)
(* No CLIENT is freed while its thread, the table, an invitation or a      *)
(* thread that has looked it up points to it.                              *)
(***************************************************************************)
THEOREM ClientsStayReferenced == Spec => []ClientsKept
<1>1. ASSUME LoginInv PROVE ClientsKept
  <2> SUFFICES ASSUME NEW c \in Conns
               PROVE  LET uses == Cardinality({d \in Conns : /\ pc[d] \in {"peer", "target"}
                                                           /\ frame[d].peer = c})
                      IN  /\ c \in named \/ SlotsOf(c) # {} => ref[c] > uses
                          /\ pc[c] \notin {"none", "gone"} => ref[c] > uses
                          /\ ref[c] >= uses
    BY DEF ClientsKept
  <2>1. c # NoConn
    BY FiniteSlots DEF NoConn
  <2>2. {d \in Conns : PeerOf[d] = c} =
            {d \in Conns : pc[d] \in {"peer", "target"} /\ frame[d].peer = c}
    BY <2>1 DEF PeerOf
  <2>3. PICK uses : uses = Pointers(PeerOf, c)
    OBVIOUS
  <2>4. uses = Cardinality({d \in Conns : pc[d] \in {"peer", "target"}
                                          /\ frame[d].peer = c})
    BY <2>2, <2>3 DEF Pointers
  <2>5. uses \in Nat /\ ref[c] \in Nat
    BY <1>1, <2>3, PointersType DEF LoginInv, TypeOK
  <2>6. ref[c] >= uses + (IF Live(c) THEN 1 ELSE 0) + (IF c \in named THEN 1 ELSE 0)
    BY <1>1, <2>3 DEF LoginInv, ClientsCounted, Covered
  <2>7. SlotsOf(c) # {} => Live(c)
    BY <1>1, <2>1 DEF LoginInv, TableFits, SlotsOf
  <2>8. /\ c \in named \/ SlotsOf(c) # {} => ref[c] > uses
        /\ pc[c] \notin {"none", "gone"} => ref[c] > uses
        /\ ref[c] >= uses
    BY <2>5, <2>6, <2>7 DEF Live
  <2> QED
    BY <2>4, <2>8
<1> QED
  BY <1>1, LoginInvariant, PTL

\* A step of LoginIsForGood.
LoginStays == \A c \in Conns :
                  playerRef[c] # NoPlayer /\ pc[c] # "logout" => playerRef'[c] = playerRef[c]

(***************************************************************************)
(* A client that is logged in stays logged in as the same PLAYER until its *)
(* connection ends, whatever LOGINs it repeats.                            *)
(***************************************************************************)
THEOREM LoginsAreForGood == Spec => LoginIsForGood
<1>1. ASSUME LoginInv, [Next]_vars PROVE [LoginStays]_vars
  <2>1. ASSUME NEW c \in Conns, Step(c) PROVE LoginStays
    <3> SUFFICES ASSUME NEW d \in Conns, playerRef[d] # NoPlayer, pc[d] # "logout"
                 PROVE  playerRef'[d] = playerRef[d]
      BY DEF LoginStays
    <3>1. CASE d # c
      BY <1>1, <2>1, <3>1, OthersStay DEF LoginInv
    <3>2. ASSUME d = c, Logout(c) \/ LoginSet(c) PROVE FALSE
      <4>1. Fits(c) /\ pc[c] \in {"logout", "set"}
        BY <1>1, <3>2 DEF LoginInv, FramesFit, Logout, LoginSet, At
      <4> QED
        BY <3>2, <4>1 DEF Fits
    <3>3. ASSUME ~ Logout(c), ~ LoginSet(c) PROVE playerRef' = playerRef
      <4> USE DEF registries, logins, history, asking, Request
      <4>1. ASSUME \/ Register(c) \/ Login(c) \/ LoginNoPayload(c) \/ Invite(c)
                   \/ InviteNoPayload(c)
                   \/ ReadEof(c) \/ RegisterScan(c) \/ RegisterTake(c)
            PROVE  playerRef' = playerRef
        BY <4>1 DEF Register, Login, LoginNoPayload, Invite, InviteNoPayload, ReadEof,
                    RegisterScan, RegisterTake
      <4>2. ASSUME \/ LoginRefused(c) \/ LoginScan(c) \/ LoginFound(c)
                   \/ InviteScan(c) \/ InviteRef(c) \/ MakeInvitation(c)
                   \/ MakeTarget(c)
            PROVE  playerRef' = playerRef
        BY <4>2 DEF LoginRefused, LoginScan, LoginFound, InviteScan, InviteRef,
                    MakeInvitation, MakeTarget
      <4>3. ASSUME LookupRead(c) \/ LookupFreed(c) \/ Unref(c) \/ Unregister(c)
            PROVE  playerRef' = playerRef
        BY <4>3 DEF LookupRead, LookupFreed, Unref, Unregister
      <4> QED
        BY <2>1, <3>3, <4>1, <4>2, <4>3 DEF Step, Proceed
    <3> QED
      BY <3>1, <3>2, <3>3
  <2> QED
    BY <1>1, <2>1 DEF Next, Step
<1>2. LoginInv /\ [Next]_vars => [LoginStays]_vars
  BY <1>1
<1>3. Spec => [][LoginStays]_vars
  BY <1>2, LoginInvariant, PTL DEF Spec
<1> QED
  BY <1>3 DEF LoginIsForGood, LoginStays

-----------------------------------------------------------------------------
(***************************************************************************)
(* Two clients of the table share a PLAYER by a race only.  Without one,   *)
(* no two threads are about to log in as one PLAYER, and none is about to  *)
(* log in as the PLAYER of another client of the table.                    *)
(***************************************************************************)
Unshared ==
    ~ raced =>
        /\ \A c, d \in Conns : pc[c] = "set" /\ Listed(d) /\ d # c => playerRef[d] # player[c]
        /\ \A c, d \in Conns : pc[c] = "set" /\ pc[d] = "set" /\ d # c => player[d] # player[c]
        /\ \A c, d \in Conns : Listed(c) /\ Listed(d) /\ d # c /\ playerRef[c] # NoPlayer
                                   => playerRef[d] # playerRef[c]

NewLoggedOut == \A c \in Conns : pc[c] = "none" => playerRef[c] = NoPlayer

SharedInv == Unshared /\ NewLoggedOut

\* How a step can bear on SharedInv: who gets a PLAYER, a slot, or comes to
\* "set".
LEMMA SharedEffect ==
    ASSUME LoginInv, NewLoggedOut, NEW c \in Conns, Step(c)
    PROVE  /\ raced => raced'
           /\ pc'[c] # "none"
           /\ pc'[c] = "set" => LoginScan(c)
           /\ playerRef'[c] # playerRef[c] => playerRef'[c] = NoPlayer \/ LoginSet(c)
           /\ \A d \in Conns : Listed(d)' =>
                  Listed(d) \/ (d = c /\ pc[c] = "none" /\ playerRef'[c] = NoPlayer)
<1> USE DEF Goto, Return, Request, At, registries, logins, history, asking
<1>0. /\ pc \in [Conns -> Steps] /\ playerRef \in [Conns -> PLAYERs \cup {NoPlayer}]
      /\ clients \in [Slots -> Conns \cup {NoConn}] /\ NoConn \notin Conns
  BY FiniteSlots DEF LoginInv, TypeOK, NoConn
<1>1. clients' = clients => \A d \in Conns : Listed(d)' => Listed(d)
  BY DEF Listed
<1>2. ASSUME Register(c)
      PROVE  /\ raced' = raced /\ pc[c] = "none" /\ pc'[c] = "recv"
             /\ playerRef' = playerRef /\ playerRef[c] = NoPlayer
             /\ \A d \in Conns : Listed(d)' => Listed(d) \/ d = c
  <2>1. /\ raced' = raced /\ pc[c] = "none" /\ pc'[c] = "recv"
        /\ playerRef' = playerRef /\ playerRef[c] = NoPlayer
    BY <1>0, <1>2 DEF Register, NewLoggedOut
  <2>2. \/ clients' = clients
        \/ \E i \in Slots : clients' = [clients EXCEPT ![i] = c]
    BY <1>2, FirstSlotIn DEF Register, SlotsOf
  <2> QED
    BY <1>0, <2>1, <2>2 DEF Listed
<1>3. ASSUME Unregister(c)
      PROVE  /\ raced' = raced /\ pc'[c] = "gone" /\ playerRef' = playerRef
             /\ \A d \in Conns : Listed(d)' => Listed(d)
  <2>1. raced' = raced /\ pc'[c] = "gone" /\ playerRef' = playerRef
    BY <1>0, <1>3 DEF Unregister
  <2>2. \/ clients' = clients
        \/ \E i \in Slots : clients' = [clients EXCEPT ![i] = NoConn]
    BY <1>3, FirstSlotIn DEF Unregister, SlotsOf
  <2> QED
    BY <1>0, <2>1, <2>2 DEF Listed
<1>4. ASSUME \/ Login(c) \/ LoginNoPayload(c) \/ Invite(c) \/ InviteNoPayload(c)
             \/ ReadEof(c)
             \/ RegisterScan(c) \/ RegisterTake(c)
      PROVE  /\ raced' = raced /\ clients' = clients /\ playerRef' = playerRef
             /\ pc'[c] \notin {"none", "set"}
  <2>1. raced' = raced /\ clients' = clients /\ playerRef' = playerRef
    BY <1>4 DEF Login, LoginNoPayload, Invite, InviteNoPayload, ReadEof,
                RegisterScan, RegisterTake
  <2>2. pc'[c] \notin {"none", "set"}
    BY <1>0, <1>4 DEF Login, LoginNoPayload, Invite, InviteNoPayload, ReadEof,
                      RegisterScan, RegisterTake
  <2> QED
    BY <2>1, <2>2
<1>5. ASSUME LoginRefused(c) \/ LoginFound(c) \/ LookupRead(c) \/ LookupFreed(c)
      PROVE  /\ raced' = raced /\ clients' = clients /\ playerRef' = playerRef
             /\ pc'[c] \notin {"none", "set"}
  BY <1>0, <1>5 DEF LoginRefused, LoginFound, LookupRead, LookupFreed
<1>6. ASSUME \/ InviteScan(c) \/ InviteRef(c) \/ MakeInvitation(c)
             \/ MakeTarget(c) \/ Unref(c)
      PROVE  /\ raced' = raced /\ clients' = clients /\ playerRef' = playerRef
             /\ pc'[c] \notin {"none", "set"}
  BY <1>0, <1>6 DEF InviteScan, InviteRef, MakeInvitation, MakeTarget, Unref
<1>7. ASSUME LoginScan(c)
      PROVE  /\ raced => raced'
             /\ clients' = clients /\ playerRef' = playerRef
             /\ pc'[c] # "none"
  <2>1. clients' = clients /\ playerRef' = playerRef /\ pc'[c] # "none"
    BY <1>0, <1>7 DEF LoginScan
  <2>2. raced => raced'
    BY <1>7, Zenon DEF LoginScan
  <2> QED
    BY <2>1, <2>2
<1>8. ASSUME LoginSet(c) \/ Logout(c)
      PROVE  /\ raced' = raced /\ clients' = clients /\ pc'[c] \notin {"none", "set"}
             /\ LoginSet(c) \/ playerRef'[c] = NoPlayer
  BY <1>0, <1>8 DEF LoginSet, Logout
<1>9. \/ Register(c) \/ Unregister(c) \/ LoginScan(c) \/ LoginSet(c) \/ Logout(c)
      \/ Login(c) \/ LoginNoPayload(c) \/ Invite(c) \/ InviteNoPayload(c)
      \/ ReadEof(c)
      \/ RegisterScan(c) \/ RegisterTake(c)
      \/ LoginRefused(c) \/ LoginFound(c) \/ LookupRead(c) \/ LookupFreed(c)
      \/ InviteScan(c) \/ InviteRef(c) \/ MakeInvitation(c) \/ MakeTarget(c)
      \/ Unref(c)
  BY DEF Step, Proceed
<1> HIDE DEF Goto, Return, Request, At, registries, logins, history, asking
<1>10. raced => raced'
  BY <1>2, <1>3, <1>4, <1>5, <1>6, <1>7, <1>8, <1>9, Zenon
<1>11. pc'[c] # "none" /\ (pc'[c] = "set" => LoginScan(c))
  BY <1>2, <1>3, <1>4, <1>5, <1>6, <1>7, <1>8, <1>9
<1>12. playerRef'[c] # playerRef[c] => playerRef'[c] = NoPlayer \/ LoginSet(c)
  BY <1>2, <1>3, <1>4, <1>5, <1>6, <1>7, <1>8, <1>9
<1>13. ASSUME NEW d \in Conns, Listed(d)'
       PROVE  Listed(d) \/ (d = c /\ pc[c] = "none" /\ playerRef'[c] = NoPlayer)
  <2>1. ASSUME Register(c)
        PROVE  Listed(d) \/ (d = c /\ pc[c] = "none" /\ playerRef'[c] = NoPlayer)
    BY <1>2, <1>13, <2>1
  <2>2. ASSUME ~ Register(c) PROVE Listed(d)
    BY <1>1, <1>3, <1>4, <1>5, <1>6, <1>7, <1>8, <1>9, <1>13, <2>2, Zenon
  <2> QED
    BY <2>1, <2>2
<1> QED
  BY <1>10, <1>11, <1>12, <1>13, Zenon

\* Every step keeps SharedInv.
LEMMA SharedStep ==
    ASSUME LoginInv, SharedInv, NEW c \in Conns, Step(c)
    PROVE  SharedInv'
<1>0. TypeOK /\ Unshared /\ NewLoggedOut /\ \A d \in Conns : Fits(d)
  BY DEF LoginInv, SharedInv, FramesFit
<1>1. ASSUME NEW d \in Conns, d # c
      PROVE  pc'[d] = pc[d] /\ player'[d] = player[d] /\ playerRef'[d] = playerRef[d]
  BY <1>0, <1>1, OthersStay
<1>2. /\ raced => raced'
      /\ pc'[c] # "none"
      /\ pc'[c] = "set" => LoginScan(c)
      /\ playerRef'[c] # playerRef[c] => playerRef'[c] = NoPlayer \/ LoginSet(c)
      /\ \A d \in Conns : Listed(d)' =>
             Listed(d) \/ (d = c /\ pc[c] = "none" /\ playerRef'[c] = NoPlayer)
  BY <1>0, SharedEffect
<1>3. NewLoggedOut'
  BY <1>0, <1>1, <1>2 DEF NewLoggedOut
<1>4. ASSUME LoginSet(c)
      PROVE  /\ pc[c] = "set" /\ player'[c] = player[c] /\ playerRef'[c] = player[c]
             /\ clients' = clients
  BY <1>0, <1>4 DEF LoginSet, At, TypeOK
<1>5. ASSUME LoginScan(c), pc'[c] = "set"
      PROVE  /\ LoggedInAs(frame[c].name) = {}
             /\ player' = player /\ playerRef' = playerRef /\ playerRef[c] = NoPlayer
             /\ clients' = clients
             /\ player[c] \in PLAYERs /\ players[player[c]] = frame[c].name
             /\ ~ raced' => \A d \in Conns : pc[d] = "set" => player[d] # player[c]
  <2>1. /\ player' = player /\ playerRef' = playerRef /\ clients' = clients
        /\ pc[c] = "login" /\ player[c] # NoPlayer /\ playerRef[c] = NoPlayer
    BY <1>5 DEF LoginScan, At, MayLogIn, registries
  <2>2. PICK S : S = LoggedInAs(frame[c].name)
    OBVIOUS
  <2>3. S = {}
    BY <1>0, <1>5, <2>2 DEF LoginScan, Goto, TypeOK
  <2>4. ~ raced' => \A d \in Conns : pc[d] = "set" => player[d] # player[c]
    BY <1>5, <2>2, <2>3, Zenon DEF LoginScan
  <2>5. player[c] \in PLAYERs /\ players[player[c]] = frame[c].name
    BY <1>0, <2>1 DEF LoginInv, OnePlayerPerName, TypeOK
  <2> QED
    BY <2>1, <2>2, <2>3, <2>4, <2>5
<1>6. ASSUME LoggedInAs(frame[c].name) = {}, NEW d \in Conns, Listed(d),
             playerRef[d] # NoPlayer
      PROVE  players[playerRef[d]] # frame[c].name
  <2>1. PICK i \in Slots : clients[i] = d
    BY <1>6 DEF Listed
  <2>2. d # NoConn
    BY FiniteSlots DEF NoConn
  <2> QED
    BY <1>6, <2>1, <2>2 DEF LoggedInAs, SlotsOf
<1>7. player[c] \notin PLAYERs \/ player[c] # NoPlayer
  BY FiniteSlots DEF NoPlayer
<1>8. ASSUME ~ raced' PROVE ~ raced
  BY <1>2, <1>8
<1>9. ASSUME ~ raced',
             NEW a \in Conns, NEW b \in Conns, pc'[a] = "set", Listed(b)', b # a
      PROVE  playerRef'[b] # player'[a]
  <2>1. CASE a = c
    <3>1. Listed(b)
      BY <1>2, <1>9, <2>1
    <3>2. LoginScan(c)
      BY <1>2, <1>9, <2>1
    <3> QED
      BY <1>5, <1>6, <1>7, <1>9, <2>1, <3>1, <3>2
  <2>2. CASE a # c
    <3>1. pc[a] = "set" /\ player'[a] = player[a] /\ player[a] # NoPlayer
      BY <1>0, <1>1, <1>9, <2>2 DEF Fits
    <3>2. CASE b = c
      <4>1. CASE LoginSet(c)
        BY <1>0, <1>4, <1>8, <1>9, <2>2, <3>1, <3>2, <4>1 DEF Unshared
      <4>2. CASE ~ LoginSet(c)
        BY <1>0, <1>2, <1>8, <1>9, <2>2, <3>1, <3>2, <4>2 DEF Unshared
      <4> QED
        BY <4>1, <4>2
    <3>3. CASE b # c
      BY <1>0, <1>1, <1>2, <1>8, <1>9, <3>1, <3>3 DEF Unshared
    <3> QED
      BY <3>2, <3>3
  <2> QED
    BY <2>1, <2>2
<1>10. ASSUME ~ raced',
              NEW a \in Conns, NEW b \in Conns, pc'[a] = "set", pc'[b] = "set", b # a
       PROVE  player'[b] # player'[a]
  <2>1. CASE a # c /\ b # c
    BY <1>0, <1>1, <1>8, <1>10, <2>1 DEF Unshared
  <2>2. CASE a = c \/ b = c
    BY <1>1, <1>2, <1>5, <1>10, <2>2
  <2> QED
    BY <2>1, <2>2
<1>11. ASSUME ~ raced', NEW a \in Conns, NEW b \in Conns,
              Listed(a)', Listed(b)', b # a, playerRef'[a] # NoPlayer
       PROVE  playerRef'[b] # playerRef'[a]
  <2>1. Listed(a)
    BY <1>2, <1>11
  <2>2. CASE LoginSet(c)
    <3>1. /\ Listed(b) /\ pc[c] = "set" /\ playerRef'[c] = player[c]
          /\ player[c] # NoPlayer
      BY <1>0, <1>2, <1>4, <1>11, <2>2 DEF Fits
    <3> QED
      BY <1>0, <1>1, <1>8, <1>11, <2>1, <3>1 DEF Unshared
  <2>3. CASE ~ LoginSet(c)
    BY <1>0, <1>1, <1>2, <1>8, <1>11, <2>1, <2>3 DEF Unshared
  <2> QED
    BY <2>2, <2>3
<1>12. Unshared'
  BY <1>9, <1>10, <1>11 DEF Unshared
<1> QED
  BY <1>3, <1>12 DEF SharedInv

(***************************************************************************)
(* Two clients of the table are logged in as one PLAYER only if two logins *)
(* under its name have crossed.                                            *)
(***************************************************************************)
THEOREM SharingNeedsARace == Spec => []SharedOnlyByRace
<1>1. Init => SharedInv
  <2> SUFFICES ASSUME Init PROVE SharedInv
    OBVIOUS
  <2>1. \A c \in Conns : ~ Listed(c) /\ pc[c] = "none" /\ playerRef[c] = NoPlayer
    BY FiniteSlots DEF Init, Listed, NoConn
  <2> QED
    BY <2>1 DEF SharedInv, Unshared, NewLoggedOut
<1>2. LoginInv /\ SharedInv /\ [Next]_vars => SharedInv'
  <2> SUFFICES ASSUME LoginInv, SharedInv, [Next]_vars PROVE SharedInv'
    OBVIOUS
  <2>1. CASE UNCHANGED vars
    BY <2>1 DEF vars, SharedInv, Unshared, NewLoggedOut, Listed
  <2> QED
    BY <2>1, SharedStep DEF Next, Step
<1>3. ASSUME LoginInv, SharedInv PROVE SharedOnlyByRace
  <2> SUFFICES ASSUME ~ raced, NEW i \in Slots, NEW j \in Slots, i # j,
                      clients[i] # NoConn, clients[j] # NoConn,
                      playerRef[clients[i]] # NoPlayer
               PROVE  playerRef[clients[i]] # playerRef[clients[j]]
    BY DEF SharedOnlyByRace
  <2>1. PICK c \in Conns : c = clients[i]
    BY <1>3 DEF LoginInv, TypeOK
  <2>2. PICK d \in Conns : d = clients[j]
    BY <1>3 DEF LoginInv, TypeOK
  <2>3. c # d /\ Listed(c) /\ Listed(d)
    BY <1>3, <2>1, <2>2 DEF LoginInv, TableFits, Listed
  <2> QED
    BY <1>3, <2>1, <2>2, <2>3 DEF SharedInv, Unshared
<1> QED
  BY <1>1, <1>2, <1>3, LoginInvariant, PTL DEF Spec

-----------------------------------------------------------------------------
(***************************************************************************)
(* What a thread has sent in answer to a LOGIN says whether its client is  *)
(* logged in, and the registry bears it out.  Says is about the thread's   *)
(* own locals at each step, SaysWhy about the registry; flags are compared *)
(* with TRUE and FALSE for the provers.                                    *)
(***************************************************************************)
Once  == <<"NACK">>
Twice == <<"NACK", "NACK">>

Answered == {<<>>, <<"ACK">>, Once, Twice}

Ending == {"unref", "unregister", "gone"}

\* The steps of a LOGIN that is not served yet.
Serving == {"register", "take"} \cup Registered

Told(c) ==
    /\ asked[c] = NoName => answers[c] = <<>> /\ signedIN[c] = FALSE
    /\ asked[c] # NoName => answers[c] # <<>>
    /\ answers[c] = <<"ACK">> => signedIN[c] = TRUE /\ again[c] = FALSE
    /\ answers[c] # <<"ACK">> => signedIN[c] = FALSE \/ again[c] = TRUE

Says(c) ==
    /\ answers[c] \in Answered
    /\ pc[c] \in Serving => /\ asked[c] = frame[c].name /\ asked[c] \in Names
                            /\ again[c] = signedIN[c]
    /\ pc[c] \in Serving \ {"login"} => answers[c] = <<>>
    /\ pc[c] = "login" => answers[c] = IF player[c] = NoPlayer THEN Once ELSE <<>>
    /\ pc[c] \notin Serving => Told(c)
    /\ pc[c] \notin Ending =>
           /\ playerRef[c] # NoPlayer => signedIN[c] = TRUE
           /\ playerRef[c] = NoPlayer => signedIN[c] = FALSE
    /\ pc[c] \in Ending \cup {"none"} => playerRef[c] = NoPlayer

Full(n) == Matching(n) = {}
Has(n)  == \E s \in PLAYERs : players[s] = n

SaysWhy(c) ==
    /\ pc[c] = "login" /\ player[c] = NoPlayer => Full(asked[c])
    /\ pc[c] \notin Serving /\ asked[c] # NoName =>
           /\ answers[c] = Twice => Full(asked[c])
           /\ answers[c] # Twice => Has(asked[c])
           /\ answers[c] = <<"ACK">> /\ playerRef[c] # NoPlayer =>
                  players[playerRef[c]] = asked[c]

\* The answers that add up.
LEMMA Appends ==
    /\ Append(<<>>, "ACK") = <<"ACK">>
    /\ Append(<<>>, "NACK") = Once
    /\ Append(Once, "NACK") = Twice
<1>1. /\ Append(<<>>, "ACK") = <<"ACK">>
      /\ Append(<<>>, "NACK") = Once
  BY DEF Once
<1>2. Append(Once, "NACK") = Twice
  <2>1. /\ Once \in Seq({"NACK"}) /\ "NACK" \in {"NACK"}
        /\ Twice \in Seq({"NACK"})
        /\ Len(Once) = 1 /\ Len(Twice) = 2
    BY DEF Once, Twice
  <2>2. PICK t : t = Append(Once, "NACK")
    OBVIOUS
  <2>3. t \in Seq({"NACK"}) /\ Len(t) = 2
    BY <2>1, <2>2, AppendProperties
  <2>4. \A i \in 1 .. 2 : t[i] = Twice[i]
    BY <2>3 DEF Twice
  <2>5. t = Twice
    BY <2>1, <2>3, <2>4, SeqEqual
  <2> QED
    BY <2>2, <2>5
<1> QED
  BY <1>1, <1>2

\* They are four different answers.
LEMMA AnswersDiffer ==
    /\ <<"ACK">> # <<>> /\ Once # <<>> /\ Twice # <<>>
    /\ <<"ACK">> # Once /\ <<"ACK">> # Twice /\ Once # Twice
BY DEF Once, Twice

\* Nothing is sent, and what the answers are about is left alone.
Silent(c) ==
    /\ answers'[c] = answers[c] /\ asked'[c] = asked[c] /\ again'[c] = again[c]
    /\ signedIN'[c] = signedIN[c] /\ playerRef'[c] = playerRef[c]

\* A LOGIN goes on.
Onward(c) ==
    /\ player'[c] = player[c] /\ frame'[c].name = frame[c].name
    /\ \/ pc[c] = "register" /\ pc'[c] = "take"
       \/ /\ pc[c] = "login" /\ player[c] # NoPlayer
          /\ pc'[c] \in {"set", "loginRead"}
       \/ pc[c] = "loginRead" /\ pc'[c] = "loginRef"

\* The step is not of a LOGIN.
Elsewhere(c) ==
    /\ pc[c] \notin Serving /\ pc'[c] \notin Serving /\ pc'[c] # "none"
    /\ pc[c] \in Ending => pc'[c] \in Ending
    /\ pc'[c] \in Ending => pc[c] \in Ending \/ playerRef[c] = NoPlayer

\* What a step of the thread of c does to the locals that Says is about.
LEMMA SaysEffect ==
    ASSUME LoginInv, NEW c \in Conns, Says(c), Step(c), ~ crashed'
    PROVE  \/ Silent(c) /\ (Onward(c) \/ Elsewhere(c))
           \/ RegisterTake(c) \/ LoginRefused(c) \/ LoginSet(c) \/ LoginFound(c)
           \/ Login(c) \/ Logout(c) \/ Unregister(c)
<1> USE DEF Goto, Return, Request, Answer, At, registries, logins, history, asking,
            Serving, Registered, Ending
<1>0. /\ TypeOK /\ pc \in [Conns -> Steps] /\ frame \in [Conns -> Frames]
      /\ player \in [Conns -> PLAYERs \cup {NoPlayer}]
  BY DEF LoginInv, TypeOK
<1>1. ASSUME Register(c) \/ Invite(c) PROVE Silent(c) /\ Elsewhere(c)
  BY <1>0, <1>1 DEF Register, Invite, Silent, Elsewhere
<1>2. ASSUME ReadEof(c) PROVE Silent(c) /\ Elsewhere(c)
  BY <1>0, <1>2 DEF ReadEof, Silent, Elsewhere
<1>3. ASSUME InviteScan(c) \/ InviteRef(c) \/ MakeInvitation(c) \/ MakeTarget(c)
      PROVE  Silent(c) /\ Elsewhere(c)
  BY <1>0, <1>3 DEF InviteScan, InviteRef, MakeInvitation, MakeTarget, Silent,
                    Elsewhere
<1>4. ASSUME Unref(c) PROVE Silent(c) /\ Elsewhere(c)
  BY <1>0, <1>4 DEF Unref, Silent, Elsewhere
<1>5. ASSUME RegisterScan(c) PROVE Silent(c) /\ Onward(c)
  BY <1>0, <1>5 DEF RegisterScan, Frames, Silent, Onward
<1>6. ASSUME LoginScan(c) PROVE Silent(c) /\ Onward(c)
  BY <1>0, <1>6 DEF LoginScan, MayLogIn, Frames, Silent, Onward
<1>7. ASSUME LookupRead(c) PROVE Silent(c) /\ (Onward(c) \/ Elsewhere(c))
  BY <1>0, <1>7 DEF LookupRead, Frames, Silent, Onward, Elsewhere
<1>8. ~ LoginNoPayload(c) /\ ~ InviteNoPayload(c) /\ ~ LookupFreed(c)
  BY DEF LoginNoPayload, InviteNoPayload, LookupFreed
<1> QED
  BY <1>1, <1>2, <1>3, <1>4, <1>5, <1>6, <1>7, <1>8 DEF Step, Proceed

\* A step of the thread of c keeps what is known of its answers.
LEMMA SaysStep ==
    ASSUME LoginInv, NEW c \in Conns, Says(c), Step(c), ~ crashed'
    PROVE  Says(c)'
<1> USE DEF Serving, Registered, Ending
<1>0. /\ TypeOK /\ Fits(c) /\ pc \in [Conns -> Steps] /\ frame \in [Conns -> Frames]
      /\ playerRef \in [Conns -> PLAYERs \cup {NoPlayer}]
      /\ player \in [Conns -> PLAYERs \cup {NoPlayer}]
      /\ signedIN \in [Conns -> BOOLEAN] /\ answers \in [Conns -> Seq({"ACK", "NACK"})]
      /\ asked \in [Conns -> Names \cup {NoName}] /\ again \in [Conns -> BOOLEAN]
  BY DEF LoginInv, TypeOK, FramesFit
<1>a. NoName \notin Names
  BY LoginAssumption
<1>1. ASSUME RegisterTake(c) PROVE Says(c)'
  <2>1. /\ signedIN' = signedIN /\ playerRef' = playerRef /\ asked' = asked
        /\ again' = again /\ frame' = frame
        /\ pc[c] = "take" /\ pc'[c] = "login" /\ answers[c] = <<>>
    BY <1>0, <1>1 DEF RegisterTake, Says, At, Goto, logins, asking
  <2>2. answers'[c] = IF player'[c] = NoPlayer THEN Once ELSE <<>>
    <3>1. CASE frame[c].slot = NoSlot
      BY <1>0, <1>1, <2>1, <3>1, Appends DEF RegisterTake, Answer
    <3>2. CASE frame[c].slot # NoSlot
      <4>1. player'[c] = frame[c].slot /\ answers' = answers
        BY <1>0, <1>1, <3>2 DEF RegisterTake
      <4>2. frame[c].slot # NoPlayer
        BY <1>0, <2>1, <3>2, SlotForFinds, FiniteSlots DEF Fits, NoPlayer
      <4> QED
        BY <2>1, <4>1, <4>2
    <3> QED
      BY <3>1, <3>2
  <2> QED
    BY <2>1, <2>2 DEF Says, Answered
<1>2. ASSUME LoginRefused(c) PROVE Says(c)'
  <2>1. /\ signedIN' = signedIN /\ playerRef' = playerRef /\ asked' = asked
        /\ again' = again /\ player' = player
        /\ pc[c] = "login" /\ pc'[c] = "recv"
        /\ answers'[c] = Append(answers[c], "NACK")
        /\ player[c] = NoPlayer \/ playerRef[c] # NoPlayer
    BY <1>0, <1>2 DEF LoginRefused, MayLogIn, At, Goto, Return, Answer, registries,
                      logins, asking
  <2>2. answers'[c] = Once \/ answers'[c] = Twice
    BY <2>1, Appends DEF Says
  <2>3. /\ asked[c] \in Names /\ again[c] = signedIN[c]
        /\ playerRef[c] # NoPlayer => signedIN[c] = TRUE
        /\ playerRef[c] = NoPlayer => signedIN[c] = FALSE
    BY <2>1 DEF Says
  <2> QED
    BY <1>0, <1>a, <2>1, <2>2, <2>3, AnswersDiffer DEF Says, Told, Answered
<1>3. ASSUME LoginSet(c) PROVE Says(c)'
  <2>1. /\ answers[c] = <<>> /\ player[c] # NoPlayer /\ playerRef[c] = NoPlayer
        /\ answers'[c] = Append(answers[c], "ACK") /\ asked' = asked /\ again' = again
        /\ signedIN'[c] = TRUE /\ playerRef'[c] = player[c]
        /\ pc[c] = "set" /\ pc'[c] = "recv"
    BY <1>0, <1>3 DEF LoginSet, Says, Fits, At, Goto, Return, Answer, asking
  <2>2. asked[c] \in Names /\ again[c] = FALSE
    BY <2>1 DEF Says
  <2>3. answers'[c] = <<"ACK">>
    BY <2>1, Appends
  <2> QED
    BY <1>a, <2>1, <2>2, <2>3, AnswersDiffer DEF Says, Told, Answered
<1>4. ASSUME LoginFound(c) PROVE Says(c)'
  <2>1. /\ answers[c] = <<>> /\ answers'[c] = Append(answers[c], "NACK")
        /\ signedIN' = signedIN /\ asked' = asked /\ again' = again
        /\ playerRef' = playerRef /\ playerRef[c] = NoPlayer
        /\ pc[c] = "loginRef" /\ pc'[c] = "recv"
    BY <1>0, <1>4 DEF LoginFound, Says, Fits, At, Goto, Return, Answer, logins, asking
  <2>2. asked[c] \in Names /\ signedIN[c] = FALSE
    BY <2>1 DEF Says
  <2>3. answers'[c] = Once
    BY <2>1, Appends
  <2> QED
    BY <1>a, <2>1, <2>2, <2>3, AnswersDiffer DEF Says, Told, Answered
<1>5. ASSUME Login(c) PROVE Says(c)'
  <2>1. PICK n \in Names : /\ asked' = [asked EXCEPT ![c] = n]
                           /\ frame' = [frame EXCEPT ![c].name = n]
    BY <1>5 DEF Login, Request
  <2>2. asked'[c] = n /\ frame'[c].name = n
    BY <1>0, <2>1 DEF Frames
  <2>3. /\ answers'[c] = <<>> /\ again'[c] = signedIN[c] /\ signedIN' = signedIN
        /\ playerRef' = playerRef /\ pc[c] = "recv" /\ pc'[c] = "register"
    BY <1>0, <1>5 DEF Login, Request, At, Goto, logins
  <2> QED
    BY <2>2, <2>3 DEF Says, Answered
<1>6. ASSUME Logout(c) PROVE Says(c)'
  <2>1. /\ answers' = answers /\ signedIN' = signedIN /\ playerRef'[c] = NoPlayer
        /\ asked' = asked /\ again' = again /\ pc[c] = "logout" /\ pc'[c] = "unref"
    BY <1>0, <1>6 DEF Logout, At, Goto, asking
  <2> QED
    BY <2>1 DEF Says, Told
<1>7. ASSUME Unregister(c) PROVE Says(c)'
  <2>1. /\ answers'[c] = <<>> /\ playerRef' = playerRef /\ signedIN'[c] = FALSE
        /\ asked'[c] = NoName /\ pc[c] = "unregister" /\ pc'[c] = "gone"
    BY <1>0, <1>7 DEF Unregister, At, Goto
  <2> QED
    BY <2>1, AnswersDiffer DEF Says, Told, Answered
<1>8. ASSUME Silent(c), Onward(c) PROVE Says(c)'
  BY <1>8 DEF Says, Silent, Onward
<1>9. ASSUME Silent(c), Elsewhere(c) PROVE Says(c)'
  <2>1. Told(c)'
    BY <1>9 DEF Says, Told, Silent, Elsewhere
  <2>2. /\ pc'[c] \in Ending => playerRef'[c] = NoPlayer
        /\ pc'[c] \notin Ending =>
               /\ playerRef'[c] # NoPlayer => signedIN'[c] = TRUE
               /\ playerRef'[c] = NoPlayer => signedIN'[c] = FALSE
    BY <1>9 DEF Says, Silent, Elsewhere
  <2>3. answers'[c] \in Answered /\ pc'[c] \notin Serving /\ pc'[c] # "none"
    BY <1>9 DEF Says, Silent, Elsewhere
  <2> QED
    BY <2>1, <2>2, <2>3 DEF Says
<1> QED
  BY <1>1, <1>2, <1>3, <1>4, <1>5, <1>6, <1>7, <1>8, <1>9, SaysEffect

\* A registry that is full of other names stays so, and a name in it stays.
LEMMA RegistryStays ==
    ASSUME LoginInv, NEW c \in Conns, Step(c), NEW n \in Names
    PROVE  (Full(n) => Full(n)') /\ (Has(n) => Has(n)')
<1>1. players \in [PLAYERs -> Names \cup {NoName}] /\ NoName \notin Names
  BY LoginAssumption DEF LoginInv, TypeOK
<1>2. ASSUME Has(n) PROVE Has(n)'
  <2>1. PICK s \in PLAYERs : players[s] = n
    BY <1>2 DEF Has
  <2>2. players'[s] = n
    BY <1>1, <2>1, NamesStay DEF Used
  <2> QED
    BY <2>2 DEF Has
<1>3. ASSUME Full(n) PROVE Full(n)'
  <2>1. \A s \in PLAYERs : Used(s) /\ players[s] # n
    BY <1>3 DEF Full, Matching, Used
  <2>2. \A s \in PLAYERs : players'[s] # n /\ players'[s] # NoName
    BY <2>1, NamesStay DEF Used
  <2> QED
    BY <2>2 DEF Full, Matching
<1> QED
  BY <1>2, <1>3

\* What the registry says of the answers of another thread, or of one that sends
\* none, it goes on to say.
LEMMA WhyStays ==
    ASSUME LoginInv, NEW c \in Conns, Step(c), NEW d \in Conns, SaysWhy(d),
           asked'[d] = asked[d], answers'[d] = answers[d],
           playerRef'[d] \in {playerRef[d], NoPlayer},
           pc'[d] = "login" => pc[d] = "login" /\ player'[d] = player[d],
           pc[d] \in Serving => pc'[d] \in Serving,
           pc[d] \in Serving => asked[d] \in Names
    PROVE  SaysWhy(d)'
<1>1. /\ asked[d] \in Names \cup {NoName} /\ "login" \in Serving
      /\ playerRef[d] # NoPlayer => playerRef[d] \in PLAYERs /\ Used(playerRef[d])
  BY DEF LoginInv, TypeOK, PointersUsed, Serving, Registered
<1>2. asked[d] \in Names =>
          (Full(asked[d]) => Full(asked[d])') /\ (Has(asked[d]) => Has(asked[d])')
  <2>1. ASSUME NEW n \in Names, asked[d] = n, Full(n) PROVE Full(asked[d])'
    BY <2>1, RegistryStays DEF Full, Matching
  <2>2. ASSUME NEW n \in Names, asked[d] = n, Has(n) PROVE Has(asked[d])'
    BY <2>2, RegistryStays DEF Has
  <2> QED
    BY <2>1, <2>2
<1>3. playerRef'[d] # NoPlayer => players'[playerRef'[d]] = players[playerRef[d]]
  BY <1>1, NamesStay
<1> QED
  BY <1>1, <1>2, <1>3 DEF SaysWhy

\* A step of the thread of c keeps what the registry says of its answers.
LEMMA WhyStep ==
    ASSUME LoginInv, NEW c \in Conns, Says(c), SaysWhy(c), Step(c), ~ crashed'
    PROVE  SaysWhy(c)'
<1>0. /\ TypeOK /\ Fits(c) /\ pc \in [Conns -> Steps]
      /\ playerRef \in [Conns -> PLAYERs \cup {NoPlayer}]
      /\ player \in [Conns -> PLAYERs \cup {NoPlayer}]
      /\ asked \in [Conns -> Names \cup {NoName}]
      /\ answers \in [Conns -> Seq({"ACK", "NACK"})]
  BY DEF LoginInv, TypeOK, FramesFit
<1>1. ASSUME pc[c] \in Registered, player[c] # NoPlayer
      PROVE  players[player[c]] = asked[c] /\ Has(asked[c])
  <2>1. player[c] \in PLAYERs /\ players[player[c]] = frame[c].name
    BY <1>0, <1>1 DEF LoginInv, OnePlayerPerName, Registered
  <2>2. asked[c] = frame[c].name
    BY <1>1 DEF Says, Serving
  <2> QED
    BY <2>1, <2>2 DEF Has
<1>2. ASSUME RegisterTake(c) PROVE SaysWhy(c)'
  <2>1. pc[c] = "take" /\ pc'[c] = "login" /\ asked' = asked
    BY <1>0, <1>2 DEF RegisterTake, At, Goto, asking
  <2>2. frame[c].slot = SlotFor(asked[c])
    BY <1>0, <2>1 DEF Fits, Says, Serving
  <2>3. CASE frame[c].slot = NoSlot
    <3>1. players' = players
      BY <1>2, <2>3 DEF RegisterTake
    <3>2. \A t \in PLAYERs : players[t] \notin {asked[c], NoName}
      <4>1. SlotFor(asked[c]) \notin PLAYERs
        BY <2>2, <2>3, FiniteSlots DEF NoSlot
      <4> QED
        BY <4>1, SlotForFinds
    <3> QED
      BY <2>1, <3>1, <3>2 DEF SaysWhy, Full, Matching, Serving, Registered
  <2>4. CASE frame[c].slot # NoSlot
    <3>1. player'[c] = frame[c].slot
      BY <1>0, <1>2, <2>4 DEF RegisterTake
    <3>2. frame[c].slot # NoPlayer
      BY <2>2, <2>4, SlotForFinds, FiniteSlots DEF NoPlayer
    <3> QED
      BY <2>1, <3>1, <3>2 DEF SaysWhy, Serving, Registered
  <2> QED
    BY <2>3, <2>4
<1>3. ASSUME LoginRefused(c) PROVE SaysWhy(c)'
  <2>1. /\ asked' = asked /\ players' = players
        /\ pc[c] = "login" /\ pc'[c] = "recv"
        /\ answers'[c] = Append(answers[c], "NACK")
    BY <1>0, <1>3 DEF LoginRefused, At, Goto, Return, Answer, registries, asking
  <2>2. /\ player[c] = NoPlayer => answers'[c] = Twice /\ Full(asked[c])
        /\ player[c] # NoPlayer => answers'[c] = Once /\ Has(asked[c])
    BY <1>1, <2>1, Appends DEF Says, SaysWhy, Registered
  <2>3. (Full(asked[c]) => Full(asked[c])') /\ (Has(asked[c]) => Has(asked[c])')
    BY <2>1 DEF Full, Matching, Has
  <2> QED
    BY <2>1, <2>2, <2>3, AnswersDiffer DEF SaysWhy
<1>4. ASSUME LoginSet(c) \/ LoginFound(c) PROVE SaysWhy(c)'
  <2>1. /\ asked' = asked /\ players' = players /\ player[c] # NoPlayer
        /\ pc[c] \in {"set", "loginRef"} /\ pc'[c] = "recv" /\ answers[c] = <<>>
        /\ \/ answers'[c] = Append(answers[c], "ACK") /\ playerRef'[c] = player[c]
           \/ answers'[c] = Append(answers[c], "NACK")
    <3>1. /\ pc[c] \in {"set", "loginRef"} /\ pc'[c] = "recv"
          /\ asked' = asked /\ players' = players
      BY <1>0, <1>4 DEF LoginSet, LoginFound, At, Goto, Return, registries, asking
    <3>2. \/ answers'[c] = Append(answers[c], "ACK") /\ playerRef'[c] = player[c]
          \/ answers'[c] = Append(answers[c], "NACK")
      BY <1>0, <1>4 DEF LoginSet, LoginFound, Answer
    <3>3. player[c] # NoPlayer /\ answers[c] = <<>>
      BY <1>0, <3>1 DEF Fits, Says, Serving, Registered
    <3> QED
      BY <3>1, <3>2, <3>3
  <2>2. players[player[c]] = asked[c] /\ Has(asked[c])
    BY <1>1, <2>1 DEF Registered
  <2>3. Has(asked[c])'
    BY <2>1, <2>2 DEF Has
  <2>4. \/ answers'[c] = <<"ACK">> /\ players'[playerRef'[c]] = asked'[c]
        \/ answers'[c] = Once
    BY <2>1, <2>2, Appends
  <2> QED
    BY <2>1, <2>3, <2>4, AnswersDiffer DEF SaysWhy
<1>5. ASSUME Login(c) PROVE SaysWhy(c)'
  <2>1. pc'[c] = "register"
    BY <1>0, <1>5 DEF Login, Request, Goto
  <2> QED
    BY <2>1 DEF SaysWhy, Serving
<1>6. ASSUME Unregister(c) PROVE SaysWhy(c)'
  <2>1. pc'[c] = "gone" /\ asked'[c] = NoName
    BY <1>0, <1>6 DEF Unregister, Goto
  <2> QED
    BY <2>1 DEF SaysWhy
<1>7. ASSUME Logout(c) PROVE SaysWhy(c)'
  <2>1. /\ answers' = answers /\ asked' = asked /\ playerRef'[c] = NoPlayer
        /\ pc[c] = "logout" /\ pc'[c] = "unref"
    BY <1>0, <1>7 DEF Logout, At, Goto, asking
  <2> QED
    BY <2>1, WhyStays DEF Serving, Registered
<1>8. ASSUME Silent(c), Onward(c) \/ Elsewhere(c) PROVE SaysWhy(c)'
  <2>1. /\ pc'[c] # "login" /\ (pc[c] \in Serving => pc'[c] \in Serving)
        /\ pc[c] \in Serving => asked[c] \in Names
    BY <1>8 DEF Says, Serving, Registered, Onward, Elsewhere
  <2>2. /\ asked'[c] = asked[c] /\ answers'[c] = answers[c]
        /\ playerRef'[c] = playerRef[c]
    BY <1>8 DEF Silent
  <2> QED
    BY <2>1, <2>2, WhyStays
<1> QED
  BY <1>2, <1>3, <1>4, <1>5, <1>6, <1>7, <1>8, SaysEffect

(***************************************************************************)
(* A LOGIN is acknowledged exactly if it is what logged the client in, as  *)
(* the PLAYER of the name asked for and found under it; and refused twice  *)
(* exactly if the player registry is full of other names.                  *)
(***************************************************************************)
THEOREM AcknowledgedMeansLoggedIn == Spec => []LoginsMeanPlayers
<1> DEFINE AllSay == ~ crashed => \A c \in Conns : Says(c) /\ SaysWhy(c)
<1>1. Init => AllSay
  <2> SUFFICES ASSUME Init, NEW c \in Conns PROVE Says(c) /\ SaysWhy(c)
    OBVIOUS
  <2>1. /\ answers[c] = <<>> /\ asked[c] = NoName /\ signedIN[c] = FALSE
        /\ playerRef[c] = NoPlayer /\ pc[c] = "none"
    BY DEF Init
  <2> QED
    BY <2>1, AnswersDiffer DEF Says, SaysWhy, Told, Answered, Ending, Serving,
                               Registered
<1>2. LoginInv /\ AllSay /\ [Next]_vars => AllSay'
  <2> SUFFICES ASSUME LoginInv, AllSay, [Next]_vars, ~ crashed', NEW d \in Conns
               PROVE  Says(d)' /\ SaysWhy(d)'
    OBVIOUS
  <2>1. CASE UNCHANGED vars
    BY <2>1 DEF vars, Says, SaysWhy, Told, Full, Matching, Has
  <2>2. ASSUME NEW c \in Conns, Step(c) PROVE Says(d)' /\ SaysWhy(d)'
    <3>1. ~ crashed
      BY <2>2 DEF Step, Proceed, At, Register, Login, LoginNoPayload, Invite,
                  InviteNoPayload, ReadEof, Request, RegisterScan, RegisterTake,
                  LoginRefused, LoginScan, LoginSet, LoginFound, InviteScan, InviteRef,
                  MakeInvitation, MakeTarget, LookupRead, LookupFreed, Logout, Unref,
                  Unregister
    <3>2. Says(d) /\ SaysWhy(d)
      BY <3>1
    <3>3. CASE d = c
      BY <2>2, <3>2, <3>3, SaysStep, WhyStep
    <3>4. CASE d # c
      <4>1. /\ pc'[d] = pc[d] /\ frame'[d] = frame[d]
            /\ player'[d] = player[d] /\ playerRef'[d] = playerRef[d]
            /\ signedIN'[d] = signedIN[d] /\ answers'[d] = answers[d]
            /\ asked'[d] = asked[d] /\ again'[d] = again[d]
        BY <2>2, <3>4, OthersStay DEF LoginInv
      <4>2. Says(d)'
        BY <3>2, <4>1 DEF Says, Told
      <4>3. pc[d] \in Serving => asked[d] \in Names
        BY <3>2 DEF Says
      <4>4. SaysWhy(d)'
        BY <2>2, <3>2, <4>1, <4>3, WhyStays
      <4> QED
        BY <4>2, <4>4
    <3> QED
      BY <3>3, <3>4
  <2> QED
    BY <2>1, <2>2 DEF Next, Step
<1>3. ASSUME LoginInv, AllSay PROVE LoginsMeanPlayers
  <2> SUFFICES ASSUME ~ crashed, NEW c \in Conns
               PROVE  /\ pc[c] = "recv" /\ asked[c] = NoName =>
                             answers[c] = <<>> /\ ~ signedIN[c]
                      /\ pc[c] = "recv" /\ asked[c] # NoName =>
                             /\ answers[c] \in {<<"ACK">>, Once, Twice}
                             /\ answers[c] = <<"ACK">> <=> signedIN[c] /\ ~ again[c]
                             /\ answers[c] = <<"ACK">> =>
                                    /\ players[playerRef[c]] = asked[c]
                                    /\ SlotsOf(c) \subseteq LoggedInAs(asked[c])
                             /\ answers[c] = Twice <=> Matching(asked[c]) = {}
                      /\ pc[c] \notin Ending => (signedIN[c] <=> playerRef[c] # NoPlayer)
                      /\ pc[c] \in {"none"} \cup Ending => playerRef[c] = NoPlayer
    BY DEF LoginsMeanPlayers, Once, Twice, Ending
  <2>1. /\ Says(c) /\ SaysWhy(c) /\ signedIN[c] \in BOOLEAN /\ again[c] \in BOOLEAN
        /\ asked[c] \in Names \cup {NoName} /\ c # NoConn
    BY <1>3, FiniteSlots DEF LoginInv, TypeOK, NoConn
  <2>2. /\ pc[c] \notin Ending => (signedIN[c] <=> playerRef[c] # NoPlayer)
        /\ pc[c] \in {"none"} \cup Ending => playerRef[c] = NoPlayer
    BY <2>1 DEF Says
  <2>3. ASSUME pc[c] = "recv"
        PROVE  Told(c) /\ pc[c] \notin Serving /\ pc[c] \notin Ending
    BY <2>1, <2>3 DEF Says, Serving, Registered, Ending
  <2>4. ASSUME pc[c] = "recv", asked[c] = NoName
        PROVE  answers[c] = <<>> /\ ~ signedIN[c]
    BY <2>3, <2>4 DEF Told
  <2>5. ASSUME pc[c] = "recv", asked[c] # NoName
        PROVE  /\ answers[c] \in {<<"ACK">>, Once, Twice}
               /\ answers[c] = <<"ACK">> <=> signedIN[c] /\ ~ again[c]
    BY <2>1, <2>3, <2>5 DEF Told, Says, Answered
  <2>6. ASSUME pc[c] = "recv", asked[c] # NoName, answers[c] = <<"ACK">>
        PROVE  /\ players[playerRef[c]] = asked[c]
               /\ SlotsOf(c) \subseteq LoggedInAs(asked[c])
    <3>1. playerRef[c] # NoPlayer
      BY <2>2, <2>3, <2>5, <2>6
    <3>2. players[playerRef[c]] = asked[c]
      BY <2>1, <2>3, <2>6, <3>1 DEF SaysWhy
    <3> QED
      BY <2>1, <3>1, <3>2 DEF SlotsOf, LoggedInAs
  <2>7. ASSUME pc[c] = "recv", asked[c] # NoName
        PROVE  answers[c] = Twice <=> Matching(asked[c]) = {}
    <3>1. Has(asked[c]) => Matching(asked[c]) # {}
      BY DEF Has, Matching
    <3> QED
      BY <2>1, <2>3, <2>7, <3>1 DEF SaysWhy, Full
  <2> QED
    BY <2>2, <2>4, <2>5, <2>6, <2>7
<1> QED
  BY <1>1, <1>2, <1>3, LoginInvariant, PTL DEF Spec

-----------------------------------------------------------------------------
(***************************************************************************)
(* Who waits for whom.  A semaphore is posted by the thread that took it,  *)
(* so a thread waits for d while it waits for the semaphore of the client  *)
(* of d, or for that of the player registry while d has taken it.          *)
(***************************************************************************)
WaitsFor(c, d) ==
    \/ pc[c] = "register" /\ preg = d
    \/ /\ ~ seph[d]
       /\ \/ d = c /\ pc[c] \in {"recv", "login", "peer", "unregister"}
          \/ d = frame[c].peer /\ pc[c] \in {"loginRef", "inviteRef", "target"}

\* No threads all wait for one another: whoever follows those that are waited
\* for comes to a thread that waits for nobody.  A thread in client_login keeps
\* the semaphore of its client while creg_lookup waits for that of another.
NoCircularWait ==
    \A S \in SUBSET Conns : S # {} => \E c \in S : \A d \in S : ~ WaitsFor(c, d)

Holding == {"set", "loginRead", "loginRef", "logout"}

SephsHeld == \A c \in Conns : seph[c] <=> pc[c] \notin Holding

InOrder == \A c, d \in Conns : d < c /\ pc[c] # "none" => pc[d] # "none"

\* What creg_lookup finds for client_login is logged in, or was, or has taken
\* the slot of one that was since: then it has registered later.
Later(c, d) == d > c \/ playerRef[d] # NoPlayer \/ pc[d] \in Ending

FindsLater(c) ==
    /\ pc[c] = "loginRead" =>
           \A d \in Conns : clients[frame[c].slot] = d => Later(c, d)
    /\ pc[c] = "loginRef" => Later(c, frame[c].peer)

WaitInv == SephsHeld /\ InOrder /\ \A c \in Conns : FindsLater(c)

LEMMA SephsStep ==
    ASSUME LoginInv, SephsHeld, NEW c \in Conns, Step(c)
    PROVE  SephsHeld'
<1> SUFFICES ASSUME NEW d \in Conns PROVE seph'[d] <=> pc'[d] \notin Holding
  BY DEF SephsHeld
<1>0. /\ pc \in [Conns -> Steps] /\ seph \in [Conns -> BOOLEAN]
      /\ seph[d] <=> pc[d] \notin Holding
      /\ seph[c] <=> pc[c] \notin Holding
  BY DEF LoginInv, TypeOK, SephsHeld
<1> USE DEF Goto, Return, Request, Answer, At, registries, logins, history,
            asking, Holding
<1>1. ASSUME Register(c) \/ Login(c) \/ LoginNoPayload(c) \/ ReadEof(c)
      PROVE  seph'[d] <=> pc'[d] \notin Holding
  BY <1>0, <1>1 DEF Register, Login, LoginNoPayload, ReadEof
<1>2. ASSUME RegisterScan(c) \/ RegisterTake(c) \/ LoginRefused(c)
      PROVE  seph'[d] <=> pc'[d] \notin Holding
  BY <1>0, <1>2 DEF RegisterScan, RegisterTake, LoginRefused
<1>3. ASSUME LoginScan(c)
      PROVE  seph'[d] <=> pc'[d] \notin Holding
  BY <1>0, <1>3 DEF LoginScan
<1>4. ASSUME LoginSet(c) \/ LoginFound(c)
      PROVE  seph'[d] <=> pc'[d] \notin Holding
  BY <1>0, <1>4 DEF LoginSet, LoginFound
<1>5. ASSUME LookupRead(c) \/ LookupFreed(c)
      PROVE  seph'[d] <=> pc'[d] \notin Holding
  BY <1>0, <1>5 DEF LookupRead, LookupFreed
<1>6. ASSUME Invite(c) \/ InviteNoPayload(c) \/ InviteScan(c) \/ InviteRef(c)
      PROVE  seph'[d] <=> pc'[d] \notin Holding
  BY <1>0, <1>6 DEF Invite, InviteNoPayload, InviteScan, InviteRef
<1>7. ASSUME MakeInvitation(c) \/ MakeTarget(c)
      PROVE  seph'[d] <=> pc'[d] \notin Holding
  BY <1>0, <1>7 DEF MakeInvitation, MakeTarget
<1>8. ASSUME Logout(c) \/ Unref(c) \/ Unregister(c)
      PROVE  seph'[d] <=> pc'[d] \notin Holding
  BY <1>0, <1>8 DEF Logout, Unref, Unregister
<1> QED
  BY <1>1, <1>2, <1>3, <1>4, <1>5, <1>6, <1>7, <1>8 DEF Step, Proceed

\* What a step does that matters to who is found: the thread of c leaves no
\* step behind that others rely on, and it alone comes into the table.
LEMMA LaterStays ==
    ASSUME LoginInv, InOrder, NEW c \in Conns, Step(c)
    PROVE  /\ pc'[c] # "none"
           /\ pc[c] = "none" => \A d \in Conns : d < c => pc[d] # "none"
           /\ pc[c] \in Ending => pc'[c] \in Ending
           /\ playerRef[c] # NoPlayer => playerRef'[c] # NoPlayer \/ pc'[c] \in Ending
           /\ \A i \in Slots : \/ clients'[i] \in {clients[i], NoConn}
                               \/ clients'[i] = c /\ pc[c] = "none"
<1>0. TypeOK /\ Fits(c)
  BY DEF LoginInv, FramesFit
<1> USE DEF TypeOK, Goto, Return, Request, Answer, At, registries, logins, history,
            asking, Ending
<1>1. CASE Register(c)
  BY <1>0, <1>1 DEF Register
<1>2. CASE \/ Login(c) \/ LoginNoPayload(c) \/ Invite(c) \/ InviteNoPayload(c)
           \/ ReadEof(c)
  BY <1>0, <1>2 DEF Login, LoginNoPayload, Invite, InviteNoPayload, ReadEof
<1>3. CASE RegisterScan(c) \/ RegisterTake(c) \/ LoginRefused(c) \/ LoginScan(c)
  BY <1>0, <1>3 DEF RegisterScan, RegisterTake, LoginRefused, LoginScan
<1>4. CASE LoginSet(c) \/ LoginFound(c)
  BY <1>0, <1>4 DEF LoginSet, LoginFound, Fits
<1>5. CASE \/ InviteScan(c) \/ InviteRef(c) \/ MakeInvitation(c) \/ MakeTarget(c)
           \/ LookupRead(c) \/ LookupFreed(c)
  BY <1>0, <1>5 DEF InviteScan, InviteRef, MakeInvitation, MakeTarget, LookupRead,
                    LookupFreed
<1>6. CASE Logout(c) \/ Unref(c) \/ Unregister(c)
  BY <1>0, <1>6 DEF Logout, Unref, Unregister
<1> QED
  BY <1>1, <1>2, <1>3, <1>4, <1>5, <1>6 DEF Step, Proceed

LEMMA InOrderStep ==
    ASSUME LoginInv, InOrder, NEW c \in Conns, Step(c)
    PROVE  InOrder'
<1> SUFFICES ASSUME NEW e \in Conns, NEW d \in Conns, d < e, pc'[e] # "none"
             PROVE  pc'[d] # "none"
  BY DEF InOrder
<1>1. CASE d = c
  BY <1>1, LaterStays
<1>2. CASE d # c
  <2>1. pc'[d] = pc[d]
    BY <1>2, OthersStay DEF LoginInv
  <2>2. CASE e = c
    BY <2>1, <2>2, LaterStays DEF InOrder
  <2>3. CASE e # c
    BY <2>1, <2>3, OthersStay DEF InOrder, LoginInv
  <2> QED
    BY <2>2, <2>3
<1> QED
  BY <1>1, <1>2

\* Who comes later, or is logged in, does so for good.
LEMMA LaterForGood ==
    ASSUME LoginInv, InOrder, NEW c \in Conns, Step(c),
           NEW e \in Conns, NEW d \in Conns, Later(e, d)
    PROVE  Later(e, d)'
<1>1. CASE d = c
  BY <1>1, LaterStays DEF Later
<1>2. CASE d # c
  BY <1>2, OthersStay DEF Later, LoginInv
<1> QED
  BY <1>1, <1>2

LEMMA FindsStep ==
    ASSUME LoginInv, WaitInv, NEW c \in Conns, Step(c), NEW e \in Conns
    PROVE  FindsLater(e)'
<1>1. TypeOK /\ Fits(e) /\ Fits(c) /\ FindsLater(e) /\ InOrder
  BY DEF LoginInv, FramesFit, WaitInv
<1>2. CASE e # c
  <2>1. pc'[e] = pc[e] /\ frame'[e] = frame[e]
    BY <1>1, <1>2, OthersStay
  <2>2. ASSUME pc[e] = "loginRead", NEW d \in Conns, clients'[frame[e].slot] = d
        PROVE  Later(e, d)'
    <3>1. frame[e].slot \in Slots /\ d # NoConn
      BY <1>1, <2>2, FiniteSlots DEF Fits, NoConn
    <3>2. CASE clients[frame[e].slot] = d
      BY <1>1, <2>2, <3>2, LaterForGood DEF FindsLater
    <3>3. CASE clients[frame[e].slot] # d
      <4>1. d = c /\ pc[c] = "none"
        BY <1>1, <2>2, <3>1, <3>3, LaterStays
      <4>2. ~ (e < c)  => e > c
        BY <1>2 DEF Conns
      <4>3. c > e
        <5>1. e \in Int /\ c \in Int
          BY FiniteSlots
        <5>2. ~ (c < e)
          BY <1>1, <2>2, <4>1 DEF InOrder
        <5> QED
          BY <1>2, <5>1, <5>2
      <4> QED
        BY <4>1, <4>3 DEF Later
    <3> QED
      BY <3>2, <3>3
  <2>3. ASSUME pc[e] = "loginRef" PROVE Later(e, frame[e].peer)'
    <3>1. frame[e].peer \in Conns /\ Later(e, frame[e].peer)
      BY <1>1, <2>3 DEF Fits, FindsLater
    <3>2. PICK d \in Conns : d = frame[e].peer
      BY <3>1
    <3>3. Later(e, d)'
      BY <1>1, <3>1, <3>2, LaterForGood
    <3> QED
      BY <2>1, <3>2, <3>3 DEF Later
  <2> QED
    BY <2>1, <2>2, <2>3 DEF FindsLater
<1>3. CASE e = c
  <2> USE DEF TypeOK, Goto, Return, Request, Answer, At, registries, logins,
              history, asking
  <2>1. CASE LoginScan(c)
    <3> SUFFICES ASSUME pc'[c] = "loginRead", NEW d \in Conns, clients'[frame'[c].slot] = d
                 PROVE  Later(c, d)'
      BY <1>1, <1>3, <2>1 DEF LoginScan, FindsLater
    <3>1. LoggedInAs(frame[c].name) # {} /\ frame'[c].slot = First(LoggedInAs(frame[c].name))
          /\ clients' = clients /\ playerRef' = playerRef
      <4>1. pc'[c] = "loginRead" /\ "loginRead" # "set"
        OBVIOUS
      <4>2. LoggedInAs(frame[c].name) # {}
        BY <1>1, <2>1, <4>1 DEF LoginScan
      <4>3. frame' = [frame EXCEPT ![c].slot = First(LoggedInAs(frame[c].name))]
        BY <2>1, <4>2 DEF LoginScan
      <4>4. frame'[c].slot = First(LoggedInAs(frame[c].name))
        BY <1>1, <4>3 DEF Frames
      <4> QED
        BY <2>1, <4>2, <4>4 DEF LoginScan
    <3>2. LoggedInAs(frame[c].name) \in SUBSET Slots
      BY DEF LoggedInAs
    <3>3. PICK i \in LoggedInAs(frame[c].name) : frame'[c].slot = i
      BY <3>1, <3>2, FirstSlotIn
    <3>4. clients[i] = d /\ playerRef[d] # NoPlayer
      BY <3>1, <3>3 DEF LoggedInAs
    <3> QED
      BY <3>1, <3>4 DEF Later
  <2>2. CASE LookupRead(c) /\ clients[frame[c].slot] = NoConn
    <3>1. pc' = pc /\ frame' = frame /\ clients' = clients /\ playerRef' = playerRef
      BY <2>2 DEF LookupRead
    <3> QED
      BY <1>1, <1>3, <3>1 DEF FindsLater, Later
  <2>3. CASE LookupRead(c) /\ clients[frame[c].slot] # NoConn
    <3> SUFFICES ASSUME pc'[c] = "loginRef" PROVE Later(c, frame[c].peer)'
      <4>1. pc'[c] # "loginRead"
        BY <1>1, <2>3 DEF LookupRead
      <4> QED
        BY <1>3, <4>1 DEF FindsLater
    <3>1. /\ pc[c] = "loginRead" /\ clients[frame[c].slot] # NoConn
          /\ frame'[c].peer = clients[frame[c].slot]
      <4>1. pc[c] = "loginRead" \/ pc[c] = "inviteRead"
        BY <2>3 DEF LookupRead
      <4>2. clients[frame[c].slot] # NoConn
        BY <2>3, <4>1 DEF LookupRead
      <4>3. /\ frame' = [frame EXCEPT ![c].peer = clients[frame[c].slot]]
            /\ pc' = [pc EXCEPT ![c] = IF pc[c] = "loginRead" THEN "loginRef" ELSE "inviteRef"]
        BY <2>3, <4>2 DEF LookupRead
      <4>4. frame'[c].peer = clients[frame[c].slot]
        BY <1>1, <4>3 DEF Frames
      <4> QED
        BY <1>1, <4>1, <4>2, <4>3, <4>4
    <3>2. PICK d \in Conns : d = clients[frame[c].slot] /\ frame'[c].peer = d
      BY <1>1, <3>1 DEF Fits
    <3>3. Later(c, d)
      BY <1>1, <1>3, <3>1, <3>2 DEF FindsLater
    <3>4. Later(c, d)'
      BY <1>1, <3>3, LaterForGood
    <3> QED
      BY <3>2, <3>4, Zenon DEF Later
  <2>4. CASE LookupFreed(c)
    <3>1. pc' = pc /\ frame' = frame /\ clients' = clients /\ playerRef' = playerRef
      BY <2>4 DEF LookupFreed
    <3> QED
      BY <1>1, <1>3, <3>1 DEF FindsLater, Later
  <2>5. CASE \/ Register(c) \/ Login(c) \/ LoginNoPayload(c) \/ Invite(c)
             \/ InviteNoPayload(c) \/ ReadEof(c)
    <3>1. pc'[c] \notin {"loginRead", "loginRef"}
      BY <1>1, <2>5 DEF Register, Login, LoginNoPayload, Invite, InviteNoPayload,
                        ReadEof
    <3> QED
      BY <1>3, <3>1 DEF FindsLater
  <2>6. CASE \/ RegisterScan(c) \/ RegisterTake(c) \/ LoginRefused(c)
             \/ LoginSet(c) \/ LoginFound(c)
    <3>1. pc'[c] \notin {"loginRead", "loginRef"}
      BY <1>1, <2>6 DEF RegisterScan, RegisterTake, LoginRefused, LoginSet, LoginFound
    <3> QED
      BY <1>3, <3>1 DEF FindsLater
  <2>7. CASE InviteScan(c) \/ InviteRef(c) \/ MakeInvitation(c) \/ MakeTarget(c)
             \/ Logout(c) \/ Unref(c) \/ Unregister(c)
    <3>1. pc'[c] \notin {"loginRead", "loginRef"}
      BY <1>1, <2>7 DEF InviteScan, InviteRef, MakeInvitation, MakeTarget, Logout,
                        Unref, Unregister
    <3> QED
      BY <1>3, <3>1 DEF FindsLater
  <2> QED
    BY <2>1, <2>3, <2>4, <2>5, <2>6, <2>7, <2>2 DEF Step, Proceed
<1> QED
  BY <1>2, <1>3

\* The last to register of those that wait for one another waits for nobody.
LEMMA WaitsEnd == LoginInv /\ WaitInv => NoCircularWait
<1> SUFFICES ASSUME LoginInv, WaitInv, NEW S \in SUBSET Conns, S # {},
                    \A c \in S : \E d \in S : WaitsFor(c, d)
             PROVE  FALSE
  BY DEF NoCircularWait
<1>1. ASSUME NEW c \in S, NEW d \in S, WaitsFor(c, d) PROVE pc[d] = "loginRef"
  <2>1. pc[d] = "take" \/ pc[d] \in Holding
    BY <1>1 DEF WaitsFor, WaitInv, SephsHeld, LoginInv, PregSound
  <2>2. PICK e \in S : WaitsFor(d, e)
    OBVIOUS
  <2> QED
    BY <2>1, <2>2 DEF WaitsFor, Holding
<1> DEFINE H == {c \in S : pc[c] = "loginRef"}
<1>2. H # {}
  BY <1>1
<1>3. H \in SUBSET Int /\ IsFiniteSet(H)
  <2>1. H \in SUBSET Conns /\ Conns \subseteq Nat /\ IsFiniteSet(Conns)
    BY FiniteSlots
  <2> HIDE DEF H
  <2>2. IsFiniteSet(H)
    BY <2>1, FS_Subset
  <2>3. H \in SUBSET Int
    BY <2>1
  <2> QED
    BY <2>2, <2>3
<1>4. PICK c \in H : \A d \in H : d <= c
  <2> HIDE DEF H
  <2> QED
    BY <1>2, <1>3, GreatestExists
<1>5. PICK d \in S : WaitsFor(c, d)
  OBVIOUS
<1>6. d \in H /\ d = frame[c].peer /\ c \in Conns /\ d \in Conns
  BY <1>1, <1>5 DEF WaitsFor
<1>7. playerRef[d] = NoPlayer /\ pc[d] = "loginRef"
  BY <1>6 DEF LoginInv, FramesFit, Fits
<1>8. Later(c, d)
  BY <1>6 DEF WaitInv, FindsLater
<1>9. d > c
  BY <1>7, <1>8 DEF Later, Ending
<1> QED
  BY <1>4, <1>6, <1>9 DEF Conns

(***************************************************************************)
(* No threads wait for each other in a circle, in client_login, INVITE,    *)
(* logout or the end of a connection.                                      *)
(***************************************************************************)
THEOREM NobodyWaitsInACircle == Spec => []NoCircularWait
<1>1. Init => WaitInv
  BY DEF Init, WaitInv, SephsHeld, InOrder, FindsLater, Holding
<1>2. LoginInv /\ WaitInv /\ [Next]_vars => WaitInv'
  <2> SUFFICES ASSUME LoginInv, WaitInv, [Next]_vars PROVE WaitInv'
    OBVIOUS
  <2>1. CASE UNCHANGED vars
    BY <2>1 DEF vars, WaitInv, SephsHeld, InOrder, FindsLater, Later
  <2>2. ASSUME NEW c \in Conns, Step(c) PROVE WaitInv'
    BY <2>2, SephsStep, InOrderStep, FindsStep DEF WaitInv
  <2> QED
    BY <2>1, <2>2 DEF Next, Step
<1> QED
  BY <1>1, <1>2, WaitsEnd, LoginInvariant, PTL DEF Spec
=============================================================================
