---------------------------- MODULE AnswerProofs ----------------------------
(***************************************************************************)
(* For any number of clients, invitations and slots: what an ACK of Match  *)
(* says is true, and no game is rated that can still be played by both.    *)
(*                                                                         *)
(* Both rest on what a request can find in its slot.  AnswerInv says it    *)
(* thread by thread:                                                       *)
(*                                                                         *)
(*   - Names: the invitation that a request found in its slot is in that   *)
(*     slot or out of the list for good, and what has come into the slot   *)
(*     since was made by another client, for the client is busy;           *)
(*   - Removed: where the request has taken it out;                        *)
(*   - Keeps: nobody takes an invitation from the list of its target but   *)
(*     the target.  (From that of its source others do, which is why an    *)
(*     ACK says less to the source.)                                       *)
(*   - Ends: so the end of a game takes out what it names first from the   *)
(*     list of its source;                                                 *)
(*   - Roled: who resigns without a role was invited to play role 0;       *)
(*   - Done: what the request has done to the invitation, which lasts by   *)
(*     what MatchProofs shows of the life of an invitation.                *)
(*                                                                         *)
(* All are said of a place p and locals f, so that of a step that looks at *)
(* something only the place and the locals it goes on with matter.  A step *)
(* of a thread is shown to keep the part of every other thread (OthersFit) *)
(* and then, by the kind of step it is (OwnFits), its own.  Rated says     *)
(* what becomes of a game whose result has been posted.                    *)
(***************************************************************************)
EXTENDS MatchProofs

\* A made invitation that will not be put in a list again.
Past(u) == /\ u \in Invs /\ inv[u].state # "NONE"
           /\ \A d \in Clients : pc[d] \in MadePCs => frame[d].inv # u

Mine(c, u) == Past(u) /\ c \in {inv[u].source, inv[u].target}

\* What the slot holds now, and whether what it held is in the list.
Now(c, f) == listOfInv[c][f.id]
Out(c, f) == ~ InList(c, f.inv)

\* What a request has read: what its slot held first, or what was put there
\* when that was gone.
Got(c, f, u) ==
    u # NoInv => /\ Mine(c, u)
                 /\ u # f.inv => inv[u].source # c /\ Out(c, f)

Names(c, f) ==
    /\ f.id \in Slots
    /\ f.inv \in Invs /\ Mine(c, f.inv)
    /\ ~ Out(c, f) => Now(c, f) = f.inv
    /\ Now(c, f) \notin {NoInv, f.inv} => inv[Now(c, f)].source # c
    /\ Got(c, f, f.aim) /\ Got(c, f, f.arg)

\* The requests that a step serves.
EndPCs  == {"endSource", "endTarget", "endRole", "endPost"}
TakePCs == {"ownArg", "removeOwn", "peerArg", "removePeer"}

Kind(p, f) ==
    /\ p \in {"revoke", "revokeSource", "revokeTarget"} => f.op = "revoke"
    /\ p \in {"decline", "declineTarget"} => f.op = "decline"
    /\ p \in {"post", "close"} => f.op = "resign"
    /\ p \in AskPCs => f.op \in {"resign", "move"}
    /\ p \in TakePCs => f.op \in {"revoke", "decline", "resign"}
    /\ p \in {"accept", "acceptSource", "acceptGame", "acceptState", "acceptRole"} =>
           f.op = "accept"
    /\ p = "scan" => f.op \in {"accept", "move"}
    /\ p \in EndPCs \cup {"move", "parse", "apply", "moved", "state", "sourceArg",
                          "removeSource", "tellSource", "targetArg",
                          "removeTarget", "tellTarget"} => f.op = "move"

Removed(c, p, f) ==
    /\ \/ p \in {"peerArg", "removePeer"}
       \/ p \in {"notify", "ack"} /\ f.op \in {"revoke", "decline", "resign"}
       => Out(c, f)
    /\ p = "removeOwn" /\ ~ Out(c, f) => f.arg = f.inv
    /\ p = "removePeer" => f.arg # f.inv

Keeps(c, p, f) ==
    /\ p \in {"accept", "move", "post", "close"} \cup AskPCs
          /\ inv[f.inv].target = c => Now(c, f) = f.inv
    /\ p \in {"post", "close"} =>
           /\ f.aim \in Invs
           /\ inv[f.aim].target = c => Now(c, f) = f.aim

Ends(c, p, f) ==
    /\ p \in AskPCs \cup {"parse", "apply", "moved"} /\ f.op = "move" => f.aim \in Invs
    /\ p \in EndPCs => f.aim \in Invs /\ game[f.aim].over
    /\ p \in {"endTarget", "endRole", "endPost", "sourceArg", "removeSource"}
          /\ ~ Out(c, f) => f.peer = inv[f.inv].source
    /\ p = "removeSource" => /\ ~ Out(c, f) => f.arg = f.inv
                             /\ f.arg = f.inv => f.peer = inv[f.inv].source
    /\ p \in {"tellSource", "targetArg", "removeTarget"} /\ inv[f.inv].source = c =>
           /\ Out(c, f)
           /\ p = "removeTarget" => f.arg # f.inv

Roled(p, f) ==
    /\ p = "target" => f.role # NullRole
    /\ p \in {"post", "close"} /\ f.role = NullRole => inv[f.aim].targetR = NullRole

Done(c, p, f) ==
    LET v == f.inv
    IN  /\ \/ p = "revokeSource" /\ Now(c, f) = v
           \/ p = "revokeTarget"
           \/ p \in TakePCs \cup {"notify", "ack"} /\ f.op = "revoke"
           => inv[v].state = "CLOSED" /\ game[v] = NoGame
        /\ inv[v].target = c =>
           /\ \/ p = "acceptSource"
              \/ p \in {"scan", "acceptGame", "acceptState", "acceptRole",
                        "notify", "ack"} /\ f.op = "accept"
              => game[v] # NoGame
           /\ p \in TakePCs \cup {"notify", "ack"} /\ f.op = "resign" =>
                  inv[v].state = "CLOSED" \/ inv[v].targetR = NullRole

Good(c, p, f) == /\ Kind(p, f) /\ Names(c, f) /\ Removed(c, p, f) /\ Keeps(c, p, f)
                 /\ Ends(c, p, f) /\ Roled(p, f) /\ Done(c, p, f)

Serving(c) == \/ pc[c] \in CurPCs
              \/ pc[c] \in {"notify", "ack"} /\ frame[c].op \in Requests

Fits(c) == /\ pc[c] \in InvitePCs => frame[c].op = "invite"
           /\ Serving(c) => Good(c, pc[c], frame[c])

\* An invitation is made by a client, to another.
Apart(v) == inv[v].state # "NONE" => inv[v].source \in Clients \ {inv[v].target}

AnswerInv == (\A c \in Clients : Fits(c)) /\ (\A v \in Invs : Apart(v))

\* What becomes of a game that was rated.
Settled(v) ==
    \/ game[v].over
    \/ inv[v].state = "CLOSED"
    \/ ~ InList(inv[v].source, v)
    \/ inv[v].targetR = NullRole
    \/ inv[v].seph = 0

Rated(v) == posts[v] > 0 =>
    /\ Past(v)
    /\ Settled(v) \/ \E c \in Clients : pc[c] = "close" /\ frame[c].aim = v

StepOf(c) == Receive(c) \/ Invite(c) \/ Hangup(c) \/ Block(c) \/ Serve(c)

-----------------------------------------------------------------------------
\* In the life of an invitation nothing is taken back: closed stays closed,
\* without a game if there was none; a game stays, and stays over.
Lasts(v) ==
    /\ inv[v].state # "NONE" => /\ inv'[v].state # "NONE"
                                /\ inv'[v].source = inv[v].source
                                /\ inv'[v].target = inv[v].target
                                /\ inv'[v].targetR = inv[v].targetR
    /\ inv[v].state = "CLOSED" => /\ inv'[v].state = "CLOSED"
                                  /\ game[v] = NoGame => game'[v] = NoGame
    /\ game[v] # NoGame => game'[v] # NoGame
    /\ game[v].over => game'[v].over
    /\ inv[v].seph = 0 => inv'[v].seph = 0

LEMMA LifeLasts ==
    ASSUME MatchInv, NEW v \in Invs, LifeStep(v)
    PROVE  /\ inv[v].state = "CLOSED" =>
                  /\ inv'[v].state = "CLOSED"
                  /\ game[v] = NoGame => game'[v] = NoGame
           /\ game[v] # NoGame => game'[v] # NoGame
           /\ game[v].over => game'[v].over
<1>1. /\ game[v] \in Games \cup {NoGame} /\ inv[v].state \in States
      /\ Abs(v)!GameMatchesState
  BY DEF MatchInv, TypeOK, Invitations, GameOfState
<1>2. ~ NoGame.over
  BY DEF NoGame
<1> USE <1>1, <1>2, SameGames, GamesStay, FirstGames
<1>3. CASE Abs(v)!Create
  BY <1>3 DEF Abs!Create
<1>4. CASE Abs(v)!Accept
  BY <1>4 DEF Abs!Accept, Abs!GameMatchesState
<1>5. CASE Abs(v)!Play
  <2>1. game[v] \in Games /\ game[v] # NoGame
    BY <1>5 DEF Abs!Play
  <2>2. game'[v] \in AfterMove(game[v]) /\ inv'[v].state = inv[v].state
    BY <1>5 DEF Abs!Play
  <2>3. game'[v] \in Games /\ (game[v].over => game'[v].over)
    BY <2>1, <2>2
  <2> QED
    BY <2>1, <2>2, <2>3
<1>6. CASE Abs(v)!Misplay
  <2>1. game[v] \in Games /\ game[v] # NoGame
    BY <1>6 DEF Abs!Misplay
  <2>2. game'[v] = AfterMisplay(game[v]) /\ inv'[v].state = inv[v].state
    BY <1>6 DEF Abs!Misplay
  <2>3. game'[v] \in Games /\ game'[v].over = game[v].over
    BY <2>1, <2>2
  <2> QED
    BY <2>1, <2>2, <2>3
<1>7. CASE Abs(v)!CloseOpen
  BY <1>7 DEF Abs!CloseOpen
<1>8. CASE Abs(v)!CloseGame
  <2>1. game[v] \in Games /\ inv[v].state = "ACCEPTED"
    BY <1>8 DEF Abs!CloseGame, Abs!GameMatchesState
  <2> QED
    BY <1>8, <2>1 DEF Abs!CloseGame
<1>9. CASE UNCHANGED <<inv[v].state, game[v]>>
  BY <1>9
<1> QED
  BY <1>3, <1>4, <1>5, <1>6, <1>7, <1>8, <1>9 DEF LifeStep, Abs!Next

-----------------------------------------------------------------------------
\* A list operation overwrites old by new in one list, and no other entry.
LEMMA ChangeEffect ==
    ASSUME TypeOK, NEW c, NEW d, NEW old, NEW new, NEW found, NEW missing,
           Change(c, d, old, new, found, missing),
           NEW e \in Clients, NEW i \in Slots, listOfInv'[e][i] # listOfInv[e][i]
    PROVE  e = d /\ listOfInv[e][i] = old /\ listOfInv'[e][i] = new
<1>1. listOfInv' = [listOfInv EXCEPT ![d] = Overwrite(listOfInv[d], old, new)]
  BY DEF Change
<1>2. e = d
  BY <1>1 DEF TypeOK
<1>3. listOfInv'[e] = Overwrite(listOfInv[e], old, new)
  BY <1>1, <1>2 DEF TypeOK
<1>4. PICK s : s = FirstSlot(listOfInv[e], old)
  OBVIOUS
<1>5. (s \in Slots /\ listOfInv[e][s] = old) \/ s = NoSlot
  BY <1>4, FirstSlotFinds
<1>6. listOfInv'[e] = IF s = NoSlot THEN listOfInv[e]
                      ELSE [listOfInv[e] EXCEPT ![s] = new]
  BY <1>3, <1>4 DEF Overwrite
<1>7. listOfInv[e] \in [Slots -> Invs \cup {NoInv}]
  BY DEF TypeOK
<1> QED
  BY <1>2, <1>5, <1>6, <1>7

\* The steps that change a list.
LEMMA ListChanges ==
    ASSUME NEW d \in Clients, StepOf(d)
    PROVE  UNCHANGED listOfInv \/ RemoveSteps(d)
               \/ AddSource(d) \/ AddTarget(d)
<1>1. LookSteps(d) => UNCHANGED listOfInv
  BY LookUntouched
<1>2. WriteSteps(d) => UNCHANGED listOfInv
  BY DEF WriteSteps, Answer, Notify, TellSource, TellTarget, Block, Written, MayBlock
<1>3. DataSteps(d) => UNCHANGED listOfInv
  BY DEF DataSteps, RevokeClose, ResignPost, ResignClose, Accept, MoveApply,
     EndPost, Logout, LogoutDone, NullCrash
<1>4. Invite(d) \/ LookupRef(d) \/ RefSource(d) \/ Create(d) => UNCHANGED listOfInv
  BY DEF Invite, LookupRef, RefSource, Create, Look, Refuse
<1> QED
  BY <1>1, <1>2, <1>3, <1>4, AllSteps DEF StepOf, InviteSteps

\* Only client_add_invitation puts anything in a list, and that is what its
\* thread has made.
Puts(d) == \A e \in Clients, i \in Slots :
               \/ listOfInv'[e][i] \in {listOfInv[e][i], NoInv}
               \/ /\ pc[d] \in MadePCs /\ listOfInv'[e][i] = frame[d].inv
                  /\ listOfInv[e][i] = NoInv

LEMMA PutsStep ==
    ASSUME TypeOK, NEW d \in Clients, StepOf(d)
    PROVE  Puts(d)
<1>1. CASE UNCHANGED listOfInv
  BY <1>1 DEF Puts
<1>2. CASE RemoveSteps(d)
  <2>1. \E e, v, found, missing : Remove(d, e, v, found, missing)
    BY <1>2 DEF RemoveSteps, RemoveOwn, RemovePeer, RemoveSource, RemoveTarget
  <2> QED
    BY <2>1, RemoveEmpties DEF Puts
<1>3. CASE AddSource(d) \/ AddTarget(d)
  <2>1. pc[d] \in MadePCs
    BY <1>3 DEF AddSource, AddTarget, At, MadePCs
  <2>2. \E e, found, missing : Change(d, e, NoInv, frame[d].inv, found, missing)
    BY <1>3 DEF AddSource, AddTarget, Add
  <2> QED
    BY <2>1, <2>2, ChangeEffect DEF Puts
<1> QED
  BY <1>1, <1>2, <1>3, ListChanges

\* What a step of d does to the lists and to who takes part in what.
Grown(d) == /\ \A v \in Invs : Lasts(v)
            /\ Puts(d)
            /\ \A u : Past(u) => Past(u)'

\* What is made is not past yet when it is put in a list.
LEMMA PastStays ==
    ASSUME NEW d \in Clients, Threads(d), NEW u, Past(u), Lasts(u),
           pc'[d] \in MadePCs => frame'[d].inv # u
    PROVE  Past(u)'
BY DEF Past, Lasts, Threads

LEMMA GrownStep ==
    ASSUME MatchInv, NEW d \in Clients, StepOf(d)
    PROVE  /\ Grown(d) /\ Threads(d)
           /\ MatchInv' /\ \A v \in Invs : LifeStep(v)
<1>1. TypeOK /\ FramesSound /\ Offering(d) /\ Adding(d)
  BY DEF MatchInv
<1>2. Threads(d)
  BY <1>1, ThreadStep DEF StepOf
<1>3. MatchInv' /\ \A v \in Invs : LifeStep(v)
  BY MatchStep DEF StepOf, Next
<1>4. Puts(d)
  BY <1>1, PutsStep
<1>5. ASSUME NEW v \in Invs, inv[v].state # "NONE" => Kept(v) PROVE Lasts(v)
  <2>1. inv[v].seph = 0 => inv[v].state = "ACCEPTED"
    BY DEF MatchInv, GameOfState, StuckFits
  <2> QED
    BY <1>3, <1>5, <2>1, LifeLasts DEF Lasts, Kept
<1>6. CASE ~ InviteSteps(d)
  <2>1. Calm(d)
    BY <1>6, AllSteps, CalmStep DEF StepOf
  <2>2. \A v \in Invs : Lasts(v)
    BY <1>5, <2>1 DEF Calm, Lives
  <2>3. pc'[d] \notin MadePCs
    BY <1>2, <1>6 DEF Threads, InvitePCs
  <2> QED
    BY <1>2, <1>3, <1>4, <2>2, <2>3, PastStays DEF Grown, Past
<1>7. CASE Invite(d) \/ LookupRef(d) \/ RefSource(d)
  <2>1. UNCHANGED inv /\ pc'[d] \notin MadePCs
    BY <1>1, <1>7, ReturnFrame DEF Invite, LookupRef, RefSource, Look, Refuse, Goto,
       TypeOK, MadePCs
  <2>2. \A v \in Invs : Lasts(v)
    BY <1>1, <1>5, <2>1, RefNat DEF Kept
  <2> QED
    BY <1>2, <1>3, <1>4, <2>1, <2>2, PastStays DEF Grown, Past
<1>8. CASE Create(d)
  <2>1. PICK v \in Invs : v = frame[d].inv /\ inv[v].state = "NONE"
    BY <1>1, <1>8 DEF Create, At, Offering, ChosenPCs
  <2>2. frame' = frame /\ \A w \in Invs \ {v} : inv'[w] = inv[w]
    BY <1>1, <1>8, <2>1 DEF Create, TypeOK
  <2>3. \A w \in Invs : Lasts(w)
    BY <1>1, <1>5, <2>1, <2>2, RefNat DEF Kept
  <2> QED
    BY <1>2, <1>3, <1>4, <2>1, <2>2, <2>3, PastStays DEF Grown, Past
<1>9. CASE AddSource(d) \/ AddTarget(d)
  <2>0. PICK v \in Invs : v = frame[d].inv
    BY <1>1, <1>9 DEF AddSource, AddTarget, At, Adding, MadePCs
  <2>1. PICK e, found, missing : Change(d, e, NoInv, v, found, missing)
    BY <1>9, <2>0 DEF AddSource, AddTarget, Add
  <2>2. Steady(inv')
    BY <1>1, <2>1, ChangeType
  <2>3. \A w \in Invs : Lasts(w)
    BY <1>5, <2>2 DEF Kept, Steady
  <2>4. pc[d] \in MadePCs
    BY <1>9 DEF AddSource, AddTarget, At, MadePCs
  <2>5. pc'[d] \in MadePCs => frame'[d].inv = v
    <3>0. frame[d] \in Frames
      BY <1>1 DEF TypeOK
    <3>1. ASSUME NEW p, GoOn(d, p) PROVE pc'[d] \in MadePCs => frame'[d].inv = v
      <4>1. CASE p = "fail"
        BY <1>1, <3>1, <4>1, ReturnFrame DEF GoOn, MadePCs
      <4>2. CASE p # "fail"
        <5>1. PICK f : f = [frame[d] EXCEPT !.arg = NoInv]
          OBVIOUS
        <5>2. f.inv = v
          BY <2>0, <3>0, <5>1 DEF Frames
        <5>3. frame' = [frame EXCEPT ![d] = f]
          BY <3>1, <4>2, <5>1 DEF GoOn
        <5> QED
          BY <1>1, <5>2, <5>3 DEF TypeOK
      <4> QED
        BY <4>1, <4>2
    <3>2. CASE UNCHANGED frame
      BY <2>0, <3>2
    <3> QED
      BY <2>1, <3>1, <3>2 DEF Change
  <2> QED
    BY <1>2, <1>3, <1>4, <2>0, <2>3, <2>4, <2>5, PastStays DEF Grown, Past
<1> QED
  BY <1>6, <1>7, <1>8, <1>9 DEF InviteSteps

-----------------------------------------------------------------------------
(***************************************************************************)
(* A step of thread d, and the part of the invariant of another thread c.  *)
(***************************************************************************)

\* A thread that removes an invitation is serving a request.
LEMMA RemoveServes ==
    ASSUME NEW d, RemoveSteps(d), Fits(d)
    PROVE  Good(d, pc[d], frame[d])
<1>1. pc[d] \in CurPCs
  BY DEF RemoveSteps, RemoveOwn, RemovePeer, RemoveSource, RemoveTarget, At, CurPCs
<1> QED
  BY <1>1 DEF Fits, Serving

\* Nobody takes an invitation from its target but the target: what another
\* thread removes from that list it has read from its own, and it was not
\* made by the other.
LEMMA TargetKeeps ==
    ASSUME MatchInv, NEW c \in Clients, NEW d \in Clients, c # d, StepOf(d), Fits(d),
           NEW i \in Slots, NEW u \in Invs, listOfInv[c][i] = u, inv[u].target = c,
           Apart(u)
    PROVE  listOfInv'[c][i] = u
<1> SUFFICES ASSUME listOfInv'[c][i] # listOfInv[c][i]
             PROVE  FALSE
  OBVIOUS
<1>1. TypeOK /\ u # NoInv
  BY MatchAssumption DEF MatchInv
<1>2. ASSUME NEW e, NEW arg, NEW found, NEW missing, Remove(d, e, arg, found, missing)
      PROVE  c = e /\ arg = u
  BY <1>1, <1>2, ChangeEffect DEF Remove
<1>3. PICK f : f = frame[d]
  OBVIOUS
<1>4. ASSUME RemoveSteps(d), f.arg = u
      PROVE  /\ inv[u].source = d /\ f.inv = u
             /\ inv[u].source # c
  <2>1. Good(d, pc[d], f)
    BY <1>3, <1>4, RemoveServes
  <2>2. Got(d, f, u)
    BY <1>4, <2>1 DEF Good, Names
  <2>3. d \in {inv[u].source, inv[u].target} /\ inv[u].state # "NONE"
    BY <1>1, <2>2 DEF Got, Mine, Past
  <2> QED
    BY <1>1, <2>2, <2>3 DEF Got, Apart
<1>5. CASE RemoveOwn(d)
  BY <1>2, <1>5 DEF RemoveOwn
<1>6. CASE RemovePeer(d)
  <2>1. pc[d] = "removePeer" /\ f.arg = u
    BY <1>2, <1>3, <1>6 DEF RemovePeer, At
  <2>2. Removed(d, pc[d], f)
    BY <1>3, <1>6, RemoveServes DEF RemoveSteps, Good
  <2> QED
    BY <1>4, <1>6, <2>1, <2>2 DEF RemoveSteps, Removed
<1>7. CASE RemoveSource(d)
  <2>1. pc[d] = "removeSource" /\ f.arg = u /\ f.peer = c
    BY <1>2, <1>3, <1>7 DEF RemoveSource, At
  <2>2. Ends(d, pc[d], f)
    BY <1>3, <1>7, RemoveServes DEF RemoveSteps, Good
  <2> QED
    BY <1>4, <1>7, <2>1, <2>2 DEF RemoveSteps, Ends
<1>8. CASE RemoveTarget(d)
  <2>1. pc[d] = "removeTarget" /\ f.arg = u
    BY <1>2, <1>3, <1>8 DEF RemoveTarget, At
  <2>2. Ends(d, pc[d], f)
    BY <1>3, <1>8, RemoveServes DEF RemoveSteps, Good
  <2> QED
    BY <1>4, <1>8, <2>1, <2>2 DEF RemoveSteps, Ends
<1>9. CASE AddSource(d) \/ AddTarget(d)
  <2>1. \E e, v, found, missing : Change(d, e, NoInv, v, found, missing)
    BY <1>9 DEF AddSource, AddTarget, Add
  <2> QED
    BY <1>1, <2>1, ChangeEffect
<1> QED
  BY <1>5, <1>6, <1>7, <1>8, <1>9, ListChanges DEF RemoveSteps

\* What has been read stays what it was, and does not come back.
LEMMA MineStays ==
    ASSUME MatchInv, NEW c, NEW d \in Clients, Grown(d), NEW u, Mine(c, u)
    PROVE  /\ Mine(c, u)'
           /\ inv'[u].source = inv[u].source /\ inv'[u].target = inv[u].target
           /\ inv'[u].targetR = inv[u].targetR
           /\ \A e \in Clients, i \in Slots :
                 listOfInv'[e][i] = u => listOfInv[e][i] = u
           /\ \A e \in Clients : InList(e, u)' => InList(e, u)
<1>1. Past(u) /\ Past(u)' /\ Lasts(u)
  BY DEF Grown, Mine, Past
<1>2. ASSUME NEW e \in Clients, NEW i \in Slots, listOfInv'[e][i] = u
      PROVE  listOfInv[e][i] = u
  BY <1>1, <1>2, MatchAssumption DEF Grown, Puts, Past
<1>3. \A e \in Clients : InList(e, u)' => InList(e, u)
  BY <1>2 DEF InList
<1> QED
  BY <1>1, <1>2, <1>3 DEF Mine, Past, Lasts

\* So do the names of a request, if the step puts nothing of the client's own
\* making in a list.
LEMMA NamesStay ==
    ASSUME MatchInv, MatchInv', NEW c \in Clients, NEW d \in Clients, Grown(d),
           c # d \/ pc[d] \notin MadePCs, NEW f, Names(c, f)
    PROVE  /\ Names(c, f)'
           /\ Out(c, f) => Out(c, f)'
           /\ Now(c, f)' = f.inv => Now(c, f) = f.inv
<1>1. PICK v \in Invs : v = f.inv /\ Mine(c, v) /\ f.id \in Slots
  BY DEF Names
<1>2. /\ Mine(c, v)'
      /\ \A i \in Slots : listOfInv'[c][i] = v => listOfInv[c][i] = v
      /\ InList(c, v)' => InList(c, v)
  BY <1>1, MineStays
<1>3. Out(c, f) => Out(c, f)'
  BY <1>1, <1>2 DEF Out
<1>4. ~ Out(c, f)' => Now(c, f)' = v
  <2>1. SUFFICES ASSUME NEW i \in Slots, listOfInv'[c][i] = v PROVE i = f.id
    BY <1>1 DEF Out, InList, Now
  <2>2. listOfInv[c][i] = v
    BY <1>2, <2>1
  <2>3. listOfInv[c][f.id] = v
    BY <1>1, <2>2 DEF Names, Out, InList, Now
  <2> QED
    BY <1>1, <2>2, <2>3 DEF MatchInv, ListsSound
<1>5. Now(c, f)' \notin {NoInv, v} => inv'[Now(c, f)'].source # c
  <2>1. SUFFICES ASSUME NEW w, w = listOfInv'[c][f.id], w \notin {NoInv, v}
                 PROVE  inv'[w].source # c
    BY DEF Now
  <2>2. w \in Invs
    BY <1>1, <2>1 DEF MatchInv, TypeOK
  <2>3. CASE w = listOfInv[c][f.id]
    <3>1. inv[w].source # c
      BY <1>1, <2>1, <2>3 DEF Names, Now
    <3>2. inv[w].state # "NONE"
      BY <1>1, <2>2, <2>3 DEF MatchInv, ListsSound
    <3> QED
      BY <2>2, <3>1, <3>2 DEF Grown, Lasts
  <2>4. CASE w # listOfInv[c][f.id]
    <3>1. pc[d] \in MadePCs /\ w = frame[d].inv
      BY <1>1, <2>1, <2>4 DEF Grown, Puts
    <3>2. inv[w].source = d /\ inv[w].state # "NONE"
      BY <3>1 DEF MatchInv, Adding
    <3>3. c # d
      BY <3>1
    <3> QED
      BY <2>2, <3>2, <3>3 DEF Grown, Lasts
  <2> QED
    BY <2>3, <2>4
<1>6. ASSUME NEW u, Got(c, f, u) PROVE Got(c, f, u)'
  <2>1. SUFFICES ASSUME u # NoInv
                 PROVE  Mine(c, u)' /\ (u # f.inv => inv'[u].source # c /\ Out(c, f)')
    BY DEF Got
  <2>2. Mine(c, u) /\ (u # f.inv => inv[u].source # c /\ Out(c, f))
    BY <1>6, <2>1 DEF Got
  <2>3. Mine(c, u)' /\ inv'[u].source = inv[u].source
    BY <2>2, MineStays
  <2> QED
    BY <1>3, <2>2, <2>3
<1>7. Got(c, f, f.aim)' /\ Got(c, f, f.arg)'
  BY <1>6 DEF Names
<1>8. Now(c, f)' = v => Now(c, f) = v
  BY <1>1, <1>2 DEF Now
<1> QED
  BY <1>1, <1>2, <1>3, <1>4, <1>5, <1>7, <1>8 DEF Names

\* So the request of another thread is where it was, with what it had.
LEMMA OthersGood ==
    ASSUME MatchInv, MatchInv', NEW c \in Clients, NEW d \in Clients, Grown(d), c # d,
           NEW f, NEW p, Good(c, p, f),
           StepOf(d), Fits(d), \A v \in Invs : Apart(v)
    PROVE  Good(c, p, f)'
<1>1. /\ Names(c, f)'
      /\ Out(c, f) => Out(c, f)'
      /\ Now(c, f)' = f.inv => Now(c, f) = f.inv
  BY NamesStay DEF Good
<1>2. PICK v \in Invs : v = f.inv /\ Mine(c, v) /\ f.id \in Slots
  BY DEF Good, Names
<1>3. /\ inv'[v].source = inv[v].source /\ inv'[v].target = inv[v].target
      /\ inv'[v].targetR = inv[v].targetR
      /\ Lasts(v)
  BY <1>2, MineStays DEF Grown
<1>4. ASSUME f.aim \in Invs
      PROVE  /\ inv'[f.aim].target = inv[f.aim].target
             /\ inv'[f.aim].targetR = inv[f.aim].targetR
             /\ game[f.aim].over => game'[f.aim].over
  <2>1. Mine(c, f.aim)
    BY <1>4, MatchAssumption DEF Good, Names, Got
  <2> QED
    BY <1>4, <2>1, MineStays DEF Grown, Lasts
<1>5. ASSUME NEW u \in Invs, inv[u].target = c, Now(c, f) = u PROVE Now(c, f)' = u
  BY <1>2, <1>5, TargetKeeps DEF Now
<1>6. Removed(c, p, f)'
  BY <1>1 DEF Good, Removed
<1>7. Keeps(c, p, f)'
  BY <1>2, <1>3, <1>4, <1>5 DEF Good, Keeps
<1>8. Ends(c, p, f)'
  BY <1>1, <1>2, <1>3, <1>4 DEF Good, Ends
<1>9. Roled(p, f)'
  BY <1>4 DEF Good, Roled, Keeps
<1>10. Done(c, p, f)'
  BY <1>1, <1>2, <1>3 DEF Good, Done, Lasts
<1>11. Kind(p, f)'
  BY DEF Good, Kind
<1> QED
  BY <1>1, <1>6, <1>7, <1>8, <1>9, <1>10, <1>11 DEF Good

LEMMA OthersFit ==
    ASSUME MatchInv, NEW c \in Clients, NEW d \in Clients, c # d, StepOf(d),
           Fits(c), Fits(d), \A v \in Invs : Apart(v)
    PROVE  Fits(c)'
<1>1. Grown(d) /\ Threads(d) /\ MatchInv'
  BY GrownStep
<1>2. pc'[c] = pc[c] /\ frame'[c] = frame[c]
  BY <1>1 DEF Threads
<1>3. PICK f, p : f = frame[c] /\ p = pc[c]
  OBVIOUS
<1>4. Good(c, p, f) => Good(c, p, f)'
  BY <1>1, OthersGood
<1>5. Serving(c)' <=> Serving(c)
  BY <1>2 DEF Serving
<1>6. Good(c, p, f)' <=> Good(c, pc[c], frame[c])'
  BY <1>2, <1>3 DEF Good, Kind, Names, Removed, Keeps, Ends, Roled, Done, Now, Out, Got
<1> QED
  BY <1>2, <1>3, <1>4, <1>5, <1>6 DEF Fits

-----------------------------------------------------------------------------
(***************************************************************************)
(* A step of thread c, and its own part of the invariant.                  *)
(***************************************************************************)

\* What is in a client's list is past, unless his thread is about to list it.
LEMMA Listed ==
    ASSUME MatchInv, NEW c \in Clients, pc[c] \notin MadePCs, NEW i \in Slots,
           listOfInv[c][i] # NoInv
    PROVE  listOfInv[c][i] \in Invs /\ Mine(c, listOfInv[c][i])
<1>1. PICK u : u = listOfInv[c][i]
  OBVIOUS
<1>2. u \in Invs /\ InList(c, u)
  BY <1>1 DEF MatchInv, TypeOK, InList
<1>3. inv[u].state # "NONE" /\ c \in {inv[u].source, inv[u].target}
  BY <1>1, <1>2 DEF MatchInv, ListsSound
<1>4. ASSUME NEW d \in Clients, pc[d] \in MadePCs, frame[d].inv = u PROVE FALSE
  BY <1>2, <1>4 DEF MatchInv, Adding
<1> QED
  BY <1>1, <1>2, <1>3, <1>4 DEF Mine, Past

\* What a request reads from its slot it may note.
LEMMA CurGot ==
    ASSUME MatchInv, NEW c \in Clients, pc[c] \in CurPCs, NEW f, f = frame[c],
           Names(c, f)
    PROVE  /\ Cur(c) = Now(c, f) /\ Got(c, f, Cur(c)) /\ Got(c, f, NoInv)
           /\ Cur(c) = f.inv => ~ Out(c, f)
           /\ Cur(c) # NoInv => Cur(c) \in Invs
<1>1. PICK u : u = Cur(c) /\ u = Now(c, f)
  BY DEF Cur, Now
<1>2. pc[c] \notin MadePCs /\ f.id \in Slots
  BY Places DEF InvitePCs, Names
<1>3. u # NoInv => u \in Invs /\ Mine(c, u)
  BY <1>1, <1>2, Listed DEF Now
<1>4. u = f.inv => ~ Out(c, f)
  BY <1>1, <1>2 DEF Now, Out, InList
<1> QED
  BY <1>1, <1>3, <1>4 DEF Got, Names

\* Locals of a request that names what it may name.
LEMMA NamesOn ==
    ASSUME NEW c, NEW f, NEW g, Names(c, f), Near(f, g),
           Got(c, f, g.aim), Got(c, f, g.arg)
    PROVE  /\ Names(c, g) /\ Now(c, g) = Now(c, f) /\ Out(c, g) = Out(c, f)
           /\ g.op = f.op /\ g.inv = f.inv /\ f.inv \in Invs
BY DEF Names, Near, Now, Out, Got

\* A request goes on with what is good where it comes to...
LEMMA GoodFits ==
    ASSUME NEW c, NEW p, NEW f, pc'[c] = p, frame'[c] = f, p \notin InvitePCs,
           Good(c, p, f)'
    PROVE  Fits(c)'
<1>1. Good(c, p, f)' <=> Good(c, pc[c], frame[c])'
  BY DEF Good, Kind, Names, Removed, Keeps, Ends, Roled, Done, Now, Out, Got
<1> QED
  BY <1>1 DEF Fits

\* ...or is over.
LEMMA IdleFits ==
    ASSUME NEW c, pc'[c] \in {"recv", "nack", "logout", "hung", "eof", "gone"}
    PROVE  Fits(c)'
BY DEF Fits, Serving, CurPCs, DereferenceSteps, InvitePCs, ChosenPCs, MadePCs

LEMMA FailFits ==
    ASSUME TypeOK, NEW c \in Clients, Return(c, FALSE)
    PROVE  Fits(c)'
<1>1. pc'[c] = IF leaving[c] THEN "logout" ELSE "nack"
  BY DEF Return, Goto, TypeOK
<1> QED
  BY <1>1, IdleFits

\* What is good stays good if nothing but a thread changes.
LEMMA SameGood ==
    ASSUME NEW c, NEW p, NEW f, Good(c, p, f), Grown(c),
           UNCHANGED <<listOfInv, inv, game>>
    PROVE  Good(c, p, f)'
<1>1. \A u : Mine(c, u) => Mine(c, u)'
  BY DEF Grown, Mine
<1>2. Now(c, f)' = Now(c, f) /\ Out(c, f)' = Out(c, f)
  BY DEF Now, Out, InList
<1>3. \A u : Got(c, f, u) => Got(c, f, u)'
  BY <1>1, <1>2 DEF Got
<1>4. Names(c, f)'
  BY <1>1, <1>2, <1>3 DEF Good, Names
<1>5. Kind(p, f)' /\ Removed(c, p, f)' /\ Keeps(c, p, f)'
  BY <1>2 DEF Good, Kind, Removed, Keeps
<1>6. Ends(c, p, f)' /\ Roled(p, f)' /\ Done(c, p, f)'
  BY <1>2 DEF Good, Ends, Roled, Done
<1> QED
  BY <1>4, <1>5, <1>6 DEF Good

\* A look that goes on with what is good.
LEMMA LookFits ==
    ASSUME MatchInv, NEW c \in Clients, Grown(c), NEW p, NEW g, p \notin InvitePCs,
           Look(c, p, g), Good(c, p, g)
    PROVE  Fits(c)'
<1>1. pc'[c] = p /\ frame'[c] = g
  BY DEF Look, Goto, MatchInv, TypeOK
<1>2. Good(c, p, g)'
  BY SameGood DEF Look
<1> QED
  BY <1>1, <1>2, GoodFits

LEMMA RefuseFits ==
    ASSUME MatchInv, NEW c \in Clients, Refuse(c)
    PROVE  Fits(c)'
BY FailFits DEF Refuse, MatchInv

\* A request that begins, or that a logout makes.
LEMMA StartFits ==
    ASSUME MatchInv, NEW c \in Clients, Grown(c), pc[c] \notin MadePCs,
           NEW op \in Requests, NEW i \in Slots, listOfInv[c][i] # NoInv,
           Look(c, IF op = "resign" THEN "who" ELSE op,
                [Idle EXCEPT !.op = op, !.id = i, !.inv = listOfInv[c][i]])
    PROVE  Fits(c)'
<1>1. PICK v : v = listOfInv[c][i]
  OBVIOUS
<1>2. v \in Invs /\ Mine(c, v)
  BY <1>1, Listed
<1>3. PICK f : f = [Idle EXCEPT !.op = op, !.id = i, !.inv = v]
  OBVIOUS
<1>4. /\ f.op = op /\ f.id = i /\ f.inv = v /\ f.aim = NoInv /\ f.arg = NoInv
      /\ f.role = NullRole
  BY <1>3 DEF Idle
<1>5. Names(c, f) /\ Now(c, f) = v
  BY <1>1, <1>2, <1>4 DEF Names, Got, Now
<1>6. PICK p : p = IF op = "resign" THEN "who" ELSE op
  OBVIOUS
<1>7. \/ op = "resign" /\ p = "who"
      \/ p = op /\ op \in Requests \ {"resign"}
  BY <1>6
<1>8. Kind(p, f) /\ Removed(c, p, f) /\ Keeps(c, p, f)
  BY <1>4, <1>5, <1>7
     DEF Requests, Kind, Removed, Keeps, AskPCs, EndPCs, TakePCs
<1>9. Ends(c, p, f) /\ Roled(p, f) /\ Done(c, p, f)
  BY <1>4, <1>5, <1>7 DEF Requests, Ends, Roled, Done, AskPCs, EndPCs, TakePCs
<1>10. p \notin InvitePCs
  BY <1>7 DEF Requests, InvitePCs, ChosenPCs, MadePCs
<1> QED
  BY <1>1, <1>3, <1>5, <1>6, <1>8, <1>9, <1>10, LookFits DEF Good

\* The looks of a revoke, a decline and the end of both and of a resignation.
LEMMA RevokeLooks ==
    ASSUME MatchInv, NEW c \in Clients, Grown(c), Fits(c),
           \/ RevokeSource(c) \/ RevokeTarget(c) \/ DeclineSource(c)
           \/ DeclineTarget(c) \/ ReadOwn(c) \/ ReadPeers(c)
    PROVE  Fits(c)'
<1>1. PICK f : f = frame[c]
  OBVIOUS
<1>2. pc[c] \in CurPCs
  BY DEF RevokeSource, RevokeTarget, DeclineSource, DeclineTarget, ReadOwn, ReadPeers,
     Reads, At, CurPCs, DereferenceSteps
<1>3. Good(c, pc[c], f) /\ Names(c, f) /\ f \in Frames
  BY <1>1, <1>2 DEF Fits, Serving, Good, MatchInv, TypeOK
<1>4. PICK u : u = Cur(c)
  OBVIOUS
<1>5. /\ u = Now(c, f) /\ Got(c, f, u) /\ Got(c, f, NoInv)
      /\ u = f.inv => ~ Out(c, f)
      /\ u # NoInv => u \in Invs
      /\ f.inv \in Invs /\ f.inv # NoInv
  BY <1>1, <1>2, <1>3, <1>4, CurGot, MatchAssumption DEF Names
<1>6. CASE RevokeSource(c)
  <2>1. pc[c] = "revokeSource"
    BY <1>6 DEF RevokeSource, At
  <2>2. CASE Look(c, "revokeTarget", f) /\ SourceOf(u) = c
    <3>1. u = f.inv
      BY <1>5, <2>2, MatchAssumption DEF SourceOf, Got
    <3>2. Good(c, "revokeTarget", f)
      BY <1>3, <1>5, <2>1, <3>1
         DEF Good, Kind, Removed, Keeps, Ends, Roled, Done, AskPCs, EndPCs, TakePCs
    <3> QED
      BY <2>2, <3>2, LookFits DEF InvitePCs, ChosenPCs, MadePCs
  <2> QED
    BY <1>1, <1>4, <1>6, <2>2, RefuseFits DEF RevokeSource
<1>7. CASE RevokeTarget(c)
  <2>1. pc[c] = "revokeTarget"
    BY <1>7 DEF RevokeTarget, Reads, At
  <2>2. PICK g : g = [f EXCEPT !.peer = TargetOf(u)]
    OBVIOUS
  <2>3. Near(f, g) /\ g.aim = f.aim /\ g.arg = f.arg /\ g.role = f.role
    <3>1. TargetOf(u) \in Clients \cup {NoClient}
      BY <1>2, <1>4, <1>7, CurType DEF RevokeTarget, Reads, MatchInv
    <3> QED
      BY <1>3, <2>2, <3>1, KinClients DEF Kin, Frames
  <2>4. Names(c, g) /\ Now(c, g) = u /\ g.op = f.op /\ g.inv = f.inv
    BY <1>3, <1>5, <2>3, NamesOn DEF Names
  <2>5. Good(c, "ownArg", g)
    BY <1>3, <2>1, <2>3, <2>4
       DEF Good, Kind, Removed, Keeps, Ends, Roled, Done, AskPCs, EndPCs, TakePCs
  <2> QED
    BY <1>1, <1>4, <1>7, <2>2, <2>5, LookFits
       DEF RevokeTarget, InvitePCs, ChosenPCs, MadePCs
<1>8. CASE DeclineSource(c)
  <2>1. pc[c] = "decline"
    BY <1>8 DEF DeclineSource, At
  <2>2. PICK g : g = [f EXCEPT !.peer = SourceOf(u)]
    OBVIOUS
  <2>3. Near(f, g) /\ g.aim = f.aim /\ g.arg = f.arg /\ g.role = f.role
    <3>1. SourceOf(u) \in Clients \cup {NoClient}
      BY <1>2, <1>4, CurType DEF MatchInv
    <3> QED
      BY <1>3, <2>2, <3>1, KinClients DEF Kin, Frames
  <2>4. Names(c, g) /\ Now(c, g) = u /\ g.op = f.op /\ g.inv = f.inv
    BY <1>3, <1>5, <2>3, NamesOn DEF Names
  <2>5. Good(c, "declineTarget", g)
    BY <1>3, <2>1, <2>3, <2>4
       DEF Good, Kind, Removed, Keeps, Ends, Roled, Done, AskPCs, EndPCs, TakePCs
  <2> QED
    BY <1>1, <1>4, <1>8, <2>2, <2>5, LookFits
       DEF DeclineSource, InvitePCs, ChosenPCs, MadePCs
<1>9. CASE DeclineTarget(c)
  <2>1. pc[c] = "declineTarget"
    BY <1>9 DEF DeclineTarget, Reads, At
  <2>2. Good(c, "ownArg", f)
    BY <1>3, <2>1
       DEF Good, Kind, Removed, Keeps, Ends, Roled, Done, AskPCs, EndPCs, TakePCs
  <2> QED
    BY <1>1, <1>9, <2>2, LookFits, RefuseFits
       DEF DeclineTarget, InvitePCs, ChosenPCs, MadePCs
<1>10. PICK g : g = [f EXCEPT !.arg = u]
  OBVIOUS
<1>11. Near(f, g) /\ g.aim = f.aim /\ g.arg = u /\ g.role = f.role /\ g.peer = f.peer
  <2>1. u \in Invs \cup {NoInv}
    BY <1>5
  <2> QED
    BY <1>3, <1>10, <2>1, KinInvs DEF Kin, Frames
<1>12. /\ Names(c, g) /\ Now(c, g) = u /\ g.op = f.op /\ g.inv = f.inv
       /\ Out(c, g) = Out(c, f)
  BY <1>3, <1>5, <1>11, NamesOn DEF Names
<1>13. CASE ReadOwn(c)
  <2>1. pc[c] = "ownArg"
    BY <1>13 DEF ReadOwn, At
  <2>2. ~ Out(c, g) => g.arg = g.inv
    BY <1>11, <1>12 DEF Names
  <2>3. Good(c, "removeOwn", g)
    BY <1>3, <1>11, <1>12, <2>1, <2>2
       DEF Good, Kind, Removed, Keeps, Ends, Roled, Done, AskPCs, EndPCs, TakePCs
  <2> QED
    BY <1>1, <1>4, <1>10, <1>13, <2>3, LookFits
       DEF ReadOwn, ReadArg, InvitePCs, ChosenPCs, MadePCs
<1>14. CASE ReadPeers(c)
  <2>1. pc[c] = "peerArg"
    BY <1>14 DEF ReadPeers, At
  <2>2. Out(c, f)
    BY <1>3, <2>1 DEF Good, Removed
  <2>3. g.arg # g.inv
    BY <1>5, <1>11, <1>12, <2>2
  <2>4. Good(c, "removePeer", g)
    BY <1>3, <1>11, <1>12, <2>1, <2>2, <2>3
       DEF Good, Kind, Removed, Keeps, Ends, Roled, Done, AskPCs, EndPCs, TakePCs
  <2> QED
    BY <1>1, <1>4, <1>10, <1>14, <2>4, LookFits, RefuseFits
       DEF ReadPeers, ReadArg, InvitePCs, ChosenPCs, MadePCs
<1> QED
  BY <1>6, <1>7, <1>8, <1>9, <1>13, <1>14

\* The looks that ask who is who.
LEMMA AskLooks ==
    ASSUME MatchInv, NEW c \in Clients, Grown(c), Fits(c),
           \/ Who(c) \/ TargetsOpponent(c) \/ TargetsRole(c)
           \/ SourcesRole(c) \/ SourcesOpponent(c)
    PROVE  Fits(c)'
<1>1. PICK f : f = frame[c]
  OBVIOUS
<1>2. pc[c] \in CurPCs
  BY DEF Who, TargetsOpponent, TargetsRole, SourcesRole, SourcesOpponent, Reads, At,
     CurPCs, DereferenceSteps
<1>3. Good(c, pc[c], f) /\ Names(c, f) /\ f \in Frames
  BY <1>1, <1>2 DEF Fits, Serving, Good, MatchInv, TypeOK
<1>4. PICK u : u = Cur(c)
  OBVIOUS
<1>5. /\ u = Now(c, f) /\ Got(c, f, u) /\ Got(c, f, NoInv)
      /\ u # NoInv => u \in Invs
      /\ f.inv \in Invs /\ f.inv # NoInv
  BY <1>1, <1>2, <1>3, <1>4, CurGot, MatchAssumption DEF Names
<1>6. CASE Who(c)
  <2>1. pc[c] = "who"
    BY <1>6 DEF Who, Reads, At
  <2>2. \A p \in {"source", "sourceRole"} : Good(c, p, f) /\ p \notin InvitePCs
    BY <1>3, <2>1
       DEF Good, Kind, Removed, Keeps, Ends, Roled, Done, AskPCs, EndPCs, TakePCs,
           InvitePCs, ChosenPCs, MadePCs
  <2> QED
    BY <1>1, <1>6, <2>2, LookFits DEF Who
<1>7. CASE TargetsOpponent(c)
  <2>1. pc[c] = "source"
    BY <1>7 DEF TargetsOpponent, At
  <2>2. PICK g : g = [f EXCEPT !.peer = SourceOf(u)]
    OBVIOUS
  <2>3. Near(f, g) /\ g.aim = f.aim /\ g.arg = f.arg /\ g.role = f.role
    <3>1. SourceOf(u) \in Clients \cup {NoClient}
      BY <1>2, <1>4, CurType DEF MatchInv
    <3> QED
      BY <1>3, <2>2, <3>1, KinClients DEF Kin, Frames
  <2>4. Names(c, g) /\ Now(c, g) = u /\ g.op = f.op /\ g.inv = f.inv
    BY <1>3, <1>5, <2>3, NamesOn DEF Names
  <2>5. Good(c, "targetRole", g)
    BY <1>3, <1>5, <2>1, <2>3, <2>4
       DEF Good, Kind, Removed, Keeps, Ends, Roled, Done, AskPCs, EndPCs, TakePCs
  <2> QED
    BY <1>1, <1>4, <1>7, <2>2, <2>5, LookFits
       DEF TargetsOpponent, InvitePCs, ChosenPCs, MadePCs
<1>8. CASE SourcesRole(c)
  <2>1. pc[c] = "sourceRole"
    BY <1>8 DEF SourcesRole, Reads, At
  <2>2. PICK g : g = [f EXCEPT !.role = SourceRole(u)]
    OBVIOUS
  <2>3. Near(f, g) /\ g.aim = f.aim /\ g.arg = f.arg /\ g.role # NullRole
    <3>1. SourceRole(u) \in Bytes
      BY <1>2, <1>4, <1>8, CurType DEF SourcesRole, Reads, MatchInv
    <3>2. SourceRole(u) # NullRole
      BY DEF SourceRole, NullRole
    <3> QED
      BY <1>3, <2>2, <3>1, <3>2, KinRoles DEF Kin, Frames
  <2>4. Names(c, g) /\ Now(c, g) = u /\ g.op = f.op /\ g.inv = f.inv
    BY <1>3, <1>5, <2>3, NamesOn DEF Names
  <2>5. Good(c, "target", g)
    BY <1>3, <1>5, <2>1, <2>3, <2>4
       DEF Good, Kind, Removed, Keeps, Ends, Roled, Done, AskPCs, EndPCs, TakePCs
  <2> QED
    BY <1>1, <1>4, <1>8, <2>2, <2>5, LookFits
       DEF SourcesRole, InvitePCs, ChosenPCs, MadePCs
<1>9. ASSUME NEW g, Near(f, g), g.aim = Aimed(c), g.arg = f.arg, u \in Invs,
             pc[c] \in {"targetRole", "target"},
             g.role = NullRole => inv[u].targetR = NullRole
      PROVE  Good(c, AfterWho(c), g) /\ AfterWho(c) \notin InvitePCs
  <2>1. Got(c, f, g.aim)
    BY <1>1, <1>3, <1>4, <1>5, <1>9 DEF Aimed, Names
  <2>2. Names(c, g) /\ Now(c, g) = u /\ g.op = f.op /\ g.inv = f.inv
    BY <1>3, <1>5, <1>9, <2>1, NamesOn DEF Names
  <2>3. f.op \in {"resign", "move"}
    BY <1>3, <1>9 DEF Good, Kind, AskPCs
  <2>4. inv[f.inv].target = c => u = f.inv
    BY <1>3, <1>5, <1>9 DEF Good, Keeps, AskPCs
  <2>5. CASE f.op = "move"
    <3>1. AfterWho(c) = "parse" /\ g.aim = f.aim /\ f.aim \in Invs
      BY <1>1, <1>3, <1>9, <2>5 DEF AfterWho, Aimed, Good, Ends, AskPCs
    <3> QED
      BY <2>2, <2>5, <3>1
         DEF Good, Kind, Removed, Keeps, Ends, Roled, Done, AskPCs, EndPCs, TakePCs,
             InvitePCs, ChosenPCs, MadePCs
  <2>6. CASE f.op = "resign"
    <3>1. AfterWho(c) = "post" /\ g.aim = u
      BY <1>1, <1>4, <1>9, <2>6 DEF AfterWho, Aimed
    <3> QED
      BY <1>9, <2>2, <2>4, <2>6, <3>1
         DEF Good, Kind, Removed, Keeps, Ends, Roled, Done, AskPCs, EndPCs, TakePCs,
             InvitePCs, ChosenPCs, MadePCs
  <2> QED
    BY <2>3, <2>5, <2>6
<1>10. CASE TargetsRole(c)
  <2>1. pc[c] = "targetRole" /\ u \in Invs
    BY <1>4, <1>5, <1>10 DEF TargetsRole, Reads, At
  <2>2. PICK g : g = [f EXCEPT !.role = inv[u].targetR, !.aim = Aimed(c)]
    OBVIOUS
  <2>3. Near(f, g) /\ g.aim = Aimed(c) /\ g.arg = f.arg /\ g.role = inv[u].targetR
    <3>1. inv[u].targetR \in Bytes
      BY <1>2, <1>4, <1>10, CurType DEF TargetsRole, Reads, MatchInv
    <3>2. Aimed(c) \in Invs \cup {NoInv}
      BY <1>2, AimType DEF MatchInv
    <3> QED
      BY <1>3, <2>2, <3>1, <3>2, KinRoles DEF Kin, Frames
  <2>4. Good(c, AfterWho(c), g) /\ AfterWho(c) \notin InvitePCs
    BY <1>9, <2>1, <2>3
  <2> QED
    BY <1>1, <1>4, <1>10, <2>2, <2>4, LookFits DEF TargetsRole
<1>11. CASE SourcesOpponent(c)
  <2>1. pc[c] = "target" /\ u \in Invs
    BY <1>4, <1>5, <1>11 DEF SourcesOpponent, Reads, At
  <2>2. PICK g : g = [f EXCEPT !.peer = TargetOf(u), !.aim = Aimed(c)]
    OBVIOUS
  <2>3. Near(f, g) /\ g.aim = Aimed(c) /\ g.arg = f.arg /\ g.role = f.role
    <3>1. TargetOf(u) \in Clients \cup {NoClient}
      BY <1>2, <1>4, <1>11, CurType DEF SourcesOpponent, Reads, MatchInv
    <3>2. Aimed(c) \in Invs \cup {NoInv}
      BY <1>2, AimType DEF MatchInv
    <3> QED
      BY <1>3, <2>2, <3>1, <3>2, KinPeerAim DEF Kin, Frames
  <2>4. g.role # NullRole
    BY <1>3, <2>1, <2>3 DEF Good, Roled
  <2>5. Good(c, AfterWho(c), g) /\ AfterWho(c) \notin InvitePCs
    BY <1>9, <2>1, <2>3, <2>4
  <2> QED
    BY <1>1, <1>4, <1>11, <2>2, <2>5, LookFits DEF SourcesOpponent
<1> QED
  BY <1>6, <1>7, <1>8, <1>10, <1>11

\* Those of an accept and of a move that does not end the game.
LEMMA PlayLooks ==
    ASSUME MatchInv, NEW c \in Clients, Grown(c), Fits(c),
           \/ AcceptSource(c) \/ Scan(c) \/ AcceptGame(c) \/ AcceptState(c)
           \/ AcceptRole(c) \/ MoveGame(c) \/ MoveParse(c) \/ MoveState(c)
    PROVE  Fits(c)'
<1>1. PICK f : f = frame[c]
  OBVIOUS
<1>2. pc[c] \in CurPCs
  BY DEF AcceptSource, Scan, AcceptGame, AcceptState, AcceptRole, MoveGame, MoveParse,
     MoveState, Reads, At, CurPCs, DereferenceSteps
<1>3. Good(c, pc[c], f) /\ Names(c, f) /\ f \in Frames
  BY <1>1, <1>2 DEF Fits, Serving, Good, MatchInv, TypeOK
<1>4. PICK u : u = Cur(c)
  OBVIOUS
<1>5. /\ u = Now(c, f) /\ Got(c, f, u) /\ Got(c, f, NoInv)
      /\ u # NoInv => u \in Invs
      /\ f.inv \in Invs /\ f.inv # NoInv
  BY <1>1, <1>2, <1>3, <1>4, CurGot, MatchAssumption DEF Names
<1>6. ASSUME NEW g, Near(f, g), Got(c, f, g.aim), g.arg = f.arg, g.role = f.role
      PROVE  Names(c, g) /\ Now(c, g) = u /\ g.op = f.op /\ g.inv = f.inv
  BY <1>3, <1>5, <1>6, NamesOn DEF Names
<1>7. ASSUME NEW g, Near(f, g), Got(c, f, g.aim), g.arg = f.arg, g.role = f.role,
             NEW p \in {"scan", "acceptGame", "acceptState", "acceptRole", "notify"},
             f.op = "accept",
             pc[c] \in {"acceptSource", "scan", "acceptGame", "acceptState", "acceptRole"}
      PROVE  Good(c, p, g) /\ p \notin InvitePCs
  <2>1. Names(c, g) /\ Now(c, g) = u /\ g.op = f.op /\ g.inv = f.inv
    BY <1>6, <1>7
  <2>2. inv[f.inv].target = c => game[f.inv] # NoGame
    BY <1>3, <1>7 DEF Good, Done
  <2> QED
    BY <1>7, <2>1, <2>2
       DEF Good, Kind, Removed, Keeps, Ends, Roled, Done, AskPCs, EndPCs, TakePCs,
           InvitePCs, ChosenPCs, MadePCs
<1>8. CASE AcceptSource(c)
  <2>1. pc[c] = "acceptSource" /\ f.op = "accept"
    BY <1>3, <1>8 DEF AcceptSource, At, Good, Kind
  <2>2. PICK g : g = [f EXCEPT !.peer = SourceOf(u)]
    OBVIOUS
  <2>3. Near(f, g) /\ g.aim = f.aim /\ g.arg = f.arg /\ g.role = f.role
    <3>1. SourceOf(u) \in Clients \cup {NoClient}
      BY <1>2, <1>4, CurType DEF MatchInv
    <3> QED
      BY <1>3, <2>2, <3>1, KinClients DEF Kin, Frames
  <2>4. Good(c, "scan", g) /\ "scan" \notin InvitePCs
    BY <1>3, <1>7, <2>1, <2>3 DEF Names
  <2> QED
    BY <1>1, <1>4, <1>8, <2>2, <2>4, LookFits, RefuseFits DEF AcceptSource
<1>9. CASE Scan(c)
  <2>1. pc[c] = "scan" /\ f.op \in {"accept", "move"}
    BY <1>3, <1>9 DEF Scan, At, Good, Kind
  <2>2. 0 \in Slots
    BY MatchAssumption DEF Slots
  <2>3. \/ Refuse(c)
        \/ \E i \in Slots, p \in {"scan", IF f.op = "accept" THEN "acceptGame"
                                                             ELSE "state"} :
              Look(c, p, [f EXCEPT !.i = i])
    BY <1>1, <1>9, <2>2 DEF Scan
  <2>4. ASSUME NEW i \in Slots, NEW g, g = [f EXCEPT !.i = i],
               NEW p \in {"scan", IF f.op = "accept" THEN "acceptGame" ELSE "state"}
        PROVE  Good(c, p, g) /\ p \notin InvitePCs
    <3>1. Near(f, g) /\ g.aim = f.aim /\ g.arg = f.arg /\ g.role = f.role
      BY <1>3, <2>4, KinScan DEF Kin, Frames
    <3>2. Got(c, f, g.aim)
      BY <1>3, <3>1 DEF Names
    <3>3. CASE f.op = "accept"
      BY <1>7, <2>1, <2>4, <3>1, <3>2, <3>3
    <3>4. CASE f.op = "move"
      <4>1. Names(c, g) /\ g.op = "move" /\ p \in {"scan", "state"}
        BY <1>6, <2>4, <3>1, <3>2, <3>4
      <4> QED
        BY <4>1
           DEF Good, Kind, Removed, Keeps, Ends, Roled, Done, AskPCs, EndPCs, TakePCs,
               InvitePCs, ChosenPCs, MadePCs
    <3> QED
      BY <2>1, <3>3, <3>4
  <2> QED
    BY <2>3, <2>4, LookFits, RefuseFits
<1>10. PICK g : g = [f EXCEPT !.aim = u]
  OBVIOUS
<1>11. Near(f, g) /\ g.aim = u /\ g.arg = f.arg /\ g.role = f.role /\ g.peer = f.peer
  <2>1. u \in Invs \cup {NoInv}
    BY <1>5
  <2> QED
    BY <1>3, <1>10, <2>1, KinInvs DEF Kin, Frames
<1>12. PICK h : h = [f EXCEPT !.aim = NoInv]
  OBVIOUS
<1>13. Near(f, h) /\ h.aim = NoInv /\ h.arg = f.arg /\ h.role = f.role
  BY <1>3, <1>12, KinInvs DEF Kin, Frames
<1>14. CASE AcceptGame(c)
  <2>1. pc[c] = "acceptGame" /\ f.op = "accept"
    BY <1>3, <1>14 DEF AcceptGame, Reads, At, Good, Kind
  <2>2. Good(c, "acceptState", g) /\ "acceptState" \notin InvitePCs
    BY <1>5, <1>7, <1>11, <2>1
  <2> QED
    BY <1>1, <1>4, <1>10, <1>14, <2>2, LookFits DEF AcceptGame
<1>15. CASE AcceptState(c)
  <2>1. pc[c] = "acceptState" /\ f.op = "accept"
    BY <1>3, <1>15 DEF AcceptState, At, Good, Kind
  <2>2. Good(c, "acceptRole", h) /\ "acceptRole" \notin InvitePCs
    BY <1>5, <1>7, <1>13, <2>1
  <2> QED
    BY <1>1, <1>12, <1>15, <2>2, LookFits DEF AcceptState, Unparse
<1>16. CASE AcceptRole(c)
  <2>1. pc[c] = "acceptRole" /\ f.op = "accept"
    BY <1>3, <1>16 DEF AcceptRole, Reads, At, Good, Kind
  <2>2. Near(f, f) /\ Got(c, f, f.aim)
    BY <1>3 DEF Near, Names
  <2>3. Good(c, "notify", f) /\ "notify" \notin InvitePCs
    BY <1>7, <2>1, <2>2
  <2> QED
    BY <1>1, <1>16, <2>3, LookFits DEF AcceptRole
<1>17. CASE MoveGame(c)
  <2>1. pc[c] = "move" /\ f.op = "move" /\ u \in Invs
    BY <1>3, <1>4, <1>5, <1>17 DEF MoveGame, Reads, At, Good, Kind
  <2>2. Names(c, g) /\ Now(c, g) = u /\ g.op = f.op /\ g.inv = f.inv
    BY <1>5, <1>6, <1>11
  <2>3. Good(c, "who", g)
    BY <1>3, <1>5, <1>11, <2>1, <2>2
       DEF Good, Kind, Removed, Keeps, Ends, Roled, Done, AskPCs, EndPCs, TakePCs
  <2> QED
    BY <1>1, <1>4, <1>10, <1>17, <2>3, LookFits, RefuseFits
       DEF MoveGame, InvitePCs, ChosenPCs, MadePCs
<1>18. CASE MoveParse(c)
  <2>1. pc[c] = "parse"
    BY <1>18 DEF MoveParse, At
  <2>2. Good(c, "apply", f)
    BY <1>3, <2>1
       DEF Good, Kind, Removed, Keeps, Ends, Roled, Done, AskPCs, EndPCs, TakePCs
  <2> QED
    BY <1>1, <1>18, <2>2, LookFits, RefuseFits
       DEF MoveParse, InvitePCs, ChosenPCs, MadePCs
<1>19. CASE MoveState(c)
  <2>1. pc[c] = "state"
    BY <1>19 DEF MoveState, At
  <2>2. Names(c, h) /\ h.op = f.op /\ f.op = "move"
    BY <1>3, <1>5, <1>6, <1>13, <2>1 DEF Good, Kind
  <2>3. Good(c, "notify", h)
    BY <2>2
       DEF Good, Kind, Removed, Keeps, Ends, Roled, Done, AskPCs, EndPCs, TakePCs
  <2> QED
    BY <1>1, <1>12, <1>19, <2>3, LookFits
       DEF MoveState, Unparse, InvitePCs, ChosenPCs, MadePCs
<1> QED
  BY <1>8, <1>9, <1>14, <1>15, <1>16, <1>17, <1>18, <1>19

\* Those of a move, when the game is over.
LEMMA EndLooks ==
    ASSUME MatchInv, NEW c \in Clients, Grown(c), Fits(c),
           \/ Moved(c) \/ EndSource(c) \/ EndTarget(c) \/ EndRole(c)
           \/ ReadSources(c) \/ ReadTargets(c)
    PROVE  Fits(c)'
<1>1. PICK f : f = frame[c]
  OBVIOUS
<1>2. pc[c] \in CurPCs
  BY DEF Moved, EndSource, EndTarget, EndRole, ReadSources, ReadTargets,
     Reads, At, CurPCs, DereferenceSteps
<1>3. Good(c, pc[c], f) /\ Names(c, f) /\ f \in Frames
  BY <1>1, <1>2 DEF Fits, Serving, Good, MatchInv, TypeOK
<1>4. PICK u : u = Cur(c)
  OBVIOUS
<1>5. /\ u = Now(c, f) /\ Got(c, f, u) /\ Got(c, f, NoInv)
      /\ u = f.inv => ~ Out(c, f)
      /\ u # NoInv => u \in Invs
      /\ f.inv \in Invs /\ f.inv # NoInv
  BY <1>1, <1>2, <1>3, <1>4, CurGot, MatchAssumption DEF Names
<1>6. CASE Moved(c)
  <2>1. pc[c] = "moved"
    BY <1>6 DEF Moved, At
  <2>2. f.op = "move" /\ f.aim \in Invs
    BY <1>3, <2>1 DEF Good, Kind, Ends
  <2>3. PICK g : g = [f EXCEPT !.peer = NoClient]
    OBVIOUS
  <2>4. Near(f, g) /\ g.aim = f.aim /\ g.arg = f.arg
    BY <1>3, <2>3, KinClients DEF Kin, Frames
  <2>5. Names(c, g) /\ g.op = "move" /\ g.aim = f.aim
    BY <1>3, <2>2, <2>4, NamesOn DEF Names
  <2>6. CASE game[f.aim].over
    <3>1. Good(c, "endSource", g)
      BY <2>2, <2>5, <2>6
         DEF Good, Kind, Removed, Keeps, Ends, Roled, Done, AskPCs, EndPCs, TakePCs
    <3> QED
      BY <1>1, <1>6, <2>3, <2>6, <3>1, LookFits DEF Moved, InvitePCs, ChosenPCs, MadePCs
  <2>7. CASE ~ game[f.aim].over
    <3>1. Good(c, "scan", f)
      BY <1>3, <2>2
         DEF Good, Kind, Removed, Keeps, Ends, Roled, Done, AskPCs, EndPCs, TakePCs
    <3> QED
      BY <1>1, <1>6, <2>7, <3>1, LookFits DEF Moved, InvitePCs, ChosenPCs, MadePCs
  <2> QED
    BY <2>6, <2>7
<1>7. CASE EndSource(c)
  <2>1. pc[c] = "endSource"
    BY <1>7 DEF EndSource, At
  <2>2. f.op = "move" /\ f.aim \in Invs /\ game[f.aim].over
    BY <1>3, <2>1 DEF Good, Kind, Ends, EndPCs
  <2>3. PICK g : g = [f EXCEPT !.peer = SourceOf(u)]
    OBVIOUS
  <2>4. Near(f, g) /\ g.aim = f.aim /\ g.arg = f.arg /\ g.peer = SourceOf(u)
    <3>1. SourceOf(u) \in Clients \cup {NoClient}
      BY <1>2, <1>4, CurType DEF MatchInv
    <3> QED
      BY <1>3, <2>3, <3>1, KinClients DEF Kin, Frames
  <2>5. /\ Names(c, g) /\ g.op = "move" /\ g.inv = f.inv
        /\ ~ Out(c, g) => g.peer = inv[g.inv].source
    <3>1. Names(c, g) /\ g.op = "move" /\ g.inv = f.inv /\ Out(c, g) = Out(c, f)
      BY <1>3, <2>2, <2>4, NamesOn DEF Names
    <3>2. ~ Out(c, f) => u = f.inv
      BY <1>3, <1>5 DEF Names
    <3> QED
      BY <1>5, <2>4, <3>1, <3>2 DEF SourceOf
  <2>6. Good(c, "endTarget", g)
    BY <2>2, <2>4, <2>5
       DEF Good, Kind, Removed, Keeps, Ends, Roled, Done, AskPCs, EndPCs, TakePCs
  <2> QED
    BY <1>1, <1>4, <1>7, <2>3, <2>6, LookFits
       DEF EndSource, InvitePCs, ChosenPCs, MadePCs
<1>8. CASE EndTarget(c)
  <2>1. pc[c] = "endTarget"
    BY <1>8 DEF EndTarget, Reads, At
  <2>2. PICK g : g = [f EXCEPT !.target = TargetOf(u)]
    OBVIOUS
  <2>3. Near(f, g) /\ g.aim = f.aim /\ g.arg = f.arg /\ g.peer = f.peer
    <3>1. TargetOf(u) \in Clients \cup {NoClient}
      BY <1>2, <1>4, <1>8, CurType DEF EndTarget, Reads, MatchInv
    <3> QED
      BY <1>3, <2>2, <3>1, KinClients DEF Kin, Frames
  <2>4. Names(c, g) /\ g.op = f.op /\ g.inv = f.inv /\ Out(c, g) = Out(c, f)
    BY <1>3, <2>3, NamesOn DEF Names
  <2>5. Good(c, "endRole", g)
    BY <1>3, <2>1, <2>3, <2>4
       DEF Good, Kind, Removed, Keeps, Ends, Roled, Done, AskPCs, EndPCs, TakePCs
  <2> QED
    BY <1>1, <1>4, <1>8, <2>2, <2>5, LookFits
       DEF EndTarget, InvitePCs, ChosenPCs, MadePCs
<1>9. CASE EndRole(c)
  <2>1. pc[c] = "endRole"
    BY <1>9 DEF EndRole, Reads, At
  <2>2. Good(c, "endPost", f)
    BY <1>3, <2>1
       DEF Good, Kind, Removed, Keeps, Ends, Roled, Done, AskPCs, EndPCs, TakePCs
  <2> QED
    BY <1>1, <1>9, <2>2, LookFits DEF EndRole, InvitePCs, ChosenPCs, MadePCs
<1>10. PICK g : g = [f EXCEPT !.arg = u]
  OBVIOUS
<1>11. Near(f, g) /\ g.aim = f.aim /\ g.arg = u /\ g.role = f.role /\ g.peer = f.peer
  <2>1. u \in Invs \cup {NoInv}
    BY <1>5
  <2> QED
    BY <1>3, <1>10, <2>1, KinInvs DEF Kin, Frames
<1>12. /\ Names(c, g) /\ Now(c, g) = u /\ g.op = f.op /\ g.inv = f.inv
       /\ Out(c, g) = Out(c, f)
  BY <1>3, <1>5, <1>11, NamesOn DEF Names
<1>13. CASE ReadSources(c)
  <2>1. pc[c] = "sourceArg"
    BY <1>13 DEF ReadSources, At
  <2>2. /\ f.op = "move"
        /\ ~ Out(c, f) => f.peer = inv[f.inv].source
    BY <1>3, <2>1 DEF Good, Kind, Ends
  <2>3. /\ ~ Out(c, g) => g.peer = inv[g.inv].source
        /\ ~ Out(c, g) => g.arg = g.inv
        /\ g.arg = g.inv => g.peer = inv[g.inv].source
    BY <1>5, <1>11, <1>12, <2>2 DEF Names
  <2>4. Good(c, "removeSource", g)
    BY <1>12, <2>2, <2>3
       DEF Good, Kind, Removed, Keeps, Ends, Roled, Done, AskPCs, EndPCs, TakePCs
  <2> QED
    BY <1>1, <1>4, <1>10, <1>13, <2>4, LookFits, RefuseFits
       DEF ReadSources, ReadArg, InvitePCs, ChosenPCs, MadePCs
<1>14. CASE ReadTargets(c)
  <2>1. pc[c] = "targetArg"
    BY <1>14 DEF ReadTargets, At
  <2>2. f.op = "move" /\ (inv[f.inv].source = c => Out(c, f))
    BY <1>3, <2>1 DEF Good, Kind, Ends
  <2>3. inv[g.inv].source = c => Out(c, g) /\ g.arg # g.inv
    BY <1>5, <1>11, <1>12, <2>2
  <2>4. Good(c, "removeTarget", g)
    BY <1>12, <2>2, <2>3
       DEF Good, Kind, Removed, Keeps, Ends, Roled, Done, AskPCs, EndPCs, TakePCs
  <2> QED
    BY <1>1, <1>4, <1>10, <1>14, <2>4, LookFits
       DEF ReadTargets, ReadArg, InvitePCs, ChosenPCs, MadePCs
<1> QED
  BY <1>6, <1>7, <1>8, <1>9, <1>13, <1>14

LEMMA OwnLooks ==
    ASSUME MatchInv, NEW c \in Clients, Grown(c), Fits(c), LookSteps(c)
    PROVE  Fits(c)'
<1>1. CASE Receive(c)
  <2>1. PICK op \in Requests, i \in Slots :
           IF listOfInv[c][i] = NoInv
           THEN Look(c, "nack", Idle)
           ELSE Look(c, IF op = "resign" THEN "who" ELSE op,
                     [Idle EXCEPT !.op = op, !.id = i, !.inv = listOfInv[c][i]])
    BY <1>1 DEF Receive
  <2>2. CASE Look(c, "nack", Idle)
    <3>1. pc'[c] = "nack"
      BY <2>2 DEF Look, Goto, MatchInv, TypeOK
    <3> QED
      BY <3>1, IdleFits
  <2>3. pc[c] \notin MadePCs
    BY <1>1 DEF Receive, At, MadePCs
  <2> QED
    BY <2>1, <2>2, <2>3, StartFits
<1>2. CASE Hangup(c)
  <2>1. pc'[c] = "eof"
    BY <1>2 DEF Hangup, Look, Goto, MatchInv, TypeOK
  <2> QED
    BY <2>1, IdleFits
<1>3. CASE LogoutSlot(c)
  <2>1. PICK i : i = frame[c].id + 1
    OBVIOUS
  <2>2. /\ i \in Slots /\ pc[c] \notin MadePCs
        /\ \/ Look(c, "logout", [Idle EXCEPT !.id = i])
           \/ /\ listOfInv[c][i] # NoInv
              /\ \/ Look(c, "revoke", [Idle EXCEPT !.op = "revoke", !.id = i,
                                                   !.inv = listOfInv[c][i]])
                 \/ Look(c, "who", [Idle EXCEPT !.op = "resign", !.id = i,
                                                !.inv = listOfInv[c][i]])
    BY <1>3, <2>1 DEF LogoutSlot, At, MadePCs
  <2>3. CASE Look(c, "logout", [Idle EXCEPT !.id = i])
    <3>1. pc'[c] = "logout"
      BY <2>3 DEF Look, Goto, MatchInv, TypeOK
    <3> QED
      BY <3>1, IdleFits
  <2>4. ASSUME NEW op \in {"revoke", "resign"}, listOfInv[c][i] # NoInv,
               Look(c, IF op = "resign" THEN "who" ELSE op,
                    [Idle EXCEPT !.op = op, !.id = i, !.inv = listOfInv[c][i]])
        PROVE  Fits(c)'
    BY <2>2, <2>4, StartFits DEF Requests
  <2> QED
    BY <2>2, <2>3, <2>4
<1> QED
  BY <1>1, <1>2, <1>3, RevokeLooks, AskLooks, PlayLooks, EndLooks DEF LookSteps

\* No later than a removal of it is an invitation in the list it was in once.
LEMMA RemovedOut ==
    ASSUME MatchInv, NEW c \in Clients, NEW u \in Invs, NEW found, NEW missing,
           Remove(c, c, u, found, missing)
    PROVE  ~ InList(c, u)'
<1>1. listOfInv' = [listOfInv EXCEPT ![c] = Overwrite(listOfInv[c], u, NoInv)]
  BY DEF Remove, Change
<1>2. listOfInv'[c] = Overwrite(listOfInv[c], u, NoInv)
  BY <1>1 DEF MatchInv, TypeOK
<1>3. PICK s : s = FirstSlot(listOfInv[c], u)
  OBVIOUS
<1>4. \/ s \in Slots /\ listOfInv[c][s] = u
      \/ s = NoSlot /\ \A i \in Slots : listOfInv[c][i] # u
  BY <1>3, FirstSlotFinds
<1>5. \A i \in Slots : listOfInv[c][i] = u => i = s
  BY <1>4 DEF MatchInv, ListsSound
<1>6. listOfInv'[c] = IF s = NoSlot THEN listOfInv[c]
                      ELSE [listOfInv[c] EXCEPT ![s] = NoInv]
  BY <1>2, <1>3 DEF Overwrite
<1>7. \A i \in Slots : listOfInv'[c][i] # u
  <2>1. CASE s = NoSlot
    BY <1>4, <1>6, <2>1 DEF Slots, NoSlot
  <2>2. CASE s # NoSlot
    <3>1. listOfInv[c] \in [Slots -> Invs \cup {NoInv}]
      BY DEF MatchInv, TypeOK
    <3>2. \A i \in Slots : listOfInv'[c][i] = IF i = s THEN NoInv ELSE listOfInv[c][i]
      BY <1>6, <2>2, <3>1
    <3> QED
      BY <1>5, <3>2, MatchAssumption
  <2> QED
    BY <2>1, <2>2
<1> QED
  BY <1>7 DEF InList

\* A step of a request on a slot leaves its names what they were.
LEMMA OwnNames ==
    ASSUME MatchInv, MatchInv', NEW c \in Clients, Grown(c), pc[c] \notin MadePCs,
           NEW f, Names(c, f)
    PROVE  /\ Names(c, f)'
           /\ Out(c, f) => Out(c, f)'
           /\ Now(c, f)' = f.inv => Now(c, f) = f.inv
           /\ inv'[f.inv].source = inv[f.inv].source
           /\ inv'[f.inv].target = inv[f.inv].target
           /\ inv'[f.inv].targetR = inv[f.inv].targetR
           /\ Lasts(f.inv) /\ f.inv \in Invs
<1>1. Mine(c, f.inv) /\ f.inv \in Invs
  BY DEF Names
<1>2. /\ Names(c, f)'
      /\ Out(c, f) => Out(c, f)'
      /\ Now(c, f)' = f.inv => Now(c, f) = f.inv
  BY NamesStay
<1>3. PICK v : v = f.inv
  OBVIOUS
<1>4. /\ inv'[v].source = inv[v].source
      /\ inv'[v].target = inv[v].target
      /\ inv'[v].targetR = inv[v].targetR
  BY <1>1, <1>3, MineStays
<1> QED
  BY <1>1, <1>2, <1>3, <1>4 DEF Grown

\* The removals of a request.
LEMMA OwnRemoves ==
    ASSUME MatchInv, MatchInv', NEW c \in Clients, Grown(c), Fits(c), RemoveSteps(c)
    PROVE  Fits(c)'
<1>1. PICK f : f = frame[c]
  OBVIOUS
<1>2. pc[c] \notin MadePCs
  BY DEF RemoveSteps, RemoveOwn, RemovePeer, RemoveSource, RemoveTarget, At, MadePCs
<1>3. Good(c, pc[c], f) /\ Names(c, f) /\ f \in Frames
  BY <1>1, RemoveServes DEF Good, MatchInv, TypeOK
<1>4. PICK g : g = [f EXCEPT !.arg = NoInv]
  OBVIOUS
<1>5. /\ Near(f, g) /\ g.aim = f.aim /\ g.arg = NoInv /\ g.role = f.role
      /\ g.peer = f.peer
  BY <1>3, <1>4, KinInvs DEF Kin, Frames
<1>6. /\ Names(c, g) /\ Now(c, g) = Now(c, f) /\ Out(c, g) = Out(c, f)
      /\ g.op = f.op /\ g.inv = f.inv
  BY <1>3, <1>5, NamesOn DEF Names, Got
<1>7. PICK v \in Invs : v = g.inv /\ v = f.inv
  BY <1>3, <1>6 DEF Names
<1>8. /\ Names(c, g)' /\ (Out(c, g) => Out(c, g)')
      /\ Now(c, g)' = v => Now(c, g) = v
      /\ inv'[v].source = inv[v].source /\ inv'[v].target = inv[v].target
      /\ inv'[v].targetR = inv[v].targetR
      /\ Lasts(v)
  BY <1>2, <1>6, <1>7, OwnNames
<1>9. ASSUME NEW d, NEW u, NEW found \in CurPCs \cup {"notify"},
             NEW missing \in CurPCs \cup {"fail"},
             Remove(c, d, u, found, missing)
      PROVE  \/ Fits(c)'
             \/ pc'[c] \in {found, missing} /\ frame'[c] = g
  <2>1. ASSUME NEW p, GoOn(c, p), p # "fail" PROVE pc'[c] = p /\ frame'[c] = g
    <3>1. frame' = [frame EXCEPT ![c] = g] /\ Goto(c, p)
      BY <1>1, <1>4, <2>1 DEF GoOn
    <3> QED
      BY <3>1 DEF Goto, MatchInv, TypeOK
  <2>2. ASSUME NEW p, GoOn(c, p), p = "fail" PROVE Fits(c)'
    BY <2>2, FailFits DEF GoOn, MatchInv
  <2>3. ASSUME Goto(c, "hung") PROVE Fits(c)'
    <3>1. pc'[c] = "hung"
      BY <2>3 DEF Goto, MatchInv, TypeOK
    <3> QED
      BY <3>1, IdleFits
  <2> QED
    BY <1>9, <2>1, <2>2, <2>3 DEF Remove, Change
<1>10. ASSUME NEW p, p \notin InvitePCs, Good(c, p, g)', pc'[c] = p, frame'[c] = g
       PROVE  Fits(c)'
  BY <1>10, GoodFits
<1>11. CASE RemoveOwn(c)
  <2>1. pc[c] = "removeOwn" /\ Remove(c, c, f.arg, "peerArg", "fail")
    BY <1>1, <1>11 DEF RemoveOwn, At
  <2>2. Fits(c)' \/ (pc'[c] \in {"peerArg", "fail"} /\ frame'[c] = g)
    BY <1>9, <2>1 DEF CurPCs
  <2>3. pc'[c] = "fail" => Fits(c)'
    BY DEF Fits, Serving, CurPCs, DereferenceSteps, InvitePCs, ChosenPCs, MadePCs
  <2>4. Out(c, g)'
    <3>1. CASE Out(c, g)
      BY <1>8, <3>1
    <3>2. CASE ~ Out(c, g)
      <4>1. f.arg = v
        BY <1>3, <1>6, <1>7, <2>1, <3>2 DEF Good, Removed
      <4> QED
        BY <1>7, <2>1, <4>1, RemovedOut DEF Out
    <3> QED
      BY <3>1, <3>2
  <2>5. Good(c, "peerArg", g)'
    BY <1>3, <1>6, <1>7, <1>8, <2>1, <2>4
       DEF Good, Kind, Removed, Keeps, Ends, Roled, Done, AskPCs, EndPCs, TakePCs, Lasts
  <2> QED
    BY <1>10, <2>2, <2>3, <2>5 DEF InvitePCs, ChosenPCs, MadePCs
<1>12. CASE RemovePeer(c)
  <2>1. pc[c] = "removePeer" /\ Remove(c, f.peer, f.arg, "notify", "fail")
    BY <1>1, <1>12 DEF RemovePeer, At
  <2>2. Fits(c)' \/ (pc'[c] \in {"notify", "fail"} /\ frame'[c] = g)
    BY <1>9, <2>1 DEF CurPCs
  <2>3. pc'[c] = "fail" => Fits(c)'
    BY DEF Fits, Serving, CurPCs, DereferenceSteps, InvitePCs, ChosenPCs, MadePCs
  <2>4. Out(c, g)'
    BY <1>3, <1>6, <1>8, <2>1 DEF Good, Removed
  <2>5. Good(c, "notify", g)'
    BY <1>3, <1>6, <1>7, <1>8, <2>1, <2>4
       DEF Good, Kind, Removed, Keeps, Ends, Roled, Done, AskPCs, EndPCs, TakePCs, Lasts
  <2> QED
    BY <1>10, <2>2, <2>3, <2>5 DEF InvitePCs, ChosenPCs, MadePCs
<1>13. CASE RemoveSource(c)
  <2>1. pc[c] = "removeSource" /\ Remove(c, f.peer, f.arg, "tellSource", "fail")
    BY <1>1, <1>13 DEF RemoveSource, At
  <2>2. Fits(c)' \/ (pc'[c] \in {"tellSource", "fail"} /\ frame'[c] = g)
    BY <1>9, <2>1 DEF CurPCs
  <2>3. pc'[c] = "fail" => Fits(c)'
    BY DEF Fits, Serving, CurPCs, DereferenceSteps, InvitePCs, ChosenPCs, MadePCs
  <2>4. inv'[v].source = c => Out(c, g)'
    <3>1. CASE Out(c, g)
      BY <1>8, <3>1
    <3>2. CASE ~ Out(c, g)
      <4>1. f.arg = v /\ f.peer = inv[v].source
        BY <1>3, <1>6, <1>7, <2>1, <3>2 DEF Good, Ends
      <4>2. inv[v].source = c => ~ InList(c, v)'
        BY <2>1, <4>1, RemovedOut
      <4> QED
        BY <1>7, <1>8, <4>2 DEF Out
    <3> QED
      BY <3>1, <3>2
  <2>5. f.op = "move"
    BY <1>3, <2>1 DEF Good, Kind
  <2>6. Good(c, "tellSource", g)'
    BY <1>6, <1>7, <1>8, <2>4, <2>5
       DEF Good, Kind, Removed, Keeps, Ends, Roled, Done, AskPCs, EndPCs, TakePCs
  <2> QED
    BY <1>10, <2>2, <2>3, <2>6 DEF InvitePCs, ChosenPCs, MadePCs
<1>14. CASE RemoveTarget(c)
  <2>1. pc[c] = "removeTarget" /\ Remove(c, frame[c].target, f.arg, "tellTarget", "tellTarget")
    BY <1>1, <1>14 DEF RemoveTarget, At
  <2>2. Fits(c)' \/ (pc'[c] = "tellTarget" /\ frame'[c] = g)
    BY <1>9, <2>1 DEF CurPCs
  <2>3. f.op = "move"
    BY <1>3, <2>1 DEF Good, Kind
  <2>4. Good(c, "tellTarget", g)'
    BY <1>6, <1>8, <2>3
       DEF Good, Kind, Removed, Keeps, Ends, Roled, Done, AskPCs, EndPCs, TakePCs
  <2> QED
    BY <1>10, <2>2, <2>4 DEF InvitePCs, ChosenPCs, MadePCs
<1> QED
  BY <1>11, <1>12, <1>13, <1>14 DEF RemoveSteps

\* The writes: only a NOTIFY is followed by more of the request, or its ACK.
LEMMA OwnWrites ==
    ASSUME MatchInv, MatchInv', NEW c \in Clients, Grown(c), Fits(c), WriteSteps(c)
    PROVE  Fits(c)'
<1>1. PICK f : f = frame[c]
  OBVIOUS
<1>2. TypeOK /\ f \in Frames
  BY <1>1 DEF MatchInv, TypeOK
<1>3. UNCHANGED <<listOfInv, inv, game>>
  BY DEF WriteSteps, Answer, Notify, TellSource, TellTarget, Block, Written, MayBlock
<1>4. CASE Answer(c)
  <2>1. pc'[c] = "recv"
    BY <1>2, <1>4 DEF Answer, Goto, TypeOK
  <2> QED
    BY <2>1, IdleFits
<1>5. CASE Notify(c)
  <2>1. PICK ok \in BOOLEAN : Return(c, ok)
    BY <1>5 DEF Notify, Delivered
  <2>2. CASE ok = FALSE
    BY <1>2, <2>1, <2>2, FailFits
  <2>3. CASE ok = TRUE /\ leaving[c]
    <3>1. pc'[c] = "logout"
      BY <1>2, <2>1, <2>3 DEF Return, Goto, TypeOK
    <3> QED
      BY <3>1, IdleFits
  <2>4. CASE ok = TRUE /\ ~ leaving[c]
    <3>1. PICK g : g = [Idle EXCEPT !.op = f.op, !.id = f.id, !.inv = f.inv]
      OBVIOUS
    <3>2. pc'[c] = "ack" /\ frame'[c] = g
      BY <1>1, <1>2, <2>1, <2>4, <3>1 DEF Return, Goto, TypeOK
    <3>3. g.op = f.op /\ g.id = f.id /\ g.inv = f.inv /\ g.aim = NoInv /\ g.arg = NoInv
      BY <3>1 DEF Idle
    <3>4. CASE f.op \notin Requests
      BY <3>2, <3>3, <3>4
         DEF Fits, Serving, CurPCs, DereferenceSteps, InvitePCs, ChosenPCs, MadePCs
    <3>5. CASE f.op \in Requests
      <4>1. pc[c] = "notify" /\ Good(c, "notify", f)
        BY <1>1, <1>5, <3>5 DEF Notify, At, Fits, Serving
      <4>2. Names(c, g) /\ Now(c, g) = Now(c, f) /\ Out(c, g) = Out(c, f)
        BY <3>3, <4>1 DEF Good, Names, Got, Now, Out
      <4>3. Good(c, "ack", g)
        BY <3>3, <4>1, <4>2
           DEF Good, Kind, Removed, Keeps, Ends, Roled, Done, AskPCs, EndPCs, TakePCs
      <4>4. Good(c, "ack", g)'
        BY <1>3, <4>3, SameGood
      <4> QED
        BY <3>2, <4>4, GoodFits DEF InvitePCs, ChosenPCs, MadePCs
    <3> QED
      BY <3>4, <3>5
  <2> QED
    BY <2>2, <2>3, <2>4
<1>6. CASE TellSource(c)
  <2>1. PICK g : g = [f EXCEPT !.peer = NoClient, !.writes = FALSE]
    OBVIOUS
  <2>2. \/ Return(c, FALSE)
        \/ /\ Goto(c, "targetArg")
           /\ frame' = [frame EXCEPT ![c].peer = NoClient, ![c].writes = FALSE]
    BY <1>6 DEF TellSource, Delivered
  <2>3. CASE Return(c, FALSE)
    BY <1>2, <2>3, FailFits
  <2>4. CASE /\ Goto(c, "targetArg")
             /\ frame' = [frame EXCEPT ![c].peer = NoClient, ![c].writes = FALSE]
    <3>1. pc'[c] = "targetArg" /\ frame'[c] = g
      BY <1>1, <1>2, <2>1, <2>4 DEF Goto, TypeOK, Frames
    <3>2. pc[c] = "tellSource" /\ Good(c, "tellSource", f)
      BY <1>1, <1>6 DEF TellSource, At, Fits, Serving, CurPCs
    <3>3. Near(f, g) /\ g.aim = f.aim /\ g.arg = f.arg
      BY <1>2, <2>1, NearWrites DEF Frames
    <3>4. Names(c, g) /\ g.op = f.op /\ g.inv = f.inv /\ Out(c, g) = Out(c, f)
      BY <3>2, <3>3, NamesOn DEF Good, Names
    <3>5. Good(c, "targetArg", g)
      BY <3>2, <3>4
         DEF Good, Kind, Removed, Keeps, Ends, Roled, Done, AskPCs, EndPCs, TakePCs
    <3>6. Good(c, "targetArg", g)'
      BY <1>3, <3>5, SameGood
    <3> QED
      BY <3>1, <3>6, GoodFits DEF InvitePCs, ChosenPCs, MadePCs
  <2> QED
    BY <2>2, <2>3, <2>4
<1>7. CASE TellTarget(c)
  <2>1. Return(c, FALSE) \/ Goto(c, "recv")
    BY <1>7 DEF TellTarget, Delivered
  <2>2. CASE Goto(c, "recv")
    <3>1. pc'[c] = "recv"
      BY <1>2, <2>2 DEF Goto, TypeOK
    <3> QED
      BY <3>1, IdleFits
  <2> QED
    BY <1>2, <2>1, <2>2, FailFits
<1>8. CASE Block(c)
  <2>1. PICK g : g = [f EXCEPT !.writes = TRUE]
    OBVIOUS
  <2>2. pc'[c] = pc[c] /\ frame'[c] = g
    BY <1>1, <1>2, <1>8, <2>1 DEF Block, MayBlock, TypeOK
  <2>3. pc[c] \in {"ack", "nack", "notify", "tellSource", "tellTarget"}
    BY <1>8 DEF Block
  <2>4. /\ Near(f, g) /\ g.aim = f.aim /\ g.arg = f.arg /\ g.role = f.role
        /\ g.peer = f.peer /\ g.op = f.op
    BY <1>2, <2>1, NearWrites DEF Frames
  <2>5. CASE ~ Serving(c)
    <3>1. ~ Serving(c)'
      BY <1>1, <2>2, <2>4, <2>5 DEF Serving
    <3>2. pc'[c] \notin InvitePCs
      BY <2>2, <2>3 DEF InvitePCs, ChosenPCs, MadePCs
    <3> QED
      BY <3>1, <3>2 DEF Fits
  <2>6. CASE Serving(c)
    <3>1. PICK p : p = pc[c]
      OBVIOUS
    <3>2. Good(c, p, f)
      BY <1>1, <2>6, <3>1 DEF Fits
    <3>3. Names(c, g) /\ g.inv = f.inv /\ Out(c, g) = Out(c, f) /\ Now(c, g) = Now(c, f)
      BY <2>4, <3>2, NamesOn DEF Good, Names
    <3>4. Kind(p, g) /\ Removed(c, p, g) /\ Keeps(c, p, g)
      BY <2>4, <3>2, <3>3 DEF Good, Kind, Removed, Keeps
    <3>5. Ends(c, p, g) /\ Roled(p, g) /\ Done(c, p, g)
      BY <2>4, <3>2, <3>3 DEF Good, Ends, Roled, Done
    <3>6. Good(c, p, g)'
      BY <1>3, <3>3, <3>4, <3>5, SameGood DEF Good
    <3> QED
      BY <2>2, <2>3, <3>1, <3>6, GoodFits DEF InvitePCs, ChosenPCs, MadePCs
  <2> QED
    BY <2>5, <2>6
<1> QED
  BY <1>4, <1>5, <1>6, <1>7, <1>8 DEF WriteSteps

\* What a step does to an invitation and its game.
LEMMA OwnData ==
    ASSUME MatchInv, MatchInv', NEW c \in Clients, Grown(c), Fits(c), DataSteps(c)
    PROVE  Fits(c)'
<1>1. PICK f : f = frame[c]
  OBVIOUS
<1>2. TypeOK /\ f \in Frames
  BY <1>1 DEF MatchInv, TypeOK
<1>3. ASSUME NEW p, pc[c] \in CurPCs, p \notin InvitePCs, Goto(c, p), UNCHANGED frame,
             Names(c, f)' => Good(c, p, f)'
      PROVE  Fits(c)'
  <2>1. Names(c, f)
    BY <1>1, <1>3 DEF Fits, Serving, Good
  <2>2. pc[c] \notin MadePCs
    BY <1>3, Places DEF InvitePCs
  <2>3. Names(c, f)'
    BY <2>1, <2>2, OwnNames
  <2>4. pc'[c] = p /\ frame'[c] = f
    BY <1>1, <1>2, <1>3 DEF Goto, TypeOK
  <2> QED
    BY <1>3, <2>3, <2>4, GoodFits
<1>4. CASE RevokeClose(c)
  <2>1. pc[c] = "revoke" /\ pc[c] \in CurPCs
    BY <1>4 DEF RevokeClose, Reads, At, CurPCs, DereferenceSteps
  <2>2. Good(c, "revoke", f) /\ Names(c, f)
    BY <1>1, <2>1 DEF Fits, Serving, Good
  <2>3. PICK u : u = Cur(c) /\ u = Now(c, f)
    BY <1>1 DEF Cur, Now
  <2>4. u \in Invs
    BY <1>1, <1>4, <2>1, <2>2, <2>3, CurGot DEF RevokeClose, Reads
  <2>5. CASE Close(u) /\ Closable(u, NullRole) /\ Goto(c, "revokeSource")
             /\ UNCHANGED <<frame, listOfInv>>
    <3>1. inv'[u].state = "CLOSED" /\ game'[u] = NoGame
      BY <1>2, <2>4, <2>5 DEF Close, Closable, TypeOK, Invitations
    <3>2. Now(c, f)' = u
      BY <2>3, <2>5 DEF Now
    <3>3. Names(c, f)' => Good(c, "revokeSource", f)'
      BY <2>2, <3>1, <3>2
         DEF Good, Kind, Removed, Keeps, Ends, Roled, Done, AskPCs, EndPCs, TakePCs
    <3> QED
      BY <1>3, <2>1, <2>5, <3>3 DEF InvitePCs, ChosenPCs, MadePCs
  <2> QED
    BY <1>2, <1>4, <2>3, <2>5, FailFits DEF RevokeClose
<1>5. CASE ResignPost(c)
  <2>1. pc[c] = "post" /\ pc[c] \in CurPCs
    BY <1>5 DEF ResignPost, At, CurPCs
  <2>2. Good(c, "post", f)
    BY <1>1, <2>1 DEF Fits, Serving
  <2>3. Good(c, "close", f)
    BY <2>2
       DEF Good, Kind, Removed, Keeps, Ends, Roled, Done, AskPCs, EndPCs, TakePCs
  <2>4. Good(c, "close", f)'
    BY <1>5, <2>3, SameGood DEF ResignPost
  <2> QED
    BY <1>3, <1>5, <2>1, <2>4 DEF ResignPost, InvitePCs, ChosenPCs, MadePCs
<1>6. CASE ResignClose(c)
  <2>1. pc[c] = "close" /\ pc[c] \in CurPCs /\ pc[c] \notin MadePCs
    BY <1>6 DEF ResignClose, Reads, At, CurPCs, DereferenceSteps, MadePCs
  <2>2. Good(c, "close", f) /\ Names(c, f)
    BY <1>1, <2>1 DEF Fits, Serving, Good
  <2>3. PICK u : u = Cur(c) /\ u = Now(c, f) /\ u \in Invs
    BY <1>1, <1>6, <2>1, <2>2, CurGot DEF ResignClose, Reads
  <2>4. PICK g : g = [f EXCEPT !.aim = NoInv, !.role = NullRole]
    OBVIOUS
  <2>5. Near(f, g) /\ g.aim = NoInv /\ g.arg = f.arg
    BY <1>2, <2>4, NullByte, KinRoles DEF Kin, Frames
  <2>6. Names(c, g) /\ g.op = "resign" /\ g.inv = f.inv
    BY <2>2, <2>5, NamesOn DEF Names, Got, Good, Kind
  <2>7. PICK v \in Invs : v = f.inv
    BY <2>2 DEF Names
  <2>8. Names(c, g)' /\ inv'[v].target = inv[v].target
        /\ inv'[v].targetR = inv[v].targetR /\ Lasts(v)
    BY <2>1, <2>6, <2>7, OwnNames
  <2>9. inv[v].target = c =>
           u = v /\ (f.role = NullRole => inv[v].targetR = NullRole)
    <3>1. SUFFICES ASSUME inv[v].target = c
                   PROVE  u = v /\ (f.role = NullRole => inv[v].targetR = NullRole)
      OBVIOUS
    <3>2. u = v
      BY <2>2, <2>3, <2>7, <3>1 DEF Good, Keeps
    <3>3. ~ Out(c, f)
      BY <1>1, <2>1, <2>2, <2>3, <2>7, <3>2, CurGot
    <3>4. f.aim = v
      BY <2>2, <2>7, <3>3, MatchAssumption DEF Good, Keeps, Names, Got
    <3> QED
      BY <2>2, <3>2, <3>4 DEF Good, Roled
  <2>10. CASE Goto(c, "hung")
    <3>1. pc'[c] = "hung"
      BY <1>2, <2>10 DEF Goto, TypeOK
    <3> QED
      BY <3>1, IdleFits
  <2>11. CASE Goto(c, "ownArg") /\ (Close(u) \/ ~ Closable(u, f.role))
    <3>1. inv'[v].target = c => inv'[v].state = "CLOSED" \/ inv'[v].targetR = NullRole
      <4>1. CASE Close(u)
        BY <1>2, <2>3, <2>8, <2>9, <4>1 DEF Close, TypeOK, Invitations
      <4>2. CASE ~ Closable(u, f.role)
        BY <2>8, <2>9, <4>2 DEF Closable, Lasts
      <4> QED
        BY <2>11, <4>1, <4>2
    <3>2. Good(c, "ownArg", g)'
      BY <2>6, <2>7, <2>8, <3>1
         DEF Good, Kind, Removed, Keeps, Ends, Roled, Done, AskPCs, EndPCs, TakePCs
    <3>3. pc'[c] = "ownArg" /\ frame'[c] = g
      BY <1>1, <1>2, <1>6, <2>4, <2>11 DEF Goto, TypeOK, ResignClose, Unaimed
    <3> QED
      BY <3>2, <3>3, GoodFits DEF InvitePCs, ChosenPCs, MadePCs
  <2> QED
    BY <1>1, <1>6, <2>3, <2>10, <2>11 DEF ResignClose
<1>7. CASE Accept(c)
  <2>1. pc[c] = "accept" /\ pc[c] \in CurPCs /\ pc[c] \notin MadePCs
    BY <1>7 DEF Accept, Reads, At, CurPCs, DereferenceSteps, MadePCs
  <2>2. Good(c, "accept", f) /\ Names(c, f)
    BY <1>1, <2>1 DEF Fits, Serving, Good
  <2>3. PICK u : u = Cur(c) /\ u = Now(c, f) /\ u \in Invs
    BY <1>1, <1>7, <2>1, <2>2, CurGot DEF Accept, Reads
  <2>4. CASE game' = [game EXCEPT ![u] = NewGame] /\ Goto(c, "acceptSource")
             /\ UNCHANGED frame
    <3>1. game'[u] # NoGame
      BY <1>2, <2>3, <2>4, FirstGames DEF TypeOK
    <3>2. PICK v \in Invs : v = f.inv
      BY <2>2 DEF Names
    <3>3. inv'[v].target = inv[v].target
      BY <2>1, <2>2, <3>2, OwnNames
    <3>4. inv[v].target = c => u = v
      BY <2>2, <2>3, <3>2 DEF Good, Keeps
    <3>5. Names(c, f)' => Good(c, "acceptSource", f)'
      BY <2>2, <3>1, <3>2, <3>3, <3>4
         DEF Good, Kind, Removed, Keeps, Ends, Roled, Done, AskPCs, EndPCs, TakePCs
    <3> QED
      BY <1>3, <2>1, <2>4, <3>5 DEF InvitePCs, ChosenPCs, MadePCs
  <2> QED
    BY <1>2, <1>7, <2>3, <2>4, FailFits DEF Accept
<1>8. CASE MoveApply(c)
  <2>1. pc[c] = "apply" /\ pc[c] \in CurPCs /\ pc[c] \notin MadePCs
    BY <1>8 DEF MoveApply, At, CurPCs, MadePCs
  <2>2. Good(c, "apply", f) /\ Names(c, f)
    BY <1>1, <2>1 DEF Fits, Serving, Good
  <2>3. PICK g : g = [f EXCEPT !.role = NullRole]
    OBVIOUS
  <2>4. Near(f, g) /\ g.aim = f.aim /\ g.arg = f.arg
    BY <1>2, <2>3, NullByte, KinRoles DEF Kin, Frames
  <2>5. Names(c, g) /\ g.op = "move" /\ g.aim \in Invs
    BY <2>2, <2>4, NamesOn DEF Names, Good, Kind, Ends
  <2>6. Names(c, g)'
    BY <2>1, <2>5, OwnNames
  <2>7. Good(c, "moved", g)'
    BY <2>5, <2>6
       DEF Good, Kind, Removed, Keeps, Ends, Roled, Done, AskPCs, EndPCs, TakePCs
  <2>8. CASE Goto(c, "moved") /\ frame' = [frame EXCEPT ![c].role = NullRole]
    <3>1. pc'[c] = "moved" /\ frame'[c] = g
      BY <1>1, <1>2, <2>3, <2>8 DEF Goto, TypeOK
    <3> QED
      BY <2>7, <3>1, GoodFits DEF InvitePCs, ChosenPCs, MadePCs
  <2> QED
    BY <1>2, <1>8, <2>8, FailFits DEF MoveApply
<1>9. CASE EndPost(c)
  <2>1. pc[c] = "endPost"
    BY <1>9 DEF EndPost, At
  <2>2. Good(c, "endPost", f) /\ Names(c, f)
    BY <1>1, <2>1 DEF Fits, Serving, CurPCs, Good
  <2>3. PICK g : g = [f EXCEPT !.aim = NoInv]
    OBVIOUS
  <2>4. Near(f, g) /\ g.aim = NoInv /\ g.arg = f.arg /\ g.peer = f.peer
    BY <1>2, <2>3, KinInvs DEF Kin, Frames
  <2>5. Names(c, g) /\ g.op = "move" /\ g.inv = f.inv /\ Out(c, g) = Out(c, f)
    BY <2>2, <2>4, NamesOn DEF Names, Got, Good, Kind, EndPCs
  <2>6. Good(c, "sourceArg", g)
    BY <2>2, <2>4, <2>5
       DEF Good, Kind, Removed, Keeps, Ends, Roled, Done, AskPCs, EndPCs, TakePCs
  <2>7. Good(c, "sourceArg", g)'
    BY <1>9, <2>6, SameGood DEF EndPost
  <2>8. pc'[c] = "sourceArg" /\ frame'[c] = g
    BY <1>1, <1>2, <1>9, <2>3 DEF EndPost, Goto, TypeOK
  <2> QED
    BY <2>7, <2>8, GoodFits DEF InvitePCs, ChosenPCs, MadePCs
<1>10. CASE Logout(c) \/ LogoutDone(c)
  <2>1. pc'[c] \in {"logout", "gone"}
    BY <1>2, <1>10 DEF Logout, LogoutDone, Goto, TypeOK
  <2> QED
    BY <2>1, IdleFits
<1>11. CASE NullCrash(c)
  <2>1. UNCHANGED <<listOfInv, inv, game, pc, frame>>
    BY <1>11 DEF NullCrash
  <2>2. pc[c] \in CurPCs
    BY <1>11 DEF NullCrash, NullArgument, CurPCs
  <2>3. Good(c, pc[c], f)
    BY <1>1, <2>2 DEF Fits, Serving
  <2>4. PICK p : p = pc[c]
    OBVIOUS
  <2>5. Good(c, p, f)'
    BY <2>1, <2>3, <2>4, SameGood
  <2>6. p \notin InvitePCs
    BY <2>2, <2>4, Places
  <2> QED
    BY <1>1, <2>1, <2>4, <2>5, <2>6, GoodFits
<1> QED
  BY <1>4, <1>5, <1>6, <1>7, <1>8, <1>9, <1>10, <1>11 DEF DataSteps

\* The steps of an INVITE: nothing is served, whatever list is full.
LEMMA OwnInvites ==
    ASSUME MatchInv, NEW c \in Clients, Fits(c), InviteSteps(c)
    PROVE  Fits(c)'
<1>1. TypeOK /\ frame[c] \in Frames
  BY DEF MatchInv, TypeOK
<1>2. ASSUME NEW p, p \in InvitePCs \cup {"notify"}, pc'[c] = p, frame'[c].op = "invite"
      PROVE  Fits(c)'
  BY <1>2 DEF Fits, Serving, CurPCs, DereferenceSteps, Requests, InvitePCs, ChosenPCs,
     MadePCs
<1>3. CASE Invite(c)
  <2>1. PICK t \in Clients, r \in TargetRoles, v \in Invs :
           Look(c, "found", [Idle EXCEPT !.op = "invite", !.inv = v,
                                         !.peer = t, !.role = r])
    BY <1>3 DEF Invite
  <2>2. pc'[c] = "found" /\ frame'[c].op = "invite"
    BY <1>1, <2>1 DEF Look, Goto, TypeOK, Idle
  <2> QED
    BY <1>2, <2>2 DEF InvitePCs, ChosenPCs
<1>4. CASE ~ Invite(c)
  <2>1. frame[c].op = "invite"
    BY <1>4 DEF Fits, InviteSteps, LookupRef, RefSource, Create, AddSource, AddTarget, At, InvitePCs, ChosenPCs, MadePCs
  <2>2. ASSUME NEW p \in {"refSource", "refTarget"}, Look(c, p, frame[c])
        PROVE  Fits(c)'
    <3>1. pc'[c] = p /\ frame'[c] = frame[c]
      BY <1>1, <2>2 DEF Look, Goto, TypeOK
    <3> QED
      BY <1>2, <2>1, <3>1 DEF InvitePCs, ChosenPCs
  <2>3. CASE LookupRef(c) \/ RefSource(c)
    BY <2>2, <2>3, RefuseFits DEF LookupRef, RefSource
  <2>4. CASE Create(c)
    <3>1. pc'[c] = "addSource" /\ frame'[c] = frame[c]
      BY <1>1, <2>4 DEF Create, Goto, TypeOK
    <3> QED
      BY <1>2, <2>1, <3>1 DEF InvitePCs, MadePCs
  <2>5. ASSUME NEW p \in {"addTarget", "addAnyway", "notify", "fail"}, GoOn(c, p)
        PROVE  Fits(c)'
    <3>1. CASE p = "fail"
      BY <1>1, <2>5, <3>1, FailFits DEF GoOn
    <3>2. CASE p # "fail"
      <4>1. pc'[c] = p /\ frame'[c].op = "invite"
        BY <1>1, <2>1, <2>5, <3>2 DEF GoOn, Goto, TypeOK, Frames
      <4> QED
        BY <1>2, <3>2, <4>1 DEF InvitePCs, MadePCs
    <3> QED
      BY <3>1, <3>2
  <2>6. CASE Goto(c, "hung")
    <3>1. pc'[c] = "hung"
      BY <1>1, <2>6 DEF Goto, TypeOK
    <3> QED
      BY <3>1, IdleFits
  <2>7. CASE AddSource(c) \/ AddTarget(c)
    BY <2>5, <2>6, <2>7 DEF AddSource, AddTarget, Add, Change
  <2> QED
    BY <1>4, <2>3, <2>4, <2>7 DEF InviteSteps
<1> QED
  BY <1>3, <1>4

\* Whoever makes an invitation invites another.
LEMMA ApartStep ==
    ASSUME MatchInv, NEW d \in Clients, StepOf(d), NEW v \in Invs, Apart(v), Grown(d)
    PROVE  Apart(v)'
<1>1. CASE inv[v].state # "NONE"
  BY <1>1 DEF Grown, Lasts, Apart
<1>2. ASSUME inv'[v].state # "NONE", inv[v].state = "NONE" PROVE Apart(v)'
  <2>1. TypeOK /\ FramesSound
    BY DEF MatchInv
  <2>2. CASE ~ InviteSteps(d)
    BY <1>2, <2>2, AllSteps, CalmStep DEF StepOf, Calm, Lives, Kept
  <2>3. CASE Invite(d) \/ LookupRef(d) \/ RefSource(d)
    BY <1>2, <2>3 DEF Invite, LookupRef, RefSource, Look, Refuse
  <2>4. CASE AddSource(d) \/ AddTarget(d)
    <3>0. frame[d].inv \in Invs
      BY <2>4 DEF MatchInv, AddSource, AddTarget, At, Adding, MadePCs
    <3>1. \E e, found, missing : Change(d, e, NoInv, frame[d].inv, found, missing)
      BY <2>4 DEF AddSource, AddTarget, Add
    <3>2. Steady(inv')
      BY <2>1, <3>0, <3>1, ChangeType
    <3> QED
      BY <1>2, <3>2 DEF Steady
  <2>5. CASE Create(d)
    <3>1. PICK t, w : t = frame[d].peer /\ w = frame[d].inv
      OBVIOUS
    <3>2. t # d
      BY <2>5, <3>1 DEF MatchInv, Create, At, Offering, ChosenPCs
    <3>3. PICK made : /\ made.source = d /\ made.target = t
                      /\ inv' = [inv EXCEPT ![w] = made]
      BY <2>5, <3>1 DEF Create
    <3>4. inv'[v] = inv[v] \/ inv'[v] = made
      BY <2>1, <3>3 DEF TypeOK
    <3> QED
      BY <1>2, <3>2, <3>3, <3>4 DEF Apart
  <2> QED
    BY <2>2, <2>3, <2>4, <2>5 DEF InviteSteps
<1> QED
  BY <1>1, <1>2 DEF Apart

LEMMA InitAnswers == Init => AnswerInv
<1> SUFFICES ASSUME Init PROVE AnswerInv
  OBVIOUS
<1>1. \A c \in Clients : Fits(c)
  BY DEF Init, Fits, Serving, CurPCs, DereferenceSteps, InvitePCs, ChosenPCs, MadePCs
<1>2. \A v \in Invs : Apart(v)
  BY DEF Init, Apart, NotMade
<1> QED
  BY <1>1, <1>2 DEF AnswerInv

LEMMA AnswerStep ==
    ASSUME MatchInv, AnswerInv, [Next]_vars
    PROVE  AnswerInv'
<1>1. ASSUME NEW d \in Clients, StepOf(d) PROVE AnswerInv'
  <2>1. Grown(d) /\ MatchInv'
    BY <1>1, GrownStep
  <2>2. Fits(d) /\ \A v \in Invs : Apart(v)
    BY DEF AnswerInv
  <2>3. Fits(d)'
    BY <1>1, <2>1, <2>2, AllSteps, OwnLooks, OwnRemoves, OwnWrites, OwnData, OwnInvites
       DEF StepOf
  <2>4. \A c \in Clients \ {d} : Fits(c)'
    BY <1>1, <2>2, OthersFit DEF AnswerInv
  <2>5. \A v \in Invs : Apart(v)'
    BY <1>1, <2>1, <2>2, ApartStep
  <2> QED
    BY <2>3, <2>4, <2>5 DEF AnswerInv
<1>2. CASE UNCHANGED vars
  <2>1. ASSUME NEW c \in Clients PROVE Fits(c)'
    <3>1. Fits(c)' <=> Fits(c)
      BY <1>2 DEF vars, Fits, Serving, Good, Kind, Names, Removed, Keeps, Ends, Roled,
         Done, Now, Out, Got, Mine, Past, InList
    <3> QED
      BY <3>1 DEF AnswerInv
  <2>2. \A v \in Invs : Apart(v)'
    BY <1>2 DEF vars, AnswerInv, Apart
  <2> QED
    BY <2>1, <2>2 DEF AnswerInv
<1> QED
  BY <1>1, <1>2 DEF Next, StepOf

\* What an ACK means follows from the invariant.
LEMMA AnswersTrue ==
    ASSUME MatchInv, AnswerInv
    PROVE  AckMeansDone
<1> SUFFICES ASSUME NEW c \in Clients, pc[c] = "ack", NEW f, f = frame[c],
                    f.op \in {"revoke", "accept", "resign"}
             PROVE  /\ f.op = "revoke" => inv[f.inv].state = "CLOSED" /\ game[f.inv] = NoGame
                    /\ f.op \in {"revoke", "resign"} => ~ InList(c, f.inv)
                    /\ f.op \in {"accept", "resign"} /\ inv[f.inv].target = c =>
                          /\ f.op = "accept" => game[f.inv] # NoGame
                          /\ f.op = "resign" => \/ game[f.inv] = NoGame
                                                \/ game[f.inv].over
                                                \/ inv[f.inv].targetR = NullRole
  BY DEF AckMeansDone
<1>1. Good(c, "ack", f)
  BY DEF AnswerInv, Fits, Serving, Requests
<1>2. f.inv \in Invs
  BY <1>1 DEF Good, Names
<1>3. inv[f.inv].state = "CLOSED" => game[f.inv] = NoGame \/ game[f.inv].over
  BY <1>2, SameGames DEF MatchInv, GameOfState, Abs!GameMatchesState
<1>4. f.op \in {"revoke", "resign"} => ~ InList(c, f.inv)
  BY <1>1 DEF Good, Removed, Out
<1>5. /\ f.op = "revoke" => inv[f.inv].state = "CLOSED" /\ game[f.inv] = NoGame
      /\ inv[f.inv].target = c =>
            /\ f.op = "accept" => game[f.inv] # NoGame
            /\ f.op = "resign" => \/ inv[f.inv].state = "CLOSED"
                                  \/ inv[f.inv].targetR = NullRole
  BY <1>1 DEF Good, Done
<1> QED
  BY <1>3, <1>4, <1>5

(***************************************************************************)
(* client_revoke_invitation, client_accept_invitation and                  *)
(* client_resign_game read their slot again before every call they make.   *)
(* Whatever the other threads put in it or take out of it meanwhile, when  *)
(* jeux_client_service sends an ACK, the invitation the request named has  *)
(* been closed without a game (REVOKE), is in no slot of the client        *)
(* (REVOKE, RESIGN), and, if it was made to the client, has a game         *)
(* (ACCEPT) or none that goes on (RESIGN), but that of a target in role 0, *)
(* which inv_close leaves as it is.                                        *)
(***************************************************************************)
THEOREM AcknowledgementsHold == Spec => []AckMeansDone
<1>1. Init => MatchInv /\ AnswerInv
  BY InitMatch, InitAnswers
<1>2. MatchInv /\ AnswerInv /\ [Next]_vars => (MatchInv /\ AnswerInv)'
  BY MatchStep, AnswerStep
<1>3. MatchInv /\ AnswerInv => AckMeansDone
  BY AnswersTrue
<1> QED
  BY <1>1, <1>2, <1>3, PTL DEF Spec

-----------------------------------------------------------------------------
(***************************************************************************)
(* The results.  client_resign_game posts before it closes: what the slot  *)
(* then holds is the game posted, unless the opponent has taken that out   *)
(* of the list of its source.                                              *)
(***************************************************************************)

\* Only two steps post a result.
LEMMA PostSteps ==
    ASSUME NEW d \in Clients, StepOf(d), ~ (ResignPost(d) \/ EndPost(d))
    PROVE  UNCHANGED posts
<1>1. LookSteps(d) => UNCHANGED posts
  BY LookUntouched
<1>2. WriteSteps(d) => UNCHANGED posts
  BY DEF WriteSteps, Answer, Notify, TellSource, TellTarget, Block, Written, MayBlock
<1>3. DataSteps(d) => UNCHANGED posts
  BY DEF DataSteps, RevokeClose, ResignClose, Accept, MoveApply, Logout, LogoutDone,
     NullCrash
<1>4. InviteSteps(d) => UNCHANGED posts
  BY DEF InviteSteps, Invite, LookupRef, RefSource, Create, Look, Refuse, AddSource,
     AddTarget, Add, Change
<1>5. RemoveSteps(d) => UNCHANGED posts
  BY DEF RemoveSteps, RemoveOwn, RemovePeer, RemoveSource, RemoveTarget, Remove, Change
<1> QED
  BY <1>1, <1>2, <1>3, <1>4, <1>5, AllSteps DEF StepOf

\* A thread that is about to close does that next, or is gone.
LEMMA CloseSteps ==
    ASSUME NEW d \in Clients, StepOf(d), pc[d] = "close"
    PROVE  ResignClose(d) \/ UNCHANGED <<pc, frame>>
<1>1. ~ WriteSteps(d)
  BY DEF WriteSteps, Answer, Notify, TellSource, TellTarget, Block, At
<1>2. DataSteps(d) => ResignClose(d) \/ UNCHANGED <<pc, frame>>
  BY DEF DataSteps, RevokeClose, ResignPost, Accept, MoveApply, EndPost, Logout,
     LogoutDone, NullCrash, Reads, At
<1>3. ~ InviteSteps(d)
  BY DEF InviteSteps, Invite, LookupRef, RefSource, Create, AddSource, AddTarget, At
<1>4. ~ RemoveSteps(d)
  BY DEF RemoveSteps, RemoveOwn, RemovePeer, RemoveSource, RemoveTarget, At
<1>5. ~ LookSteps(d)
  BY DEF LookSteps, Receive, RevokeSource, RevokeTarget, DeclineSource,
     DeclineTarget, Who, TargetsOpponent, TargetsRole, SourcesRole,
     SourcesOpponent, ReadOwn, ReadPeers, AcceptSource, Scan, AcceptGame,
     AcceptState, AcceptRole, MoveGame, MoveParse, Moved, MoveState, EndSource,
     EndTarget, EndRole, ReadSources, ReadTargets, Hangup, LogoutSlot, At, Reads
<1> QED
  BY <1>1, <1>2, <1>3, <1>4, <1>5, AllSteps DEF StepOf

\* What is settled stays settled.
LEMMA SettledStays ==
    ASSUME MatchInv, NEW d \in Clients, Grown(d), NEW v, Apart(v), Past(v), Settled(v)
    PROVE  Settled(v)'
<1>1. v \in Invs /\ inv[v].state # "NONE" /\ Lasts(v) /\ Mine(inv[v].source, v)
  BY DEF Past, Grown, Mine
<1>2. PICK c : c = inv[v].source /\ c = inv'[v].source
  BY <1>1 DEF Lasts
<1>3. c \in Clients
  BY <1>1, <1>2 DEF Apart
<1>4. InList(c, v)' => InList(c, v)
  BY <1>1, <1>2, <1>3, MineStays
<1>5. CASE ~ InList(c, v)
  BY <1>2, <1>4, <1>5 DEF Settled
<1> QED
  BY <1>1, <1>2, <1>5 DEF Settled, Lasts

\* The close of a resignation settles the game whose result was posted.
LEMMA CloseSettles ==
    ASSUME MatchInv, NEW d \in Clients, Grown(d), Fits(d), ResignClose(d),
           \A u \in Invs : Apart(u), NEW v, v = frame[d].aim
    PROVE  Settled(v)'
<1>1. PICK f : f = frame[d]
  OBVIOUS
<1>2. TypeOK
  BY DEF MatchInv
<1>3. pc[d] = "close" /\ pc[d] \in CurPCs
  BY DEF ResignClose, Reads, At, CurPCs, DereferenceSteps
<1>4. Good(d, "close", f) /\ Names(d, f)
  BY <1>1, <1>3 DEF Fits, Serving, Good
<1>5. /\ v \in Invs /\ v = f.aim
      /\ f.role = NullRole => inv[v].targetR = NullRole
      /\ inv[v].target = d => Now(d, f) = v
      /\ Got(d, f, v)
  BY <1>1, <1>4 DEF Good, Keeps, Roled, Names
<1>6. Mine(d, v) /\ (v # f.inv => inv[v].source # d)
  BY <1>5, MatchAssumption DEF Got
<1>7. Past(v) /\ Lasts(v) /\ d \in {inv[v].source, inv[v].target}
  BY <1>5, <1>6 DEF Mine, Grown
<1>8. Settled(v) => Settled(v)'
  BY <1>5, <1>7, SettledStays
<1>9. Cur(d) = Now(d, f)
  BY <1>1 DEF Cur, Now
<1>10. CASE Cur(d) = v
  <2>1. inv[v].state = "CLOSED" => Settled(v)'
    BY <1>8, <2>1 DEF Settled
  <2>2. f.role = NullRole => Settled(v)'
    BY <1>5, <1>8, <2>2 DEF Settled
  <2>3. CASE Close(v)
    <3>1. inv'[v].state = "CLOSED"
      BY <1>2, <1>5, <2>3 DEF Close, TypeOK, Invitations
    <3> QED
      BY <3>1 DEF Settled
  <2>4. CASE inv' = [inv EXCEPT ![v].seph = 0]
    <3>1. inv'[v].seph = 0
      BY <1>2, <1>5, <2>4 DEF TypeOK, Invitations
    <3> QED
      BY <3>1 DEF Settled
  <2>5. ~ Closable(v, f.role) => inv[v].state = "CLOSED" \/ f.role = NullRole
    BY DEF Closable
  <2> QED
    BY <1>1, <1>10, <2>1, <2>2, <2>3, <2>4, <2>5 DEF ResignClose
<1>11. CASE Cur(d) # v
  <2>1. inv[v].source = d /\ v = f.inv
    BY <1>5, <1>6, <1>7, <1>9, <1>11
  <2>2. Out(d, f)
    BY <1>4, <1>9, <1>11, <2>1 DEF Names
  <2>3. Settled(v)
    BY <2>1, <2>2 DEF Settled, Out
  <2> QED
    BY <1>8, <2>3
<1> QED
  BY <1>10, <1>11

LEMMA RatedStep ==
    ASSUME MatchInv, AnswerInv, NEW d \in Clients, StepOf(d),
           NEW v \in Invs, Rated(v)
    PROVE  Rated(v)'
<1>1. Grown(d) /\ Threads(d) /\ MatchInv'
  BY GrownStep
<1>2. Fits(d) /\ TypeOK /\ \A u \in Invs : Apart(u)
  BY DEF AnswerInv, MatchInv
<1>3. SUFFICES ASSUME posts'[v] > 0
               PROVE  /\ Past(v)'
                      /\ \/ Settled(v)'
                         \/ \E c \in Clients : pc'[c] = "close" /\ frame'[c].aim = v
  BY DEF Rated
<1>4. CASE posts[v] > 0
  <2>1. Past(v) /\ Past(v)'
    BY <1>1, <1>4 DEF Rated, Grown
  <2>2. CASE Settled(v)
    BY <1>1, <1>2, <2>1, <2>2, SettledStays
  <2>3. ASSUME NEW c \in Clients, pc[c] = "close", frame[c].aim = v
        PROVE  Settled(v)' \/ (pc'[c] = "close" /\ frame'[c].aim = v)
    <3>1. CASE c # d
      BY <1>1, <2>3, <3>1 DEF Threads
    <3>2. CASE c = d
      BY <1>1, <1>2, <2>3, <3>2, CloseSteps, CloseSettles
    <3> QED
      BY <3>1, <3>2
  <2> QED
    BY <1>4, <2>1, <2>2, <2>3 DEF Rated
<1>5. CASE ~ posts[v] > 0
  <2>1. PICK f : f = frame[d]
    OBVIOUS
  <2>2. posts'[v] # posts[v]
    BY <1>3, <1>5
  <2>3. ResignPost(d) \/ EndPost(d)
    BY <2>2, PostSteps
  <2>4. v = f.aim
    <3>1. PICK players : PostFor(f.aim, players)
      BY <2>1, <2>3 DEF ResignPost, EndPost
    <3> QED
      BY <1>2, <2>2, <3>1 DEF PostFor, TypeOK
  <2>5. Good(d, pc[d], f) /\ pc[d] \in {"post", "endPost"}
    BY <1>2, <2>1, <2>3 DEF ResignPost, EndPost, At, Fits, Serving, CurPCs
  <2>6. Past(v) /\ Past(v)'
    BY <1>1, <2>4, <2>5, MatchAssumption DEF Good, Names, Got, Mine, Grown
  <2>7. CASE ResignPost(d)
    <3>1. pc'[d] = "close" /\ frame'[d].aim = v
      BY <1>2, <2>1, <2>4, <2>7 DEF ResignPost, Goto, TypeOK
    <3> QED
      BY <2>6, <3>1
  <2>8. CASE EndPost(d)
    <3>1. game[v].over
      BY <2>4, <2>5, <2>8 DEF EndPost, At, Good, Ends, EndPCs
    <3>2. Settled(v)
      BY <3>1 DEF Settled
    <3> QED
      BY <1>1, <1>2, <2>6, <3>2, SettledStays
  <2> QED
    BY <2>3, <2>7, <2>8
<1> QED
  BY <1>4, <1>5

(***************************************************************************)
(* client_resign_game posts its result before it closes the game, and      *)
(* client_make_move reads the game for the result without its semaphore.   *)
(* Yet whatever the other threads do in between, a game that has been      *)
(* rated is over, is out of the list of its source, or is about to be      *)
(* resigned by the thread that rated it; or it is one of the two that      *)
(* nobody can end that way: its target plays role 0, or it was misplayed.  *)
(***************************************************************************)
THEOREM PostedGamesEnd == Spec => []PostedGameEnds
<1> DEFINE AllRated == \A v \in Invs : Rated(v)
<1>1. Init => MatchInv /\ AnswerInv /\ AllRated
  BY InitMatch, InitAnswers DEF Init, Rated
<1>2. MatchInv /\ AnswerInv /\ AllRated /\ [Next]_vars =>
          (MatchInv /\ AnswerInv /\ AllRated)'
  <2>1. ASSUME MatchInv, AnswerInv, AllRated, [Next]_vars PROVE AllRated'
    <3>1. ASSUME NEW d \in Clients, StepOf(d) PROVE AllRated'
      BY <2>1, <3>1, RatedStep
    <3>2. CASE UNCHANGED vars
      BY <2>1, <3>2 DEF vars, Rated, Past, Settled, InList
    <3> QED
      BY <2>1, <3>1, <3>2 DEF Next, StepOf
  <2> QED
    BY <2>1, MatchStep, AnswerStep
<1>3. AllRated => PostedGameEnds
  BY DEF Rated, Settled, PostedGameEnds
<1> QED
  BY <1>1, <1>2, <1>3, PTL DEF Spec
=============================================================================
