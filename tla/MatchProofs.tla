----------------------------- MODULE MatchProofs -----------------------------
(***************************************************************************)
(* For any finite set of clients, any set of invitations and any length of *)
(* listOfInv: the lists, the references and the games of Match.            *)
(*                                                                         *)
(* None of the four invariants of a run that are proved here is inductive  *)
(* alone.  MatchInv is: it adds to them that a thread which reads its slot *)
(* reads a slot of its list (FramesSound), that an invitation which has    *)
(* been chosen but not made is nobody else's (Offering), and that one      *)
(* between its making and its second client_add_invitation is open and in  *)
(* no list but its maker's (Adding; without it the second call could list  *)
(* an invitation twice, or wait for its semaphore and never count the      *)
(* entry it has made).                                                     *)
(*                                                                         *)
(* Of the steps only those of an INVITE put anything in a list; the others *)
(* are "calm".  So the proof is in four parts: what the operators return   *)
(* (LeastSlot to ChangeType), what a step does to the threads              *)
(* (ThreadStep), what a calm step does to the data (CalmStep) and why that *)
(* is enough (CalmKeeps), and the steps of an INVITE (InviteKeeps).  The   *)
(* last theorem is about who waits for whom.                               *)
(***************************************************************************)
EXTENDS Match, LeastElement, FiniteSetTheorems, TLAPS

\* A set of slots that is not empty has a least element.
LEMMA LeastSlot ==
    ASSUME NEW S \in SUBSET Slots, S # {}
    PROVE  \E i \in S : \A k \in S : i <= k
<1>1. Slots \subseteq Int /\ IsFiniteSet(Slots)
  BY MatchAssumption, FS_Interval DEF Slots
<1>2. S \in SUBSET Int /\ IsFiniteSet(S)
  BY <1>1, FS_Subset
<1> QED
  BY <1>2, LeastExists

(***************************************************************************)
(* FirstSlot returns a slot that holds what was looked for, if one does.   *)
(***************************************************************************)
LEMMA FirstSlotFinds ==
    ASSUME NEW l, NEW v
    PROVE  \/ FirstSlot(l, v) \in Slots /\ l[FirstSlot(l, v)] = v
           \/ FirstSlot(l, v) = NoSlot /\ \A i \in Slots : l[i] # v
<1> DEFINE S == {i \in Slots : l[i] = v}
<1>1. CASE S = {}
  BY <1>1 DEF FirstSlot
<1>2. CASE S # {}
  <2>1. \E i \in S : \A k \in S : i <= k
    BY <1>2, LeastSlot
  <2>2. \E i \in Slots : l[i] = v /\ \A k \in Slots : l[k] = v => i <= k
    BY <2>1
  <2> QED
    BY <2>2 DEF FirstSlot
<1> QED
  BY <1>1, <1>2

-----------------------------------------------------------------------------
(***************************************************************************)
(* A listOfInv in which one entry was overwritten is a listOfInv.          *)
(***************************************************************************)
LEMMA OverwriteType ==
    ASSUME NEW l \in [Slots -> Invs \cup {NoInv}], NEW old,
           NEW new \in Invs \cup {NoInv}
    PROVE  Overwrite(l, old, new) \in [Slots -> Invs \cup {NoInv}]
BY DEF Overwrite

\* An INVITATION of which nothing was changed, but that it is counted more.
Steady(f) == \A w \in Invs :
                 /\ f[w].state = inv[w].state
                 /\ f[w].source = inv[w].source
                 /\ f[w].target = inv[w].target
                 /\ f[w].targetR = inv[w].targetR
                 /\ f[w].seph = inv[w].seph
                 /\ f[w].ref >= inv[w].ref

\* inv_ref changes nothing of an invitation but the count, and adds one to
\* that if it is called at all.
LEMMA RefAfterKeeps ==
    ASSUME inv \in [Invs -> Invitations], NEW v
    PROVE  /\ RefAfter(v) \in [Invs -> Invitations]
           /\ Steady(RefAfter(v))
           /\ \A w \in Invs \ {v} : RefAfter(v)[w] = inv[w]
           /\ v \in Invs => RefAfter(v)[v].ref = inv[v].ref + 1
<1>0. \A w \in Invs : inv[w].ref \in Nat
  BY DEF Invitations
<1>1. CASE v \notin Invs
  <2>1. RefAfter(v) = inv
    BY <1>1 DEF RefAfter
  <2> QED
    BY <1>0, <1>1, <2>1 DEF Steady
<1>2. CASE v \in Invs
  <2> DEFINE counted == [inv[v] EXCEPT !.ref = inv[v].ref + 1]
  <2>1. RefAfter(v) = [inv EXCEPT ![v] = counted]
    BY <1>2, MatchAssumption DEF RefAfter
  <2>2. inv[v] \in Invitations
    BY <1>2
  <2>3. /\ counted \in Invitations
        /\ counted.state = inv[v].state
        /\ counted.source = inv[v].source
        /\ counted.target = inv[v].target
        /\ counted.targetR = inv[v].targetR
        /\ counted.seph = inv[v].seph
        /\ counted.ref = inv[v].ref + 1
    BY <2>2 DEF Invitations
  <2> HIDE DEF counted
  <2>4. \A w \in Invs : RefAfter(v)[w] = IF w = v THEN counted ELSE inv[w]
    BY <2>1
  <2>5. RefAfter(v) \in [Invs -> Invitations]
    BY <2>1, <2>3
  <2>6. Steady(RefAfter(v))
    BY <1>0, <2>3, <2>4 DEF Steady
  <2> QED
    BY <1>2, <2>3, <2>4, <2>5, <2>6
<1> QED
  BY <1>1, <1>2

(***************************************************************************)
(* client_add_invitation and client_remove_invitation overwrite at most a  *)
(* slot of a list, and leave the invitations as they are, but for a count  *)
(* that grew.  What is removed goes, and nothing comes.                    *)
(***************************************************************************)
LEMMA ChangeType ==
    ASSUME TypeOK, NEW c \in Clients, NEW d, NEW old,
           NEW new \in Invs \cup {NoInv}, NEW found, NEW missing,
           Change(c, d, old, new, found, missing)
    PROVE  /\ listOfInv' \in [Clients -> [Slots -> Invs \cup {NoInv}]]
           /\ inv' \in [Invs -> Invitations]
           /\ holder' \in [Clients -> Clients \cup {NoClient}]
           /\ Steady(inv')
           /\ UNCHANGED <<game, leaving, posts, crashed>>
<1>1. listOfInv' = [listOfInv EXCEPT ![d] = Overwrite(@, old, new)]
  BY DEF Change
<1>2. listOfInv' \in [Clients -> [Slots -> Invs \cup {NoInv}]]
  BY <1>1, OverwriteType DEF TypeOK
<1>3. inv \in [Invs -> Invitations] /\ \A w \in Invs : inv[w].ref \in Nat
  BY DEF TypeOK, Invitations
<1>4. inv' = inv \/ inv' = RefAfter(IF old = NoInv THEN new ELSE old)
  BY DEF Change
<1>5. inv' \in [Invs -> Invitations] /\ Steady(inv')
  BY <1>3, <1>4, RefAfterKeeps DEF Steady
<1>6. holder' = holder \/ holder' = [holder EXCEPT ![d] = c]
  BY DEF Change
<1>7. holder' \in [Clients -> Clients \cup {NoClient}]
  BY <1>6 DEF TypeOK
<1>8. UNCHANGED <<game, leaving, posts, crashed>>
  BY DEF Change
<1> QED
  BY <1>2, <1>5, <1>7, <1>8

LEMMA RemoveEmpties ==
    ASSUME TypeOK, NEW c, NEW d, NEW v, NEW found, NEW missing,
           Remove(c, d, v, found, missing)
    PROVE  \A e \in Clients, i \in Slots :
              listOfInv'[e][i] \in {listOfInv[e][i], NoInv}
<1>1. listOfInv' = [listOfInv EXCEPT ![d] = Overwrite(@, v, NoInv)]
  BY DEF Remove, Change
<1> QED
  BY <1>1 DEF TypeOK, Overwrite

-----------------------------------------------------------------------------
(***************************************************************************)
(* The steps of an INVITE, and the steps of a request on a slot.           *)
(***************************************************************************)
ChosenPCs == {"found", "refSource", "refTarget"}
MadePCs   == {"addSource", "addTarget", "addAnyway"}
InvitePCs == ChosenPCs \cup MadePCs

CurPCs == DereferenceSteps \cup
          {"revokeSource", "decline", "source", "post", "ownArg", "removeOwn",
           "peerArg", "removePeer", "acceptSource", "scan", "acceptState",
           "parse", "apply", "moved", "state", "endSource", "endPost",
           "sourceArg", "removeSource", "tellSource", "targetArg",
           "removeTarget", "tellTarget"}

InviteSteps(c) == \/ Invite(c) \/ LookupRef(c) \/ RefSource(c) \/ Create(c)
                  \/ AddSource(c) \/ AddTarget(c)

\* A thread at a step of a request on a slot reads a slot of the list.
FramesSound == \A c \in Clients : pc[c] \in CurPCs => frame[c].id \in Slots

\* What a step of thread c does to the threads.
Threads(c) == /\ pc' \in [Clients -> PCs]
              /\ frame' \in [Clients -> Frames]
              /\ pc'[c] \in CurPCs => frame'[c].id \in Slots
              /\ pc'[c] \in InvitePCs => InviteSteps(c)
              /\ \A d \in Clients \ {c} : pc'[d] = pc[d] /\ frame'[d] = frame[d]

\* A thread is at a step of an INVITE, at one of a request on a slot, or at
\* another one.
LEMMA Places ==
    /\ CurPCs \subseteq PCs /\ InvitePCs \subseteq PCs
    /\ CurPCs \cap InvitePCs = {}
    /\ \A p \in {"recv", "eof", "ack", "nack", "hung", "gone", "logout", "notify"} :
          p \in PCs /\ p \notin CurPCs /\ p \notin InvitePCs
BY DEF PCs, CurPCs, DereferenceSteps, InvitePCs, ChosenPCs, MadePCs

\* A step that gives the thread new locals and a new place.
LEMMA NewFrame ==
    ASSUME TypeOK, NEW c \in Clients, NEW f \in Frames, NEW p \in PCs,
           frame' = [frame EXCEPT ![c] = f], Goto(c, p),
           p \in CurPCs => f.id \in Slots,
           p \in InvitePCs => InviteSteps(c)
    PROVE  Threads(c) /\ frame'[c] = f /\ pc'[c] = p
BY DEF TypeOK, Goto, Threads

\* Locals of the same request, but for the state of a write.
Near(f, g) == g \in Frames /\ g.id = f.id /\ g.op = f.op /\ g.inv = f.inv
Kin(f, g)  == Near(f, g) /\ g.writes = f.writes

\* A step that goes on with a request.
LEMMA OnFrame ==
    ASSUME TypeOK, FramesSound, NEW c \in Clients, NEW f, NEW p \in CurPCs \cup {"notify", "hung"},
           pc[c] \in CurPCs, Near(frame[c], f),
           frame' = [frame EXCEPT ![c] = f], Goto(c, p)
    PROVE  Threads(c) /\ frame'[c] = f /\ pc'[c] = p
<1>1. frame[c].id \in Slots
  BY DEF FramesSound
<1>2. p \in PCs /\ p \notin InvitePCs
  BY Places
<1> QED
  BY <1>1, <1>2, NewFrame DEF Near

\* The locals of a thread that serves nothing are of the type of locals.
LEMMA IdleFrame == Idle \in Frames
BY MatchAssumption DEF Idle, Frames, Requests, Slots, NullRole, Bytes

LEMMA IdleWrites == ~ Idle.writes
BY DEF Idle

\* One more local is noted.
LEMMA KinInvs ==
    ASSUME NEW f \in Frames, NEW v \in Invs \cup {NoInv}
    PROVE  /\ Kin(f, f)
           /\ Kin(f, [f EXCEPT !.arg = v])
           /\ Kin(f, [f EXCEPT !.aim = v])
BY DEF Kin, Near, Frames

LEMMA KinClients ==
    ASSUME NEW f \in Frames, NEW d \in Clients \cup {NoClient}
    PROVE  /\ Kin(f, [f EXCEPT !.peer = d])
           /\ Kin(f, [f EXCEPT !.target = d])
BY DEF Kin, Near, Frames

LEMMA KinRoles ==
    ASSUME NEW f \in Frames, NEW r \in Bytes, NEW v \in Invs \cup {NoInv}
    PROVE  /\ Kin(f, [f EXCEPT !.role = r])
           /\ Kin(f, [f EXCEPT !.role = r, !.aim = v])
           /\ Kin(f, [f EXCEPT !.aim = v, !.role = r])
<1>1. Kin(f, [f EXCEPT !.role = r])
  BY DEF Kin, Near, Frames
<1>2. Kin(f, [f EXCEPT !.role = r, !.aim = v])
  BY DEF Kin, Near, Frames
<1>3. Kin(f, [f EXCEPT !.aim = v, !.role = r])
  BY DEF Kin, Near, Frames
<1> QED
  BY <1>1, <1>2, <1>3

LEMMA KinPeerAim ==
    ASSUME NEW f \in Frames, NEW d \in Clients \cup {NoClient},
           NEW v \in Invs \cup {NoInv}
    PROVE  Kin(f, [f EXCEPT !.peer = d, !.aim = v])
BY DEF Kin, Near, Frames

LEMMA KinScan ==
    ASSUME NEW f \in Frames, NEW i \in Slots
    PROVE  Kin(f, [f EXCEPT !.i = i])
BY DEF Kin, Near, Frames

LEMMA NearWrites ==
    ASSUME NEW f \in Frames, NEW b \in BOOLEAN, NEW d \in Clients \cup {NoClient}
    PROVE  /\ Near(f, [f EXCEPT !.writes = b])
           /\ Near(f, [f EXCEPT !.peer = d, !.writes = b])
<1>1. Near(f, [f EXCEPT !.writes = b])
  BY DEF Near, Frames
<1>2. Near(f, [f EXCEPT !.peer = d, !.writes = b])
  BY DEF Near, Frames
<1> QED
  BY <1>1, <1>2

\* A return from a request is a step of the thread, to one of three places.
LEMMA ReturnFrame ==
    ASSUME TypeOK, NEW c \in Clients, NEW ok \in BOOLEAN, Return(c, ok)
    PROVE  /\ Threads(c) /\ pc'[c] \in {"logout", "ack", "nack"}
           /\ frame'[c].writes = FALSE
<1> DEFINE p == IF leaving[c] THEN "logout" ELSE IF ok THEN "ack" ELSE "nack"
           f == IF leaving[c]
                THEN [Idle EXCEPT !.id = frame[c].id]
                ELSE IF ok THEN [Idle EXCEPT !.op = frame[c].op, !.id = frame[c].id,
                                             !.inv = frame[c].inv]
                           ELSE Idle
<1>1. Goto(c, p) /\ frame' = [frame EXCEPT ![c] = f]
  BY DEF Return
<1>2. /\ p \in PCs /\ p \notin CurPCs /\ p \notin InvitePCs
      /\ p \in {"logout", "ack", "nack"}
  BY Places
<1>3. frame[c] \in Frames
  BY DEF TypeOK
<1>4. f \in Frames
  <2>1. [Idle EXCEPT !.id = frame[c].id] \in Frames
    BY <1>3, IdleFrame DEF Frames
  <2>2. [Idle EXCEPT !.op = frame[c].op, !.id = frame[c].id,
                     !.inv = frame[c].inv] \in Frames
    BY <1>3, IdleFrame DEF Frames
  <2> QED
    BY <2>1, <2>2, IdleFrame
<1>5. f.writes = FALSE
  BY DEF Idle
<1> HIDE DEF p, f
<1> QED
  BY <1>1, <1>2, <1>4, <1>5, NewFrame

\* What a thread reads from its slot is an invitation or NULL, and what the
\* getters return is a client, NULL or a role.
LEMMA CurType ==
    ASSUME TypeOK, FramesSound, NEW c \in Clients, pc[c] \in CurPCs
    PROVE  /\ frame[c].id \in Slots
           /\ Cur(c) \in Invs \cup {NoInv}
           /\ SourceOf(Cur(c)) \in Clients \cup {NoClient}
           /\ Cur(c) # NoInv => /\ TargetOf(Cur(c)) \in Clients \cup {NoClient}
                                /\ SourceRole(Cur(c)) \in Bytes
                                /\ inv[Cur(c)].targetR \in Bytes
<1>1. frame[c].id \in Slots /\ Cur(c) \in Invs \cup {NoInv}
  BY DEF TypeOK, FramesSound, Cur
<1>2. Cur(c) \in Invs => inv[Cur(c)] \in Invitations
  BY DEF TypeOK
<1>3. 1 \in Bytes /\ 2 \in Bytes
  BY DEF Bytes
<1>4. CASE Cur(c) = NoInv
  BY <1>1, <1>4 DEF SourceOf
<1>5. CASE Cur(c) \in Invs
  BY <1>1, <1>2, <1>3, <1>5 DEF SourceOf, TargetOf, SourceRole, Invitations
<1> QED
  BY <1>1, <1>4, <1>5

\* The locals of a request that has just been received name its slot.
LEMMA RequestFrame ==
    ASSUME NEW op \in Requests, NEW i \in Slots, NEW v \in Invs \cup {NoInv}
    PROVE  /\ [Idle EXCEPT !.op = op, !.id = i, !.inv = v] \in Frames
           /\ [Idle EXCEPT !.op = op, !.id = i, !.inv = v].id = i
           /\ ~ [Idle EXCEPT !.op = op, !.id = i, !.inv = v].writes
BY IdleFrame DEF Frames, Idle

\* A list operation sends its thread on, back, or leaves it waiting.
LEMMA ChangeThread ==
    ASSUME TypeOK, FramesSound, NEW c \in Clients, NEW d, NEW old, NEW new,
           NEW found \in CurPCs \cup {"notify", "fail"},
           NEW missing \in CurPCs \cup {"fail"},
           pc[c] \in CurPCs,
           Change(c, d, old, new, found, missing)
    PROVE  Threads(c)
<1>1. frame[c] \in Frames
  BY DEF TypeOK
<1>2. Kin(frame[c], frame[c]) /\ Kin(frame[c], [frame[c] EXCEPT !.arg = NoInv])
  BY <1>1 DEF Kin, Near, Frames
<1>3. ASSUME NEW step \in CurPCs \cup {"notify", "fail"}, GoOn(c, step) PROVE Threads(c)
  <2>1. CASE step = "fail"
    BY <1>3, <2>1, ReturnFrame DEF GoOn
  <2>2. CASE step # "fail"
    BY <1>2, <1>3, <2>2, OnFrame DEF GoOn, Kin
  <2> QED
    BY <2>1, <2>2
<1>4. CASE Goto(c, "hung") /\ UNCHANGED frame
  <2>1. frame' = [frame EXCEPT ![c] = frame[c]]
    BY <1>4 DEF TypeOK
  <2> QED
    BY <1>2, <1>4, <2>1, OnFrame DEF Kin
<1> QED
  BY <1>3, <1>4 DEF Change

-----------------------------------------------------------------------------
(***************************************************************************)
(* The steps that change nothing but a thread and its locals.              *)
(***************************************************************************)
LookSteps(c) ==
    \/ Receive(c) \/ RevokeSource(c) \/ RevokeTarget(c)
    \/ DeclineSource(c) \/ DeclineTarget(c)
    \/ Who(c) \/ TargetsOpponent(c) \/ TargetsRole(c)
    \/ SourcesRole(c) \/ SourcesOpponent(c)
    \/ ReadOwn(c) \/ ReadPeers(c) \/ AcceptSource(c) \/ Scan(c)
    \/ AcceptGame(c) \/ AcceptState(c) \/ AcceptRole(c)
    \/ MoveGame(c) \/ MoveParse(c) \/ Moved(c) \/ MoveState(c)
    \/ EndSource(c) \/ EndTarget(c) \/ EndRole(c)
    \/ ReadSources(c) \/ ReadTargets(c)
    \/ Hangup(c) \/ LogoutSlot(c)

\* Those that write a packet.
WriteSteps(c) ==
    Answer(c) \/ Notify(c) \/ TellSource(c) \/ TellTarget(c) \/ Block(c)

\* Those that remove an invitation from a list.
RemoveSteps(c) ==
    RemoveOwn(c) \/ RemovePeer(c) \/ RemoveSource(c) \/ RemoveTarget(c)

\* Those that do something to an invitation, a game or the process.
DataSteps(c) ==
    \/ RevokeClose(c) \/ ResignPost(c) \/ ResignClose(c) \/ Accept(c)
    \/ MoveApply(c) \/ EndPost(c) \/ Logout(c) \/ LogoutDone(c) \/ NullCrash(c)

LEMMA AllSteps ==
    ASSUME NEW c, Receive(c) \/ Invite(c) \/ Hangup(c) \/ Block(c) \/ Serve(c)
    PROVE  \/ InviteSteps(c) \/ LookSteps(c) \/ WriteSteps(c)
           \/ RemoveSteps(c) \/ DataSteps(c)
BY DEF Serve, InviteSteps, LookSteps, WriteSteps, RemoveSteps, DataSteps

\* What Look leaves alone is all that Refuse leaves alone.
LEMMA LookAlters ==
    ASSUME NEW c, NEW step, NEW locals, Look(c, step, locals) \/ Refuse(c)
    PROVE  UNCHANGED <<listOfInv, inv, game, holder, leaving, posts, crashed>>
BY DEF Look, Refuse

\* What a look does to its thread: no write begins, and no logout.
Looked(c) == /\ Threads(c)
             /\ frame'[c].writes => frame[c].writes
             /\ pc'[c] = "logout" => pc[c] = "logout" \/ leaving[c]

\* A look at something, within a request on a slot.
LEMMA LookOn ==
    ASSUME TypeOK, FramesSound, NEW c \in Clients, NEW f,
           NEW p \in CurPCs \cup {"notify"}, pc[c] \in CurPCs, Kin(frame[c], f),
           Look(c, p, f) \/ Refuse(c)
    PROVE  Looked(c)
<1>1. CASE Look(c, p, f)
  <2>1. Threads(c) /\ frame'[c] = f /\ pc'[c] = p
    BY <1>1, OnFrame DEF Look, Kin
  <2> QED
    BY <2>1, Places DEF Looked, Kin
<1>2. CASE Refuse(c)
  <2>1. pc'[c] = IF leaving[c] THEN "logout" ELSE "nack"
    BY <1>2 DEF Refuse, Return, Goto, TypeOK
  <2> QED
    BY <1>2, <2>1, ReturnFrame DEF Refuse, Looked
<1> QED
  BY <1>1, <1>2

\* The invitation whose game the thread is after.
LEMMA AimType ==
    ASSUME TypeOK, FramesSound, NEW c \in Clients, pc[c] \in CurPCs
    PROVE  Aimed(c) \in Invs \cup {NoInv}
<1>1. frame[c] \in Frames
  BY DEF TypeOK
<1> QED
  BY <1>1, CurType DEF Aimed, Frames

LEMMA LookThread ==
    ASSUME TypeOK, FramesSound, NEW c \in Clients, LookSteps(c)
    PROVE  Looked(c)
<1>0. frame[c] \in Frames
  BY DEF TypeOK
<1>1. CASE Receive(c)
  <2>1. PICK op \in Requests, i \in Slots :
           IF listOfInv[c][i] = NoInv
           THEN Look(c, "nack", Idle)
           ELSE Look(c, IF op = "resign" THEN "who" ELSE op,
                     [Idle EXCEPT !.op = op, !.id = i, !.inv = listOfInv[c][i]])
    BY <1>1 DEF Receive
  <2>2. CASE listOfInv[c][i] = NoInv
    <3>1. "nack" \in PCs /\ "nack" \notin CurPCs /\ "nack" \notin InvitePCs
      BY Places
    <3> QED
      BY <2>1, <2>2, <3>1, NewFrame, IdleFrame, IdleWrites DEF Look, Looked
  <2>3. CASE listOfInv[c][i] # NoInv
    <3> DEFINE f == [Idle EXCEPT !.op = op, !.id = i, !.inv = listOfInv[c][i]]
               p == IF op = "resign" THEN "who" ELSE op
    <3>1. listOfInv[c][i] \in Invs \cup {NoInv}
      BY DEF TypeOK
    <3>2. f \in Frames /\ f.id \in Slots /\ ~ f.writes
      BY <3>1, RequestFrame
    <3>3. frame' = [frame EXCEPT ![c] = f] /\ Goto(c, p)
      BY <2>1, <2>3 DEF Look
    <3>4. p \in PCs /\ p \notin InvitePCs /\ p # "logout"
      BY DEF Requests, PCs, DereferenceSteps, InvitePCs, ChosenPCs, MadePCs
    <3> HIDE DEF f, p
    <3> QED
      BY <3>2, <3>3, <3>4, NewFrame DEF Looked
  <2> QED
    BY <2>2, <2>3
<1>2. CASE Hangup(c)
  <2>1. "eof" \in PCs /\ "eof" \notin CurPCs /\ "eof" \notin InvitePCs
    BY Places
  <2> QED
    BY <1>0, <1>2, <2>1, NewFrame DEF Look, Looked, Hangup
<1>3. CASE LogoutSlot(c)
  <2> DEFINE i == frame[c].id + 1
             v == listOfInv[c][i]
             asked(op) == [Idle EXCEPT !.op = op, !.id = i, !.inv = v]
             next == [Idle EXCEPT !.id = i]
  <2>0. pc[c] = "logout"
    BY <1>3 DEF LogoutSlot, At
  <2>1. i \in Slots
    BY <1>3 DEF LogoutSlot
  <2>2. v \in Invs \cup {NoInv}
    BY <2>1 DEF TypeOK
  <2>3. \/ Look(c, "logout", next)
        \/ Look(c, "revoke", asked("revoke"))
        \/ Look(c, "who", asked("resign"))
    BY <1>3 DEF LogoutSlot
  <2>4. \A op \in Requests : /\ asked(op) \in Frames /\ asked(op).id \in Slots
                             /\ ~ asked(op).writes
    <3> SUFFICES ASSUME NEW op \in Requests
                 PROVE  /\ asked(op) \in Frames /\ asked(op).id \in Slots
                        /\ ~ asked(op).writes
      OBVIOUS
    <3> HIDE DEF i, v
    <3> QED
      BY <2>1, <2>2, RequestFrame
  <2>5. next \in Frames /\ ~ next.writes
    <3>1. next \in Frames
      BY <2>1, IdleFrame DEF Frames
    <3>2. ~ next.writes
      BY DEF Idle
    <3> QED
      BY <3>1, <3>2
  <2>6. {"revoke", "who"} \subseteq CurPCs
    BY DEF CurPCs, DereferenceSteps
  <2> HIDE DEF next, asked
  <2>7. CASE Look(c, "logout", next)
    BY <2>0, <2>5, <2>7, Places, NewFrame DEF Look, Looked
  <2>8. ASSUME NEW op \in Requests, NEW p \in {"revoke", "who"},
               Look(c, p, asked(op))
        PROVE  Looked(c)
    BY <2>0, <2>4, <2>6, <2>8, Places, NewFrame DEF Look, Looked
  <2> QED
    BY <2>3, <2>7, <2>8 DEF Requests
<1>4. ASSUME LookSteps(c), ~ (Receive(c) \/ Hangup(c) \/ LogoutSlot(c))
      PROVE  Looked(c)
  <2>1. pc[c] \in CurPCs
    BY <1>4 DEF At, Reads, CurPCs, DereferenceSteps, LookSteps, RevokeSource,
       RevokeTarget, DeclineSource, DeclineTarget, Who, TargetsOpponent,
       TargetsRole, SourcesRole, SourcesOpponent, ReadOwn, ReadPeers,
       AcceptSource, Scan, AcceptGame, AcceptState, AcceptRole, MoveGame,
       MoveParse, Moved, MoveState, EndSource, EndTarget, EndRole, ReadSources,
       ReadTargets
  <2>2. /\ Cur(c) \in Invs \cup {NoInv}
        /\ SourceOf(Cur(c)) \in Clients \cup {NoClient}
        /\ Cur(c) # NoInv => /\ TargetOf(Cur(c)) \in Clients \cup {NoClient}
                             /\ SourceRole(Cur(c)) \in Bytes
                             /\ inv[Cur(c)].targetR \in Bytes
    BY <2>1, CurType
  <2>3. Kin(frame[c], frame[c])
    BY <1>0 DEF Kin, Near
  <2>10. CASE TargetsRole(c)
    <3>1. PICK f : f = [frame[c] EXCEPT !.role = inv[Cur(c)].targetR, !.aim = Aimed(c)]
      OBVIOUS
    <3>2. Kin(frame[c], f)
      <4>1. Aimed(c) \in Invs \cup {NoInv}
        BY <2>1, AimType
      <4>2. inv[Cur(c)].targetR \in Bytes
        BY <2>2, <2>10 DEF TargetsRole, Reads
      <4> QED
        BY <1>0, <3>1, <4>1, <4>2, KinRoles
    <3>3. Look(c, AfterWho(c), f)
      BY <2>10, <3>1 DEF TargetsRole
    <3> QED
      BY <2>1, <3>2, <3>3, LookOn DEF AfterWho, CurPCs
  <2>12. CASE SourcesOpponent(c)
    <3>1. PICK f : f = [frame[c] EXCEPT !.peer = TargetOf(Cur(c)), !.aim = Aimed(c)]
      OBVIOUS
    <3>2. Kin(frame[c], f)
      <4>1. Aimed(c) \in Invs \cup {NoInv}
        BY <2>1, AimType
      <4>2. TargetOf(Cur(c)) \in Clients \cup {NoClient}
        BY <2>2, <2>12 DEF SourcesOpponent, Reads
      <4> QED
        BY <1>0, <3>1, <4>1, <4>2, KinPeerAim
    <3>3. Look(c, AfterWho(c), f)
      BY <2>12, <3>1 DEF SourcesOpponent
    <3> QED
      BY <2>1, <3>2, <3>3, LookOn DEF AfterWho, CurPCs
  <2> USE <1>0, <2>1, <2>2, <2>3, LookOn DEF CurPCs, DereferenceSteps
  <2>4. CASE RevokeSource(c)
    BY <2>4, KinInvs DEF RevokeSource
  <2>5. CASE RevokeTarget(c)
    BY <2>5, KinClients DEF RevokeTarget, Reads
  <2>6. CASE DeclineSource(c)
    BY <2>6, KinClients DEF DeclineSource
  <2>7. CASE DeclineTarget(c)
    BY <2>7 DEF DeclineTarget
  <2>8. CASE Who(c)
    BY <2>8 DEF Who
  <2>9. CASE TargetsOpponent(c)
    BY <2>9, KinClients DEF TargetsOpponent
  <2>11. CASE SourcesRole(c)
    <3>1. Kin(frame[c], [frame[c] EXCEPT !.role = SourceRole(Cur(c))])
      BY <2>11, KinRoles DEF SourcesRole, Reads
    <3> QED
      BY <2>11, <3>1 DEF SourcesRole
  <2>13. CASE ReadOwn(c)
    BY <2>13, KinInvs DEF ReadOwn, ReadArg
  <2>14. CASE ReadPeers(c)
    BY <2>14, KinInvs DEF ReadPeers, ReadArg
  <2>15. CASE AcceptSource(c)
    BY <2>15, KinClients DEF AcceptSource
  <2>16. CASE Scan(c)
    <3>1. \A i \in Slots : Kin(frame[c], [frame[c] EXCEPT !.i = i])
      BY KinScan
    <3>2. 0 \in Slots
      BY MatchAssumption DEF Slots
    <3>3. \/ Refuse(c)
          \/ \E i \in Slots, p \in {"acceptGame", "state", "scan"} :
                Look(c, p, [frame[c] EXCEPT !.i = i])
      BY <2>16, <3>2 DEF Scan
    <3> QED
      BY <3>1, <3>3
  <2>17. CASE AcceptGame(c)
    BY <2>17, KinInvs DEF AcceptGame
  <2>18. CASE AcceptState(c)
    BY <2>18, KinInvs DEF AcceptState, Unparse
  <2>19. CASE AcceptRole(c)
    BY <2>19 DEF AcceptRole
  <2>20. CASE MoveGame(c)
    BY <2>20, KinInvs DEF MoveGame
  <2>21. CASE MoveParse(c)
    BY <2>21 DEF MoveParse
  <2>22. CASE Moved(c)
    BY <2>22, KinClients DEF Moved
  <2>23. CASE MoveState(c)
    BY <2>23, KinInvs DEF MoveState, Unparse
  <2>24. CASE EndSource(c)
    BY <2>24, KinClients DEF EndSource
  <2>25. CASE EndTarget(c)
    BY <2>25, KinClients DEF EndTarget, Reads
  <2>26. CASE EndRole(c)
    BY <2>26 DEF EndRole
  <2>27. CASE ReadSources(c)
    BY <2>27, KinInvs DEF ReadSources, ReadArg
  <2>28. CASE ReadTargets(c)
    BY <2>28, KinInvs DEF ReadTargets, ReadArg
  <2> QED
    BY <1>4, <2>4, <2>5, <2>6, <2>7, <2>8, <2>9, <2>10, <2>11, <2>12, <2>13,
       <2>14, <2>15, <2>16, <2>17, <2>18, <2>19, <2>20, <2>21, <2>22, <2>23,
       <2>24, <2>25, <2>26, <2>27, <2>28 DEF LookSteps
<1> QED
  BY <1>1, <1>2, <1>3, <1>4

\* A list operation of a request on a slot.
LEMMA RemoveThread ==
    ASSUME TypeOK, FramesSound, NEW c \in Clients, RemoveSteps(c)
    PROVE  Threads(c)
<1> USE ChangeThread DEF Remove, At, CurPCs
<1>1. CASE RemoveOwn(c)
  BY <1>1 DEF RemoveOwn
<1>2. CASE RemovePeer(c)
  BY <1>2 DEF RemovePeer
<1>3. CASE RemoveSource(c)
  BY <1>3 DEF RemoveSource
<1>4. CASE RemoveTarget(c)
  BY <1>4 DEF RemoveTarget
<1> QED
  BY <1>1, <1>2, <1>3, <1>4 DEF RemoveSteps

\* A packet is written, or its write begins to wait.
LEMMA WriteThread ==
    ASSUME TypeOK, FramesSound, NEW c \in Clients, WriteSteps(c)
    PROVE  Threads(c)
<1>0. frame[c] \in Frames
  BY DEF TypeOK
<1>1. CASE Answer(c)
  BY <1>1, NewFrame, IdleFrame, Places DEF Answer
<1>2. CASE Notify(c)
  <2>1. PICK ok \in BOOLEAN : Return(c, ok)
    BY <1>2 DEF Notify, Delivered
  <2> QED
    BY <2>1, ReturnFrame
<1>3. CASE TellSource(c)
  <2>1. PICK f : f = [frame[c] EXCEPT !.peer = NoClient, !.writes = FALSE]
    OBVIOUS
  <2>2. PICK ok \in BOOLEAN :
           IF ok THEN /\ Goto(c, "targetArg")
                      /\ frame' = [frame EXCEPT ![c].peer = NoClient,
                                                ![c].writes = FALSE]
                 ELSE Return(c, FALSE)
    BY <1>3 DEF TellSource, Delivered
  <2>3. CASE ok
    <3>1. frame' = [frame EXCEPT ![c] = f]
      BY <1>0, <2>1, <2>2, <2>3 DEF TypeOK, Frames
    <3>2. pc[c] \in CurPCs /\ "targetArg" \in CurPCs
      BY <1>3 DEF TellSource, At, CurPCs
    <3>3. Near(frame[c], f)
      BY <1>0, <2>1, NearWrites
    <3> QED
      BY <2>2, <2>3, <3>1, <3>2, <3>3, OnFrame
  <2>4. CASE ~ ok
    BY <2>2, <2>4, ReturnFrame
  <2> QED
    BY <2>3, <2>4
<1>4. CASE TellTarget(c)
  <2>1. PICK ok \in BOOLEAN :
           IF ok THEN Goto(c, "recv") /\ frame' = [frame EXCEPT ![c] = Idle]
                 ELSE Return(c, FALSE)
    BY <1>4 DEF TellTarget, Delivered
  <2> QED
    BY <2>1, NewFrame, IdleFrame, ReturnFrame, Places
<1>5. CASE Block(c)
  <2>1. PICK f : f = [frame[c] EXCEPT !.writes = TRUE]
    OBVIOUS
  <2>2. frame' = [frame EXCEPT ![c] = f]
    BY <1>5, <2>1 DEF Block, MayBlock
  <2>3. Near(frame[c], f)
    BY <1>0, <2>1, NearWrites
  <2>4. UNCHANGED pc /\ pc[c] \in {"ack", "nack", "notify", "tellSource", "tellTarget"}
    BY <1>5 DEF Block, MayBlock
  <2>5. Goto(c, pc[c]) /\ pc[c] \in PCs
    BY <2>4 DEF Goto, TypeOK
  <2>6. pc[c] \notin InvitePCs
    BY <2>4 DEF InvitePCs, ChosenPCs, MadePCs
  <2>7. pc[c] \in CurPCs => f.id \in Slots
    BY <2>3 DEF FramesSound, Near
  <2> QED
    BY <2>2, <2>3, <2>5, <2>6, <2>7, NewFrame DEF Near
<1> QED
  BY <1>1, <1>2, <1>3, <1>4, <1>5 DEF WriteSteps

LEMMA NullByte == NullRole \in Bytes /\ NoInv \in Invs \cup {NoInv}
BY DEF NullRole, Bytes

\* The other steps of a request on a slot, and of a logout.
LEMMA DataThread ==
    ASSUME TypeOK, FramesSound, NEW c \in Clients, DataSteps(c)
    PROVE  Threads(c)
<1>0. frame[c] \in Frames
  BY DEF TypeOK
<1>00. Near(frame[c], frame[c])
  BY <1>0 DEF Near
<1>000. ASSUME UNCHANGED frame PROVE frame' = [frame EXCEPT ![c] = frame[c]]
  BY <1>000 DEF TypeOK
<1>1. CASE RevokeClose(c)
  BY <1>00, <1>000, <1>1, OnFrame, ReturnFrame
     DEF RevokeClose, Reads, At, CurPCs, DereferenceSteps
<1>2. CASE ResignPost(c)
  BY <1>00, <1>000, <1>2, OnFrame DEF ResignPost, At, CurPCs, DereferenceSteps
<1>3. CASE ResignClose(c)
  <2>1. PICK f : f = [frame[c] EXCEPT !.aim = NoInv, !.role = NullRole]
    OBVIOUS
  <2>2. PICK p \in {"ownArg", "hung"} : Goto(c, p) /\ frame' = [frame EXCEPT ![c] = f]
    BY <1>3, <2>1 DEF ResignClose, Unaimed
  <2>3. Near(frame[c], f)
    BY <1>0, <2>1, NullByte, KinRoles DEF Kin
  <2>4. pc[c] \in CurPCs /\ "ownArg" \in CurPCs
    BY <1>3 DEF ResignClose, Reads, At, CurPCs, DereferenceSteps
  <2> QED
    BY <2>2, <2>3, <2>4, OnFrame
<1>4. CASE Accept(c)
  BY <1>00, <1>000, <1>4, OnFrame, ReturnFrame
     DEF Accept, Reads, At, CurPCs, DereferenceSteps
<1>5. CASE MoveApply(c)
  <2>1. PICK f : f = [frame[c] EXCEPT !.role = NullRole]
    OBVIOUS
  <2>2. \/ Return(c, FALSE)
        \/ Goto(c, "moved") /\ frame' = [frame EXCEPT ![c] = f]
    BY <1>5, <2>1 DEF MoveApply
  <2>3. Near(frame[c], f)
    BY <1>0, <2>1, NullByte, KinRoles DEF Kin
  <2>4. pc[c] \in CurPCs /\ "moved" \in CurPCs
    BY <1>5 DEF MoveApply, At, CurPCs
  <2> QED
    BY <2>2, <2>3, <2>4, OnFrame, ReturnFrame
<1>6. CASE EndPost(c)
  <2>1. PICK f : f = [frame[c] EXCEPT !.aim = NoInv]
    OBVIOUS
  <2>2. Goto(c, "sourceArg") /\ frame' = [frame EXCEPT ![c] = f]
    BY <1>6, <2>1 DEF EndPost
  <2>3. Near(frame[c], f)
    BY <1>0, <2>1, KinInvs DEF Kin
  <2>4. pc[c] \in CurPCs /\ "sourceArg" \in CurPCs
    BY <1>6 DEF EndPost, At, CurPCs
  <2> QED
    BY <2>2, <2>3, <2>4, OnFrame
<1>7. CASE Logout(c)
  BY <1>0, <1>000, <1>7, Places, NewFrame DEF Logout
<1>8. CASE LogoutDone(c)
  BY <1>8, IdleFrame, Places, NewFrame DEF LogoutDone
<1>9. CASE NullCrash(c)
  <2>1. UNCHANGED <<pc, frame>>
    BY <1>9 DEF NullCrash
  <2>2. pc[c] \notin InvitePCs
    BY <1>9 DEF NullCrash, NullArgument, DereferenceSteps, InvitePCs,
       ChosenPCs, MadePCs
  <2> QED
    BY <2>1, <2>2 DEF Threads, TypeOK, FramesSound
<1> QED
  BY <1>1, <1>2, <1>3, <1>4, <1>5, <1>6, <1>7, <1>8, <1>9 DEF DataSteps

\* The steps of an INVITE.
LEMMA InviteThread ==
    ASSUME TypeOK, NEW c \in Clients, InviteSteps(c)
    PROVE  Threads(c)
<1>0. frame[c] \in Frames
  BY DEF TypeOK
<1>1. {"found", "refSource", "refTarget", "addSource", "addTarget", "addAnyway",
       "notify"} \subseteq PCs \ CurPCs
  BY Places DEF InvitePCs, ChosenPCs, MadePCs
<1>2. ASSUME NEW f \in Frames,
             NEW p \in {"found", "refSource", "refTarget", "addSource",
                        "addTarget", "addAnyway", "notify"},
             Goto(c, p), frame' = [frame EXCEPT ![c] = f]
      PROVE  Threads(c)
  BY <1>1, <1>2, NewFrame
<1>3. CASE Invite(c)
  <2>1. PICK t \in Clients, r \in TargetRoles, v \in Invs :
           Look(c, "found", [Idle EXCEPT !.op = "invite", !.inv = v,
                                         !.peer = t, !.role = r])
    BY <1>3 DEF Invite
  <2>2. PICK f : f = [Idle EXCEPT !.op = "invite", !.inv = v, !.peer = t, !.role = r]
    OBVIOUS
  <2>3. r \in Bytes
    BY MatchAssumption
  <2>4. f \in Frames
    BY <2>2, <2>3, IdleFrame DEF Frames
  <2> QED
    BY <1>2, <2>1, <2>2, <2>4 DEF Look
<1>4. CASE LookupRef(c)
  BY <1>0, <1>2, <1>4 DEF LookupRef, Look
<1>5. CASE RefSource(c)
  BY <1>0, <1>2, <1>5, ReturnFrame DEF RefSource, Look, Refuse
<1>6. CASE Create(c)
  <2>1. frame' = [frame EXCEPT ![c] = frame[c]]
    BY <1>6 DEF Create, TypeOK
  <2>2. Goto(c, "addSource")
    BY <1>6 DEF Create
  <2> QED
    BY <1>0, <1>2, <2>1, <2>2
<1>7. ASSUME NEW d, NEW v, NEW missing \in {"addAnyway", "fail"},
             NEW found \in {"addTarget", "notify", "fail"},
             Add(c, d, v, found, missing)
      PROVE  Threads(c)
  <2>1. PICK f : f = [frame[c] EXCEPT !.arg = NoInv]
    OBVIOUS
  <2>2. f \in Frames
    BY <1>0, <2>1 DEF Frames
  <2>3. ASSUME NEW p \in {"addTarget", "notify", "addAnyway", "fail"}, GoOn(c, p)
        PROVE  Threads(c)
    <3>1. CASE p = "fail"
      BY <2>3, <3>1, ReturnFrame DEF GoOn
    <3>2. CASE p # "fail"
      <4>1. Goto(c, p) /\ frame' = [frame EXCEPT ![c] = f]
        BY <2>1, <2>3, <3>2 DEF GoOn
      <4> QED
        BY <1>2, <2>2, <3>2, <4>1
    <3> QED
      BY <3>1, <3>2
  <2>4. CASE Goto(c, "hung") /\ UNCHANGED frame
    <3>1. frame' = [frame EXCEPT ![c] = frame[c]]
      BY <2>4 DEF TypeOK
    <3> QED
      BY <1>0, <2>4, <3>1, Places, NewFrame
  <2> QED
    BY <1>7, <2>3, <2>4 DEF Add, Change
<1>8. CASE AddSource(c)
  BY <1>7, <1>8 DEF AddSource
<1>9. CASE AddTarget(c)
  BY <1>7, <1>9 DEF AddTarget
<1> QED
  BY <1>3, <1>4, <1>5, <1>6, <1>8, <1>9 DEF InviteSteps

(***************************************************************************)
(* Whatever the service thread of c does next, it leaves the other threads *)
(* where they are and is itself at a step it can be at.                    *)
(***************************************************************************)
LEMMA ThreadStep ==
    ASSUME TypeOK, FramesSound, NEW c \in Clients,
           Receive(c) \/ Invite(c) \/ Hangup(c) \/ Block(c) \/ Serve(c)
    PROVE  Threads(c)
BY AllSteps, LookThread, WriteThread, RemoveThread, DataThread, InviteThread
   DEF Looked

-----------------------------------------------------------------------------
(***************************************************************************)
(* The life of an invitation and of its game.  AbstractInvitation and      *)
(* Match have their games from the same module.                            *)
(***************************************************************************)
LEMMA SameGames ==
    ASSUME NEW v
    PROVE  /\ Abs(v)!NoGame = NoGame
           /\ Abs(v)!NewGame = NewGame
           /\ \A g : Abs(v)!AfterMove(g) = AfterMove(g)
           /\ \A g : Abs(v)!AfterMisplay(g) = AfterMisplay(g)
           /\ \A g : Abs(v)!AfterResign(g) = AfterResign(g)
BY DEF Abs!NoGame, NoGame, Abs!NewGame, NewGame, Abs!NullRole, NullRole,
       Abs!AfterMove, AfterMove, Abs!Passed, Passed, Abs!Other, Other,
       Abs!Roles, Roles, Abs!AfterResign, AfterResign, Abs!AfterMisplay,
       AfterMisplay

\* Only a game that can never be ended keeps a resignation, and with it the
\* semaphore of the invitation.
StuckFits(v) ==
    inv[v].seph = 0 => inv[v].state = "ACCEPTED" /\ game[v].seph = 0

GameOfState(v) == Abs(v)!GameMatchesState /\ StuckFits(v)

\* A step of the abstract invitation, or none.
LifeStep(v) == Abs(v)!Next \/ UNCHANGED <<inv[v].state, game[v]>>

LEMMA FirstGames ==
    NoGame \notin Games /\ NoGame.seph = 0 /\ NewGame \in Games
BY DEF NoGame, NewGame, Games, Roles, NullRole

\* A game is one after each of the things that can be done to it, and one that
\* is over stays over.
LEMMA GamesStay ==
    ASSUME NEW g \in Games
    PROVE  /\ AfterResign(g) \in Games /\ AfterResign(g).over
           /\ AfterMisplay(g) \in Games /\ AfterMisplay(g).over = g.over
           /\ AfterMove(g) \subseteq Games
           /\ \A h \in AfterMove(g) : g.over => h.over
<1>1. /\ g.turn \in Roles /\ g.over \in BOOLEAN
      /\ g.winner \in Roles \cup {NullRole} /\ g.seph \in {0, 1}
  BY DEF Games
<1>2. Other(g.turn) \in Roles
  BY <1>1 DEF Other, Roles
<1>3. ASSUME NEW o \in BOOLEAN, NEW w \in Roles \cup {NullRole}
      PROVE  Passed(g, o, w) \in Games /\ Passed(g, o, w).over = o
  BY <1>1, <1>2 DEF Passed, Games
<1>4. \A h \in AfterMove(g) : h \in Games /\ (g.over => h.over)
  <2>1. SUFFICES ASSUME NEW h \in AfterMove(g) PROVE h \in Games /\ (g.over => h.over)
    OBVIOUS
  <2>2. \E o \in BOOLEAN, w \in Roles \cup {NullRole} :
           h = Passed(g, o, w) /\ (g.over => o)
    BY <1>1 DEF AfterMove
  <2> QED
    BY <1>3, <2>2
<1>5. AfterResign(g) \in Games /\ AfterResign(g).over
  BY <1>1 DEF AfterResign, Games, Roles
<1>6. AfterMisplay(g) \in Games /\ AfterMisplay(g).over = g.over
  BY <1>1 DEF AfterMisplay, Games
<1> QED
  BY <1>4, <1>5, <1>6

\* A step of the abstract invitation keeps the game fit for the state.
LEMMA LifeKeepsGame ==
    ASSUME TypeOK, NEW v \in Invs, Abs(v)!GameMatchesState, LifeStep(v)
    PROVE  Abs(v)!GameMatchesState'
<1>1. game[v] \in Games \cup {NoGame} /\ inv[v].state \in States
  BY DEF TypeOK, Invitations
<1> USE <1>1, SameGames, GamesStay, FirstGames DEF Abs!GameMatchesState
<1>2. CASE Abs(v)!Create
  BY <1>2 DEF Abs!Create
<1>3. CASE Abs(v)!Accept
  BY <1>3 DEF Abs!Accept
<1>4. CASE Abs(v)!Play
  <2>1. game[v] \in Games
    BY <1>4 DEF Abs!Play
  <2>2. game'[v] \in AfterMove(game[v]) /\ inv'[v].state = inv[v].state
    BY <1>4 DEF Abs!Play
  <2>3. game'[v] \in Games /\ (game[v].over => game'[v].over)
    BY <2>1, <2>2
  <2> QED
    BY <2>1, <2>2, <2>3 DEF States
<1>5. CASE Abs(v)!Misplay
  <2>1. game[v] \in Games
    BY <1>5 DEF Abs!Misplay
  <2>2. game'[v] = AfterMisplay(game[v]) /\ inv'[v].state = inv[v].state
    BY <1>5 DEF Abs!Misplay
  <2>3. game'[v] \in Games /\ game'[v].over = game[v].over
    BY <2>1, <2>2
  <2> QED
    BY <2>1, <2>2, <2>3 DEF States
<1>6. CASE Abs(v)!CloseOpen
  BY <1>6 DEF Abs!CloseOpen
<1>7. CASE Abs(v)!CloseGame
  <2>1. game[v] \in Games
    BY <1>7 DEF Abs!CloseGame
  <2> QED
    BY <1>7, <2>1 DEF Abs!CloseGame
<1>8. CASE UNCHANGED <<inv[v].state, game[v]>>
  BY <1>8
<1> QED
  BY <1>2, <1>3, <1>4, <1>5, <1>6, <1>7, <1>8 DEF LifeStep, Abs!Next

-----------------------------------------------------------------------------
\* The invitation a thread has chosen is not made, and is nobody else's.
Offering(c) ==
    LET v == frame[c].inv
    IN  pc[c] \in ChosenPCs =>
            /\ v \in Invs /\ inv[v].state = "NONE"
            /\ frame[c].peer \in Clients
            /\ pc[c] = "refTarget" => frame[c].peer # c
            /\ \A d \in Clients \ {c} : pc[d] \in ChosenPCs => frame[d].inv # v

\* The invitation that is put in the lists is open, and it is in no list but,
\* after the first client_add_invitation, that of its maker.
Adding(c) ==
    LET v == frame[c].inv
    IN  pc[c] \in MadePCs =>
            /\ v \in Invs /\ inv[v].state = "OPEN"
            /\ inv[v].source = c
            /\ frame[c].peer = inv[v].target
            /\ inv[v].target \in Clients \ {c}
            /\ \A d \in Clients \ {c} : ~ InList(d, v)
            /\ pc[c] = "addSource" => ~ InList(c, v)

\* The inductive invariant.
MatchInv == /\ TypeOK
            /\ FramesSound
            /\ ListsSound
            /\ RefsCoverEntries
            /\ \A c \in Clients : Offering(c) /\ Adding(c)
            /\ \A v \in Invs : GameOfState(v)

\* Only a made invitation is in a list, so a thread that reads its slot
\* finds one that has been made.
LEMMA CurMade ==
    ASSUME MatchInv, NEW c \in Clients, pc[c] \in CurPCs, Cur(c) # NoInv
    PROVE  /\ Cur(c) \in Invs /\ InList(c, Cur(c))
           /\ inv[Cur(c)].state \in {"OPEN", "ACCEPTED", "CLOSED"}
           /\ inv[Cur(c)].state = "OPEN" => game[Cur(c)] = NoGame
           /\ inv[Cur(c)].state = "ACCEPTED" => game[Cur(c)] \in Games
<1>1. frame[c].id \in Slots /\ Cur(c) \in Invs
  BY CurType DEF MatchInv
<1>2. inv[Cur(c)].state # "NONE" /\ inv[Cur(c)].state \in States
  BY <1>1 DEF MatchInv, ListsSound, Cur, TypeOK, Invitations
<1>3. Abs(Cur(c))!GameMatchesState
  BY <1>1 DEF MatchInv, GameOfState
<1>4. game[Cur(c)] \in Games \cup {NoGame}
  BY <1>1 DEF MatchInv, TypeOK
<1>5. InList(c, Cur(c))
  BY <1>1 DEF InList, Cur
<1> QED
  BY <1>1, <1>2, <1>3, <1>4, <1>5, SameGames DEF Abs!GameMatchesState, States

-----------------------------------------------------------------------------
\* What every step but one that makes v leaves of v.
Kept(v) == /\ inv'[v].source = inv[v].source
           /\ inv'[v].target = inv[v].target
           /\ inv'[v].targetR = inv[v].targetR
           /\ inv'[v].ref >= inv[v].ref
           /\ inv[v].seph = 0 => inv'[v].seph = 0
           /\ inv'[v].state = "NONE" <=> inv[v].state = "NONE"

\* The part of TypeOK that is not about the threads.
DataTypes == /\ listOfInv \in [Clients -> [Slots -> Invs \cup {NoInv}]]
             /\ inv \in [Invs -> Invitations]
             /\ game \in [Invs -> Games \cup {NoGame}]
             /\ holder \in [Clients -> Clients \cup {NoClient}]
             /\ leaving \in [Clients -> BOOLEAN]
             /\ posts \in [Invs -> Nat]
             /\ crashed \in BOOLEAN

\* A step of c that adds nothing to a list, makes no invitation, and accepts
\* or closes none but that in the thread's slot.
Lives(v) == Kept(v) /\ LifeStep(v) /\ StuckFits(v)'

Calm(c) == /\ DataTypes'
           /\ \A d \in Clients, i \in Slots :
                 listOfInv'[d][i] \in {listOfInv[d][i], NoInv}
           /\ \A v \in Invs : Lives(v)
           /\ \A v \in Invs : inv'[v].state # inv[v].state =>
                 pc[c] \in CurPCs /\ v = Cur(c)

LEMMA RefNat ==
    ASSUME TypeOK, NEW v \in Invs
    PROVE  inv[v].ref \in Nat /\ inv[v].ref >= inv[v].ref
BY DEF TypeOK, Invitations

\* An invitation that is left alone.
LEMMA OtherLives ==
    ASSUME MatchInv, NEW v \in Invs, inv'[v] = inv[v], game'[v] = game[v]
    PROVE  Lives(v)
BY RefNat DEF MatchInv, GameOfState, StuckFits, LifeStep, Kept, Lives

\* A step that changes no list, invitation or game is calm.
LEMMA QuietData ==
    ASSUME MatchInv, NEW c, DataTypes', UNCHANGED <<listOfInv, inv, game>>
    PROVE  Calm(c)
<1>1. \A v \in Invs : Kept(v)
  BY RefNat DEF MatchInv, Kept
<1>2. \A v \in Invs : LifeStep(v) /\ StuckFits(v)'
  BY DEF MatchInv, GameOfState, StuckFits, LifeStep
<1> QED
  BY <1>1, <1>2 DEF Calm, Lives

\* A look changes no more than the thread.
LEMMA LookUntouched ==
    ASSUME NEW c \in Clients, LookSteps(c)
    PROVE  UNCHANGED <<listOfInv, inv, game, holder, leaving, posts, crashed>>
<1> USE LookAlters
<1>1. CASE Receive(c) \/ Hangup(c) \/ LogoutSlot(c)
  BY <1>1 DEF Receive, Hangup, LogoutSlot
<1>2. CASE \/ RevokeSource(c) \/ RevokeTarget(c) \/ DeclineSource(c)
           \/ DeclineTarget(c) \/ Who(c) \/ TargetsOpponent(c)
           \/ TargetsRole(c) \/ SourcesRole(c) \/ SourcesOpponent(c)
  BY <1>2 DEF RevokeSource, RevokeTarget, DeclineSource, DeclineTarget, Who,
     TargetsOpponent, TargetsRole, SourcesRole, SourcesOpponent
<1>3. CASE \/ ReadOwn(c) \/ ReadPeers(c) \/ AcceptSource(c) \/ Scan(c)
           \/ AcceptGame(c) \/ AcceptState(c) \/ AcceptRole(c)
  BY <1>3 DEF ReadOwn, ReadPeers, ReadArg, AcceptSource, Scan, AcceptGame,
     AcceptState, AcceptRole, Unparse
<1>4. CASE \/ MoveGame(c) \/ MoveParse(c) \/ Moved(c) \/ MoveState(c)
           \/ EndSource(c) \/ EndTarget(c) \/ EndRole(c)
           \/ ReadSources(c) \/ ReadTargets(c)
  BY <1>4 DEF MoveGame, MoveParse, Moved, MoveState, EndSource, EndTarget,
     EndRole, ReadSources, ReadTargets, ReadArg, Unparse
<1> QED
  BY <1>1, <1>2, <1>3, <1>4 DEF LookSteps

LEMMA LookData ==
    ASSUME MatchInv, NEW c \in Clients, LookSteps(c)
    PROVE  Calm(c)
<1>1. UNCHANGED <<listOfInv, inv, game, holder, leaving, posts, crashed>>
  BY LookUntouched
<1>2. DataTypes'
  BY <1>1 DEF MatchInv, TypeOK, DataTypes
<1> QED
  BY <1>1, <1>2, QuietData

\* A write that returns gives the semaphore back, one that waits keeps it.
LEMMA WriteData ==
    ASSUME MatchInv, NEW c \in Clients, WriteSteps(c)
    PROVE  Calm(c)
<1>1. \E d : Written(c, d) \/ MayBlock(c, d)
  BY DEF WriteSteps, Answer, Notify, TellSource, TellTarget, Block
<1>2. PICK d : Written(c, d) \/ MayBlock(c, d)
  BY <1>1
<1>3. UNCHANGED <<listOfInv, inv, game, leaving, posts, crashed>>
  BY <1>2 DEF Written, MayBlock
<1>4. \/ holder' = holder \/ holder' = [holder EXCEPT ![d] = c]
      \/ holder' = [holder EXCEPT ![d] = NoClient]
  BY <1>2 DEF Written, MayBlock
<1>5. DataTypes'
  BY <1>3, <1>4 DEF MatchInv, TypeOK, DataTypes
<1> QED
  BY <1>3, <1>5, QuietData

\* A step that removes an invitation from somebody's list is calm.
LEMMA RemoveData ==
    ASSUME MatchInv, NEW c \in Clients, RemoveSteps(c)
    PROVE  Calm(c)
<1>1. PICK d, v, found, missing : Remove(c, d, v, found, missing)
  BY DEF RemoveSteps, RemoveOwn, RemovePeer, RemoveSource, RemoveTarget
<1>2. TypeOK
  BY DEF MatchInv
<1>3. Change(c, d, v, NoInv, found, missing)
  BY <1>1 DEF Remove
<1>4. /\ listOfInv' \in [Clients -> [Slots -> Invs \cup {NoInv}]]
      /\ inv' \in [Invs -> Invitations]
      /\ holder' \in [Clients -> Clients \cup {NoClient}]
      /\ Steady(inv')
      /\ UNCHANGED <<game, leaving, posts, crashed>>
  BY <1>2, <1>3, ChangeType
<1>5. DataTypes'
  BY <1>2, <1>4 DEF TypeOK, DataTypes
<1>6. \A e \in Clients, i \in Slots : listOfInv'[e][i] \in {listOfInv[e][i], NoInv}
  BY <1>1, <1>2, RemoveEmpties
<1>7. \A w \in Invs : inv'[w].state = inv[w].state
  BY <1>4 DEF Steady
<1>8. \A w \in Invs : Lives(w)
  BY <1>4 DEF Steady, Lives, Kept, LifeStep, StuckFits, MatchInv, GameOfState
<1> QED
  BY <1>5, <1>6, <1>7, <1>8 DEF Calm

\* The count of the results posted stays a count.
LEMMA PostType ==
    ASSUME TypeOK, NEW v, NEW players, PostFor(v, players)
    PROVE  posts' \in [Invs -> Nat]
<1>1. posts' = posts \/ posts' = [posts EXCEPT ![v] = @ + 1]
  BY DEF PostFor
<1>2. CASE v \in Invs
  <2>1. posts[v] + 1 \in Nat
    BY <1>2 DEF TypeOK
  <2> QED
    BY <1>1, <2>1 DEF TypeOK
<1>3. CASE v \notin Invs
  BY <1>1, <1>3 DEF TypeOK
<1> QED
  BY <1>2, <1>3

\* inv_close, where it may close: of an open invitation, or of an accepted one
\* whose game can be resigned.
LEMMA CloseData ==
    ASSUME MatchInv, NEW c \in Clients, pc[c] \in CurPCs, Cur(c) # NoInv,
           InvFree(Cur(c)), game[Cur(c)] = NoGame \/ game[Cur(c)].seph = 1,
           inv[Cur(c)].state # "CLOSED", Close(Cur(c)),
           UNCHANGED <<listOfInv, holder, leaving, posts, crashed>>
    PROVE  Calm(c)
<1>1. PICK v : v = Cur(c)
  OBVIOUS
<1>2. /\ v \in Invs /\ inv[v].state \in {"OPEN", "ACCEPTED"}
      /\ inv[v].state = "OPEN" => game[v] = NoGame
      /\ inv[v].state = "ACCEPTED" => game[v] \in Games
  BY <1>1, CurMade
<1>3. game[v] = NoGame \/ game[v].seph = 1
  BY <1>1
<1>4. TypeOK
  BY DEF MatchInv
<1>5. inv[v] \in Invitations /\ game[v] \in Games \cup {NoGame} /\ inv[v].seph = 1
  BY <1>1, <1>2, <1>4 DEF TypeOK, InvFree
<1> DEFINE closed == [inv[v] EXCEPT !.state = "CLOSED"]
           left == IF game[v] = NoGame THEN NoGame ELSE AfterResign(game[v])
<1>6. inv' = [inv EXCEPT ![v] = closed] /\ game' = [game EXCEPT ![v] = left]
  BY <1>1 DEF Close
<1>7. /\ closed \in Invitations /\ closed.state = "CLOSED"
      /\ closed.source = inv[v].source /\ closed.target = inv[v].target
      /\ closed.targetR = inv[v].targetR
      /\ closed.ref = inv[v].ref /\ closed.seph = 1
  BY <1>5 DEF Invitations, States
<1>8. left \in Games \cup {NoGame}
  BY <1>5, GamesStay
<1> HIDE DEF closed
<1>9. inv'[v] = closed /\ game'[v] = left
  BY <1>2, <1>4, <1>6 DEF TypeOK
<1>10. ASSUME inv[v].state = "OPEN" PROVE LifeStep(v)
  <2>1. Abs(v)!CloseOpen
    BY <1>2, <1>7, <1>9, <1>10 DEF Abs!CloseOpen
  <2> QED
    BY <2>1 DEF LifeStep, Abs!Next
<1>11. ASSUME inv[v].state = "ACCEPTED" PROVE LifeStep(v)
  <2>1. game[v].seph = 1 /\ left = AfterResign(game[v])
    BY <1>2, <1>3, <1>11, FirstGames
  <2>2. Abs(v)!CloseGame
    BY <1>7, <1>9, <1>11, <2>1, SameGames DEF Abs!CloseGame
  <2> QED
    BY <2>2 DEF LifeStep, Abs!Next
<1>12. DataTypes'
  BY <1>4, <1>6, <1>7, <1>8 DEF DataTypes, TypeOK
<1>13. \A w \in Invs \ {v} : inv'[w] = inv[w] /\ game'[w] = game[w]
  BY <1>4, <1>6 DEF TypeOK
<1>14. Lives(v)
  <2>1. inv[v].ref >= inv[v].ref
    BY <1>2, <1>4, RefNat
  <2>2. Kept(v)
    BY <1>2, <1>5, <1>7, <1>9, <2>1 DEF Kept
  <2>3. StuckFits(v)'
    BY <1>7, <1>9 DEF StuckFits
  <2> QED
    BY <1>2, <1>10, <1>11, <2>2, <2>3 DEF Lives
<1>15. \A w \in Invs \ {v} : Lives(w)
  BY <1>13, OtherLives
<1> QED
  BY <1>1, <1>12, <1>13, <1>14, <1>15 DEF Calm

\* inv_close that waits for the game's semaphore, and keeps its own.
LEMMA StuckData ==
    ASSUME MatchInv, NEW c \in Clients, pc[c] \in CurPCs, NEW v \in Invs,
           v = Cur(c), inv[v].state # "CLOSED",
           game[v] # NoGame, game[v].seph = 0,
           inv' = [inv EXCEPT ![v].seph = 0],
           UNCHANGED <<listOfInv, game, holder, leaving, posts, crashed>>
    PROVE  Calm(c)
<1>1. inv[v].state = "ACCEPTED"
  BY CurMade, MatchAssumption
<1>2. TypeOK
  BY DEF MatchInv
<1> DEFINE kept == [inv[v] EXCEPT !.seph = 0]
<1>3. inv' = [inv EXCEPT ![v] = kept]
  OBVIOUS
<1>4. inv[v] \in Invitations
  BY <1>2 DEF TypeOK
<1>5. /\ kept \in Invitations /\ kept.state = inv[v].state
      /\ kept.source = inv[v].source /\ kept.target = inv[v].target
      /\ kept.targetR = inv[v].targetR /\ kept.ref = inv[v].ref /\ kept.seph = 0
  BY <1>4 DEF Invitations
<1> HIDE DEF kept
<1>6. inv'[v] = kept /\ \A w \in Invs \ {v} : inv'[w] = inv[w]
  BY <1>2, <1>3 DEF TypeOK
<1>7. DataTypes'
  BY <1>2, <1>3, <1>5 DEF DataTypes, TypeOK
<1>8. Lives(v)
  BY <1>1, <1>2, <1>5, <1>6, RefNat DEF Lives, Kept, LifeStep, StuckFits
<1>9. \A w \in Invs \ {v} : Lives(w)
  BY <1>6, OtherLives
<1> QED
  BY <1>5, <1>6, <1>7, <1>8, <1>9 DEF Calm

\* inv_accept, whether it accepts or refuses, is calm.
LEMMA AcceptData ==
    ASSUME MatchInv, NEW c \in Clients, Accept(c)
    PROVE  Calm(c)
<1>1. TypeOK
  BY DEF MatchInv
<1>2. CASE ~ Acceptable(Cur(c))
  <2>1. UNCHANGED <<listOfInv, inv, game, holder, leaving, posts, crashed>>
    BY <1>2 DEF Accept
  <2>2. DataTypes'
    BY <1>1, <2>1 DEF TypeOK, DataTypes
  <2> QED
    BY <2>1, <2>2, QuietData
<1>3. CASE Acceptable(Cur(c))
  <2>1. PICK v : v = Cur(c)
    OBVIOUS
  <2>2. pc[c] \in CurPCs /\ v # NoInv /\ inv[v].seph = 1 /\ inv[v].state = "OPEN"
    BY <1>3, <2>1 DEF Accept, Reads, At, CurPCs, DereferenceSteps, Acceptable, InvFree
  <2>3. v \in Invs
    BY <2>1, <2>2, CurMade
  <2> DEFINE accepted == [inv[v] EXCEPT !.state = "ACCEPTED"]
  <2>4. /\ inv' = [inv EXCEPT ![v] = accepted] /\ game' = [game EXCEPT ![v] = NewGame]
        /\ UNCHANGED <<listOfInv, holder, leaving, posts, crashed>>
    BY <1>3, <2>1 DEF Accept
  <2>5. inv[v] \in Invitations
    BY <1>1, <2>3 DEF TypeOK
  <2>6. /\ accepted \in Invitations /\ accepted.state = "ACCEPTED"
        /\ accepted.source = inv[v].source /\ accepted.target = inv[v].target
        /\ accepted.targetR = inv[v].targetR
        /\ accepted.ref = inv[v].ref /\ accepted.seph = 1
    BY <2>2, <2>5 DEF Invitations, States
  <2> HIDE DEF accepted
  <2>7. inv'[v] = accepted /\ game'[v] = NewGame
    BY <1>1, <2>3, <2>4 DEF TypeOK
  <2>8. Abs(v)!Accept
    BY <2>2, <2>6, <2>7, SameGames DEF Abs!Accept
  <2>9. DataTypes'
    BY <1>1, <2>4, <2>6, FirstGames DEF DataTypes, TypeOK
  <2>10. Lives(v)
    <3>1. Kept(v)
      BY <1>1, <2>2, <2>3, <2>6, <2>7, RefNat DEF Kept
    <3>2. StuckFits(v)'
      BY <2>6, <2>7 DEF StuckFits
    <3> QED
      BY <2>8, <3>1, <3>2 DEF Lives, LifeStep, Abs!Next
  <2>11. \A w \in Invs \ {v} : inv'[w] = inv[w] /\ game'[w] = game[w]
    BY <1>1, <2>4 DEF TypeOK
  <2>12. \A w \in Invs \ {v} : Lives(w)
    BY <2>11, OtherLives
  <2> QED
    BY <2>1, <2>2, <2>4, <2>9, <2>10, <2>11, <2>12 DEF Calm
<1> QED
  BY <1>2, <1>3

\* A move that is refused, applied or misplayed, is calm.
LEMMA MoveData ==
    ASSUME MatchInv, NEW c \in Clients, MoveApply(c)
    PROVE  Calm(c)
<1>1. TypeOK
  BY DEF MatchInv
<1>2. /\ UNCHANGED <<listOfInv, inv, holder, leaving, posts, crashed>>
      /\ game[frame[c].aim].seph = 1
  BY DEF MoveApply
<1>3. PICK v : v = frame[c].aim
  OBVIOUS
<1>4. \/ UNCHANGED game
      \/ \E h \in AfterMove(game[v]) : game' = [game EXCEPT ![v] = h]
      \/ game' = [game EXCEPT ![v] = AfterMisplay(game[v])]
  BY <1>3 DEF MoveApply
<1>5. CASE UNCHANGED game \/ v \notin Invs
  <2>1. UNCHANGED game
    BY <1>1, <1>4, <1>5 DEF TypeOK
  <2>2. DataTypes'
    BY <1>1, <1>2, <2>1 DEF TypeOK, DataTypes
  <2> QED
    BY <1>2, <2>1, <2>2, QuietData
<1>6. CASE v \in Invs /\ ~ UNCHANGED game
  <2>1. game[v] \in Games
    BY <1>1, <1>2, <1>3, <1>6, FirstGames DEF TypeOK
  <2>2. PICK h : /\ h \in AfterMove(game[v]) \/ h = AfterMisplay(game[v])
                 /\ game' = [game EXCEPT ![v] = h]
    BY <1>4, <1>6
  <2>3. h \in Games
    BY <2>1, <2>2, GamesStay
  <2>4. game'[v] = h /\ \A w \in Invs \ {v} : game'[w] = game[w]
    BY <1>1, <1>6, <2>2 DEF TypeOK
  <2>5. Abs(v)!Play \/ Abs(v)!Misplay
    BY <1>2, <1>3, <2>2, <2>4, SameGames DEF Abs!Play, Abs!Misplay
  <2>6. DataTypes'
    BY <1>1, <1>2, <2>2, <2>3 DEF DataTypes, TypeOK
  <2>7. Lives(v)
    <3>1. Kept(v)
      BY <1>1, <1>2, <1>6, RefNat DEF Kept
    <3>2. inv[v].seph # 0
      BY <1>2, <1>3, <1>6 DEF MatchInv, GameOfState, StuckFits
    <3>3. StuckFits(v)'
      BY <1>2, <3>2 DEF StuckFits
    <3> QED
      BY <2>5, <3>1, <3>3 DEF Lives, LifeStep, Abs!Next
  <2>8. \A w \in Invs \ {v} : Lives(w)
    BY <1>2, <2>4, OtherLives
  <2> QED
    BY <1>2, <2>6, <2>7, <2>8 DEF Calm
<1> QED
  BY <1>5, <1>6

\* client_resign_game closes, is refused, or waits for good.
LEMMA ResignData ==
    ASSUME MatchInv, NEW c \in Clients, ResignClose(c)
    PROVE  Calm(c)
<1>1. PICK v : v = Cur(c)
  OBVIOUS
<1>2. /\ pc[c] \in CurPCs /\ v # NoInv /\ InvFree(v)
      /\ UNCHANGED <<listOfInv, holder, leaving, posts, crashed>>
  BY <1>1 DEF ResignClose, Reads, At, CurPCs, DereferenceSteps
<1>3. v \in Invs
  BY <1>1, <1>2, CurMade
<1>4. game[v] \in Games \cup {NoGame}
  BY <1>3 DEF MatchInv, TypeOK
<1>5. CASE UNCHANGED <<inv, game>>
  <2>1. DataTypes'
    BY <1>2, <1>5 DEF MatchInv, TypeOK, DataTypes
  <2> QED
    BY <1>2, <1>5, <2>1, QuietData
<1>6. CASE /\ Closable(v, frame[c].role) /\ ~ (game[v] # NoGame /\ game[v].seph = 0)
           /\ Close(v)
  <2>1. game[v] = NoGame \/ game[v].seph = 1
    BY <1>4, <1>6 DEF Games
  <2>2. inv[v].state # "CLOSED"
    BY <1>6 DEF Closable
  <2> QED
    BY <1>1, <1>2, <1>6, <2>1, <2>2, CloseData
<1>7. CASE /\ Closable(v, frame[c].role) /\ game[v] # NoGame /\ game[v].seph = 0
           /\ inv' = [inv EXCEPT ![v].seph = 0]
           /\ UNCHANGED game
  <2>1. inv[v].state # "CLOSED"
    BY <1>7 DEF Closable
  <2> QED
    BY <1>1, <1>2, <1>3, <1>7, <2>1, StuckData
<1> QED
  BY <1>1, <1>5, <1>6, <1>7 DEF ResignClose

LEMMA DataData ==
    ASSUME MatchInv, NEW c \in Clients, DataSteps(c)
    PROVE  Calm(c)
<1>1. TypeOK
  BY DEF MatchInv
<1>2. CASE RevokeClose(c)
  <2>1. /\ pc[c] \in CurPCs /\ Cur(c) # NoInv /\ InvFree(Cur(c))
        /\ UNCHANGED <<listOfInv, holder, leaving, posts, crashed>>
    BY <1>2 DEF RevokeClose, Reads, At, CurPCs, DereferenceSteps
  <2>2. CASE Closable(Cur(c), NullRole)
    <3>1. Close(Cur(c))
      BY <1>2, <2>2 DEF RevokeClose
    <3>2. inv[Cur(c)].state # "CLOSED" /\ game[Cur(c)] = NoGame
      BY <2>2 DEF Closable
    <3> QED
      BY <2>1, <3>1, <3>2, CloseData
  <2>3. CASE ~ Closable(Cur(c), NullRole)
    <3>1. UNCHANGED <<inv, game>>
      BY <1>2, <2>3 DEF RevokeClose
    <3>2. DataTypes'
      BY <1>1, <2>1, <3>1 DEF TypeOK, DataTypes
    <3> QED
      BY <2>1, <3>1, <3>2, QuietData
  <2> QED
    BY <2>2, <2>3
<1>3. CASE ResignPost(c) \/ EndPost(c)
  <2>1. /\ UNCHANGED <<listOfInv, inv, game, holder, leaving, crashed>>
        /\ \E players : PostFor(frame[c].aim, players)
    BY <1>3 DEF ResignPost, EndPost
  <2>2. posts' \in [Invs -> Nat]
    BY <1>1, <2>1, PostType
  <2>3. DataTypes'
    BY <1>1, <2>1, <2>2 DEF TypeOK, DataTypes
  <2> QED
    BY <2>1, <2>3, QuietData
<1>4. CASE Logout(c) \/ LogoutDone(c) \/ NullCrash(c)
  <2>1. UNCHANGED <<listOfInv, inv, game>>
    BY <1>4 DEF Logout, LogoutDone, NullCrash
  <2>2. DataTypes'
    BY <1>1, <1>4 DEF Logout, LogoutDone, NullCrash, TypeOK, DataTypes
  <2> QED
    BY <2>1, <2>2, QuietData
<1> QED
  BY <1>2, <1>3, <1>4, ResignData, AcceptData, MoveData DEF DataSteps

\* So every step of a thread is calm, but those of an INVITE.
LEMMA CalmStep ==
    ASSUME MatchInv, NEW c \in Clients,
           LookSteps(c) \/ WriteSteps(c) \/ RemoveSteps(c) \/ DataSteps(c)
    PROVE  Calm(c)
BY LookData, WriteData, RemoveData, DataData

-----------------------------------------------------------------------------
(***************************************************************************)
(* A calm step keeps the invariant.  First, entries can be counted.        *)
(***************************************************************************)
LEMMA FiniteHolders ==
    ASSUME NEW H \in SUBSET (Clients \X Slots)
    PROVE  IsFiniteSet(H) /\ Cardinality(H) \in Nat
<1>1. IsFiniteSet(Slots)
  BY MatchAssumption, FS_Interval DEF Slots
<1>2. IsFiniteSet(Clients \X Slots)
  BY <1>1, MatchAssumption, FS_Product
<1> QED
  BY <1>2, FS_Subset, FS_CardinalityType

\* The types of the threads and of the data make up TypeOK.
LEMMA TypesTogether ==
    ASSUME NEW c \in Clients, Threads(c), DataTypes', FramesSound
    PROVE  TypeOK' /\ FramesSound'
<1>1. TypeOK'
  BY DEF Threads, DataTypes, TypeOK
<1>2. FramesSound'
  BY DEF Threads, FramesSound
<1> QED
  BY <1>1, <1>2

\* If every invitation makes a step of its abstract life, games still fit.
LEMMA GamesKept ==
    ASSUME MatchInv, \A v \in Invs : LifeStep(v) /\ StuckFits(v)'
    PROVE  (\A v \in Invs : GameOfState(v))'
<1> SUFFICES ASSUME NEW v \in Invs PROVE GameOfState(v)'
  OBVIOUS
<1>1. Abs(v)!GameMatchesState'
  BY LifeKeepsGame DEF MatchInv, GameOfState
<1> QED
  BY <1>1 DEF GameOfState

\* Lists that only lose entries stay sound.
LEMMA ListsShrink ==
    ASSUME ListsSound, \A v \in Invs : Kept(v),
           \A d \in Clients, i \in Slots :
              listOfInv'[d][i] \in {listOfInv[d][i], NoInv}
    PROVE  ListsSound'
<1> SUFFICES ASSUME NEW v \in Invs, NEW d \in Clients, NEW e \in Clients,
                    NEW i \in Slots, NEW k \in Slots, listOfInv'[d][i] = v
             PROVE  /\ inv'[v].state # "NONE"
                    /\ d \in {inv'[v].source, inv'[v].target}
                    /\ d = e /\ listOfInv'[e][k] = v => i = k
  BY DEF ListsSound
<1>1. v # NoInv
  BY MatchAssumption
<1>2. listOfInv[d][i] = v /\ (listOfInv'[e][k] = v => listOfInv[e][k] = v)
  BY <1>1
<1> QED
  BY <1>2 DEF Kept, ListsSound

\* Counts that only grow still cover them.
LEMMA RefsGrow ==
    ASSUME RefsCoverEntries, inv \in [Invs -> Invitations],
           inv' \in [Invs -> Invitations], NEW v \in Invs, Kept(v),
           inv'[v].state # "NONE",
           \A d \in Clients, i \in Slots :
              listOfInv'[d][i] \in {listOfInv[d][i], NoInv}
    PROVE  inv'[v].ref >= 1 + Cardinality(Holders(v)')
<1>1. Holders(v)' \subseteq Holders(v)
  BY MatchAssumption DEF Holders
<1>2. Holders(v) \in SUBSET (Clients \X Slots)
  BY DEF Holders
<1>3. /\ Cardinality(Holders(v)') <= Cardinality(Holders(v))
      /\ Cardinality(Holders(v)') \in Nat /\ Cardinality(Holders(v)) \in Nat
  BY <1>1, <1>2, FiniteHolders, FS_Subset
<1>4. inv[v].ref \in Nat /\ inv'[v].ref \in Nat
  BY DEF Invitations
<1>5. inv[v].ref >= 1 + Cardinality(Holders(v)) /\ inv'[v].ref >= inv[v].ref
  BY DEF Kept, RefsCoverEntries
<1> QED
  BY <1>3, <1>4, <1>5

\* The invitations that others have chosen, and those they are adding, are
\* not the one in the slot of a thread.
LEMMA OthersKeep ==
    ASSUME MatchInv, NEW c \in Clients, Threads(c), Calm(c),
           pc'[c] \notin InvitePCs, NEW d \in Clients
    PROVE  Offering(d)' /\ Adding(d)'
<1>1. CASE d = c
  BY <1>1 DEF Offering, Adding, InvitePCs
<1>2. CASE d # c
  <2>1. pc'[d] = pc[d] /\ frame'[d] = frame[d]
    BY <1>2 DEF Threads
  <2>2. Offering(d)'
    <3> SUFFICES ASSUME pc[d] \in ChosenPCs PROVE Offering(d)'
      BY <2>1 DEF Offering
    <3>1. Offering(d)
      BY DEF MatchInv
    <3>2. frame[d].inv \in Invs /\ inv'[frame[d].inv].state = "NONE"
      BY <3>1 DEF Offering, Calm, Lives, Kept
    <3>3. \A e \in Clients \ {d} : pc'[e] \in ChosenPCs =>
             e # c /\ pc'[e] = pc[e] /\ frame'[e] = frame[e]
      BY DEF Threads, InvitePCs
    <3> QED
      BY <2>1, <3>1, <3>2, <3>3 DEF Offering
  <2>3. Adding(d)'
    <3> SUFFICES ASSUME pc[d] \in MadePCs PROVE Adding(d)'
      BY <2>1 DEF Adding
    <3>1. PICK v : v = frame[d].inv
      OBVIOUS
    <3>2. /\ v \in Invs /\ inv[v].state = "OPEN" /\ inv[v].source = d
          /\ frame[d].peer = inv[v].target /\ inv[v].target \in Clients \ {d}
          /\ \A e \in Clients \ {d} : ~ InList(e, v)
          /\ pc[d] = "addSource" => ~ InList(d, v)
      BY <3>1 DEF MatchInv, Adding
    <3>3. \A e \in Clients : InList(e, v)' => InList(e, v)
      BY <3>2, MatchAssumption DEF Calm, InList
    <3>4. inv'[v].state = "OPEN"
      <4>1. CASE pc[c] \in CurPCs /\ v = Cur(c)
        BY <1>2, <3>2, <4>1, CurMade, MatchAssumption
      <4> QED
        BY <3>2, <4>1 DEF Calm
    <3>5. inv'[v].source = inv[v].source /\ inv'[v].target = inv[v].target
      BY <3>2 DEF Calm, Lives, Kept
    <3> QED
      BY <2>1, <3>1, <3>2, <3>3, <3>4, <3>5 DEF Adding
  <2> QED
    BY <2>2, <2>3
<1> QED
  BY <1>1, <1>2

\* A calm step after which c serves no INVITE.
LEMMA CalmKeeps ==
    ASSUME MatchInv, NEW c \in Clients, Threads(c), Calm(c), pc'[c] \notin InvitePCs
    PROVE  MatchInv' /\ \A v \in Invs : LifeStep(v)
<1>1. TypeOK' /\ FramesSound'
  BY TypesTogether DEF Calm, MatchInv
<1>2. /\ \A v \in Invs : Kept(v)
      /\ \A d \in Clients, i \in Slots :
            listOfInv'[d][i] \in {listOfInv[d][i], NoInv}
  BY DEF Calm, Lives
<1>3. ListsSound'
  BY <1>2, ListsShrink DEF MatchInv
<1>4. RefsCoverEntries'
  BY <1>1, <1>2, RefsGrow DEF RefsCoverEntries, MatchInv, TypeOK
<1>5. (\A d \in Clients : Offering(d) /\ Adding(d))'
  BY OthersKeep
<1>6. (\A v \in Invs : GameOfState(v))' /\ \A v \in Invs : LifeStep(v)
  BY GamesKept DEF Calm, Lives
<1> QED
  BY <1>1, <1>3, <1>4, <1>5, <1>6 DEF MatchInv

-----------------------------------------------------------------------------
(***************************************************************************)
(* The steps of an INVITE.  Those before inv_create touch no shared data.  *)
(***************************************************************************)
\* What is offered, or being added, is in no list of somebody else.
LEMMA NotListed ==
    ASSUME MatchInv, NEW v \in Invs, inv[v].state = "NONE", NEW d \in Clients
    PROVE  ~ InList(d, v) /\ (pc[d] \in MadePCs => frame[d].inv # v)
BY DEF MatchInv, ListsSound, InList, Adding

\* The threads of others are where they were.
LEMMA OthersStand ==
    ASSUME MatchInv, NEW c \in Clients, Threads(c), NEW d \in Clients \ {c},
           UNCHANGED <<listOfInv, inv>>,
           pc'[c] \in ChosenPCs /\ pc[d] \in ChosenPCs => frame'[c].inv # frame[d].inv
    PROVE  Offering(d)' /\ Adding(d)'
<1>1. pc'[d] = pc[d] /\ frame'[d] = frame[d] /\ Offering(d) /\ Adding(d)
  BY DEF Threads, MatchInv
<1>2. \A e \in Clients \ {d} : pc[d] \in ChosenPCs /\ pc'[e] \in ChosenPCs =>
         frame'[e].inv # frame'[d].inv
  BY <1>1 DEF Threads, Offering
<1>3. \A e \in Clients, v \in Invs : InList(e, v)' <=> InList(e, v)
  BY DEF InList
<1>4. Offering(d)'
  BY <1>1, <1>2 DEF Offering
<1>5. Adding(d)'
  BY <1>1, <1>3 DEF Adding
<1> QED
  BY <1>4, <1>5

\* A step before inv_create.
LEMMA ChosenKeeps ==
    ASSUME MatchInv, NEW c \in Clients, Threads(c),
           UNCHANGED <<listOfInv, inv, game, holder, leaving, posts, crashed>>,
           pc'[c] \notin MadePCs,
           pc'[c] \in ChosenPCs =>
              /\ frame'[c].inv \in Invs /\ inv[frame'[c].inv].state = "NONE"
              /\ frame'[c].peer \in Clients
              /\ pc'[c] = "refTarget" => frame'[c].peer # c
              /\ \A d \in Clients \ {c} :
                    pc[d] \in ChosenPCs => frame[d].inv # frame'[c].inv
    PROVE  MatchInv' /\ \A v \in Invs : LifeStep(v)
<1>1. DataTypes'
  BY DEF MatchInv, TypeOK, DataTypes
<1>2. TypeOK' /\ FramesSound'
  BY <1>1, TypesTogether DEF MatchInv
<1>3. ListsSound' /\ RefsCoverEntries'
  BY DEF MatchInv, ListsSound, RefsCoverEntries, Holders
<1>4. \A v \in Invs : LifeStep(v) /\ StuckFits(v)'
  BY DEF LifeStep, StuckFits, MatchInv, GameOfState
<1>5. Offering(c)' /\ Adding(c)'
  <2>1. \A d \in Clients \ {c} : pc'[d] = pc[d] /\ frame'[d] = frame[d]
    BY DEF Threads
  <2> QED
    BY <2>1 DEF Offering, Adding
<1>6. \A d \in Clients \ {c} : Offering(d)' /\ Adding(d)'
  BY OthersStand
<1>7. (\A d \in Clients : Offering(d) /\ Adding(d))'
  BY <1>5, <1>6
<1>8. (\A v \in Invs : GameOfState(v))'
  BY <1>4, GamesKept
<1> QED
  BY <1>2, <1>3, <1>4, <1>7, <1>8 DEF MatchInv

LEMMA OfferKeeps ==
    ASSUME MatchInv, NEW c \in Clients, Invite(c) \/ LookupRef(c) \/ RefSource(c)
    PROVE  MatchInv' /\ \A v \in Invs : LifeStep(v)
<1>0. TypeOK /\ Offering(c) /\ frame[c] \in Frames
  BY DEF MatchInv, TypeOK
<1>1. Threads(c)
  BY <1>0, InviteThread DEF InviteSteps
<1>2. CASE Invite(c)
  <2>1. PICK t \in Clients, r \in TargetRoles, v \in Invs :
           /\ inv[v].state = "NONE"
           /\ \A d \in Clients : frame[d].inv # v
           /\ Look(c, "found", [Idle EXCEPT !.op = "invite", !.inv = v,
                                            !.peer = t, !.role = r])
    BY <1>2 DEF Invite
  <2>2. /\ frame'[c].inv = v /\ frame'[c].peer = t /\ pc'[c] = "found"
        /\ UNCHANGED <<listOfInv, inv, game, holder, leaving, posts, crashed>>
    BY <1>0, <2>1 DEF Look, Goto, TypeOK, Idle
  <2> QED
    BY <1>1, <2>1, <2>2, ChosenKeeps DEF MadePCs
<1>3. CASE LookupRef(c)
  <2>1. /\ frame'[c] = frame[c] /\ pc'[c] = "refSource" /\ pc[c] \in ChosenPCs
        /\ UNCHANGED <<listOfInv, inv, game, holder, leaving, posts, crashed>>
    BY <1>0, <1>3 DEF LookupRef, Look, Goto, At, TypeOK, ChosenPCs
  <2> QED
    BY <1>0, <1>1, <2>1, ChosenKeeps DEF MadePCs, Offering
<1>4. CASE RefSource(c)
  <2>1. CASE frame[c].peer = c
    <3>1. /\ Return(c, FALSE)
          /\ UNCHANGED <<listOfInv, inv, game, holder, leaving, posts, crashed>>
      BY <1>4, <2>1 DEF RefSource, Refuse
    <3>2. pc'[c] \in {"logout", "ack", "nack"}
      BY <1>0, <3>1, ReturnFrame
    <3> QED
      BY <1>1, <3>1, <3>2, ChosenKeeps DEF MadePCs, ChosenPCs
  <2>2. CASE frame[c].peer # c
    <3>1. /\ frame'[c] = frame[c] /\ pc'[c] = "refTarget" /\ pc[c] \in ChosenPCs
          /\ UNCHANGED <<listOfInv, inv, game, holder, leaving, posts, crashed>>
      BY <1>0, <1>4, <2>2 DEF RefSource, Look, Goto, At, TypeOK, ChosenPCs
    <3> QED
      BY <1>0, <1>1, <2>2, <3>1, ChosenKeeps DEF MadePCs, Offering
  <2> QED
    BY <2>1, <2>2
<1> QED
  BY <1>2, <1>3, <1>4

\* inv_create: the new invitation has the reference of its maker, and is in no
\* list yet.
LEMMA CreateKeeps ==
    ASSUME MatchInv, NEW c \in Clients, Create(c)
    PROVE  MatchInv' /\ \A v \in Invs : LifeStep(v)
<1>1. TypeOK /\ FramesSound /\ Offering(c)
  BY DEF MatchInv
<1>2. Threads(c)
  BY <1>1, InviteThread DEF InviteSteps
<1>3. PICK v, t : v = frame[c].inv /\ t = frame[c].peer
  OBVIOUS
<1>4. /\ v \in Invs /\ inv[v].state = "NONE" /\ t \in Clients \ {c}
      /\ \A d \in Clients \ {c} : pc[d] \in ChosenPCs => frame[d].inv # v
  BY <1>1, <1>3 DEF Create, At, Offering, ChosenPCs
<1> DEFINE made == [state |-> "OPEN", source |-> c, target |-> t,
                    targetR |-> frame[c].role, ref |-> 1, seph |-> 1]
<1>5. /\ inv' = [inv EXCEPT ![v] = made]
      /\ UNCHANGED <<listOfInv, game, frame, holder, leaving, posts, crashed>>
      /\ pc'[c] = "addSource"
  BY <1>1, <1>3 DEF Create, Goto, TypeOK
<1>6. frame[c].role \in Bytes
  BY <1>1 DEF TypeOK, Frames
<1>7. /\ made \in Invitations /\ made.state = "OPEN" /\ made.source = c
      /\ made.target = t /\ made.ref = 1 /\ made.seph = 1
  BY <1>4, <1>6 DEF Invitations, States
<1> HIDE DEF made
<1>8. /\ inv'[v] = made
      /\ \A w \in Invs \ {v} : inv'[w] = inv[w]
      /\ inv' \in [Invs -> Invitations]
  BY <1>1, <1>4, <1>5, <1>7 DEF TypeOK
<1>9. \A d \in Clients : ~ InList(d, v) /\ (pc[d] \in MadePCs => frame[d].inv # v)
  BY <1>4, NotListed
<1>10. TypeOK' /\ FramesSound'
  <2>1. DataTypes'
    BY <1>1, <1>5, <1>8 DEF DataTypes, TypeOK
  <2> QED
    BY <1>1, <1>2, <2>1, TypesTogether
<1>11. ListsSound'
  <2> SUFFICES ASSUME NEW w \in Invs, NEW d \in Clients, NEW e \in Clients,
                      NEW i \in Slots, NEW k \in Slots, listOfInv[d][i] = w
               PROVE  /\ inv'[w].state # "NONE"
                      /\ d \in {inv'[w].source, inv'[w].target}
                      /\ d = e /\ listOfInv[e][k] = w => i = k
    BY <1>5 DEF ListsSound
  <2>1. w # v
    BY <1>9 DEF InList
  <2> QED
    BY <1>8, <2>1 DEF MatchInv, ListsSound
<1>12. RefsCoverEntries'
  <2> SUFFICES ASSUME NEW w \in Invs, inv'[w].state # "NONE"
               PROVE  inv'[w].ref >= 1 + Cardinality(Holders(w))
    BY <1>5 DEF RefsCoverEntries, Holders
  <2>1. CASE w = v
    <3>1. Holders(v) = {}
      BY <1>9 DEF Holders, InList
    <3>2. Cardinality(Holders(v)) = 0
      BY <3>1, FS_EmptySet
    <3> QED
      BY <1>7, <1>8, <2>1, <3>2
  <2>2. CASE w # v
    BY <1>8, <2>2 DEF MatchInv, RefsCoverEntries
  <2> QED
    BY <2>1, <2>2
<1>13. Offering(c)' /\ Adding(c)'
  <2>1. \A d \in Clients : ~ InList(d, v)'
    BY <1>5, <1>9 DEF InList
  <2> QED
    BY <1>3, <1>4, <1>5, <1>7, <1>8, <2>1 DEF Offering, Adding, ChosenPCs
<1>14. ASSUME NEW d \in Clients \ {c} PROVE Offering(d)' /\ Adding(d)'
  <2>1. /\ pc'[d] = pc[d] /\ frame'[d] = frame[d] /\ Offering(d) /\ Adding(d)
        /\ pc[d] \in ChosenPCs \cup MadePCs => frame[d].inv # v
    BY <1>2, <1>4, <1>9 DEF Threads, MatchInv
  <2>2. \A e \in Clients \ {d} : pc'[e] \in ChosenPCs =>
           pc[e] \in ChosenPCs /\ frame'[e] = frame[e]
    BY <1>2, <1>5 DEF Threads, ChosenPCs
  <2>3. Offering(d)'
    BY <1>8, <2>1, <2>2 DEF Offering
  <2>4. \A e \in Clients, w \in Invs : InList(e, w)' <=> InList(e, w)
    BY <1>5 DEF InList
  <2>5. Adding(d)'
    BY <1>8, <2>1, <2>4 DEF Adding
  <2> QED
    BY <2>3, <2>5
<1>15. ASSUME NEW w \in Invs PROVE LifeStep(w) /\ StuckFits(w)'
  <2>1. CASE w = v
    <3>1. Abs(v)!Create
      BY <1>4, <1>5, <1>7, <1>8 DEF Abs!Create
    <3>2. StuckFits(v)'
      BY <1>7, <1>8 DEF StuckFits
    <3> QED
      BY <2>1, <3>1, <3>2 DEF LifeStep, Abs!Next
  <2>2. CASE w # v
    <3>1. inv'[w] = inv[w] /\ game'[w] = game[w] /\ StuckFits(w)
      BY <1>5, <1>8, <2>2 DEF MatchInv, GameOfState
    <3> QED
      BY <3>1 DEF LifeStep, StuckFits
  <2> QED
    BY <2>1, <2>2
<1>16. (\A d \in Clients : Offering(d) /\ Adding(d))'
  BY <1>13, <1>14
<1>17. (\A w \in Invs : GameOfState(w))'
  BY <1>15, GamesKept
<1> QED
  BY <1>10, <1>11, <1>12, <1>15, <1>16, <1>17 DEF MatchInv

-----------------------------------------------------------------------------
\* d's list is given v, as client_add_invitation gives it.
Added(d, v) ==
    listOfInv' = [listOfInv EXCEPT ![d] = Overwrite(@, NoInv, v)]

\* What a list operation that puts v in a free slot does: a slot, if one is
\* free, holds v afterwards, and nothing else changes.
LEMMA ListAdd ==
    ASSUME TypeOK, NEW d \in Clients, NEW v \in Invs, NEW s,
           s = FirstSlot(listOfInv[d], NoInv), Added(d, v)
    PROVE  /\ s \in Slots \/ s = NoSlot
           /\ s \in Slots => listOfInv[d][s] = NoInv
           /\ \A e \in Clients, i \in Slots :
                 listOfInv'[e][i] = IF e = d /\ i = s THEN v ELSE listOfInv[e][i]
<1>1. NoSlot \notin Slots
  BY MatchAssumption DEF NoSlot, Slots
<1>2. /\ s \in Slots \/ s = NoSlot
      /\ s \in Slots => listOfInv[d][s] = NoInv
  BY <1>1, FirstSlotFinds
<1>3. listOfInv[d] \in [Slots -> Invs \cup {NoInv}]
  BY DEF TypeOK
<1>4. Overwrite(listOfInv[d], NoInv, v) =
         IF s = NoSlot THEN listOfInv[d] ELSE [listOfInv[d] EXCEPT ![s] = v]
  BY DEF Overwrite
<1>5. \A e \in Clients, i \in Slots :
         listOfInv'[e][i] = IF e = d /\ i = s THEN v ELSE listOfInv[e][i]
  BY <1>1, <1>2, <1>3, <1>4 DEF TypeOK, Added
<1> QED
  BY <1>2, <1>5

\* Whoever holds v afterwards held it before or is the slot that was filled.
LEMMA HoldersAdd ==
    ASSUME TypeOK, NEW d \in Clients, NEW v \in Invs, NEW s,
           s \in Slots \/ s = NoSlot, s \in Slots => listOfInv[d][s] = NoInv,
           \A e \in Clients, i \in Slots :
               listOfInv'[e][i] = IF e = d /\ i = s THEN v ELSE listOfInv[e][i]
    PROVE  /\ \A w \in Invs \ {v} : Holders(w)' = Holders(w)
           /\ Cardinality(Holders(v)') \in Nat /\ Cardinality(Holders(v)) \in Nat
           /\ Cardinality(Holders(v)') =
                 Cardinality(Holders(v)) + IF s = NoSlot THEN 0 ELSE 1
<1>1. NoSlot \notin Slots
  BY MatchAssumption DEF NoSlot, Slots
<1>2. ASSUME NEW w \in Invs \ {v} PROVE Holders(w)' = Holders(w)
  BY MatchAssumption DEF Holders
<1>3. /\ IsFiniteSet(Holders(v)) /\ Cardinality(Holders(v)) \in Nat
      /\ Cardinality(Holders(v)') \in Nat
  <2>1. Holders(v) \in SUBSET (Clients \X Slots)
    BY DEF Holders
  <2>2. Holders(v)' \in SUBSET (Clients \X Slots)
    BY DEF Holders
  <2> QED
    BY <2>1, <2>2, FiniteHolders
<1>4. CASE s = NoSlot
  <2>1. Holders(v)' = Holders(v)
    BY <1>1, <1>4 DEF Holders
  <2> QED
    BY <1>2, <1>3, <1>4, <2>1
<1>5. CASE s \in Slots
  <2>1. Holders(v)' = Holders(v) \cup {<<d, s>>} /\ <<d, s>> \notin Holders(v)
    BY <1>5, MatchAssumption DEF Holders
  <2>2. Cardinality(Holders(v)') = Cardinality(Holders(v)) + 1
    BY <1>3, <2>1, FS_AddElement
  <2> QED
    BY <1>1, <1>2, <1>3, <1>5, <2>2
<1> QED
  BY <1>4, <1>5

(***************************************************************************)
(* client_add_invitation, of an invitation that is open, to a list that    *)
(* does not hold it yet, of its source or its target: the entry, if one is *)
(* made, is counted, as nobody keeps the semaphore of an open invitation.  *)
(***************************************************************************)
LEMMA AddKeeps ==
    ASSUME MatchInv, NEW c \in Clients, NEW d \in Clients, NEW v \in Invs,
           NEW found, NEW missing, Threads(c),
           inv[v].state = "OPEN", d \in {inv[v].source, inv[v].target},
           ~ InList(d, v), Add(c, d, v, found, missing)
    PROVE  /\ TypeOK' /\ FramesSound' /\ ListsSound' /\ RefsCoverEntries'
           /\ (\A w \in Invs : GameOfState(w))'
           /\ \A w \in Invs : LifeStep(w)
           /\ Steady(inv')
           /\ \A e \in Clients, w \in Invs :
                 InList(e, w)' => InList(e, w) \/ (e = d /\ w = v)
<1>1. TypeOK /\ v # NoInv
  BY MatchAssumption DEF MatchInv
<1>2. Change(c, d, NoInv, v, found, missing) /\ Added(d, v)
  BY DEF Add, Change, Added
<1>3. /\ listOfInv' \in [Clients -> [Slots -> Invs \cup {NoInv}]]
      /\ inv' \in [Invs -> Invitations]
      /\ holder' \in [Clients -> Clients \cup {NoClient}]
      /\ Steady(inv')
      /\ UNCHANGED <<game, leaving, posts, crashed>>
  BY <1>1, <1>2, ChangeType
<1>4. PICK s : s = FirstSlot(listOfInv[d], NoInv)
  OBVIOUS
<1>5. /\ s \in Slots \/ s = NoSlot
      /\ s \in Slots => listOfInv[d][s] = NoInv
      /\ \A e \in Clients, i \in Slots :
            listOfInv'[e][i] = IF e = d /\ i = s THEN v ELSE listOfInv[e][i]
  BY <1>1, <1>2, <1>4, ListAdd
<1>6. /\ \A w \in Invs \ {v} : Holders(w)' = Holders(w)
      /\ Cardinality(Holders(v)') \in Nat /\ Cardinality(Holders(v)) \in Nat
      /\ Cardinality(Holders(v)') =
            Cardinality(Holders(v)) + IF s = NoSlot THEN 0 ELSE 1
  BY <1>1, <1>5, HoldersAdd
<1>7. InvFree(v)
  <2>1. inv[v].seph \in {0, 1}
    BY <1>1 DEF TypeOK, Invitations
  <2>2. StuckFits(v)
    BY DEF MatchInv, GameOfState
  <2> QED
    BY <2>1, <2>2 DEF StuckFits, InvFree
<1>8. s \in Slots => inv' = RefAfter(v)
  <2>1. s \in Slots => InList(d, NoInv)
    BY <1>5 DEF InList
  <2> QED
    BY <1>2, <1>7, <2>1 DEF Change
<1>9. s \in Slots => inv'[v].ref = inv[v].ref + 1
  BY <1>1, <1>8, RefAfterKeeps DEF TypeOK
<1>10. TypeOK' /\ FramesSound'
  <2>1. DataTypes'
    BY <1>1, <1>3 DEF DataTypes, TypeOK
  <2> QED
    BY <2>1, TypesTogether DEF MatchInv
<1>11. ListsSound'
  <2> SUFFICES ASSUME NEW w \in Invs, NEW a \in Clients, NEW e \in Clients,
                      NEW i \in Slots, NEW k \in Slots, listOfInv'[a][i] = w
               PROVE  /\ inv'[w].state # "NONE"
                      /\ a \in {inv'[w].source, inv'[w].target}
                      /\ a = e /\ listOfInv'[e][k] = w => i = k
    BY DEF ListsSound
  <2>1. CASE a = d /\ w = v
    <3>1. \A j \in Slots : listOfInv[d][j] # v
      BY DEF InList
    <3>2. i = s /\ (a = e /\ listOfInv'[e][k] = w => k = s)
      BY <1>5, <2>1, <3>1
    <3> QED
      BY <1>3, <2>1, <3>2 DEF Steady
  <2>2. CASE a # d \/ w # v
    <3>1. listOfInv[a][i] = w /\ (a = e /\ listOfInv'[e][k] = w => listOfInv[e][k] = w)
      BY <1>5, <2>2
    <3>2. /\ inv[w].state # "NONE" /\ a \in {inv[w].source, inv[w].target}
          /\ a = e /\ listOfInv'[e][k] = w => i = k
      BY <3>1 DEF MatchInv, ListsSound
    <3> QED
      BY <1>3, <3>2 DEF Steady
  <2> QED
    BY <2>1, <2>2
<1>12. RefsCoverEntries'
  <2> SUFFICES ASSUME NEW w \in Invs, inv'[w].state # "NONE"
               PROVE  inv'[w].ref >= 1 + Cardinality(Holders(w)')
    BY DEF RefsCoverEntries
  <2>1. inv[w].ref >= 1 + Cardinality(Holders(w)) /\ inv'[w].ref >= inv[w].ref
    BY <1>3 DEF Steady, MatchInv, RefsCoverEntries
  <2>2. inv[w].ref \in Nat /\ inv'[w].ref \in Nat
    BY <1>1, <1>3 DEF TypeOK, Invitations
  <2>3. CASE w = v
    BY <1>5, <1>6, <1>9, <2>1, <2>2, <2>3
  <2>4. CASE w # v
    <3>1. Cardinality(Holders(w)) \in Nat
      BY FiniteHolders DEF Holders
    <3> QED
      BY <1>6, <2>1, <2>2, <2>4, <3>1
  <2> QED
    BY <2>3, <2>4
<1>13. \A w \in Invs : LifeStep(w) /\ StuckFits(w)'
  BY <1>3 DEF Steady, LifeStep, StuckFits, MatchInv, GameOfState
<1>14. (\A w \in Invs : GameOfState(w))'
  BY <1>13, GamesKept
<1>15. \A e \in Clients, w \in Invs : InList(e, w)' => InList(e, w) \/ (e = d /\ w = v)
  BY <1>5 DEF InList
<1> QED
  BY <1>3, <1>10, <1>11, <1>12, <1>13, <1>14, <1>15

\* The two calls of client_add_invitation.
LEMMA AddsKeep ==
    ASSUME MatchInv, NEW c \in Clients,
           AddSource(c) \/ AddTarget(c)
    PROVE  MatchInv' /\ \A v \in Invs : LifeStep(v)
<1>1. TypeOK /\ Adding(c)
  BY DEF MatchInv
<1>2. Threads(c)
  BY <1>1, InviteThread DEF InviteSteps
<1>3. PICK v, t : v = frame[c].inv /\ t = frame[c].peer
  OBVIOUS
<1>4. /\ v \in Invs /\ inv[v].state = "OPEN" /\ inv[v].source = c
      /\ t = inv[v].target /\ t \in Clients \ {c}
      /\ \A d \in Clients \ {c} : ~ InList(d, v)
      /\ pc[c] = "addSource" => ~ InList(c, v)
  BY <1>1, <1>3 DEF AddSource, AddTarget, At, Adding, MadePCs
<1>5. PICK d, found, missing :
         /\ Add(c, d, v, found, missing)
         /\ \/ AddSource(c) /\ d = c
               /\ found = "addTarget" /\ missing = "addAnyway"
            \/ ~ AddSource(c) /\ d = t
               /\ found \in {"notify", "fail"} /\ missing = "fail"
  BY <1>3 DEF AddSource, AddTarget, At
<1>6. d \in {inv[v].source, inv[v].target} /\ d \in Clients /\ ~ InList(d, v)
  BY <1>4, <1>5 DEF AddSource, At
<1>7. /\ TypeOK' /\ FramesSound' /\ ListsSound' /\ RefsCoverEntries'
      /\ (\A w \in Invs : GameOfState(w))'
      /\ \A w \in Invs : LifeStep(w)
      /\ Steady(inv')
      /\ \A e \in Clients, w \in Invs :
            InList(e, w)' => InList(e, w) \/ (e = d /\ w = v)
  BY <1>2, <1>4, <1>5, <1>6, AddKeeps
<1>8. \/ GoOn(c, found) \/ GoOn(c, missing)
      \/ Goto(c, "hung") /\ UNCHANGED frame
  BY <1>5 DEF Add, Change
<1>9. /\ pc'[c] \in InvitePCs => /\ d = c /\ pc'[c] \in {"addTarget", "addAnyway"}
                                 /\ frame'[c].inv = v /\ frame'[c].peer = t
  <2>1. frame[c] \in Frames
    BY <1>1 DEF TypeOK
  <2>2. CASE GoOn(c, "fail")
    BY <1>1, <2>2, ReturnFrame DEF GoOn, InvitePCs, ChosenPCs, MadePCs
  <2>3. CASE Goto(c, "hung") \/ GoOn(c, "notify")
    BY <1>1, <2>3 DEF GoOn, Goto, TypeOK, InvitePCs, ChosenPCs, MadePCs
  <2>4. ASSUME NEW p \in {"addTarget", "addAnyway"}, GoOn(c, p), d = c
        PROVE  pc'[c] = p /\ frame'[c].inv = v /\ frame'[c].peer = t
    <3>1. Goto(c, p) /\ frame' = [frame EXCEPT ![c].arg = NoInv]
      BY <2>4 DEF GoOn
    <3> QED
      BY <1>1, <1>3, <2>1, <3>1 DEF Goto, TypeOK, Frames
  <2> QED
    BY <1>5, <1>8, <2>2, <2>3, <2>4
<1>10. Offering(c)' /\ Adding(c)'
  <2>1. CASE pc'[c] \notin InvitePCs
    BY <2>1 DEF Offering, Adding, InvitePCs
  <2>2. CASE pc'[c] \in InvitePCs
    <3>1. inv'[v].state = "OPEN" /\ inv'[v].source = c /\ inv'[v].target = t
      BY <1>4, <1>7 DEF Steady
    <3>2. \A e \in Clients \ {c} : ~ InList(e, v)'
      BY <1>4, <1>7, <1>9, <2>2
    <3> QED
      BY <1>4, <1>9, <2>2, <3>1, <3>2 DEF Offering, Adding, ChosenPCs
  <2> QED
    BY <2>1, <2>2
<1>11. ASSUME NEW e \in Clients \ {c} PROVE Offering(e)' /\ Adding(e)'
  <2>1. pc'[e] = pc[e] /\ frame'[e] = frame[e] /\ Offering(e) /\ Adding(e)
    BY <1>2 DEF Threads, MatchInv
  <2>2. \A a \in Clients \ {e} : pc'[a] \in ChosenPCs =>
           pc[a] \in ChosenPCs /\ frame'[a] = frame[a]
    BY <1>2, <1>9 DEF Threads, InvitePCs, ChosenPCs
  <2>3. Offering(e)'
    BY <1>7, <2>1, <2>2 DEF Offering, Steady
  <2>4. Adding(e)'
    <3> SUFFICES ASSUME pc[e] \in MadePCs PROVE Adding(e)'
      BY <2>1 DEF Adding
    <3>1. PICK w : w = frame[e].inv
      OBVIOUS
    <3>2. /\ w \in Invs /\ inv[w].state = "OPEN" /\ inv[w].source = e
          /\ frame[e].peer = inv[w].target /\ inv[w].target \in Clients \ {e}
          /\ \A a \in Clients \ {e} : ~ InList(a, w)
          /\ pc[e] = "addSource" => ~ InList(e, w)
      BY <2>1, <3>1 DEF Adding
    <3>3. w # v
      BY <1>4, <3>2
    <3>4. \A a \in Clients : InList(a, w)' => InList(a, w)
      BY <1>7, <3>2, <3>3
    <3>5. inv'[w].state = "OPEN" /\ inv'[w].source = e /\ inv'[w].target = inv[w].target
      BY <1>7, <3>2 DEF Steady
    <3> QED
      BY <2>1, <3>1, <3>2, <3>4, <3>5 DEF Adding
  <2> QED
    BY <2>3, <2>4
<1>12. (\A e \in Clients : Offering(e) /\ Adding(e))'
  BY <1>10, <1>11
<1> QED
  BY <1>7, <1>12 DEF MatchInv

LEMMA InviteKeeps ==
    ASSUME MatchInv, NEW c \in Clients, InviteSteps(c)
    PROVE  MatchInv' /\ \A v \in Invs : LifeStep(v)
BY OfferKeeps, CreateKeeps, AddsKeep DEF InviteSteps

-----------------------------------------------------------------------------
\* Nobody has been invited yet.
LEMMA InitMatch == Init => MatchInv
<1> SUFFICES ASSUME Init PROVE MatchInv
  OBVIOUS
<1>1. TypeOK
  <2>1. NotMade \in Invitations
    BY DEF NotMade, Invitations, States, NullRole, Bytes
  <2>2. "recv" \in PCs
    BY Places
  <2> QED
    BY <2>1, <2>2, IdleFrame DEF Init, TypeOK
<1>2. FramesSound /\ \A c \in Clients : Offering(c) /\ Adding(c)
  BY DEF Init, FramesSound, CurPCs, DereferenceSteps, Offering, Adding, ChosenPCs,
     MadePCs
<1>3. ListsSound /\ RefsCoverEntries
  BY MatchAssumption DEF Init, ListsSound, RefsCoverEntries, NotMade
<1>4. \A v \in Invs : GameOfState(v)
  BY SameGames DEF Init, GameOfState, StuckFits, Abs!GameMatchesState, NotMade
<1> QED
  BY <1>1, <1>2, <1>3, <1>4 DEF MatchInv

\* Every step keeps the invariant, and is for each invitation a step of its
\* abstract life or none.
LEMMA MatchStep ==
    ASSUME MatchInv, [Next]_vars
    PROVE  MatchInv' /\ \A v \in Invs : LifeStep(v)
<1>1. ASSUME NEW c \in Clients,
             Receive(c) \/ Invite(c) \/ Hangup(c) \/ Block(c) \/ Serve(c)
      PROVE  MatchInv' /\ \A v \in Invs : LifeStep(v)
  <2>1. CASE InviteSteps(c)
    BY <2>1, InviteKeeps
  <2>2. CASE ~ InviteSteps(c)
    <3>1. Threads(c)
      BY <1>1, ThreadStep DEF MatchInv
    <3>2. Calm(c)
      BY <1>1, <2>2, AllSteps, CalmStep
    <3>3. pc'[c] \notin InvitePCs
      BY <2>2, <3>1 DEF Threads
    <3> QED
      BY <3>1, <3>2, <3>3, CalmKeeps
  <2> QED
    BY <2>1, <2>2
<1>2. CASE UNCHANGED vars
  <2>1. MatchInv'
    BY <1>2 DEF MatchInv, vars, TypeOK, FramesSound, ListsSound, RefsCoverEntries,
       Holders, Offering, Adding, InList, GameOfState, StuckFits,
       Abs!GameMatchesState
  <2> QED
    BY <1>2, <2>1 DEF vars, LifeStep
<1> QED
  BY <1>1, <1>2 DEF Next

\* The inductive invariant holds in every reachable state.
THEOREM MatchInvariant == Spec => []MatchInv
<1>1. MatchInv /\ [Next]_vars => MatchInv'
  BY MatchStep
<1> QED
  BY <1>1, InitMatch, PTL DEF Spec

\* Every variable keeps its type: whatever the threads interleave, a list
\* holds invitations or NULL, a count is not negative, and a thread is at a
\* step of its request.
THEOREM MatchTypeCorrect == Spec => []TypeOK
<1>1. MatchInv => TypeOK
  BY DEF MatchInv
<1> QED
  BY <1>1, MatchInvariant, PTL

\* A listOfInv holds only invitations that were made and that its client
\* takes part in, each at most once, although client_remove_invitation and
\* client_add_invitation lock one list at a time.
THEOREM ListsStaySound == Spec => []ListsSound
<1>1. MatchInv => ListsSound
  BY DEF MatchInv
<1> QED
  BY <1>1, MatchInvariant, PTL

\* No invitation is freed while a list still holds it: its count covers the
\* entries and the reference of its maker.
THEOREM RefsStayCovering == Spec => []RefsCoverEntries
<1>1. MatchInv => RefsCoverEntries
  BY DEF MatchInv
<1> QED
  BY <1>1, MatchInvariant, PTL

\* The game of an invitation and its state agree, misplayed games included:
\* none before inv_accept, one while it is accepted, one that is over once it
\* has been closed after that; and the semaphore of an invitation is kept only
\* where inv_close waits for a game that somebody has misplayed.
THEOREM GamesFitStates == Spec => []GamesMatchStates
<1>1. MatchInv => GamesMatchStates
  BY DEF MatchInv, GameOfState, StuckFits, GamesMatchStates
<1> QED
  BY <1>1, MatchInvariant, PTL

\* Whatever the threads of both participants interleave, each invitation
\* lives the life of AbstractInvitation: it is made, accepted or closed, its
\* game is played while it is accepted, and it ends closed.
THEOREM MatchImplementsInvitation == Spec => ImplementsInvitation
<1>1. Init => \A v \in Invs : Abs(v)!Init
  BY SameGames DEF Init, Abs!Init, NotMade
<1>2. MatchInv /\ [Next]_vars =>
         [\A v \in Invs : Abs(v)!Next \/ UNCHANGED <<inv[v].state, game[v]>>]_vars
  BY MatchStep DEF LifeStep
<1> QED
  BY <1>1, <1>2, MatchInvariant, PTL DEF Spec, ImplementsInvitation

-----------------------------------------------------------------------------
(***************************************************************************)
(* Who waits for whom.  A client's semaphore is kept from one step to      *)
(* another by its client_logout, by a write that waits for the client to   *)
(* read, and by a list operation that waits for good for the semaphore of  *)
(* an invitation.  A thread calls for the semaphore of its own client, of  *)
(* its opponent, or of the target of a game that has ended.                *)
(***************************************************************************)
WritePCs == {"ack", "nack", "notify", "tellSource", "tellTarget"}

Calls(c, d) ==
    \/ pc[c] \in {"eof", "refSource", "addSource", "removeOwn"} /\ d = c
    \/ pc[c] \in {"found", "refTarget", "addTarget", "addAnyway", "removePeer",
                  "removeSource"} /\ d = frame[c].peer
    \/ pc[c] = "removeTarget" /\ d = frame[c].target
    \/ pc[c] \in WritePCs /\ ~ frame[c].writes /\ d = Addressee(c)

WaitsFor(c, e) == \E d \in Clients : Calls(c, d) /\ holder[d] = e

\* Threads all wait for one another only if one of them is a client_logout
\* that waits for itself: whoever follows those that are waited for comes to a
\* thread that waits for no thread's semaphore, or to such a logout.
CirclesAreLogouts ==
    \A S \in SUBSET Clients :
        S # {} /\ (\A c \in S : \E e \in S : WaitsFor(c, e)) =>
            \E c \in S : leaving[c] /\ pc[c] = "removeOwn"

\* client_logout keeps its client's semaphore and never comes to a call for
\* that of another: what it begins with is to remove from its own list, and
\* there it stays.
AskPCs      == {"who", "source", "targetRole", "sourceRole", "target"}
LogoutSteps == AskPCs \cup {"logout", "revoke", "revokeSource", "revokeTarget",
                            "post", "close", "ownArg", "removeOwn", "hung"}

Home(c) == /\ leaving[c] => /\ holder[c] = c
                            /\ pc[c] \in LogoutSteps
                            /\ pc[c] \in AskPCs => frame[c].op # "move"
           /\ pc[c] = "logout" => leaving[c]

\* A write that waits keeps the semaphore of the client it writes to.
Writing(c) == frame[c].writes => /\ pc[c] \in WritePCs
                                 /\ Addressee(c) \in Clients
                                 /\ holder[Addressee(c)] = c

\* Whoever keeps the semaphore of d keeps it for one of three reasons.
Reason(e, d) == \/ e = d /\ leaving[e]
                \/ pc[e] = "hung"
                \/ frame[e].writes /\ d = Addressee(e)

Held(d) == holder[d] \in Clients => Reason(holder[d], d)

Semaphores == \A c \in Clients : Home(c) /\ Writing(c) /\ Held(c)

\* What a step of c does to the semaphores: it takes free ones, gives back its
\* own, and has a reason for those it keeps.
Takes(c) == \A d \in Clients : \/ holder'[d] = holder[d]
                               \/ holder[d] = NoClient /\ holder'[d] = c
                               \/ holder[d] = c /\ holder'[d] = NoClient

Turn(c) == /\ leaving' \in [Clients -> BOOLEAN]
           /\ \A d \in Clients \ {c} : leaving'[d] = leaving[d]
           /\ Takes(c)
           /\ Home(c)' /\ Writing(c)'
           /\ \A d \in Clients : holder'[d] = c => Reason(c, d)'

LEMMA TurnKeeps ==
    ASSUME TypeOK, Semaphores, NEW c \in Clients, Threads(c), Turn(c)
    PROVE  Semaphores'
<1>1. \A d \in Clients \ {c} : /\ pc'[d] = pc[d] /\ frame'[d] = frame[d]
                               /\ leaving'[d] = leaving[d]
  BY DEF Threads, Turn
<1>2. ASSUME NEW d \in Clients \ {c} PROVE Home(d)' /\ Writing(d)'
  <2>1. Home(d) /\ Writing(d)
    BY DEF Semaphores
  <2>2. \A e \in Clients : holder[e] = d => holder'[e] = d
    BY MatchAssumption DEF Turn, Takes
  <2>3. Addressee(d)' = Addressee(d)
    BY <1>1 DEF Addressee
  <2>4. Home(d)'
    BY <1>1, <2>1, <2>2 DEF Home
  <2>5. Writing(d)'
    BY <1>1, <2>1, <2>2, <2>3 DEF Writing
  <2> QED
    BY <2>4, <2>5
<1>3. ASSUME NEW d \in Clients PROVE Held(d)'
  <2>1. CASE holder'[d] = c
    BY <2>1 DEF Held, Turn
  <2>2. CASE holder'[d] = holder[d] /\ holder'[d] # c
    <3>1. SUFFICES ASSUME holder[d] \in Clients PROVE Reason(holder[d], d)'
      BY <2>2 DEF Held
    <3>2. PICK e \in Clients \ {c} : e = holder[d]
      BY <2>2, <3>1
    <3>3. Reason(e, d)
      BY <3>2 DEF Semaphores, Held
    <3>4. Addressee(e)' = Addressee(e)
      BY <1>1 DEF Addressee
    <3>5. Reason(e, d)'
      BY <1>1, <3>3, <3>4 DEF Reason
    <3> QED
      BY <2>2, <3>2, <3>5 DEF Reason, Addressee
  <2>3. CASE holder'[d] = NoClient
    BY <2>3, MatchAssumption DEF Held
  <2> QED
    BY <2>1, <2>2, <2>3 DEF Turn, Takes
<1> QED
  BY <1>2, <1>3 DEF Semaphores, Turn

\* A thread at a write, or one that waits for good, makes no other step.
LEMMA Elsewhere ==
    ASSUME NEW c,
           LookSteps(c) \/ RemoveSteps(c) \/ DataSteps(c) \/ InviteSteps(c)
    PROVE  pc[c] \notin WritePCs /\ pc[c] # "hung"
<1>1. CASE RemoveSteps(c)
  BY <1>1 DEF RemoveSteps, RemoveOwn, RemovePeer, RemoveSource, RemoveTarget,
     At, WritePCs
<1>2. CASE DataSteps(c)
  BY <1>2 DEF DataSteps, RevokeClose, ResignPost, ResignClose, Accept, MoveApply,
     EndPost, Logout, LogoutDone, NullCrash, NullArgument, DereferenceSteps, At,
     Reads, WritePCs
<1>3. CASE InviteSteps(c)
  BY <1>3 DEF InviteSteps, Invite, LookupRef, RefSource, Create, AddSource,
     AddTarget, At, WritePCs
<1>4. CASE LookSteps(c)
  BY <1>4 DEF LookSteps, Receive, RevokeSource, RevokeTarget, DeclineSource,
     DeclineTarget, Who, TargetsOpponent, TargetsRole, SourcesRole,
     SourcesOpponent, ReadOwn, ReadPeers, AcceptSource, Scan, AcceptGame,
     AcceptState, AcceptRole, MoveGame, MoveParse, Moved, MoveState, EndSource,
     EndTarget, EndRole, ReadSources, ReadTargets, Hangup, LogoutSlot, At, Reads,
     WritePCs
<1> QED
  BY <1>1, <1>2, <1>3, <1>4

\* Such a thread has no write under way and keeps, if any, the semaphore of
\* its own client, which is logging out.
LEMMA HasNone ==
    ASSUME Semaphores, NEW c \in Clients, pc[c] \notin WritePCs, pc[c] # "hung"
    PROVE  /\ ~ frame[c].writes
           /\ \A d \in Clients : holder[d] = c => d = c /\ leaving[c]
<1>1. ~ frame[c].writes
  BY DEF Semaphores, Writing
<1> QED
  BY <1>1 DEF Semaphores, Held, Reason

\* A step that takes and gives back no semaphore.
\* A thread that returns has no write under way.
LEMMA ReturnWrites ==
    ASSUME TypeOK, NEW c \in Clients, NEW ok \in BOOLEAN, Return(c, ok)
    PROVE  ~ frame'[c].writes
BY ReturnFrame

LEMMA PlainTurn ==
    ASSUME TypeOK, Semaphores, NEW c \in Clients, UNCHANGED <<holder, leaving>>,
           pc[c] \notin WritePCs, pc[c] # "hung", ~ frame'[c].writes, Home(c)'
    PROVE  Turn(c)
<1>1. \A d \in Clients : holder'[d] = c => Reason(c, d)'
  BY HasNone DEF Reason
<1> QED
  BY <1>1 DEF Turn, Takes, Writing, TypeOK

\* Return goes back to the logout there is, or to none.
LEMMA ReturnHome ==
    ASSUME TypeOK, NEW c \in Clients, NEW ok, Return(c, ok), Home(c),
           UNCHANGED <<holder, leaving>>
    PROVE  Home(c)'
<1>1. pc'[c] = IF leaving[c] THEN "logout" ELSE IF ok THEN "ack" ELSE "nack"
  BY DEF Return, Goto, TypeOK
<1> QED
  BY <1>1 DEF Home, LogoutSteps, AskPCs

\* A look stays where logouts are, if there is one.
LEMMA LookHome ==
    ASSUME TypeOK, NEW c \in Clients, NEW p, NEW f, Home(c),
           Look(c, p, f) \/ Refuse(c),
           leaving[c] => p \in LogoutSteps /\ (p \in AskPCs => f.op # "move"),
           p = "logout" => leaving[c]
    PROVE  Home(c)'
<1>1. UNCHANGED <<holder, leaving>>
  BY LookAlters
<1>2. CASE Look(c, p, f)
  <2>1. pc'[c] = p /\ frame'[c] = f
    BY <1>2 DEF Look, Goto, TypeOK
  <2> QED
    BY <1>1, <2>1 DEF Home
<1>3. CASE Refuse(c)
  BY <1>1, <1>3, ReturnHome DEF Refuse
<1> QED
  BY <1>2, <1>3

\* A look within a logout goes on with the logout.
LEMMA LogoutLook ==
    ASSUME TypeOK, FramesSound, NEW c \in Clients, LookSteps(c), Home(c), leaving[c]
    PROVE  Home(c)'
<1>0. frame[c] \in Frames
  BY DEF TypeOK
<1>1. pc[c] \in LogoutSteps /\ (pc[c] \in AskPCs => frame[c].op # "move")
  BY DEF Home
<1>2. ASSUME NEW p \in LogoutSteps \ AskPCs, NEW f, Look(c, p, f) \/ Refuse(c)
      PROVE  Home(c)'
  BY <1>2, LookHome
<1>3. ASSUME NEW p \in AskPCs, NEW f, Look(c, p, f), f.op # "move"
      PROVE  Home(c)'
  BY <1>3, LookHome DEF LogoutSteps, AskPCs
<1>4. CASE LogoutSlot(c)
  <2>1. \E id, v :
           \/ Look(c, "logout", [Idle EXCEPT !.id = id])
           \/ Look(c, "revoke", [Idle EXCEPT !.op = "revoke", !.id = id, !.inv = v])
           \/ Look(c, "who", [Idle EXCEPT !.op = "resign", !.id = id, !.inv = v])
    BY <1>4 DEF LogoutSlot
  <2>2. \A id, v : [Idle EXCEPT !.op = "resign", !.id = id, !.inv = v].op = "resign"
    BY DEF Idle
  <2> QED
    BY <1>2, <1>3, <2>1, <2>2 DEF LogoutSteps, AskPCs
<1>5. CASE RevokeSource(c) \/ RevokeTarget(c) \/ ReadOwn(c)
  BY <1>2, <1>5 DEF RevokeSource, RevokeTarget, ReadOwn, ReadArg, LogoutSteps, AskPCs
<1>6. CASE SourcesOpponent(c) \/ TargetsRole(c)
  <2>1. AfterWho(c) = "post"
    BY <1>1, <1>6 DEF SourcesOpponent, TargetsRole, Reads, At, AskPCs, AfterWho
  <2>2. \E f : Look(c, "post", f)
    BY <1>6, <2>1 DEF SourcesOpponent, TargetsRole
  <2> QED
    BY <1>2, <2>2 DEF LogoutSteps, AskPCs
<1>7. CASE Who(c) \/ TargetsOpponent(c) \/ SourcesRole(c)
  <2>1. frame[c].op # "move"
    BY <1>1, <1>7 DEF Who, TargetsOpponent, SourcesRole, Reads, At, AskPCs
  <2>2. \A d, r : /\ [frame[c] EXCEPT !.peer = d].op = frame[c].op
                  /\ [frame[c] EXCEPT !.role = r].op = frame[c].op
    BY <1>0 DEF Frames
  <2>3. \E p \in AskPCs : \E f : Look(c, p, f) /\ f.op = frame[c].op
    BY <1>7, <2>2 DEF Who, TargetsOpponent, SourcesRole, AskPCs
  <2> QED
    BY <1>3, <2>1, <2>3
<1> QED
  BY <1>1, <1>4, <1>5, <1>6, <1>7 DEF LogoutSteps, AskPCs, LookSteps, Receive,
     DeclineSource, DeclineTarget, ReadPeers, AcceptSource, Scan, AcceptGame,
     AcceptState, AcceptRole, MoveGame, MoveParse, Moved, MoveState, EndSource,
     EndTarget, EndRole, ReadSources, ReadTargets, Hangup, At, Reads

LEMMA LookTurn ==
    ASSUME TypeOK, FramesSound, Semaphores, NEW c \in Clients, LookSteps(c)
    PROVE  Turn(c)
<1>1. pc[c] \notin WritePCs /\ pc[c] # "hung"
  BY Elsewhere
<1>2. Looked(c) /\ UNCHANGED <<holder, leaving>>
  BY LookThread, LookUntouched
<1>3. ~ frame'[c].writes
  BY <1>1, <1>2, HasNone DEF Looked
<1>4. Home(c)
  BY DEF Semaphores
<1>5. Home(c)'
  <2>1. CASE leaving[c]
    BY <1>4, <2>1, LogoutLook
  <2>2. CASE ~ leaving[c]
    BY <1>2, <1>4, <2>2 DEF Home, Looked
  <2> QED
    BY <2>1, <2>2
<1> QED
  BY <1>1, <1>2, <1>3, <1>5, PlainTurn

\* The steps that work on an invitation or a game.
LEMMA DataTurn ==
    ASSUME TypeOK, Semaphores, NEW c \in Clients, DataSteps(c)
    PROVE  Turn(c)
<1>0. Home(c) /\ frame[c] \in Frames
  BY DEF Semaphores, TypeOK
<1>1. pc[c] \notin WritePCs /\ pc[c] # "hung"
  BY Elsewhere
<1>2. /\ ~ frame[c].writes
      /\ \A d \in Clients : holder[d] = c => d = c /\ leaving[c]
  BY <1>1, HasNone
<1>3. ASSUME UNCHANGED <<holder, leaving>>, ~ frame'[c].writes, Home(c)' PROVE Turn(c)
  BY <1>1, <1>3, PlainTurn
<1>4. ASSUME NEW ok \in BOOLEAN, Return(c, ok), UNCHANGED <<holder, leaving>>
      PROVE  Turn(c)
  BY <1>0, <1>3, <1>4, ReturnHome, ReturnWrites
<1>5. ASSUME NEW p \in PCs \ ({"logout"} \cup AskPCs), NEW f, Goto(c, p),
             frame' = [frame EXCEPT ![c] = f], ~ f.writes,
             UNCHANGED <<holder, leaving>>, leaving[c] => p \in LogoutSteps
      PROVE  Turn(c)
  <2>1. pc'[c] = p /\ frame'[c] = f
    BY <1>5 DEF TypeOK, Goto
  <2> QED
    BY <1>0, <1>3, <1>5, <2>1 DEF Home
<1>6. ASSUME NEW v, NEW r
      PROVE  /\ ~ [frame[c] EXCEPT !.aim = v].writes
             /\ ~ [frame[c] EXCEPT !.role = r].writes
             /\ ~ [frame[c] EXCEPT !.aim = v, !.role = r].writes
  BY <1>0, <1>2 DEF Frames
<1>7. UNCHANGED frame => frame' = [frame EXCEPT ![c] = frame[c]]
  BY DEF TypeOK
<1>8. {"revokeSource", "close", "ownArg", "hung", "acceptSource", "moved",
       "sourceArg"} \subseteq PCs \ ({"logout"} \cup AskPCs)
  BY DEF PCs, DereferenceSteps, AskPCs
<1>9. {"revokeSource", "close", "ownArg", "hung"} \subseteq LogoutSteps
  BY DEF LogoutSteps
<1>10. pc[c] \in {"accept", "apply", "endPost"} => ~ leaving[c]
  BY <1>0 DEF Home, LogoutSteps, AskPCs
<1>11. CASE RevokeClose(c)
  BY <1>2, <1>4, <1>5, <1>7, <1>8, <1>9, <1>11 DEF RevokeClose
<1>12. CASE ResignPost(c)
  BY <1>2, <1>5, <1>7, <1>8, <1>9, <1>12 DEF ResignPost
<1>13. CASE ResignClose(c)
  <2>1. PICK p \in {"ownArg", "hung"} :
           Goto(c, p) /\ frame' = [frame EXCEPT ![c] = Unaimed(c)]
    BY <1>13 DEF ResignClose
  <2>2. ~ Unaimed(c).writes /\ UNCHANGED <<holder, leaving>>
    BY <1>6, <1>13 DEF ResignClose, Unaimed
  <2> QED
    BY <1>5, <1>8, <1>9, <2>1, <2>2
<1>14. CASE Accept(c)
  BY <1>2, <1>4, <1>5, <1>7, <1>8, <1>10, <1>14 DEF Accept, Reads, At
<1>15. CASE MoveApply(c)
  <2>1. PICK f : f = [frame[c] EXCEPT !.role = NullRole]
    OBVIOUS
  <2>2. \/ Return(c, FALSE)
        \/ Goto(c, "moved") /\ frame' = [frame EXCEPT ![c] = f]
    BY <1>15, <2>1 DEF MoveApply
  <2>3. ~ leaving[c] /\ UNCHANGED <<holder, leaving>>
    BY <1>10, <1>15 DEF MoveApply, At
  <2> QED
    BY <1>4, <1>5, <1>6, <1>8, <2>1, <2>2, <2>3
<1>16. CASE EndPost(c)
  <2>1. PICK f : f = [frame[c] EXCEPT !.aim = NoInv]
    OBVIOUS
  <2>2. Goto(c, "sourceArg") /\ frame' = [frame EXCEPT ![c] = f]
    BY <1>16, <2>1 DEF EndPost
  <2>3. ~ leaving[c] /\ UNCHANGED <<holder, leaving>>
    BY <1>10, <1>16 DEF EndPost, At
  <2> QED
    BY <1>5, <1>6, <1>8, <2>1, <2>2, <2>3
<1>17. CASE Logout(c)
  <2>1. /\ holder[c] = NoClient /\ holder' = [holder EXCEPT ![c] = c]
        /\ leaving' = [leaving EXCEPT ![c] = TRUE]
        /\ pc'[c] = "logout" /\ frame' = frame
    BY <1>17 DEF Logout, SephFree, Goto, TypeOK
  <2>2. /\ holder'[c] = c /\ leaving'[c] /\ leaving' \in [Clients -> BOOLEAN]
        /\ \A d \in Clients \ {c} : holder'[d] = holder[d] /\ leaving'[d] = leaving[d]
    BY <2>1 DEF TypeOK
  <2>3. Home(c)' /\ Writing(c)'
    BY <1>2, <2>1, <2>2 DEF Home, Writing, LogoutSteps, AskPCs
  <2>4. \A d \in Clients : holder'[d] = c => Reason(c, d)'
    BY <1>2, <2>2 DEF Reason
  <2> QED
    BY <2>1, <2>2, <2>3, <2>4 DEF Turn, Takes
<1>18. CASE LogoutDone(c)
  <2>0. leaving[c] /\ holder[c] = c
    BY <1>0, <1>18 DEF LogoutDone, At, Home
  <2>1. /\ holder' = [holder EXCEPT ![c] = NoClient]
        /\ leaving' = [leaving EXCEPT ![c] = FALSE]
        /\ pc'[c] = "gone" /\ frame'[c] = Idle
    BY <1>18 DEF LogoutDone, Goto, TypeOK
  <2>2. /\ holder'[c] = NoClient /\ ~ leaving'[c] /\ leaving' \in [Clients -> BOOLEAN]
        /\ \A d \in Clients \ {c} : holder'[d] = holder[d] /\ leaving'[d] = leaving[d]
    BY <2>1 DEF TypeOK
  <2>3. Home(c)' /\ Writing(c)'
    BY <2>1, <2>2, IdleWrites DEF Home, Writing
  <2>4. \A d \in Clients : holder'[d] # c
    BY <1>2, <2>2, MatchAssumption
  <2> QED
    BY <2>0, <2>2, <2>3, <2>4 DEF Turn, Takes
<1>19. CASE NullCrash(c)
  <2>1. UNCHANGED <<pc, frame, holder, leaving>>
    BY <1>19 DEF NullCrash
  <2> QED
    BY <1>0, <1>2, <1>3, <2>1 DEF Home
<1> QED
  BY <1>11, <1>12, <1>13, <1>14, <1>15, <1>16, <1>17, <1>18, <1>19 DEF DataSteps

\* A list operation is not that of a logout, for none gets past the semaphore
\* the logout keeps; it takes the list's semaphore only to wait for good.
LEMMA ChangeTurn ==
    ASSUME TypeOK, Semaphores, NEW c \in Clients, NEW d, NEW old,
           NEW new, NEW found \in PCs \cup {"fail"}, NEW missing \in PCs \cup {"fail"},
           pc[c] \notin WritePCs, pc[c] # "hung", ~ leaving[c],
           found # "logout", missing # "logout",
           Change(c, d, old, new, found, missing)
    PROVE  Turn(c)
<1>0. Home(c) /\ frame[c] \in Frames
  BY DEF Semaphores, TypeOK
<1>1. /\ ~ frame[c].writes
      /\ \A e \in Clients : holder[e] = c => e = c /\ leaving[c]
  BY HasNone
<1>2. UNCHANGED leaving /\ holder[d] = NoClient
  BY DEF Change, SephFree
<1>3. ASSUME NEW step \in PCs \cup {"fail"}, step # "logout", GoOn(c, step),
             UNCHANGED holder
      PROVE  Turn(c)
  <2>1. CASE step = "fail"
    BY <1>0, <1>2, <1>3, <2>1, PlainTurn, ReturnHome, ReturnWrites DEF GoOn
  <2>2. CASE step # "fail"
    <3>1. PICK f : f = [frame[c] EXCEPT !.arg = NoInv]
      OBVIOUS
    <3>2. ~ f.writes
      BY <1>0, <1>1, <3>1 DEF Frames
    <3>3. pc'[c] = step /\ frame'[c] = f
      BY <1>3, <2>2, <3>1 DEF GoOn, Goto, TypeOK
    <3>4. Home(c)'
      BY <1>2, <1>3, <3>3 DEF Home
    <3> QED
      BY <1>2, <1>3, <3>2, <3>3, <3>4, PlainTurn
  <2> QED
    BY <2>1, <2>2
<1>4. CASE holder' = [holder EXCEPT ![d] = c] /\ Goto(c, "hung") /\ UNCHANGED frame
  <2>1. pc'[c] = "hung"
    BY <1>4 DEF Goto, TypeOK
  <2>2. Takes(c)
    BY <1>2, <1>4 DEF Takes, TypeOK
  <2>3. Home(c)' /\ Writing(c)' /\ \A e \in Clients : Reason(c, e)'
    BY <1>1, <1>2, <1>4, <2>1 DEF Home, Writing, Reason
  <2> QED
    BY <1>2, <2>2, <2>3 DEF Turn, TypeOK
<1> QED
  BY <1>3, <1>4 DEF Change

LEMMA RemoveTurn ==
    ASSUME MatchInv, Semaphores, NEW c \in Clients, RemoveSteps(c)
    PROVE  Turn(c)
<1>1. PICK d, v, found, missing :
         /\ Remove(c, d, v, found, missing)
         /\ found \in PCs \cup {"fail"} /\ missing \in PCs \cup {"fail"}
         /\ found # "logout" /\ missing # "logout"
         /\ d = c \/ pc[c] # "removeOwn"
  <2> USE DEF PCs, At
  <2>1. CASE RemoveOwn(c)
    BY <2>1 DEF RemoveOwn
  <2>2. CASE RemovePeer(c)
    BY <2>2 DEF RemovePeer
  <2>3. CASE RemoveSource(c)
    BY <2>3 DEF RemoveSource
  <2>4. CASE RemoveTarget(c)
    BY <2>4 DEF RemoveTarget
  <2> QED
    BY <2>1, <2>2, <2>3, <2>4 DEF RemoveSteps
<1>2. TypeOK /\ Home(c)
  BY DEF MatchInv, Semaphores
<1>3. pc[c] \notin WritePCs /\ pc[c] # "hung"
  BY Elsewhere
<1>4. Change(c, d, v, NoInv, found, missing)
  BY <1>1 DEF Remove
<1>5. ~ leaving[c]
  <2>1. SephFree(d)
    BY <1>4 DEF Change
  <2>2. pc[c] \in {"removeOwn", "removePeer", "removeSource", "removeTarget"}
    BY DEF RemoveSteps, RemoveOwn, RemovePeer, RemoveSource, RemoveTarget, At
  <2> QED
    BY <1>1, <1>2, <2>1, <2>2, MatchAssumption DEF Home, LogoutSteps, AskPCs, SephFree
<1> QED
  BY <1>1, <1>2, <1>3, <1>4, <1>5, ChangeTurn

LEMMA InviteTurn ==
    ASSUME MatchInv, Semaphores, NEW c \in Clients, InviteSteps(c)
    PROVE  Turn(c)
<1>0. TypeOK /\ Home(c)
  BY DEF MatchInv, Semaphores
<1>1. pc[c] \notin WritePCs /\ pc[c] # "hung"
  BY Elsewhere
<1>2. pc[c] \in {"recv", "found", "refSource", "refTarget", "addSource", "addTarget",
                "addAnyway"}
  BY DEF InviteSteps, Invite, LookupRef, RefSource, Create, AddSource, AddTarget, At
<1>3. ~ leaving[c]
  BY <1>0, <1>2 DEF Home, LogoutSteps, AskPCs
<1>4. ~ frame[c].writes
  BY <1>1, HasNone
<1>5. ASSUME NEW d, NEW found \in PCs \cup {"fail"}, NEW missing \in PCs \cup {"fail"},
             found # "logout", missing # "logout",
             Add(c, d, frame[c].inv, found, missing)
      PROVE  Turn(c)
  BY <1>0, <1>1, <1>3, <1>5, ChangeTurn DEF Add
<1>6. CASE AddSource(c) \/ AddTarget(c)
  BY <1>5, <1>6 DEF AddSource, AddTarget, PCs
<1>7. ASSUME NEW p, p # "logout", NEW f, Goto(c, p), frame' = [frame EXCEPT ![c] = f],
             ~ f.writes, UNCHANGED <<holder, leaving>>
      PROVE  Turn(c)
  <2>1. pc'[c] = p /\ frame'[c] = f
    BY <1>0, <1>7 DEF Goto, TypeOK
  <2> QED
    BY <1>0, <1>1, <1>3, <1>7, <2>1, PlainTurn DEF Home
<1>8. frame' = frame => frame' = [frame EXCEPT ![c] = frame[c]]
  BY <1>0 DEF TypeOK
<1>9. CASE Invite(c)
  <2>1. \E t, r, v : Look(c, "found", [Idle EXCEPT !.op = "invite", !.inv = v,
                                                  !.peer = t, !.role = r])
    BY <1>9 DEF Invite
  <2>2. \A t, r, v : ~ [Idle EXCEPT !.op = "invite", !.inv = v, !.peer = t,
                                   !.role = r].writes
    BY DEF Idle
  <2> QED
    BY <1>7, <2>1, <2>2 DEF Look
<1>10. CASE LookupRef(c)
  BY <1>4, <1>7, <1>10 DEF LookupRef, Look
<1>11. CASE RefSource(c)
  <2>1. CASE Refuse(c)
    BY <1>0, <1>1, <2>1, PlainTurn, ReturnHome, ReturnWrites DEF Refuse
  <2>2. CASE Look(c, "refTarget", frame[c])
    BY <1>4, <1>7, <2>2 DEF Look
  <2> QED
    BY <1>11, <2>1, <2>2 DEF RefSource
<1>12. CASE Create(c)
  BY <1>4, <1>7, <1>8, <1>12 DEF Create
<1> QED
  BY <1>6, <1>9, <1>10, <1>11, <1>12 DEF InviteSteps

\* The step that returns from a write gives back the semaphore the write kept;
\* there is no other that the thread had.
LEMMA WrittenTurn ==
    ASSUME TypeOK, Semaphores, NEW c \in Clients, pc[c] \in WritePCs,
           Written(c, Addressee(c)), ~ frame'[c].writes, Home(c)'
    PROVE  Turn(c)
<1>0. Home(c) /\ Writing(c) /\ \A d \in Clients : Held(d)
  BY DEF Semaphores
<1>1. ~ leaving[c] /\ pc[c] # "hung" /\ UNCHANGED leaving
  BY <1>0 DEF Home, LogoutSteps, AskPCs, WritePCs, Written
<1>2. \A d \in Clients : holder[d] = c => frame[c].writes /\ d = Addressee(c)
  BY <1>0, <1>1 DEF Held, Reason
<1>3. \A d \in Clients : holder'[d] # c
  BY <1>2, MatchAssumption DEF Written, TypeOK
<1>4. Takes(c)
  BY <1>0 DEF Takes, Writing, Written, TypeOK
<1> QED
  BY <1>1, <1>3, <1>4 DEF Turn, Writing, TypeOK

LEMMA WriteTurn ==
    ASSUME TypeOK, Semaphores, NEW c \in Clients, WriteSteps(c)
    PROVE  Turn(c)
<1>0. Home(c) /\ Writing(c) /\ frame[c] \in Frames
  BY DEF Semaphores, TypeOK
<1>1. pc[c] \in WritePCs
  BY DEF WriteSteps, Answer, Notify, TellSource, TellTarget, Block, At, WritePCs
<1>2. ~ leaving[c]
  BY <1>0, <1>1 DEF Home, LogoutSteps, AskPCs, WritePCs
<1>3. ASSUME Written(c, Addressee(c)), NEW ok \in BOOLEAN, Return(c, ok)
      PROVE  Turn(c)
  <2>1. ~ frame'[c].writes
    BY <1>3, ReturnWrites
  <2>2. pc'[c] \in {"ack", "nack"}
    BY <1>2, <1>3 DEF Return, Goto, TypeOK
  <2>3. ~ leaving'[c]
    BY <1>2, <1>3 DEF Written
  <2> QED
    BY <1>1, <1>3, <2>1, <2>2, <2>3, WrittenTurn DEF Home
<1>4. ASSUME Written(c, Addressee(c)), NEW p, p # "logout", NEW f, Goto(c, p),
             frame' = [frame EXCEPT ![c] = f], ~ f.writes
      PROVE  Turn(c)
  <2>1. pc'[c] = p /\ frame'[c] = f /\ ~ leaving'[c]
    BY <1>2, <1>4 DEF Goto, TypeOK, Written
  <2> QED
    BY <1>1, <1>4, <2>1, WrittenTurn DEF Home
<1>5. CASE Answer(c)
  BY <1>4, <1>5, IdleWrites DEF Answer, Addressee, At
<1>6. CASE Notify(c)
  BY <1>3, <1>6 DEF Notify, Addressee, At, Delivered
<1>7. CASE TellSource(c)
  <2>1. Written(c, Addressee(c))
    BY <1>7 DEF TellSource, Addressee, At
  <2>2. PICK f : f = [frame[c] EXCEPT !.peer = NoClient, !.writes = FALSE]
    OBVIOUS
  <2>3. ~ f.writes
    BY <1>0, <2>2 DEF Frames
  <2>4. [frame EXCEPT ![c].peer = NoClient, ![c].writes = FALSE]
            = [frame EXCEPT ![c] = f]
    BY <1>0, <2>2 DEF TypeOK, Frames
  <2>5. \/ Return(c, FALSE)
        \/ Goto(c, "targetArg") /\ frame' = [frame EXCEPT ![c] = f]
    BY <1>7, <2>4 DEF TellSource, Delivered
  <2> QED
    BY <1>3, <1>4, <2>1, <2>3, <2>5
<1>8. CASE TellTarget(c)
  <2>1. Written(c, Addressee(c))
    BY <1>8 DEF TellTarget, Addressee, At
  <2>2. \/ Return(c, FALSE)
        \/ Goto(c, "recv") /\ frame' = [frame EXCEPT ![c] = Idle]
    BY <1>8 DEF TellTarget, Delivered
  <2> QED
    BY <1>3, <1>4, <2>1, <2>2, IdleWrites
<1>9. CASE Block(c)
  <2>0. PICK d \in Clients : d = Addressee(c)
    BY <1>9, MatchAssumption DEF Block, MayBlock
  <2>1. /\ holder[d] = NoClient /\ holder' = [holder EXCEPT ![d] = c]
        /\ UNCHANGED <<pc, leaving>>
    BY <1>9, <2>0 DEF Block, MayBlock, SephFree
  <2>2. PICK f : f = [frame[c] EXCEPT !.writes = TRUE]
    OBVIOUS
  <2>3. f.writes /\ f.peer = frame[c].peer /\ f.target = frame[c].target
    BY <1>0, <2>2 DEF Frames
  <2>4. frame'[c] = f
    BY <1>9, <2>2 DEF Block, MayBlock, TypeOK
  <2>5. Addressee(c)' = d
    BY <2>0, <2>1, <2>3, <2>4 DEF Addressee
  <2>6. holder'[d] = c /\ Takes(c)
    BY <2>1 DEF TypeOK, Takes
  <2>7. Home(c)' /\ Writing(c)'
    BY <1>0, <1>1, <1>2, <2>1, <2>5, <2>6 DEF Home, Writing
  <2>8. ASSUME NEW e \in Clients, holder'[e] = c PROVE Reason(c, e)'
    <3>1. CASE e = d
      BY <2>3, <2>4, <2>5, <3>1 DEF Reason
    <3>2. CASE e # d
      <4>1. holder[e] = c
        BY <2>1, <2>8, <3>2 DEF TypeOK
      <4>2. frame[c].writes /\ e = Addressee(c)
        BY <1>1, <1>2, <4>1 DEF Semaphores, Held, Reason, WritePCs
      <4> QED
        BY <2>0, <3>2, <4>2
    <3> QED
      BY <3>1, <3>2
  <2> QED
    BY <1>2, <2>1, <2>6, <2>7, <2>8 DEF Turn, TypeOK
<1> QED
  BY <1>5, <1>6, <1>7, <1>8, <1>9 DEF WriteSteps

-----------------------------------------------------------------------------
\* Whoever keeps a semaphore has a reason, at every step.
LEMMA SemaphoresKept == MatchInv /\ Semaphores /\ [Next]_vars => Semaphores'
<1> SUFFICES ASSUME MatchInv, Semaphores, [Next]_vars PROVE Semaphores'
  OBVIOUS
<1>1. TypeOK /\ FramesSound
  BY DEF MatchInv
<1>2. ASSUME NEW c \in Clients,
             Receive(c) \/ Invite(c) \/ Hangup(c) \/ Block(c) \/ Serve(c)
      PROVE  Semaphores'
  <2>1. Threads(c)
    BY <1>1, <1>2, ThreadStep
  <2>2. Turn(c)
    BY <1>1, <1>2, AllSteps, LookTurn, WriteTurn, RemoveTurn, DataTurn, InviteTurn
  <2> QED
    BY <1>1, <2>1, <2>2, TurnKeeps
<1>3. CASE UNCHANGED vars
  BY <1>3 DEF vars, Semaphores, Home, Writing, Held, Reason, Addressee
<1> QED
  BY <1>2, <1>3 DEF Next

\* Only client_logout blocks itself; no threads block each other in a circle.
THEOREM OnlyLogoutsWaitInACircle == Spec => []CirclesAreLogouts
<1>1. Init => Semaphores
  BY MatchAssumption, IdleWrites DEF Init, Semaphores, Home, Writing, Held
<1>2. Semaphores => CirclesAreLogouts
  <2>1. SUFFICES ASSUME Semaphores, NEW S \in SUBSET Clients, NEW c \in S,
                        \A a \in S : \E e \in S : WaitsFor(a, e)
                 PROVE  \E e \in S : leaving[e] /\ pc[e] = "removeOwn"
    BY DEF CirclesAreLogouts
  <2>2. PICK e \in S : WaitsFor(c, e)
    BY <2>1
  <2>3. PICK d \in Clients : holder[d] = e
    BY <2>2 DEF WaitsFor
  <2>4. PICK a \in Clients : Calls(e, a)
    BY <2>1 DEF WaitsFor
  <2>5. Reason(e, d)
    BY <2>1, <2>3 DEF Semaphores, Held
  <2>6. leaving[e]
    BY <2>1, <2>4, <2>5 DEF Reason, Calls, WritePCs, Semaphores, Writing
  <2> QED
    BY <2>1, <2>4, <2>6 DEF Semaphores, Home, LogoutSteps, AskPCs, Calls, WritePCs
<1> QED
  BY <1>1, <1>2, SemaphoresKept, MatchInvariant, PTL DEF Spec
=============================================================================
