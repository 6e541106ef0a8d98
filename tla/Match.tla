-------------------------------- MODULE Match -------------------------------
(***************************************************************************)
(* The invitations and games of the clients that are logged in: the part   *)
(* of src/client.c, src/invitation.c and src/server.c in which the service *)
(* threads meet.                                                           *)
(*                                                                         *)
(* Every client has one service thread (jeux_client_service) that takes    *)
(* one request at a time from its connection and answers it.  A request    *)
(* works on listOfInv, the client's own list of invitations, on that of    *)
(* the opponent, and on the INVITATION and GAME both point to.  A thread   *)
(* names an invitation by its slot in the list and reads that slot again   *)
(* for every call it makes.  One step here is one such read with the call  *)
(* it is the argument of, or one wait for a semaphore; between two steps   *)
(* every other thread may run, and may have emptied or refilled the slot.  *)
(* A call that does not wait after its read is part of the step.           *)
(*                                                                         *)
(* A GAME is a value of GameStates.                                        *)
(***************************************************************************)
EXTENDS GameStates, Integers, FiniteSets

CONSTANTS
    Clients,      \* the clients that are logged in
    NoClient,     \* NULL as a CLIENT*
    Leavers,      \* those that may close their connection
    Deaf,         \* those that may stop reading what they are sent
    Invs,         \* the invitations that can ever be made (a bound)
    NoInv,        \* NULL in a listOfInv
    MaxClients,   \* MAX_CLIENTS, the length of listOfInv
    TargetRoles,  \* what an INVITE packet may carry as its role (a uint8_t)
    LineWinners,  \* whom a complete line may be credited to (a bound: no
                  \* step of this module depends on who the winner is)
    MaxPosts      \* how far the results posted for a game are counted (a
                  \* bound on posts, on which no step depends either)

Bytes == 0 .. 255

ASSUME MatchAssumption ==
    /\ IsFiniteSet(Clients)
    /\ NoClient \notin Clients
    /\ Leavers \subseteq Clients
    /\ Deaf \subseteq Clients
    /\ NoInv \notin Invs
    /\ MaxClients \in Nat \ {0}
    /\ TargetRoles \subseteq Bytes
    /\ LineWinners \subseteq Roles \cup {NullRole}
    /\ MaxPosts \in Nat \ {0}

Slots  == 0 .. (MaxClients - 1)
NoSlot == -1
NoGame == [turn |-> NullRole, over |-> FALSE, winner |-> NullRole, seph |-> 0]
States == {"NONE", "OPEN", "ACCEPTED", "CLOSED"}

VARIABLES
    listOfInv,  \* per client and slot: an invitation or NoInv
    inv,        \* the INVITATION records (state NONE: not created yet)
    game,       \* gameRef of every invitation, NoGame if NULL
    pc,         \* per client: the step its service thread is at
    frame,      \* per client: the locals of the request being served
    holder,     \* per client: who has its semaphore from one step to another
    leaving,    \* per client: client_logout runs
    posts,      \* history: results posted for the game of an invitation
    crashed     \* a thread has dereferenced NULL: the process is gone

vars == <<listOfInv, inv, game, pc, frame, holder, leaving, posts, crashed>>

(***************************************************************************)
(* The locals of a request: its kind, the slot it names, the opponent as   *)
(* read from the slot (otherC, ct, source), the target (of an ended game), *)
(* the client's role, the argument read for a list operation, the index of *)
(* a scan, and whether a write to the peer is under way.  inv is a history *)
(* variable, the invitation that was in the slot when the request came;    *)
(* aim is the one whose game a move, or an accept, has got hold of, and in *)
(* a resignation, as history, the one read last before its post.           *)
(***************************************************************************)
Idle == [op |-> "none", id |-> NoSlot, inv |-> NoInv, aim |-> NoInv,
         peer |-> NoClient, target |-> NoClient, role |-> NullRole,
         arg |-> NoInv, i |-> 0, writes |-> FALSE]

Requests == {"revoke", "accept", "decline", "resign", "move"}

NotMade == [state |-> "NONE", source |-> NoClient, target |-> NoClient,
            targetR |-> NullRole, ref |-> 0, seph |-> 1]

Init == /\ listOfInv = [c \in Clients |-> [i \in Slots |-> NoInv]]
        /\ inv       = [v \in Invs |-> NotMade]
        /\ game      = [v \in Invs |-> NoGame]
        /\ pc        = [c \in Clients |-> "recv"]
        /\ frame     = [c \in Clients |-> Idle]
        /\ holder    = [c \in Clients |-> NoClient]
        /\ leaving   = [c \in Clients |-> FALSE]
        /\ posts     = [v \in Invs |-> 0]
        /\ crashed   = FALSE

-----------------------------------------------------------------------------
(***************************************************************************)
(* Definitions marked "Slip" are the definition that follows them with a   *)
(* plausible mistake in it.  Nothing uses them: they show which property   *)
(* such a mistake would break.                                             *)
(***************************************************************************)

\* What the slot a request names holds now.
Cur(c) == listOfInv[c][frame[c].id]

\* inv_get_source_role, inv_get_target_role.  server.c passes the role of the
\* packet on as the target's, whatever it is.
SourceRole(v) == IF inv[v].targetR = 1 THEN 2 ELSE 1

\* A semaphore that is taken and posted within a step is free between steps.
SephFree(d) == holder[d] = NoClient
InvFree(v)  == inv[v].seph = 1

\* inv_get_target
TargetOf(v) == inv[v].target

At(c, step) == ~ crashed /\ pc[c] = step

Goto(c, step) == pc' = [pc EXCEPT ![c] = step]

\* The slot is read, it is not empty, and the getter that is called with what
\* it holds gets the semaphore of the invitation.
Reads(c, step) == At(c, step) /\ Cur(c) # NoInv /\ InvFree(Cur(c))

\* Return to the caller of the request: the dispatch loop, which answers, or
\* client_logout, which goes on to the next slot.
Return(c, ok) ==
    IF leaving[c]
    THEN /\ Goto(c, "logout")
         /\ frame' = [frame EXCEPT ![c] = [Idle EXCEPT !.id = frame[c].id]]
    ELSE /\ Goto(c, IF ok THEN "ack" ELSE "nack")
         /\ frame' = [frame EXCEPT ![c] =
                IF ok THEN [Idle EXCEPT !.op = frame[c].op, !.id = frame[c].id,
                                        !.inv = frame[c].inv]
                      ELSE Idle]

\* A step that changes nothing but the thread and its locals: it goes on...
Look(c, step, locals) ==
    /\ Goto(c, step)
    /\ frame' = [frame EXCEPT ![c] = locals]
    /\ UNCHANGED <<listOfInv, inv, game, holder, leaving, posts, crashed>>

\* ...or the request fails.
Refuse(c) ==
    /\ Return(c, FALSE)
    /\ UNCHANGED <<listOfInv, inv, game, holder, leaving, posts, crashed>>

\* Go on to a step, or fail, after a list operation.
GoOn(c, step) ==
    IF step = "fail" THEN Return(c, FALSE)
                     ELSE /\ Goto(c, step)
                          /\ frame' = [frame EXCEPT ![c].arg = NoInv]

-----------------------------------------------------------------------------
(***************************************************************************)
(* client_add_invitation and client_remove_invitation.  With the semaphore *)
(* of d taken, the first slot that holds old is overwritten by new, and    *)
(* inv_ref counts a reference, be the invitation added or removed.  A NULL *)
(* is "removed" from a free slot and not counted.  If inv_ref never gets   *)
(* the semaphore of the invitation, nor does d's ever come back.           *)
(***************************************************************************)
FirstSlot(l, v) ==
    IF \E i \in Slots : l[i] = v
    THEN CHOOSE i \in Slots : l[i] = v /\ \A k \in Slots : l[k] = v => i <= k
    ELSE NoSlot

Overwrite(l, old, new) ==
    IF FirstSlot(l, old) = NoSlot THEN l
                                  ELSE [l EXCEPT ![FirstSlot(l, old)] = new]

\* Slip: a list entry is made without counting the reference.
RefForgotten(v) == inv

\* inv_ref
RefAfter(v) == IF v = NoInv THEN inv ELSE [inv EXCEPT ![v].ref = @ + 1]

InList(d, v) == \E i \in Slots : listOfInv[d][i] = v

Change(c, d, old, new, found, missing) ==
    LET v == IF old = NoInv THEN new ELSE old
    IN  /\ SephFree(d)
        /\ listOfInv' = [listOfInv EXCEPT ![d] = Overwrite(@, old, new)]
        /\ \/ /\ ~ InList(d, old)
              /\ GoOn(c, missing)
              /\ UNCHANGED <<inv, holder>>
           \/ /\ InList(d, old)
              /\ v # NoInv => InvFree(v)
              /\ inv' = RefAfter(v)
              /\ GoOn(c, found)
              /\ UNCHANGED holder
           \/ /\ InList(d, old)
              /\ v # NoInv /\ ~ InvFree(v)
              /\ holder' = [holder EXCEPT ![d] = c]
              /\ Goto(c, "hung")
              /\ UNCHANGED <<inv, frame>>
        /\ UNCHANGED <<game, leaving, posts, crashed>>

Add(c, d, v, found, missing)    == Change(c, d, NoInv, v, found, missing)
Remove(c, d, v, found, missing) == Change(c, d, v, NoInv, found, missing)

\* The slot is read for the argument of a list operation, which may wait.
ReadArg(c, step) == Look(c, step, [frame[c] EXCEPT !.arg = Cur(c)])

-----------------------------------------------------------------------------
(***************************************************************************)
(* client_send_packet, client_send_ack and client_send_nack to d.  With    *)
(* the semaphore of d taken the packet is written.  That may fail when d's *)
(* connection may be down, and may block, the semaphore taken, while d     *)
(* does not read.                                                          *)
(***************************************************************************)
Delivered(d) == IF d \in Leavers THEN BOOLEAN ELSE {TRUE}

MayBlock(c, d) ==
    /\ d \in Deaf
    /\ SephFree(d)
    /\ holder' = [holder EXCEPT ![d] = c]
    /\ frame' = [frame EXCEPT ![c].writes = TRUE]
    /\ UNCHANGED <<listOfInv, inv, game, pc, leaving, posts, crashed>>

\* The write returns, at once or when d reads again.
Written(c, d) ==
    /\ IF frame[c].writes THEN holder' = [holder EXCEPT ![d] = NoClient]
                          ELSE SephFree(d) /\ UNCHANGED holder
    /\ UNCHANGED <<listOfInv, inv, game, leaving, posts, crashed>>

-----------------------------------------------------------------------------
(***************************************************************************)
(* proto_recv_packet returns a request on a slot; every handler begins by  *)
(* refusing a slot that is empty.                                          *)
(***************************************************************************)
Receive(c) ==
    /\ At(c, "recv")
    /\ \E op \in Requests, i \in Slots :
          LET v == listOfInv[c][i]
          IN  IF v = NoInv
              THEN Look(c, "nack", Idle)
              ELSE Look(c, IF op = "resign" THEN "who" ELSE op,
                        [Idle EXCEPT !.op = op, !.id = i, !.inv = v])

\* client_send_ack, client_send_nack and the next proto_recv_packet.
Answer(c) ==
    /\ At(c, "ack") \/ At(c, "nack")
    /\ Written(c, c)
    /\ Goto(c, "recv")
    /\ frame' = [frame EXCEPT ![c] = Idle]

-----------------------------------------------------------------------------
(***************************************************************************)
(* INVITE: creg_lookup finds a client that is logged in, and counts a      *)
(* reference to it; inv_create counts one to both and makes the            *)
(* invitation, unless a client invites himself.                            *)
(***************************************************************************)
Invite(c) ==
    /\ At(c, "recv")
    /\ \E t \in Clients, r \in TargetRoles, v \in Invs :
          /\ pc[t] # "gone"
          /\ inv[v].state = "NONE"
          /\ \A d \in Clients : frame[d].inv # v
          /\ Look(c, "found", [Idle EXCEPT !.op = "invite", !.inv = v,
                                         !.peer = t, !.role = r])

LookupRef(c) == /\ At(c, "found")
                /\ SephFree(frame[c].peer)
                /\ Look(c, "refSource", frame[c])

\* Slip: a client can invite himself.
RefSourceSelf(c) == /\ At(c, "refSource")
                    /\ SephFree(c)
                    /\ Look(c, "refTarget", frame[c])

RefSource(c) == /\ At(c, "refSource")
                /\ IF frame[c].peer = c
                   THEN Refuse(c)
                   ELSE SephFree(c) /\ Look(c, "refTarget", frame[c])

Create(c) ==
    /\ At(c, "refTarget")
    /\ SephFree(frame[c].peer)
    /\ inv' = [inv EXCEPT ![frame[c].inv] =
                  [state |-> "OPEN", source |-> c, target |-> frame[c].peer,
                   targetR |-> frame[c].role, ref |-> 1, seph |-> 1]]
    /\ Goto(c, "addSource")
    /\ UNCHANGED <<listOfInv, game, frame, holder, leaving, posts, crashed>>

\* The invitation is added to the source's list and then to the target's.
\* That the first was full does not stop the request before the second.
AddSource(c) == /\ At(c, "addSource")
                /\ Add(c, c, frame[c].inv, "addTarget", "addAnyway")

AddTarget(c) ==
    \E step \in {"addTarget", "addAnyway"} :
       /\ At(c, step)
       /\ Add(c, frame[c].peer, frame[c].inv,
              IF step = "addTarget" THEN "notify" ELSE "fail", "fail")

-----------------------------------------------------------------------------
(***************************************************************************)
(* inv_close(v, role): refused when closed, and without a role when there  *)
(* is a game; otherwise closed, the game, if any, resigned.                *)
(***************************************************************************)
\* Slip: an invitation with a game can be closed without a role.
ClosableWithGame(v, role) == inv[v].state # "CLOSED"

Closable(v, role) ==
    /\ inv[v].state # "CLOSED"
    /\ role = NullRole => game[v] = NoGame

\* Slip: the game is not resigned.
CloseInvitationOnly(v) ==
    /\ inv' = [inv EXCEPT ![v].state = "CLOSED"]
    /\ UNCHANGED game

Close(v) ==
    /\ inv' = [inv EXCEPT ![v].state = "CLOSED"]
    /\ game' = [game EXCEPT ![v] =
                   IF @ = NoGame THEN @ ELSE AfterResign(@)]

\* inv_get_source, which knows a NULL and takes no semaphore.
SourceOf(v) == IF v = NoInv THEN NoClient ELSE inv[v].source

\* client_revoke_invitation closes first...
RevokeClose(c) ==
    /\ Reads(c, "revoke")
    /\ IF Closable(Cur(c), NullRole)
       THEN Close(Cur(c)) /\ Goto(c, "revokeSource") /\ UNCHANGED frame
       ELSE Return(c, FALSE) /\ UNCHANGED <<inv, game>>
    /\ UNCHANGED <<listOfInv, holder, leaving, posts, crashed>>

\* ...and then asks whose the invitation is.
RevokeSource(c) == /\ At(c, "revokeSource")
                   /\ IF SourceOf(Cur(c)) = c
                      THEN Look(c, "revokeTarget", frame[c])
                      ELSE Refuse(c)

RevokeTarget(c) ==
    /\ Reads(c, "revokeTarget")
    /\ Look(c, "ownArg", [frame[c] EXCEPT !.peer = TargetOf(Cur(c))])

\* client_decline_invitation closes nothing.
DeclineSource(c) ==
    /\ At(c, "decline")
    /\ Look(c, "declineTarget", [frame[c] EXCEPT !.peer = SourceOf(Cur(c))])

DeclineTarget(c) == /\ Reads(c, "declineTarget")
                    /\ IF TargetOf(Cur(c)) = c
                       THEN Look(c, "ownArg", frame[c])
                       ELSE Refuse(c)

-----------------------------------------------------------------------------
(***************************************************************************)
(* client_resign_game and client_make_move ask, in the same way and with a *)
(* read of the slot each time, whether the client is the target, who the   *)
(* opponent is and what the client's role is.                              *)
(***************************************************************************)
Who(c) ==
    /\ Reads(c, "who")
    /\ Look(c, IF TargetOf(Cur(c)) = c THEN "source" ELSE "sourceRole", frame[c])

\* What is read last names, in a resignation, the game that is resigned.
Aimed(c) == IF frame[c].op = "move" THEN frame[c].aim ELSE Cur(c)
AfterWho(c) == IF frame[c].op = "move" THEN "parse" ELSE "post"

TargetsOpponent(c) ==
    /\ At(c, "source")
    /\ Look(c, "targetRole", [frame[c] EXCEPT !.peer = SourceOf(Cur(c))])

TargetsRole(c) ==
    /\ Reads(c, "targetRole")
    /\ Look(c, AfterWho(c), [frame[c] EXCEPT !.role = inv[Cur(c)].targetR,
                                            !.aim = Aimed(c)])

SourcesRole(c) ==
    /\ Reads(c, "sourceRole")
    /\ Look(c, "target", [frame[c] EXCEPT !.role = SourceRole(Cur(c))])

SourcesOpponent(c) ==
    /\ Reads(c, "target")
    /\ Look(c, AfterWho(c), [frame[c] EXCEPT !.peer = TargetOf(Cur(c)),
                                            !.aim = Aimed(c)])

-----------------------------------------------------------------------------
\* player_post_result ignores a player that is NULL, as that of no client or
\* of one that has logged out is.
PostFor(v, players) ==
    posts' = IF \/ posts[v] = MaxPosts
                \/ \E d \in players : d = NoClient \/ pc[d] = "gone"
             THEN posts
             ELSE [posts EXCEPT ![v] = @ + 1]

\* client_resign_game posts the result...
ResignPost(c) ==
    /\ At(c, "post")
    /\ PostFor(frame[c].aim, {frame[c].peer})
    /\ Goto(c, "close")
    /\ UNCHANGED <<listOfInv, inv, game, frame, holder, leaving, crashed>>

Unaimed(c) == [frame[c] EXCEPT !.aim = NoInv, !.role = NullRole]

\* Slip: the game is not resigned, nor the invitation closed.
ResignWithoutClose(c) == /\ Reads(c, "close")
                         /\ Look(c, "ownArg", Unaimed(c))

(***************************************************************************)
(* ...and closes what the slot holds, whether inv_close agrees or not.     *)
(* inv_close keeps the invitation's semaphore while game_resign waits for  *)
(* that of the game.                                                       *)
(***************************************************************************)
ResignClose(c) ==
    LET v     == Cur(c)
        stuck == game[v] # NoGame /\ game[v].seph = 0
    IN  /\ Reads(c, "close")
        /\ \/ /\ ~ Closable(v, frame[c].role)
              /\ Goto(c, "ownArg")
              /\ UNCHANGED <<inv, game>>
           \/ /\ Closable(v, frame[c].role) /\ ~ stuck
              /\ Goto(c, "ownArg")
              /\ Close(v)
           \/ /\ Closable(v, frame[c].role) /\ stuck
              /\ Goto(c, "hung")
              /\ inv' = [inv EXCEPT ![v].seph = 0]
              /\ UNCHANGED game
        /\ frame' = [frame EXCEPT ![c] = Unaimed(c)]
        /\ UNCHANGED <<listOfInv, holder, leaving, posts, crashed>>

-----------------------------------------------------------------------------
(***************************************************************************)
(* The end of a revoke, a decline and a resignation.  What the slot holds  *)
(* is removed from the list of the client...                               *)
(***************************************************************************)
ReadOwn(c) == At(c, "ownArg") /\ ReadArg(c, "removeOwn")

RemoveOwn(c) == /\ At(c, "removeOwn")
                /\ Remove(c, c, frame[c].arg, "peerArg", "fail")

\* ...what the slot holds now from that of the opponent, if there is one...
ReadPeers(c) == /\ At(c, "peerArg")
                /\ IF frame[c].peer = NoClient THEN Refuse(c)
                                               ELSE ReadArg(c, "removePeer")

RemovePeer(c) == /\ At(c, "removePeer")
                 /\ Remove(c, frame[c].peer, frame[c].arg, "notify", "fail")

\* ...and INVITED, REVOKED, DECLINED, RESIGNED, ACCEPTED or MOVED goes to him.
Notify(c) ==
    /\ At(c, "notify")
    /\ Written(c, frame[c].peer)
    /\ \E ok \in Delivered(frame[c].peer) : Return(c, ok)

-----------------------------------------------------------------------------
\* Slip: an invitation can be accepted again.
AcceptableTwice(v) == inv[v].state # "CLOSED"

\* inv_accept
Acceptable(v) == inv[v].state = "OPEN"

\* client_accept_invitation accepts first, whoever the client is...
Accept(c) ==
    LET v == Cur(c)
    IN  /\ Reads(c, "accept")
        /\ IF Acceptable(v)
           THEN /\ inv' = [inv EXCEPT ![v].state = "ACCEPTED"]
                /\ game' = [game EXCEPT ![v] = NewGame]
                /\ Goto(c, "acceptSource")
                /\ UNCHANGED frame
           ELSE Return(c, FALSE) /\ UNCHANGED <<inv, game>>
        /\ UNCHANGED <<listOfInv, holder, leaving, posts, crashed>>

\* ...then refuses the source...
AcceptSource(c) ==
    LET d == SourceOf(Cur(c))
    IN  /\ At(c, "acceptSource")
        /\ IF d = c THEN Refuse(c)
                    ELSE Look(c, "scan", [frame[c] EXCEPT !.peer = d])

(***************************************************************************)
(* ...and looks for the invitation in the opponent's list.  So does a move *)
(* that has not ended the game.  The condition of the loop reads a slot of *)
(* the opponent and the client's own every time, without a semaphore; both *)
(* may be empty, and equal.                                                *)
(***************************************************************************)
Scan(c) ==
    LET d == frame[c].peer
        i == frame[c].i
    IN  /\ At(c, "scan")
        /\ d # NoClient
        /\ IF listOfInv[d][i] = Cur(c)
           THEN Look(c, IF frame[c].op = "accept" THEN "acceptGame" ELSE "state",
                     [frame[c] EXCEPT !.i = 0])
           ELSE IF i + 1 \in Slots
                THEN Look(c, "scan", [frame[c] EXCEPT !.i = i + 1])
                ELSE Refuse(c)

\* Two more looks at the slot: for the game that game_unparse_state is to
\* print, and for the role that decides who gets it.
AcceptGame(c) ==
    /\ Reads(c, "acceptGame")
    /\ Look(c, "acceptState", [frame[c] EXCEPT !.aim = Cur(c)])

\* game_unparse_state of the game a request has got hold of.
Unparse(c, step) ==
    /\ game[frame[c].aim] # NoGame
    /\ game[frame[c].aim].seph = 1
    /\ Look(c, step, [frame[c] EXCEPT !.aim = NoInv])

AcceptState(c) == At(c, "acceptState") /\ Unparse(c, "acceptRole")

AcceptRole(c) == Reads(c, "acceptRole") /\ Look(c, "notify", frame[c])

-----------------------------------------------------------------------------
\* client_make_move gets hold of the game; then it asks who is who.
MoveGame(c) ==
    /\ Reads(c, "move")
    /\ IF game[Cur(c)] = NoGame
       THEN Refuse(c)
       ELSE Look(c, "who", [frame[c] EXCEPT !.aim = Cur(c)])

\* game_parse_move: nothing is a move of NULL_ROLE, and some strings are none.
MoveParse(c) ==
    /\ At(c, "parse")
    /\ frame[c].role # NullRole => game[frame[c].aim].seph = 1
    /\ \/ Refuse(c)
       \/ frame[c].role # NullRole /\ Look(c, "apply", frame[c])

\* game_apply_move: off turn, a legal move, or a misplay.
MoveApply(c) ==
    LET v == frame[c].aim
        g == game[v]
    IN  /\ At(c, "apply")
        /\ g.seph = 1
        /\ \/ /\ g.turn # frame[c].role
              /\ Return(c, FALSE)
              /\ UNCHANGED game
           \/ /\ g.turn = frame[c].role
              /\ \E h \in AfterMove(g) :
                    /\ h.winner \in LineWinners \cup {g.winner}
                    /\ game' = [game EXCEPT ![v] = h]
              /\ frame' = [frame EXCEPT ![c].role = NullRole]
              /\ Goto(c, "moved")
           \/ /\ g.turn = frame[c].role
              /\ game' = [game EXCEPT ![v] = AfterMisplay(g)]
              /\ Return(c, FALSE)
        /\ UNCHANGED <<listOfInv, inv, holder, leaving, posts, crashed>>

\* game_is_over reads the game without its semaphore.  Not over: the slot is
\* looked up in the opponent's list for MOVED, which carries the state.
Moved(c) ==
    /\ At(c, "moved")
    /\ IF game[frame[c].aim].over
       THEN Look(c, "endSource", [frame[c] EXCEPT !.peer = NoClient])
       ELSE Look(c, "scan", frame[c])

MoveState(c) == At(c, "state") /\ Unparse(c, "notify")

\* Over: source, target and role are read from the slot...
EndSource(c) ==
    /\ At(c, "endSource")
    /\ Look(c, "endTarget", [frame[c] EXCEPT !.peer = SourceOf(Cur(c))])

EndTarget(c) ==
    /\ Reads(c, "endTarget")
    /\ Look(c, "endRole", [frame[c] EXCEPT !.target = TargetOf(Cur(c))])

EndRole(c) == Reads(c, "endRole") /\ Look(c, "endPost", frame[c])

\* ...the result is posted...
EndPost(c) ==
    /\ At(c, "endPost")
    /\ PostFor(frame[c].aim, {frame[c].peer, frame[c].target})
    /\ frame' = [frame EXCEPT ![c].aim = NoInv]
    /\ Goto(c, "sourceArg")
    /\ UNCHANGED <<listOfInv, inv, game, holder, leaving, crashed>>

\* ...what the slot holds is removed from the list of the source, if any...
ReadSources(c) == /\ At(c, "sourceArg")
                  /\ IF frame[c].peer = NoClient THEN Refuse(c)
                                                 ELSE ReadArg(c, "removeSource")

RemoveSource(c) == /\ At(c, "removeSource")
                   /\ Remove(c, frame[c].peer, frame[c].arg, "tellSource", "fail")

\* ...the source is sent ENDED...
TellSource(c) ==
    /\ At(c, "tellSource")
    /\ Written(c, frame[c].peer)
    /\ \E ok \in Delivered(frame[c].peer) :
          IF ok THEN /\ Goto(c, "targetArg")
                     /\ frame' = [frame EXCEPT ![c].peer = NoClient,
                                               ![c].writes = FALSE]
                ELSE Return(c, FALSE)

\* ...what the slot holds now is removed from the list of the target...
ReadTargets(c) == At(c, "targetArg") /\ ReadArg(c, "removeTarget")

RemoveTarget(c) ==
    /\ At(c, "removeTarget")
    /\ Remove(c, frame[c].target, frame[c].arg, "tellTarget", "tellTarget")

\* ...and the target is sent ENDED.  The server sends no answer to a move
\* that returns 0: only client_make_move's path for MOVED does.
TellTarget(c) ==
    /\ At(c, "tellTarget")
    /\ Written(c, frame[c].target)
    /\ \E ok \in Delivered(frame[c].target) :
          IF ok THEN Goto(c, "recv") /\ frame' = [frame EXCEPT ![c] = Idle]
                ELSE Return(c, FALSE)

-----------------------------------------------------------------------------
(***************************************************************************)
(* The connection is closed: client_logout takes the client's semaphore    *)
(* and keeps it while it calls client_resign_game or                       *)
(* client_revoke_invitation for every slot that is not empty.  Its own     *)
(* list cannot change meanwhile, so that the reads of a slot up to the     *)
(* callee's first test are one step.                                       *)
(***************************************************************************)
Hangup(c) == /\ At(c, "recv")
             /\ c \in Leavers
             /\ Look(c, "eof", frame[c])

Logout(c) ==
    /\ At(c, "eof")
    /\ SephFree(c)
    /\ holder' = [holder EXCEPT ![c] = c]
    /\ leaving' = [leaving EXCEPT ![c] = TRUE]
    /\ Goto(c, "logout")
    /\ UNCHANGED <<listOfInv, inv, game, frame, posts, crashed>>

LogoutSlot(c) ==
    LET i  == frame[c].id + 1
        v  == listOfInv[c][i]
    IN  /\ At(c, "logout")
        /\ i \in Slots
        /\ IF v = NoInv
           THEN Look(c, "logout", [Idle EXCEPT !.id = i])
           ELSE /\ InvFree(v)
                /\ \/ /\ game[v] = NoGame
                      /\ Look(c, "revoke",
                              [Idle EXCEPT !.op = "revoke", !.id = i, !.inv = v])
                   \/ /\ game[v] # NoGame
                      /\ Look(c, "who",
                              [Idle EXCEPT !.op = "resign", !.id = i, !.inv = v])

\* Slip: the semaphore is not posted on the way out.
LogoutKeepsSeph(c) ==
    /\ At(c, "logout")
    /\ frame[c].id + 1 \notin Slots
    /\ leaving' = [leaving EXCEPT ![c] = FALSE]
    /\ frame' = [frame EXCEPT ![c] = Idle]
    /\ Goto(c, "gone")
    /\ UNCHANGED <<listOfInv, inv, game, holder, posts, crashed>>

\* The player is dropped, the semaphore posted, the client unregistered.
LogoutDone(c) ==
    /\ At(c, "logout")
    /\ frame[c].id + 1 \notin Slots
    /\ holder' = [holder EXCEPT ![c] = NoClient]
    /\ leaving' = [leaving EXCEPT ![c] = FALSE]
    /\ frame' = [frame EXCEPT ![c] = Idle]
    /\ Goto(c, "gone")
    /\ UNCHANGED <<listOfInv, inv, game, posts, crashed>>

-----------------------------------------------------------------------------
\* The steps whose call dereferences what the thread reads from its slot.
DereferenceSteps == {"revoke", "revokeTarget", "declineTarget", "who",
                     "targetRole", "sourceRole", "target", "close", "accept",
                     "acceptGame", "acceptRole", "move", "endTarget", "endRole"}

NullArgument(c) ==
    \/ pc[c] \in DereferenceSteps /\ Cur(c) = NoInv
    \/ pc[c] = "scan" /\ frame[c].peer = NoClient
    \/ pc[c] = "acceptState" /\ game[frame[c].aim] = NoGame

NullCrash(c) ==
    /\ ~ crashed
    /\ NullArgument(c)
    /\ crashed' = TRUE
    /\ UNCHANGED <<listOfInv, inv, game, pc, frame, holder, leaving, posts>>

\* A peer stops reading, and a packet to it no longer fits.
Addressee(c) == IF pc[c] \in {"ack", "nack"} THEN c
                ELSE IF pc[c] = "tellTarget" THEN frame[c].target
                                             ELSE frame[c].peer

Block(c) ==
    /\ ~ crashed
    /\ pc[c] \in {"ack", "nack", "notify", "tellSource", "tellTarget"}
    /\ MayBlock(c, Addressee(c))

-----------------------------------------------------------------------------
Serve(c) ==
    \/ Answer(c)
    \/ LookupRef(c) \/ RefSource(c) \/ Create(c)
    \/ AddSource(c) \/ AddTarget(c)
    \/ RevokeClose(c) \/ RevokeSource(c) \/ RevokeTarget(c)
    \/ DeclineSource(c) \/ DeclineTarget(c)
    \/ Who(c) \/ TargetsOpponent(c) \/ TargetsRole(c)
    \/ SourcesRole(c) \/ SourcesOpponent(c)
    \/ ResignPost(c) \/ ResignClose(c)
    \/ ReadOwn(c) \/ RemoveOwn(c)
    \/ ReadPeers(c) \/ RemovePeer(c) \/ Notify(c)
    \/ Accept(c) \/ AcceptSource(c) \/ Scan(c)
    \/ AcceptGame(c) \/ AcceptState(c) \/ AcceptRole(c)
    \/ MoveGame(c) \/ MoveParse(c) \/ MoveApply(c) \/ Moved(c) \/ MoveState(c)
    \/ EndSource(c) \/ EndTarget(c) \/ EndRole(c) \/ EndPost(c)
    \/ ReadSources(c) \/ RemoveSource(c) \/ TellSource(c)
    \/ ReadTargets(c) \/ RemoveTarget(c) \/ TellTarget(c)
    \/ Logout(c) \/ LogoutSlot(c) \/ LogoutDone(c)
    \/ NullCrash(c)

Next == \E c \in Clients :
           Receive(c) \/ Invite(c) \/ Hangup(c) \/ Block(c) \/ Serve(c)

\* A thread that has taken a request runs on, unless its write waits for the
\* peer; clients need not send any request, nor read what they are sent.
RunsOn(c) == ~ frame[c].writes /\ Serve(c)

Spec == Init /\ [][Next]_vars /\ \A c \in Clients : WF_vars(RunsOn(c))

-----------------------------------------------------------------------------
PCs == DereferenceSteps \cup
       {"recv", "eof", "ack", "nack", "hung", "gone", "logout", "found",
        "refSource", "refTarget", "addSource", "addTarget", "addAnyway",
        "revokeSource", "decline", "source", "post", "ownArg", "removeOwn",
        "peerArg", "removePeer", "notify", "acceptSource", "scan",
        "acceptState", "parse", "apply", "moved", "state", "endSource",
        "endPost", "sourceArg", "removeSource", "tellSource", "targetArg",
        "removeTarget", "tellTarget"}

Frames == [op     : Requests \cup {"none", "invite"},
           id     : Slots \cup {NoSlot},
           inv    : Invs \cup {NoInv},
           aim    : Invs \cup {NoInv},
           peer   : Clients \cup {NoClient},
           target : Clients \cup {NoClient},
           role   : Bytes,
           arg    : Invs \cup {NoInv},
           i      : Slots,
           writes : BOOLEAN]

Invitations == [state   : States,
                source  : Clients \cup {NoClient},
                target  : Clients \cup {NoClient},
                targetR : Bytes,
                ref     : Nat,
                seph    : {0, 1}]

TypeOK == /\ listOfInv \in [Clients -> [Slots -> Invs \cup {NoInv}]]
          /\ inv \in [Invs -> Invitations]
          /\ game \in [Invs -> Games \cup {NoGame}]
          /\ pc \in [Clients -> PCs]
          /\ frame \in [Clients -> Frames]
          /\ holder \in [Clients -> Clients \cup {NoClient}]
          /\ leaving \in [Clients -> BOOLEAN]
          /\ posts \in [Invs -> Nat]
          /\ crashed \in BOOLEAN

Holders(v) == {p \in Clients \X Slots : listOfInv[p[1]][p[2]] = v}

(***************************************************************************)
(* Only the two participants of an invitation ever have it in their lists, *)
(* and each of them at most once, whatever slots are emptied and refilled  *)
(* under a request: a slot number always names one offer that is theirs.   *)
(***************************************************************************)
ListsSound ==
    \A v \in Invs, c, d \in Clients, i, k \in Slots :
        listOfInv[c][i] = v =>
            /\ inv[v].state # "NONE"
            /\ c \in {inv[v].source, inv[v].target}
            /\ c = d /\ listOfInv[d][k] = v => i = k

(***************************************************************************)
(* The reference count of an invitation is never below the number of list  *)
(* entries that point to it: nobody could free it under a client.          *)
(***************************************************************************)
RefsCoverEntries ==
    \A v \in Invs : inv[v].state # "NONE" =>
        inv[v].ref >= 1 + Cardinality(Holders(v))

(***************************************************************************)
(* An ACK tells the truth, whatever the opponent did while the request was *)
(* served.  After the ACK of a REVOKE the invitation is closed, never had  *)
(* a game and has left the client's list; after that of a RESIGN it has    *)
(* left the client's list.  An invitation that was made to the client has  *)
(* a game after the ACK of an ACCEPT, and none that goes on after that of  *)
(* a RESIGN, unless the client was invited to play role 0: inv_close takes *)
(* that for nobody's resignation, and client_resign_game does not ask.  Of *)
(* an invitation that the client has made neither can be said: the         *)
(* opponent may have emptied the slot and put another invitation in it, to *)
(* which the client's request is then applied.                             *)
(***************************************************************************)
AckMeansDone ==
    \A c \in Clients :
        LET v  == frame[c].inv
            op == frame[c].op
        IN  pc[c] = "ack" =>
            /\ op = "revoke" => inv[v].state = "CLOSED" /\ game[v] = NoGame
            /\ op \in {"revoke", "resign"} => ~ InList(c, v)
            /\ op \in {"accept", "resign"} /\ inv[v].target = c =>
                  /\ op = "accept" => game[v] # NoGame
                  /\ op = "resign" => \/ game[v] = NoGame
                                      \/ game[v].over
                                      \/ inv[v].targetR = NullRole

(***************************************************************************)
(* A result is posted only for a game that is over, that is about to be    *)
(* resigned by the very thread that posts it, or that its source no longer *)
(* lists: no game is rated while it can still be played to the end by      *)
(* both.  The two exceptions: a target in role 0 resigns without ending    *)
(* the game, and a misplayed game lets nobody end it.                      *)
(***************************************************************************)
PostedGameEnds ==
    \A v \in Invs : posts[v] > 0 =>
        \/ game[v].over
        \/ inv[v].state = "CLOSED"
        \/ \E c \in Clients : pc[c] = "close" /\ frame[c].aim = v
        \/ ~ InList(inv[v].source, v)
        \/ inv[v].targetR = NullRole
        \/ inv[v].seph = 0

\* Every invitation, with its game, is an AbstractInvitation.
Abs(v) == INSTANCE AbstractInvitation
              WITH state <- inv[v].state, game <- game[v]

(***************************************************************************)
(* Whatever the threads interleave, an open invitation has no game, an     *)
(* accepted one has one, and one that was closed after it was accepted has *)
(* one that is over.  The semaphore of an invitation is kept only by a     *)
(* resignation that waits for a game somebody has misplayed.               *)
(***************************************************************************)
GamesMatchStates ==
    \A v \in Invs :
        /\ Abs(v)!GameMatchesState
        /\ inv[v].seph = 0 => inv[v].state = "ACCEPTED" /\ game[v].seph = 0

(***************************************************************************)
(* Accept, decline, revoke, resign and move, as the threads of two clients *)
(* interleave them, take every invitation through the life of an           *)
(* AbstractInvitation: of a revoke and an accept that race only one wins.  *)
(***************************************************************************)
ImplementsInvitation ==
    /\ \A v \in Invs : Abs(v)!Init
    /\ [][\A v \in Invs : Abs(v)!Next \/ UNCHANGED <<inv[v].state, game[v]>>]_vars

(***************************************************************************)
(* Three things can keep a request, or the end of a connection, from       *)
(* coming to its end, unless a NULL slot takes the process down: a         *)
(* client_logout that waits, in client_remove_invitation, for the          *)
(* semaphore it holds; a game that was misplayed; a write to a peer that   *)
(* does not read.  Threads that wait for one another's semaphores do not   *)
(* block each other otherwise.                                             *)
(***************************************************************************)
ServedUnlessStuck ==
    \A c \in Clients :
        pc[c] # "recv" ~>
            \/ pc[c] \in {"recv", "gone"}
            \/ crashed
            \/ \E d \in Clients : \/ leaving[d] /\ pc[d] = "removeOwn"
                                  \/ frame[d].writes
            \/ \E v \in Invs : game[v] # NoGame /\ game[v].seph = 0

-----------------------------------------------------------------------------
(***************************************************************************)
(* What client.h promises and the code does not keep.                      *)
(***************************************************************************)

\* client.h:301-302: "The result of the game is posted in order to update
\* both players' ratings": a game has one result.
PostedOnce == \A v \in Invs : game[v] # NoGame => posts[v] <= 1

\* client.h:93-102: client_logout returns.
LogoutReturns == \A c \in Clients : leaving[c] ~> ~ leaving[c]
=============================================================================
