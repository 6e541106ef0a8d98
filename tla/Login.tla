-------------------------------- MODULE Login --------------------------------
(***************************************************************************)
(* Who is who: LOGIN and INVITE in src/server.c with the functions they    *)
(* call, preg_register, client_login, client_logout, creg_lookup and the   *)
(* reference counts of PLAYERs and CLIENTs.                                *)
(*                                                                         *)
(* A connection, its CLIENT and its service thread are one element of      *)
(* Conns; a PLAYER is the slot of the player registry that holds it.  A    *)
(* step is what a thread does under one semaphore or mutex, but for the    *)
(* semaphores that stay taken while others are waited for: that of the     *)
(* player registry, and that of a client in client_login and               *)
(* client_logout.  creg_lookup releases its mutex between the scan of the  *)
(* table and the client_ref of what the slot then holds.                   *)
(*                                                                         *)
(* The count and the semaphore of the client registry are in               *)
(* ClientRegistry; what client_logout does with invitations, in Match.     *)
(***************************************************************************)
EXTENDS Integers, FiniteSets, Sequences

CONSTANTS
    MaxConns,     \* a bound on the connections that are ever made
    MaxClients,   \* MAX_CLIENTS, the size of the table of clients
    Names,        \* the user names a packet may carry
    NoName,       \* an empty slot of the player registry
    Capacity,     \* the slots of the player registry, 1000 in the code
    MaxRequests   \* a bound on the requests of all connections

ASSUME LoginAssumption ==
    /\ MaxConns \in Nat
    /\ MaxClients \in Nat \ {0}
    /\ NoName \notin Names
    /\ Capacity \in Nat \ {0}
    /\ MaxRequests \in Nat

Conns    == 1 .. MaxConns       \* in the order in which they register
NoConn   == 0                   \* NULL
Slots    == 0 .. (MaxClients - 1)
NoSlot   == -1
PLAYERs  == 1 .. Capacity
NoPlayer == 0

VARIABLES
    clients,    \* the table of clients
    players,    \* the player registry: the name of the PLAYER in each slot
    reference,  \* per PLAYER
    preg,       \* the thread that holds the semaphore of the player registry
    playerRef,  \* per client
    ref,        \* per client
    seph,       \* per client: the semaphore is free
    player,     \* per thread: the local of jeux_client_service
    signedIN,   \* per thread: the local of jeux_client_service
    pc,         \* per thread: the step it is at
    frame,      \* per thread: the other locals of the request
    answers,    \* per thread: what it has sent in answer to the last LOGIN
    asked,      \* history, per thread: the name in its last LOGIN
    again,      \* history, per thread: it was logged in before its last LOGIN
    requests,   \* the number of requests taken
    named,      \* history: the clients that some invitation names
    raced,      \* history: two threads found nobody under a name, then logged in
    crashed     \* a NULL pointer was dereferenced

vars == <<clients, players, reference, preg, playerRef, ref, seph, player,
          signedIN, pc, frame, answers, asked, again, requests, named, raced,
          crashed>>

registries == <<players, reference, preg, player>>
logins     == <<playerRef, signedIN, raced>>
history    == <<named, requests>>
asking     == <<asked, again>>

\* The name in a request, the slot that a scan has found in either registry,
\* the client a lookup has returned.
Idle == [name |-> NoName, slot |-> NoSlot, peer |-> NoConn]

Init == /\ clients   = [i \in Slots |-> NoConn]
        /\ players   = [s \in PLAYERs |-> NoName]
        /\ reference = [s \in PLAYERs |-> 0]
        /\ preg      = NoConn
        /\ playerRef = [c \in Conns |-> NoPlayer]
        /\ ref       = [c \in Conns |-> 0]
        /\ seph      = [c \in Conns |-> TRUE]
        /\ player    = [c \in Conns |-> NoPlayer]
        /\ signedIN  = [c \in Conns |-> FALSE]
        /\ pc        = [c \in Conns |-> "none"]
        /\ frame     = [c \in Conns |-> Idle]
        /\ answers   = [c \in Conns |-> <<>>]
        /\ asked     = [c \in Conns |-> NoName]
        /\ again     = [c \in Conns |-> FALSE]
        /\ requests  = 0
        /\ named     = {}
        /\ raced     = FALSE
        /\ crashed   = FALSE

-----------------------------------------------------------------------------
(***************************************************************************)
(* As elsewhere, a "Slip" is the definition that follows it with a         *)
(* plausible mistake in it; nothing uses it.                               *)
(***************************************************************************)

At(c, step) == ~ crashed /\ pc[c] = step

Goto(c, step) == pc' = [pc EXCEPT ![c] = step]

Return(c) == Goto(c, "recv") /\ frame' = [frame EXCEPT ![c] = Idle]

\* The service thread sends the client an answer.
Answer(c, a) == answers' = [answers EXCEPT ![c] = Append(@, a)]

First(S) == CHOOSE i \in S : \A k \in S : i <= k

SlotsOf(x) == {i \in Slots : clients[i] = x}

\* Slip: what creg_lookup returns is not looked at.
LoggedInAsIgnored(n) == {}

\* creg_lookup: the slots whose client is logged in under name n.
LoggedInAs(n) ==
    {i \in Slots \ SlotsOf(NoConn) :
        LET p == playerRef[clients[i]] IN p # NoPlayer /\ players[p] = n}

\* preg_register stops at the PLAYER of that name, or at the first free slot.
Matching(n) == {s \in PLAYERs : players[s] \in {n, NoName}}

\* Slip: the index after the loop is taken for a slot.
SlotForPastEnd(n) ==
    IF Matching(n) = {} THEN Capacity + 1 ELSE First(Matching(n))

SlotFor(n) == IF Matching(n) = {} THEN NoSlot ELSE First(Matching(n))

\* Slip: the scan does not wait for the semaphore.
PregNotTaken == TRUE

PregFree == preg = NoConn

\* Slip: a PLAYER that exists is returned without a reference.
ReferencedOnce(s) == IF players[s] = NoName THEN 2 ELSE reference[s]

\* References of the PLAYER that preg_register returns: a new one has one for
\* the registry and one for the caller.
Referenced(s) == IF players[s] = NoName THEN 2 ELSE reference[s] + 1

\* Slip: a client that is logged in may log in again.
MayLogInAgain(c) == player[c] # NoPlayer

\* client_login fails without a PLAYER and for a client that is logged in.
MayLogIn(c) == player[c] # NoPlayer /\ playerRef[c] = NoPlayer

-----------------------------------------------------------------------------
\* creg_register: client_create, and the first free slot, if there is one.
Register(c) ==
    /\ At(c, "none")
    /\ \A d \in Conns : d < c => pc[d] # "none"
    /\ clients' = IF SlotsOf(NoConn) = {} THEN clients
                  ELSE [clients EXCEPT ![First(SlotsOf(NoConn))] = c]
    /\ ref' = [ref EXCEPT ![c] = 1]
    /\ Goto(c, "recv")
    /\ UNCHANGED <<registries, logins, history, seph, frame, answers, asking,
                   crashed>>

\* A request is received that carries name n.
Request(c, step, n) ==
    /\ At(c, "recv")
    /\ requests < MaxRequests
    /\ requests' = requests + 1
    /\ frame' = [frame EXCEPT ![c].name = n]
    /\ Goto(c, step)

\* A LOGIN is honored at any time.
Login(c) ==
    \E n \in Names :
        /\ Request(c, "register", n)
        /\ answers' = [answers EXCEPT ![c] = <<>>]
        /\ asked' = [asked EXCEPT ![c] = n]
        /\ again' = [again EXCEPT ![c] = signedIN[c]]
        /\ UNCHANGED <<clients, registries, logins, ref, seph, named, crashed>>

\* Without a payload the name is NULL: a NACK is sent, then preg_register
\* reads the name.
LoginNoPayload(c) ==
    /\ At(c, "recv")
    /\ answers' = [answers EXCEPT ![c] = <<"NACK">>]
    /\ crashed' = TRUE
    /\ UNCHANGED <<clients, registries, logins, history, ref, seph, pc, frame,
                   asking>>

\* preg_register: it takes its semaphore and looks for the name...
RegisterScan(c) ==
    /\ At(c, "register")
    /\ PregFree
    /\ preg' = c
    /\ frame' = [frame EXCEPT ![c].slot = SlotFor(frame[c].name)]
    /\ Goto(c, "take")
    /\ UNCHANGED <<clients, players, reference, player, logins, history, ref,
                   seph, answers, asking, crashed>>

\* ...then makes the PLAYER or adds a reference, and returns it.  The local of
\* the service thread is overwritten, whatever it was.  From a full registry
\* NULL is returned, for which a NACK is sent.
RegisterTake(c) ==
    LET s == frame[c].slot
    IN  /\ At(c, "take")
        /\ IF s = NoSlot
           THEN /\ player' = [player EXCEPT ![c] = NoPlayer]
                /\ Answer(c, "NACK")
                /\ UNCHANGED <<players, reference>>
           ELSE /\ player' = [player EXCEPT ![c] = s]
                /\ players' = [players EXCEPT ![s] = frame[c].name]
                /\ reference' = [reference EXCEPT ![s] = Referenced(s)]
                /\ UNCHANGED answers
        /\ preg' = NoConn
        /\ Goto(c, "login")
        /\ UNCHANGED <<clients, logins, history, ref, seph, frame, asking, crashed>>

-----------------------------------------------------------------------------
\* client_login: a NACK is sent...
LoginRefused(c) ==
    /\ At(c, "login")
    /\ seph[c]
    /\ ~ MayLogIn(c)
    /\ Answer(c, "NACK")
    /\ Return(c)
    /\ UNCHANGED <<clients, registries, logins, history, ref, seph, asking, crashed>>

\* ...or the semaphore of the client is taken and the name looked up.
LoginScan(c) ==
    /\ At(c, "login")
    /\ seph[c]
    /\ MayLogIn(c)
    /\ seph' = [seph EXCEPT ![c] = FALSE]
    /\ LET S == LoggedInAs(frame[c].name)
       IN  IF S = {}
           THEN /\ Goto(c, "set")
                /\ raced' = (raced \/ \E d \in Conns :
                                pc[d] = "set" /\ player[d] = player[c])
                /\ UNCHANGED frame
           ELSE /\ Goto(c, "loginRead")
                /\ frame' = [frame EXCEPT ![c].slot = First(S)]
                /\ UNCHANGED raced
    /\ UNCHANGED <<clients, registries, playerRef, signedIN, history, ref,
                   answers, asking, crashed>>

\* Nobody was found: the client is logged in.
LoginSet(c) ==
    /\ At(c, "set")
    /\ playerRef' = [playerRef EXCEPT ![c] = player[c]]
    /\ reference' = [reference EXCEPT ![player[c]] = reference[player[c]] + 1]
    /\ seph' = [seph EXCEPT ![c] = TRUE]
    /\ signedIN' = [signedIN EXCEPT ![c] = TRUE]
    /\ Answer(c, "ACK")
    /\ Return(c)
    /\ UNCHANGED <<clients, players, preg, player, raced, history, ref, asking,
                   crashed>>

\* The end of creg_lookup: client_ref of what the slot holds by now, NULL or
\* another client perhaps.
LookupRead(c) ==
    LET d == clients[frame[c].slot]
    IN  /\ At(c, "loginRead") \/ At(c, "inviteRead")
        /\ IF d = NoConn
           THEN crashed' = TRUE /\ UNCHANGED <<pc, frame>>
           ELSE /\ frame' = [frame EXCEPT ![c].peer = d]
                /\ Goto(c, IF pc[c] = "loginRead" THEN "loginRef" ELSE "inviteRef")
                /\ UNCHANGED crashed
        /\ UNCHANGED <<clients, registries, logins, history, ref, seph, answers,
                       asking>>

\* client_ref of a client that was freed since it was read.
LookupFreed(c) ==
    /\ At(c, "loginRef") \/ At(c, "inviteRef")
    /\ ref[frame[c].peer] = 0
    /\ crashed' = TRUE
    /\ UNCHANGED <<clients, registries, logins, history, ref, seph, pc, frame,
                   answers, asking>>

\* client_ref of the client that was read.
Counted(c) == LET d == frame[c].peer
              IN  /\ seph[d]
                  /\ ref[d] > 0
                  /\ ref' = [ref EXCEPT ![d] = ref[d] + 1]

\* Slip: the semaphore of the client that failed to log in stays taken.
LoginFoundKeepsSeph(c) ==
    /\ At(c, "loginRef")
    /\ Counted(c)
    /\ Answer(c, "NACK")
    /\ Return(c)
    /\ UNCHANGED <<clients, registries, logins, history, seph, asking, crashed>>

\* Somebody was found: the login fails; the reference is not dropped.
LoginFound(c) ==
    /\ At(c, "loginRef")
    /\ Counted(c)
    /\ seph' = [seph EXCEPT ![c] = TRUE]
    /\ Answer(c, "NACK")
    /\ Return(c)
    /\ UNCHANGED <<clients, registries, logins, history, asking, crashed>>

-----------------------------------------------------------------------------
\* INVITE is honored once logged in.  A name nobody is logged in under is
\* refused.
Invite(c) ==
    /\ signedIN[c]
    /\ \E n \in Names : Request(c, "invite", n)
    /\ UNCHANGED <<clients, registries, logins, ref, seph, answers, asking, named,
                   crashed>>

\* Without a payload the byte after the name is written through NULL.
InviteNoPayload(c) ==
    /\ At(c, "recv")
    /\ signedIN[c]
    /\ crashed' = TRUE
    /\ UNCHANGED <<clients, registries, logins, history, ref, seph, pc, frame,
                   answers, asking>>

InviteScan(c) ==
    /\ At(c, "invite")
    /\ LET S == LoggedInAs(frame[c].name)
       IN  IF S = {}
           THEN Return(c)
           ELSE /\ Goto(c, "inviteRead")
                /\ frame' = [frame EXCEPT ![c].slot = First(S)]
    /\ UNCHANGED <<clients, registries, logins, history, ref, seph, answers,
                   asking, crashed>>

\* Slip: creg_lookup returns the client without a reference.
InviteRefUncounted(c) ==
    /\ At(c, "inviteRef")
    /\ seph[frame[c].peer] /\ ref[frame[c].peer] > 0
    /\ Goto(c, "peer")
    /\ UNCHANGED <<clients, registries, logins, history, ref, seph, frame,
                   answers, asking, crashed>>

\* creg_lookup returns the client.
InviteRef(c) ==
    /\ At(c, "inviteRef")
    /\ Counted(c)
    /\ Goto(c, "peer")
    /\ UNCHANGED <<clients, registries, logins, history, seph, frame, answers,
                   asking, crashed>>

\* client_make_invitation: inv_create adds a reference to the source of an
\* invitation; of oneself there is none, though INVITED is sent all the same...
MakeInvitation(c) ==
    /\ At(c, "peer")
    /\ seph[c]
    /\ IF frame[c].peer = c
       THEN Return(c) /\ UNCHANGED <<ref, named>>
       ELSE /\ ref' = [ref EXCEPT ![c] = ref[c] + 1]
            /\ named' = named \cup {c}
            /\ Goto(c, "target")
            /\ UNCHANGED frame
    /\ UNCHANGED <<clients, registries, logins, requests, seph, answers, asking,
                   crashed>>

\* ...then one to its target.
MakeTarget(c) ==
    /\ At(c, "target")
    /\ Counted(c)
    /\ named' = named \cup {frame[c].peer}
    /\ Return(c)
    /\ UNCHANGED <<clients, registries, logins, requests, seph, answers, asking,
                   crashed>>

-----------------------------------------------------------------------------
\* The end of the connection: client_logout of a client without a PLAYER fails...
ReadEof(c) ==
    /\ At(c, "recv")
    /\ IF playerRef[c] = NoPlayer
       THEN Goto(c, "unref") /\ UNCHANGED seph
       ELSE Goto(c, "logout") /\ seph[c] /\ seph' = [seph EXCEPT ![c] = FALSE]
    /\ UNCHANGED <<clients, registries, logins, history, ref, frame, answers,
                   asking, crashed>>

\* ...of another it gives the PLAYER back.
Logout(c) ==
    /\ At(c, "logout")
    /\ reference' = [reference EXCEPT ![playerRef[c]] = reference[playerRef[c]] - 1]
    /\ playerRef' = [playerRef EXCEPT ![c] = NoPlayer]
    /\ seph' = [seph EXCEPT ![c] = TRUE]
    /\ Goto(c, "unref")
    /\ UNCHANGED <<clients, players, preg, player, signedIN, raced, history,
                   ref, frame, answers, asking, crashed>>

\* The service thread drops the PLAYER in its local.
Unref(c) ==
    /\ At(c, "unref")
    /\ reference' = IF player[c] = NoPlayer THEN reference
                    ELSE [reference EXCEPT ![player[c]] = reference[player[c]] - 1]
    /\ player' = [player EXCEPT ![c] = NoPlayer]
    /\ Goto(c, "unregister")
    /\ UNCHANGED <<clients, players, preg, logins, history, ref, seph, frame,
                   answers, asking, crashed>>

\* creg_unregister gives up the slot of a client in the table, and its reference.
\* The thread ends, and its locals with it.
Unregister(c) ==
    /\ At(c, "unregister")
    /\ seph[c]
    /\ IF SlotsOf(c) = {}
       THEN UNCHANGED <<clients, ref>>
       ELSE /\ clients' = [clients EXCEPT ![First(SlotsOf(c))] = NoConn]
            /\ ref' = [ref EXCEPT ![c] = ref[c] - 1]
    /\ Goto(c, "gone")
    /\ signedIN' = [signedIN EXCEPT ![c] = FALSE]
    /\ answers' = [answers EXCEPT ![c] = <<>>]
    /\ asked' = [asked EXCEPT ![c] = NoName]
    /\ again' = [again EXCEPT ![c] = FALSE]
    /\ UNCHANGED <<registries, playerRef, raced, history, seph, frame, crashed>>

-----------------------------------------------------------------------------
\* What a service thread does on its own.
Proceed(c) ==
    \/ RegisterScan(c) \/ RegisterTake(c)
    \/ LoginRefused(c) \/ LoginScan(c) \/ LoginSet(c) \/ LoginFound(c)
    \/ InviteScan(c) \/ InviteRef(c) \/ MakeInvitation(c) \/ MakeTarget(c)
    \/ LookupRead(c) \/ LookupFreed(c)
    \/ Logout(c) \/ Unref(c) \/ Unregister(c)

Next == \E c \in Conns :
            \/ Register(c) \/ Login(c) \/ LoginNoPayload(c)
            \/ Invite(c) \/ InviteNoPayload(c)
            \/ Proceed(c) \/ ReadEof(c)

\* With an invitation in its list, client_logout may wait for itself (Match).
Stuck(c) == pc[c] = "logout" /\ c \in named

\* A thread that can run does; with finitely many requests no semaphore is
\* taken from a waiting thread for ever.  Nobody need connect, send or leave.
Spec == /\ Init /\ [][Next]_vars
        /\ \A c \in Conns : WF_vars(Proceed(c) /\ ~ Stuck(c))

-----------------------------------------------------------------------------
Used(s) == players[s] # NoName

Steps == {"none", "recv", "register", "take", "login", "set", "loginRead",
          "loginRef", "invite", "inviteRead", "inviteRef", "peer", "target",
          "logout", "unref", "unregister", "gone"}

Frames == [name : Names \cup {NoName},
           slot : PLAYERs \cup Slots \cup {NoSlot},
           peer : Conns \cup {NoConn}]

\* The variables have their types; the slot of a frame is one of the registry
\* that the step works on.
TypeOK ==
    /\ clients \in [Slots -> Conns \cup {NoConn}]
    /\ players \in [PLAYERs -> Names \cup {NoName}]
    /\ reference \in [PLAYERs -> Nat]
    /\ preg \in Conns \cup {NoConn}
    /\ playerRef \in [Conns -> PLAYERs \cup {NoPlayer}]
    /\ ref \in [Conns -> Nat]
    /\ seph \in [Conns -> BOOLEAN]
    /\ player \in [Conns -> PLAYERs \cup {NoPlayer}]
    /\ signedIN \in [Conns -> BOOLEAN]
    /\ pc \in [Conns -> Steps]
    /\ frame \in [Conns -> Frames]
    /\ answers \in [Conns -> Seq({"ACK", "NACK"})]
    /\ asked \in [Conns -> Names \cup {NoName}]
    /\ again \in [Conns -> BOOLEAN]
    /\ requests \in 0 .. MaxRequests
    /\ named \subseteq Conns
    /\ raced \in BOOLEAN
    /\ crashed \in BOOLEAN

\* A name has one PLAYER for as long as the server runs, which is what the
\* rating, the search in client_login and preg_register's promise rest on;
\* whoever has registered a name holds the PLAYER of that name.
OnePlayerPerName ==
    /\ \A s, t \in PLAYERs : Used(s) /\ players[s] = players[t] => s = t
    /\ \A c \in Conns :
           pc[c] \in {"login", "set", "loginRead", "loginRef"} /\ player[c] # NoPlayer
               => players[player[c]] = frame[c].name

\* No PLAYER is freed while the registry, a client or a service thread points
\* to it: its count covers them all, whatever LOGINs are repeated or refused.
\* (It may be higher: a repeated LOGIN leaves a reference behind.)
RefsCoverPointers ==
    \A s \in PLAYERs :
        Used(s) => reference[s] >= 1 + Cardinality({c \in Conns : playerRef[c] = s})
                                     + Cardinality({c \in Conns : player[c] = s})

\* No CLIENT is freed under its service thread, the table, an invitation that
\* names it or a thread to which creg_lookup has returned it.
ClientsKept ==
    ~ crashed =>
        \A c \in Conns :
            LET uses == Cardinality({d \in Conns : /\ pc[d] \in {"peer", "target"}
                                                    /\ frame[d].peer = c})
            IN  /\ c \in named \/ SlotsOf(c) # {} => ref[c] > uses
                /\ pc[c] \notin {"none", "gone"} => ref[c] > uses
                /\ ref[c] >= uses

\* When a LOGIN has been served, it was answered ACK exactly if this LOGIN is
\* what logged the client in, and the client then is the PLAYER of the name it
\* asked for and found under that name in the table, if it has a slot; it was
\* answered NACK twice exactly if the registry is full of other names, and else
\* NACK once.  A client has a PLAYER exactly if its thread believes it logged in,
\* until the connection ends.
LoginsMeanPlayers ==
    ~ crashed =>
        \A c \in Conns :
            /\ pc[c] = "recv" /\ asked[c] = NoName => answers[c] = <<>> /\ ~ signedIN[c]
            /\ pc[c] = "recv" /\ asked[c] # NoName =>
                   /\ answers[c] \in {<<"ACK">>, <<"NACK">>, <<"NACK", "NACK">>}
                   /\ answers[c] = <<"ACK">> <=> signedIN[c] /\ ~ again[c]
                   /\ answers[c] = <<"ACK">> =>
                          /\ players[playerRef[c]] = asked[c]
                          /\ SlotsOf(c) \subseteq LoggedInAs(asked[c])
                   /\ answers[c] = <<"NACK", "NACK">> <=> Matching(asked[c]) = {}
            /\ pc[c] \notin {"unref", "unregister", "gone"} =>
                   (signedIN[c] <=> playerRef[c] # NoPlayer)
            /\ pc[c] \in {"none", "unref", "unregister", "gone"} => playerRef[c] = NoPlayer

\* Two clients of the table are logged in as one PLAYER only if two logins under
\* its name have crossed: both had found nobody before either was logged in.
SharedOnlyByRace ==
    ~ raced =>
        \A i, j \in Slots :
            LET c == clients[i]
                d == clients[j]
            IN  i # j /\ c # NoConn /\ d # NoConn /\ playerRef[c] # NoPlayer
                    => playerRef[c] # playerRef[d]

\* A login is for good: until the connection ends a client keeps its PLAYER.
LoginIsForGood ==
    [][\A c \in Conns :
           playerRef[c] # NoPlayer /\ pc[c] # "logout" => playerRef'[c] = playerRef[c]]_vars

\* Every LOGIN is answered, whoever waits for whom, unless the server has
\* crashed or a logout hangs.
LoginsAnswered ==
    \A c \in Conns :
        pc[c] = "register" ~> \/ pc[c] = "recv" \/ crashed
                              \/ \E d \in Conns : Stuck(d)
=============================================================================
