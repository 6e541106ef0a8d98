---------------------------- MODULE ClientRegistry ---------------------------
(***************************************************************************)
(* The registry of connected clients and what its callers make of it: the  *)
(* mutex, the table and the semaphore of src/client_registry.c, the        *)
(* service threads of src/server.c that register, log in, look each other  *)
(* up and unregister, and the accept loop and the termination of           *)
(* src/main.c.                                                             *)
(*                                                                         *)
(* A connection, the CLIENT object made for it and the service thread that *)
(* works for it are one element of Conns.  The mutex of the registry is    *)
(* taken and released within one step of this module, but for the thread   *)
(* that registers the first client: it waits for the semaphore with the    *)
(* mutex held.  creg_lookup reads the slot it has found once more when it  *)
(* has released the mutex; that read is a step of its own.                 *)
(*                                                                         *)
(* A request that is refused without a change here, such as an INVITE of a *)
(* name nobody has, is no step.  A client that leaves has no invitations:  *)
(* what client_logout does to them, and how it can hang, is in Match.tla.  *)
(***************************************************************************)
EXTENDS Integers, FiniteSets

CONSTANTS
    Conns,       \* the connections that can ever be made (a bound)
    Main,        \* the main thread
    NoConn,      \* NULL
    MaxClients,  \* MAX_CLIENTS, the size of the table
    Names,       \* the user names a LOGIN or an INVITE may carry
    NoName,      \* playerRef is NULL
    Signalled    \* the threads the kernel may deliver SIGHUP to

ASSUME RegistryAssumption ==
    /\ IsFiniteSet(Conns)
    /\ Main \notin Conns
    /\ NoConn \notin Conns \cup {Main}
    /\ MaxClients \in Nat \ {0}
    /\ NoName \notin Names
    /\ Signalled \subseteq Conns \cup {Main}

Slots   == 0 .. (MaxClients - 1)
NoSlot  == -1
Threads == Conns \cup {Main}

VARIABLES
    clients,        \* the table: a connection or NoConn per slot
    clientsAmount,  \* the number of clients registered
    mutex,          \* the thread that holds the mutex between steps, or NoConn
    semaphore,      \* 1 when the registry is empty
    player,         \* playerRef of every client, a PLAYER named by its name
    fd,             \* the descriptor in every client, 0 before it has one
    eof,            \* the connection can be read to its end
    pc,             \* per thread: the step it is at
    frame,          \* per connection: the locals of the request being served
    exitFlag,       \* cleared by SIGHUP
    status          \* of the process

vars == <<clients, clientsAmount, mutex, semaphore, player, fd, eof, pc,
          frame, exitFlag, status>>

\* The name in a request, the slot a lookup has found, the client that was
\* in it, the client that the lookup returned.
Idle == [name |-> NoName, slot |-> NoSlot, seen |-> NoConn, peer |-> NoConn]

Init == /\ clients       = [i \in Slots |-> NoConn]
        /\ clientsAmount = 0
        /\ mutex         = NoConn
        /\ semaphore     = 1
        /\ player        = [c \in Conns |-> NoName]
        /\ fd            = [c \in Conns |-> 0]
        /\ eof           = [c \in Conns |-> FALSE]
        /\ pc            = [t \in Threads |-> IF t = Main THEN "accept" ELSE "none"]
        /\ frame         = [c \in Conns |-> Idle]
        /\ exitFlag      = TRUE
        /\ status        = "up"

-----------------------------------------------------------------------------
(***************************************************************************)
(* As in Match, a "Slip" is the definition that follows it with a          *)
(* plausible mistake in it; nothing uses it.                               *)
(***************************************************************************)

At(t, step) == status = "up" /\ pc[t] = step

Goto(t, step) == pc' = [pc EXCEPT ![t] = step]

SlotsOf(x) == {i \in Slots : clients[i] = x}

First(S) == CHOOSE i \in S : \A k \in S : i <= k

Occupied == Slots \ SlotsOf(NoConn)

\* The descriptors in use, each with the connection the kernel means by it.
Live     == {c \in Conns : pc[c] \notin {"none", "gone"}}
Owner(n) == {c \in Live : fd[c] = n}

\* accept returns the lowest descriptor that is free.
FreeFd(n) == n > 0 /\ Owner(n) = {}
LowestFd  == CHOOSE n \in 1 .. (Cardinality(Conns) + 1) :
                 FreeFd(n) /\ \A m \in 1 .. n : FreeFd(m) => m = n

\* The slots whose client is logged in under name n.
LoggedInAs(n) == {i \in Occupied : player[clients[i]] = n}

\* The locals of a request that has found name n in slot i.
Found(n, i) == [name |-> n, slot |-> i, seen |-> clients[i], peer |-> NoConn]

-----------------------------------------------------------------------------
\* accept returns a connection and a service thread is started for it.  Main
\* looks at exitFlag only then.
Accept(c) ==
    /\ At(Main, "accept")
    /\ pc[c] = "none"
    /\ fd' = [fd EXCEPT ![c] = LowestFd]
    /\ pc' = [pc EXCEPT ![c] = "register",
                        ![Main] = IF exitFlag THEN "accept" ELSE "shutdown"]
    /\ UNCHANGED <<clients, clientsAmount, mutex, semaphore, player, eof,
                   frame, exitFlag, status>>

\* Slip: the client is not counted.
RegisterUncounted(c) ==
    /\ At(c, "register")
    /\ mutex = NoConn
    /\ clients' = IF SlotsOf(NoConn) = {} THEN clients
                  ELSE [clients EXCEPT ![First(SlotsOf(NoConn))] = c]
    /\ Goto(c, "recv")
    /\ UNCHANGED <<clientsAmount, mutex, semaphore, player, fd, eof, frame,
                   exitFlag, status>>

\* Slip: the first client does not take the semaphore.
RegisterTakesNothing(c) ==
    /\ At(c, "register")
    /\ mutex = NoConn
    /\ clients' = IF SlotsOf(NoConn) = {} THEN clients
                  ELSE [clients EXCEPT ![First(SlotsOf(NoConn))] = c]
    /\ clientsAmount' = clientsAmount + 1
    /\ Goto(c, "recv")
    /\ UNCHANGED <<mutex, semaphore, player, fd, eof, frame, exitFlag, status>>

\* Slip: in a full table the client takes the place of another.
RegisterOverFirst(c) ==
    /\ At(c, "register")
    /\ mutex = NoConn
    /\ clients' = [clients EXCEPT ![IF SlotsOf(NoConn) = {} THEN 0
                                    ELSE First(SlotsOf(NoConn))] = c]
    /\ clientsAmount' = clientsAmount + 1
    /\ IF clientsAmount' = 1
       THEN mutex' = c /\ Goto(c, "first")
       ELSE mutex' = mutex /\ Goto(c, "recv")
    /\ UNCHANGED <<semaphore, player, fd, eof, frame, exitFlag, status>>

\* creg_register: the first free slot, if there is one; the client is counted
\* in any case, and the first of all goes on to take the semaphore.
Register(c) ==
    /\ At(c, "register")
    /\ mutex = NoConn
    /\ clients' = IF SlotsOf(NoConn) = {} THEN clients
                  ELSE [clients EXCEPT ![First(SlotsOf(NoConn))] = c]
    /\ clientsAmount' = clientsAmount + 1
    /\ IF clientsAmount' = 1
       THEN mutex' = c /\ Goto(c, "first")
       ELSE mutex' = mutex /\ Goto(c, "recv")
    /\ UNCHANGED <<semaphore, player, fd, eof, frame, exitFlag, status>>

\* Slip: the mutex is not released after the wait for the semaphore.
RegisterFirstKeepsMutex(c) ==
    /\ At(c, "first")
    /\ semaphore > 0
    /\ semaphore' = semaphore - 1
    /\ Goto(c, "recv")
    /\ UNCHANGED <<clients, clientsAmount, mutex, player, fd, eof, frame,
                   exitFlag, status>>

\* Its sem_wait, and the release of the mutex.
RegisterFirst(c) ==
    /\ At(c, "first")
    /\ semaphore > 0
    /\ semaphore' = semaphore - 1
    /\ mutex' = NoConn
    /\ Goto(c, "recv")
    /\ UNCHANGED <<clients, clientsAmount, player, fd, eof, frame, exitFlag,
                   status>>

-----------------------------------------------------------------------------
\* LOGIN: a client that is logged in already is refused; otherwise
\* creg_lookup looks for another client under that name.
LoginScan(c) ==
    /\ At(c, "recv")
    /\ mutex = NoConn
    /\ player[c] = NoName
    /\ \E n \in Names :
          LET S == LoggedInAs(n)
          IN  IF S = {}
              THEN /\ frame' = [frame EXCEPT ![c].name = n]
                   /\ Goto(c, "loginSet")
              ELSE /\ frame' = [frame EXCEPT ![c] = Found(n, First(S))]
                   /\ Goto(c, "loginRef")
    /\ UNCHANGED <<clients, clientsAmount, mutex, semaphore, player, fd, eof,
                   exitFlag, status>>

\* Nobody was found: the client is logged in.
LoginSet(c) ==
    /\ At(c, "loginSet")
    /\ player' = [player EXCEPT ![c] = frame[c].name]
    /\ frame' = [frame EXCEPT ![c] = Idle]
    /\ Goto(c, "recv")
    /\ UNCHANGED <<clients, clientsAmount, mutex, semaphore, fd, eof, exitFlag,
                   status>>

\* INVITE, once logged in: creg_lookup looks for the target.
InviteScan(c) ==
    /\ At(c, "recv")
    /\ mutex = NoConn
    /\ player[c] # NoName
    /\ \E n \in Names :
          LET S == LoggedInAs(n)
          IN  /\ S # {}
              /\ frame' = [frame EXCEPT ![c] = Found(n, First(S))]
              /\ Goto(c, "inviteRef")
    /\ UNCHANGED <<clients, clientsAmount, mutex, semaphore, player, fd, eof,
                   exitFlag, status>>

\* The end of creg_lookup: client_ref of what the slot holds now.  A login
\* is then refused, an invitation made.
LookupRef(c) ==
    LET d == clients[frame[c].slot]
    IN  /\ At(c, "loginRef") \/ At(c, "inviteRef")
        /\ IF d = NoConn
           THEN status' = "crashed" /\ UNCHANGED <<pc, frame>>
           ELSE IF pc[c] = "loginRef" \/ d = c
           THEN /\ frame' = [frame EXCEPT ![c] = Idle]
                /\ Goto(c, "recv")
                /\ UNCHANGED status
           ELSE /\ frame' = [frame EXCEPT ![c].peer = d]
                /\ Goto(c, "inviteSend")
                /\ UNCHANGED status
        /\ UNCHANGED <<clients, clientsAmount, mutex, semaphore, player, fd,
                       eof, exitFlag>>

\* INVITED is written to the descriptor of the client that was returned.
InviteSend(c) ==
    /\ At(c, "inviteSend")
    /\ frame' = [frame EXCEPT ![c] = Idle]
    /\ Goto(c, "recv")
    /\ UNCHANGED <<clients, clientsAmount, mutex, semaphore, player, fd, eof,
                   exitFlag, status>>

\* USERS: creg_all_players makes a list of players with the mutex held...
Users(c) ==
    /\ At(c, "recv")
    /\ mutex = NoConn
    /\ player[c] # NoName
    /\ Goto(c, "users")
    /\ UNCHANGED <<clients, clientsAmount, mutex, semaphore, player, fd, eof,
                   frame, exitFlag, status>>

\* ...that the service thread sends.
UsersSend(c) ==
    /\ At(c, "users")
    /\ Goto(c, "recv")
    /\ UNCHANGED <<clients, clientsAmount, mutex, semaphore, player, fd, eof,
                   frame, exitFlag, status>>

-----------------------------------------------------------------------------
\* The peer closes its end.
Hangup(c) ==
    /\ status = "up"
    /\ pc[c] \notin {"none", "gone"}
    /\ ~ eof[c]
    /\ eof' = [eof EXCEPT ![c] = TRUE]
    /\ UNCHANGED <<clients, clientsAmount, mutex, semaphore, player, fd, pc,
                   frame, exitFlag, status>>

\* proto_recv_packet fails; client_logout drops the player.
ReadEof(c) ==
    /\ At(c, "recv")
    /\ eof[c]
    /\ player' = [player EXCEPT ![c] = NoName]
    /\ Goto(c, "unregister")
    /\ UNCHANGED <<clients, clientsAmount, mutex, semaphore, fd, eof, frame,
                   exitFlag, status>>

\* Slip: the semaphore is posted for every client that leaves.
UnregisterPostsAlways(c) ==
    /\ At(c, "unregister")
    /\ mutex = NoConn
    /\ IF SlotsOf(c) = {}
       THEN Goto(c, "lost") /\ UNCHANGED <<clients, clientsAmount, semaphore>>
       ELSE /\ clients' = [clients EXCEPT ![First(SlotsOf(c))] = NoConn]
            /\ clientsAmount' = clientsAmount - 1
            /\ semaphore' = semaphore + 1
            /\ Goto(c, "gone")
    /\ UNCHANGED <<mutex, player, fd, eof, frame, exitFlag, status>>

\* Slip: the slot is not set to NULL.
UnregisterKeepsSlot(c) ==
    /\ At(c, "unregister")
    /\ mutex = NoConn
    /\ IF SlotsOf(c) = {}
       THEN Goto(c, "lost") /\ UNCHANGED <<clientsAmount, semaphore>>
       ELSE /\ clientsAmount' = clientsAmount - 1
            /\ semaphore' = IF clientsAmount' = 0 THEN semaphore + 1 ELSE semaphore
            /\ Goto(c, "gone")
    /\ UNCHANGED <<clients, mutex, player, fd, eof, frame, exitFlag, status>>

\* Slip: the post is forgotten.
UnregisterPostsNothing(c) ==
    /\ At(c, "unregister")
    /\ mutex = NoConn
    /\ IF SlotsOf(c) = {}
       THEN Goto(c, "lost") /\ UNCHANGED <<clients, clientsAmount>>
       ELSE /\ clients' = [clients EXCEPT ![First(SlotsOf(c))] = NoConn]
            /\ clientsAmount' = clientsAmount - 1
            /\ Goto(c, "gone")
    /\ UNCHANGED <<mutex, semaphore, player, fd, eof, frame, exitFlag, status>>

\* creg_unregister: a client that is in the table gives up its slot, its
\* descriptor and its count, and the last one posts the semaphore.  For one
\* that got no slot nothing is done: its thread ends, "lost".
Unregister(c) ==
    /\ At(c, "unregister")
    /\ mutex = NoConn
    /\ IF SlotsOf(c) = {}
       THEN Goto(c, "lost") /\ UNCHANGED <<clients, clientsAmount, semaphore>>
       ELSE /\ clients' = [clients EXCEPT ![First(SlotsOf(c))] = NoConn]
            /\ clientsAmount' = clientsAmount - 1
            /\ semaphore' = IF clientsAmount' = 0 THEN semaphore + 1 ELSE semaphore
            /\ Goto(c, "gone")
    /\ UNCHANGED <<mutex, player, fd, eof, frame, exitFlag, status>>

-----------------------------------------------------------------------------
\* sighup_handler interrupts the accept of main, or the read of a service
\* thread, and does not return.
Sighup(t) ==
    /\ t \in Signalled
    /\ At(t, IF t = Main THEN "accept" ELSE "recv")
    /\ exitFlag' = FALSE
    /\ Goto(t, "shutdown")
    /\ UNCHANGED <<clients, clientsAmount, mutex, semaphore, player, fd, eof,
                   frame, status>>

\* Slip: only the first client of the table is shut down.
ShutdownFirst(t) ==
    /\ At(t, "shutdown")
    /\ mutex = NoConn
    /\ eof' = [c \in Conns |-> eof[c] \/ clients[0] = c]
    /\ Goto(t, "wait")
    /\ UNCHANGED <<clients, clientsAmount, mutex, semaphore, player, fd, frame,
                   exitFlag, status>>

\* terminate: creg_shutdown_all...
ShutdownAll(t) ==
    /\ At(t, "shutdown")
    /\ mutex = NoConn
    /\ eof' = [c \in Conns |-> eof[c] \/ SlotsOf(c) # {}]
    /\ Goto(t, "wait")
    /\ UNCHANGED <<clients, clientsAmount, mutex, semaphore, player, fd, frame,
                   exitFlag, status>>

\* ...creg_wait_for_empty...
WaitForEmpty(t) ==
    /\ At(t, "wait")
    /\ semaphore > 0
    /\ semaphore' = semaphore - 1
    /\ Goto(t, "fini")
    /\ UNCHANGED <<clients, clientsAmount, mutex, player, fd, eof, frame,
                   exitFlag, status>>

\* ...creg_fini, preg_fini, exit.
Exit(t) ==
    /\ At(t, "fini")
    /\ status' = "exited"
    /\ UNCHANGED <<clients, clientsAmount, mutex, semaphore, player, fd, eof,
                   pc, frame, exitFlag>>

-----------------------------------------------------------------------------
Terminate(t) == ShutdownAll(t) \/ WaitForEmpty(t) \/ Exit(t)

\* What a service thread does on its own.
Proceed(c) ==
    \/ Register(c) \/ RegisterFirst(c)
    \/ LoginSet(c) \/ LookupRef(c) \/ InviteSend(c) \/ UsersSend(c)
    \/ Unregister(c)

Request(c) == LoginScan(c) \/ InviteScan(c) \/ Users(c)

Next == \/ \E c \in Conns : \/ Accept(c) \/ Proceed(c) \/ Request(c)
                            \/ Hangup(c) \/ ReadEof(c)
        \/ \E t \in Threads : Sighup(t) \/ Terminate(t)

\* Threads that can run do; a thread gets to the end of a connection that has
\* one, for there are finitely many requests before it.  No client need
\* connect, send or hang up, and no signal need come.
Spec == /\ Init /\ [][Next]_vars
        /\ \A c \in Conns : WF_vars(Proceed(c)) /\ SF_vars(ReadEof(c))
        /\ \A t \in Threads : WF_vars(Terminate(t))

-----------------------------------------------------------------------------
Terminating == {"shutdown", "wait", "fini"}

\* The service threads between creg_register and creg_unregister.
Serving == {"recv", "loginSet", "loginRef", "inviteRef", "inviteSend",
            "users", "unregister"} \cup Terminating

\* The clients that are counted: those, the one that waits for the semaphore,
\* and those that left without having had a slot.
Counted == {c \in Conns : pc[c] \in Serving \cup {"first", "lost"}}

Frames == [name   : Names \cup {NoName},
           slot   : Slots \cup {NoSlot},
           seen   : Conns \cup {NoConn},
           peer   : Conns \cup {NoConn}]

TypeOK ==
    /\ clients \in [Slots -> Conns \cup {NoConn}]
    /\ clientsAmount \in Nat
    /\ mutex \in Conns \cup {NoConn}
    /\ semaphore \in {0, 1}
    /\ player \in [Conns -> Names \cup {NoName}]
    /\ fd \in [Conns -> Nat]
    /\ eof \in [Conns -> BOOLEAN]
    /\ pc \in [Threads -> Serving \cup {"accept", "none", "register", "first",
                                        "lost", "gone"}]
    /\ frame \in [Conns -> Frames]
    /\ exitFlag \in BOOLEAN
    /\ status \in {"up", "crashed", "exited"}

\* The threads whose creg_wait_for_empty has returned.
Passed == {t \in Threads : pc[t] = "fini"}

(***************************************************************************)
(* clientsAmount is the number of clients whose register has begun and     *)
(* whose unregister has not succeeded, in whatever order they come and go. *)
(***************************************************************************)
CountIsExact == clientsAmount = Cardinality(Counted)

(***************************************************************************)
(* With the mutex free, the semaphore is posted exactly when the count is  *)
(* zero, but for the post that a terminating thread has taken: no post is  *)
(* lost and none is made twice.                                            *)
(***************************************************************************)
SemaphoreTracksEmpty ==
    mutex = NoConn =>
        semaphore + Cardinality(Passed) = IF clientsAmount = 0 THEN 1 ELSE 0

(***************************************************************************)
(* The process does not terminate under a client: when a wait for empty    *)
(* has returned no service thread is between register and unregister, and  *)
(* none gets there any more.                                               *)
(***************************************************************************)
NoExitUnderAClient ==
    Passed # {} => \A c \in Conns : pc[c] \notin Serving

(***************************************************************************)
(* The table has a client at most once, and only while its thread is       *)
(* between register and unregister, when its descriptor is its own.        *)
(***************************************************************************)
TableSound ==
    \A i, k \in Slots :
        clients[i] # NoConn =>
            /\ clients[i] \in Counted
            /\ pc[clients[i]] # "lost"
            /\ Owner(fd[clients[i]]) = {clients[i]}
            /\ clients[k] = clients[i] => k = i

(***************************************************************************)
(* A service thread that was started gets registered, or the process ends: *)
(* the mutex that the first one keeps while it waits is released again.    *)
(***************************************************************************)
RegisterReturns ==
    \A c \in Conns :
        pc[c] \in {"register", "first"} ~> \/ pc[c] \notin {"register", "first"}
                                          \/ status # "up"

(***************************************************************************)
(* main.c:109-110: "Shutdown all client connections.  This will trigger    *)
(* the eventual termination of service threads": the thread of a           *)
(* connection that has come to its end does end.                           *)
(***************************************************************************)
ShutConnectionsEnd ==
    \A c \in Conns :
        eof[c] /\ pc[c] \in Serving ~> pc[c] \in {"gone", "lost"} \/ status # "up"

(***************************************************************************)
(* Termination ends if no thread that was started is still on its way to  *)
(* creg_register when it begins: every connection in the table is shut     *)
(* down, and the last one to unregister lets the wait return.              *)
(***************************************************************************)
TerminationEnds ==
    pc[Main] = "shutdown" /\ (\A c \in Conns : pc[c] # "register")
        ~> status # "up"

(***************************************************************************)
(* Whom INVITE reaches is whom the name was found with (client_registry.h, *)
(* "return the CLIENT that is logged in under that username"), unless that *)
(* client has gone between the scan and the second read of the slot.       *)
(***************************************************************************)
LookupReturnsFound ==
    \A c \in Conns :
        pc[c] = "inviteSend" => \/ frame[c].peer = frame[c].seen
                               \/ pc[frame[c].seen] = "gone"
=============================================================================
