---------------------------- MODULE RegistryProofs ---------------------------
(***************************************************************************)
(* For any number of connections, slots, names and terminating threads:    *)
(* the count of the registry is exact, the semaphore follows it, the       *)
(* process does not terminate under a client, the table and the            *)
(* descriptors in it are sound, and a lookup returns whom it found.        *)
(*                                                                         *)
(* SemaphoreTracksEmpty says nothing while the mutex is held.  What makes  *)
(* it inductive is what the holder of the mutex is about to do: it is the  *)
(* only client there is, it waits for the semaphore, and either the post   *)
(* is still there for it or a terminating thread has taken it for good.    *)
(*                                                                         *)
(* That a descriptor in the table is its client's own follows from all     *)
(* open descriptors being different, which in turn needs that accept finds *)
(* a free one: there are fewer connections than descriptors.               *)
(***************************************************************************)
EXTENDS ClientRegistry, LeastElement, FiniteSetTheorems, TLAPS

PCs == Serving \cup {"accept", "none", "register", "first", "lost", "gone"}

CountTypes == /\ clientsAmount \in Nat
              /\ semaphore \in Nat
              /\ mutex \in Conns \cup {NoConn}
              /\ pc \in [Threads -> PCs]

\* The holder of the mutex is the thread that registers the first client.
MutexHolder == /\ \A c \in Conns : pc[c] = "first" <=> mutex = c
               /\ mutex # NoConn => clientsAmount = 1

\* Posts there are and posts that terminating threads have taken.
Posts == semaphore + Cardinality(Passed)

SemaphoreBalance ==
    Posts = IF mutex = NoConn /\ clientsAmount > 0 THEN 0 ELSE 1

CountInv == CountTypes /\ CountIsExact /\ MutexHolder /\ SemaphoreBalance

-----------------------------------------------------------------------------
(***************************************************************************)
(* The sets that are counted are finite.                                   *)
(***************************************************************************)
LEMMA FiniteCounts ==
    ASSUME CountTypes
    PROVE  /\ IsFiniteSet(Counted) /\ Cardinality(Counted) \in Nat
           /\ IsFiniteSet(Passed)  /\ Cardinality(Passed) \in Nat
<1>1. IsFiniteSet(Threads)
  BY RegistryAssumption, FS_AddElement, FS_Union, FS_Singleton DEF Threads
<1>2. Counted \subseteq Conns /\ Passed \subseteq Threads
  BY DEF Counted, Passed
<1>3. IsFiniteSet(Counted) /\ IsFiniteSet(Passed)
  BY <1>1, <1>2, RegistryAssumption, FS_Subset
<1> QED
  BY <1>3, FS_CardinalityType

(***************************************************************************)
(* The registry starts empty, with the semaphore posted.                   *)
(***************************************************************************)
LEMMA InitCount == Init => CountInv
<1> SUFFICES ASSUME Init PROVE CountInv
  OBVIOUS
<1>1. CountTypes
  BY RegistryAssumption DEF Init, CountTypes, PCs, Threads
<1>2. Counted = {} /\ Passed = {}
  BY RegistryAssumption DEF Init, Counted, Passed, Serving, Terminating, Threads
<1>3. Cardinality(Counted) = 0 /\ Cardinality(Passed) = 0
  BY <1>2, FS_EmptySet
<1>4. CountIsExact /\ SemaphoreBalance
  BY <1>3 DEF Init, CountIsExact, SemaphoreBalance, Posts
<1>5. MutexHolder
  BY RegistryAssumption DEF Init, MutexHolder, Threads
<1> QED
  BY <1>1, <1>4, <1>5 DEF CountInv

(***************************************************************************)
(* A step that moves one thread between steps that count alike, and leaves *)
(* the count, the mutex and the semaphore alone, preserves the invariant.  *)
(***************************************************************************)
LEMMA SameCount ==
    ASSUME CountInv,
           UNCHANGED <<clientsAmount, mutex, semaphore>>,
           pc' \in [Threads -> PCs],
           \A c \in Conns : /\ pc'[c] = "first" <=> pc[c] = "first"
                            /\ pc'[c] \in Serving \cup {"first", "lost"}
                                 <=> pc[c] \in Serving \cup {"first", "lost"},
           \A t \in Threads : pc'[t] = "fini" <=> pc[t] = "fini"
    PROVE  CountInv'
<1>1. Counted' = Counted /\ Passed' = Passed
  BY DEF Counted, Passed
<1>2. CountTypes'
  BY DEF CountInv, CountTypes
<1>3. CountIsExact' /\ SemaphoreBalance'
  BY <1>1 DEF CountInv, CountIsExact, SemaphoreBalance, Posts
<1>4. MutexHolder'
  BY DEF CountInv, MutexHolder
<1> QED
  BY <1>2, <1>3, <1>4 DEF CountInv

(***************************************************************************)
(* creg_register counts its client, and takes the semaphore for the first. *)
(***************************************************************************)
LEMMA RegisterCount ==
    ASSUME CountInv, NEW c \in Conns, Register(c)
    PROVE  CountInv'
<1> USE DEF CountInv
<1>1. /\ pc[c] = "register" /\ mutex = NoConn
      /\ clientsAmount' = clientsAmount + 1 /\ semaphore' = semaphore
  BY DEF Register, At
<1>2. \/ clientsAmount' = 1 /\ mutex' = c /\ pc' = [pc EXCEPT ![c] = "first"]
      \/ clientsAmount' # 1 /\ mutex' = NoConn /\ pc' = [pc EXCEPT ![c] = "recv"]
  BY <1>1 DEF Register, Goto
<1>3. CountTypes'
  BY <1>1, <1>2 DEF CountTypes, PCs, Threads, Serving
<1>4. Counted' = Counted \cup {c} /\ c \notin Counted
  BY <1>1, <1>2 DEF CountTypes, Counted, Threads, Serving, Terminating
<1>5. Passed' = Passed
  BY <1>1, <1>2 DEF CountTypes, Passed, Threads
<1>6. CountIsExact'
  BY <1>1, <1>4, FiniteCounts, FS_AddElement DEF CountIsExact, CountTypes
<1>7. MutexHolder'
  BY <1>1, <1>2, RegistryAssumption DEF MutexHolder, CountTypes, Threads
<1>8. SemaphoreBalance'
  BY <1>1, <1>2, <1>5, RegistryAssumption
     DEF SemaphoreBalance, Posts, CountTypes
<1> QED
  BY <1>3, <1>6, <1>7, <1>8

(***************************************************************************)
(* The wait for the semaphore in creg_register takes the only post.        *)
(***************************************************************************)
LEMMA RegisterFirstCount ==
    ASSUME CountInv, NEW c \in Conns, RegisterFirst(c)
    PROVE  CountInv'
<1> USE DEF CountInv
<1>1. /\ pc[c] = "first" /\ semaphore > 0 /\ semaphore' = semaphore - 1
      /\ mutex' = NoConn /\ clientsAmount' = clientsAmount
      /\ pc' = [pc EXCEPT ![c] = "recv"]
  BY DEF RegisterFirst, At, Goto
<1>2. mutex = c /\ clientsAmount = 1
  BY <1>1, RegistryAssumption DEF MutexHolder
<1>3. CountTypes'
  BY <1>1 DEF CountTypes, PCs, Threads, Serving
<1>4. Counted' = Counted /\ Passed' = Passed
  BY <1>1 DEF CountTypes, Counted, Passed, Threads, Serving, Terminating
<1>5. CountIsExact'
  BY <1>1, <1>4 DEF CountIsExact
<1>6. MutexHolder'
  BY <1>1, <1>2, RegistryAssumption DEF MutexHolder, CountTypes, Threads
<1>7. Cardinality(Passed) \in Nat
  BY FiniteCounts
<1>8. SemaphoreBalance'
  BY <1>1, <1>2, <1>4, <1>7, RegistryAssumption
     DEF SemaphoreBalance, Posts, CountTypes
<1> QED
  BY <1>3, <1>5, <1>6, <1>8

(***************************************************************************)
(* creg_unregister drops the count of a client that is in the table, and   *)
(* posts the semaphore for the last; one that is not stays counted.        *)
(***************************************************************************)
LEMMA UnregisterCount ==
    ASSUME CountInv, NEW c \in Conns, Unregister(c)
    PROVE  CountInv'
<1> USE DEF CountInv
<1>1. pc[c] = "unregister" /\ mutex = NoConn /\ mutex' = NoConn
  BY DEF Unregister, At
<1>2. c \in Counted
  BY <1>1 DEF Counted, Serving
<1>3. CASE SlotsOf(c) = {}
  <2>1. /\ pc' = [pc EXCEPT ![c] = "lost"]
        /\ UNCHANGED <<clientsAmount, mutex, semaphore>>
    BY <1>3 DEF Unregister, Goto
  <2>2. pc' \in [Threads -> PCs]
    BY <2>1 DEF CountTypes, PCs
  <2>3. \A d \in Conns : /\ pc'[d] = "first" <=> pc[d] = "first"
                         /\ pc'[d] \in Serving \cup {"first", "lost"}
                              <=> pc[d] \in Serving \cup {"first", "lost"}
    BY <1>1, <2>1 DEF CountTypes, Threads, Serving, Terminating
  <2>4. \A t \in Threads : pc'[t] = "fini" <=> pc[t] = "fini"
    BY <1>1, <2>1 DEF CountTypes, Threads
  <2> QED
    BY <2>1, <2>2, <2>3, <2>4, SameCount
<1>4. CASE SlotsOf(c) # {}
  <2>1. /\ clientsAmount' = clientsAmount - 1
        /\ semaphore' = IF clientsAmount' = 0 THEN semaphore + 1 ELSE semaphore
        /\ pc' = [pc EXCEPT ![c] = "gone"]
    BY <1>4 DEF Unregister, Goto
  <2>1a. \/ clientsAmount' = 0 /\ semaphore' = semaphore + 1
         \/ clientsAmount' # 0 /\ semaphore' = semaphore
    BY <2>1
  <2>2. Counted' = Counted \ {c}
    BY <1>1, <2>1 DEF CountTypes, Counted, Threads, Serving, Terminating
  <2>3. Passed' = Passed
    BY <1>1, <2>1 DEF CountTypes, Passed, Threads
  <2>4. /\ Cardinality(Counted') = Cardinality(Counted) - 1
        /\ Cardinality(Counted') \in Nat /\ Cardinality(Passed) \in Nat
    BY <1>2, <2>2, FiniteCounts, FS_RemoveElement, FS_CardinalityType
  <2>5. CountIsExact' /\ clientsAmount' \in Nat /\ clientsAmount > 0
    BY <2>1, <2>4 DEF CountIsExact, CountTypes
  <2>6. CountTypes'
    <3>1. pc' \in [Threads -> PCs]
      BY <2>1 DEF CountTypes, PCs
    <3>2. semaphore' \in Nat
      <4>1. semaphore \in Nat
        BY DEF CountTypes
      <4> QED
        BY <2>1a, <4>1
    <3>3. mutex' \in Conns \cup {NoConn}
      BY <1>1
    <3> QED
      BY <2>5, <3>1, <3>2, <3>3 DEF CountTypes
  <2>7. MutexHolder'
    BY <1>1, <2>1, RegistryAssumption DEF MutexHolder, CountTypes, Threads
  <2>8. SemaphoreBalance'
    <3>1. Posts = 0 /\ Posts' = semaphore' + Cardinality(Passed)
      BY <1>1, <2>3, <2>5 DEF SemaphoreBalance, Posts
    <3>2. Posts' = IF clientsAmount' = 0 THEN 1 ELSE 0
      <4>1. semaphore \in Nat /\ Cardinality(Passed) \in Nat
        BY <2>4 DEF CountTypes
      <4>2. semaphore + Cardinality(Passed) = 0
        BY <3>1 DEF Posts
      <4>3. semaphore = 0 /\ Cardinality(Passed) = 0
        BY <4>1, <4>2
      <4>4. CASE clientsAmount' = 0
        BY <2>1a, <3>1, <4>3, <4>4
      <4>5. CASE clientsAmount' # 0
        BY <2>1a, <3>1, <4>3, <4>5
      <4> QED
        BY <4>4, <4>5
    <3> QED
      BY <1>1, <2>5, <3>2 DEF SemaphoreBalance
  <2> QED
    BY <2>5, <2>6, <2>7, <2>8
<1> QED
  BY <1>3, <1>4

(***************************************************************************)
(* creg_wait_for_empty takes a post and keeps it.                          *)
(***************************************************************************)
LEMMA WaitCount ==
    ASSUME CountInv, NEW t \in Threads, WaitForEmpty(t)
    PROVE  CountInv'
<1> USE DEF CountInv
<1>1. /\ pc[t] = "wait" /\ semaphore > 0 /\ semaphore' = semaphore - 1
      /\ UNCHANGED <<mutex, clientsAmount>>
      /\ pc' = [pc EXCEPT ![t] = "fini"]
  BY DEF WaitForEmpty, At, Goto
<1>2. CountTypes'
  BY <1>1 DEF CountTypes, PCs, Serving, Terminating
<1>3. Counted' = Counted
  BY <1>1 DEF CountTypes, Counted, Threads, Serving, Terminating
<1>4. Passed' = Passed \cup {t} /\ t \notin Passed
  BY <1>1 DEF CountTypes, Passed
<1>5. /\ Cardinality(Passed') = Cardinality(Passed) + 1
      /\ Cardinality(Passed) \in Nat
  BY <1>4, FiniteCounts, FS_AddElement
<1>6. CountIsExact'
  BY <1>1, <1>3 DEF CountIsExact
<1>7. MutexHolder'
  BY <1>1 DEF MutexHolder, CountTypes, Threads
<1>8. SemaphoreBalance'
  BY <1>1, <1>5 DEF SemaphoreBalance, Posts, CountTypes
<1> QED
  BY <1>2, <1>6, <1>7, <1>8

(***************************************************************************)
(* Every other step of a service thread stays between register and         *)
(* unregister; accept and the signal bring nobody there.                   *)
(***************************************************************************)
LEMMA ServiceCount ==
    ASSUME CountInv, NEW c \in Conns,
           \/ LoginScan(c) \/ LoginSet(c) \/ InviteScan(c) \/ LookupRef(c)
           \/ InviteSend(c) \/ Users(c) \/ UsersSend(c) \/ Hangup(c)
           \/ ReadEof(c)
    PROVE  CountInv'
<1> DEFINE Inner == Serving \ Terminating
<1>1. UNCHANGED <<clientsAmount, mutex, semaphore>>
  BY DEF LoginScan, LoginSet, InviteScan, LookupRef, InviteSend, Users,
         UsersSend, Hangup, ReadEof
<1>2. \/ pc' = pc
      \/ pc[c] \in Inner /\ \E s \in Inner : pc' = [pc EXCEPT ![c] = s]
  <2>1. CASE LoginScan(c)
    BY <2>1 DEF LoginScan, At, Goto, Serving, Terminating
  <2>2. CASE LoginSet(c)
    BY <2>2 DEF LoginSet, At, Goto, Serving, Terminating
  <2>3. CASE InviteScan(c)
    BY <2>3 DEF InviteScan, At, Goto, Serving, Terminating
  <2>4. CASE LookupRef(c)
    BY <2>4 DEF LookupRef, At, Goto, Serving, Terminating
  <2>5. CASE InviteSend(c)
    BY <2>5 DEF InviteSend, At, Goto, Serving, Terminating
  <2>6. CASE Users(c)
    BY <2>6 DEF Users, At, Goto, Serving, Terminating
  <2>7. CASE UsersSend(c)
    BY <2>7 DEF UsersSend, At, Goto, Serving, Terminating
  <2>8. CASE Hangup(c)
    BY <2>8 DEF Hangup
  <2>9. CASE ReadEof(c)
    BY <2>9 DEF ReadEof, At, Goto, Serving, Terminating
  <2> QED
    BY <2>1, <2>2, <2>3, <2>4, <2>5, <2>6, <2>7, <2>8, <2>9
<1>3. CASE pc' = pc
  BY <1>1, <1>3, SameCount DEF CountInv, CountTypes
<1>4. ASSUME pc[c] \in Inner, NEW s \in Inner, pc' = [pc EXCEPT ![c] = s]
      PROVE  CountInv'
  <2>1. pc' \in [Threads -> PCs]
    BY <1>4 DEF CountInv, CountTypes, PCs
  <2>2. \A d \in Conns : /\ pc'[d] = "first" <=> pc[d] = "first"
                         /\ pc'[d] \in Serving \cup {"first", "lost"}
                              <=> pc[d] \in Serving \cup {"first", "lost"}
    BY <1>4 DEF CountInv, CountTypes, Threads, Serving, Terminating
  <2>3. \A t \in Threads : pc'[t] = "fini" <=> pc[t] = "fini"
    BY <1>4 DEF CountInv, CountTypes, Threads, Serving, Terminating
  <2> QED
    BY <1>1, <2>1, <2>2, <2>3, SameCount
<1> QED
  BY <1>2, <1>3, <1>4

\* accept registers nobody yet.
LEMMA AcceptCount ==
    ASSUME CountInv, NEW c \in Conns, Accept(c)
    PROVE  CountInv'
<1>1. /\ pc[c] = "none" /\ pc[Main] = "accept"
      /\ UNCHANGED <<clientsAmount, mutex, semaphore>>
  BY DEF Accept, At
<1>2. PICK s \in {"accept", "shutdown"} :
         pc' = [pc EXCEPT ![c] = "register", ![Main] = s]
  BY DEF Accept
<1>3. c \in Threads /\ Main \in Threads /\ c # Main /\ Main \notin Conns
  BY RegistryAssumption DEF Threads
<1>4. pc' \in [Threads -> PCs]
  BY <1>2, <1>3 DEF CountInv, CountTypes, PCs, Serving, Terminating
<1>5. \A d \in Conns : pc'[d] = IF d = c THEN "register" ELSE pc[d]
  BY <1>2, <1>3 DEF CountInv, CountTypes, Threads
<1>6. \A d \in Conns : /\ pc'[d] = "first" <=> pc[d] = "first"
                       /\ pc'[d] \in Serving \cup {"first", "lost"}
                            <=> pc[d] \in Serving \cup {"first", "lost"}
  BY <1>1, <1>5 DEF Serving, Terminating
<1>7. \A t \in Threads : pc'[t] = "fini" <=> pc[t] = "fini"
  BY <1>1, <1>2, <1>3 DEF CountInv, CountTypes
<1> QED
  BY <1>1, <1>4, <1>6, <1>7, SameCount

\* A signal and the steps of terminate leave the count alone.
LEMMA SignalCount ==
    ASSUME CountInv, NEW t \in Threads,
           Sighup(t) \/ ShutdownAll(t) \/ Exit(t)
    PROVE  CountInv'
<1>1. UNCHANGED <<clientsAmount, mutex, semaphore>>
  BY DEF Sighup, ShutdownAll, Exit
<1>2. CASE Exit(t)
  BY <1>1, <1>2, SameCount DEF Exit, CountInv, CountTypes
<1>3. CASE Sighup(t) \/ ShutdownAll(t)
  <2>1. PICK s \in {"shutdown", "wait"} : pc' = [pc EXCEPT ![t] = s]
    BY <1>3 DEF Sighup, ShutdownAll, Goto
  <2>2. /\ pc[t] \in {"accept", "recv", "shutdown"}
        /\ t \in Conns => pc[t] \in {"recv", "shutdown"}
    BY <1>3, RegistryAssumption DEF Sighup, ShutdownAll, At
  <2>3. pc' \in [Threads -> PCs]
    BY <2>1 DEF CountInv, CountTypes, PCs, Serving, Terminating
  <2>4. \A d \in Conns : /\ pc'[d] = "first" <=> pc[d] = "first"
                         /\ pc'[d] \in Serving \cup {"first", "lost"}
                              <=> pc[d] \in Serving \cup {"first", "lost"}
    BY <2>1, <2>2 DEF CountInv, CountTypes, Threads, Serving, Terminating
  <2>5. \A u \in Threads : pc'[u] = "fini" <=> pc[u] = "fini"
    BY <2>1, <2>2 DEF CountInv, CountTypes
  <2> QED
    BY <1>1, <2>3, <2>4, <2>5, SameCount
<1> QED
  BY <1>2, <1>3

(***************************************************************************)
(* Every step preserves the invariant.                                     *)
(***************************************************************************)
LEMMA NextCount == CountInv /\ [Next]_vars => CountInv'
<1> SUFFICES ASSUME CountInv, [Next]_vars PROVE CountInv'
  OBVIOUS
<1>1. CASE UNCHANGED vars
  BY <1>1, SameCount DEF vars, CountInv, CountTypes
<1>2. ASSUME NEW c \in Conns, Accept(c) PROVE CountInv'
  BY <1>2, AcceptCount
<1>3. ASSUME NEW c \in Conns, Proceed(c) PROVE CountInv'
  BY <1>3, RegisterCount, RegisterFirstCount, UnregisterCount, ServiceCount
     DEF Proceed
<1>4. ASSUME NEW c \in Conns, Request(c) PROVE CountInv'
  BY <1>4, ServiceCount DEF Request
<1>5. ASSUME NEW c \in Conns, Hangup(c) \/ ReadEof(c) PROVE CountInv'
  BY <1>5, ServiceCount
<1>6. ASSUME NEW t \in Threads, Sighup(t) \/ Terminate(t) PROVE CountInv'
  BY <1>6, SignalCount, WaitCount DEF Terminate
<1> QED
  BY <1>1, <1>2, <1>3, <1>4, <1>5, <1>6 DEF Next

\* CountInv is an invariant.
LEMMA CountInvariant == Spec => []CountInv
BY InitCount, NextCount, PTL DEF Spec

-----------------------------------------------------------------------------
(***************************************************************************)
(* clientsAmount is exact however clients come and go, for any number of   *)
(* them and any size of the table.                                         *)
(***************************************************************************)
THEOREM ExactCount == Spec => []CountIsExact
<1>1. CountInv => CountIsExact
  BY DEF CountInv
<1> QED
  BY <1>1, CountInvariant, PTL

(***************************************************************************)
(* With the mutex free, the registry is empty exactly when its semaphore   *)
(* is posted or the post has been taken by a terminating thread.           *)
(***************************************************************************)
THEOREM SemaphoreFollowsCount == Spec => []SemaphoreTracksEmpty
<1>1. CountInv => SemaphoreTracksEmpty
  BY DEF CountInv, CountTypes, SemaphoreBalance, Posts, SemaphoreTracksEmpty
<1> QED
  BY <1>1, CountInvariant, PTL

(***************************************************************************)
(* When creg_wait_for_empty has returned, no service thread is serving a   *)
(* client, for any number of terminating threads.                          *)
(***************************************************************************)
THEOREM TerminatesUnderNobody == Spec => []NoExitUnderAClient
<1>1. CountInv => NoExitUnderAClient
  <2> SUFFICES ASSUME CountInv, Passed # {},
                      NEW c \in Conns, pc[c] \in Serving
               PROVE  FALSE
    BY DEF NoExitUnderAClient
  <2>1. Cardinality(Passed) > 0
    BY FiniteCounts, FS_EmptySet DEF CountInv
  <2>2. mutex # NoConn \/ clientsAmount = 0
    BY <2>1, FiniteCounts DEF CountInv, CountTypes, SemaphoreBalance, Posts
  <2>3. c \in Counted
    BY DEF Counted
  <2>4. Cardinality(Counted) # 0
    BY <2>3, FiniteCounts, FS_EmptySet DEF CountInv
  <2>5. CASE mutex # NoConn
    <3>1. mutex \in Conns /\ pc[mutex] = "first" /\ clientsAmount = 1
      BY <2>5 DEF CountInv, CountTypes, MutexHolder
    <3>2. mutex \in Counted /\ mutex # c
      BY <3>1 DEF Counted, Serving, Terminating
    <3>3. IsFiniteSet(Counted) /\ Cardinality(Counted) = 1
      BY <3>1, FiniteCounts DEF CountInv, CountIsExact
    <3>4. /\ IsFiniteSet(Counted \ {c})
          /\ Cardinality(Counted \ {c}) = Cardinality(Counted) - 1
      BY <2>3, <3>3, FS_RemoveElement
    <3>5. Cardinality(Counted \ {c}) = 0
      BY <3>3, <3>4
    <3> QED
      BY <3>2, <3>4, <3>5, FS_EmptySet
  <2> QED
    BY <2>2, <2>4, <2>5 DEF CountInv, CountIsExact
<1> QED
  BY <1>1, CountInvariant, PTL

-----------------------------------------------------------------------------
(***************************************************************************)
(* The table.  A client is in it while it is counted and has a thread; the *)
(* descriptors of two connections that are open differ; a thread that      *)
(* looks somebody up knows a slot, and the slot still holds whom it found  *)
(* or that client is gone.                                                 *)
(***************************************************************************)
DataTypes ==
    /\ clients \in [Slots -> Conns \cup {NoConn}]
    /\ player \in [Conns -> Names \cup {NoName}]
    /\ fd \in [Conns -> Nat]
    /\ eof \in [Conns -> BOOLEAN]
    /\ pc \in [Threads -> PCs]
    /\ frame \in [Conns -> Frames]
    /\ exitFlag \in BOOLEAN
    /\ status \in {"up", "crashed", "exited"}

Registered == Serving \cup {"first"}

TableFits == /\ \A i \in Slots : clients[i] # NoConn => pc[clients[i]] \in Registered
             /\ \A i, k \in Slots : clients[i] # NoConn /\ clients[k] = clients[i] => k = i

FdsDiffer == \A c, d \in Live : fd[c] = fd[d] => c = d

FrameFits(c) ==
    /\ pc[c] \in {"loginRef", "inviteRef"} =>
           frame[c].slot \in Slots /\ frame[c].seen \in Conns
    /\ pc[c] = "inviteRef" => \/ clients[frame[c].slot] = frame[c].seen
                             \/ pc[frame[c].seen] = "gone"
    /\ pc[c] = "inviteSend" => /\ frame[c].seen \in Conns
                               /\ \/ frame[c].peer = frame[c].seen
                                  \/ pc[frame[c].seen] = "gone"

TableInv == /\ DataTypes
            /\ TableFits
            /\ FdsDiffer
            /\ \A c \in Conns : FrameFits(c)

\* The first of some slots is one of them.
LEMMA FirstIn ==
    ASSUME NEW S \in SUBSET Slots, S # {}
    PROVE  First(S) \in S
<1>1. Slots \subseteq Int /\ IsFiniteSet(Slots)
  BY RegistryAssumption, FS_Interval DEF Slots
<1>2. S \in SUBSET Int /\ IsFiniteSet(S)
  BY <1>1, FS_Subset
<1> QED
  BY <1>2, LeastExists DEF First

(***************************************************************************)
(* With fewer connections than descriptors one is free, and so the lowest  *)
(* free one exists.                                                        *)
(***************************************************************************)
LEMMA LowestFdIsFree ==
    ASSUME DataTypes
    PROVE  LowestFd \in Nat /\ Owner(LowestFd) = {}
<1>1. PICK n \in Nat : n = Cardinality(Conns)
  BY RegistryAssumption, FS_CardinalityType
<1> DEFINE D == 1 .. (n + 1)
           S == {i \in D : FreeFd(i)}
<1>2. IsFiniteSet(D) /\ Cardinality(D) = n + 1
  BY FS_Interval
<1>3. S # {}
  <2> SUFFICES ASSUME \A i \in D : Owner(i) # {} PROVE FALSE
    BY DEF FreeFd
  <2>1. PICK f : f = [i \in D |-> CHOOSE c \in Conns : c \in Owner(i)]
    OBVIOUS
  <2>2. \A i \in D : f[i] \in Conns /\ fd[f[i]] = i
    BY <2>1 DEF Owner, Live
  <2>3. f \in [D -> Conns]
    BY <2>1, <2>2
  <2>4. \E x, y \in D : x # y /\ f[x] = f[y]
    BY <1>1, <1>2, <2>3, RegistryAssumption, FS_PigeonHole
  <2> QED
    BY <2>2, <2>4
<1>4. S \in SUBSET Int /\ IsFiniteSet(S)
  BY <1>2, FS_Subset
<1>5. PICK i \in S : \A k \in S : i <= k
  BY <1>3, <1>4, LeastExists
<1>6. i \in D /\ FreeFd(i) /\ \A m \in 1 .. i : FreeFd(m) => m = i
  BY <1>5
<1>7. LowestFd \in D /\ FreeFd(LowestFd)
  BY <1>1, <1>6 DEF LowestFd
<1> QED
  BY <1>7 DEF FreeFd

\* The registry starts with an empty table.
LEMMA InitTable == Init => TableInv
<1> SUFFICES ASSUME Init PROVE TableInv
  OBVIOUS
<1>1. DataTypes
  BY DEF Init, DataTypes, PCs, Frames, Idle
<1>2. \A c \in Conns : pc[c] = "none"
  BY RegistryAssumption DEF Init, Threads
<1>3. TableFits /\ FdsDiffer
  BY <1>2 DEF Init, TableFits, FdsDiffer, Live
<1> QED
  BY <1>1, <1>2, <1>3 DEF TableInv, FrameFits

(***************************************************************************)
(* Each variable keeps its type.                                           *)
(***************************************************************************)
LEMMA TypesStep ==
    ASSUME TableInv, [Next]_vars
    PROVE  DataTypes'
<1> USE DEF TableInv, DataTypes, Goto, At
<1>0. DataTypes /\ \A s \in Threads : pc[s] \in PCs
  BY DEF DataTypes
<1>1. CASE UNCHANGED vars
  BY <1>1 DEF vars
<1>2. ASSUME NEW c \in Conns, Accept(c) PROVE DataTypes'
  <2>1. LowestFd \in Nat
    BY LowestFdIsFree
  <2>2. fd' \in [Conns -> Nat]
    BY <1>2, <2>1 DEF Accept
  <2>3. PICK s \in {"accept", "shutdown"} :
           pc' = [pc EXCEPT ![c] = "register", ![Main] = s]
    BY <1>2 DEF Accept
  <2>4. pc' \in [Threads -> PCs]
    BY <2>3 DEF PCs, Serving, Terminating
  <2> QED
    BY <1>2, <2>2, <2>4 DEF Accept
<1>3. ASSUME NEW c \in Conns, Register(c) PROVE DataTypes'
  <2>1. pc' \in [Threads -> PCs]
    BY <1>3 DEF Register, PCs, Serving
  <2>2. clients' \in [Slots -> Conns \cup {NoConn}]
    BY <1>3 DEF Register
  <2> QED
    BY <1>3, <2>1, <2>2 DEF Register
<1>4. ASSUME NEW c \in Conns, Unregister(c) PROVE DataTypes'
  <2>1. pc' \in [Threads -> PCs]
    BY <1>4 DEF Unregister, PCs
  <2>2. clients' \in [Slots -> Conns \cup {NoConn}]
    BY <1>4 DEF Unregister
  <2> QED
    BY <1>4, <2>1, <2>2 DEF Unregister
<1>5. ASSUME NEW c \in Conns, LoginScan(c) \/ InviteScan(c) PROVE DataTypes'
  <2>1. pc' \in [Threads -> PCs]
    BY <1>5 DEF LoginScan, InviteScan, PCs, Serving
  <2>2. ASSUME NEW n \in Names, LoggedInAs(n) # {}
        PROVE  First(LoggedInAs(n)) \in Slots
               /\ clients[First(LoggedInAs(n))] \in Conns
    <3>1. LoggedInAs(n) \in SUBSET Slots
      BY DEF LoggedInAs, Occupied
    <3>2. PICK i : i = First(LoggedInAs(n))
      OBVIOUS
    <3>3. i \in LoggedInAs(n)
      BY <2>2, <3>1, <3>2, FirstIn
    <3> QED
      BY <3>2, <3>3 DEF LoggedInAs, Occupied, SlotsOf
  <2>3. ASSUME NEW n \in Names, LoggedInAs(n) # {}
        PROVE  Found(n, First(LoggedInAs(n))) \in Frames
    BY <2>2, <2>3 DEF Found, Frames
  <2>4. frame' \in [Conns -> Frames]
    <3>1. PICK n \in Names :
              \/ frame' = [frame EXCEPT ![c].name = n]
              \/ /\ LoggedInAs(n) # {}
                 /\ frame' = [frame EXCEPT ![c] = Found(n, First(LoggedInAs(n)))]
      BY <1>5 DEF LoginScan, InviteScan
    <3>2. [frame EXCEPT ![c].name = n] \in [Conns -> Frames]
      BY DEF Frames
    <3> QED
      BY <2>3, <3>1, <3>2
  <2> QED
    BY <1>5, <2>1, <2>4 DEF LoginScan, InviteScan
<1>6. ASSUME NEW c \in Conns, LookupRef(c) PROVE DataTypes'
  <2>1. FrameFits(c) /\ pc[c] \in {"loginRef", "inviteRef"}
    BY <1>6 DEF LookupRef
  <2>2. PICK d \in Conns \cup {NoConn} : d = clients[frame[c].slot]
    BY <2>1 DEF FrameFits
  <2>3. pc' \in [Threads -> PCs]
    BY <1>6 DEF LookupRef, PCs, Serving
  <2>4. frame' \in [Conns -> Frames]
    <3>1. \/ frame' = frame
          \/ frame' = [frame EXCEPT ![c] = Idle]
          \/ frame' = [frame EXCEPT ![c].peer = d]
      BY <1>6, <2>2 DEF LookupRef
    <3>2. Idle \in Frames
      BY DEF Idle, Frames
    <3>3. [frame EXCEPT ![c].peer = d] \in [Conns -> Frames]
      BY DEF Frames
    <3> QED
      BY <3>1, <3>2, <3>3
  <2>5. status' \in {"up", "crashed", "exited"}
    BY <1>6 DEF LookupRef
  <2> QED
    BY <1>6, <2>3, <2>4, <2>5 DEF LookupRef
<1>7. ASSUME NEW c \in Conns, LoginSet(c) \/ InviteSend(c) PROVE DataTypes'
  <2>1. pc' \in [Threads -> PCs]
    BY <1>7 DEF LoginSet, InviteSend, PCs, Serving
  <2>2. Idle \in Frames /\ frame[c].name \in Names \cup {NoName}
    BY DEF Idle, Frames
  <2> QED
    BY <1>7, <2>1, <2>2 DEF LoginSet, InviteSend
<1>8. ASSUME NEW c \in Conns, \/ RegisterFirst(c) \/ Users(c) \/ UsersSend(c)
                              \/ Hangup(c) \/ ReadEof(c)
      PROVE  DataTypes'
  <2>1. pc' \in [Threads -> PCs]
    BY <1>8 DEF RegisterFirst, Users, UsersSend, Hangup, ReadEof, PCs, Serving
  <2>2. player' \in [Conns -> Names \cup {NoName}] /\ eof' \in [Conns -> BOOLEAN]
    BY <1>8 DEF RegisterFirst, Users, UsersSend, Hangup, ReadEof
  <2> QED
    BY <1>8, <2>1, <2>2 DEF RegisterFirst, Users, UsersSend, Hangup, ReadEof
<1>9. ASSUME NEW t \in Threads, Sighup(t) \/ Terminate(t) PROVE DataTypes'
  <2>1. pc' \in [Threads -> PCs]
    BY <1>9 DEF Sighup, Terminate, ShutdownAll, WaitForEmpty, Exit, PCs, Serving,
                Terminating
  <2>2. eof' \in [Conns -> BOOLEAN] /\ exitFlag' \in BOOLEAN
        /\ status' \in {"up", "crashed", "exited"}
    BY <1>9 DEF Sighup, Terminate, ShutdownAll, WaitForEmpty, Exit
  <2> QED
    BY <1>9, <2>1, <2>2 DEF Sighup, Terminate, ShutdownAll, WaitForEmpty, Exit
<1> QED
  BY <1>1, <1>2, <1>3, <1>4, <1>5, <1>6, <1>7, <1>8, <1>9 DEF Next, Proceed, Request

(***************************************************************************)
(* A thread of a client in the table, or main, that goes on to another     *)
(* step, with the table and the descriptors as they are, keeps the rest.   *)
(***************************************************************************)
LEMMA SameTable ==
    ASSUME TableInv, NEW t \in Threads, UNCHANGED <<clients, fd>>,
           \A d \in Conns \ {t} : pc'[d] = pc[d] /\ frame'[d] = frame[d],
           t \in Conns => /\ pc[t] \in Registered /\ pc'[t] \in Registered
                          /\ FrameFits(t)'
    PROVE  TableFits' /\ FdsDiffer' /\ \A c \in Conns : FrameFits(c)'
<1>1. \A d \in Conns : /\ pc[d] \in Registered => pc'[d] \in Registered
                       /\ pc[d] = "gone" => pc'[d] = "gone"
  BY DEF Registered, Serving, Terminating
<1>2. TableFits'
  BY <1>1 DEF TableInv, TableFits, DataTypes
<1>3. Live' \subseteq Live
  BY DEF Live, Registered, Serving, Terminating
<1>4. FdsDiffer'
  BY <1>3 DEF TableInv, FdsDiffer
<1>5. ASSUME NEW c \in Conns, c # t PROVE FrameFits(c)'
  <2>1. /\ FrameFits(c) /\ pc'[c] = pc[c] /\ frame'[c] = frame[c]
        /\ clients' = clients
    BY <1>5 DEF TableInv
  <2> QED
    BY <1>1, <2>1 DEF FrameFits
<1> QED
  BY <1>2, <1>4, <1>5

(***************************************************************************)
(* A connection that is accepted gets a descriptor no other one has.       *)
(***************************************************************************)
LEMMA AcceptTable ==
    ASSUME TableInv, NEW c \in Conns, Accept(c)
    PROVE  TableFits' /\ FdsDiffer' /\ \A d \in Conns : FrameFits(d)'
<1>1. PICK s \in {"accept", "shutdown"} :
          pc' = [pc EXCEPT ![c] = "register", ![Main] = s]
  BY DEF Accept
<1>2. pc[c] = "none" /\ clients' = clients /\ frame' = frame
  BY DEF Accept
<1>3. \A d \in Conns : pc'[d] = IF d = c THEN "register" ELSE pc[d]
  BY <1>1, RegistryAssumption DEF TableInv, DataTypes, Threads
<1>4. PICK n : n = LowestFd
  OBVIOUS
<1>5. n \in Nat /\ \A d \in Live : fd[d] # n
  BY <1>4, LowestFdIsFree DEF TableInv, Owner
<1>6. \A d \in Conns : fd'[d] = IF d = c THEN n ELSE fd[d]
  BY <1>4 DEF Accept, TableInv, DataTypes
<1>7. TableFits'
  BY <1>2, <1>3 DEF TableInv, TableFits, DataTypes, Registered, Serving, Terminating
<1>8. Live' = Live \cup {c}
  BY <1>3 DEF Live
<1>9. FdsDiffer'
  <2> SUFFICES ASSUME NEW a \in Live', NEW b \in Live', fd'[a] = fd'[b] PROVE a = b
    BY DEF FdsDiffer
  <2>1. a \in Conns /\ b \in Conns /\ (a = c \/ a \in Live) /\ (b = c \/ b \in Live)
    BY <1>8 DEF Live
  <2> QED
    BY <1>5, <1>6, <2>1 DEF TableInv, FdsDiffer
<1>10. ASSUME NEW d \in Conns PROVE FrameFits(d)'
  BY <1>2, <1>3 DEF TableInv, FrameFits
<1> QED
  BY <1>7, <1>9, <1>10

(***************************************************************************)
(* A client that registers was not in the table, and takes a slot that     *)
(* nobody had.                                                             *)
(***************************************************************************)
LEMMA RegisterTable ==
    ASSUME TableInv, NEW c \in Conns, Register(c)
    PROVE  TableFits' /\ FdsDiffer' /\ \A d \in Conns : FrameFits(d)'
<1>1. pc[c] = "register" /\ fd' = fd /\ frame' = frame
  BY DEF Register, At
<1>2. PICK s \in {"first", "recv"} : pc' = [pc EXCEPT ![c] = s]
  BY DEF Register, Goto
<1>3. \A d \in Conns : pc'[d] = IF d = c THEN s ELSE pc[d]
  BY <1>2 DEF TableInv, DataTypes, Threads
<1>4. \/ clients' = clients
      \/ \E i \in Slots : clients[i] = NoConn /\ clients' = [clients EXCEPT ![i] = c]
  <2>1. CASE SlotsOf(NoConn) = {}
    BY <2>1 DEF Register
  <2>2. CASE SlotsOf(NoConn) # {}
    <3>1. PICK i : i = First(SlotsOf(NoConn))
      OBVIOUS
    <3>2. i \in SlotsOf(NoConn)
      BY <2>2, <3>1, FirstIn DEF SlotsOf
    <3> QED
      BY <2>2, <3>1, <3>2 DEF Register, SlotsOf
  <2> QED
    BY <2>1, <2>2
<1>5. \A i \in Slots : clients[i] # c
  BY <1>1, RegistryAssumption DEF TableInv, TableFits, Registered, Serving, Terminating
<1>6. TableFits'
  BY <1>1, <1>3, <1>4, <1>5, RegistryAssumption
     DEF TableInv, DataTypes, TableFits, Registered, Serving
<1>7. Live' = Live
  BY <1>1, <1>3 DEF Live
<1>8. FdsDiffer'
  BY <1>1, <1>7 DEF TableInv, FdsDiffer
<1>9. ASSUME NEW d \in Conns PROVE FrameFits(d)'
  <2>1. CASE d = c
    BY <1>3, <2>1 DEF FrameFits
  <2>2. CASE d # c
    <3>1. /\ FrameFits(d) /\ pc'[d] = pc[d] /\ frame'[d] = frame[d]
          /\ \A e \in Conns : pc[e] = "gone" => pc'[e] = "gone"
      BY <1>1, <1>3, <2>2 DEF TableInv
    <3>2. \A i \in Slots : clients[i] \in Conns => clients'[i] = clients[i]
      BY <1>4, RegistryAssumption DEF TableInv, DataTypes
    <3> QED
      BY <3>1, <3>2 DEF FrameFits
  <2> QED
    BY <2>1, <2>2
<1> QED
  BY <1>6, <1>8, <1>9

(***************************************************************************)
(* A client that unregisters gives up its only slot and is gone, or had    *)
(* none and is lost.                                                       *)
(***************************************************************************)
LEMMA UnregisterTable ==
    ASSUME TableInv, NEW c \in Conns, Unregister(c)
    PROVE  TableFits' /\ FdsDiffer' /\ \A d \in Conns : FrameFits(d)'
<1>1. pc[c] = "unregister" /\ fd' = fd /\ frame' = frame
  BY DEF Unregister, At
<1>2. PICK s \in {"lost", "gone"} :
          /\ pc' = [pc EXCEPT ![c] = s]
          /\ \/ /\ s = "lost" /\ clients' = clients
                /\ \A i \in Slots : clients[i] # c
             \/ /\ s = "gone"
                /\ \E i \in Slots : clients[i] = c /\ clients' = [clients EXCEPT ![i] = NoConn]
  <2>1. CASE SlotsOf(c) = {}
    BY <2>1 DEF Unregister, Goto, SlotsOf
  <2>2. CASE SlotsOf(c) # {}
    <3>1. PICK i : i = First(SlotsOf(c))
      OBVIOUS
    <3>2. i \in SlotsOf(c)
      BY <2>2, <3>1, FirstIn DEF SlotsOf
    <3> QED
      BY <2>2, <3>1, <3>2 DEF Unregister, Goto, SlotsOf
  <2> QED
    BY <2>1, <2>2
<1>3. \A d \in Conns : pc'[d] = IF d = c THEN s ELSE pc[d]
  BY <1>2 DEF TableInv, DataTypes, Threads
<1>4. \A i \in Slots : /\ clients'[i] # c
                       /\ clients'[i] = clients[i] \/ (clients[i] = c /\ clients'[i] = NoConn)
  BY <1>2, RegistryAssumption DEF TableInv, DataTypes, TableFits
<1>5. TableFits'
  BY <1>3, <1>4, RegistryAssumption DEF TableInv, DataTypes, TableFits
<1>6. Live' \subseteq Live
  BY <1>1, <1>3 DEF Live
<1>7. FdsDiffer'
  BY <1>1, <1>6 DEF TableInv, FdsDiffer
<1>8. ASSUME NEW d \in Conns PROVE FrameFits(d)'
  <2>1. CASE d = c
    BY <1>2, <1>3, <2>1 DEF FrameFits
  <2>2. CASE d # c
    <3>1. FrameFits(d) /\ pc'[d] = pc[d] /\ frame'[d] = frame[d]
      BY <1>1, <1>3, <2>2 DEF TableInv
    <3>2. \A i \in Slots : clients'[i] = clients[i] \/ (clients[i] = c /\ s = "gone")
      BY <1>2, <1>4
    <3>3. pc'[c] = s /\ \A e \in Conns : pc[e] = "gone" => pc'[e] = "gone"
      BY <1>1, <1>3
    <3> QED
      BY <3>1, <3>2, <3>3 DEF FrameFits
  <2> QED
    BY <2>1, <2>2
<1> QED
  BY <1>5, <1>7, <1>8

(***************************************************************************)
(* A lookup returns whom it found, or that client has gone.                *)
(***************************************************************************)
LEMMA LookupTable ==
    ASSUME TableInv, NEW c \in Conns,
           LoginScan(c) \/ InviteScan(c) \/ LookupRef(c)
    PROVE  TableFits' /\ FdsDiffer' /\ \A d \in Conns : FrameFits(d)'
<1>1. /\ UNCHANGED <<clients, fd>>
      /\ pc[c] \in {"recv", "loginRef", "inviteRef"}
  BY DEF LoginScan, InviteScan, LookupRef, At
<1>2. \A d \in Conns \ {c} : pc'[d] = pc[d] /\ frame'[d] = frame[d]
  <2>1. \/ pc' = pc
        \/ \E s \in PCs : pc' = [pc EXCEPT ![c] = s]
    BY DEF LoginScan, InviteScan, LookupRef, Goto, PCs, Serving
  <2>2. \/ frame' = frame
        \/ \E n : frame' = [frame EXCEPT ![c].name = n]
        \/ \E n : frame' = [frame EXCEPT ![c].peer = n]
        \/ \E g : frame' = [frame EXCEPT ![c] = g]
    BY DEF LoginScan, InviteScan, LookupRef
  <2>3. \A d \in Conns \ {c} : pc'[d] = pc[d]
    BY <2>1 DEF TableInv, DataTypes, Threads
  <2>4. \A d \in Conns \ {c} : frame'[d] = frame[d]
    BY <2>2 DEF TableInv, DataTypes
  <2> QED
    BY <2>3, <2>4
<1>3. CASE LoginScan(c) \/ InviteScan(c)
  <2>1. PICK n \in Names, s \in {"loginSet", "loginRef", "inviteRef"} :
            /\ pc' = [pc EXCEPT ![c] = s]
            /\ \/ s = "loginSet"
               \/ /\ LoggedInAs(n) # {}
                  /\ frame' = [frame EXCEPT ![c] = Found(n, First(LoggedInAs(n)))]
    BY <1>3 DEF LoginScan, InviteScan, Goto
  <2>2. pc'[c] = s
    BY <2>1 DEF TableInv, DataTypes, Threads
  <2>3. ASSUME s = "loginSet" PROVE FrameFits(c)'
    BY <2>2, <2>3 DEF FrameFits
  <2>4. ASSUME s # "loginSet" PROVE FrameFits(c)'
    <3>1. PICK i : i = First(LoggedInAs(n))
      OBVIOUS
    <3>2. LoggedInAs(n) \in SUBSET Slots /\ i \in LoggedInAs(n)
      BY <2>1, <2>4, <3>1, FirstIn DEF LoggedInAs, Occupied
    <3>3. i \in Slots /\ clients[i] \in Conns
      BY <3>2 DEF LoggedInAs, Occupied, SlotsOf, TableInv, DataTypes
    <3>4. frame'[c].slot = i /\ frame'[c].seen = clients[i]
      BY <2>1, <2>4, <3>1 DEF Found, TableInv, DataTypes
    <3> QED
      BY <1>1, <2>2, <2>4, <3>3, <3>4 DEF FrameFits
  <2>5. FrameFits(c)'
    BY <2>3, <2>4
  <2>6. pc[c] \in Registered /\ pc'[c] \in Registered
    BY <1>1, <2>2 DEF Registered, Serving
  <2> QED
    BY <1>1, <1>2, <2>5, <2>6, SameTable DEF Threads
<1>4. CASE LookupRef(c)
  <2>1. FrameFits(c) /\ pc[c] \in {"loginRef", "inviteRef"}
    BY <1>4 DEF LookupRef, At, TableInv
  <2>2. PICK d : d = clients[frame[c].slot]
    OBVIOUS
  <2>3. \/ pc' = pc /\ frame' = frame
        \/ pc' = [pc EXCEPT ![c] = "recv"]
        \/ /\ pc[c] = "inviteRef"
           /\ pc' = [pc EXCEPT ![c] = "inviteSend"]
           /\ frame' = [frame EXCEPT ![c].peer = d]
    BY <1>4, <2>1, <2>2 DEF LookupRef, Goto
  <2>4. FrameFits(c)'
    <3>1. ASSUME pc' = pc /\ frame' = frame PROVE FrameFits(c)'
      BY <1>1, <2>1, <3>1 DEF FrameFits
    <3>2. CASE pc' = [pc EXCEPT ![c] = "recv"]
      BY <3>2 DEF FrameFits, TableInv, DataTypes, Threads
    <3>3. CASE /\ pc[c] = "inviteRef"
               /\ pc' = [pc EXCEPT ![c] = "inviteSend"]
               /\ frame' = [frame EXCEPT ![c].peer = d]
      <4>1. frame'[c].peer = d /\ frame'[c].seen = frame[c].seen /\ pc'[c] = "inviteSend"
        BY <3>3 DEF TableInv, DataTypes, Frames, Threads
      <4>2. /\ frame[c].seen \in Conns
            /\ d = frame[c].seen \/ pc[frame[c].seen] = "gone"
        BY <2>1, <2>2, <3>3 DEF FrameFits
      <4>3. pc[frame[c].seen] = "gone" => pc'[frame[c].seen] = "gone"
        BY <3>3, <4>2 DEF TableInv, DataTypes
      <4> QED
        BY <4>1, <4>2, <4>3 DEF FrameFits
    <3> QED
      BY <2>3, <3>1, <3>2, <3>3
  <2>5. pc[c] \in Registered /\ pc'[c] \in Registered
    BY <2>1, <2>3 DEF Registered, Serving, TableInv, DataTypes, Threads
  <2> QED
    BY <1>1, <1>2, <2>4, <2>5, SameTable DEF Threads
<1> QED
  BY <1>3, <1>4

(***************************************************************************)
(* The other steps of service threads, and termination.                    *)
(***************************************************************************)
LEMMA ServiceTable ==
    ASSUME TableInv, NEW c \in Conns,
           \/ RegisterFirst(c) \/ LoginSet(c) \/ InviteSend(c) \/ Users(c)
           \/ UsersSend(c) \/ ReadEof(c)
    PROVE  TableFits' /\ FdsDiffer' /\ \A d \in Conns : FrameFits(d)'
<1> USE DEF Goto, At, TableInv, DataTypes
<1>1. /\ UNCHANGED <<clients, fd>>
      /\ pc' = [pc EXCEPT ![c] = pc'[c]]
      /\ frame' = frame \/ frame' = [frame EXCEPT ![c] = Idle]
  BY DEF RegisterFirst, LoginSet, InviteSend, Users, UsersSend, ReadEof, Threads
<1>2. \A d \in Conns \ {c} : pc'[d] = pc[d] /\ frame'[d] = frame[d]
  BY <1>1 DEF Threads
<1>3. /\ pc[c] \in {"first", "recv", "loginSet", "inviteSend", "users"}
      /\ pc'[c] \in {"recv", "users", "unregister"}
  BY DEF RegisterFirst, LoginSet, InviteSend, Users, UsersSend, ReadEof, Threads
<1>4. FrameFits(c)'
  BY <1>3 DEF FrameFits
<1>5. pc[c] \in Registered /\ pc'[c] \in Registered
  BY <1>3 DEF Registered, Serving
<1> QED
  BY <1>1, <1>2, <1>4, <1>5, SameTable DEF Threads

\* A thread that terminates stays in the table, if it was there.
LEMMA TerminateTable ==
    ASSUME TableInv, NEW t \in Threads,
           Sighup(t) \/ ShutdownAll(t) \/ WaitForEmpty(t)
    PROVE  TableFits' /\ FdsDiffer' /\ \A d \in Conns : FrameFits(d)'
<1>1. UNCHANGED <<clients, fd, frame>>
  BY DEF Sighup, ShutdownAll, WaitForEmpty
<1>2. PICK s \in Terminating : pc' = [pc EXCEPT ![t] = s]
  BY DEF Sighup, ShutdownAll, WaitForEmpty, Goto, Terminating
<1>3. \A d \in Conns \ {t} : pc'[d] = pc[d]
  BY <1>2 DEF TableInv, DataTypes, Threads
<1>4. ASSUME t \in Conns
      PROVE  pc[t] \in Registered /\ pc'[t] \in Registered /\ FrameFits(t)'
  <2>1. pc[t] \in {"recv", "shutdown", "wait"}
    BY <1>4, RegistryAssumption DEF Sighup, ShutdownAll, WaitForEmpty, At
  <2>2. pc'[t] = s
    BY <1>2 DEF TableInv, DataTypes
  <2> QED
    BY <2>1, <2>2 DEF Registered, Serving, Terminating, FrameFits
<1> QED
  BY <1>1, <1>3, <1>4, SameTable

\* Every step keeps the table sound.
LEMMA NextTable == TableInv /\ [Next]_vars => TableInv'
<1> SUFFICES ASSUME TableInv, [Next]_vars
             PROVE  TableFits' /\ FdsDiffer' /\ \A d \in Conns : FrameFits(d)'
  BY TypesStep DEF TableInv
<1>1. ASSUME UNCHANGED <<clients, fd, pc, frame>>
      PROVE  TableFits' /\ FdsDiffer' /\ \A d \in Conns : FrameFits(d)'
  BY <1>1 DEF TableInv, TableFits, FdsDiffer, FrameFits, Live
<1>2. CASE UNCHANGED vars
  BY <1>1, <1>2 DEF vars
<1>3. ASSUME NEW c \in Conns, Hangup(c)
      PROVE  TableFits' /\ FdsDiffer' /\ \A d \in Conns : FrameFits(d)'
  BY <1>1, <1>3 DEF Hangup
<1>4. ASSUME NEW t \in Threads, Exit(t)
      PROVE  TableFits' /\ FdsDiffer' /\ \A d \in Conns : FrameFits(d)'
  BY <1>1, <1>4 DEF Exit
<1>5. ASSUME NEW c \in Conns, Accept(c) \/ Proceed(c) \/ Request(c) \/ ReadEof(c)
      PROVE  TableFits' /\ FdsDiffer' /\ \A d \in Conns : FrameFits(d)'
  BY <1>5, AcceptTable, RegisterTable, UnregisterTable, LookupTable, ServiceTable
     DEF Proceed, Request
<1>6. ASSUME NEW t \in Threads, Sighup(t) \/ Terminate(t)
      PROVE  TableFits' /\ FdsDiffer' /\ \A d \in Conns : FrameFits(d)'
  BY <1>4, <1>6, TerminateTable DEF Terminate
<1> QED
  BY <1>2, <1>3, <1>5, <1>6 DEF Next

\* TableInv is an invariant.
LEMMA TableInvariant == Spec => []TableInv
BY InitTable, NextTable, PTL DEF Spec

(***************************************************************************)
(* ClientRegistry is type correct; the semaphore is posted at most once,   *)
(* which follows from its balance.                                         *)
(***************************************************************************)
THEOREM RegistryTypeCorrect == Spec => []TypeOK
<1>1. CountInv /\ TableInv => TypeOK
  <2> SUFFICES ASSUME CountInv, TableInv PROVE TypeOK
    OBVIOUS
  <2>1. Cardinality(Passed) \in Nat /\ semaphore \in Nat
    BY FiniteCounts DEF CountInv, CountTypes
  <2>2. semaphore \in {0, 1}
    BY <2>1 DEF CountInv, SemaphoreBalance, Posts
  <2> QED
    BY <2>2 DEF CountInv, CountTypes, TableInv, DataTypes, TypeOK, PCs
<1> QED
  BY <1>1, CountInvariant, TableInvariant, PTL

(***************************************************************************)
(* The table has a client at most once, while its thread is registered,    *)
(* and its descriptor is that of its own connection.                       *)
(***************************************************************************)
THEOREM TableStaysSound == Spec => []TableSound
<1>1. TableInv => TableSound
  <2> SUFFICES ASSUME TableInv, NEW i \in Slots, NEW k \in Slots, clients[i] # NoConn
               PROVE  /\ clients[i] \in Counted
                      /\ pc[clients[i]] # "lost"
                      /\ Owner(fd[clients[i]]) = {clients[i]}
                      /\ clients[k] = clients[i] => k = i
    BY DEF TableSound
  <2>1. clients[i] \in Conns /\ pc[clients[i]] \in Registered
    BY DEF TableInv, DataTypes, TableFits
  <2>2. clients[i] \in Counted /\ pc[clients[i]] # "lost" /\ clients[i] \in Live
    BY <2>1 DEF Counted, Live, Registered, Serving, Terminating
  <2>3. Owner(fd[clients[i]]) = {clients[i]}
    BY <2>2 DEF TableInv, FdsDiffer, Owner
  <2>4. clients[k] = clients[i] => k = i
    BY DEF TableInv, TableFits
  <2> QED
    BY <2>2, <2>3, <2>4
<1> QED
  BY <1>1, TableInvariant, PTL

(***************************************************************************)
(* INVITE reaches the client that was found under the name, unless that    *)
(* client has gone before the slot was read again.                         *)
(***************************************************************************)
THEOREM LookupsReturnFound == Spec => []LookupReturnsFound
<1>1. TableInv => LookupReturnsFound
  BY DEF TableInv, FrameFits, LookupReturnsFound
<1> QED
  BY <1>1, TableInvariant, PTL
=============================================================================
