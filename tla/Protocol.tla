------------------------------- MODULE Protocol -------------------------------
(***************************************************************************)
(* src/protocol.c on one direction of a connection: threads that send with *)
(* client_send_packet, client_send_ack and client_send_nack (src/client.c),*)
(* the stream of bytes, and one thread that receives.                      *)
(*                                                                         *)
(* A stream leads to the client, the server's threads sending and the      *)
(* client's program receiving, or to the server: then proto_recv_packet    *)
(* receives, creg_shutdown_all may shut its end down, and the client's     *)
(* program is taken to send as the server does.                            *)
(*                                                                         *)
(* A byte is the packet and the part it is of, with its place there; Junk  *)
(* is what lies in memory after a header or a payload, and what strangers  *)
(* write.  A read takes any number of the bytes that have arrived.  A      *)
(* write waits until the connection has room for all it is given, for ever *)
(* if the other end no longer reads, unless a signal interrupts it: then   *)
(* it may have taken fewer bytes, or none, and fail.  (No socket takes     *)
(* zero bytes and succeeds, so that branch is left out.)                   *)
(***************************************************************************)
EXTENDS Naturals, Sequences

CONSTANTS
    Senders,        \* the threads that send to this client
    NoSender,
    HeaderSize,     \* sizeof(JEUX_PACKET_HEADER), 16
    PayloadSizes,   \* the sizes a header may give, 0 .. 65535
    Junk,
    Capacity,       \* the bytes a connection holds that are not read
    MaxPackets,     \* a bound on the packets that are sent
    MaxMishaps      \* a bound on the interrupts and the bytes of strangers

Packets == [from : Senders, num : 1 .. MaxPackets, size : PayloadSizes]

\* The bytes of packets.
PacketBytes == Packets \X {"header", "payload"} \X Nat

ASSUME ProtocolAssumption ==
    /\ NoSender \notin Senders
    /\ HeaderSize \in Nat \ {0}
    /\ PayloadSizes \subseteq Nat
    /\ Junk \notin PacketBytes
    /\ Capacity \in Nat
    /\ MaxPackets \in Nat
    /\ MaxMishaps \in Nat

VARIABLES
    seph,        \* the thread that holds the semaphore of the client
    pc,          \* per sender: "idle", "wait", "header" or "payload"
    pkt,         \* per sender: the packet it sends
    bytesSent,   \* per sender: bytes_sent
    wire,        \* the bytes that were written and not read
    way,         \* where the stream leads: "toClient" or "toServer"
    link,        \* "up"; "shut" for reading; "closed" by the sender, or
                 \* "closing" while a write is under way; "reset"
    stage,       \* of the receiver: "header", "payload" or "failed"
    hdr,         \* the bytes of the header that were read
    payload,     \* the bytes of the payload that were read
    datasize,    \* the size that the header has given
    received,    \* the packets that proto_recv_packet has returned
    queue,       \* history: the packets of which something was written
    reported,    \* history: the packets for which 0 was returned
    stray,       \* history: the packets written to another connection
    calls,       \* how many packets were to be sent
    mishaps,     \* how many reads and writes were interrupted, and how many
                 \* bytes were written by strangers
    spoilt       \* history: a packet was cut off by an interrupt, or bytes
                 \* that are of no packet of this stream got into it

vars == <<seph, pc, pkt, bytesSent, wire, way, link, stage, hdr, payload,
          datasize, received, queue, reported, stray, calls, mishaps, spoilt>>

sender   == <<seph, pc, pkt, bytesSent, queue, reported, stray, calls>>
receiver == <<stage, hdr, payload, datasize, received>>

Header(p)  == [i \in 1 .. HeaderSize |-> <<p, "header", i>>]
Payload(p) == [i \in 1 .. p.size |-> <<p, "payload", i>>]
Bytes(p)   == Header(p) \o Payload(p)
Whole(p)   == [header |-> Header(p), payload |-> Payload(p)]

\* A packet that waits to be sent, or none (num 0).
NonePkt(t) == [from |-> t, num |-> 0, size |-> 0]

Init == /\ seph = NoSender
        /\ pc = [t \in Senders |-> "idle"]
        /\ pkt = [t \in Senders |-> NonePkt(t)]
        /\ bytesSent = [t \in Senders |-> 0]
        /\ wire = <<>>
        /\ way \in {"toClient", "toServer"}
        /\ link = "up"
        /\ stage = "header"
        /\ hdr = <<>> /\ payload = <<>> /\ datasize = 0
        /\ received = <<>>
        /\ queue = <<>>
        /\ reported = {}
        /\ stray = {}
        /\ calls = 0
        /\ mishaps = 0
        /\ spoilt = FALSE

-----------------------------------------------------------------------------
(***************************************************************************)
(* Sending.  A "Slip" is the definition that follows it with a plausible   *)
(* mistake in it; nothing uses it.                                         *)
(***************************************************************************)

Mishap == mishaps < MaxMishaps /\ mishaps' = mishaps + 1

\* A thread is to send its next packet.
Call(t) ==
    /\ pc[t] = "idle"
    /\ calls < MaxPackets /\ calls' = calls + 1
    /\ \E n \in PayloadSizes :
           pkt' = [pkt EXCEPT ![t] = [from |-> t, num |-> pkt[t].num + 1, size |-> n]]
    /\ pc' = [pc EXCEPT ![t] = "wait"]
    /\ UNCHANGED <<seph, bytesSent, wire, way, link, receiver, queue, reported,
                   stray, mishaps, spoilt>>

\* Slip: client_send_packet without sem_wait.
SephIgnored == TRUE

SephFree == seph = NoSender

Acquire(t) ==
    /\ pc[t] = "wait"
    /\ SephFree
    /\ seph' = t
    /\ pc' = [pc EXCEPT ![t] = "header"]
    /\ bytesSent' = [bytesSent EXCEPT ![t] = 0]
    /\ UNCHANGED <<pkt, wire, way, link, receiver, queue, reported, stray,
                   calls, mishaps, spoilt>>

\* proto_send_packet has sent all, and the semaphore is posted.
Sent(t) ==
    /\ seph' = NoSender
    /\ pc' = [pc EXCEPT ![t] = "idle"]
    /\ bytesSent' = [bytesSent EXCEPT ![t] = 0]
    /\ reported' = reported \cup {pkt[t]}


\* Slip: the error of a write is not passed on.
FailedUnreported(t) == Sent(t)

\* It has failed.
Failed(t) ==
    /\ seph' = NoSender
    /\ pc' = [pc EXCEPT ![t] = "idle"]
    /\ bytesSent' = [bytesSent EXCEPT ![t] = 0]
    /\ UNCHANGED reported

\* What lies at hdr + bytes_sent: the pointer is one to headers.
HeaderArea(t) == IF bytesSent[t] = 0 THEN Header(pkt[t])
                 ELSE [i \in 1 .. HeaderSize |-> Junk]

\* What lies in datasize bytes from data + bytes_sent.
PayloadArea(t) == [i \in 1 .. pkt[t].size |->
                      IF bytesSent[t] + i <= pkt[t].size
                      THEN <<pkt[t], "payload", bytesSent[t] + i>> ELSE Junk]

\* The sender's descriptor is open, or was when its write began.
Open == link \in {"up", "shut", "closing"}

Room(k) == Len(wire) + k <= Capacity

\* The write that a closed descriptor has waited for is the last.
Written == link' = IF link = "closing" THEN "closed" ELSE link

\* A write of k bytes of an area: all of it, or fewer by an interrupt.  When the
\* CLIENT's descriptor was closed, its number may be that of a connection that
\* was accepted since, and the bytes go there.
Write(t, area, k) ==
    /\ \/ /\ Open /\ Room(k)
          /\ wire' = wire \o SubSeq(area, 1, k)
          /\ Written
          /\ UNCHANGED stray
       \/ /\ link = "closed"
          /\ stray' = stray \cup {pkt[t]}
          /\ UNCHANGED <<wire, link>>
    /\ IF k = Len(area)
       THEN UNCHANGED <<mishaps, spoilt>>
       ELSE Mishap /\ spoilt' = TRUE

WriteHeader(t) ==
    /\ pc[t] = "header"
    /\ \E k \in 1 .. HeaderSize :
           /\ Write(t, HeaderArea(t), k)
           /\ CASE bytesSent[t] + k < HeaderSize ->
                       /\ bytesSent' = [bytesSent EXCEPT ![t] = bytesSent[t] + k]
                       /\ UNCHANGED <<seph, pc, reported>>
                [] bytesSent[t] + k >= HeaderSize /\ pkt[t].size > 0 ->
                       /\ pc' = [pc EXCEPT ![t] = "payload"]
                       /\ bytesSent' = [bytesSent EXCEPT ![t] = 0]
                       /\ UNCHANGED <<seph, reported>>
                [] OTHER -> Sent(t)
    /\ queue' = IF Open /\ bytesSent[t] = 0 THEN Append(queue, pkt[t]) ELSE queue
    /\ UNCHANGED <<pkt, way, receiver, calls>>

WritePayload(t) ==
    /\ pc[t] = "payload"
    /\ \E k \in 1 .. pkt[t].size :
           /\ Write(t, PayloadArea(t), k)
           /\ IF bytesSent[t] + k < pkt[t].size
              THEN /\ bytesSent' = [bytesSent EXCEPT ![t] = bytesSent[t] + k]
                   /\ UNCHANGED <<seph, pc, reported>>
              ELSE Sent(t)
    /\ UNCHANGED <<pkt, way, receiver, queue, calls>>

\* write returns -1: the connection is gone, or a signal has come before any
\* byte was written.
WriteFails(t) ==
    /\ pc[t] \in {"header", "payload"}
    /\ \/ link \in {"closed", "reset"} /\ UNCHANGED <<link, mishaps, spoilt>>
       \/ /\ Open
          /\ Written
          /\ Mishap
          /\ spoilt' = (spoilt \/ pc[t] = "payload" \/ bytesSent[t] > 0)
    /\ Failed(t)
    /\ UNCHANGED <<pkt, wire, way, receiver, queue, stray, calls>>

-----------------------------------------------------------------------------
(***************************************************************************)
(* The connection.                                                         *)
(***************************************************************************)

\* shutdown(fd, SHUT_RD) by the server (creg_shutdown_all): it ends the stream
\* to the server only.
Shutdown ==
    /\ way = "toServer"
    /\ link = "up" /\ link' = "shut"
    /\ UNCHANGED <<wire, mishaps, spoilt>>

\* close(fd) by the sender, which is creg_unregister in the server, whoever is
\* sending.  A write that is under way keeps the connection open until it ends.
Close ==
    /\ link \in {"up", "shut"}
    /\ \/ link' = "closed"
       \/ way = "toClient" /\ seph # NoSender /\ link' = "closing"
    /\ UNCHANGED <<wire, mishaps, spoilt>>

\* A thread that sends to an earlier CLIENT with the same descriptor number,
\* which was closed meanwhile, writes a byte into this stream: it does not have
\* the semaphore of this client.
Intrude ==
    /\ way = "toClient" /\ link = "up" /\ Room(1)
    /\ wire' = Append(wire, Junk)
    /\ Mishap /\ spoilt' = TRUE
    /\ UNCHANGED link

\* The connection is lost, and what is under way with it.
Reset ==
    /\ link # "reset" /\ link' = "reset"
    /\ wire' = <<>>
    /\ UNCHANGED <<mishaps, spoilt>>

-----------------------------------------------------------------------------
(***************************************************************************)
(* Receiving.                                                              *)
(***************************************************************************)

\* The sizes a header of these bytes may give: what another part of a packet
\* gives is anybody's guess.
SizeIn(h) == LET b == h[HeaderSize]
             IN  IF b # Junk /\ b[2] = "header" /\ b[3] = HeaderSize
                 THEN {b[1].size} ELSE PayloadSizes

Deliver(h, d) ==
    /\ received' = Append(received, [header |-> h, payload |-> d])
    /\ stage' = "header" /\ hdr' = <<>> /\ payload' = <<>> /\ datasize' = 0

\* Slip: each read may fill the whole header again.
HeaderRoomAll == HeaderSize

\* The bytes a read of the header asks for.
HeaderRoom == HeaderSize - Len(hdr)

ReadHeader ==
    /\ stage = "header"
    /\ link # "reset"
    /\ \E k \in 1 .. Len(wire) :
           /\ k <= HeaderRoom
           /\ wire' = SubSeq(wire, k + 1, Len(wire))
           /\ LET h == hdr \o SubSeq(wire, 1, k)
              IN  IF Len(h) < HeaderSize
                  THEN hdr' = h /\ UNCHANGED <<stage, payload, datasize, received>>
                  ELSE \E n \in SizeIn(h) :
                           IF n = 0
                           THEN Deliver(h, <<>>)
                           ELSE /\ stage' = "payload" /\ hdr' = h /\ datasize' = n
                                /\ UNCHANGED <<payload, received>>
    /\ UNCHANGED <<sender, way, link, mishaps, spoilt>>

ReadPayload ==
    /\ stage = "payload"
    /\ link # "reset"
    /\ \E k \in 1 .. Len(wire) :
           /\ k <= datasize - Len(payload)
           /\ wire' = SubSeq(wire, k + 1, Len(wire))
           /\ LET d == payload \o SubSeq(wire, 1, k)
              IN  IF Len(d) < datasize
                  THEN payload' = d /\ UNCHANGED <<stage, hdr, datasize, received>>
                  ELSE Deliver(hdr, d)
    /\ UNCHANGED <<sender, way, link, mishaps, spoilt>>

\* proto_recv_packet returns -1, and the service thread does not call it again.
RecvFails == stage' = "failed" /\ UNCHANGED <<hdr, payload, datasize, received>>

\* Slip: the loop over the payload goes on at the end of the file.
ReadEofInHeader ==
    /\ stage = "header"
    /\ link \in {"shut", "closed"} /\ wire = <<>>
    /\ RecvFails
    /\ UNCHANGED <<sender, wire, way, link, mishaps, spoilt>>

\* Slip: a payload that ends early is accepted.
ReadEofAccepted ==
    /\ stage # "failed"
    /\ link \in {"shut", "closed"} /\ wire = <<>>
    /\ IF stage = "payload" THEN Deliver(hdr, payload) ELSE RecvFails
    /\ UNCHANGED <<sender, wire, way, link, mishaps, spoilt>>

\* read returns 0, in a header or in a payload, or between two packets.
ReadEof ==
    /\ stage # "failed"
    /\ link \in {"shut", "closed"} /\ wire = <<>>
    /\ RecvFails
    /\ UNCHANGED <<sender, wire, way, link, mishaps, spoilt>>

\* read returns -1: the connection is lost...
ReadFails ==
    /\ stage # "failed"
    /\ link = "reset"
    /\ RecvFails
    /\ UNCHANGED <<sender, wire, way, link, mishaps, spoilt>>

\* ...or a signal has come while it waited.
ReadInterrupted ==
    /\ stage # "failed"
    /\ Mishap
    /\ RecvFails
    /\ UNCHANGED <<sender, wire, way, link, spoilt>>

-----------------------------------------------------------------------------
SendStep(t) == Acquire(t) \/ WriteHeader(t) \/ WritePayload(t) \/ WriteFails(t)

RecvStep == ReadHeader \/ ReadPayload \/ ReadEof \/ ReadFails

Next == \/ \E t \in Senders : Call(t) \/ SendStep(t)
        \/ RecvStep \/ ReadInterrupted
        \/ /\ Shutdown \/ Close \/ Intrude \/ Reset
           /\ UNCHANGED <<sender, receiver, way>>

\* A thread of the server that can run does; the program of a client may stop
\* reading or sending for good.  With finitely many packets the semaphore is
\* not taken from a waiting sender for ever.  Nobody need send, no connection
\* need end and no signal come.
Spec == /\ Init /\ [][Next]_vars
        /\ \A t \in Senders : WF_vars(way = "toClient" /\ SendStep(t))
        /\ WF_vars(way = "toServer" /\ RecvStep)

-----------------------------------------------------------------------------
ByteValues == PacketBytes \cup {Junk}

\* The variables have their types; neither buffer is ever overrun.
TypeOK ==
    /\ seph \in Senders \cup {NoSender}
    /\ pc \in [Senders -> {"idle", "wait", "header", "payload"}]
    /\ pkt \in [Senders -> Packets \cup {NonePkt(t) : t \in Senders}]
    /\ bytesSent \in [Senders -> Nat]
    /\ wire \in Seq(ByteValues)
    /\ way \in {"toClient", "toServer"}
    /\ link \in {"up", "shut", "closing", "closed", "reset"}
    /\ stage \in {"header", "payload", "failed"}
    /\ hdr \in Seq(ByteValues) /\ payload \in Seq(ByteValues)
    /\ Len(hdr) <= HeaderSize
    /\ datasize \in PayloadSizes \cup {0}
    /\ Len(payload) <= datasize
    /\ received \in Seq([header : Seq(ByteValues), payload : Seq(ByteValues)])
    /\ queue \in Seq(Packets)
    /\ reported \subseteq Packets
    /\ stray \subseteq Packets
    /\ calls \in 0 .. MaxPackets
    /\ mishaps \in 0 .. MaxMishaps
    /\ spoilt \in BOOLEAN

\* The bytes of the connection that no returned packet has taken yet.
Unread == hdr \o payload \o wire

\* proto_send_packet returns 0 only when the whole packet was received or is on
\* its way, in one piece: what a sender believes, an ACK for instance, the
\* receiver can read.  It is not so when the connection is lost, when the stream
\* is spoilt, and for packets that went to another connection because the
\* descriptor was closed and its number given out again.
ReportedIsWhole ==
    ~ spoilt /\ link # "reset" =>
        \A p \in reported \ stray :
            \/ \E i \in DOMAIN received : received[i] = Whole(p)
            \/ \E i \in 0 .. Len(Unread) :
                   /\ i + Len(Bytes(p)) <= Len(Unread)
                   /\ SubSeq(Unread, i + 1, i + Len(Bytes(p))) = Bytes(p)

\* Whatever threads of this client send at once, also when its descriptor is no
\* longer its own, wherever reads split the stream and whenever the connection
\* ends, packets arrive whole and in order, or not at all.
AbstractPackets == {Whole(p) : p \in Packets}

Channel == INSTANCE AbstractChannel WITH
    Packets <- AbstractPackets,
    queue   <- IF spoilt THEN <<>> ELSE [i \in DOMAIN queue |-> Whole(queue[i])],
    got     <- IF spoilt THEN <<>> ELSE received,
    broken  <- spoilt

ImplementsAbstractChannel == Channel!Spec

\* A sender is in a write for which the connection has no room.
Choked ==
    \E t \in Senders :
        /\ Open
        /\ \/ pc[t] = "header" /\ ~ Room(HeaderSize)
           \/ pc[t] = "payload" /\ ~ Room(pkt[t].size)


\* When the connection ends, by either side, so does proto_recv_packet, also in
\* the middle of a packet: its thread can log the client out.
ReceiverEnds ==
    (way = "toServer" /\ link # "up") ~> (stage = "failed")
=============================================================================
