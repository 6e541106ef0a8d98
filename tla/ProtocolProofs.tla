---------------------------- MODULE ProtocolProofs ----------------------------
EXTENDS Protocol, SequenceTheorems, TLAPS

(***************************************************************************)
(* Proofs about Protocol, for any number of senders, any size of headers   *)
(* and payloads, any room in a connection, and any number of packets,      *)
(* interrupts and bytes of strangers.                                      *)
(*                                                                         *)
(* ProtocolInv is the inductive invariant.  While the stream is not spoilt *)
(* and the connection not lost, the bytes that no returned packet has      *)
(* taken are those of the packets of queue that are not returned, end to   *)
(* end (LaidOut).  Only the last of them may lack its payload: a sender is *)
(* about to write it, or the descriptor was closed before it could, and    *)
(* then the payload never gets here, wherever it goes (LastIsWhole,        *)
(* LastIsHalf).  That only one sender writes is the work of the semaphore  *)
(* (SephSound).                                                            *)
(***************************************************************************)

(***************************************************************************)
(* The senders, the stream and the receiver, each for itself.              *)
(***************************************************************************)

\* The sender that holds the semaphore is the one that writes.
SephSound == \A t \in Senders : pc[t] \in {"header", "payload"} <=> seph = t

PktSound ==
    \A t \in Senders :
        /\ pkt[t].from = t
        /\ pkt[t].num \in 0 .. calls
        /\ pc[t] # "idle" => pkt[t] \in Packets
        /\ pc[t] = "payload" => pkt[t].size > 0
        /\ ~ spoilt => bytesSent[t] = 0

\* What the receiver has of the packet it reads.
StageSound ==
    /\ stage = "header" => /\ Len(hdr) < HeaderSize
                           /\ payload = <<>> /\ datasize = 0
    /\ stage = "payload" => /\ Len(hdr) = HeaderSize
                            /\ datasize \in PayloadSizes
                            /\ Len(payload) < datasize

SenderSound ==
    /\ seph \in Senders \cup {NoSender}
    /\ pc \in [Senders -> {"idle", "wait", "header", "payload"}]
    /\ pkt \in [Senders -> Packets \cup {NonePkt(t) : t \in Senders}]
    /\ bytesSent \in [Senders -> Nat]
    /\ queue \in Seq(Packets)
    /\ reported \subseteq Packets
    /\ calls \in 0 .. MaxPackets
    /\ SephSound /\ PktSound

StreamTyped ==
    /\ wire \in Seq(ByteValues)
    /\ way \in {"toClient", "toServer"}
    /\ link \in {"up", "shut", "closing", "closed", "reset"}
    /\ stray \subseteq Packets
    /\ mishaps \in 0 .. MaxMishaps
    /\ spoilt \in BOOLEAN

ReceiverSound ==
    /\ stage \in {"header", "payload", "failed"}
    /\ hdr \in Seq(ByteValues) /\ payload \in Seq(ByteValues)
    /\ Len(hdr) <= HeaderSize
    /\ datasize \in PayloadSizes \cup {0}
    /\ Len(payload) <= datasize
    /\ received \in Seq([header : Seq(ByteValues), payload : Seq(ByteValues)])
    /\ StageSound

\* The bytes of Header(p) and Payload(p).
HeaderByte(p, i) == <<p, "header", i>>

PayloadByte(p, i) == <<p, "payload", i>>

\* Packet i of q starts after at[i] bytes of s, from packet k on.
Laid(at, s, q, k) ==
    /\ at[k] = 0
    /\ \A i, j \in k .. Len(q) + 1 : i <= j => at[i] <= at[j]
    /\ \A i \in k .. Len(q) : at[i + 1] = at[i] + HeaderSize + q[i].size
    /\ \A i \in k .. Len(q) : \A j \in 1 .. HeaderSize :
           at[i] + j <= Len(s) /\ s[at[i] + j] = HeaderByte(q[i], j)
    /\ \A i \in k .. Len(q) : \A j \in 1 .. q[i].size :
           at[i] + HeaderSize + j <= Len(s) =>
               s[at[i] + HeaderSize + j] = PayloadByte(q[i], j)

Lies(at, s, q, k) ==
    /\ q \in Seq(Packets) /\ s \in Seq(ByteValues)
    /\ k \in 1 .. Len(q) + 1
    /\ at \in [k .. Len(q) + 1 -> Nat]
    /\ Laid(at, s, q, k)

\* s is x and then w.
Splits(s, x, w) == s = x \o w

\* The packets of queue that were not returned start with this one.
First == Len(received) + 1

LastIsWhole(at) == Len(Unread) = at[Len(queue) + 1]

LastIsHalf(at) ==
    /\ First <= Len(queue)
    /\ queue[Len(queue)].size > 0
    /\ Len(Unread) = at[Len(queue)] + HeaderSize
    /\ link = "closed" \/ \E t \in Senders : pc[t] = "payload"

\* What was reported of this stream, and did not go to another.
Claimed == reported \ stray

LaidOut(at) ==
    /\ Lies(at, Unread, queue, First)
    /\ LastIsWhole(at) \/ LastIsHalf(at)
    /\ \A t \in Senders : pc[t] = "payload" /\ link # "closed" =>
           LastIsHalf(at) /\ queue[Len(queue)] = pkt[t]
    /\ \A p \in Claimed : \E i \in 1 .. Len(queue) :
           queue[i] = p /\ (i = Len(queue) => LastIsWhole(at))

StreamSound == \E at : LaidOut(at)

\* What was returned are the first packets of queue.
ReturnedSound ==
    /\ Len(received) <= Len(queue)
    /\ \A i \in DOMAIN received : received[i] = Whole(queue[i])

\* The header that was read is that of the next packet.
HeaderSound ==
    stage = "payload" => First <= Len(queue) /\ datasize = queue[First].size

ProtocolInv ==
    /\ SenderSound /\ StreamTyped /\ ReceiverSound
    /\ ~ spoilt => ReturnedSound
    /\ ~ spoilt /\ link # "reset" => StreamSound /\ HeaderSound

LEMMA InvTyped == ProtocolInv => TypeOK
BY DEF ProtocolInv, TypeOK, SenderSound, StreamTyped, ReceiverSound

(***************************************************************************)
(* Sequences: the bytes of a packet, and what a write and a read do.       *)
(***************************************************************************)
LEMMA FunctionIsSeq ==
    ASSUME NEW S, NEW n \in Nat, NEW f \in [1 .. n -> S]
    PROVE  f \in Seq(S) /\ Len(f) = n
BY SeqDef

LEMMA HeaderIs ==
    ASSUME NEW p \in Packets
    PROVE  /\ Header(p) \in Seq(ByteValues) /\ Len(Header(p)) = HeaderSize
           /\ \A i \in 1 .. HeaderSize : Header(p)[i] = HeaderByte(p, i)
<1>1. \A i \in 1 .. HeaderSize : HeaderByte(p, i) \in ByteValues
  BY ProtocolAssumption DEF ByteValues, PacketBytes, HeaderByte
<1>2. Header(p) \in [1 .. HeaderSize -> ByteValues]
  BY <1>1 DEF Header, HeaderByte
<1>3. Header(p) \in Seq(ByteValues) /\ Len(Header(p)) = HeaderSize
  BY <1>2, ProtocolAssumption, FunctionIsSeq
<1> QED
  BY <1>3 DEF Header, HeaderByte

LEMMA PacketSizes == \A p \in Packets : p.size \in Nat
BY ProtocolAssumption DEF Packets

LEMMA PayloadIs ==
    ASSUME NEW p \in Packets
    PROVE  /\ p.size \in Nat
           /\ Payload(p) \in Seq(ByteValues) /\ Len(Payload(p)) = p.size
           /\ \A i \in 1 .. p.size : Payload(p)[i] = PayloadByte(p, i)
<1>1. p.size \in Nat
  BY ProtocolAssumption DEF Packets
<1>2. \A i \in 1 .. p.size : PayloadByte(p, i) \in ByteValues
  BY <1>1 DEF ByteValues, PacketBytes, PayloadByte
<1>3. Payload(p) \in [1 .. p.size -> ByteValues]
  BY <1>2 DEF Payload, PayloadByte
<1>4. Payload(p) \in Seq(ByteValues) /\ Len(Payload(p)) = p.size
  BY <1>1, <1>3, FunctionIsSeq
<1> QED
  BY <1>1, <1>4 DEF Payload, PayloadByte

LEMMA AreasAre ==
    ASSUME SenderSound, NEW t \in Senders, pkt[t] \in Packets
    PROVE  /\ HeaderArea(t) \in Seq(ByteValues) /\ Len(HeaderArea(t)) = HeaderSize
           /\ PayloadArea(t) \in Seq(ByteValues) /\ Len(PayloadArea(t)) = pkt[t].size
<1>1. pkt[t].size \in Nat /\ bytesSent[t] \in Nat /\ HeaderSize \in Nat
  BY PayloadIs, ProtocolAssumption DEF SenderSound
<1>2. HeaderArea(t) \in Seq(ByteValues) /\ Len(HeaderArea(t)) = HeaderSize
  <2>1. CASE bytesSent[t] = 0
    BY <2>1, HeaderIs DEF HeaderArea
  <2>2. CASE bytesSent[t] # 0
    <3>1. HeaderArea(t) = [i \in 1 .. HeaderSize |-> Junk]
      BY <2>2 DEF HeaderArea
    <3>2. HeaderArea(t) \in [1 .. HeaderSize -> ByteValues]
      BY <3>1 DEF ByteValues
    <3> QED
      BY <1>1, <3>1, <3>2, SeqDef
  <2> QED
    BY <2>1, <2>2
<1>3. PayloadArea(t) \in Seq(ByteValues) /\ Len(PayloadArea(t)) = pkt[t].size
  <2>1. ASSUME NEW i \in 1 .. pkt[t].size
        PROVE  <<pkt[t], "payload", bytesSent[t] + i>> \in ByteValues /\ Junk \in ByteValues
    BY <1>1 DEF ByteValues, PacketBytes
  <2>2. PayloadArea(t) \in [1 .. pkt[t].size -> ByteValues]
    BY <2>1 DEF PayloadArea
  <2> QED
    BY <1>1, <2>2, FunctionIsSeq
<1> QED
  BY <1>2, <1>3

\* x followed by y, by a name of its own: which two of three pieces are joined
\* first makes no difference.
Joint(x, y) == x \o y

LEMMA JointAssociative ==
    ASSUME NEW x \in Seq(ByteValues), NEW y \in Seq(ByteValues), NEW z \in Seq(ByteValues)
    PROVE  Joint(x, Joint(y, z)) = Joint(Joint(x, y), z)
<1>1. (x \o y) \o z = x \o (y \o z)
  BY ConcatAssociative
<1> QED
  BY <1>1 DEF Joint

\* The length and the bytes of two pieces end to end.
LEMMA Joined ==
    ASSUME NEW x \in Seq(ByteValues), NEW y \in Seq(ByteValues)
    PROVE  /\ x \o y \in Seq(ByteValues)
           /\ Len(x) \in Nat /\ Len(y) \in Nat /\ Len(x \o y) = Len(x) + Len(y)
           /\ \A i \in 1 .. Len(x) : (x \o y)[i] = x[i]
           /\ \A i \in 1 .. Len(y) : (x \o y)[Len(x) + i] = y[i]
<1>1. Len(x) \in Nat /\ Len(y) \in Nat
  BY LenProperties
<1>2. /\ x \o y \in Seq(ByteValues) /\ Len(x \o y) = Len(x) + Len(y)
      /\ \A i \in 1 .. Len(x) + Len(y) : (x \o y)[i] = IF i <= Len(x) THEN x[i] ELSE y[i - Len(x)]
  BY ConcatProperties
<1>3. ASSUME NEW i \in 1 .. Len(y) PROVE (x \o y)[Len(x) + i] = y[i]
  <2>1. /\ Len(x) + i \in 1 .. Len(x) + Len(y) /\ ~ (Len(x) + i <= Len(x))
        /\ Len(x) + i - Len(x) = i
    BY <1>1
  <2> QED
    BY <1>2, <2>1
<1> QED
  BY <1>1, <1>2, <1>3

\* The same of a queue and a packet, and below of bytes and a header and of
\* bytes and a payload.
Grown(r, q, p) ==
    /\ r = Append(q, p) /\ Len(r) = Len(q) + 1 /\ r[Len(q) + 1] = p
    /\ \A i \in 1 .. Len(q) : r[i] = q[i]

LEMMA Appended ==
    ASSUME NEW q \in Seq(Packets), NEW p \in Packets
    PROVE  \E r \in Seq(Packets) : Grown(r, q, p)
<1>1. Append(q, p) \in Seq(Packets) /\ Grown(Append(q, p), q, p)
  BY AppendProperties DEF Grown
<1> QED
  BY <1>1

LEMMA WithHeader ==
    ASSUME NEW s \in Seq(ByteValues), NEW p \in Packets
    PROVE  \E u \in Seq(ByteValues) :
              /\ u = s \o Header(p) /\ Len(u) = Len(s) + HeaderSize
              /\ \A i \in 1 .. Len(s) : u[i] = s[i]
              /\ \A i \in 1 .. HeaderSize : u[Len(s) + i] = HeaderByte(p, i)
<1>1. /\ Header(p) \in Seq(ByteValues) /\ Len(Header(p)) = HeaderSize
      /\ \A i \in 1 .. HeaderSize : Header(p)[i] = HeaderByte(p, i)
  BY HeaderIs
<1>2. PICK h \in Seq(ByteValues) : h = Header(p)
  BY <1>1
<1>3. /\ s \o h \in Seq(ByteValues) /\ Len(s \o h) = Len(s) + HeaderSize
      /\ \A i \in 1 .. Len(s) : (s \o h)[i] = s[i]
      /\ \A i \in 1 .. HeaderSize : (s \o h)[Len(s) + i] = h[i]
  <2>1. Len(h) = HeaderSize
    BY <1>1, <1>2
  <2>2. /\ s \o h \in Seq(ByteValues) /\ Len(s \o h) = Len(s) + Len(h)
        /\ \A i \in 1 .. Len(s) : (s \o h)[i] = s[i]
        /\ \A i \in 1 .. Len(h) : (s \o h)[Len(s) + i] = h[i]
    BY Joined
  <2> QED
    BY <2>1, <2>2
<1>4. \A i \in 1 .. HeaderSize : (s \o h)[Len(s) + i] = HeaderByte(p, i)
  BY <1>1, <1>2, <1>3
<1>5. s \o h \in Seq(ByteValues)
  BY <1>3
<1> USE <1>5
<1>6. WITNESS s \o h \in Seq(ByteValues)
<1> QED
  BY <1>2, <1>3, <1>4

LEMMA WithPayload ==
    ASSUME NEW s \in Seq(ByteValues), NEW p \in Packets
    PROVE  \E u \in Seq(ByteValues) :
              /\ u = s \o Payload(p) /\ Len(u) = Len(s) + p.size
              /\ \A i \in 1 .. Len(s) : u[i] = s[i]
              /\ \A i \in 1 .. p.size : u[Len(s) + i] = PayloadByte(p, i)
<1>1. /\ Payload(p) \in Seq(ByteValues) /\ Len(Payload(p)) = p.size
      /\ \A i \in 1 .. p.size : Payload(p)[i] = PayloadByte(p, i)
  BY PayloadIs
<1>2. PICK h \in Seq(ByteValues) : h = Payload(p)
  BY <1>1
<1>3. /\ s \o h \in Seq(ByteValues) /\ Len(s \o h) = Len(s) + p.size
      /\ \A i \in 1 .. Len(s) : (s \o h)[i] = s[i]
      /\ \A i \in 1 .. p.size : (s \o h)[Len(s) + i] = h[i]
  <2>1. Len(h) = p.size
    BY <1>1, <1>2
  <2>2. /\ s \o h \in Seq(ByteValues) /\ Len(s \o h) = Len(s) + Len(h)
        /\ \A i \in 1 .. Len(s) : (s \o h)[i] = s[i]
        /\ \A i \in 1 .. Len(h) : (s \o h)[Len(s) + i] = h[i]
    BY Joined
  <2> QED
    BY <2>1, <2>2
<1>4. \A i \in 1 .. p.size : (s \o h)[Len(s) + i] = PayloadByte(p, i)
  BY <1>1, <1>2, <1>3
<1>5. s \o h \in Seq(ByteValues)
  BY <1>3
<1> USE <1>5
<1>6. WITNESS s \o h \in Seq(ByteValues)
<1> QED
  BY <1>2, <1>3, <1>4

LEMMA SplitAt ==
    ASSUME NEW S, NEW s \in Seq(S), NEW k \in 1 .. Len(s)
    PROVE  LET a == SubSeq(s, 1, k)
               b == SubSeq(s, k + 1, Len(s))
           IN  /\ a \in Seq(S) /\ b \in Seq(S)
               /\ Len(a) = k /\ Len(b) = Len(s) - k
               /\ a \o b = s
<1>1. \A i \in 1 .. Len(s) : s[i] \in S
  BY ElementOfSeq
<1>2. Len(s) \in Nat
  BY LenProperties
<1>3. SubSeq(s, 1, k) \in Seq(S) /\ Len(SubSeq(s, 1, k)) = k
  BY <1>1, <1>2, SubSeqProperties
<1>4. SubSeq(s, k + 1, Len(s)) \in Seq(S) /\ Len(SubSeq(s, k + 1, Len(s))) = Len(s) - k
  <2>1. \A i \in k + 1 .. Len(s) : s[i] \in S
    BY <1>1
  <2>2. k + 1 \in Int /\ Len(s) \in Int
    BY <1>2
  <2>3. /\ SubSeq(s, k + 1, Len(s)) \in Seq(S)
        /\ Len(SubSeq(s, k + 1, Len(s))) = IF k + 1 <= Len(s) THEN Len(s) - (k + 1) + 1 ELSE 0
    BY <2>1, <2>2, SubSeqProperties
  <2> QED
    BY <1>2, <2>3
<1>5. SubSeq(s, 1, k) \o SubSeq(s, k + 1, Len(s)) = s
  <2>1. SubSeq(s, 1, k) \o SubSeq(s, k + 1, Len(s)) = SubSeq(s, 1, Len(s))
    <3>1. 1 \in 1 .. Len(s) + 1 /\ k \in 1 - 1 .. Len(s) /\ Len(s) \in k .. Len(s)
      BY <1>2
    <3> QED
      BY <3>1, ConcatAdjacentSubSeq
  <2> QED
    BY <2>1, SubSeqFull
<1> QED
  BY <1>3, <1>4, <1>5

\* A write that succeeds puts its bytes into this stream or into another.
Streams(b) == Open /\ Written /\ stray' = stray /\ wire' = wire \o b

Strays(t) == link = "closed" /\ stray' = stray \cup {pkt[t]} /\ UNCHANGED <<wire, link>>

LEMMA WriteIs ==
    ASSUME StreamTyped, NEW t \in Senders, pkt[t] \in Packets,
           NEW area \in Seq(ByteValues), NEW k \in 1 .. Len(area), Write(t, area, k)
    PROVE  /\ wire' \in Seq(ByteValues)
           /\ link' \in {"up", "shut", "closing", "closed", "reset"}
           /\ stray' \subseteq Packets
           /\ mishaps' \in 0 .. MaxMishaps
           /\ spoilt' \in BOOLEAN
           /\ ~ spoilt' => ~ spoilt /\ k = Len(area) /\ (Streams(area) \/ Strays(t))
<1>1. SubSeq(area, 1, k) \in Seq(ByteValues)
  BY SplitAt
<1>2. Streams(SubSeq(area, 1, k)) \/ Strays(t)
  BY DEF Write, Streams, Strays
<1>3. /\ wire' \in Seq(ByteValues) /\ stray' \subseteq Packets
      /\ link' \in {"up", "shut", "closing", "closed", "reset"}
  <2>1. CASE Streams(SubSeq(area, 1, k))
    <3>1. wire' \in Seq(ByteValues)
      BY <1>1, <2>1, ConcatProperties DEF StreamTyped, Streams
    <3> QED
      BY <2>1, <3>1 DEF StreamTyped, Streams, Written
  <2>2. CASE Strays(t)
    BY <2>2 DEF StreamTyped, Strays
  <2> QED
    BY <1>2, <2>1, <2>2
<1>4. CASE k = Len(area)
  <2>1. SubSeq(area, 1, k) = area
    BY <1>4, SubSeqFull
  <2>2. UNCHANGED <<mishaps, spoilt>>
    BY <1>4 DEF Write
  <2> QED
    BY <1>2, <1>3, <1>4, <2>1, <2>2 DEF StreamTyped
<1>5. CASE k # Len(area)
  <2>1. Mishap /\ spoilt' = TRUE
    BY <1>5 DEF Write
  <2> QED
    BY <1>3, <2>1, ProtocolAssumption DEF StreamTyped, Mishap
<1> QED
  BY <1>4, <1>5

(***************************************************************************)
(* What a sender does, and what the receiver does.                         *)
(***************************************************************************)
LEMMA SizeIsSize ==
    ASSUME NEW h \in Seq(ByteValues), Len(h) = HeaderSize
    PROVE  SizeIn(h) \subseteq PayloadSizes
<1>1. h[HeaderSize] \in ByteValues
  BY ElementOfSeq, ProtocolAssumption
<1> SUFFICES ASSUME h[HeaderSize] # Junk, h[HeaderSize][2] = "header"
             PROVE  h[HeaderSize][1].size \in PayloadSizes
  BY DEF SizeIn
<1>2. h[HeaderSize] \in PacketBytes
  BY <1>1 DEF ByteValues
<1>3. h[HeaderSize][1] \in Packets
  BY <1>2 DEF PacketBytes
<1> QED
  BY <1>3 DEF Packets

\* A read keeps what is unread, or returns the packet that it completes.
Returns(h, d, w) ==
    /\ Len(h) = HeaderSize
    /\ received' = Append(received, [header |-> h, payload |-> d])
    /\ Unread = h \o d \o w /\ Unread' = w
    /\ stage' = "header"
    /\ \/ stage = "payload" /\ Len(d) = datasize
       \/ d = <<>> /\ 0 \in SizeIn(h)

ReadsOn ==
    /\ received' = received /\ Unread' = Unread
    /\ stage' = "payload" =>
           \/ stage = "payload" /\ datasize' = datasize
           \/ \E h, w \in Seq(ByteValues) :
                  Len(h) = HeaderSize /\ Unread = h \o w /\ datasize' \in SizeIn(h)

LEMMA HeaderRead ==
    ASSUME ReceiverSound, StreamTyped, ReadHeader
    PROVE  /\ ReceiverSound' /\ wire' \in Seq(ByteValues)
           /\ \/ ReadsOn
              \/ \E h, d, w \in Seq(ByteValues) : Returns(h, d, w)
<1>1. PICK k \in 1 .. Len(wire) :
          /\ k <= HeaderRoom
          /\ wire' = SubSeq(wire, k + 1, Len(wire))
          /\ LET h == hdr \o SubSeq(wire, 1, k)
             IN  IF Len(h) < HeaderSize
                 THEN hdr' = h /\ UNCHANGED <<stage, payload, datasize, received>>
                 ELSE \E n \in SizeIn(h) :
                          IF n = 0
                          THEN Deliver(h, <<>>)
                          ELSE /\ stage' = "payload" /\ hdr' = h /\ datasize' = n
                               /\ UNCHANGED <<payload, received>>
  BY DEF ReadHeader
<1>2. PICK a \in Seq(ByteValues), h \in Seq(ByteValues), w \in Seq(ByteValues) :
          /\ a = SubSeq(wire, 1, k) /\ h = hdr \o a /\ w = wire'
          /\ Len(a) = k /\ Len(h) = Len(hdr) + k /\ a \o w = wire
  <2>1. wire \in Seq(ByteValues) /\ hdr \in Seq(ByteValues)
    BY DEF StreamTyped, ReceiverSound
  <2>2. /\ SubSeq(wire, 1, k) \in Seq(ByteValues) /\ wire' \in Seq(ByteValues)
        /\ Len(SubSeq(wire, 1, k)) = k /\ SubSeq(wire, 1, k) \o wire' = wire
    BY <1>1, <2>1, SplitAt
  <2>3. hdr \o SubSeq(wire, 1, k) \in Seq(ByteValues)
        /\ Len(hdr \o SubSeq(wire, 1, k)) = Len(hdr) + k
    BY <2>1, <2>2, ConcatProperties
  <2> QED
    BY <2>2, <2>3
<1>3. stage = "header" /\ payload = <<>> /\ datasize = 0 /\ Len(hdr) \in Nat
  BY LenProperties DEF ReadHeader, ReceiverSound, StageSound
<1>4. Len(h) <= HeaderSize /\ HeaderSize \in Nat \ {0}
  BY <1>1, <1>2, <1>3, ProtocolAssumption DEF HeaderRoom
<1>5. Unread = h \o w /\ <<>> \in Seq(ByteValues) /\ h \o <<>> = h /\ <<>> \o w = w
  <2>1. <<>> \in Seq(ByteValues)
    BY EmptySeq
  <2>2. hdr \in Seq(ByteValues) /\ hdr \o <<>> = hdr
    BY ConcatEmptySeq DEF ReceiverSound
  <2>3. hdr \o (a \o w) = (hdr \o a) \o w
    <3>1. PICK x \in Seq(ByteValues) : x = hdr
      BY <2>2
    <3>2. Joint(x, Joint(a, w)) = Joint(Joint(x, a), w)
      BY JointAssociative
    <3> QED
      BY <3>1, <3>2 DEF Joint
  <2>4. Unread = hdr \o wire
    BY <1>3, <2>2 DEF Unread
  <2>5. h \o <<>> = h /\ <<>> \o w = w
    BY ConcatEmptySeq
  <2> QED
    BY <1>2, <2>1, <2>3, <2>4, <2>5
<1>6. CASE Len(h) < HeaderSize
  <2>1. hdr' = h /\ UNCHANGED <<stage, payload, datasize, received>>
    BY <1>1, <1>2, <1>6
  <2>2. ReceiverSound'
    BY <1>3, <1>4, <1>6, <2>1 DEF ReceiverSound, StageSound
  <2>3. Unread' = Unread
    BY <1>2, <1>3, <1>5, <2>1 DEF Unread
  <2> QED
    BY <1>2, <1>3, <2>1, <2>2, <2>3 DEF ReadsOn
<1>7. ASSUME Len(h) = HeaderSize, NEW n \in SizeIn(h), n # 0,
             stage' = "payload", hdr' = h, datasize' = n, UNCHANGED <<payload, received>>
      PROVE  ReceiverSound' /\ ReadsOn
  <2>1. n \in PayloadSizes /\ n \in Nat
    BY <1>7, SizeIsSize, ProtocolAssumption
  <2>2. Len(<<>>) = 0 /\ <<>> \in Seq(ByteValues)
    BY EmptySeq
  <2>3. ReceiverSound'
    BY <1>3, <1>4, <1>7, <2>1, <2>2 DEF ReceiverSound, StageSound
  <2>4. Unread' = Unread
    BY <1>2, <1>3, <1>5, <1>7 DEF Unread
  <2> QED
    BY <1>5, <1>7, <2>3, <2>4 DEF ReadsOn
<1>8. ASSUME Len(h) = HeaderSize, 0 \in SizeIn(h), Deliver(h, <<>>)
      PROVE  ReceiverSound' /\ Returns(h, <<>>, w)
  <2>1. [header |-> h, payload |-> <<>>] \in [header : Seq(ByteValues), payload : Seq(ByteValues)]
    BY <1>5
  <2>2. received' \in Seq([header : Seq(ByteValues), payload : Seq(ByteValues)])
    BY <1>8, <2>1, AppendProperties DEF Deliver, ReceiverSound
  <2>3. Len(<<>>) = 0
    BY EmptySeq
  <2>4. ReceiverSound'
    BY <1>4, <1>5, <1>8, <2>2, <2>3 DEF Deliver, ReceiverSound, StageSound
  <2>5. Unread' = w
    <3>1. <<>> \o <<>> = <<>>
      BY <1>5, ConcatEmptySeq
    <3> QED
      BY <1>2, <1>5, <1>8, <3>1 DEF Deliver, Unread
  <2>6. Unread = h \o <<>> \o w
    BY <1>5
  <2> QED
    BY <1>8, <2>4, <2>5, <2>6 DEF Returns, Deliver
<1>9. CASE Len(h) = HeaderSize
  <2>1. PICK n \in SizeIn(h) :
            IF n = 0
            THEN Deliver(h, <<>>)
            ELSE /\ stage' = "payload" /\ hdr' = h /\ datasize' = n
                 /\ UNCHANGED <<payload, received>>
    <3>1. h = hdr \o SubSeq(wire, 1, k) /\ ~ (Len(h) < HeaderSize)
      BY <1>2, <1>4, <1>9
    <3>2. ~ (Len(hdr \o SubSeq(wire, 1, k)) < HeaderSize)
      BY <3>1
    <3>3. \E n \in SizeIn(hdr \o SubSeq(wire, 1, k)) :
              IF n = 0
              THEN Deliver(hdr \o SubSeq(wire, 1, k), <<>>)
              ELSE /\ stage' = "payload" /\ hdr' = hdr \o SubSeq(wire, 1, k)
                   /\ datasize' = n /\ UNCHANGED <<payload, received>>
      BY <1>1, <3>2
    <3> QED
      BY <3>1, <3>3 DEF Deliver
  <2>2. CASE n = 0
    BY <1>2, <1>5, <1>8, <1>9, <2>1, <2>2
  <2>3. CASE n # 0
    BY <1>2, <1>7, <1>9, <2>1, <2>3
  <2> QED
    BY <2>2, <2>3
<1> QED
  <2>1. Len(h) \in Nat
    BY LenProperties
  <2> QED
    BY <1>4, <1>6, <1>9, <2>1

LEMMA PayloadRead ==
    ASSUME ReceiverSound, StreamTyped, ReadPayload
    PROVE  /\ ReceiverSound' /\ wire' \in Seq(ByteValues)
           /\ \/ ReadsOn
              \/ \E h, d, w \in Seq(ByteValues) : Returns(h, d, w)
<1>1. PICK k \in 1 .. Len(wire) :
          /\ k <= datasize - Len(payload)
          /\ wire' = SubSeq(wire, k + 1, Len(wire))
          /\ LET d == payload \o SubSeq(wire, 1, k)
             IN  IF Len(d) < datasize
                 THEN payload' = d /\ UNCHANGED <<stage, hdr, datasize, received>>
                 ELSE Deliver(hdr, d)
  BY DEF ReadPayload
<1>2. PICK a \in Seq(ByteValues), d \in Seq(ByteValues), w \in Seq(ByteValues) :
          /\ a = SubSeq(wire, 1, k) /\ d = payload \o a /\ w = wire'
          /\ Len(a) = k /\ Len(d) = Len(payload) + k /\ a \o w = wire
  <2>1. wire \in Seq(ByteValues) /\ payload \in Seq(ByteValues)
    BY DEF StreamTyped, ReceiverSound
  <2>2. /\ SubSeq(wire, 1, k) \in Seq(ByteValues) /\ wire' \in Seq(ByteValues)
        /\ Len(SubSeq(wire, 1, k)) = k /\ SubSeq(wire, 1, k) \o wire' = wire
    BY <1>1, <2>1, SplitAt
  <2>3. payload \o SubSeq(wire, 1, k) \in Seq(ByteValues)
        /\ Len(payload \o SubSeq(wire, 1, k)) = Len(payload) + k
    BY <2>1, <2>2, ConcatProperties
  <2> QED
    BY <2>2, <2>3
<1>3. PICK h \in Seq(ByteValues) : h = hdr
  BY DEF ReceiverSound
<1>4. /\ stage = "payload" /\ Len(payload) \in Nat /\ datasize \in Nat
      /\ HeaderSize \in Nat /\ Len(h) = HeaderSize
  BY <1>3, LenProperties, ProtocolAssumption DEF ReadPayload, ReceiverSound, StageSound
<1>5. Len(d) \in Nat /\ Len(d) <= datasize
  BY <1>1, <1>2, <1>4
<1>6. Unread = h \o d \o w /\ <<>> \in Seq(ByteValues) /\ <<>> \o <<>> \o w = w
  <2>1. <<>> \in Seq(ByteValues)
    BY EmptySeq
  <2>2. PICK y \in Seq(ByteValues) : y = payload
    BY DEF ReceiverSound
  <2>3. (h \o y) \o (a \o w) = ((h \o y) \o a) \o w
    <3>1. PICK x \in Seq(ByteValues) : x = h \o y
      BY Joined
    <3>2. Joint(x, Joint(a, w)) = Joint(Joint(x, a), w)
      BY JointAssociative
    <3> QED
      BY <3>1, <3>2 DEF Joint
  <2>4. (h \o y) \o a = h \o (y \o a)
    <3>1. Joint(h, Joint(y, a)) = Joint(Joint(h, y), a)
      BY JointAssociative
    <3> QED
      BY <3>1 DEF Joint
  <2>5. <<>> \o <<>> = <<>> /\ <<>> \o w = w
    BY <2>1, ConcatEmptySeq
  <2> QED
    BY <1>2, <1>3, <2>1, <2>2, <2>3, <2>4, <2>5 DEF Unread
<1>7. CASE Len(d) < datasize
  <2>1. payload' = d /\ UNCHANGED <<stage, hdr, datasize, received>>
    BY <1>1, <1>2, <1>7
  <2>2. ReceiverSound'
    BY <1>4, <1>5, <1>7, <2>1 DEF ReceiverSound, StageSound
  <2>3. Unread' = Unread
    BY <1>2, <1>3, <1>6, <2>1 DEF Unread
  <2> QED
    BY <1>2, <1>4, <2>1, <2>2, <2>3 DEF ReadsOn
<1>8. CASE Len(d) = datasize
  <2>1. Deliver(h, d)
    <3>1. ~ (Len(payload \o SubSeq(wire, 1, k)) < datasize)
      BY <1>2, <1>4, <1>8
    <3>2. Deliver(hdr, payload \o SubSeq(wire, 1, k))
      BY <1>1, <3>1
    <3> QED
      BY <1>2, <1>3, <3>2 DEF Deliver
  <2>2. [header |-> h, payload |-> d] \in [header : Seq(ByteValues), payload : Seq(ByteValues)]
    OBVIOUS
  <2>3. received' \in Seq([header : Seq(ByteValues), payload : Seq(ByteValues)])
    BY <2>1, <2>2, AppendProperties DEF Deliver, ReceiverSound
  <2>4. Len(<<>>) = 0
    BY EmptySeq
  <2>5. ReceiverSound'
    <3>1. stage' = "header" /\ hdr' = <<>> /\ payload' = <<>> /\ datasize' = 0
      BY <2>1 DEF Deliver
    <3> QED
      BY <1>4, <1>6, <2>3, <2>4, <3>1, ProtocolAssumption DEF ReceiverSound, StageSound
  <2>6. Unread' = w
    BY <1>2, <1>6, <2>1 DEF Deliver, Unread
  <2>7. Returns(h, d, w)
    BY <1>4, <1>6, <1>8, <2>1, <2>6 DEF Returns, Deliver
  <2> QED
    BY <1>2, <2>5, <2>7
<1> QED
  BY <1>4, <1>5, <1>7, <1>8

LEMMA RecvFailsSound ==
    ASSUME ReceiverSound, RecvFails
    PROVE  ReceiverSound' /\ UNCHANGED <<hdr, payload, datasize, received>> /\ stage' = "failed"
BY DEF ReceiverSound, StageSound, RecvFails

\* A step of the receiver leaves the senders alone.
LEMMA ReceiverStep ==
    ASSUME SenderSound, StreamTyped, ReceiverSound, RecvStep \/ ReadInterrupted
    PROVE  SenderSound' /\ StreamTyped' /\ ReceiverSound'
<1>1. CASE ReadHeader \/ ReadPayload
  <2>1. ReceiverSound' /\ wire' \in Seq(ByteValues)
    BY <1>1, HeaderRead, PayloadRead
  <2>2. UNCHANGED <<seph, pc, pkt, bytesSent, queue, reported, stray, calls, way, link,
                    mishaps, spoilt>>
    BY <1>1 DEF ReadHeader, ReadPayload, sender
  <2> QED
    BY <2>1, <2>2 DEF SenderSound, StreamTyped, SephSound, PktSound
<1>2. CASE ReadEof \/ ReadFails \/ ReadInterrupted
  <2>1. RecvFails /\ mishaps' \in 0 .. MaxMishaps
        /\ UNCHANGED <<seph, pc, pkt, bytesSent, queue, reported, stray, calls, wire, way,
                        link, spoilt>>
    BY <1>2, ProtocolAssumption
    DEF ReadEof, ReadFails, ReadInterrupted, Mishap, StreamTyped, sender
  <2> QED
    BY <2>1, RecvFailsSound DEF SenderSound, StreamTyped, SephSound, PktSound
<1> QED
  BY <1>1, <1>2 DEF RecvStep

LEMMA CallStep ==
    ASSUME SenderSound, NEW t \in Senders, Call(t)
    PROVE  SenderSound'
<1>1. PICK n \in PayloadSizes :
          pkt' = [pkt EXCEPT ![t] = [from |-> t, num |-> pkt[t].num + 1, size |-> n]]
  BY DEF Call
<1>2. /\ pc[t] = "idle" /\ pc' = [pc EXCEPT ![t] = "wait"]
      /\ calls < MaxPackets /\ calls' = calls + 1
      /\ UNCHANGED <<seph, bytesSent, queue, reported, spoilt>>
  BY DEF Call
<1>3. calls \in Nat /\ MaxPackets \in Nat /\ pkt[t].num \in 0 .. calls
  BY ProtocolAssumption DEF SenderSound, PktSound
<1>4. [from |-> t, num |-> pkt[t].num + 1, size |-> n] \in Packets
  BY <1>2, <1>3 DEF Packets
<1>5. pkt' \in [Senders -> Packets \cup {NonePkt(s) : s \in Senders}]
  BY <1>1, <1>4 DEF SenderSound
<1>6. pc' \in [Senders -> {"idle", "wait", "header", "payload"}]
  BY <1>2 DEF SenderSound
<1>7. calls' \in 0 .. MaxPackets
  BY <1>2, <1>3
<1>8. SephSound'
  BY <1>2 DEF SenderSound, SephSound
<1>9. PktSound'
  <2> SUFFICES ASSUME NEW s \in Senders
               PROVE  /\ pkt'[s].from = s
                      /\ pkt'[s].num \in 0 .. calls'
                      /\ pc'[s] # "idle" => pkt'[s] \in Packets
                      /\ pc'[s] = "payload" => pkt'[s].size > 0
                      /\ ~ spoilt' => bytesSent'[s] = 0
    BY DEF PktSound
  <2>1. CASE s = t
    <3>1. pkt'[s] = [from |-> t, num |-> pkt[t].num + 1, size |-> n] /\ pc'[s] = "wait"
      BY <1>1, <1>2, <2>1 DEF SenderSound
    <3> QED
      BY <1>2, <1>3, <1>4, <2>1, <3>1 DEF SenderSound, PktSound
  <2>2. CASE s # t
    <3>1. pkt'[s] = pkt[s] /\ pc'[s] = pc[s]
      BY <1>1, <1>2, <2>2 DEF SenderSound
    <3> QED
      BY <1>2, <1>3, <3>1 DEF SenderSound, PktSound
  <2> QED
    BY <2>1, <2>2
<1> QED
  BY <1>2, <1>5, <1>6, <1>7, <1>8, <1>9 DEF SenderSound

LEMMA AcquireStep ==
    ASSUME SenderSound, NEW t \in Senders, Acquire(t)
    PROVE  SenderSound' /\ \A s \in Senders : pc'[s] = "payload" => pc[s] = "payload"
<1>1. /\ pc[t] = "wait" /\ seph = NoSender /\ seph' = t
      /\ pc' = [pc EXCEPT ![t] = "header"] /\ bytesSent' = [bytesSent EXCEPT ![t] = 0]
      /\ UNCHANGED <<pkt, queue, reported, calls, spoilt>>
  BY DEF Acquire, SephFree
<1>2. SephSound' /\ \A s \in Senders : pc'[s] = "payload" => pc[s] = "payload"
  BY <1>1, ProtocolAssumption DEF SenderSound, SephSound
<1>3. PktSound'
  BY <1>1 DEF SenderSound, PktSound
<1> QED
  BY <1>1, <1>2, <1>3 DEF SenderSound

\* A sender that holds the semaphore goes on, or lets it go.
LEMMA HolderStep ==
    ASSUME SenderSound, NEW t \in Senders, pc[t] \in {"header", "payload"},
           NEW x \in {"idle", "header", "payload"}, NEW n \in Nat,
           pc' = [pc EXCEPT ![t] = x], bytesSent' = [bytesSent EXCEPT ![t] = n],
           seph' = IF x = "idle" THEN NoSender ELSE seph,
           x = "payload" => pkt[t].size > 0,
           spoilt => spoilt', ~ spoilt' => n = 0,
           queue' \in Seq(Packets), reported' \subseteq Packets, UNCHANGED <<pkt, calls>>
    PROVE  SenderSound'
<1>1. SephSound'
  BY ProtocolAssumption DEF SenderSound, SephSound
<1>2. PktSound'
  BY DEF SenderSound, PktSound
<1> QED
  BY <1>1, <1>2 DEF SenderSound

\* A whole header or payload goes into this stream, or into another.
Puts(t, b, q) == \/ Streams(b) /\ queue' = q
                 \/ Strays(t) /\ queue' = queue

LEMMA HeaderWritten ==
    ASSUME SenderSound, StreamTyped, NEW t \in Senders, WriteHeader(t)
    PROVE  /\ SenderSound' /\ StreamTyped'
           /\ pkt[t] \in Packets
           /\ ~ spoilt' => ~ spoilt /\ Puts(t, Header(pkt[t]), Append(queue, pkt[t]))
           /\ ~ spoilt' => IF pkt[t].size > 0
                           THEN pc' = [pc EXCEPT ![t] = "payload"] /\ reported' = reported
                           ELSE /\ pc' = [pc EXCEPT ![t] = "idle"]
                                /\ reported' = reported \cup {pkt[t]}
<1>1. /\ pc[t] = "header" /\ pkt[t] \in Packets /\ bytesSent[t] \in Nat
      /\ pkt[t].size \in Nat /\ HeaderSize \in Nat \ {0}
      /\ HeaderArea(t) \in Seq(ByteValues) /\ Len(HeaderArea(t)) = HeaderSize
      /\ seph = t
  BY AreasAre, PayloadIs, ProtocolAssumption DEF WriteHeader, SenderSound, PktSound, SephSound
<1>2. PICK k \in 1 .. HeaderSize :
          /\ Write(t, HeaderArea(t), k)
          /\ CASE bytesSent[t] + k < HeaderSize ->
                      /\ bytesSent' = [bytesSent EXCEPT ![t] = bytesSent[t] + k]
                      /\ UNCHANGED <<seph, pc, reported>>
               [] bytesSent[t] + k >= HeaderSize /\ pkt[t].size > 0 ->
                      /\ pc' = [pc EXCEPT ![t] = "payload"]
                      /\ bytesSent' = [bytesSent EXCEPT ![t] = 0]
                      /\ UNCHANGED <<seph, reported>>
               [] OTHER -> Sent(t)
  BY DEF WriteHeader
<1>3. /\ StreamTyped'
      /\ ~ spoilt' => ~ spoilt /\ k = HeaderSize
      /\ ~ spoilt' => Streams(HeaderArea(t)) \/ Strays(t)
  <2>1. PICK area \in Seq(ByteValues) : area = HeaderArea(t)
    BY <1>1
  <2>2. Write(t, area, k)
    BY <1>2, <2>1 DEF Write
  <2>3. k \in 1 .. Len(area) /\ Len(area) = HeaderSize
    BY <1>1, <2>1
  <2>4. /\ wire' \in Seq(ByteValues) /\ stray' \subseteq Packets
        /\ link' \in {"up", "shut", "closing", "closed", "reset"}
        /\ mishaps' \in 0 .. MaxMishaps /\ spoilt' \in BOOLEAN
        /\ ~ spoilt' => ~ spoilt /\ k = Len(area) /\ (Streams(area) \/ Strays(t))
    BY <1>1, <2>2, <2>3, WriteIs
  <2>5. way' = way
    BY DEF WriteHeader
  <2>6. StreamTyped'
    BY <2>4, <2>5 DEF StreamTyped
  <2> QED
    BY <2>1, <2>3, <2>4, <2>6
<1>4. queue' = (IF Open /\ bytesSent[t] = 0 THEN Append(queue, pkt[t]) ELSE queue)
      /\ UNCHANGED <<pkt, calls>>
  BY DEF WriteHeader
<1>5. queue' \in Seq(Packets)
  BY <1>1, <1>4, AppendProperties DEF SenderSound
<1>6. \A s \in Senders : ~ spoilt => bytesSent[s] = 0
  BY DEF SenderSound, PktSound
<1>7. ~ spoilt' => bytesSent[t] = 0 /\ Puts(t, Header(pkt[t]), Append(queue, pkt[t]))
  <2> SUFFICES ASSUME ~ spoilt'
               PROVE  bytesSent[t] = 0 /\ Puts(t, Header(pkt[t]), Append(queue, pkt[t]))
    OBVIOUS
  <2>1. bytesSent[t] = 0 /\ HeaderArea(t) = Header(pkt[t])
    BY <1>3, <1>6 DEF HeaderArea
  <2>2. CASE Streams(HeaderArea(t))
    BY <1>4, <2>1, <2>2 DEF Streams, Puts
  <2>3. CASE Strays(t)
    BY <1>4, <2>1, <2>3 DEF Strays, Open, Puts
  <2> QED
    BY <1>3, <2>2, <2>3
<1>8. CASE bytesSent[t] + k < HeaderSize
  <2>1. /\ bytesSent' = [bytesSent EXCEPT ![t] = bytesSent[t] + k]
        /\ UNCHANGED <<seph, pc, reported>>
    BY <1>1, <1>2, <1>8
  <2>2. spoilt' /\ bytesSent[t] + k \in Nat
    BY <1>1, <1>3, <1>7, <1>8
  <2>3. pc' = [pc EXCEPT ![t] = "header"] /\ seph' = seph
    BY <1>1, <2>1 DEF SenderSound
  <2>4. SenderSound'
    BY <1>1, <1>4, <1>5, <2>1, <2>2, <2>3, HolderStep DEF SenderSound
  <2> QED
    BY <1>1, <1>3, <2>2, <2>4
<1>9. CASE ~ (bytesSent[t] + k < HeaderSize) /\ pkt[t].size > 0
  <2>1. bytesSent[t] + k >= HeaderSize
    BY <1>1, <1>9
  <2>2. /\ pc' = [pc EXCEPT ![t] = "payload"]
        /\ bytesSent' = [bytesSent EXCEPT ![t] = 0]
        /\ UNCHANGED <<seph, reported>>
    BY <1>2, <1>9, <2>1
  <2>3. spoilt => spoilt'
    BY <1>3
  <2>4. SenderSound'
    BY <1>1, <1>4, <1>5, <1>9, <2>2, <2>3, HolderStep DEF SenderSound
  <2> QED
    BY <1>1, <1>3, <1>7, <1>9, <2>2, <2>4
<1>10. CASE ~ (bytesSent[t] + k < HeaderSize) /\ ~ (pkt[t].size > 0)
  <2>1. Sent(t)
    BY <1>2, <1>10
  <2>2. spoilt => spoilt'
    BY <1>3
  <2>3. reported' \subseteq Packets
    BY <1>1, <2>1 DEF Sent, SenderSound
  <2>4. SenderSound'
    BY <1>1, <1>4, <1>5, <2>1, <2>2, <2>3, HolderStep DEF Sent
  <2> QED
    BY <1>1, <1>3, <1>7, <1>10, <2>1, <2>4 DEF Sent
<1> QED
  BY <1>8, <1>9, <1>10

LEMMA PayloadWritten ==
    ASSUME SenderSound, StreamTyped, NEW t \in Senders, WritePayload(t)
    PROVE  /\ SenderSound' /\ StreamTyped'
           /\ pkt[t] \in Packets
           /\ ~ spoilt' =>
                  /\ ~ spoilt /\ pc[t] = "payload"
                  /\ Puts(t, Payload(pkt[t]), queue)
                  /\ pc' = [pc EXCEPT ![t] = "idle"]
                  /\ reported' = reported \cup {pkt[t]}
<1>1. /\ pc[t] = "payload" /\ pkt[t] \in Packets /\ bytesSent[t] \in Nat
      /\ pkt[t].size \in Nat /\ pkt[t].size > 0
      /\ PayloadArea(t) \in Seq(ByteValues) /\ Len(PayloadArea(t)) = pkt[t].size
      /\ seph = t
  BY AreasAre, PayloadIs DEF WritePayload, SenderSound, PktSound, SephSound
<1>2. PICK k \in 1 .. pkt[t].size :
          /\ Write(t, PayloadArea(t), k)
          /\ IF bytesSent[t] + k < pkt[t].size
             THEN /\ bytesSent' = [bytesSent EXCEPT ![t] = bytesSent[t] + k]
                  /\ UNCHANGED <<seph, pc, reported>>
             ELSE Sent(t)
  BY DEF WritePayload
<1>3. /\ StreamTyped'
      /\ ~ spoilt' => ~ spoilt /\ k = pkt[t].size
      /\ ~ spoilt' => Streams(PayloadArea(t)) \/ Strays(t)
  <2>1. PICK area \in Seq(ByteValues) : area = PayloadArea(t)
    BY <1>1
  <2>2. Write(t, area, k)
    BY <1>2, <2>1 DEF Write
  <2>3. k \in 1 .. Len(area) /\ Len(area) = pkt[t].size
    BY <1>1, <2>1
  <2>4. /\ wire' \in Seq(ByteValues) /\ stray' \subseteq Packets
        /\ link' \in {"up", "shut", "closing", "closed", "reset"}
        /\ mishaps' \in 0 .. MaxMishaps /\ spoilt' \in BOOLEAN
        /\ ~ spoilt' => ~ spoilt /\ k = Len(area) /\ (Streams(area) \/ Strays(t))
    BY <1>1, <2>2, <2>3, WriteIs
  <2>5. way' = way
    BY DEF WritePayload
  <2>6. StreamTyped'
    BY <2>4, <2>5 DEF StreamTyped
  <2> QED
    BY <2>1, <2>3, <2>4, <2>6
<1>4. UNCHANGED <<pkt, calls, queue>> /\ queue' \in Seq(Packets)
  BY DEF WritePayload, SenderSound
<1>5. \A s \in Senders : ~ spoilt => bytesSent[s] = 0
  BY DEF SenderSound, PktSound
<1>6. ~ spoilt' => bytesSent[t] = 0 /\ Puts(t, Payload(pkt[t]), queue)
  <2> SUFFICES ASSUME ~ spoilt' PROVE bytesSent[t] = 0 /\ Puts(t, Payload(pkt[t]), queue)
    OBVIOUS
  <2>1. bytesSent[t] = 0
    BY <1>3, <1>5
  <2>2. \A i \in 1 .. pkt[t].size : bytesSent[t] + i <= pkt[t].size /\ bytesSent[t] + i = i
    BY <1>1, <2>1
  <2>3. PayloadArea(t) = Payload(pkt[t])
    BY <2>2 DEF PayloadArea, Payload
  <2> QED
    BY <1>3, <1>4, <2>1, <2>3 DEF Puts
<1>7. CASE bytesSent[t] + k < pkt[t].size
  <2>1. /\ bytesSent' = [bytesSent EXCEPT ![t] = bytesSent[t] + k]
        /\ UNCHANGED <<seph, pc, reported>>
    BY <1>2, <1>7
  <2>2. spoilt' /\ bytesSent[t] + k \in Nat
    BY <1>1, <1>3, <1>6, <1>7
  <2>3. pc' = [pc EXCEPT ![t] = "payload"] /\ seph' = seph
    BY <1>1, <2>1 DEF SenderSound
  <2>4. SenderSound'
    BY <1>1, <1>4, <2>1, <2>2, <2>3, HolderStep DEF SenderSound
  <2> QED
    BY <1>1, <1>3, <2>2, <2>4
<1>8. CASE ~ (bytesSent[t] + k < pkt[t].size)
  <2>1. Sent(t)
    BY <1>2, <1>8
  <2>2. spoilt => spoilt'
    BY <1>3
  <2>3. reported' \subseteq Packets
    BY <1>1, <2>1 DEF Sent, SenderSound
  <2>4. SenderSound'
    BY <1>1, <1>4, <2>1, <2>2, <2>3, HolderStep DEF Sent
  <2> QED
    BY <1>1, <1>3, <1>4, <1>6, <1>8, <2>1, <2>4 DEF Sent
<1> QED
  BY <1>7, <1>8

LEMMA WriteFailed ==
    ASSUME SenderSound, StreamTyped, NEW t \in Senders, WriteFails(t)
    PROVE  /\ SenderSound' /\ StreamTyped'
           /\ pc' = [pc EXCEPT ![t] = "idle"]
           /\ UNCHANGED <<queue, reported, stray, wire>>
           /\ link' # "reset" => link # "reset"
           /\ link = "closed" => link' = "closed"
           /\ ~ spoilt' => ~ spoilt /\ (link \in {"closed", "reset"} \/ pc[t] # "payload")
<1>1. /\ pc[t] \in {"header", "payload"}
      /\ seph' = NoSender /\ pc' = [pc EXCEPT ![t] = "idle"]
      /\ bytesSent' = [bytesSent EXCEPT ![t] = 0]
      /\ UNCHANGED <<reported, pkt, wire, way, queue, stray, calls>>
  BY DEF WriteFails, Failed
<1>2. /\ mishaps' \in 0 .. MaxMishaps /\ spoilt' \in BOOLEAN
      /\ ~ spoilt' => ~ spoilt /\ (link \in {"closed", "reset"} \/ pc[t] # "payload")
  <2>1. CASE link \in {"closed", "reset"} /\ UNCHANGED <<mishaps, spoilt>>
    BY <2>1 DEF StreamTyped
  <2>2. CASE Mishap /\ spoilt' = (spoilt \/ pc[t] = "payload" \/ bytesSent[t] > 0)
    <3>1. mishaps' \in 0 .. MaxMishaps
      BY <2>2, ProtocolAssumption DEF StreamTyped, Mishap
    <3>2. spoilt' \in BOOLEAN /\ (~ spoilt' => ~ spoilt /\ pc[t] # "payload")
      BY <2>2
    <3> QED
      BY <3>1, <3>2
  <2> QED
    BY <2>1, <2>2 DEF WriteFails
<1>3. SenderSound'
  BY <1>1, <1>2, HolderStep DEF SenderSound
<1>4. /\ link' \in {"up", "shut", "closing", "closed", "reset"}
      /\ link' # "reset" => link # "reset"
      /\ link = "closed" => link' = "closed"
  BY DEF WriteFails, Written, Open, StreamTyped
<1> QED
  BY <1>1, <1>2, <1>3, <1>4 DEF StreamTyped

LEMMA ConnectionStep ==
    ASSUME SenderSound, StreamTyped, ReceiverSound,
           Shutdown \/ Close \/ Intrude \/ Reset, UNCHANGED <<sender, receiver, way>>
    PROVE  /\ SenderSound' /\ StreamTyped' /\ ReceiverSound'
           /\ spoilt => spoilt'
           /\ ~ spoilt' /\ link' # "reset" =>
                  wire' = wire /\ link # "reset" /\ (link = "closed" => link' = "closed")
<1>1. /\ wire' \in Seq(ByteValues)
      /\ link' \in {"up", "shut", "closing", "closed", "reset"}
  <2>1. CASE Intrude
    <3>1. Append(wire, Junk) \in Seq(ByteValues)
      BY AppendProperties DEF StreamTyped, ByteValues
    <3> QED
      BY <2>1, <3>1 DEF Intrude
  <2>2. CASE Shutdown \/ Close \/ Reset
    BY <2>2, EmptySeq DEF Shutdown, Close, Reset, StreamTyped
  <2> QED
    BY <2>1, <2>2
<1>2. /\ mishaps' \in 0 .. MaxMishaps /\ spoilt' \in BOOLEAN
      /\ spoilt => spoilt'
      /\ ~ spoilt' /\ link' # "reset" =>
             wire' = wire /\ link # "reset" /\ (link = "closed" => link' = "closed")
  <2>1. CASE Intrude
    <3>1. MaxMishaps \in Nat
      BY ProtocolAssumption
    <3> QED
      BY <2>1, <3>1 DEF Intrude, Mishap, StreamTyped
  <2>2. CASE Shutdown \/ Close \/ Reset
    BY <2>2 DEF Shutdown, Close, Reset, StreamTyped
  <2> QED
    BY <2>1, <2>2
<1>3. SenderSound'
  BY <1>2 DEF sender, SenderSound, SephSound, PktSound
<1>4. ReceiverSound'
  BY DEF receiver, ReceiverSound, StageSound
<1> QED
  BY <1>1, <1>2, <1>3, <1>4 DEF sender, StreamTyped

(***************************************************************************)
(* Packets end to end: s holds packet k of q and those after it.           *)
(***************************************************************************)
LEMMA LiesTypes ==
    ASSUME NEW at, NEW s, NEW q, NEW k, Lies(at, s, q, k)
    PROVE  /\ Len(q) \in Nat /\ Len(s) \in Nat /\ k \in Nat \ {0} /\ HeaderSize \in Nat \ {0}
           /\ \A i \in k .. Len(q) + 1 : at[i] \in Nat
           /\ \A i \in 1 .. Len(q) : q[i] \in Packets /\ q[i].size \in Nat
<1>1. Len(q) \in Nat /\ Len(s) \in Nat
  BY LenProperties DEF Lies
<1>2. \A i \in 1 .. Len(q) : q[i] \in Packets
  BY ElementOfSeq DEF Lies
<1>3. HeaderSize \in Nat \ {0}
  BY ProtocolAssumption
<1>4. \A i \in 1 .. Len(q) : q[i] \in Packets /\ q[i].size \in Nat
  BY <1>2, PacketSizes
<1>5. k \in Nat \ {0} /\ \A i \in k .. Len(q) + 1 : at[i] \in Nat
  BY <1>1 DEF Lies
<1> QED
  BY <1>1, <1>3, <1>4, <1>5

\* All packets but the last one are there to their ends.
LEMMA EarlierAreWhole ==
    ASSUME NEW at, NEW s, NEW q, NEW k, Lies(at, s, q, k),
           NEW i \in k .. Len(q), i < Len(q) \/ at[Len(q) + 1] <= Len(s)
    PROVE  at[i + 1] <= Len(s)
<1>1. CASE i < Len(q)
  <2>1. i + 1 \in k .. Len(q) /\ 1 \in 1 .. HeaderSize
    BY <1>1, LiesTypes
  <2>2. at[i + 1] + 1 <= Len(s)
    BY <2>1 DEF Lies, Laid
  <2> QED
    BY <2>1, <2>2, LiesTypes
<1>2. CASE i = Len(q)
  BY <1>2, LiesTypes
<1> QED
  BY <1>1, <1>2, LiesTypes

LEMMA AddHeader ==
    ASSUME NEW at, NEW s, NEW q, NEW k, Lies(at, s, q, k), Len(s) = at[Len(q) + 1],
           NEW p \in Packets
    PROVE  \E to : /\ Lies(to, s \o Header(p), Append(q, p), k)
                   /\ to[Len(q) + 1] = Len(s)
                   /\ to[Len(q) + 2] = Len(s) + HeaderSize + p.size
<1>n. PICK n \in Nat : n = Len(q)
  BY LiesTypes
<1>l. PICK l \in Nat : l = Len(s)
  BY LiesTypes
<1>g. PICK g \in Nat : g = HeaderSize
  BY LiesTypes
<1>z. PICK z \in Nat : z = p.size
  BY PacketSizes
<1>0. n = Len(q) /\ l = Len(s) /\ g = HeaderSize /\ z = p.size
  BY <1>n, <1>l, <1>g, <1>z
<1>r. PICK r \in Seq(Packets) : Grown(r, q, p)
  BY Appended DEF Lies
<1>1. r = Append(q, p) /\ Len(r) = n + 1 /\ r[n + 1] = p /\ \A i \in 1 .. n : r[i] = q[i]
  BY <1>0, <1>r DEF Grown
<1>2. PICK u \in Seq(ByteValues) :
          /\ u = s \o Header(p) /\ Len(u) = Len(s) + HeaderSize
          /\ \A i \in 1 .. Len(s) : u[i] = s[i]
          /\ \A i \in 1 .. HeaderSize : u[Len(s) + i] = HeaderByte(p, i)
  <2>1. s \in Seq(ByteValues)
    BY DEF Lies
  <2> QED
    BY <2>1, WithHeader
<1>3. /\ Len(u) = l + g
      /\ \A i \in 1 .. l : u[i] = s[i]
      /\ \A i \in 1 .. g : u[l + i] = HeaderByte(p, i)
  BY <1>0, <1>2
<1>4. k \in 1 .. n + 1 /\ g > 0 /\ at[n + 1] = l
  BY <1>0, ProtocolAssumption DEF Lies
<1>5. ASSUME NEW i \in k .. n + 1
      PROVE  at[i] \in Nat /\ at[i] <= l
  <2>1. at[i] \in Nat /\ i <= n + 1 /\ n + 1 \in k .. n + 1
    BY <1>0, <1>4, LiesTypes
  <2> QED
    BY <1>0, <1>4, <2>1 DEF Lies, Laid
<1>6. ASSUME NEW i \in k .. n
      PROVE  /\ q[i].size \in Nat
             /\ at[i + 1] = at[i] + g + q[i].size
             /\ \A j \in 1 .. g : at[i] + j <= l /\ s[at[i] + j] = HeaderByte(q[i], j)
             /\ \A j \in 1 .. q[i].size :
                    at[i] + g + j <= l => s[at[i] + g + j] = PayloadByte(q[i], j)
  <2>1. i \in k .. Len(q) /\ i \in 1 .. Len(q)
    BY <1>0, <1>4
  <2>2. q[i].size \in Nat
    BY <2>1, LiesTypes
  <2> QED
    BY <1>0, <2>1, <2>2 DEF Lies, Laid
<1> DEFINE off(i) == IF i = n + 2 THEN l + g + z ELSE at[i]
           to == [i \in k .. n + 2 |-> off(i)]
<1>7. \A i \in k .. n + 2 : i # n + 2 => i \in k .. n + 1
  BY <1>4
<1>8. to \in [k .. n + 2 -> Nat]
  <2>1. ASSUME NEW i \in k .. n + 2 PROVE off(i) \in Nat
    BY <1>5, <1>7
  <2> HIDE DEF off
  <2> QED
    BY <2>1
<1>9. ASSUME NEW i \in k .. n + 1
      PROVE  /\ to[i] = at[i] /\ to[i] \in Nat /\ to[i] <= l
             /\ i = n + 1 => to[i] = l /\ r[i] = p
             /\ i # n + 1 => i \in k .. n /\ r[i] = q[i]
  <2>1. i \in k .. n + 2 /\ i # n + 2 /\ (i # n + 1 => i \in k .. n /\ i \in 1 .. n)
    BY <1>4
  <2>2. to[i] = at[i]
    BY <2>1
  <2> HIDE DEF to
  <2> QED
    BY <1>1, <1>4, <1>5, <2>1, <2>2
<1>10. to[n + 2] = l + g + z /\ to[k] = 0 /\ to[n + 1] = l
  <2>1. n + 2 \in k .. n + 2 /\ k \in k .. n + 1 /\ n + 1 \in k .. n + 1
    BY <1>4
  <2>2. to[n + 2] = l + g + z
    BY <2>1
  <2> HIDE DEF to
  <2>3. at[k] = 0
    BY DEF Lies, Laid
  <2> QED
    BY <1>9, <2>1, <2>2, <2>3
<1> HIDE DEF to
<1>11. \A i, j \in k .. n + 2 : i <= j => to[i] <= to[j]
  <2> SUFFICES ASSUME NEW i \in k .. n + 2, NEW j \in k .. n + 2, i <= j
               PROVE  to[i] <= to[j]
    OBVIOUS
  <2>1. CASE j # n + 2
    <3>1. i # n + 2
      BY <1>4, <2>1
    <3>2. i \in k .. n + 1 /\ j \in k .. n + 1
      BY <1>7, <2>1, <3>1
    <3>3. at[i] <= at[j]
      BY <1>0, <3>2 DEF Lies, Laid
    <3> QED
      BY <1>9, <3>2, <3>3
  <2>2. CASE j = n + 2 /\ i # n + 2
    <3>1. to[i] <= l /\ to[i] \in Nat
      BY <1>7, <1>9, <2>2
    <3>2. to[j] = l + g + z
      BY <1>10, <2>2
    <3> QED
      BY <3>1, <3>2
  <2>3. CASE i = n + 2 /\ j = n + 2
    <3>1. to[i] = l + g + z
      BY <1>10, <2>3
    <3> QED
      BY <2>3, <3>1
  <2>4. i = n + 2 => j = n + 2
    BY <1>4
  <2> QED
    BY <2>1, <2>2, <2>3, <2>4
<1>12. \A i \in k .. n + 1 : to[i + 1] = to[i] + HeaderSize + r[i].size
  <2> SUFFICES ASSUME NEW i \in k .. n + 1
               PROVE  to[i + 1] = to[i] + g + r[i].size
    BY <1>0
  <2>1. CASE i = n + 1
    <3>1. i + 1 = n + 2
      BY <2>1
    <3> QED
      BY <1>0, <1>9, <1>10, <2>1, <3>1
  <2>2. CASE i # n + 1
    <3>1. i \in k .. n /\ i + 1 \in k .. n + 1
      BY <1>4, <2>2
    <3>2. to[i + 1] = at[i + 1] /\ to[i] = at[i] /\ r[i] = q[i]
      BY <1>9, <2>2, <3>1
    <3> QED
      BY <1>6, <3>1, <3>2
  <2> QED
    BY <2>1, <2>2
<1>13. \A i \in k .. n + 1 : \A j \in 1 .. HeaderSize :
           to[i] + j <= Len(u) /\ u[to[i] + j] = HeaderByte(r[i], j)
  <2> SUFFICES ASSUME NEW i \in k .. n + 1, NEW j \in 1 .. g
               PROVE  to[i] + j <= l + g /\ u[to[i] + j] = HeaderByte(r[i], j)
    BY <1>0, <1>3
  <2>1. PICK a \in Nat : a = to[i] /\ a = at[i] /\ a <= l
    BY <1>9
  <2>2. a + j <= l + g
    BY <2>1
  <2>3. u[a + j] = HeaderByte(r[i], j)
    <3>1. CASE i = n + 1
      BY <1>3, <1>9, <2>1, <3>1
    <3>2. CASE i # n + 1
      <4>1. i \in k .. n /\ r[i] = q[i]
        BY <1>9, <3>2
      <4>2. a + j <= l /\ s[a + j] = HeaderByte(q[i], j)
        BY <1>6, <2>1, <4>1
      <4>3. a + j \in 1 .. l
        BY <4>2
      <4> QED
        BY <1>3, <4>1, <4>2, <4>3
    <3> QED
      BY <3>1, <3>2
  <2> QED
    BY <2>1, <2>2, <2>3
<1>14. \A i \in k .. n + 1 : \A j \in 1 .. r[i].size :
           to[i] + HeaderSize + j <= Len(u) =>
               u[to[i] + HeaderSize + j] = PayloadByte(r[i], j)
  <2> SUFFICES ASSUME NEW i \in k .. n + 1, NEW j \in 1 .. r[i].size,
                      to[i] + g + j <= l + g
               PROVE  u[to[i] + g + j] = PayloadByte(r[i], j)
    BY <1>0, <1>3
  <2>1. PICK a \in Nat : a = to[i] /\ a = at[i]
    BY <1>9
  <2>2. i # n + 1
    <3> SUFFICES ASSUME i = n + 1 PROVE FALSE
      OBVIOUS
    <3>1. a = l /\ r[i].size = z
      BY <1>0, <1>9, <2>1
    <3>2. j \in 1 .. z
      BY <3>1
    <3>3. l + g + j <= l + g
      BY <2>1, <3>1
    <3>4. j \in Int /\ j > 0
      BY <3>2
    <3> QED
      BY <3>3, <3>4
  <2>3. i \in k .. n /\ i + 1 \in k .. n + 1 /\ r[i] = q[i]
    BY <1>4, <1>9, <2>2
  <2>m. PICK m \in Nat : m = q[i].size
    BY <1>6, <2>3
  <2>4. m = q[i].size /\ a + g + m <= l
    <3>1. at[i + 1] = a + g + m
      BY <1>6, <2>1, <2>3, <2>m
    <3>2. at[i + 1] <= l
      BY <1>5, <2>3
    <3> QED
      BY <2>m, <3>1, <3>2
  <2>5. j \in 1 .. m
    BY <2>3, <2>4
  <2>6. a + g + j \in 1 .. l /\ a + g + j <= l
    BY <2>4, <2>5
  <2>7. s[a + g + j] = PayloadByte(q[i], j)
    BY <1>6, <2>1, <2>3, <2>4, <2>5, <2>6
  <2> QED
    BY <1>3, <2>1, <2>3, <2>6, <2>7
<1>15. Len(r) = n + 1 /\ Len(r) + 1 = n + 2 /\ k \in 1 .. Len(r) + 1
  BY <1>1, <1>4
<1>16. Laid(to, u, r, k)
  BY <1>10, <1>11, <1>12, <1>13, <1>14, <1>15 DEF Laid
<1>17. Lies(to, u, r, k)
  BY <1>8, <1>15, <1>16 DEF Lies
<1>18. to[Len(q) + 1] = Len(s) /\ to[Len(q) + 2] = Len(s) + HeaderSize + p.size
  BY <1>0, <1>10
<1> QED
  BY <1>1, <1>2, <1>17, <1>18

LEMMA AddPayload ==
    ASSUME NEW at, NEW s, NEW q, NEW k, Lies(at, s, q, k),
           k <= Len(q), Len(s) = at[Len(q)] + HeaderSize
    PROVE  /\ Lies(at, s \o Payload(q[Len(q)]), q, k)
           /\ Len(s \o Payload(q[Len(q)])) = at[Len(q) + 1]
<1>n. PICK n \in Nat : n = Len(q)
  BY LiesTypes
<1>l. PICK l \in Nat : l = Len(s)
  BY LiesTypes
<1>g. PICK g \in Nat : g = HeaderSize
  BY LiesTypes
<1>k. k \in Nat \ {0} /\ k <= n
  BY <1>n, LiesTypes
<1>p. PICK p \in Packets : p = q[n]
  <2>1. n \in 1 .. Len(q)
    BY <1>n, <1>k
  <2> QED
    BY <2>1, LiesTypes
<1>z. PICK z \in Nat : z = p.size
  BY PacketSizes
<1>1. n \in k .. n /\ n = Len(q) /\ l = Len(s) /\ g = HeaderSize /\ p = q[n] /\ z = p.size
  BY <1>n, <1>l, <1>g, <1>k, <1>p, <1>z
<1>2. ASSUME NEW i \in k .. n
      PROVE  /\ at[i] \in Nat /\ q[i].size \in Nat
             /\ at[i + 1] = at[i] + g + q[i].size
             /\ \A j \in 1 .. g : at[i] + j <= l /\ s[at[i] + j] = HeaderByte(q[i], j)
             /\ \A j \in 1 .. q[i].size :
                    at[i] + g + j <= l => s[at[i] + g + j] = PayloadByte(q[i], j)
  <2>1. i \in k .. Len(q) /\ i \in k .. Len(q) + 1 /\ i \in 1 .. Len(q)
    BY <1>1, <1>k
  <2>2. at[i] \in Nat /\ q[i].size \in Nat
    BY <2>1, LiesTypes
  <2> QED
    BY <1>1, <2>1, <2>2 DEF Lies, Laid
<1>u. PICK u \in Seq(ByteValues) :
          /\ u = s \o Payload(p) /\ Len(u) = Len(s) + p.size
          /\ \A i \in 1 .. Len(s) : u[i] = s[i]
          /\ \A i \in 1 .. p.size : u[Len(s) + i] = PayloadByte(p, i)
  <2>1. s \in Seq(ByteValues)
    BY DEF Lies
  <2> QED
    BY <2>1, WithPayload
<1>3. /\ u = s \o Payload(p) /\ Len(u) = l + z
      /\ \A i \in 1 .. l : u[i] = s[i]
      /\ \A i \in 1 .. z : u[l + i] = PayloadByte(p, i)
  BY <1>1, <1>u
<1>4. at[n + 1] = l + z /\ l = at[n] + g
  BY <1>1, <1>2
<1>5. \A i \in k .. n : \A j \in 1 .. g :
          at[i] + j <= Len(u) /\ u[at[i] + j] = HeaderByte(q[i], j)
  <2> SUFFICES ASSUME NEW i \in k .. n, NEW j \in 1 .. g
               PROVE  at[i] + j <= l + z /\ u[at[i] + j] = HeaderByte(q[i], j)
    BY <1>3
  <2>1. PICK a \in Nat : a = at[i]
    BY <1>2
  <2>2. a + j <= l /\ s[a + j] = HeaderByte(q[i], j)
    BY <1>2, <2>1
  <2>3. a + j \in 1 .. l /\ a + j <= l + z
    BY <2>2
  <2> QED
    BY <1>3, <2>1, <2>2, <2>3
<1>6. \A i \in k .. n : \A j \in 1 .. q[i].size :
          at[i] + HeaderSize + j <= Len(u) =>
              u[at[i] + HeaderSize + j] = PayloadByte(q[i], j)
  <2> SUFFICES ASSUME NEW i \in k .. n, NEW j \in 1 .. q[i].size
               PROVE  u[at[i] + g + j] = PayloadByte(q[i], j)
    BY <1>1
  <2>1. PICK a \in Nat : a = at[i]
    BY <1>2
  <2>2. PICK m \in Nat : m = q[i].size
    BY <1>2
  <2>3. j \in 1 .. m
    BY <2>2
  <2>4. CASE i = n
    <3>1. a + g + j = l + j /\ m = z
      BY <1>1, <1>4, <2>1, <2>2, <2>4
    <3> QED
      BY <1>1, <1>3, <2>1, <2>3, <2>4, <3>1
  <2>5. CASE i # n
    <3>1. i \in k .. Len(q) /\ i < Len(q)
      BY <1>1, <2>5
    <3>2. at[i + 1] <= l
      BY <1>1, <3>1, EarlierAreWhole
    <3>3. a + g + m <= l
      BY <1>2, <2>1, <2>2, <3>2
    <3>4. a + g + j \in 1 .. l /\ a + g + j <= l
      BY <2>3, <3>3
    <3>5. s[a + g + j] = PayloadByte(q[i], j)
      BY <1>2, <2>1, <2>2, <2>3, <3>4
    <3> QED
      BY <1>3, <2>1, <3>4, <3>5
  <2> QED
    BY <2>4, <2>5
<1>7. Laid(at, u, q, k)
  <2>1. /\ at[k] = 0
        /\ \A i, j \in k .. Len(q) + 1 : i <= j => at[i] <= at[j]
        /\ \A i \in k .. Len(q) : at[i + 1] = at[i] + HeaderSize + q[i].size
    BY DEF Lies, Laid
  <2> QED
    BY <1>1, <1>5, <1>6, <2>1 DEF Laid
<1>8. Lies(at, u, q, k)
  BY <1>7 DEF Lies
<1> QED
  BY <1>1, <1>3, <1>4, <1>8

LEMMA DropFirst ==
    ASSUME NEW at, NEW s, NEW q, NEW k, Lies(at, s, q, k), k <= Len(q),
           NEW x \in Seq(ByteValues), NEW w \in Seq(ByteValues),
           Splits(s, x, w), Len(x) = at[k + 1]
    PROVE  \E to : /\ Lies(to, w, q, k + 1)
                   /\ \A i \in k + 1 .. Len(q) + 1 : to[i] = at[i] - at[k + 1]
                   /\ Len(w) = Len(s) - at[k + 1]
<1>0. s = x \o w
  BY DEF Splits
<1>n. PICK n \in Nat : n = Len(q)
  BY <1>0, LiesTypes
<1>g. PICK g \in Nat : g = HeaderSize
  BY <1>0, LiesTypes
<1>k. k \in 1 .. n /\ k \in Nat
  BY <1>0, <1>n, LiesTypes
<1>c. PICK c \in Nat : c = at[k + 1]
  <2>1. k + 1 \in k .. Len(q) + 1
    BY <1>n, <1>k
  <2> QED
    BY <1>0, <2>1, LiesTypes
<1>m. PICK m \in Nat : m = Len(w)
  BY LenProperties
<1>1. n = Len(q) /\ g = HeaderSize /\ c = at[k + 1] /\ m = Len(w)
  BY <1>n, <1>g, <1>c, <1>m
<1>2. ASSUME NEW i \in k + 1 .. n + 1
      PROVE  at[i] \in Nat /\ c <= at[i]
  <2>1. i \in k .. Len(q) + 1 /\ k + 1 \in k .. Len(q) + 1 /\ k + 1 <= i
    BY <1>1, <1>k
  <2>2. at[i] \in Nat
    BY <1>0, <2>1, LiesTypes
  <2>3. at[k + 1] <= at[i]
    BY <1>0, <2>1 DEF Lies, Laid
  <2> QED
    BY <1>1, <2>2, <2>3
<1>3. Len(s) = c + m /\ \A i \in 1 .. m : s[c + i] = w[i]
  <2>1. Len(x \o w) = Len(x) + Len(w) /\ \A i \in 1 .. Len(w) : (x \o w)[Len(x) + i] = w[i]
    BY Joined
  <2> QED
    BY <1>0, <1>1, <2>1
<1>4. ASSUME NEW i \in k + 1 .. n
      PROVE  /\ i \in k + 1 .. n + 1 /\ i + 1 \in k + 1 .. n + 1
             /\ q[i].size \in Nat
             /\ at[i + 1] = at[i] + g + q[i].size
             /\ \A j \in 1 .. g : at[i] + j <= c + m /\ s[at[i] + j] = HeaderByte(q[i], j)
             /\ \A j \in 1 .. q[i].size :
                    at[i] + g + j <= c + m => s[at[i] + g + j] = PayloadByte(q[i], j)
  <2>1. i \in k .. Len(q) /\ i \in 1 .. Len(q)
    BY <1>1, <1>k
  <2>2. i \in k + 1 .. n + 1 /\ i + 1 \in k + 1 .. n + 1
    BY <1>k
  <2>3. q[i].size \in Nat
    BY <1>0, <2>1, LiesTypes
  <2> QED
    BY <1>0, <1>1, <1>3, <2>1, <2>2, <2>3 DEF Lies, Laid
<1> DEFINE to == [i \in k + 1 .. n + 1 |-> at[i] - c]
<1>5. \A i \in k + 1 .. n + 1 : at[i] - c \in Nat
  <2> SUFFICES ASSUME NEW i \in k + 1 .. n + 1 PROVE at[i] - c \in Nat
    OBVIOUS
  <2>1. PICK a \in Nat : a = at[i] /\ c <= a
    BY <1>2
  <2>2. a - c \in Nat
    BY <2>1
  <2> QED
    BY <2>1, <2>2
<1>6. to \in [k + 1 .. n + 1 -> Nat]
  BY <1>5
<1>7. \A i \in k + 1 .. n + 1 : to[i] = at[i] - c
  OBVIOUS
<1> HIDE DEF to
<1>8. ASSUME NEW i \in k + 1 .. n + 1
      PROVE  \E a \in Nat, b \in Nat : a = at[i] /\ b = to[i] /\ a = c + b
  <2>1. PICK a \in Nat : a = at[i]
    BY <1>2
  <2>2. PICK b \in Nat : b = to[i] /\ b = a - c
    BY <1>5, <1>7, <2>1
  <2>3. a = c + b
    BY <2>2
  <2> QED
    BY <2>1, <2>2, <2>3
<1>9. to[k + 1] = 0
  <2>1. k + 1 \in k + 1 .. n + 1
    BY <1>k
  <2>2. to[k + 1] = c - c
    BY <1>1, <1>7, <2>1
  <2> QED
    BY <2>2
<1>10. \A i, j \in k + 1 .. n + 1 : i <= j => to[i] <= to[j]
  <2> SUFFICES ASSUME NEW i \in k + 1 .. n + 1, NEW j \in k + 1 .. n + 1, i <= j
               PROVE  to[i] <= to[j]
    OBVIOUS
  <2>1. PICK a \in Nat, b \in Nat : a = at[i] /\ b = to[i] /\ a = c + b
    BY <1>8
  <2>2. PICK d \in Nat, e \in Nat : d = at[j] /\ e = to[j] /\ d = c + e
    BY <1>8
  <2>3. i \in k .. Len(q) + 1 /\ j \in k .. Len(q) + 1
    BY <1>1, <1>k
  <2>4. a <= d
    BY <1>0, <2>1, <2>2, <2>3 DEF Lies, Laid
  <2>5. a = c + b /\ d = c + e
    BY <2>1, <2>2
  <2>6. b <= e
    BY <2>4, <2>5
  <2> QED
    BY <2>1, <2>2, <2>6
<1>11. \A i \in k + 1 .. n : to[i + 1] = to[i] + HeaderSize + q[i].size
  <2> SUFFICES ASSUME NEW i \in k + 1 .. n PROVE to[i + 1] = to[i] + g + q[i].size
    BY <1>1
  <2>1. PICK a \in Nat, b \in Nat : a = at[i] /\ b = to[i] /\ a = c + b
    BY <1>4, <1>8
  <2>2. PICK d \in Nat, e \in Nat : d = at[i + 1] /\ e = to[i + 1] /\ d = c + e
    BY <1>4, <1>8
  <2>3. PICK z \in Nat : z = q[i].size
    BY <1>4
  <2>4. d = a + g + z
    BY <1>4, <2>1, <2>2, <2>3
  <2>5. a = c + b /\ d = c + e
    BY <2>1, <2>2
  <2>6. e = b + g + z
    BY <2>4, <2>5
  <2> QED
    BY <2>1, <2>2, <2>3, <2>6
<1>12. \A i \in k + 1 .. n : \A j \in 1 .. HeaderSize :
           to[i] + j <= Len(w) /\ w[to[i] + j] = HeaderByte(q[i], j)
  <2> SUFFICES ASSUME NEW i \in k + 1 .. n, NEW j \in 1 .. g
               PROVE  to[i] + j <= m /\ w[to[i] + j] = HeaderByte(q[i], j)
    BY <1>1
  <2>1. PICK a \in Nat, b \in Nat : a = at[i] /\ b = to[i] /\ a = c + b
    BY <1>4, <1>8
  <2>2. a + j <= c + m /\ s[a + j] = HeaderByte(q[i], j)
    BY <1>4, <2>1
  <2>3. b + j \in 1 .. m /\ b + j <= m /\ c + (b + j) = a + j
    <3>1. a = c + b /\ a + j <= c + m
      BY <2>1, <2>2
    <3> QED
      BY <3>1
  <2>4. s[c + (b + j)] = w[b + j]
    BY <1>3, <2>3
  <2> QED
    BY <2>1, <2>2, <2>3, <2>4
<1>13. \A i \in k + 1 .. n : \A j \in 1 .. q[i].size :
           to[i] + HeaderSize + j <= Len(w) =>
               w[to[i] + HeaderSize + j] = PayloadByte(q[i], j)
  <2> SUFFICES ASSUME NEW i \in k + 1 .. n, NEW j \in 1 .. q[i].size, to[i] + g + j <= m
               PROVE  w[to[i] + g + j] = PayloadByte(q[i], j)
    BY <1>1
  <2>1. PICK a \in Nat, b \in Nat : a = at[i] /\ b = to[i] /\ a = c + b
    BY <1>4, <1>8
  <2>2. PICK z \in Nat : z = q[i].size
    BY <1>4
  <2>3. j \in 1 .. z /\ b + g + j <= m
    BY <2>1, <2>2
  <2>4. b + g + j \in 1 .. m /\ a + g + j <= c + m /\ c + (b + g + j) = a + g + j
    <3>1. a = c + b
      BY <2>1
    <3>2. j \in Int /\ j > 0
      BY <2>3
    <3> QED
      BY <2>3, <3>1, <3>2
  <2>5. s[c + (b + g + j)] = w[b + g + j]
    BY <1>3, <2>4
  <2>6. s[a + g + j] = PayloadByte(q[i], j)
    BY <1>4, <2>1, <2>4
  <2> QED
    BY <2>1, <2>4, <2>5, <2>6
<1>14. Lies(to, w, q, k + 1)
  <2>1. k + 1 \in 1 .. Len(q) + 1
    BY <1>1, <1>k
  <2>2. q \in Seq(Packets)
    BY <1>0 DEF Lies
  <2>3. Laid(to, w, q, k + 1)
    BY <1>1, <1>9, <1>10, <1>11, <1>12, <1>13 DEF Laid
  <2> QED
    BY <1>1, <1>6, <2>1, <2>2, <2>3 DEF Lies
<1>15. Len(w) = Len(s) - at[k + 1]
  BY <1>1, <1>3
<1> QED
  BY <1>1, <1>7, <1>14, <1>15

LEMMA FirstHeader ==
    ASSUME NEW at, NEW s, NEW q, NEW k, Lies(at, s, q, k), k <= Len(q),
           NEW h \in Seq(ByteValues), NEW w \in Seq(ByteValues),
           Splits(s, h, w), Len(h) = HeaderSize
    PROVE  h = Header(q[k]) /\ SizeIn(h) = {q[k].size}
<1>0. s = h \o w
  BY DEF Splits
<1>1. PICK p \in Packets : p = q[k] /\ k \in k .. Len(q)
  BY <1>0, LiesTypes DEF Lies
<1>2. HeaderSize \in Nat /\ HeaderSize \in 1 .. HeaderSize
  BY ProtocolAssumption
<1>3. ASSUME NEW i \in 1 .. HeaderSize PROVE h[i] = HeaderByte(p, i)
  <2>1. at[k] = 0 /\ s[at[k] + i] = HeaderByte(q[k], i)
    BY <1>0, <1>1 DEF Lies, Laid
  <2>2. at[k] + i = i
    BY <1>2, <2>1
  <2>3. s[i] = h[i]
    <3>1. \A j \in 1 .. Len(h) : (h \o w)[j] = h[j]
      BY Joined
    <3> QED
      BY <1>0, <3>1
  <2> QED
    BY <1>1, <2>1, <2>2, <2>3
<1>4. h = Header(p)
  <2>1. Header(p) \in Seq(ByteValues) /\ Len(Header(p)) = HeaderSize
    BY HeaderIs
  <2>2. \A i \in 1 .. HeaderSize : Header(p)[i] = HeaderByte(p, i)
    BY HeaderIs
  <2> QED
    BY <1>3, <2>1, <2>2, SeqEqual
<1>5. SizeIn(h) = {p.size}
  <2>1. h[HeaderSize] = HeaderByte(p, HeaderSize)
    BY <1>2, <1>3
  <2>2. HeaderByte(p, HeaderSize) \in PacketBytes
    BY <1>2 DEF PacketBytes, HeaderByte
  <2>3. h[HeaderSize] # Junk
    BY <2>1, <2>2, ProtocolAssumption
  <2> QED
    BY <2>1, <2>3 DEF SizeIn, HeaderByte
<1> QED
  BY <1>1, <1>4, <1>5

LEMMA FirstPayload ==
    ASSUME NEW at, NEW s, NEW q, NEW k, Lies(at, s, q, k), k <= Len(q),
           NEW h \in Seq(ByteValues), NEW y \in Seq(ByteValues),
           NEW d \in Seq(ByteValues), NEW w \in Seq(ByteValues),
           Splits(s, h, y), Splits(y, d, w), Len(h) = HeaderSize, Len(d) = q[k].size
    PROVE  d = Payload(q[k]) /\ Len(h \o d) = at[k + 1]
<1>0. s = h \o y /\ y = d \o w
  BY DEF Splits
<1>1. PICK p \in Packets : p = q[k] /\ k \in k .. Len(q) /\ p.size \in Nat
  BY <1>0, LiesTypes DEF Lies
<1>2. HeaderSize \in Nat
  BY ProtocolAssumption
<1>3. /\ Len(y) = Len(d) + Len(w) /\ \A i \in 1 .. Len(d) : y[i] = d[i]
      /\ Len(s) = Len(h) + Len(y) /\ \A i \in 1 .. Len(y) : s[Len(h) + i] = y[i]
  <2>1. Len(d \o w) = Len(d) + Len(w) /\ \A i \in 1 .. Len(d) : (d \o w)[i] = d[i]
    BY Joined
  <2>2. Len(h \o y) = Len(h) + Len(y) /\ \A i \in 1 .. Len(y) : (h \o y)[Len(h) + i] = y[i]
    BY Joined
  <2> QED
    BY <1>0, <2>1, <2>2
<1>4. ASSUME NEW i \in 1 .. p.size PROVE d[i] = PayloadByte(p, i)
  <2>1. Len(w) \in Nat /\ Len(d) = p.size /\ Len(h) = HeaderSize
    BY <1>1, LenProperties
  <2>2. i \in 1 .. Len(y) /\ HeaderSize + i <= Len(s)
    <3>1. PICK a \in Nat, z \in Nat, g \in Nat :
              a = Len(w) /\ z = p.size /\ g = HeaderSize
      BY <1>1, <1>2, <2>1
    <3>2. Len(y) = z + a
      BY <1>3, <2>1, <3>1
    <3>3. Len(s) = g + (z + a)
      BY <1>3, <2>1, <3>1, <3>2
    <3>4. i \in 1 .. z
      BY <3>1
    <3>5. i \in 1 .. z + a /\ g + i <= g + (z + a)
      BY <3>4
    <3> QED
      BY <3>1, <3>2, <3>3, <3>5
  <2>3. at[k] = 0
    BY <1>0 DEF Lies, Laid
  <2>4. at[k] + HeaderSize + i = HeaderSize + i
    BY <1>2, <2>3
  <2>5. s[at[k] + HeaderSize + i] = PayloadByte(p, i)
    BY <1>0, <1>1, <2>2, <2>4 DEF Lies, Laid
  <2>6. s[HeaderSize + i] = y[i] /\ y[i] = d[i]
    BY <1>1, <1>3, <2>1, <2>2
  <2> QED
    BY <2>4, <2>5, <2>6
<1>5. d = Payload(p)
  <2>1. Payload(p) \in Seq(ByteValues) /\ Len(Payload(p)) = p.size
    BY PayloadIs
  <2>2. \A i \in 1 .. p.size : Payload(p)[i] = PayloadByte(p, i)
    BY PayloadIs
  <2>3. PICK e \in Seq(ByteValues) : e = Payload(p)
    BY <2>1
  <2>4. Len(d) = Len(e)
    BY <1>1, <2>1, <2>3
  <2>5. \A i \in 1 .. p.size : d[i] = e[i]
    BY <1>4, <2>2, <2>3
  <2>6. Len(d) = p.size
    BY <1>1
  <2>7. \A i \in 1 .. Len(d) : d[i] = e[i]
    BY <2>5, <2>6
  <2>8. d = e
    BY <2>4, <2>7, SeqEqual
  <2> QED
    BY <2>3, <2>8
<1>6. Len(h \o d) = at[k + 1]
  <2>1. Len(h \o d) = HeaderSize + p.size
    <3>1. Len(h \o d) = Len(h) + Len(d)
      BY Joined
    <3> QED
      BY <1>1, <3>1
  <2>2. at[k + 1] = at[k] + HeaderSize + p.size /\ at[k] = 0
    BY <1>0, <1>1 DEF Lies, Laid
  <2> QED
    BY <1>1, <1>2, <2>1, <2>2
<1> QED
  BY <1>1, <1>5, <1>6

LEMMA WholeWindow ==
    ASSUME NEW at, NEW s, NEW q, NEW k, Lies(at, s, q, k), NEW i \in k .. Len(q),
           at[i + 1] <= Len(s)
    PROVE  /\ at[i] \in 0 .. Len(s)
           /\ at[i] + Len(Bytes(q[i])) <= Len(s)
           /\ SubSeq(s, at[i] + 1, at[i] + Len(Bytes(q[i]))) = Bytes(q[i])
<1>0. /\ i \in k .. Len(q) + 1 /\ i \in 1 .. Len(q)
      /\ Len(s) \in Nat /\ HeaderSize \in Nat
  BY LiesTypes
<1>a. PICK p \in Packets : p = q[i]
  BY <1>0, LiesTypes
<1>b. PICK a \in Nat : a = at[i]
  BY <1>0, LiesTypes
<1>c. PICK z \in Nat : z = p.size
  BY PacketSizes
<1>d. PICK g \in Nat : g = HeaderSize
  BY <1>0
<1>e. PICK n \in Nat : n = Len(s)
  BY <1>0
<1>1. at[i + 1] = a + g + z
  <2>1. at[i + 1] = at[i] + HeaderSize + q[i].size
    BY DEF Lies, Laid
  <2> QED
    BY <2>1, <1>a, <1>b, <1>c, <1>d
<1>2. PICK b \in Seq(ByteValues) :
          /\ b = Bytes(p) /\ Len(b) = g + z
          /\ \A j \in 1 .. g : b[j] = HeaderByte(p, j)
          /\ \A j \in 1 .. z : b[g + j] = PayloadByte(p, j)
  <2>1. PICK h \in Seq(ByteValues) :
            /\ h = Header(p) /\ Len(h) = g
            /\ \A j \in 1 .. g : h[j] = HeaderByte(p, j)
    BY <1>d, HeaderIs
  <2>2. PICK d \in Seq(ByteValues) :
            /\ d = Payload(p) /\ Len(d) = z
            /\ \A j \in 1 .. z : d[j] = PayloadByte(p, j)
    BY <1>c, PayloadIs
  <2>3. PICK b \in Seq(ByteValues) :
            /\ b = h \o d /\ Len(b) = Len(h) + Len(d)
            /\ \A j \in 1 .. Len(h) : b[j] = h[j]
            /\ \A j \in 1 .. Len(d) : b[Len(h) + j] = d[j]
    <3>1. /\ h \o d \in Seq(ByteValues) /\ Len(h \o d) = Len(h) + Len(d)
          /\ \A j \in 1 .. Len(h) : (h \o d)[j] = h[j]
          /\ \A j \in 1 .. Len(d) : (h \o d)[Len(h) + j] = d[j]
      BY Joined
    <3> QED
      BY <3>1
  <2>4. b = Bytes(p)
    BY <2>1, <2>2, <2>3 DEF Bytes
  <2>5. Len(b) = g + z
    BY <2>1, <2>2, <2>3
  <2>6. \A j \in 1 .. g : b[j] = HeaderByte(p, j)
    BY <2>1, <2>3
  <2>7. \A j \in 1 .. z : b[g + j] = PayloadByte(p, j)
    <3>1. Len(h) = g /\ Len(d) = z
      BY <2>1, <2>2
    <3>2. \A j \in 1 .. z : b[g + j] = d[j]
      BY <2>3, <3>1
    <3> QED
      BY <2>2, <3>2
  <2> QED
    BY <2>4, <2>5, <2>6, <2>7
<1>3. a + g + z <= n /\ a \in 0 .. n /\ a + Len(b) <= n
  <2>1. a + g + z <= n
    BY <1>1, <1>e
  <2>2. a \in 0 .. n /\ a + (g + z) <= n
    BY <2>1
  <2>3. Len(b) = g + z
    BY <1>2
  <2> QED
    BY <2>1, <2>2, <2>3
<1>4. \A j \in 1 .. g + z : s[a + j] = b[j]
  <2> SUFFICES ASSUME NEW j \in 1 .. g + z PROVE s[a + j] = b[j]
    OBVIOUS
  <2>1. CASE j \in 1 .. g
    <3>1. s[at[i] + j] = HeaderByte(q[i], j)
      BY <1>d, <2>1 DEF Lies, Laid
    <3> QED
      BY <1>a, <1>b, <1>2, <2>1, <3>1
  <2>2. CASE j \notin 1 .. g
    <3>1. PICK m \in 1 .. z : j = g + m
      <4>1. j - g \in 1 .. z /\ j = g + (j - g)
        BY <2>2
      <4> QED
        BY <4>1
    <3>2. a + g + m <= n
      BY <1>3
    <3>3. m \in 1 .. q[i].size /\ at[i] + HeaderSize + m <= Len(s)
      BY <1>a, <1>b, <1>c, <1>d, <1>e, <3>2
    <3>4. s[at[i] + HeaderSize + m] = PayloadByte(q[i], m)
      BY <3>3 DEF Lies, Laid
    <3>5. at[i] + HeaderSize + m = a + j
      BY <1>b, <1>d, <3>1
    <3>6. s[a + j] = PayloadByte(p, m)
      BY <1>a, <3>4, <3>5
    <3>7. b[j] = PayloadByte(p, m)
      BY <1>2, <3>1
    <3> QED
      BY <3>6, <3>7
  <2> QED
    BY <2>1, <2>2
<1>5. SubSeq(s, a + 1, a + (g + z)) = b
  <2>1. \A j \in a + 1 .. a + (g + z) : s[j] \in ByteValues
    <3>1. s \in Seq(ByteValues)
      BY DEF Lies
    <3>2. \A j \in 1 .. Len(s) : s[j] \in ByteValues
      BY <3>1, ElementOfSeq
    <3>3. ASSUME NEW j \in a + 1 .. a + (g + z) PROVE j \in 1 .. Len(s)
      <4>1. j \in 1 .. n
        BY <1>3
      <4> QED
        BY <1>e, <4>1
    <3> QED
      BY <3>2, <3>3
  <2>2. PICK y \in Seq(ByteValues) :
            /\ y = SubSeq(s, a + 1, a + (g + z)) /\ Len(y) = g + z
            /\ \A j \in 1 .. g + z : y[j] = s[a + j]
    <3>1. a + 1 \in Int /\ a + (g + z) \in Int
      OBVIOUS
    <3>2. /\ SubSeq(s, a + 1, a + (g + z)) \in Seq(ByteValues)
          /\ Len(SubSeq(s, a + 1, a + (g + z))) =
                 IF a + 1 <= a + (g + z) THEN a + (g + z) - (a + 1) + 1 ELSE 0
          /\ \A j \in 1 .. a + (g + z) - (a + 1) + 1 :
                 SubSeq(s, a + 1, a + (g + z))[j] = s[a + 1 + j - 1]
      BY <2>1, <3>1, SubSeqProperties
    <3>3. a + (g + z) - (a + 1) + 1 = g + z
      OBVIOUS
    <3>4. Len(SubSeq(s, a + 1, a + (g + z))) = g + z
      BY <3>2, <3>3
    <3>5. ASSUME NEW j \in 1 .. g + z PROVE SubSeq(s, a + 1, a + (g + z))[j] = s[a + j]
      <4>1. a + 1 + j - 1 = a + j
        OBVIOUS
      <4> QED
        BY <3>2, <3>3, <4>1
    <3> QED
      BY <3>2, <3>4, <3>5
  <2>3. Len(y) = Len(b)
    BY <1>2, <2>2
  <2>4. \A j \in 1 .. Len(y) : y[j] = b[j]
    BY <1>4, <2>2
  <2>5. y = b
    BY <2>3, <2>4, SeqEqual
  <2> QED
    BY <2>2, <2>5
<1>6. Len(b) = g + z /\ b = Bytes(p)
  BY <1>2
<1> QED
  BY <1>a, <1>b, <1>e, <1>3, <1>5, <1>6

(***************************************************************************)
(* What the steps do to the packets that are under way.                    *)
(***************************************************************************)
LEMMA StreamSame ==
    ASSUME StreamSound, UNCHANGED <<queue, received>>, Claimed' \subseteq Claimed,
           Unread' = Unread, link = "closed" => link' = "closed",
           \A t \in Senders : pc'[t] = "payload" /\ link' # "closed" =>
                                  pc[t] = "payload" /\ pkt'[t] = pkt[t],
           \A t \in Senders : pc[t] = "payload" => pc'[t] = "payload" \/ link' = "closed"
    PROVE  StreamSound'
<1>1. PICK at : LaidOut(at)
  BY DEF StreamSound
<1>2. First' = First /\ (LastIsWhole(at) => LastIsWhole(at)')
  BY DEF First, LastIsWhole
<1>3. LastIsHalf(at) => LastIsHalf(at)'
  BY <1>2 DEF LastIsHalf
<1>4. Lies(at, Unread, queue, First)'
  BY <1>1, <1>2 DEF LaidOut
<1>5. LaidOut(at)'
  BY <1>1, <1>2, <1>3, <1>4 DEF LaidOut
<1> QED
  BY <1>5 DEF StreamSound

\* A write into another stream is nothing to this one.
LEMMA StreamStrays ==
    ASSUME StreamSound, ReceiverSound, NEW t \in Senders, Strays(t),
           pc \in [Senders -> {"idle", "wait", "header", "payload"}],
           NEW x, pc' = [pc EXCEPT ![t] = x],
           reported' \subseteq reported \cup {pkt[t]},
           UNCHANGED <<queue, pkt, hdr, payload, received>>
    PROVE  StreamSound'
<1>1. /\ Unread' = Unread /\ link = "closed" /\ link' = "closed"
  BY DEF Strays, Unread
<1>2. Claimed' \subseteq Claimed
  BY DEF Strays, Claimed
<1> QED
  BY <1>1, <1>2, StreamSame

\* What a sender writes comes after all that is unread.
LEMMA UnreadGrows ==
    ASSUME ReceiverSound, StreamTyped, NEW b \in Seq(ByteValues),
           wire' = wire \o b, UNCHANGED <<hdr, payload>>
    PROVE  Unread \in Seq(ByteValues) /\ Unread' = Unread \o b
<1>1. PICK h \in Seq(ByteValues), d \in Seq(ByteValues), w \in Seq(ByteValues) :
          h = hdr /\ d = payload /\ w = wire
  BY DEF ReceiverSound, StreamTyped
<1>2. PICK x \in Seq(ByteValues) : x = h \o d
  BY Joined
<1>3. x \o w \in Seq(ByteValues)
  BY Joined
<1>4. Joint(x, Joint(w, b)) = Joint(Joint(x, w), b)
  BY JointAssociative
<1>5. (x \o w) \o b = x \o (w \o b)
  BY <1>4 DEF Joint
<1> QED
  BY <1>1, <1>2, <1>3, <1>5 DEF Unread

LEMMA StreamHeader ==
    ASSUME SenderSound, StreamTyped, ReceiverSound, StreamSound, ReturnedSound, link # "reset",
           NEW t \in Senders, WriteHeader(t), ~ spoilt', Streams(Header(pkt[t]))
    PROVE  StreamSound'
<1>1. /\ pkt[t] \in Packets
      /\ link # "closed"
      /\ wire' = wire \o Header(pkt[t]) /\ queue' = Append(queue, pkt[t])
      /\ pkt[t].size > 0 =>
             pc' = [pc EXCEPT ![t] = "payload"] /\ Claimed' = Claimed
      /\ ~ (pkt[t].size > 0) =>
             pc' = [pc EXCEPT ![t] = "idle"] /\ Claimed' \subseteq Claimed \cup {pkt[t]}
  BY HeaderWritten DEF Puts, Streams, Strays, Open, Claimed
<1>2. /\ pc[t] = "header" /\ UNCHANGED <<pkt, hdr, payload, received>>
      /\ \A s \in Senders : pc[s] # "payload"
  BY DEF WriteHeader, receiver, SenderSound, SephSound
<1>3. PICK at : LaidOut(at)
  BY DEF StreamSound
<1>4. Lies(at, Unread, queue, First) /\ LastIsWhole(at)
  BY <1>1, <1>2, <1>3 DEF LaidOut, LastIsHalf
<1>5. PICK p \in Packets, s \in Seq(ByteValues), q \in Seq(Packets), k \in Nat :
          p = pkt[t] /\ s = Unread /\ q = queue /\ k = First
  BY <1>1, <1>4 DEF Lies
<1>6. Lies(at, s, q, k) /\ Len(s) = at[Len(q) + 1]
  BY <1>4, <1>5 DEF LastIsWhole
<1>7. PICK to : /\ Lies(to, s \o Header(p), Append(q, p), k)
                /\ to[Len(q) + 1] = Len(s)
                /\ to[Len(q) + 2] = Len(s) + HeaderSize + p.size
  BY <1>6, AddHeader
<1>8. Unread' = s \o Header(p) /\ Len(Unread') = Len(s) + HeaderSize
  <2>1. Header(p) \in Seq(ByteValues) /\ Len(Header(p)) = HeaderSize
    BY HeaderIs
  <2>2. Unread' = s \o Header(p)
    BY <1>1, <1>2, <1>5, <2>1, UnreadGrows
  <2>3. Len(s \o Header(p)) = Len(s) + Len(Header(p))
    <3>1. s \in Seq(ByteValues)
      BY <1>6 DEF Lies
    <3> QED
      BY <2>1, <3>1, Joined
  <2> QED
    BY <2>1, <2>2, <2>3
<1>9. PICK n \in Nat : /\ n = Len(q) /\ Len(queue') = n + 1 /\ queue'[n + 1] = p
                       /\ \A i \in 1 .. n : queue'[i] = q[i]
                       /\ First' = k /\ k \in 1 .. n + 1
                       /\ Len(s) \in Nat /\ HeaderSize \in Nat /\ p.size \in Nat
  <2>1. q \in Seq(Packets)
    BY <1>6 DEF Lies
  <2>2. /\ Len(Append(q, p)) = Len(q) + 1 /\ Append(q, p)[Len(q) + 1] = p
        /\ \A i \in 1 .. Len(q) : Append(q, p)[i] = q[i]
    BY <2>1, AppendProperties
  <2>3. First' = k
    BY <1>2, <1>5 DEF First
  <2>4. k \in 1 .. Len(q) + 1 /\ Len(q) \in Nat /\ Len(s) \in Nat /\ HeaderSize \in Nat
    BY <1>6, LiesTypes DEF Lies
  <2>5. p.size \in Nat
    BY PacketSizes
  <2> QED
    BY <1>1, <1>5, <2>2, <2>3, <2>4, <2>5
<1>10. Lies(to, Unread, queue, First)'
  BY <1>1, <1>5, <1>7, <1>8, <1>9
<1>11. \A x \in Claimed : \E i \in 1 .. n : queue'[i] = x
  BY <1>3, <1>5, <1>9 DEF LaidOut
<1>12. to[Len(queue') + 1] = Len(s) + HeaderSize + p.size /\ to[Len(queue')] = Len(s)
       /\ Len(queue') \in Nat /\ First' <= Len(queue')
  <2>1. n + 1 + 1 = n + 2
    BY <1>9
  <2> QED
    BY <1>7, <1>9, <2>1
<1>13. CASE p.size > 0
  <2>1. pc' = [pc EXCEPT ![t] = "payload"] /\ Claimed' = Claimed /\ pc'[t] = "payload"
    BY <1>1, <1>5, <1>13 DEF SenderSound
  <2>2. LastIsHalf(to)'
    BY <1>8, <1>9, <1>12, <1>13, <2>1 DEF LastIsHalf
  <2>3. \A s2 \in Senders : pc'[s2] = "payload" => queue'[Len(queue')] = pkt'[s2]
    BY <1>2, <1>5, <1>9, <2>1 DEF SenderSound
  <2>4. \A x \in Claimed' : \E i \in 1 .. Len(queue') :
            queue'[i] = x /\ (i = Len(queue') => LastIsWhole(to)')
    <3> SUFFICES ASSUME NEW x \in Claimed
                 PROVE  \E i \in 1 .. Len(queue') : queue'[i] = x /\ i # Len(queue')
      BY <2>1
    <3>1. PICK i \in 1 .. n : queue'[i] = x
      BY <1>11
    <3> QED
      BY <1>9, <3>1
  <2>5. LaidOut(to)'
    BY <1>10, <2>2, <2>3, <2>4 DEF LaidOut
  <2> QED
    BY <2>5 DEF StreamSound
<1>14. CASE ~ (p.size > 0)
  <2>1. pc' = [pc EXCEPT ![t] = "idle"] /\ Claimed' \subseteq Claimed \cup {p}
    BY <1>1, <1>5, <1>14
  <2>2. LastIsWhole(to)'
    BY <1>8, <1>9, <1>12, <1>14 DEF LastIsWhole
  <2>3. \A s2 \in Senders : pc'[s2] # "payload"
    BY <1>2, <2>1 DEF SenderSound
  <2>4. \A x \in Claimed' : \E i \in 1 .. Len(queue') : queue'[i] = x
    <3> SUFFICES ASSUME NEW x \in Claimed' PROVE \E i \in 1 .. Len(queue') : queue'[i] = x
      OBVIOUS
    <3>1. CASE x = p
      BY <1>9, <3>1
    <3>2. CASE x # p
      <4>1. PICK i \in 1 .. n : queue'[i] = x
        BY <1>11, <2>1, <3>2
      <4> QED
        BY <1>9, <4>1
    <3> QED
      BY <3>1, <3>2
  <2>5. LaidOut(to)'
    BY <1>10, <2>2, <2>3, <2>4 DEF LaidOut
  <2> QED
    BY <2>5 DEF StreamSound
<1> QED
  BY <1>13, <1>14

LEMMA StreamPayload ==
    ASSUME SenderSound, StreamTyped, ReceiverSound, StreamSound, ReturnedSound, link # "reset",
           NEW t \in Senders, WritePayload(t), ~ spoilt', Streams(Payload(pkt[t]))
    PROVE  StreamSound'
<1>1. /\ pkt[t] \in Packets
      /\ pc[t] = "payload" /\ link # "closed"
      /\ wire' = wire \o Payload(pkt[t]) /\ queue' = queue
      /\ pc' = [pc EXCEPT ![t] = "idle"] /\ Claimed' \subseteq Claimed \cup {pkt[t]}
  BY PayloadWritten DEF Puts, Streams, Strays, Open, Claimed
<1>2. /\ UNCHANGED <<pkt, hdr, payload, received>>
      /\ \A s \in Senders : pc'[s] # "payload"
  BY <1>1 DEF WritePayload, receiver, SenderSound, SephSound
<1>3. PICK at : LaidOut(at)
  BY DEF StreamSound
<1>4. Lies(at, Unread, queue, First) /\ LastIsHalf(at) /\ queue[Len(queue)] = pkt[t]
  BY <1>1, <1>3 DEF LaidOut
<1>5. PICK p \in Packets, s \in Seq(ByteValues), q \in Seq(Packets), k \in Nat :
          p = pkt[t] /\ s = Unread /\ q = queue /\ k = First
  BY <1>1, <1>4 DEF Lies
<1>6. /\ Lies(at, s, q, k) /\ k <= Len(q) /\ Len(s) = at[Len(q)] + HeaderSize
      /\ q[Len(q)] = p
  BY <1>4, <1>5 DEF LastIsHalf
<1>7. /\ Lies(at, s \o Payload(p), q, k)
      /\ Len(s \o Payload(p)) = at[Len(q) + 1]
  BY <1>6, AddPayload
<1>8. Unread' = s \o Payload(p) /\ First' = k
  <2>1. Payload(p) \in Seq(ByteValues)
    BY PayloadIs
  <2>2. Unread' = s \o Payload(p)
    BY <1>1, <1>2, <1>5, <2>1, UnreadGrows
  <2> QED
    BY <1>2, <1>5, <2>2 DEF First
<1>9. Lies(at, Unread, queue, First)' /\ LastIsWhole(at)'
  BY <1>1, <1>5, <1>7, <1>8 DEF LastIsWhole
<1>10. \A x \in Claimed' : \E i \in 1 .. Len(queue') : queue'[i] = x
  <2> SUFFICES ASSUME NEW x \in Claimed' PROVE \E i \in 1 .. Len(queue') : queue'[i] = x
    OBVIOUS
  <2>1. CASE x = p
    <3>1. Len(q) \in 1 .. Len(q)
      BY <1>6, LiesTypes DEF Lies
    <3> QED
      BY <1>1, <1>5, <1>6, <2>1, <3>1
  <2>2. CASE x # p
    BY <1>1, <1>3, <1>5, <2>2 DEF LaidOut
  <2> QED
    BY <2>1, <2>2
<1>11. LaidOut(at)'
  BY <1>2, <1>9, <1>10 DEF LaidOut
<1> QED
  BY <1>11 DEF StreamSound

\* A header that is there is that of the next packet.
LEMMA HeaderIsNext ==
    ASSUME StreamSound, NEW h \in Seq(ByteValues), NEW y \in Seq(ByteValues),
           Unread = h \o y, Len(h) = HeaderSize
    PROVE  /\ First <= Len(queue) /\ h = Header(queue[First])
           /\ SizeIn(h) = {queue[First].size}
<1>1. PICK at, s, q, k :
          LaidOut(at) /\ s = Unread /\ q = queue /\ k = First /\ Lies(at, s, q, k)
  BY DEF StreamSound, LaidOut
<1>2. k <= Len(q)
  <2>1. Len(s) >= HeaderSize /\ HeaderSize \in Nat /\ HeaderSize > 0 /\ Len(s) \in Nat
    <3>1. Len(h \o y) = Len(h) + Len(y) /\ Len(y) \in Nat
      BY Joined
    <3> QED
      BY <1>1, <3>1, ProtocolAssumption
  <2>2. k \in 1 .. Len(q) + 1 /\ Len(q) \in Nat /\ at[k] = 0
    BY <1>1, LiesTypes DEF Lies, Laid
  <2>3. CASE LastIsHalf(at)
    BY <1>1, <2>3 DEF LastIsHalf
  <2>4. CASE LastIsWhole(at)
    <3>1. Len(s) = at[Len(q) + 1]
      BY <1>1, <2>4 DEF LastIsWhole
    <3>2. k # Len(q) + 1
      BY <2>1, <2>2, <3>1
    <3> QED
      BY <2>2, <3>2
  <2> QED
    BY <1>1, <2>3, <2>4 DEF LaidOut
<1>3. h = Header(q[k]) /\ SizeIn(h) = {q[k].size}
  <2>1. Splits(s, h, y)
    BY <1>1 DEF Splits
  <2> QED
    BY <1>1, <1>2, <2>1, FirstHeader
<1> QED
  BY <1>1, <1>2, <1>3

LEMMA StreamReturns ==
    ASSUME SenderSound, StreamTyped, ReceiverSound, StreamSound, ReturnedSound, HeaderSound,
           NEW h \in Seq(ByteValues), NEW d \in Seq(ByteValues), NEW w \in Seq(ByteValues),
           Returns(h, d, w), UNCHANGED <<sender, link>>
    PROVE  /\ StreamSound' /\ ReturnedSound' /\ HeaderSound'
           /\ First <= Len(queue)
           /\ received' = Append(received, Whole(queue[First]))
<1>1. PICK at, s, q, k :
          LaidOut(at) /\ s = Unread /\ q = queue /\ k = First /\ Lies(at, s, q, k)
  BY DEF StreamSound, LaidOut
<1>2. PICK y \in Seq(ByteValues), x \in Seq(ByteValues) :
          y = d \o w /\ x = h \o d /\ s = h \o y /\ s = x \o w /\ Unread = h \o y
  <2>1. PICK y \in Seq(ByteValues), x \in Seq(ByteValues) : y = d \o w /\ x = h \o d
    BY Joined
  <2>2. (h \o d) \o w = h \o (d \o w)
    <3>1. Joint(h, Joint(d, w)) = Joint(Joint(h, d), w)
      BY JointAssociative
    <3> QED
      BY <3>1 DEF Joint
  <2> QED
    BY <1>1, <2>1, <2>2 DEF Returns
<1>3. Len(h) = HeaderSize
  BY DEF Returns
<1>4. k <= Len(q) /\ h = Header(q[k]) /\ SizeIn(h) = {q[k].size}
  BY <1>1, <1>2, <1>3, HeaderIsNext
<1>5. Len(d) = q[k].size
  <2>1. CASE stage = "payload" /\ Len(d) = datasize
    BY <1>1, <2>1 DEF HeaderSound
  <2>2. CASE d = <<>> /\ 0 \in SizeIn(h)
    BY <1>4, <2>2, EmptySeq
  <2> QED
    BY <2>1, <2>2 DEF Returns
<1>6. d = Payload(q[k]) /\ Len(x) = at[k + 1]
  <2>1. Splits(s, h, y) /\ Splits(y, d, w)
    BY <1>2 DEF Splits
  <2>2. d = Payload(q[k]) /\ Len(h \o d) = at[k + 1]
    <3>1. Lies(at, s, q, k)
      BY <1>1
    <3>2. k <= Len(q)
      BY <1>4
    <3>3. y \in Seq(ByteValues)
      BY <1>2
    <3>4. Splits(s, h, y)
      BY <2>1
    <3>5. Splits(y, d, w)
      BY <2>1
    <3> QED
      BY <1>3, <1>5, <3>1, <3>2, <3>3, <3>4, <3>5, FirstPayload
  <2> QED
    BY <1>2, <2>2
<1>7. PICK to : /\ Lies(to, w, q, k + 1)
                /\ \A i \in k + 1 .. Len(q) + 1 : to[i] = at[i] - at[k + 1]
                /\ Len(w) = Len(s) - at[k + 1]
  <2>1. Splits(s, x, w)
    BY <1>2 DEF Splits
  <2> QED
    BY <1>1, <1>4, <1>6, <2>1, DropFirst
<1>8. received' = Append(received, Whole(q[k]))
  BY <1>4, <1>6 DEF Returns, Whole
<1>9. /\ Len(received) \in Nat /\ Len(received') = Len(received) + 1
      /\ \A i \in 1 .. Len(received) : received'[i] = received[i]
      /\ received'[Len(received) + 1] = Whole(q[k])
      /\ DOMAIN received = 1 .. Len(received)
      /\ DOMAIN received' = 1 .. Len(received) + 1
  <2> DEFINE T == [header : Seq(ByteValues), payload : Seq(ByteValues)]
  <2>1. PICK z \in Seq(T), e \in T : z = received /\ e = Whole(q[k])
    <3>1. Whole(q[k]) \in [header : Seq(ByteValues), payload : Seq(ByteValues)]
      BY <1>4, <1>6 DEF Whole
    <3> QED
      BY <3>1 DEF ReceiverSound
  <2> HIDE DEF T
  <2>2. /\ Append(z, e) \in Seq(T) /\ Len(Append(z, e)) = Len(z) + 1
        /\ \A i \in 1 .. Len(z) : Append(z, e)[i] = z[i]
        /\ Append(z, e)[Len(z) + 1] = e
    BY AppendProperties
  <2>3. Len(z) \in Nat /\ DOMAIN z = 1 .. Len(z)
        /\ DOMAIN Append(z, e) = 1 .. Len(Append(z, e))
    BY <2>2, LenProperties
  <2> QED
    BY <1>8, <2>1, <2>2, <2>3
<1>10. First' = k + 1 /\ Unread' = w /\ queue' = q
  BY <1>1, <1>9 DEF First, Returns, sender
<1>11. Lies(to, Unread, queue, First)'
  BY <1>7, <1>10
<1>12. PICK n \in Nat, l \in Nat, c \in Nat, e \in Nat, g \in Nat, z \in Nat :
           /\ n = Len(q) /\ l = Len(s) /\ c = at[k + 1] /\ e = at[n + 1] /\ g = HeaderSize
           /\ z = at[n] /\ k \in 1 .. n /\ Len(w) = l - c /\ l - c \in Nat
           /\ at[k + 1] = at[k] + HeaderSize + q[k].size /\ at[k] = 0 /\ q[k].size \in Nat
  <2>1. k \in 1 .. Len(q) + 1 /\ k \in Nat /\ Len(q) \in Nat /\ Len(s) \in Nat /\ HeaderSize \in Nat
    BY <1>1, LiesTypes DEF Lies
  <2>2. k \in 1 .. Len(q) /\ k + 1 \in k .. Len(q) + 1 /\ Len(q) \in k .. Len(q) + 1
        /\ Len(q) + 1 \in k .. Len(q) + 1 /\ k \in k .. Len(q)
    BY <1>4, <2>1
  <2>3. at[k + 1] \in Nat /\ at[Len(q) + 1] \in Nat /\ at[Len(q)] \in Nat /\ q[k].size \in Nat
    BY <1>1, <2>2, LiesTypes
  <2>4. at[k + 1] = at[k] + HeaderSize + q[k].size /\ at[k] = 0
    BY <1>1, <2>2 DEF Lies, Laid
  <2>5. Len(w) \in Nat /\ Len(w) = Len(s) - at[k + 1]
    BY <1>7, LenProperties
  <2>6. PICK n \in Nat, l \in Nat, c \in Nat, e \in Nat, g \in Nat, z \in Nat :
            n = Len(q) /\ l = Len(s) /\ c = at[k + 1] /\ e = at[Len(q) + 1]
            /\ g = HeaderSize /\ z = at[Len(q)]
    BY <2>1, <2>3
  <2>7. e = at[n + 1] /\ z = at[n] /\ k \in 1 .. n
    BY <2>2, <2>6
  <2>8. Len(w) = l - c /\ l - c \in Nat
    BY <2>5, <2>6
  <2> QED
    BY <2>3, <2>4, <2>6, <2>7, <2>8
<1>13. LastIsWhole(at) => LastIsWhole(to)'
  <2> SUFFICES ASSUME LastIsWhole(at) PROVE LastIsWhole(to)'
    OBVIOUS
  <2>1. l = e
    BY <1>1, <1>12 DEF LastIsWhole
  <2>2. n + 1 \in k + 1 .. n + 1
    BY <1>12
  <2>3. to[n + 1] = e - c
    BY <1>7, <1>12, <2>2
  <2> QED
    BY <1>10, <1>12, <2>1, <2>3 DEF LastIsWhole
<1>14. LastIsHalf(at) => LastIsHalf(to)'
  <2> SUFFICES ASSUME LastIsHalf(at) PROVE LastIsHalf(to)'
    OBVIOUS
  <2>0. /\ k \in 1 .. n /\ Len(w) = l - c
        /\ at[k + 1] = at[k] + HeaderSize + q[k].size /\ at[k] = 0 /\ q[k].size \in Nat
    BY <1>12
  <2>1. /\ l = z + g
        /\ q[n].size > 0
        /\ link = "closed" \/ \E t \in Senders : pc[t] = "payload"
    BY <1>1, <1>12 DEF LastIsHalf
  <2>2. k # n
    <3> SUFFICES ASSUME k = n PROVE FALSE
      OBVIOUS
    <3>1. PICK m \in Nat : m = q[k].size
      BY <2>0
    <3>2. z = 0
      BY <1>12, <2>0
    <3>3. c = g + m
      BY <1>12, <2>0, <3>1
    <3>4. m > 0
      BY <2>1, <3>1
    <3>5. Len(w) = l - c /\ Len(w) \in Nat
      BY <1>12, <2>0
    <3>6. Len(w) = g - (g + m)
      BY <2>1, <3>2, <3>3, <3>5
    <3> QED
      BY <3>4, <3>5, <3>6
  <2>3. k + 1 <= n /\ n \in k + 1 .. n + 1
    <3>1. k \in 1 .. n
      BY <2>0
    <3>2. PICK m \in 1 .. n : m = k /\ m # n
      BY <2>2, <3>1
    <3>3. m + 1 <= n /\ n \in m + 1 .. n + 1
      BY <3>2
    <3> QED
      BY <3>2, <3>3
  <2>4. to[n] = z - c
    <3>1. at[n] = z /\ at[k + 1] = c /\ Len(q) = n
      BY <1>12
    <3>2. \A j \in k + 1 .. n + 1 : to[j] = at[j] - c
      BY <1>7, <3>1
    <3> QED
      BY <2>3, <3>1, <3>2
  <2>5. Len(w) = to[n] + g
    BY <2>0, <2>1, <2>4
  <2>6. First' <= Len(queue') /\ queue'[Len(queue')].size > 0
    <3>1. Len(q) = n
      BY <1>12
    <3> QED
      BY <1>10, <2>1, <2>3, <3>1
  <2>7. Len(Unread') = to[Len(queue')] + HeaderSize
    <3>1. Len(q) = n /\ g = HeaderSize
      BY <1>12
    <3> QED
      BY <1>10, <2>5, <3>1
  <2>8. link' = link /\ pc' = pc
    BY DEF sender
  <2> QED
    BY <2>1, <2>6, <2>7, <2>8 DEF LastIsHalf
<1>15. LaidOut(to)'
  <2>1. \A t \in Senders : pc'[t] = "payload" /\ link' # "closed" =>
            LastIsHalf(to)' /\ queue'[Len(queue')] = pkt'[t]
    BY <1>1, <1>14 DEF LaidOut, sender
  <2>2. \A p \in Claimed' : \E i \in 1 .. Len(queue') :
            queue'[i] = p /\ (i = Len(queue') => LastIsWhole(to)')
    BY <1>1, <1>13 DEF LaidOut, sender, Claimed
  <2>3. LastIsWhole(to)' \/ LastIsHalf(to)'
    BY <1>1, <1>13, <1>14 DEF LaidOut
  <2> QED
    BY <1>11, <2>1, <2>2, <2>3 DEF LaidOut
<1>16. ReturnedSound'
  <2>1. Len(received') <= Len(queue') /\ k = Len(received) + 1
    BY <1>1, <1>9, <1>10, <1>12 DEF First
  <2>2. ASSUME NEW i \in DOMAIN received' PROVE received'[i] = Whole(queue'[i])
    <3>1. CASE i = Len(received) + 1
      BY <1>9, <1>10, <2>1, <3>1
    <3>2. CASE i # Len(received) + 1
      <4>1. i \in DOMAIN received /\ i \in 1 .. Len(received)
        BY <1>9, <3>2
      <4> QED
        BY <1>1, <1>9, <1>10, <4>1 DEF ReturnedSound
    <3> QED
      BY <3>1, <3>2
  <2> QED
    BY <2>1, <2>2 DEF ReturnedSound
<1>17. HeaderSound'
  BY DEF HeaderSound, Returns
<1> QED
  BY <1>1, <1>4, <1>8, <1>15, <1>16, <1>17 DEF StreamSound

(***************************************************************************)
(* Every step keeps the invariant; and what it does to the packets that    *)
(* were written and to those that were returned, unless the stream is spoilt. *)
(***************************************************************************)
Same == UNCHANGED <<queue, received>>

Queues == received' = received /\ \E p \in Packets : queue' = Append(queue, p)

Gets == /\ First <= Len(queue) /\ queue' = queue
        /\ received' = Append(received, Whole(queue[First]))

Moves == (spoilt => spoilt') /\ (~ spoilt' => Same \/ Queues \/ Gets)

LEMMA QueueGrows ==
    ASSUME SenderSound, ReceiverSound, Same \/ Queues
    PROVE  /\ Len(received) \in Nat /\ Len(queue) \in Nat /\ Len(queue') \in Nat
           /\ received' = received /\ Len(queue) <= Len(queue')
           /\ \A i \in 1 .. Len(queue) : queue'[i] = queue[i]
<1>1. Len(received) \in Nat /\ queue \in Seq(Packets) /\ Len(queue) \in Nat
  BY LenProperties DEF SenderSound, ReceiverSound
<1>2. CASE Same
  BY <1>1, <1>2 DEF Same
<1>3. CASE Queues
  <2>1. PICK p \in Packets : queue' = Append(queue, p)
    BY <1>3 DEF Queues
  <2>2. PICK q \in Seq(Packets) : q = queue
    BY <1>1
  <2>3. /\ Len(Append(q, p)) = Len(q) + 1
        /\ \A i \in 1 .. Len(q) : Append(q, p)[i] = q[i]
    BY AppendProperties
  <2> QED
    BY <1>1, <1>3, <2>1, <2>2, <2>3 DEF Queues
<1> QED
  BY <1>2, <1>3

\* What was returned stays the beginning of queue.
LEMMA ReturnedStays ==
    ASSUME SenderSound, ReceiverSound, ReturnedSound, Same \/ Queues
    PROVE  ReturnedSound'
<1>1. /\ Len(received) \in Nat /\ Len(queue) \in Nat /\ Len(queue') \in Nat
      /\ received' = received /\ Len(queue) <= Len(queue')
      /\ \A i \in 1 .. Len(queue) : queue'[i] = queue[i]
  BY QueueGrows
<1>2. DOMAIN received = 1 .. Len(received)
  BY LenProperties DEF ReceiverSound
<1>3. \A i \in DOMAIN received : i \in 1 .. Len(queue)
  BY <1>1, <1>2 DEF ReturnedSound
<1> QED
  BY <1>1, <1>2, <1>3 DEF ReturnedSound

\* So does the header that was read.
LEMMA HeaderStays ==
    ASSUME SenderSound, ReceiverSound, HeaderSound, Same \/ Queues,
           stage' = "payload" => stage = "payload" /\ datasize' = datasize
    PROVE  HeaderSound'
<1>1. /\ Len(received) \in Nat /\ Len(queue) \in Nat /\ Len(queue') \in Nat
      /\ received' = received /\ Len(queue) <= Len(queue')
      /\ \A i \in 1 .. Len(queue) : queue'[i] = queue[i]
  BY QueueGrows
<1>2. PICK n \in Nat, m \in Nat, k \in Nat :
          n = Len(queue) /\ m = Len(queue') /\ k = First /\ k >= 1 /\ First' = k /\ n <= m
  BY <1>1 DEF First
<1> SUFFICES ASSUME stage = "payload", datasize' = datasize
             PROVE  First' <= Len(queue') /\ datasize' = queue'[First'].size
  BY DEF HeaderSound
<1>3. k <= n /\ datasize = queue[k].size
  BY <1>2 DEF HeaderSound
<1>4. k \in 1 .. n /\ k <= m
  BY <1>2, <1>3
<1> QED
  BY <1>1, <1>2, <1>3, <1>4

LEMMA CallKeeps ==
    ASSUME ProtocolInv, NEW t \in Senders, Call(t) \/ Acquire(t)
    PROVE  ProtocolInv' /\ Moves
<1>1. SenderSound /\ StreamTyped /\ ReceiverSound
  BY DEF ProtocolInv
<1>2. UNCHANGED <<wire, way, link, receiver, queue, reported, stray, mishaps, spoilt>>
  BY DEF Call, Acquire
<1>3. SenderSound'
  BY <1>1, CallStep, AcquireStep
<1>4. StreamTyped' /\ ReceiverSound'
  BY <1>1, <1>2 DEF StreamTyped, ReceiverSound, StageSound, receiver
<1>5. Same /\ Moves
  BY <1>2 DEF Same, Moves, receiver
<1>6. \A s \in Senders : /\ pc'[s] = "payload" => pc[s] = "payload" /\ pkt'[s] = pkt[s]
                         /\ pc[s] = "payload" => pc'[s] = "payload"
  BY <1>1 DEF Call, Acquire, SenderSound
<1>7. StreamSound => StreamSound'
  BY <1>2, <1>6, StreamSame DEF Unread, receiver, Claimed
<1>8. ReturnedSound => ReturnedSound'
  BY <1>1, <1>5, ReturnedStays
<1>9. HeaderSound => HeaderSound'
  BY <1>1, <1>2, <1>5, HeaderStays DEF receiver
<1> QED
  BY <1>1, <1>2, <1>3, <1>4, <1>5, <1>7, <1>8, <1>9 DEF ProtocolInv

LEMMA HeaderKeeps ==
    ASSUME ProtocolInv, NEW t \in Senders, WriteHeader(t)
    PROVE  ProtocolInv' /\ Moves
<1>1. SenderSound /\ StreamTyped /\ ReceiverSound
  BY DEF ProtocolInv
<1>2. /\ SenderSound' /\ StreamTyped' /\ pkt[t] \in Packets
      /\ ~ spoilt' => ~ spoilt /\ link # "reset"
                   /\ Puts(t, Header(pkt[t]), Append(queue, pkt[t]))
  BY <1>1, HeaderWritten DEF Puts, Streams, Strays, Open
<1>3. ReceiverSound' /\ UNCHANGED <<stage, hdr, payload, datasize, received>>
  BY <1>1 DEF WriteHeader, receiver, ReceiverSound, StageSound
<1>4. ~ spoilt' => Same \/ Queues
  BY <1>2, <1>3 DEF Same, Queues, Puts
<1>5. Moves
  BY <1>2, <1>4 DEF Moves
<1>6. ~ spoilt' => ReturnedSound'
  BY <1>1, <1>2, <1>4, ReturnedStays DEF ProtocolInv
<1>7. ~ spoilt' => StreamSound'
  <2> SUFFICES ASSUME ~ spoilt' PROVE StreamSound'
    OBVIOUS
  <2>1. StreamSound /\ ReturnedSound
    BY <1>2 DEF ProtocolInv
  <2>2. CASE Streams(Header(pkt[t]))
    BY <1>1, <1>2, <2>1, <2>2, StreamHeader
  <2>3. CASE Strays(t) /\ queue' = queue
    <3>1. PICK x : pc' = [pc EXCEPT ![t] = x] /\ reported' \subseteq reported \cup {pkt[t]}
      BY <1>1, HeaderWritten
    <3>2. pkt' = pkt /\ pc \in [Senders -> {"idle", "wait", "header", "payload"}]
      BY <1>1 DEF WriteHeader, SenderSound
    <3> QED
      BY <1>1, <1>3, <2>1, <2>3, <3>1, <3>2, StreamStrays
  <2> QED
    BY <1>2, <2>2, <2>3 DEF Puts
<1>8. ~ spoilt' => HeaderSound'
  BY <1>1, <1>2, <1>3, <1>4, HeaderStays DEF ProtocolInv
<1> QED
  BY <1>2, <1>3, <1>5, <1>6, <1>7, <1>8 DEF ProtocolInv

LEMMA PayloadKeeps ==
    ASSUME ProtocolInv, NEW t \in Senders, WritePayload(t)
    PROVE  ProtocolInv' /\ Moves
<1>1. SenderSound /\ StreamTyped /\ ReceiverSound
  BY DEF ProtocolInv
<1>2. /\ SenderSound' /\ StreamTyped'
      /\ ~ spoilt' => /\ ~ spoilt /\ link # "reset" /\ queue' = queue
                      /\ Puts(t, Payload(pkt[t]), queue)
  BY <1>1, PayloadWritten DEF Puts, Streams, Strays, Open
<1>3. ReceiverSound' /\ UNCHANGED <<stage, hdr, payload, datasize, received>>
  BY <1>1 DEF WritePayload, receiver, ReceiverSound, StageSound
<1>4. ~ spoilt' => Same
  BY <1>2, <1>3 DEF Same
<1>5. Moves
  BY <1>2, <1>4 DEF Moves
<1>6. ~ spoilt' => ReturnedSound'
  BY <1>1, <1>2, <1>4, ReturnedStays DEF ProtocolInv
<1>7. ~ spoilt' => StreamSound'
  <2> SUFFICES ASSUME ~ spoilt' PROVE StreamSound'
    OBVIOUS
  <2>1. StreamSound /\ ReturnedSound
    BY <1>2 DEF ProtocolInv
  <2>2. CASE Streams(Payload(pkt[t]))
    BY <1>1, <1>2, <2>1, <2>2, StreamPayload
  <2>3. CASE Strays(t)
    <3>1. PICK x : pc' = [pc EXCEPT ![t] = x] /\ reported' \subseteq reported \cup {pkt[t]}
      BY <1>1, PayloadWritten
    <3>2. pkt' = pkt /\ pc \in [Senders -> {"idle", "wait", "header", "payload"}]
      BY <1>1 DEF WritePayload, SenderSound
    <3> QED
      BY <1>1, <1>2, <1>3, <2>1, <2>3, <3>1, <3>2, StreamStrays
  <2> QED
    BY <1>2, <2>2, <2>3 DEF Puts
<1>8. ~ spoilt' => HeaderSound'
  BY <1>1, <1>2, <1>3, <1>4, HeaderStays DEF ProtocolInv
<1> QED
  BY <1>2, <1>3, <1>5, <1>6, <1>7, <1>8 DEF ProtocolInv

LEMMA FailureKeeps ==
    ASSUME ProtocolInv, NEW t \in Senders, WriteFails(t)
    PROVE  ProtocolInv' /\ Moves
<1>1. SenderSound /\ StreamTyped /\ ReceiverSound
  BY DEF ProtocolInv
<1>2. /\ SenderSound' /\ StreamTyped'
      /\ pc' = [pc EXCEPT ![t] = "idle"]
      /\ UNCHANGED <<queue, reported, stray, wire>>
      /\ link' # "reset" => link # "reset"
      /\ link = "closed" => link' = "closed"
      /\ ~ spoilt' => ~ spoilt /\ (link \in {"closed", "reset"} \/ pc[t] # "payload")
  BY <1>1, WriteFailed
<1>3. /\ ReceiverSound' /\ UNCHANGED <<stage, hdr, payload, datasize, received, pkt>>
  BY <1>1 DEF WriteFails, receiver, ReceiverSound, StageSound
<1>4. Same /\ Moves
  BY <1>2, <1>3 DEF Same, Moves
<1>5. ~ spoilt' => ReturnedSound'
  BY <1>1, <1>2, <1>4, ReturnedStays DEF ProtocolInv
<1>6. ~ spoilt' /\ link' # "reset" => StreamSound'
  <2> SUFFICES ASSUME ~ spoilt', link' # "reset" PROVE StreamSound'
    OBVIOUS
  <2>1. StreamSound /\ (link = "closed" \/ pc[t] # "payload")
    BY <1>1, <1>2 DEF ProtocolInv
  <2>2. \A s \in Senders : /\ pc'[s] = "payload" => pc[s] = "payload" /\ pkt'[s] = pkt[s]
                           /\ pc[s] = "payload" => pc'[s] = "payload" \/ link' = "closed"
    BY <1>1, <1>2, <1>3, <2>1 DEF SenderSound
  <2> QED
    BY <1>2, <1>3, <2>1, <2>2, StreamSame DEF Unread, Claimed
<1>7. ~ spoilt' /\ link' # "reset" => HeaderSound'
  BY <1>1, <1>2, <1>3, <1>4, HeaderStays DEF ProtocolInv
<1> QED
  BY <1>2, <1>3, <1>4, <1>5, <1>6, <1>7 DEF ProtocolInv

LEMMA ConnectionKeeps ==
    ASSUME ProtocolInv, Shutdown \/ Close \/ Intrude \/ Reset,
           UNCHANGED <<sender, receiver, way>>
    PROVE  ProtocolInv' /\ Moves
<1>1. SenderSound /\ StreamTyped /\ ReceiverSound
  BY DEF ProtocolInv
<1>2. /\ SenderSound' /\ StreamTyped' /\ ReceiverSound'
      /\ spoilt => spoilt'
      /\ ~ spoilt' /\ link' # "reset" =>
             wire' = wire /\ link # "reset" /\ (link = "closed" => link' = "closed")
  BY <1>1, ConnectionStep
<1>3. UNCHANGED <<pc, pkt, queue, reported, stray, stage, hdr, payload, datasize, received>>
  BY DEF sender, receiver
<1>5. Same /\ Moves
  BY <1>2, <1>3 DEF Same, Moves
<1>6. ReturnedSound => ReturnedSound'
  BY <1>1, <1>5, ReturnedStays
<1>7. ~ spoilt' /\ link' # "reset" /\ StreamSound => StreamSound'
  BY <1>2, <1>3, StreamSame DEF Unread, Claimed
<1>8. HeaderSound => HeaderSound'
  BY <1>1, <1>3, <1>5, HeaderStays
<1>9. spoilt \in BOOLEAN /\ spoilt' \in BOOLEAN
  BY <1>1, <1>2 DEF StreamTyped
<1> QED
  BY <1>2, <1>5, <1>6, <1>7, <1>8, <1>9 DEF ProtocolInv

LEMMA ReadKeeps ==
    ASSUME ProtocolInv, ReadHeader \/ ReadPayload
    PROVE  ProtocolInv' /\ Moves
<1>1. SenderSound /\ StreamTyped /\ ReceiverSound
  BY DEF ProtocolInv
<1>2. SenderSound' /\ StreamTyped' /\ ReceiverSound'
  BY <1>1, ReceiverStep DEF RecvStep
<1>3. UNCHANGED <<sender, link, spoilt>> /\ link # "reset"
  BY DEF ReadHeader, ReadPayload
<1>4. UNCHANGED <<pc, pkt, queue, reported, stray>>
  BY <1>3 DEF sender
<1> SUFFICES ASSUME ~ spoilt
             PROVE  StreamSound' /\ ReturnedSound' /\ HeaderSound' /\ (Same \/ Gets)
  BY <1>2, <1>3 DEF ProtocolInv, Moves
<1>5. ReturnedSound /\ StreamSound /\ HeaderSound
  BY <1>3 DEF ProtocolInv
<1>6. ReadsOn \/ \E h, d, w \in Seq(ByteValues) : Returns(h, d, w)
  BY <1>1, HeaderRead, PayloadRead
<1>7. CASE ReadsOn
  <2>1. Same
    BY <1>4, <1>7 DEF Same, ReadsOn
  <2>2. StreamSound'
    BY <1>3, <1>4, <1>5, <1>7, StreamSame DEF ReadsOn, Claimed
  <2>3. ReturnedSound'
    BY <1>1, <1>5, <2>1, ReturnedStays
  <2>4. HeaderSound'
    <3>1. CASE stage' = "payload" => stage = "payload" /\ datasize' = datasize
      BY <1>1, <1>5, <2>1, <3>1, HeaderStays
    <3>2. CASE ~ (stage' = "payload" => stage = "payload" /\ datasize' = datasize)
      <4>1. PICK h \in Seq(ByteValues), w \in Seq(ByteValues) :
                Len(h) = HeaderSize /\ Unread = h \o w /\ datasize' \in SizeIn(h)
        BY <1>7, <3>2 DEF ReadsOn
      <4>2. First <= Len(queue) /\ SizeIn(h) = {queue[First].size}
        BY <1>5, <4>1, HeaderIsNext
      <4>3. First' = First /\ queue' = queue
        BY <2>1 DEF Same, First
      <4> QED
        BY <4>1, <4>2, <4>3 DEF HeaderSound
    <3> QED
      BY <3>1, <3>2
  <2> QED
    BY <2>1, <2>2, <2>3, <2>4
<1>8. ASSUME NEW h \in Seq(ByteValues), NEW d \in Seq(ByteValues), NEW w \in Seq(ByteValues),
             Returns(h, d, w)
      PROVE  StreamSound' /\ ReturnedSound' /\ HeaderSound' /\ Gets
  <2>1. /\ StreamSound' /\ ReturnedSound' /\ HeaderSound' /\ First <= Len(queue)
        /\ received' = Append(received, Whole(queue[First]))
    BY <1>1, <1>3, <1>5, <1>8, StreamReturns
  <2> QED
    BY <1>4, <2>1 DEF Gets
<1> QED
  BY <1>6, <1>7, <1>8

LEMMA EndKeeps ==
    ASSUME ProtocolInv, ReadEof \/ ReadFails \/ ReadInterrupted
    PROVE  ProtocolInv' /\ Moves
<1>1. SenderSound /\ StreamTyped /\ ReceiverSound
  BY DEF ProtocolInv
<1>2. SenderSound' /\ StreamTyped' /\ ReceiverSound'
  BY <1>1, ReceiverStep DEF RecvStep
<1>3. UNCHANGED <<sender, wire, link, spoilt>> /\ RecvFails
  BY DEF ReadEof, ReadFails, ReadInterrupted
<1>4. /\ UNCHANGED <<pc, pkt, queue, reported, stray, hdr, payload, received, wire, link,
                      spoilt>>
      /\ stage' = "failed"
  BY <1>3 DEF sender, RecvFails
<1>5. Same /\ Moves
  BY <1>4 DEF Same, Moves
<1>6. ReturnedSound => ReturnedSound'
  BY <1>1, <1>5, ReturnedStays
<1>7. StreamSound => StreamSound'
  BY <1>4, StreamSame DEF Unread, Claimed
<1>8. HeaderSound'
  BY <1>4 DEF HeaderSound
<1> QED
  BY <1>2, <1>4, <1>5, <1>6, <1>7, <1>8 DEF ProtocolInv

LEMMA StepKeeps ==
    ASSUME ProtocolInv, [Next]_vars
    PROVE  ProtocolInv' /\ Moves
<1>1. CASE \E t \in Senders : Call(t) \/ SendStep(t)
  BY <1>1, CallKeeps, HeaderKeeps, PayloadKeeps, FailureKeeps DEF SendStep
<1>2. CASE RecvStep \/ ReadInterrupted
  BY <1>2, ReadKeeps, EndKeeps DEF RecvStep
<1>3. CASE (Shutdown \/ Close \/ Intrude \/ Reset) /\ UNCHANGED <<sender, receiver, way>>
  BY <1>3, ConnectionKeeps
<1>4. CASE UNCHANGED vars
  <2>1. /\ UNCHANGED <<seph, pc, pkt, bytesSent, wire, way, link, stage, hdr, payload,
                       datasize, received, queue, reported, stray, calls, mishaps, spoilt>>
    BY <1>4 DEF vars
  <2>2. SenderSound /\ StreamTyped /\ ReceiverSound
    BY DEF ProtocolInv
  <2>3. SenderSound' /\ StreamTyped' /\ ReceiverSound'
    BY <2>1, <2>2 DEF SenderSound, StreamTyped, ReceiverSound, SephSound, PktSound, StageSound
  <2>4. Same /\ Moves
    BY <2>1 DEF Same, Moves
  <2>5. ReturnedSound => ReturnedSound'
    BY <2>2, <2>4, ReturnedStays
  <2>6. StreamSound => StreamSound'
    BY <2>1, StreamSame DEF Unread, Claimed
  <2>7. HeaderSound => HeaderSound'
    BY <2>1, <2>2, <2>4, HeaderStays
  <2> QED
    BY <2>1, <2>3, <2>4, <2>5, <2>6, <2>7 DEF ProtocolInv
<1> QED
  BY <1>1, <1>2, <1>3, <1>4 DEF Next

LEMMA InitSound == Init => ProtocolInv
<1> SUFFICES ASSUME Init PROVE ProtocolInv
  OBVIOUS
<1>1. SenderSound
  <2>1. /\ seph \in Senders \cup {NoSender}
        /\ pc \in [Senders -> {"idle", "wait", "header", "payload"}]
        /\ bytesSent \in [Senders -> Nat]
        /\ queue \in Seq(Packets) /\ reported \subseteq Packets
        /\ calls \in 0 .. MaxPackets
    BY ProtocolAssumption, EmptySeq DEF Init
  <2>2. pkt \in [Senders -> Packets \cup {NonePkt(t) : t \in Senders}]
    BY DEF Init
  <2>3. \A t \in Senders : pc[t] = "idle" /\ pkt[t] = NonePkt(t) /\ bytesSent[t] = 0
    BY DEF Init
  <2>4. SephSound
    BY <2>3, ProtocolAssumption DEF Init, SephSound
  <2>5. PktSound
    <3>1. \A t \in Senders : pkt[t].from = t /\ pkt[t].num = 0
      <4>1. \A t \in Senders : NonePkt(t).from = t /\ NonePkt(t).num = 0
        BY DEF NonePkt
      <4> QED
        BY <2>3, <4>1
    <3>2. 0 \in 0 .. calls
      BY <2>1
    <3> QED
      BY <2>3, <3>1, <3>2 DEF PktSound
  <2> QED
    BY <2>1, <2>2, <2>4, <2>5 DEF SenderSound
<1>2. StreamTyped /\ ReceiverSound
  <2>1. StreamTyped
    <3>1. /\ wire \in Seq(ByteValues) /\ link = "up" /\ stray = {}
          /\ way \in {"toClient", "toServer"}
      BY EmptySeq DEF Init
    <3>2. mishaps \in 0 .. MaxMishaps
      BY ProtocolAssumption DEF Init
    <3>3. spoilt \in BOOLEAN
      BY DEF Init
    <3> QED
      BY <3>1, <3>2, <3>3 DEF StreamTyped
  <2>2. hdr \in Seq(ByteValues) /\ Len(hdr) = 0 /\ payload \in Seq(ByteValues) /\ Len(payload) = 0
    BY EmptySeq DEF Init
  <2>3. received \in Seq([header : Seq(ByteValues), payload : Seq(ByteValues)])
    BY EmptySeq DEF Init
  <2>4. stage = "header" /\ payload = <<>> /\ datasize = 0
    BY DEF Init
  <2> QED
    BY <2>1, <2>2, <2>3, <2>4, ProtocolAssumption DEF ReceiverSound, StageSound
<1>3. /\ Len(received) = 0 /\ Len(queue) = 0 /\ queue = <<>> /\ received = <<>>
      /\ First = 1 /\ DOMAIN received = {}
  BY EmptySeq DEF Init, First
<1>4. ReturnedSound /\ HeaderSound
  BY <1>3 DEF ReturnedSound, HeaderSound, Init
<1>5. Unread \in Seq(ByteValues) /\ Len(Unread) = 0
  <2>1. PICK e \in Seq(ByteValues) : e = <<>> /\ Len(e) = 0
    BY EmptySeq
  <2>2. PICK f \in Seq(ByteValues) : f = e \o e /\ Len(f) = 0
    <3>1. e \o e \in Seq(ByteValues) /\ Len(e \o e) = Len(e) + Len(e)
      BY Joined
    <3>2. Len(e) + Len(e) = 0
      BY <2>1
    <3>3. Len(e \o e) = 0
      BY <3>1, <3>2
    <3> QED
      BY <3>1, <3>3
  <2>3. f \o e \in Seq(ByteValues) /\ Len(f \o e) = Len(f) + Len(e)
    BY Joined
  <2> QED
    BY <2>1, <2>2, <2>3 DEF Unread, Init
<1>6. StreamSound
  <2>1. PICK at \in [1 .. 1 -> Nat] : at[1] = 0
    <3>1. [i \in 1 .. 1 |-> 0] \in [1 .. 1 -> Nat] /\ [i \in 1 .. 1 |-> 0][1] = 0
      OBVIOUS
    <3> QED
      BY <3>1
  <2>2. Laid(at, Unread, queue, 1)
    BY <1>3, <2>1 DEF Laid
  <2>3. Lies(at, Unread, queue, First)
    BY <1>3, <1>5, <2>1, <2>2, EmptySeq DEF Lies
  <2>4. LastIsWhole(at)
    BY <1>3, <1>5, <2>1 DEF LastIsWhole
  <2>5. LaidOut(at)
    BY <2>3, <2>4 DEF LaidOut, Claimed, Init
  <2> QED
    BY <2>5 DEF StreamSound
<1> QED
  BY <1>1, <1>2, <1>4, <1>6 DEF ProtocolInv

\* The senders, the bytes and the receiver stay in step with each other,
\* whatever each of them does next.
THEOREM ProtocolInvariant == Spec => []ProtocolInv
<1>1. ProtocolInv /\ [Next]_vars => ProtocolInv'
  BY StepKeeps
<1> QED
  BY <1>1, InitSound, PTL DEF Spec

\* The variables have their types, and neither buffer of proto_recv_packet is
\* overrun.
THEOREM ProtocolTypeCorrect == Spec => []TypeOK
BY ProtocolInvariant, InvTyped, PTL

(***************************************************************************)
(* What a sender believes: a packet that was reported is in queue; it was  *)
(* returned, or it lies in what is unread.                                 *)
(***************************************************************************)
LEMMA ReportedSound == ProtocolInv => ReportedIsWhole
<1> SUFFICES ASSUME ProtocolInv, ~ spoilt, link # "reset", NEW p \in Claimed
             PROVE  \/ \E i \in DOMAIN received : received[i] = Whole(p)
                    \/ \E i \in 0 .. Len(Unread) :
                           /\ i + Len(Bytes(p)) <= Len(Unread)
                           /\ SubSeq(Unread, i + 1, i + Len(Bytes(p))) = Bytes(p)
  BY DEF ReportedIsWhole, Claimed
<1>1. PICK at : LaidOut(at) /\ ReturnedSound
  BY DEF ProtocolInv, StreamSound
<1>2. PICK i \in 1 .. Len(queue) : queue[i] = p /\ (i = Len(queue) => LastIsWhole(at))
  BY <1>1 DEF LaidOut
<1>3. PICK s, q, k : s = Unread /\ q = queue /\ k = First /\ Lies(at, s, q, k)
  BY <1>1 DEF LaidOut
<1>4. /\ Len(received) \in Nat /\ DOMAIN received = 1 .. Len(received)
      /\ k = Len(received) + 1
  BY <1>3, LenProperties DEF ProtocolInv, ReceiverSound, First
<1>5. CASE i < k
  <2>1. i \in DOMAIN received
    BY <1>4, <1>5
  <2> QED
    BY <1>1, <1>2, <2>1 DEF ReturnedSound
<1>6. CASE ~ (i < k)
  <2>1. i \in k .. Len(q) /\ Len(q) \in Nat
    BY <1>3, <1>4, <1>6, LiesTypes
  <2>2. at[i + 1] <= Len(s)
    <3>1. CASE i = Len(q)
      BY <1>2, <1>3, <2>1, <3>1, EarlierAreWhole, LiesTypes DEF LastIsWhole
    <3>2. CASE i # Len(q)
      <4>1. i < Len(q)
        BY <2>1, <3>2
      <4> QED
        BY <1>3, <2>1, <4>1, EarlierAreWhole
    <3> QED
      BY <3>1, <3>2
  <2>3. /\ at[i] \in 0 .. Len(s)
        /\ at[i] + Len(Bytes(q[i])) <= Len(s)
        /\ SubSeq(s, at[i] + 1, at[i] + Len(Bytes(q[i]))) = Bytes(q[i])
    <3>1. Lies(at, s, q, k)
      BY <1>3
    <3> QED
      BY <2>1, <2>2, <3>1, WholeWindow
  <2> QED
    BY <1>2, <1>3, <2>3
<1> QED
  BY <1>5, <1>6

\* proto_send_packet returns 0 only when the whole packet was received or is on
\* its way in one piece, unless it went to another connection by a descriptor
\* that was closed, the stream is spoilt, or the connection is lost: no
\* interleaving of this client's senders, no split of the stream by reads and no
\* end of the connection makes it otherwise.
THEOREM ReportedPacketsAreWhole == Spec => []ReportedIsWhole
BY ProtocolInvariant, ReportedSound, PTL

(***************************************************************************)
(* The channel.                                                            *)
(***************************************************************************)
Wholes(q) == [i \in DOMAIN q |-> Whole(q[i])]

LEMMA WholesAre ==
    ASSUME NEW q \in Seq(Packets)
    PROVE  /\ Wholes(q) \in Seq(AbstractPackets) /\ Len(Wholes(q)) = Len(q)
           /\ \A i \in 1 .. Len(q) : Wholes(q)[i] = Whole(q[i])
<1>1. Len(q) \in Nat /\ DOMAIN q = 1 .. Len(q)
  BY LenProperties
<1>2. \A i \in 1 .. Len(q) : Whole(q[i]) \in AbstractPackets
  BY ElementOfSeq DEF AbstractPackets
<1>3. Wholes(q) \in [1 .. Len(q) -> AbstractPackets]
  BY <1>1, <1>2 DEF Wholes
<1>4. Wholes(q) \in Seq(AbstractPackets) /\ Len(Wholes(q)) = Len(q)
  BY <1>1, <1>3, FunctionIsSeq
<1> QED
  BY <1>1, <1>4 DEF Wholes

LEMMA WholesGrow ==
    ASSUME NEW q \in Seq(Packets), NEW p \in Packets
    PROVE  Wholes(Append(q, p)) = Append(Wholes(q), Whole(p))
<1>0. PICK r \in Seq(Packets) : Grown(r, q, p)
  BY Appended
<1>1. /\ r = Append(q, p) /\ Len(r) = Len(q) + 1 /\ r[Len(q) + 1] = p
      /\ \A i \in 1 .. Len(q) : r[i] = q[i]
  BY <1>0 DEF Grown
<1>2. PICK a \in Seq(AbstractPackets), b \in Seq(AbstractPackets), e \in AbstractPackets :
          /\ a = Wholes(r) /\ Len(a) = Len(r)
          /\ \A i \in 1 .. Len(r) : a[i] = Whole(r[i])
          /\ b = Wholes(q) /\ Len(b) = Len(q)
          /\ \A i \in 1 .. Len(q) : b[i] = Whole(q[i])
          /\ e = Whole(p)
  BY WholesAre DEF AbstractPackets
<1>3. PICK c \in Seq(AbstractPackets) :
          /\ c = Append(b, e) /\ Len(c) = Len(b) + 1 /\ c[Len(b) + 1] = e
          /\ \A i \in 1 .. Len(b) : c[i] = b[i]
  <2>1. /\ Append(b, e) \in Seq(AbstractPackets) /\ Len(Append(b, e)) = Len(b) + 1
        /\ Append(b, e)[Len(b) + 1] = e
        /\ \A i \in 1 .. Len(b) : Append(b, e)[i] = b[i]
    BY AppendProperties
  <2> QED
    BY <2>1
<1>4. PICK n \in Nat : n = Len(q)
  BY LenProperties
<1>5. \A i \in 1 .. n + 1 : a[i] = c[i]
  <2> SUFFICES ASSUME NEW i \in 1 .. n + 1 PROVE a[i] = c[i]
    OBVIOUS
  <2>1. CASE i = n + 1
    BY <1>1, <1>2, <1>3, <1>4, <2>1
  <2>2. CASE i # n + 1
    <3>1. i \in 1 .. n
      BY <2>2
    <3> QED
      BY <1>1, <1>2, <1>3, <1>4, <3>1
  <2> QED
    BY <2>1, <2>2
<1>6. Len(a) = n + 1 /\ Len(c) = n + 1
  BY <1>1, <1>2, <1>3, <1>4
<1>7. a = c
  BY <1>5, <1>6, SeqEqual
<1> QED
  BY <1>1, <1>2, <1>3, <1>7

LEMMA ChannelInit == Init => Channel!Init
<1> SUFFICES ASSUME Init PROVE Channel!Init
  OBVIOUS
<1>1. queue = <<>> /\ received = <<>> /\ spoilt = FALSE
  BY DEF Init
<1>2. Wholes(<<>>) = <<>>
  <2>1. PICK q \in Seq(Packets) : q = <<>> /\ Len(q) = 0
    BY EmptySeq
  <2>2. Wholes(q) \in Seq(AbstractPackets) /\ Len(Wholes(q)) = 0
    BY <2>1, WholesAre
  <2>3. Wholes(q) = <<>>
    BY <2>2, EmptySeq
  <2> QED
    BY <2>1, <2>3
<1> QED
  BY <1>1, <1>2 DEF Channel!Init, Wholes

LEMMA ChannelStep ==
    ASSUME ProtocolInv, [Next]_vars
    PROVE  [Channel!Next]_<<IF spoilt THEN <<>> ELSE [i \in DOMAIN queue |-> Whole(queue[i])],
                            IF spoilt THEN <<>> ELSE received, spoilt>>
<1>1. Moves /\ SenderSound /\ ReceiverSound /\ spoilt \in BOOLEAN /\ spoilt' \in BOOLEAN
  BY StepKeeps DEF ProtocolInv, StreamTyped
<1>2. CASE spoilt'
  <2>1. Channel!Break
    BY <1>2 DEF Channel!Break
  <2> QED
    BY <2>1 DEF Channel!Next
<1>3. CASE ~ spoilt'
  <2>1. ~ spoilt /\ spoilt' = spoilt
    BY <1>1, <1>3, Zenon DEF Moves
  <2> DEFINE Q == IF spoilt THEN <<>> ELSE [i \in DOMAIN queue |-> Whole(queue[i])]
             G == IF spoilt THEN <<>> ELSE received
  <2>2. Q = Wholes(queue) /\ G = received
    BY <2>1 DEF Wholes
  <2>3. Q' = Wholes(queue)' /\ G' = received'
    BY <1>3 DEF Wholes
  <2>4. CASE Same
    <3>1. Wholes(queue)' = Wholes(queue) /\ received' = received
      BY <2>4 DEF Same, Wholes
    <3>2. Q' = Q /\ G' = G /\ spoilt' = spoilt
      BY <2>1, <2>2, <2>3, <3>1
    <3> QED
      BY <3>2
  <2>5. CASE Queues
    <3>1. PICK p \in Packets : queue' = Append(queue, p) /\ received' = received
      BY <2>5 DEF Queues
    <3>2. Wholes(Append(queue, p)) = Append(Wholes(queue), Whole(p))
      BY <1>1, WholesGrow DEF SenderSound
    <3>3. Wholes(queue)' = Append(Wholes(queue), Whole(p)) /\ Whole(p) \in AbstractPackets
      BY <3>1, <3>2 DEF Wholes, AbstractPackets
    <3>4. Channel!Send
      <4>1. Q' = Append(Q, Whole(p)) /\ G' = G
        BY <2>2, <2>3, <3>1, <3>3
      <4>2. spoilt' = spoilt
        BY <2>1
      <4> HIDE DEF Q, G
      <4>3. ~ spoilt /\ (\E x \in AbstractPackets : Q' = Append(Q, x)) /\ UNCHANGED <<G, spoilt>>
        BY <2>1, <3>3, <4>1, <4>2
      <4> QED
        BY <4>3 DEF Channel!Send, Q, G
    <3> QED
      BY <3>4 DEF Channel!Next
  <2>6. CASE Gets
    <3>1. /\ First <= Len(queue) /\ queue' = queue
          /\ received' = Append(received, Whole(queue[First]))
      BY <2>6 DEF Gets
    <3>2. PICK q \in Seq(Packets), n \in Nat :
              q = queue /\ n = Len(received) /\ First = n + 1
      BY <1>1, LenProperties DEF SenderSound, ReceiverSound, First
    <3>3. Len(q) \in Nat /\ Len(Wholes(q)) = Len(q)
          /\ \A i \in 1 .. Len(q) : Wholes(q)[i] = Whole(q[i])
      BY WholesAre, LenProperties
    <3>4. n + 1 \in 1 .. Len(q) /\ n < Len(q)
      BY <3>1, <3>2, <3>3
    <3>5. Len(received) < Len(Wholes(queue))
          /\ received' = Append(received, Wholes(queue)[Len(received) + 1])
      BY <3>1, <3>2, <3>3, <3>4
    <3>6. Channel!Receive
      <4>1. Len(G) < Len(Q) /\ G' = Append(G, Q[Len(G) + 1])
        BY <2>2, <2>3, <3>5
      <4>2. Q' = Q
        BY <2>2, <2>3, <3>1 DEF Wholes
      <4>3. ~ spoilt /\ spoilt' = spoilt
        BY <2>1
      <4> HIDE DEF Q, G
      <4>4. ~ spoilt /\ Len(G) < Len(Q) /\ G' = Append(G, Q[Len(G) + 1]) /\ UNCHANGED <<Q, spoilt>>
        BY <4>1, <4>2, <4>3
      <4> QED
        BY <4>4 DEF Channel!Receive, Q, G
    <3> QED
      BY <3>6 DEF Channel!Next
  <2> QED
    BY <1>1, <1>3, <2>4, <2>5, <2>6 DEF Moves
<1> QED
  BY <1>2, <1>3

\* The bytes of client_send_packet and proto_recv_packet are a channel of
\* packets: whatever threads of this client send at once, also by a descriptor
\* that was closed under them, wherever reads split the stream and whenever the
\* connection ends, packets arrive whole, once and in order, or not at all,
\* until an interrupt or a byte of a stranger spoils the stream.
THEOREM ProtocolImplementsChannel == Spec => ImplementsAbstractChannel
BY ChannelInit, ChannelStep, ProtocolInvariant, PTL
   DEF Spec, ImplementsAbstractChannel, Channel!Spec
===============================================================================
