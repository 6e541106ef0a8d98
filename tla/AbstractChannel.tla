--------------------------- MODULE AbstractChannel ---------------------------
(***************************************************************************)
(* What src/protocol.c and client_send_packet promise together: packets    *)
(* arrive whole, once, and in the order in which they were sent, whoever   *)
(* sends them.  Nothing is promised once the stream is spoilt.             *)
(***************************************************************************)
EXTENDS Naturals, Sequences

CONSTANT Packets

VARIABLES queue, got, broken

Init == queue = <<>> /\ got = <<>> /\ ~ broken

Send == /\ ~ broken
        /\ \E p \in Packets : queue' = Append(queue, p)
        /\ UNCHANGED <<got, broken>>

Receive == /\ ~ broken
           /\ Len(got) < Len(queue)
           /\ got' = Append(got, queue[Len(got) + 1])
           /\ UNCHANGED <<queue, broken>>

\* From here on the two ends need not agree on anything.
Break == broken' /\ queue' = <<>> /\ got' = <<>>

Next == Send \/ Receive \/ Break

Spec == Init /\ [][Next]_<<queue, got, broken>>
=============================================================================
