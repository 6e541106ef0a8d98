-------------------------- MODULE MCClientRegistry --------------------------
(* The registry with a few connections, slots and names. *)
EXTENDS ClientRegistry, TLC

CONSTANTS c1, c2, c3, main, none, ann, bob, noname

TwoConns   == {c1, c2}
ThreeConns == {c1, c2, c3}
TwoNames   == {ann, bob}

\* The kernel delivers SIGHUP to the main thread while it does not block it...
MainOnly  == {main}
\* ...and to any other while the handler runs in the main thread.
AnyThread == ThreeConns \cup {main}

\* Connections are interchangeable, and so are names.
SameConns == Permutations(ThreeConns) \cup Permutations(TwoNames)
=============================================================================
