------------------------------ MODULE MCProtocol ------------------------------
(***************************************************************************)
(* Two threads send packets with and without a payload; headers and        *)
(* payloads are of two bytes, so that reads and writes can split them.     *)
(***************************************************************************)
EXTENDS Protocol

CONSTANTS t, u

TwoSenders == {t, u}
Sizes      == {0, 2}
=============================================================================
