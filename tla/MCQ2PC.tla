------------------------------- MODULE MCQ2PC -------------------------------
(***************************************************************************)
(* Instances of Q2PC for TLC.                                              *)
(***************************************************************************)
EXTENDS Q2PCTurns

(* TCP accepts connections in any order: client 2 came first. *)
SwappedHostId == [i \in 0 .. 1 |-> 2 - i]

(* Datagram transports tie connection i to the client with id i + 1. *)
PortHostId1 == [i \in 0 .. 0 |-> i + 1]
PortHostId2 == [i \in 0 .. 1 |-> i + 1]
PortHostId3 == [i \in 0 .. 2 |-> i + 1]
=============================================================================
