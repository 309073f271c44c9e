----------------------------- MODULE Transports -----------------------------
(***************************************************************************)
(* The connections of q2pc_trans_tcp.c, q2pc_trans_udp.c and               *)
(* q2pc_trans_qj.c, as the code that reads and writes them sees them: what *)
(* beg_read and end_write may answer, and what becomes of a message.  The  *)
(* answers are "data" or "done" (Q2PC_ENONE), "again" (Q2PC_EAGAIN), "fin" *)
(* (Q2PC_EFIN) and "dead" (the process does not survive the call).         *)
(*                                                                         *)
(* A TCP connection is a queue of whole messages: see TcpDelimiter.        *)
(***************************************************************************)
EXTENDS Q2PCGlobals

Exited(i) == cpc[i] = "exited"

(***************************************************************************)
(* beg_read on the server's end of connection i.  TCP reports the end of   *)
(* the client after its last response; if the client left with requests    *)
(* unread its kernel resets the connection, an error the code takes for    *)
(* fatal.                                                                  *)
(***************************************************************************)
TcpRead(i) ==
  IF c2s[i] # <<>> THEN {"data"}
  ELSE IF ~Exited(i) THEN {"again"}
  ELSE {"fin"} \cup (IF s2c[i] # <<>> THEN {"dead"} ELSE {})

(***************************************************************************)
(* A UDP socket reports a refused datagram, if at all, ahead of what it    *)
(* has received, and at the next read or write.  A datagram may have been  *)
(* refused if one is left that its client was gone too early to read.      *)
(***************************************************************************)
MayBeRefused(i) == Exited(i) /\ s2c[i] # <<>>

UdpRead(i) ==
  {IF c2s[i] # <<>> THEN "data" ELSE "again"} \cup (IF MayBeRefused(i) THEN {"fin"} ELSE {})

(* The socket Q-Jump reads from is not connected and reports nothing. *)
QjRead(i) == {IF c2s[i] # <<>> THEN "data" ELSE "again"}

ReadSays(i) ==
  CASE Transport = "tcp_ln" -> TcpRead(i)
    [] Transport = "udp_ln" -> UdpRead(i)
    [] Transport = "udp_qj" -> QjRead(i)

(***************************************************************************)
(* end_write on the server's end of connection i.  Once the worker has     *)
(* deleted the connection its descriptor and its buffers are freed memory: *)
(* the write fails, or touching them is fatal.  A write to a TCP connection *)
(* whose client is gone succeeds once, then fails or raises SIGPIPE, which *)
(* nobody handles.                                                         *)
(***************************************************************************)
TcpWrite(i) ==
  IF deleted[i] THEN {"fin", "dead"}
  ELSE {"done"} \cup (IF Exited(i) THEN {"fin", "dead"} ELSE {})

UdpWrite(i) ==
  IF deleted[i] THEN {"fin", "dead"}
  ELSE {"done"} \cup (IF MayBeRefused(i) THEN {"fin"} ELSE {})

(* A failed broadcast is fatal. *)
QjWrite(i) == IF deleted[i] THEN {"dead"} ELSE {"done"}

WriteSays(i) ==
  CASE Transport = "tcp_ln" -> TcpWrite(i)
    [] Transport = "udp_ln" -> UdpWrite(i)
    [] Transport = "udp_qj" -> QjWrite(i)

(***************************************************************************)
(* What the far end's queue may be once m is written to it.  TCP and the   *)
(* Q-Jump network deliver every message once and in order; a UDP datagram  *)
(* may overtake others, be lost or arrive twice.                           *)
(***************************************************************************)
Arrived(queue, m) ==
  IF "reordering" \in Faults
  THEN {InsertAt(queue, k, m) : k \in 1 .. Len(queue) + 1}
  ELSE {Append(queue, m)}

Delivered(queue, m) ==
  Arrived(queue, m)
    \cup (IF "loss" \in Faults THEN {queue} ELSE {})
    \cup (IF "duplication" \in Faults THEN UNION {Arrived(q, m) : q \in Arrived(queue, m)} ELSE {})

(* Whether the server's socket for connection i may be closed: the Q-Jump   *)
(* conn_delete leaves it to the end of the process.                         *)
MayBeClosed(i) == deleted[i] /\ (Transport = "udp_qj" => mpc = "exit")
=============================================================================
