---------------------------- MODULE TcpDelimiter ----------------------------
(***************************************************************************)
(* How q2pc_trans_tcp.c cuts the byte stream of a connection into messages *)
(* of msg_size bytes: beg_read is conn_beg_delimit, end_read is            *)
(* conn_end_delimit.  The byte with number b is byte b % MsgSize of        *)
(* message b \div MsgSize; the delimiter's buffer holds byte numbers, the  *)
(* ones it has no use for any more included.                               *)
(***************************************************************************)
EXTENDS Integers

CONSTANTS
  MsgSize,   \* msg_size: what the delimiter cuts
  ReadSize,  \* read_buffer_size: the most one read returns
  Messages,  \* bound: how many messages the peer writes
  Window     \* the peer writes a message only while fewer than so many are not read

ASSUME StreamAssumption ==
  /\ MsgSize \in Nat \ {0}
  /\ ReadSize \in Nat \ {0}
  /\ Messages \in Nat
  /\ Window \in Nat \ {0}

VARIABLES
  sent,         \* messages the peer wrote
  received,     \* bytes read from the socket
  buffer,       \* delim_buffer
  used,         \* delim_buffer_used
  delim_result, \* its offset in the buffer, or NULL
  delim_len,    \* delim_result_len
  caller,       \* "idle", "reading" before end_read, "using" the message after it
  msg,          \* where the message is that beg_read returned
  taken         \* messages end_read was called for

vars == <<sent, received, buffer, used, delim_result, delim_len, caller, msg, taken>>

NULL == -1

(***************************************************************************)
(* The buffer never grows beyond this: less than a message left over, and  *)
(* one read.  The doubling of beg_delimit is left out.                     *)
(***************************************************************************)
Cells == 0 .. MsgSize + ReadSize - 2

-----------------------------------------------------------------------------
(* Mutant: all that was read is taken for one message. *)
DelimitAll(n) == IF n >= MsgSize THEN n ELSE 0

(* Mutant: a message is announced one byte early. *)
DelimitEarly(n) == IF n >= MsgSize - 1 THEN MsgSize ELSE 0

(* delimit, the server's callback: the size of the message n bytes begin with, or 0. *)
Delimit(n) == IF n >= MsgSize THEN MsgSize ELSE 0

Init ==
  /\ sent = 0 /\ received = 0 /\ taken = 0
  /\ buffer = [c \in Cells |-> NULL]
  /\ used = 0 /\ delim_result = NULL /\ delim_len = 0
  /\ caller = "idle" /\ msg = 0

(***************************************************************************)
(* The peer writes a message; end_write returns when all of it is written. *)
(* How much of it a read finds is for the read to say.                     *)
(***************************************************************************)
PeerWrite ==
  /\ sent < Messages /\ sent - taken < Window
  /\ sent' = sent + 1
  /\ UNCHANGED <<received, buffer, used, delim_result, delim_len, caller, msg, taken>>

(* conn_beg_delimit has a message already: the one end_delimit saw, or one in the buffer. *)
BegDelimitReady ==
  /\ caller = "idle"
  /\ delim_result # NULL \/ Delimit(used) > 0
  /\ IF delim_result # NULL
     THEN UNCHANGED <<delim_result, delim_len>>
     ELSE delim_result' = 0 /\ delim_len' = Delimit(used)
  /\ caller' = "reading" /\ msg' = delim_result'
  /\ UNCHANGED <<sent, received, buffer, used, taken>>

(* The bytes the peer has written. *)
Written == sent * MsgSize

(* The buffer after n more bytes are copied to its end. *)
Filled(n) == [c \in Cells |-> IF c \in used .. used + n - 1 THEN received + (c - used) ELSE buffer[c]]

(* conn_beg_delimit reads n bytes; without a message in them it says Q2PC_EAGAIN. *)
BegDelimitRead ==
  /\ caller = "idle"
  /\ delim_result = NULL /\ Delimit(used) = 0
  /\ \E n \in 1 .. ReadSize :
       /\ n <= Written - received
       /\ received' = received + n
       /\ buffer' = Filled(n)
       /\ used' = used + n
       /\ IF Delimit(used + n) > 0
          THEN delim_result' = 0 /\ delim_len' = Delimit(used + n) /\ caller' = "reading" /\ msg' = 0
          ELSE UNCHANGED <<delim_result, delim_len, caller, msg>>
  /\ UNCHANGED <<sent, taken>>

(* Mutant: the left-over bytes stay where they are. *)
MovedNot(from, n) == buffer

(* memmove(delim_buffer, from, n) *)
Moved(from, n) == [c \in Cells |-> IF c < n THEN buffer[from + c] ELSE buffer[c]]

(* Mutant: what follows the message is dropped. *)
LeftNothing == 0

(* What is left of the buffer without the message; the else of end_delimit subtracts nothing. *)
Left == IF delim_len <= used THEN used - delim_len ELSE used

(* conn_end_delimit: the next message is in what is left, or what is left goes to the front. *)
EndDelimit ==
  /\ caller = "reading"
  /\ used' = Left
  /\ IF Delimit(Left) > 0
     THEN /\ delim_result' = delim_result + delim_len
          /\ delim_len' = Delimit(Left)
          /\ buffer' = buffer
     ELSE /\ buffer' = Moved(delim_result + delim_len, Left)
          /\ delim_result' = NULL
          /\ delim_len' = 0
  /\ taken' = taken + 1
  /\ caller' = "using"
  /\ UNCHANGED <<sent, received, msg>>

(* The caller is done with the message, which both callers use for a while after end_read. *)
Done ==
  /\ caller = "using"
  /\ caller' = "idle"
  /\ UNCHANGED <<sent, received, buffer, used, delim_result, delim_len, msg, taken>>

Reader == BegDelimitReady \/ BegDelimitRead \/ EndDelimit \/ Done

Next == PeerWrite \/ Reader

Spec == Init /\ [][Next]_vars

(* The reader polls the connection again and again. *)
FairSpec == Spec /\ WF_vars(Reader)

-----------------------------------------------------------------------------
StreamTypeOK ==
  /\ sent \in Nat /\ taken \in Nat
  /\ received \in Nat /\ received <= Written
  /\ buffer \in [Cells -> Int]
  /\ used \in 0 .. MsgSize + ReadSize - 1
  /\ delim_result \in Cells \cup {NULL}
  /\ delim_len \in {0, MsgSize}
  /\ caller \in {"idle", "reading", "using"}
  /\ msg \in Cells

(* The bytes at msg are those of message m. *)
Holds(m) == \A k \in 0 .. MsgSize - 1 : msg + k \in Cells /\ buffer[msg + k] = m * MsgSize + k

(***************************************************************************)
(* The comment of conn_end_delimit, line 201: "I can't see a reason why    *)
(* this case would ever trigger".  It cannot, with messages of one size:   *)
(* a result is never longer than what the buffer holds.                    *)
(***************************************************************************)
NoCase2 == delim_result # NULL => delim_len <= used

(***************************************************************************)
(* Whatever the reads return, the bytes beg_read hands out are those of    *)
(* one message, the next one, and stay so until end_read.                  *)
(***************************************************************************)
WholeMessages == caller = "reading" => Holds(taken)

(***************************************************************************)
(* The callers go on using the message after end_read, when the delimiter  *)
(* may have moved other bytes over it.  It has not if nothing was read     *)
(* from the socket beyond the message.                                     *)
(***************************************************************************)
OutlivesRead == caller = "using" /\ received = taken * MsgSize => Holds(taken - 1)

(* Every message written is read in the end: none is left behind in the buffer. *)
AllDelivered == \A m \in 1 .. Messages : sent >= m ~> taken >= m

(***************************************************************************)
(* The delimiter over a byte stream implements a queue of whole messages,  *)
(* the TCP connection of module Transports.                                *)
(***************************************************************************)
Queue == INSTANCE MessageQueue WITH
  held <- IF caller = "reading" THEN {m \in 0 .. sent : Holds(m)} ELSE {}

ImplementsQueue == Queue!Spec
=============================================================================
