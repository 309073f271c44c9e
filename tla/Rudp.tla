-------------------------------- MODULE Rudp --------------------------------
(***************************************************************************)
(* The reliable datagram transport, q2pc_trans_rudp.c, over UDP: one       *)
(* connection between the server and a client, from the client's           *)
(* connection message on, with the three threads that use it: the main     *)
(* thread of the server, which writes requests and waits for their         *)
(* acknowledgement, the worker, which reads responses, and the client.     *)
(*                                                                         *)
(* There are no acknowledgements on the wire.  Either end takes the next   *)
(* new message of the other for the acknowledgement of its own: end_write  *)
(* returns when seq_no has changed since it was sampled, and meanwhile     *)
(* sends the write buffer again whenever the timeout has run out.  The     *)
(* flag is_server is true at the q2pc client: that end starts at 0, takes  *)
(* only the number it is at and counts on; the q2pc server starts at -1,   *)
(* takes any number above its own and makes it its own.                    *)
(*                                                                         *)
(* The server's messages are numbered from 1: a request is odd, a decision *)
(* even, and so are the vote and the acknowledgement that answer them.     *)
(* The other connections appear in what they add to a phase: the scan may  *)
(* find another slot lost, or a no that hides that this one is.            *)
(*                                                                         *)
(* s_ names the connection's private data at the server, shared by the     *)
(* main thread and the worker without a lock; c_ names that at the client. *)
(***************************************************************************)
EXTENDS Integers

CONSTANTS
  StatsLen, \* how many responses the worker has room to record
  Timed,    \* whether the server's wait for votes may time out
  Killable  \* whether an operator may kill the client

ASSUME RudpAssumption ==
  /\ StatsLen \in Nat \ {0}
  /\ Timed \in BOOLEAN
  /\ Killable \in BOOLEAN

VARIABLES
  \* the server's end of the connection
  s_seq,     \* seq_no
  s_current, \* current_seq
  s_ack,     \* ack_outstanding
  s_write,   \* the datagram in the write buffer
  \* the server's threads
  mpc,       \* main: "connect", "reset", "write", "send", "sample", "check", "wait", "scan", "term", "exit"
  asked,     \* how many messages it has written
  wpc,       \* worker: "unborn", "poll", "record", "done"
  w_read,    \* the response it has read
  slot,      \* votes_scoreboard: the response recorded in this phase, 0 for q2pc_lost_msg
  recorded,  \* how many responses it has recorded, stats_idx
  stop,      \* stop_signal
  \* the client's end of the connection
  c_seq, c_current, c_ack, c_write,
  c_read,    \* read_data: a message accepted and not yet handed out, or 0
  \* the client
  cpc,       \* "send", "await", "get", "exited"
  told,      \* how many messages it was handed
  \* the datagrams on their way
  s2c, c2s

mainVars   == <<mpc, asked, s_current, s_ack, s_write>>
workerVars == <<wpc, w_read, slot, recorded>>
clientVars == <<c_seq, c_current, c_ack, c_write, c_read, cpc, told>>
netVars    == <<s2c, c2s>>
vars == <<mainVars, workerVars, clientVars, netVars, s_seq, stop>>

(* Mutant: beg_write stamps the number before. *)
DatagramLate(seq, body) == [seq |-> seq - 1, body |-> body]

(***************************************************************************)
(* A datagram: the sequence number beg_write stamps, and the message.  The *)
(* server's messages are counted from 1; a response has the number of what *)
(* it answers, and the connection message is 0.                            *)
(***************************************************************************)
Datagram(seq, body) == [seq |-> seq, body |-> body]

Connection == Datagram(0, 0)

(* Whether a response is a vote: those to the odd messages of the server are. *)
Vote(body) == body % 2 = 1

(* Mutant: a datagram is never sent again. *)
SentAgainNot(net, m) == net

(* What the network holds after a retransmission. *)
SentAgain(net, m) == net \cup {m}

Alive == cpc # "exited"

-----------------------------------------------------------------------------
(* conn_beg_read at the two ends: is the datagram new? *)

(* Mutant: the server's end takes anything. *)
ServerTakesAll(m) == TRUE

(* Mutant: the server's end takes what it has already seen. *)
ServerTakesAgain(m) == m.seq >= s_seq

ServerTakes(m) == m.seq > s_seq

(* Mutant: the client's end takes any number up to its own. *)
ClientTakesOld(m) == m.seq <= c_seq

ClientTakes(m) == m.seq = c_seq

(* A datagram read may or may not arrive once more. *)
Remains(net, m) == {net, net \ {m}}

-----------------------------------------------------------------------------
(* The main thread of the server. *)

(* do_connectall: the connection message is taken, once; the worker starts. *)
MainConnect ==
  /\ mpc = "connect"
  /\ \E m \in c2s : /\ ServerTakes(m)
                    /\ c2s' \in Remains(c2s, m)
                    /\ s_seq' = m.seq
  /\ mpc' = "reset" /\ wpc' = "poll"
  /\ UNCHANGED <<asked, s_current, s_ack, s_write, w_read, slot, recorded, clientVars, s2c, stop>>

(* Mutant: the scoreboard is cleared before a decision, but not before a request. *)
MainResetPhase2 ==
  /\ mpc = "reset"
  /\ slot' = IF Vote(asked + 1) THEN slot ELSE 0
  /\ mpc' = "write"
  /\ UNCHANGED <<asked, s_current, s_ack, s_write, wpc, w_read, recorded, clientVars, netVars, s_seq, stop>>

(* Init the scoreboard. *)
MainReset ==
  /\ mpc = "reset"
  /\ slot' = 0
  /\ mpc' = "write"
  /\ UNCHANGED <<asked, s_current, s_ack, s_write, wpc, w_read, recorded, clientVars, netVars, s_seq, stop>>

(* beg_write stamps the message of the phase. *)
MainBegWrite ==
  /\ mpc = "write" /\ ~stop
  /\ asked' = asked + 1
  /\ s_write' = Datagram(s_seq, asked + 1)
  /\ mpc' = "send"
  /\ UNCHANGED <<s_current, s_ack, workerVars, clientVars, netVars, s_seq, stop>>

(* end_write hands the datagram to UDP, unless an acknowledgement is outstanding ... *)
MainSend ==
  /\ mpc = "send" /\ ~stop
  /\ IF s_ack THEN mpc' = "check" /\ s2c' = s2c
              ELSE mpc' = "sample" /\ s2c' = s2c \cup {s_write}
  /\ UNCHANGED <<asked, s_current, s_ack, s_write, workerVars, clientVars, c2s, s_seq, stop>>

(* ... and only then samples the number whose change is the acknowledgement. *)
MainSample ==
  /\ mpc = "sample"
  /\ s_current' = s_seq
  /\ s_ack' = TRUE
  /\ mpc' = "check"
  /\ UNCHANGED <<asked, s_write, workerVars, clientVars, netVars, s_seq, stop>>

(* The number has changed, "Got ack": the write is over. *)
MainAcked ==
  /\ mpc = "check" /\ s_current # s_seq
  /\ s_ack' = FALSE
  /\ mpc' = "wait"
  /\ UNCHANGED <<asked, s_current, s_write, workerVars, clientVars, netVars, s_seq, stop>>

(* The timeout has run out: the datagram is sent again, Q2PC_RTOFIRED. *)
MainResends ==
  /\ mpc = "check" /\ ~stop /\ s_current = s_seq
  /\ s2c' = SentAgain(s2c, s_write)
  /\ UNCHANGED <<asked, s_current, s_ack, s_write, workerVars, clientVars, c2s, s_seq, stop>>

MainRetransmit == MainResends /\ mpc' = mpc

(* The number of retransmissions is left open: any may be the one that ends the cluster, MAX_RTOS. *)
MainGivesUp == MainResends /\ mpc' = "term"

(* UDP reports that the client is gone, Q2PC_EFIN. *)
MainWriteFails ==
  /\ mpc \in {"send", "check"} /\ ~Alive
  /\ mpc' = "term"
  /\ UNCHANGED <<asked, s_current, s_ack, s_write, workerVars, clientVars, netVars, s_seq, stop>>

(***************************************************************************)
(* wait_for_votes: the response is counted, as are the others; or the time *)
(* limit has run out, or counts of the phase before have been taken for    *)
(* this phase's, which only happens after a wait that timed out.           *)
(***************************************************************************)
MainWaitEnds ==
  /\ mpc = "wait"
  /\ slot # 0 \/ Timed
  /\ mpc' = "scan"
  /\ UNCHANGED <<asked, s_current, s_ack, s_write, workerVars, clientVars, netVars, s_seq, stop>>

(* The slot holds a response of the phase. *)
Answered == slot # 0 /\ (Vote(slot) <=> Vote(asked))

(***************************************************************************)
(* The scan lets the server go on: to the decision, or to the next round.  *)
(* In phase 1 that may be so though this slot is lost: the break leaves    *)
(* only the switch, and a no in a later slot replaces the cluster failure. *)
(***************************************************************************)
MainGoesOn ==
  /\ mpc = "scan" /\ ~stop
  /\ Answered \/ (slot = 0 /\ Vote(asked))
  /\ mpc' = "reset"
  /\ UNCHANGED <<asked, s_current, s_ack, s_write, workerVars, clientVars, netVars, s_seq, stop>>

(* A slot is lost or holds what it should not: "cluster failed", "Protocol violation". *)
MainFails ==
  /\ mpc = "scan" /\ ~stop
  /\ Timed \/ ~Answered
  /\ mpc' = "term"
  /\ UNCHANGED <<asked, s_current, s_ack, s_write, workerVars, clientVars, netVars, s_seq, stop>>

(* The loops see stop_signal; how the round ends then is a matter of ServerMain. *)
MainStops ==
  /\ mpc \in {"write", "send", "check", "scan"} /\ stop
  /\ mpc' = "term"
  /\ UNCHANGED <<asked, s_current, s_ack, s_write, workerVars, clientVars, netVars, s_seq, stop>>

(* cleanup: raise the flag, join the worker, exit. *)
MainTerm ==
  /\ mpc = "term"
  /\ stop' = TRUE
  /\ mpc' = IF wpc = "done" THEN "exit" ELSE mpc
  /\ UNCHANGED <<asked, s_current, s_ack, s_write, workerVars, clientVars, netVars, s_seq>>

-----------------------------------------------------------------------------
(* The worker. *)

(* beg_read takes a new datagram; that it moves seq_no is the main thread's acknowledgement. *)
WorkerTake ==
  /\ wpc = "poll"
  /\ \E m \in c2s : /\ ServerTakes(m)
                    /\ c2s' \in Remains(c2s, m)
                    /\ s_seq' = m.seq
                    /\ w_read' = m.body
  /\ wpc' = "record"
  /\ UNCHANGED <<slot, recorded, mainVars, clientVars, s2c, stop>>

(* beg_read drops an old datagram. *)
WorkerDrop ==
  /\ wpc = "poll"
  /\ \E m \in c2s : ~ServerTakes(m) /\ c2s' = c2s \ {m}
  /\ UNCHANGED <<workerVars, mainVars, clientVars, s2c, s_seq, stop>>

(* The response is recorded, counted and entered in the statistics, which may be full. *)
WorkerRecord ==
  /\ wpc = "record"
  /\ slot' = w_read
  /\ recorded' = recorded + 1
  /\ IF recorded + 1 >= StatsLen THEN wpc' = "done" /\ stop' = TRUE
                           ELSE wpc' = "poll" /\ stop' = stop
  /\ UNCHANGED <<w_read, mainVars, clientVars, netVars, s_seq>>

(* UDP reports that the client is gone, Q2PC_EFIN. *)
WorkerFin ==
  /\ wpc = "poll" /\ ~Alive
  /\ stop' = TRUE
  /\ wpc' = "done"
  /\ UNCHANGED <<w_read, slot, recorded, mainVars, clientVars, netVars, s_seq>>

(* The server stops. *)
WorkerStops ==
  /\ wpc = "poll" /\ stop
  /\ wpc' = "done"
  /\ UNCHANGED <<w_read, slot, recorded, mainVars, clientVars, netVars, s_seq, stop>>

-----------------------------------------------------------------------------
(* The client. *)

(***************************************************************************)
(* The first part of end_write: the datagram is sent and the number        *)
(* sampled, unless an acknowledgement is outstanding.                      *)
(***************************************************************************)
ClientSend ==
  /\ cpc = "send"
  /\ cpc' = "await"
  /\ IF c_ack
     THEN UNCHANGED <<c_current, c_ack, c2s>>
     ELSE /\ c2s' = c2s \cup {c_write}
          /\ c_current' = c_seq
          /\ c_ack' = TRUE
  /\ UNCHANGED <<c_seq, c_write, c_read, told, mainVars, workerVars, s2c, s_seq, stop>>

(* The second part reads, "to stimulate a seq_no change": a new message is kept for get_messge. *)
ClientTake ==
  /\ cpc = "await" /\ c_read = 0
  /\ \E m \in s2c : /\ ClientTakes(m)
                    /\ s2c' \in Remains(s2c, m)
                    /\ c_read' = m.body
  /\ c_seq' = c_seq + 1
  /\ UNCHANGED <<c_current, c_ack, c_write, cpc, told, mainVars, workerVars, c2s, s_seq, stop>>

(* It drops an old one, in end_write as in get_messge. *)
ClientDrop ==
  /\ cpc \in {"await", "get"} /\ c_read = 0
  /\ \E m \in s2c : ~ClientTakes(m) /\ s2c' = s2c \ {m}
  /\ UNCHANGED <<clientVars, mainVars, workerVars, c2s, s_seq, stop>>

(* The number has changed: the response is taken to be acknowledged. *)
ClientAcked ==
  /\ cpc = "await" /\ c_current # c_seq
  /\ c_ack' = FALSE
  /\ cpc' = "get"
  /\ UNCHANGED <<c_seq, c_current, c_write, c_read, told, mainVars, workerVars, netVars, s_seq, stop>>

(* The timeout has run out: the message is sent again. *)
ClientResends ==
  /\ cpc = "await" /\ c_current = c_seq
  /\ c2s' = SentAgain(c2s, c_write)
  /\ UNCHANGED <<c_seq, c_current, c_ack, c_write, c_read, told, mainVars, workerVars, s2c, s_seq, stop>>

ClientRetransmit == ClientResends /\ cpc' = cpc

(***************************************************************************)
(* After RTOS_MAX times (any may be that one) send_response returns as if  *)
(* the response were acknowledged; init waits for ever.                    *)
(***************************************************************************)
ClientGivesUp == told > 0 /\ ClientResends /\ cpc' = "get"

(* get_messge hands out a message, and send_response stamps the answer to it. *)
Handed(body, seq) ==
  /\ told' = told + 1
  /\ c_read' = 0
  /\ c_write' = Datagram(seq, body)
  /\ cpc' = "send"

(* The message is there, kept by end_write ... *)
ClientGet ==
  /\ cpc = "get" /\ c_read # 0
  /\ Handed(c_read, c_seq)
  /\ UNCHANGED <<c_seq, c_current, c_ack, mainVars, workerVars, netVars, s_seq, stop>>

(* ... or is read now. *)
ClientReadGet ==
  /\ cpc = "get" /\ c_read = 0
  /\ \E m \in s2c : /\ ClientTakes(m)
                    /\ s2c' \in Remains(s2c, m)
                    /\ Handed(m.body, c_seq + 1)
  /\ c_seq' = c_seq + 1
  /\ UNCHANGED <<c_current, c_ack, mainVars, workerVars, c2s, s_seq, stop>>

(* The worker has closed the connection (Q2PC_EFIN), or an operator kills the client. *)
ClientQuits ==
  /\ Alive
  /\ wpc = "done" \/ Killable
  /\ cpc' = "exited"
  /\ UNCHANGED <<c_seq, c_current, c_ack, c_write, c_read, told, mainVars, workerVars, netVars, s_seq, stop>>

-----------------------------------------------------------------------------
(* The network loses a datagram.  It also repeats and reorders them, see Remains. *)
Lose ==
  /\ \/ \E m \in s2c : s2c' = s2c \ {m} /\ c2s' = c2s
     \/ \E m \in c2s : c2s' = c2s \ {m} /\ s2c' = s2c
  /\ UNCHANGED <<mainVars, workerVars, clientVars, s_seq, stop>>

Init ==
  /\ s_seq = -1 /\ s_current = 0 /\ s_ack = FALSE /\ s_write = Connection
  /\ mpc = "connect" /\ asked = 0
  /\ wpc = "unborn" /\ w_read = 0 /\ slot = 0 /\ recorded = 0 /\ stop = FALSE
  /\ c_seq = 0 /\ c_current = 0 /\ c_ack = FALSE /\ c_write = Connection /\ c_read = 0
  /\ cpc = "send" /\ told = 0
  /\ s2c = {} /\ c2s = {}

MainStep ==
  \/ MainReset
  \/ MainBegWrite
  \/ MainSend
  \/ MainSample
  \/ MainAcked
  \/ MainStops
  \/ MainTerm

WorkerStep == WorkerRecord \/ WorkerStops

ClientStep == ClientSend \/ ClientAcked \/ ClientGet

Next ==
  \/ MainConnect
  \/ MainStep
  \/ MainRetransmit
  \/ MainGivesUp
  \/ MainWriteFails
  \/ MainWaitEnds
  \/ MainGoesOn
  \/ MainFails
  \/ WorkerTake
  \/ WorkerDrop
  \/ WorkerStep
  \/ WorkerFin
  \/ ClientTake
  \/ ClientDrop
  \/ ClientStep
  \/ ClientRetransmit
  \/ ClientGivesUp
  \/ ClientReadGet
  \/ ClientQuits
  \/ Lose

Spec == Init /\ [][Next]_vars
-----------------------------------------------------------------------------
(***************************************************************************)
(* The threads and the client are scheduled again and again and look at    *)
(* the clock each time round, so that what is unacknowledged is sent again *)
(* and again; and a datagram sent again and again gets through.  Nobody    *)
(* has to give up.                                                         *)
(***************************************************************************)
Fairness ==
  /\ WF_vars(MainStep) /\ WF_vars(WorkerStep) /\ WF_vars(ClientStep)
  /\ SF_vars(MainConnect) /\ SF_vars(WorkerTake)
  /\ SF_vars(ClientTake) /\ SF_vars(ClientReadGet)
  /\ WF_vars(MainRetransmit) /\ WF_vars(ClientRetransmit)

FairSpec == Spec /\ Fairness

-----------------------------------------------------------------------------
Datagrams == [seq : Nat, body : Nat]

RudpTypeOK ==
  /\ s_seq \in Nat \cup {-1} /\ s_current \in Nat /\ s_ack \in BOOLEAN /\ s_write \in Datagrams
  /\ mpc \in {"connect", "reset", "write", "send", "sample", "check", "wait", "scan", "term", "exit"}
  /\ asked \in Nat
  /\ wpc \in {"unborn", "poll", "record", "done"}
  /\ w_read \in Nat /\ slot \in Nat /\ recorded \in Nat /\ stop \in BOOLEAN
  /\ c_seq \in Nat /\ c_current \in Nat /\ c_ack \in BOOLEAN /\ c_write \in Datagrams
  /\ c_read \in Nat
  /\ cpc \in {"send", "await", "get", "exited"}
  /\ told \in Nat
  /\ s2c \subseteq Datagrams /\ c2s \subseteq Datagrams

(***************************************************************************)
(* Over a network that loses, repeats and reorders, with retransmissions   *)
(* at both ends, the two ends take turns: each request is handed to the    *)
(* client once, each response to the worker once, in order, and there is   *)
(* no new request before it.  That the worker still has to record it does  *)
(* not keep the main thread from going on when the wait has timed out.     *)
(***************************************************************************)
Heard == recorded + (IF wpc = "record" THEN 1 ELSE 0)
Reliable == INSTANCE Exchange WITH message <- c_write.body, heard <- Heard, answer <- w_read
ImplementsExchange == Reliable!Spec

(***************************************************************************)
(* When the server's end_write has returned, its acknowledgement is one:   *)
(* the client was handed the request, and its response has been read.      *)
(***************************************************************************)
ServerAckTrue == mpc \in {"wait", "scan", "reset", "write"} => told = asked /\ Heard = asked

(***************************************************************************)
(* A response the worker was slow to record, when the wait for it has      *)
(* timed out, may land in the slot of a later phase.  Over RUDP that is    *)
(* the next one, where a vote is not taken for an acknowledgement; what    *)
(* the scan takes for this phase's response is, and it never finds an      *)
(* acknowledgement among the votes (the "Protocol violation" of            *)
(* q2pc_server.c:460).                                                     *)
(***************************************************************************)
ScanSeesThisRound ==
  mpc = "scan" => slot \in {0, asked} \/ (~Vote(asked) /\ slot = asked - 1)

(***************************************************************************)
(* "Got ack for seq" (q2pc_trans_rudp.c:211): when end_write returns       *)
(* without an error at the client, the server has taken its message.       *)
(***************************************************************************)
ClientAckTrue == cpc = "get" /\ ~c_ack => s_seq >= c_write.seq

(* send_response has returned without an acknowledgement. *)
GaveUp == cpc = "get" /\ c_ack

(***************************************************************************)
(* As long as the client does not give up after RTOS_MAX retransmissions,  *)
(* what it takes for acknowledged has reached the server.                  *)
(***************************************************************************)
ClientAckTrueUntilGaveUp == []~GaveUp => []ClientAckTrue

(***************************************************************************)
(* "so that every one sees this update" (q2pc_trans_rudp.c:120): the main  *)
(* thread waits for a change of the number its request was stamped with,   *)
(* so that it sees the response whenever the worker reads it.              *)
(***************************************************************************)
AckNotMissed == mpc = "check" => s_current = s_write.seq

(***************************************************************************)
(* Whatever the network loses, every write to a client that lives ends,    *)
(* unless the client gave up or the main thread missed the response.       *)
(***************************************************************************)
RequestsEnd ==
  []Alive /\ []~GaveUp /\ []AckNotMissed => (mpc = "check" ~> mpc # "check")
=============================================================================
