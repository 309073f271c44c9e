---------------------------- MODULE Q2PCGlobals ----------------------------
(***************************************************************************)
(* What the threads of the q2pc server and its clients share: the command  *)
(* line (constants), the globals of q2pc_server.c, the locals of its main  *)
(* and worker threads, the clients' state, and the two message queues of   *)
(* every connection.  Modules ServerMain, ServerWorker and Client act on   *)
(* this state; module Q2PC composes them.                                  *)
(*                                                                         *)
(* The state starts where server_init has returned: every client is        *)
(* connected, its connection message consumed, and the workers started.    *)
(*                                                                         *)
(* A connection, the client at its far end and that client's slot of the   *)
(* scoreboard are three views of one index: connection i of the cons array *)
(* leads to the client with src_hostid HostId[i].                          *)
(***************************************************************************)
EXTENDS Integers, FiniteSets, SequencesExt

CONSTANTS
  ClientCount,  \* -s: the number of clients the server waits for
  ThreadCount,  \* -T: the number of worker threads asked for
  Transport,    \* -t, -u or -q; RUDP (-r) has its own handshake and module
  Faults,       \* what the network does to a datagram
  Timed,        \* -w is not negative, so waiting for the peer may time out
  StatsLen,     \* -S: how many responses the server has room to record
  VoteMod,      \* a client votes no once in so many votes (5 in the code)
  HostId,       \* the client id at the far end of each connection
  Killable,     \* the connections whose client an operator may kill
  Interruptible \* whether an operator may interrupt or kill the server

(* The connections, the index space of the cons array. *)
Conns == 0 .. ClientCount - 1

(* real_thread_count: never more workers than connections. *)
RealThreadCount == IF ThreadCount < ClientCount THEN ThreadCount ELSE ClientCount
Threads == 0 .. RealThreadCount - 1

(* Worker t serves the connections Lo(t) .. Hi(t) - 1. *)
ConsPerThread == (ClientCount + ThreadCount - 1) \div ThreadCount
Clip(n) == IF n < ClientCount THEN n ELSE ClientCount
Lo(t) == Clip(t * ConsPerThread)

(* Mutant: off by one at the end of the range, the last connection belongs to nobody. *)
HiShort(t) == Clip((t + 1) * ConsPerThread - 1)

Hi(t) == Clip((t + 1) * ConsPerThread)

(* The room for statistics each worker gets. *)
StatsPerThread == StatsLen \div RealThreadCount

(* The scoreboard slot of the client on connection i: src_hostid - 1. *)
Slot(i) == HostId[i] - 1

(***************************************************************************)
(* The configurations modelled.  Client ids are the ones the server        *)
(* expects, each used once; every worker has room for a response (with     *)
(* StatsPerThread = 0 it would write past its array).                      *)
(***************************************************************************)
ASSUME ConfigAssumption ==
  /\ ClientCount \in Nat \ {0}
  /\ ThreadCount \in Nat \ {0}
  /\ Transport \in {"tcp_ln", "udp_ln", "udp_qj"}
  /\ Faults \subseteq {"loss", "duplication", "reordering"}
  /\ Transport # "udp_ln" => Faults = {}
  /\ Timed \in BOOLEAN
  /\ StatsLen \in Nat
  /\ StatsPerThread \in Nat \ {0}
  /\ VoteMod \in Nat \ {0}
  /\ HostId \in [Conns -> 1 .. ClientCount]
  /\ \A i, j \in Conns : HostId[i] = HostId[j] => i = j
  /\ Killable \subseteq Conns
  /\ Interruptible \in BOOLEAN

VARIABLES
  \* shared by the threads of the server
  votes_scoreboard, \* per slot, the last response, or "lost"
  votes_count,      \* per worker, the responses it counted this phase
  stop_signal,
  pause_signal,
  deleted,          \* per connection, whether its worker deleted it
  \* the main thread
  mpc,              \* where it is
  mi,               \* the index of the loop it is in
  phase,            \* 1 in do_phase1, 2 in do_phase2
  sent,             \* how many connections send_request is done with
  total_votes,      \* the sum wait_for_votes is taking
  result,           \* what the scan of the scoreboard has found so far
  status,           \* what do_phase1 returned
  requests,         \* the round
  \* the worker threads
  wpc,
  wi,               \* the connection being polled
  loaded,           \* votes_count as read by the increment in progress
  stats_idx,
  \* the clients, by connection
  cpc,
  vote_count,
  outcome,          \* what the client was told about its latest vote
  \* the network, by connection
  s2c,              \* server to client
  c2s               \* client to server

sharedVars == <<votes_scoreboard, votes_count, stop_signal, pause_signal, deleted>>
mainVars   == <<mpc, mi, phase, sent, total_votes, result, status, requests>>
workerVars == <<wpc, wi, loaded, stats_idx>>
clientVars == <<cpc, vote_count, outcome>>
netVars    == <<s2c, c2s>>
vars == <<sharedVars, mainVars, workerVars, clientVars, netVars>>

-----------------------------------------------------------------------------
(* Messages, reduced to their type: q2pc_msg_type_t. *)
Requests  == {"request", "commit", "cancel"}
Responses == {"vote_yes", "vote_no", "ack"}

(***************************************************************************)
(* The server process is gone at once, without cleanup: a signal it does   *)
(* not handle, or ch_log_fatal.  The kernel closes its sockets.            *)
(***************************************************************************)
ServerDies ==
  /\ mpc' = "exit"
  /\ wpc' = [t \in Threads |-> "done"]
  /\ deleted' = [i \in Conns |-> TRUE]
  /\ UNCHANGED <<votes_scoreboard, votes_count, stop_signal, pause_signal,
                 mi, phase, sent, total_votes, result, status, requests,
                 wi, loaded, stats_idx, clientVars, netVars>>

(***************************************************************************)
(* A client's vote, a function of how many votes it cast before: it starts *)
(* counting at its own id and votes no on the multiples of VoteMod.        *)
(***************************************************************************)
VotesYes(count) == count % VoteMod # 0

(* The number of votes the client on connection i has cast. *)
Cast(i) == vote_count[i] - HostId[i]

(* Whether the client on connection i votes yes in round r. *)
YesIn(i, r) == VotesYes(HostId[i] + r)
============================================================================
