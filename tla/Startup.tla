------------------------------ MODULE Startup ------------------------------
(***************************************************************************)
(* From the command line to the state module Q2PC starts in: the options   *)
(* main accepts (q2pc.c), the clients' connection messages over each of    *)
(* the four transports, the server's do_connectall, which collects them,   *)
(* and the loop of server_init that starts the workers, each with its      *)
(* share of the connections.                                               *)
(*                                                                         *)
(* Over TCP the server accepts whoever comes first and never compares the  *)
(* client's id with anything.  Over the datagram transports connection i   *)
(* has a port of its own, which only the client with id i + 1 writes to.   *)
(***************************************************************************)
EXTENDS Integers, FiniteSets

CONSTANTS
  Clients,      \* the client processes the operators start
  ClientCount,  \* -s
  ThreadCount,  \* -T
  CommandLines, \* the ids the operators may give the clients, -C: functions on Clients
  BindTries,    \* how often a port in use is tried again: seconds_total / seconds_per_try
  NOBODY        \* no client

Conns == 0 .. ClientCount - 1
TransportTypes == {"udp_ln", "tcp_ln", "rdp_ln", "udp_qj"}

ASSUME StartupAssumption ==
  /\ IsFiniteSet(Clients) /\ NOBODY \notin Clients
  /\ ClientCount \in Nat \ {0}
  /\ ThreadCount \in Nat \ {0}
  /\ CommandLines \subseteq [Clients -> Int]
  /\ BindTries \in Nat

VARIABLES
  flags,     \* the transports the command lines ask for
  id,        \* client_id of each client
  faults,    \* what the network may do to a datagram
  \* the server
  spc,       \* "main", "bind", "connect", "threads", "running", "fatal"
  tries, bound, errno, \* the retries of a bind: how many, whether one succeeded, its errno
  si,        \* the index of do_connectall
  attached,  \* how many connections have their private data
  connected, \* how many connection messages do_connectall has counted
  counted,   \* how many of them on each connection
  far,       \* the client each connection leads to
  ti, lo, hi, \* the index and range of the next worker
  ranges,    \* the ranges of the workers started
  \* the clients
  cpc,       \* "main", "connect", "write", "sent", "fatal", "exited"
  \* the network
  backlog,   \* TCP: the clients connected and not accepted
  net,       \* the clients whose connection message waits to be read
  unheard    \* the clients whose only datagram reached nobody

bindVars   == <<tries, bound, errno>>
serverVars == <<si, attached, connected, counted, far, bindVars>>
threadVars == <<ti, lo, hi, ranges>>
netVars    == <<backlog, net, unheard>>
vars == <<flags, id, faults, spc, serverVars, threadVars, cpc, netVars>>

(* The transport: UDP unless a flag says otherwise. *)
Transport == IF flags = {} THEN "udp_ln" ELSE CHOOSE f \in flags : TRUE

(* TCP listens from trans_factory on. *)
Listening == spc \in {"connect", "threads", "running"}

(* The port of connection i, less the one of the command line: the transport counts from 1. *)
Port(i) == i + 1

(* UDP, and so RUDP, connect a socket to the sender of the first datagram read; Q-Jump does not. *)
Accepts(i, c) == Transport # "udp_qj" => far[i] \in {NOBODY, c}

(* The server's sockets: one for each connection attached, and one whose bind succeeded late. *)
Sockets == IF spc = "fatal" THEN {} ELSE {i \in Conns : i < attached \/ (i = attached /\ bound)}

(* A socket is bound to the port the client writes to, and not connected to another. *)
Taken(c) == \E i \in Sockets : id[c] = Port(i) /\ Accepts(i, c)

(* The clients whose message connection i would read. *)
Waiting(i) ==
  IF Transport = "tcp_ln" THEN net \cap {far[i]} ELSE {c \in net : id[c] = Port(i)}

(* A datagram read may or may not arrive once more. *)
Remains(c) ==
  IF "duplication" \in faults THEN {net, net \ {c}} ELSE {net \ {c}}

(* Mutant: RUDP takes a repeated connection message. *)
FreshAlways(i) == TRUE

(* RUDP drops a message with a number it has seen. *)
Fresh(i) == Transport = "rdp_ln" => counted[i] = 0

-----------------------------------------------------------------------------
(* The server. *)

(* main: one transport only. *)
ServerMain ==
  /\ spc = "main"
  /\ spc' = IF Cardinality(flags) > 1 THEN "fatal" ELSE "connect"
  /\ UNCHANGED <<flags, id, faults, serverVars, threadVars, cpc, netVars>>

(* A port is in use: over TCP that of the command line, in trans_factory; else the next connection's. *)
ServerBindFails ==
  /\ \/ spc = "main" /\ Cardinality(flags) <= 1 /\ Transport = "tcp_ln"
     \/ spc = "connect" /\ si = attached /\ Transport # "tcp_ln"
  /\ spc' = "bind"
  /\ errno' = "EADDRINUSE"
  /\ UNCHANGED <<flags, id, faults, si, attached, connected, counted, far, tries, bound,
                 threadVars, cpc, netVars>>

(* What bind leaves in errno: success does not clear it, and a bound socket cannot be bound. *)
BindFailed == IF bound THEN errno' = "EINVAL" /\ bound' = bound
                       ELSE errno' = "EADDRINUSE" /\ bound' = bound
BindSucceeded == ~bound /\ bound' = TRUE /\ errno' = errno

(* The loop binds again for as long as errno says that the port is in use ... *)
Rebinds == tries < BindTries /\ errno = "EADDRINUSE"

ServerRebind ==
  /\ spc = "bind" /\ Rebinds
  /\ tries' = tries + 1
  /\ BindFailed \/ BindSucceeded
  /\ UNCHANGED <<flags, id, faults, spc, si, attached, connected, counted, far,
                 threadVars, cpc, netVars>>

(* ... and with errno set the server exits. *)
ServerBindFatal ==
  /\ spc = "bind" /\ ~Rebinds
  /\ spc' = "fatal"
  /\ UNCHANGED <<flags, id, faults, serverVars, threadVars, cpc, netVars>>

(* TCP: accept waits for a client that has connected. *)
Accept == \E c \in backlog : backlog' = backlog \ {c} /\ far' = [far EXCEPT ![si] = c]

(* trans->connect: over TCP it accepts, otherwise it binds the next port. *)
ServerAttach ==
  /\ spc = "connect" /\ si = attached
  /\ attached' = attached + 1
  /\ IF Transport = "tcp_ln" THEN Accept ELSE UNCHANGED <<backlog, far>>
  /\ UNCHANGED <<flags, id, faults, spc, si, connected, counted, bindVars, threadVars, cpc, net, unheard>>

(* Mutant: the index is not reset for the next pass. *)
NextIndexOver(i) == i + 1

(* Mutant: the server stays with a connection until its message has come. *)
NextIndexStays(i) == i

(* The connections are polled in turn ... *)
NextIndex(i) == IF i + 1 = ClientCount THEN 0 ELSE i + 1

(* ... and after each pass the loop ends if enough messages were counted. *)
Advance ==
  /\ si' = NextIndex(si)
  /\ spc' = IF si + 1 = ClientCount /\ connected' >= ClientCount THEN "threads" ELSE spc

(* A connection message is counted, whatever was counted on this connection before. *)
ServerCounts ==
  /\ spc = "connect" /\ si < attached /\ Fresh(si)
  /\ \E c \in Waiting(si) :
       /\ net' \in Remains(c)
       /\ far' = [far EXCEPT ![si] = IF @ = NOBODY THEN c ELSE @]
  /\ counted' = [counted EXCEPT ![si] = @ + 1]
  /\ connected' = connected + 1
  /\ Advance
  /\ UNCHANGED <<flags, id, faults, attached, bindVars, threadVars, cpc, backlog, unheard>>

ServerDrops ==
  /\ spc = "connect" /\ si < attached /\ ~Fresh(si)
  /\ \E c \in Waiting(si) : net' \in Remains(c)
  /\ UNCHANGED connected
  /\ Advance
  /\ UNCHANGED <<flags, id, faults, attached, counted, far, bindVars, threadVars, cpc, backlog, unheard>>

(* Nothing to read, or over TCP the client is gone: do_connectall ignores Q2PC_EFIN. *)
ServerPolls ==
  /\ spc = "connect" /\ si < attached /\ Waiting(si) = {}
  /\ UNCHANGED connected
  /\ Advance
  /\ UNCHANGED <<flags, id, faults, attached, counted, far, bindVars, threadVars, cpc, netVars>>

(* Mutant: the connections are shared out without rounding up. *)
ConsPerThreadDown == LET share == ClientCount \div ThreadCount IN IF share < 1 THEN 1 ELSE share

ConsPerThread ==
  LET share == (ClientCount + ThreadCount - 1) \div ThreadCount IN IF share < 1 THEN 1 ELSE share

RealThreadCount == IF ThreadCount < ClientCount THEN ThreadCount ELSE ClientCount

(* A worker is started on lo .. hi - 1, and the next range clipped to the connections. *)
ServerThread ==
  /\ spc = "threads"
  /\ ranges' = [ranges EXCEPT ![ti] = lo .. hi - 1]
  /\ lo' = hi
  /\ hi' = IF hi + ConsPerThread < ClientCount THEN hi + ConsPerThread ELSE ClientCount
  /\ ti' = ti + 1
  /\ spc' = IF ti' = RealThreadCount THEN "running" ELSE spc
  /\ UNCHANGED <<flags, id, faults, serverVars, cpc, netVars>>

-----------------------------------------------------------------------------
(* The clients. *)

(* main: one transport only, and no negative id. *)
ClientMain(c) ==
  /\ cpc[c] = "main"
  /\ cpc' = [cpc EXCEPT ![c] = IF Cardinality(flags) > 1 \/ id[c] < 0 THEN "fatal" ELSE "connect"]
  /\ UNCHANGED <<flags, id, faults, spc, serverVars, threadVars, netVars>>

(* TCP: trans_factory connects, or the client exits. *)
ClientConnect(c) ==
  /\ cpc[c] = "connect" /\ Transport = "tcp_ln"
  /\ IF Listening
     THEN cpc' = [cpc EXCEPT ![c] = "write"] /\ backlog' = backlog \cup {c}
     ELSE cpc' = [cpc EXCEPT ![c] = "fatal"] /\ backlog' = backlog
  /\ UNCHANGED <<flags, id, faults, spc, serverVars, threadVars, net, unheard>>

(* Q-Jump: the client binds the broadcast port; if it is in use the retries end as the server's do. *)
ClientBindFails(c) ==
  /\ cpc[c] = "connect" /\ Transport = "udp_qj"
  /\ cpc' = [cpc EXCEPT ![c] = "fatal"]
  /\ UNCHANGED <<flags, id, faults, spc, serverVars, threadVars, netVars>>

(* TCP: the connection message is in the stream, accepted or not. *)
ClientWrite(c) ==
  /\ cpc[c] = "write"
  /\ cpc' = [cpc EXCEPT ![c] = "sent"]
  /\ net' = net \cup {c}
  /\ UNCHANGED <<flags, id, faults, spc, serverVars, threadVars, backlog, unheard>>

(* A datagram is sent once; over RUDP again and again, until the first request arrives. *)
Sends(c) ==
  /\ Transport # "tcp_ln"
  /\ cpc[c] = "connect" \/ (cpc[c] = "sent" /\ Transport = "rdp_ln")

(* Only RUDP makes up for a datagram that reached nobody. *)
Missed(c) == unheard' = IF Transport = "rdp_ln" THEN unheard ELSE unheard \cup {c}

ClientSend(c) ==
  /\ Sends(c) /\ Taken(c)
  /\ cpc' = [cpc EXCEPT ![c] = "sent"]
  /\ net' = net \cup {c}
  /\ UNCHANGED <<flags, id, faults, spc, serverVars, threadVars, backlog, unheard>>

ClientSendLost(c) ==
  /\ Sends(c) /\ "loss" \in faults
  /\ cpc' = [cpc EXCEPT ![c] = "sent"]
  /\ Missed(c)
  /\ UNCHANGED <<flags, id, faults, spc, serverVars, threadVars, backlog, net>>

(* Nobody is at the port.  The next read says so and the client exits; Q-Jump reads another socket. *)
ClientSendRefused(c) ==
  /\ Sends(c) /\ ~Taken(c)
  /\ cpc' = [cpc EXCEPT ![c] = IF Transport = "udp_qj" THEN "sent" ELSE "exited"]
  /\ Missed(c)
  /\ UNCHANGED <<flags, id, faults, spc, serverVars, threadVars, backlog, net>>

(* An operator kills the client. *)
ClientKilled(c) ==
  /\ cpc[c] \in {"connect", "write", "sent"}
  /\ cpc' = [cpc EXCEPT ![c] = "exited"]
  /\ UNCHANGED <<flags, id, faults, spc, serverVars, threadVars, netVars>>

-----------------------------------------------------------------------------
Init ==
  /\ flags \in SUBSET TransportTypes /\ id \in CommandLines
  /\ faults \in IF Transport = "tcp_ln" THEN {{}} ELSE SUBSET {"loss", "duplication"}
  /\ spc = "main" /\ si = 0 /\ attached = 0 /\ connected = 0
  /\ tries = 0 /\ bound = FALSE /\ errno = "none"
  /\ counted = [i \in Conns |-> 0]
  /\ far = [i \in Conns |-> NOBODY]
  /\ ti = 0 /\ lo = 0 /\ hi = ConsPerThread
  /\ ranges = [t \in 0 .. RealThreadCount - 1 |-> {}]
  /\ cpc = [c \in Clients |-> "main"]
  /\ backlog = {} /\ net = {} /\ unheard = {}

ServerStep ==
  \/ ServerMain
  \/ ServerRebind
  \/ ServerBindFatal
  \/ ServerAttach
  \/ ServerCounts
  \/ ServerDrops
  \/ ServerPolls
  \/ ServerThread

ClientStep(c) == ClientMain(c) \/ ClientConnect(c) \/ ClientWrite(c)

Next ==
  \/ ServerStep
  \/ ServerBindFails
  \/ \E c \in Clients :
       \/ ClientStep(c)
       \/ ClientBindFails(c)
       \/ ClientSend(c)
       \/ ClientSendLost(c)
       \/ ClientSendRefused(c)
       \/ ClientKilled(c)

Spec == Init /\ [][Next]_vars

(***************************************************************************)
(* Every process started runs on, the server's polling loop included; a    *)
(* datagram sent again and again gets through.                             *)
(***************************************************************************)
FairSpec ==
  /\ Spec
  /\ WF_vars(ServerStep)
  /\ \A c \in Clients : WF_vars(ClientStep(c)) /\ SF_vars(ClientSend(c))

-----------------------------------------------------------------------------
StartupTypeOK ==
  /\ flags \in SUBSET TransportTypes /\ id \in [Clients -> Int]
  /\ faults \subseteq {"loss", "duplication"}
  /\ spc \in {"main", "bind", "connect", "threads", "running", "fatal"}
  /\ tries \in 0 .. BindTries /\ bound \in BOOLEAN /\ errno \in {"none", "EADDRINUSE", "EINVAL"}
  /\ si \in Conns /\ attached \in 0 .. ClientCount /\ connected \in Nat
  /\ counted \in [Conns -> Nat]
  /\ far \in [Conns -> Clients \cup {NOBODY}]
  /\ ti \in 0 .. RealThreadCount /\ lo \in 0 .. ClientCount /\ hi \in 0 .. ClientCount
  /\ ranges \in [0 .. RealThreadCount - 1 -> SUBSET Conns]
  /\ cpc \in [Clients -> {"main", "connect", "write", "sent", "fatal", "exited"}]
  /\ backlog \subseteq Clients /\ net \subseteq Clients /\ unheard \subseteq Clients

(* Two connection messages may be counted on one connection: UDP and Q-Jump do not tell them apart. *)
Repeats ==
  /\ Transport \in {"udp_ln", "udp_qj"}
  /\ "duplication" \in faults \/ \E b, c \in Clients : b # c /\ id[b] = id[c]

(***************************************************************************)
(* What module Q2PC assumes of HostId: when do_connectall is done every    *)
(* connection leads to a client of its own, and over a datagram transport  *)
(* connection i to the one with id i + 1.  RUDP's sequence numbers secure  *)
(* it against repeated messages and equal ids, over TCP the ids are not    *)
(* looked at, and UDP and Q-Jump secure neither.                           *)
(***************************************************************************)
Seated ==
  spc \in {"threads", "running"} /\ ~Repeats =>
    /\ \A i \in Conns : counted[i] = 1 /\ far[i] \in Clients
    /\ \A i, j \in Conns : far[i] = far[j] => i = j
    /\ Transport # "tcp_ln" => \A i \in Conns : id[far[i]] = i + 1

(* When the workers have been started each connection is polled by exactly one of them. *)
EachServedOnce ==
  spc = "running" =>
    \A i \in Conns : \E t \in 0 .. RealThreadCount - 1 :
      \A u \in 0 .. RealThreadCount - 1 : i \in ranges[u] <=> u = t

(* There is a client for every connection. *)
Enough ==
  IF Transport = "tcp_ln" THEN Cardinality(Clients) >= ClientCount
                          ELSE \A i \in Conns : \E c \in Clients : id[c] = i + 1

(***************************************************************************)
(* Start-up ends, if no port of the server was in use at the first try,    *)
(* there is a client for every connection and none of them dies or gives   *)
(* up; over UDP and Q-Jump, which send the connection message once, if     *)
(* none is lost or sent before its port is bound.                          *)
(***************************************************************************)
StartsUp ==
  /\ Cardinality(flags) <= 1 /\ Enough
  /\ [](spc # "bind")
  /\ [](\A c \in Clients : cpc[c] \notin {"fatal", "exited"})
  /\ Transport \in {"udp_ln", "udp_qj"} => [](unheard = {})
  => <>(spc = "running")
=============================================================================
