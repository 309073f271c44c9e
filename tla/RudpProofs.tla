---------------------------- MODULE RudpProofs ----------------------------
(***************************************************************************)
(* The reliable datagram transport, for any number of messages: the        *)
(* numbers at the two ends never run apart by more than one, so that a     *)
(* datagram is new to its reader only when it is the next one.             *)
(***************************************************************************)
EXTENDS Rudp, TLAPS

(* The k-th request is stamped k - 1, its response k: a number names one message in each direction. *)
Stamped ==
  /\ \A m \in s2c : m.body = m.seq + 1 /\ m.body <= asked
  /\ \A m \in c2s : m.body = m.seq /\ m.seq <= told
  /\ mpc \in {"send", "sample", "check"} => asked > 0 /\ s_write = Datagram(asked - 1, asked)
  /\ c_write = Datagram(told, told)

(* The server's number is that of the last response read, recorded or not. *)
ServerEnd ==
  /\ mpc = "connect" => s_seq = -1 /\ wpc = "unborn" /\ asked = 0 /\ recorded = 0
  /\ mpc # "connect" => wpc # "unborn"
  /\ wpc \in {"poll", "done"} => s_seq = recorded
  /\ wpc = "record" => s_seq = recorded + 1 /\ w_read = s_seq
  /\ slot \in {0, recorded}

(* The client's is that of the last request read, handed out or not. *)
ClientEnd ==
  /\ c_read = 0 => c_seq = told
  /\ c_read # 0 => c_seq = told + 1 /\ c_read = c_seq
  /\ cpc = "send" => c_read = 0

(* The ends take turns. *)
InTurn == s_seq <= told /\ told <= c_seq /\ c_seq <= asked /\ asked <= s_seq + 1

(* A change of the number sampled is the response to the request. *)
Sampled ==
  /\ s_ack => mpc \in {"check", "term", "exit"}
  /\ mpc = "check" => asked - 1 <= s_current /\ s_current <= s_seq
  /\ mpc \in {"wait", "scan", "reset", "write"} => s_seq = asked

(***************************************************************************)
(* An acknowledgement is recorded before the round is left, so that in     *)
(* phase 1 the worker is at most about to record this round's vote.        *)
(***************************************************************************)
InPhase ==
  /\ Vote(asked) /\ mpc \in {"send", "sample", "check", "wait", "scan"}
     => recorded >= asked - 1 /\ slot \in {0, asked}
  /\ ~Vote(asked) /\ mpc \in {"reset", "write"} => recorded = asked
  /\ mpc = "write" /\ ~Vote(asked) => slot = 0

RudpIInv == RudpTypeOK /\ Stamped /\ ServerEnd /\ ClientEnd /\ InTurn /\ Sampled

(* What holds of the client as long as it never gave up. *)
Persists ==
  /\ cpc = "send" => ~c_ack
  /\ cpc = "await" => c_ack /\ c_current = told
  /\ cpc = "get" /\ ~c_ack => s_seq >= told
-----------------------------------------------------------------------------
(* Requests and decisions alternate. *)
LEMMA VotesAlternate ==
  ASSUME NEW n \in Nat
  PROVE  /\ Vote(n + 1) <=> ~Vote(n)
         /\ n > 0 => (Vote(n - 1) <=> ~Vote(n))
         /\ ~Vote(0)
BY DEF Vote

LEMMA RudpIInvInit == Init => RudpIInv
<1> SUFFICES ASSUME Init PROVE RudpIInv
  OBVIOUS
<1>1. s_ack = FALSE /\ s_ack \in BOOLEAN /\ stop \in BOOLEAN /\ c_ack \in BOOLEAN
  BY Zenon DEF Init
<1>2. /\ s_seq = -1 /\ s_current = 0 /\ s_write = Connection /\ mpc = "connect" /\ asked = 0
      /\ wpc = "unborn" /\ w_read = 0 /\ slot = 0 /\ recorded = 0
      /\ c_seq = 0 /\ c_current = 0 /\ c_write = Connection /\ c_read = 0
      /\ cpc = "send" /\ told = 0 /\ s2c = {} /\ c2s = {}
  BY Zenon DEF Init
<1>3. RudpTypeOK
  BY <1>1, <1>2 DEF RudpTypeOK, Connection, Datagram, Datagrams
<1>4. ~s_ack
  BY <1>1
<1>5. Stamped /\ ServerEnd /\ ClientEnd /\ InTurn
  BY <1>2 DEF Stamped, ServerEnd, ClientEnd, InTurn, Connection, Datagram
<1>6. Sampled
  BY <1>1, <1>2, <1>4, Zenon DEF Sampled
<1> QED
  BY <1>3, <1>5, <1>6 DEF RudpIInv

LEMMA MainKeeps ==
  ASSUME RudpIInv,
         MainConnect \/ MainStep \/ MainRetransmit \/ MainGivesUp
           \/ MainWriteFails \/ MainWaitEnds \/ MainGoesOn \/ MainFails
  PROVE  RudpIInv'
<1> USE RudpAssumption DEF RudpIInv, RudpTypeOK, Stamped, ServerEnd, ClientEnd, InTurn, Sampled,
        Datagram, Datagrams, mainVars, workerVars, clientVars, netVars
<1>1. CASE MainConnect
  BY <1>1 DEF MainConnect, ServerTakes, Remains
<1>2. CASE MainBegWrite
  BY <1>2 DEF MainBegWrite
<1>3. CASE MainSend
  BY <1>3 DEF MainSend
<1>4. CASE MainSample
  BY <1>4 DEF MainSample
<1>5. CASE MainAcked
  <2>1. s_ack' \in BOOLEAN /\ ~s_ack'
    BY <1>5, Zenon DEF MainAcked
  <2>2. /\ mpc = "check" /\ s_current # s_seq /\ mpc' = "wait"
        /\ UNCHANGED <<asked, s_current, s_write, workerVars, clientVars, netVars, s_seq, stop>>
    BY <1>5, Zenon DEF MainAcked
  <2> QED
    BY <2>1, <2>2
<1>6. CASE MainStops
  BY <1>6 DEF MainStops
<1>7. CASE MainReset
  BY <1>7 DEF MainReset
<1>8. CASE MainTerm
  BY <1>8 DEF MainTerm
<1>9. CASE MainRetransmit
  BY <1>9 DEF MainRetransmit, MainResends, SentAgain
<1>10. CASE MainGivesUp
  BY <1>10 DEF MainGivesUp, MainResends, SentAgain
<1>11. CASE MainWriteFails \/ MainWaitEnds \/ MainGoesOn \/ MainFails
  BY <1>11 DEF MainWriteFails, MainWaitEnds, MainGoesOn, MainFails
<1> QED
  BY <1>1, <1>2, <1>3, <1>4, <1>5, <1>6, <1>7, <1>8, <1>9, <1>10, <1>11 DEF MainStep

LEMMA WorkerKeeps ==
  ASSUME RudpIInv, WorkerTake \/ WorkerDrop \/ WorkerStep \/ WorkerFin
  PROVE  RudpIInv'
<1> USE RudpAssumption DEF RudpIInv, RudpTypeOK, Stamped, ServerEnd, ClientEnd, InTurn, Sampled,
        Datagram, Datagrams, mainVars, workerVars, clientVars, netVars
<1>1. CASE WorkerTake
  BY <1>1 DEF WorkerTake, ServerTakes, Remains
<1>2. CASE WorkerDrop
  BY <1>2 DEF WorkerDrop
<1>3. CASE WorkerRecord
  <2>1. stop' \in BOOLEAN
    BY <1>3, Zenon DEF WorkerRecord
  <2>2. /\ wpc = "record" /\ wpc' \in {"poll", "done"} /\ slot' = w_read /\ recorded' = recorded + 1
        /\ UNCHANGED <<w_read, mainVars, clientVars, netVars, s_seq>>
    BY <1>3, Zenon DEF WorkerRecord
  <2> QED
    BY <2>1, <2>2
<1>4. CASE WorkerStops
  BY <1>4 DEF WorkerStops
<1>5. CASE WorkerFin
  BY <1>5 DEF WorkerFin
<1> QED
  BY <1>1, <1>2, <1>3, <1>4, <1>5 DEF WorkerStep

LEMMA ClientKeeps ==
  ASSUME RudpIInv,
         ClientTake \/ ClientDrop \/ ClientStep \/ ClientRetransmit \/ ClientGivesUp
           \/ ClientReadGet \/ ClientQuits \/ Lose
  PROVE  RudpIInv'
<1> USE RudpAssumption DEF RudpIInv, RudpTypeOK, Stamped, ServerEnd, ClientEnd, InTurn, Sampled,
        Datagram, Datagrams, mainVars, workerVars, clientVars, netVars
<1>1. CASE ClientTake
  BY <1>1 DEF ClientTake, ClientTakes, Remains
<1>2. CASE ClientDrop
  BY <1>2 DEF ClientDrop
<1>3. CASE ClientSend
  <2>1. c_ack' \in BOOLEAN
    BY <1>3, Zenon DEF ClientSend
  <2>2. /\ cpc = "send" /\ cpc' = "await"
        /\ c2s' \in {c2s, c2s \cup {c_write}} /\ c_current' \in {c_current, c_seq}
        /\ UNCHANGED <<c_seq, c_write, c_read, told, mainVars, workerVars, s2c, s_seq, stop>>
    BY <1>3, Zenon DEF ClientSend
  <2> QED
    BY <2>1, <2>2
<1>4. CASE ClientAcked
  <2>1. c_ack' \in BOOLEAN
    BY <1>4, Zenon DEF ClientAcked
  <2>2. /\ cpc = "await" /\ cpc' = "get"
        /\ UNCHANGED <<c_seq, c_current, c_write, c_read, told, mainVars, workerVars, netVars, s_seq, stop>>
    BY <1>4, Zenon DEF ClientAcked
  <2> QED
    BY <2>1, <2>2
<1>5. CASE ClientGet
  BY <1>5 DEF ClientGet, Handed
<1>6. CASE ClientRetransmit
  BY <1>6 DEF ClientRetransmit, ClientResends, SentAgain
<1>7. CASE ClientGivesUp
  BY <1>7 DEF ClientGivesUp, ClientResends, SentAgain
<1>8. CASE ClientReadGet
  BY <1>8 DEF ClientReadGet, Handed, ClientTakes, Remains
<1>9. CASE ClientQuits
  BY <1>9 DEF ClientQuits
<1>10. CASE Lose
  BY <1>10 DEF Lose
<1> QED
  BY <1>1, <1>2, <1>3, <1>4, <1>5, <1>6, <1>7, <1>8, <1>9, <1>10 DEF ClientStep
LEMMA RudpIInvNext == RudpIInv /\ [Next]_vars => RudpIInv'
<1> SUFFICES ASSUME RudpIInv, [Next]_vars
             PROVE  RudpIInv'
  OBVIOUS
<1>1. CASE UNCHANGED vars
  BY <1>1 DEF vars, mainVars, workerVars, clientVars, netVars, RudpIInv, RudpTypeOK, Stamped,
              ServerEnd, ClientEnd, InTurn, Sampled
<1>2. CASE Next
  BY <1>2, MainKeeps, WorkerKeeps, ClientKeeps, Zenon DEF Next
<1> QED
  BY <1>1, <1>2

LEMMA RudpIInvInvariant == Spec => []RudpIInv
BY RudpIInvInit, RudpIInvNext, PTL DEF Spec

(* Every variable of the three threads and of the network has its type. *)
THEOREM RudpTypeCorrect == Spec => []RudpTypeOK
BY RudpIInvInvariant, PTL DEF RudpIInv

(***************************************************************************)
(* The acknowledgement the server's end_write reports is always one: at    *)
(* the number sampled, or one below it, the response can only be the       *)
(* response to this request.                                               *)
(***************************************************************************)
THEOREM ServerAckIsTrue == Spec => []ServerAckTrue
<1>1. RudpIInv => ServerAckTrue
  BY DEF RudpIInv, RudpTypeOK, Sampled, ServerEnd, InTurn, Heard, ServerAckTrue
<1> QED
  BY <1>1, RudpIInvInvariant, PTL

-----------------------------------------------------------------------------
LEMMA InPhaseMain ==
  ASSUME RudpIInv, InPhase,
         MainConnect \/ MainStep \/ MainRetransmit \/ MainGivesUp
           \/ MainWriteFails \/ MainWaitEnds \/ MainGoesOn \/ MainFails
  PROVE  InPhase'
<1> USE DEF RudpIInv, RudpTypeOK, ServerEnd, InPhase, mainVars, workerVars
<1>1. CASE MainConnect
  <2>1. asked' = 0 /\ recorded' = 0 /\ mpc' = "reset"
    BY <1>1 DEF MainConnect
  <2> QED
    BY <2>1, VotesAlternate
<1>2. CASE MainReset
  BY <1>2 DEF MainReset
<1>3. CASE MainBegWrite
  <2>1. Vote(asked + 1) <=> ~Vote(asked)
    BY VotesAlternate
  <2> QED
    BY <1>3, <2>1 DEF MainBegWrite
<1>4. CASE MainGoesOn
  <2>1. mpc = "scan" /\ mpc' = "reset" /\ s_seq = asked /\ UNCHANGED <<asked, workerVars>>
    BY <1>4 DEF MainGoesOn, Sampled
  <2>2. ASSUME ~Vote(asked) PROVE recorded = asked
    <3>1. slot # 0 /\ slot = recorded /\ ~Vote(slot)
      BY <1>4, <2>2 DEF MainGoesOn, Answered
    <3>2. recorded \in {asked, asked - 1} /\ asked > 0
      BY <2>1, <3>1
    <3>3. Vote(asked - 1)
      BY <2>2, <3>2, VotesAlternate
    <3> QED
      BY <3>1, <3>2, <3>3
  <2> QED
    BY <2>1, <2>2
<1>5. CASE \/ MainSend \/ MainSample \/ MainAcked \/ MainWaitEnds \/ MainRetransmit
  <2>1. /\ mpc \in {"send", "sample", "check", "wait"} /\ mpc' \in {"sample", "check", "wait", "scan"}
        /\ UNCHANGED <<asked, workerVars>>
    BY <1>5 DEF MainSend, MainSample, MainAcked, MainWaitEnds, MainRetransmit, MainResends
  <2> QED
    BY <2>1
<1>6. CASE MainGivesUp \/ MainWriteFails \/ MainFails \/ MainStops \/ MainTerm
  <2>1. mpc' \in {"term", "exit"}
    BY <1>6 DEF MainGivesUp, MainWriteFails, MainFails, MainStops, MainTerm
  <2> QED
    BY <2>1
<1> QED
  BY <1>1, <1>2, <1>3, <1>4, <1>5, <1>6 DEF MainStep

LEMMA InPhaseNext == RudpIInv /\ InPhase /\ [Next]_vars => InPhase'
<1> SUFFICES ASSUME RudpIInv, InPhase, [Next]_vars
             PROVE  InPhase'
  OBVIOUS
<1>1. CASE WorkerRecord
  <2>1. /\ wpc = "record" /\ slot' = w_read /\ recorded' = recorded + 1 /\ UNCHANGED <<mpc, asked>>
    BY <1>1, Zenon DEF WorkerRecord, mainVars
  <2>2. s_seq = recorded + 1 /\ w_read = s_seq /\ s_seq <= asked
    BY <2>1 DEF RudpIInv, RudpTypeOK, ServerEnd, InTurn
  <2>3. mpc \in {"reset", "write"} => s_seq = asked
    BY DEF RudpIInv, Sampled
  <2> QED
    BY <2>1, <2>2, <2>3 DEF InPhase, RudpIInv, RudpTypeOK
<1>2. CASE \/ UNCHANGED vars \/ WorkerTake \/ WorkerDrop \/ WorkerStops \/ WorkerFin
           \/ ClientTake \/ ClientDrop \/ ClientStep \/ ClientRetransmit \/ ClientGivesUp
           \/ ClientReadGet \/ ClientQuits \/ Lose
  <2>1. UNCHANGED <<mpc, asked, recorded, slot>>
    BY <1>2, Zenon DEF vars, mainVars, workerVars, WorkerTake, WorkerDrop, WorkerStops, WorkerFin, ClientTake,
          ClientDrop, ClientStep, ClientSend, ClientAcked, ClientGet, ClientRetransmit, ClientGivesUp,
          ClientResends, ClientReadGet, ClientQuits, Lose
  <2> QED
    BY <2>1 DEF InPhase
<1> QED
  BY <1>1, <1>2, InPhaseMain, Zenon DEF Next, WorkerStep

(***************************************************************************)
(* Whenever the wait for it times out, a response recorded late is never   *)
(* taken for one of another round, and no scan of the votes finds an       *)
(* acknowledgement.                                                        *)
(***************************************************************************)
THEOREM ScansSeeThisRound == Spec => []ScanSeesThisRound
<1>1. Init => InPhase
  <2>1. Init => asked = 0 /\ recorded = 0 /\ mpc = "connect"
    BY Zenon DEF Init
  <2> QED
    BY <2>1 DEF InPhase
<1>2. RudpIInv /\ InPhase => ScanSeesThisRound
  BY DEF RudpIInv, RudpTypeOK, ServerEnd, Sampled, InPhase, ScanSeesThisRound
<1> QED
  BY <1>1, <1>2, InPhaseNext, RudpIInvInvariant, PTL DEF Spec

-----------------------------------------------------------------------------
(* Only the writing of a request and the handing out of messages at the two ends show. *)
LEMMA Takes == RudpIInv /\ [Next]_vars => [Reliable!Next]_(Reliable!turns)
<1> SUFFICES ASSUME RudpIInv, [Next]_vars
             PROVE  [Reliable!Next]_(Reliable!turns)
  OBVIOUS
<1> USE DEF Reliable!Next, Reliable!turns, Reliable!Ask, Reliable!Tell, Reliable!Hear, Datagram,
            mainVars, workerVars, clientVars
<1>1. UNCHANGED <<wpc, recorded>> => UNCHANGED Heard
  BY DEF Heard
<1>2. CASE UNCHANGED vars
  BY <1>2 DEF vars, Heard
<1>3. CASE MainConnect
  BY <1>3 DEF MainConnect, Heard, RudpIInv, ServerEnd
<1>4. CASE MainBegWrite
  <2>1. Heard = asked
    BY <1>4 DEF MainBegWrite, RudpIInv, RudpTypeOK, ServerEnd, Sampled, Heard
  <2> QED
    BY <1>4, <2>1 DEF MainBegWrite, Heard
<1>5. CASE \/ MainReset \/ MainSend \/ MainSample \/ MainAcked \/ MainStops \/ MainTerm
           \/ MainRetransmit \/ MainGivesUp
           \/ MainWriteFails \/ MainWaitEnds \/ MainGoesOn \/ MainFails
  <2>1. UNCHANGED <<asked, wpc, w_read, recorded, clientVars>>
    BY <1>5, Zenon DEF MainReset, MainSend, MainSample, MainAcked, MainStops, MainTerm, MainRetransmit,
              MainGivesUp, MainResends, MainWriteFails, MainWaitEnds, MainGoesOn, MainFails, workerVars
  <2> QED
    BY <2>1 DEF Heard
<1>6. CASE WorkerTake
  <2>1. PICK m \in c2s : m.seq > s_seq /\ s_seq' = m.seq /\ w_read' = m.body
    BY <1>6 DEF WorkerTake, ServerTakes
  <2>2. wpc = "poll" /\ wpc' = "record" /\ recorded' = recorded /\ UNCHANGED <<asked, told, c_write>>
    BY <1>6 DEF WorkerTake
  <2>3. m.seq = recorded + 1 /\ m.body = recorded + 1 /\ recorded < told
    BY <2>1, <2>2 DEF RudpIInv, RudpTypeOK, Datagrams, Stamped, ServerEnd, InTurn
  <2>4. Heard = recorded /\ Heard' = recorded + 1
    BY <2>2 DEF Heard, RudpIInv, RudpTypeOK
  <2> QED
    BY <2>1, <2>2, <2>3, <2>4
<1>7. CASE WorkerRecord
  <2>1. /\ wpc = "record" /\ wpc' \in {"poll", "done"} /\ recorded' = recorded + 1
        /\ UNCHANGED <<w_read, asked, told, c_write>>
    BY <1>7, Zenon DEF WorkerRecord
  <2>2. Heard' = Heard
    BY <2>1 DEF Heard, RudpIInv, RudpTypeOK
  <2> QED
    BY <2>1, <2>2
<1>8. CASE WorkerDrop \/ WorkerStops \/ WorkerFin
  <2>1. UNCHANGED <<asked, told, c_write, w_read>> /\ UNCHANGED Heard
    BY <1>8 DEF WorkerDrop, WorkerStops, WorkerFin, Heard
  <2> QED
    BY <2>1
<1>9. CASE ClientGet
  <2>1. told < asked /\ c_read = told + 1
    BY <1>9 DEF ClientGet, RudpIInv, RudpTypeOK, ClientEnd, InTurn
  <2> QED
    BY <1>1, <1>9, <2>1 DEF ClientGet, Handed
<1>10. CASE ClientReadGet
  <2>1. PICK m \in s2c : ClientTakes(m) /\ Handed(m.body, c_seq + 1)
    BY <1>10, Zenon DEF ClientReadGet
  <2>2. c_seq = told /\ m.body = m.seq + 1 /\ m.body <= asked /\ m.seq = c_seq
    BY <1>10, <2>1 DEF ClientReadGet, ClientTakes, RudpIInv, Stamped, ClientEnd
  <2>3. told < asked
    BY <2>2 DEF RudpIInv, RudpTypeOK
  <2> QED
    BY <1>1, <1>10, <2>1, <2>2, <2>3 DEF ClientReadGet, Handed
<1>11. CASE ClientTake \/ ClientDrop \/ ClientSend \/ ClientAcked \/ ClientRetransmit
             \/ ClientGivesUp \/ ClientQuits
  BY <1>1, <1>11 DEF ClientTake, ClientDrop, ClientSend, ClientAcked, ClientRetransmit, ClientGivesUp,
              ClientResends, ClientQuits
<1>12. CASE Lose
  BY <1>1, <1>12 DEF Lose
<1> QED
  BY <1>2, <1>3, <1>4, <1>5, <1>6, <1>7, <1>8, <1>9, <1>10, <1>11, <1>12, Zenon DEF Next, MainStep, WorkerStep, ClientStep

(***************************************************************************)
(* However the network loses, repeats and reorders datagrams, and whoever  *)
(* gives up or dies, requests and responses alternate, each handed out at  *)
(* most once and in order.                                                 *)
(***************************************************************************)
THEOREM RudpImplementsExchange == Spec => ImplementsExchange
<1>1. Init => Reliable!Init
  BY DEF Init, Reliable!Init, Connection, Datagram, Heard
<1> QED
  BY <1>1, Takes, RudpIInvInvariant, PTL DEF Spec, ImplementsExchange, Reliable!Spec

-----------------------------------------------------------------------------
LEMMA PersistsNext == RudpIInv /\ Persists /\ ~GaveUp /\ [Next]_vars => Persists'
<1> SUFFICES ASSUME RudpIInv, Persists, ~GaveUp, [Next]_vars
             PROVE  Persists'
  OBVIOUS
<1> USE DEF RudpIInv, RudpTypeOK, Persists, GaveUp, mainVars, workerVars, clientVars, netVars
<1>1. CASE UNCHANGED vars
  BY <1>1 DEF vars
<1>2. CASE MainConnect
  BY <1>2 DEF MainConnect, ServerTakes, InTurn, ServerEnd, ClientEnd
<1>3. CASE \/ MainStep \/ MainRetransmit \/ MainGivesUp
           \/ MainWriteFails \/ MainWaitEnds \/ MainGoesOn \/ MainFails
  <2>1. UNCHANGED <<s_seq, clientVars>>
    BY <1>3, Zenon DEF MainStep, MainRetransmit, MainGivesUp, MainResends, MainFails, MainReset, MainBegWrite,
              MainWriteFails, MainWaitEnds, MainGoesOn,
              MainSend, MainSample, MainAcked, MainStops, MainTerm, mainVars, clientVars
  <2> QED
    BY <2>1
<1>4. CASE WorkerTake
  <2>1. s_seq' \in Int /\ s_seq' > s_seq
    BY <1>4 DEF WorkerTake, ServerTakes, Stamped, Datagrams
  <2>2. UNCHANGED clientVars
    BY <1>4, Zenon DEF WorkerTake
  <2> QED
    BY <2>1, <2>2
<1>5. CASE WorkerDrop \/ WorkerStep \/ WorkerFin
  <2>1. UNCHANGED <<s_seq, clientVars>>
    BY <1>5, Zenon DEF WorkerDrop, WorkerStep, WorkerRecord, WorkerStops, WorkerFin, clientVars
  <2> QED
    BY <2>1
<1>6. CASE ClientSend
  <2>1. c_ack' /\ c_current' = c_seq /\ cpc = "send" /\ cpc' = "await" /\ told' = told
    BY <1>6, Zenon DEF ClientSend, Persists, clientVars
  <2>2. c_seq = told
    BY <2>1 DEF ClientEnd
  <2> QED
    BY <2>1, <2>2
<1>7. CASE ClientAcked
  <2>1. cpc = "await" /\ c_current # c_seq /\ cpc' = "get" /\ told' = told /\ s_seq' = s_seq
    BY <1>7, Zenon DEF ClientAcked
  <2>2. c_seq = told + 1
    BY <2>1 DEF ClientEnd
  <2>3. s_seq >= told
    BY <2>2 DEF InTurn, ServerEnd
  <2> QED
    BY <2>1, <2>3
<1>8. CASE ClientGet \/ ClientReadGet
  <2>1. cpc = "get" /\ cpc' = "send" /\ c_ack' = c_ack
    BY <1>8, Zenon DEF ClientGet, ClientReadGet, Handed
  <2> QED
    BY <2>1, Zenon
<1>9. CASE ClientGivesUp
  <2>1. cpc = "await" /\ cpc' = "get" /\ c_ack' = c_ack
    BY <1>9, Zenon DEF ClientGivesUp, ClientResends
  <2> QED
    BY <2>1, Zenon
<1>10. CASE ClientTake \/ ClientDrop \/ ClientRetransmit \/ ClientQuits \/ Lose
  <2>1. UNCHANGED <<s_seq, told, c_ack, c_current>> /\ cpc' \in {cpc, "exited"}
    BY <1>10, Zenon DEF ClientTake, ClientDrop, ClientRetransmit, ClientResends, ClientQuits, Lose, clientVars
  <2> QED
    BY <2>1
<1> QED
  BY <1>1, <1>2, <1>3, <1>4, <1>5, <1>6, <1>7, <1>8, <1>9, <1>10, Zenon DEF Next, ClientStep

(***************************************************************************)
(* A client that never gives up never takes a response for acknowledged    *)
(* that the server has not read: the next request is sent only after it.   *)
(***************************************************************************)
THEOREM ClientAckIsTrueUntilGaveUp == Spec => ClientAckTrueUntilGaveUp
<1>1. Init => Persists
  BY Zenon DEF Init, Persists
<1>2. RudpIInv /\ Persists => ClientAckTrue
  BY DEF RudpIInv, Stamped, Persists, ClientAckTrue, Datagram
<1> QED
  BY <1>1, <1>2, PersistsNext, RudpIInvInvariant, PTL DEF Spec, ClientAckTrueUntilGaveUp
=============================================================================
