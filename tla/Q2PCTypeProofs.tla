--------------------------- MODULE Q2PCTypeProofs ---------------------------
(***************************************************************************)
(* Type correctness of Q2PC, for every configuration and every network.    *)
(***************************************************************************)
EXTENDS Q2PCTurns, SequenceTheorems, FiniteSetTheorems, TLAPS

USE ConfigAssumption

-----------------------------------------------------------------------------
(* server_init: there is a worker, and never more workers than connections. *)
LEMMA RealThreadCountType ==
  /\ RealThreadCount \in Nat \ {0}
  /\ RealThreadCount <= ClientCount
  /\ Threads \subseteq Conns
  /\ 0 \in Threads
BY DEF ConfigAssumption, RealThreadCount, Threads, Conns

LEMMA ClientCountType == ClientCount \in Nat \ {0}
BY DEF ConfigAssumption

(* server_init: every worker gets a range of the cons array. *)
LEMMA RangeType ==
  \A t \in Threads : Lo(t) \in 0 .. ClientCount /\ Hi(t) \in 0 .. ClientCount
<1> SUFFICES ASSUME NEW t \in Threads
             PROVE  Lo(t) \in 0 .. ClientCount /\ Hi(t) \in 0 .. ClientCount
    OBVIOUS
<1>1. ConsPerThread \in Nat
  BY DEF ConfigAssumption, ConsPerThread
<1>2. t \in Nat
  BY RealThreadCountType DEF Threads
<1>3. t * ConsPerThread \in Nat /\ (t + 1) * ConsPerThread \in Nat
  BY <1>1, <1>2
<1> QED
  BY <1>3 DEF ConfigAssumption, Lo, Hi, Clip

(* Every client has a slot of its own in the scoreboard. *)
LEMMA SlotType ==
  /\ \A i \in Conns : Slot(i) \in Conns
  /\ \A i, j \in Conns : Slot(i) = Slot(j) => i = j
<1>1. \A i \in Conns : HostId[i] \in 1 .. ClientCount
  BY DEF ConfigAssumption
<1> QED
  BY <1>1 DEF ConfigAssumption, Conns, Slot

(* Every slot of the scoreboard belongs to a client: as many clients as slots, no two on one. *)
LEMMA SlotOwned == \A s \in Conns : \E i \in Conns : Slot(i) = s
<1> DEFINE f == [i \in Conns |-> Slot(i)]
<1>1. f \in Injection(Conns, Conns)
  BY SlotType DEF Injection, IsInjective
<1>2. IsFiniteSet(Conns)
  BY ClientCountType, FS_Interval DEF Conns
<1>3. f \in Surjection(Conns, Conns)
  BY <1>1, <1>2, FS_Injection
<1> QED
  BY <1>3 DEF Surjection

(* A message is delivered into a queue of such messages. *)
LEMMA DeliveredType ==
  ASSUME NEW S, NEW queue \in Seq(S), NEW m \in S, NEW q \in Delivered(queue, m)
  PROVE  q \in Seq(S)
<1>1. ASSUME NEW s \in Seq(S), NEW k \in 1 .. Len(s) + 1
      PROVE  InsertAt(s, k, m) \in Seq(S)
  <2>1. SubSeq(s, 1, k - 1) \in Seq(S) /\ SubSeq(s, k, Len(s)) \in Seq(S)
    BY <1>1, SubSeqProperties, LenProperties
  <2>2. <<m>> \in Seq(S)
    OBVIOUS
  <2> QED
    BY <2>1, <2>2, ConcatProperties DEF InsertAt
<1>2. ASSUME NEW s \in Seq(S), NEW r \in Arrived(s, m)
      PROVE  r \in Seq(S)
  <2>1. CASE "reordering" \in Faults
    BY <1>1, <1>2, <2>1 DEF Arrived
  <2>2. CASE "reordering" \notin Faults
    BY <1>2, <2>2 DEF Arrived
  <2> QED
    BY <2>1, <2>2
<1> QED
  BY <1>2 DEF Delivered
-----------------------------------------------------------------------------
LEMMA TypesInit == Init => Types
<1> SUFFICES ASSUME Init PROVE Types
    OBVIOUS
<1>1. ClientCount \in Nat /\ HostId \in [Conns -> Nat]
  BY DEF ConfigAssumption
<1>2. wi \in [Threads -> 0 .. ClientCount]
  BY RangeType DEF Init
<1>3. s2c \in [Conns -> Seq(Requests)] /\ c2s \in [Conns -> Seq(Responses)]
  BY DEF Init
<1>4. vote_count \in [Conns -> Nat] /\ votes_scoreboard \in [Conns -> Requests \cup Responses \cup {"lost"}]
  BY <1>1 DEF Init, Requests
<1>5. /\ votes_count \in [Threads -> Nat] /\ loaded \in [Threads -> Nat]
      /\ stats_idx \in [Threads -> Nat] /\ deleted \in [Conns -> BOOLEAN]
      /\ wpc \in [Threads -> {"top"}] /\ cpc \in [Conns -> {"phase1"}]
      /\ outcome \in [Conns -> {"none"}]
  BY DEF Init
<1>6. /\ stop_signal \in BOOLEAN /\ pause_signal \in BOOLEAN
      /\ mpc = "reset" /\ mi = 0 /\ phase = 1 /\ sent = 0 /\ total_votes = 0
      /\ result = "success" /\ status = "success" /\ requests = 0
  BY DEF Init
<1>7. TypeOK
  BY <1>1, <1>2, <1>3, <1>4, <1>5, <1>6 DEF TypeOK
<1>8. Control
  BY DEF Init, Control
<1> QED
  BY <1>7, <1>8 DEF Types

(* send_request is only given requests. *)
LEMMA PhaseMessageType == PhaseMessage \in Requests
BY DEF PhaseMessage, Requests

(* The main thread. *)
LEMMA TypesMain ==
  ASSUME Types, MainStep \/ MainTimeout \/ MainInterrupted \/ MainKilled
  PROVE  Types'
<1> USE DEF Types, TypeOK, Control, sharedVars, mainVars, workerVars, clientVars, netVars
<1>1. CASE MainReset
  <2>1. mi + 1 \in 0 .. ClientCount
    BY <1>1, ClientCountType DEF MainReset, IsSlot
  <2>2. votes_scoreboard' \in [Conns -> Requests \cup Responses \cup {"lost"}]
    BY <1>1 DEF MainReset
  <2> QED
    BY <1>1, <2>1, <2>2 DEF MainReset
<1>2. CASE MainDispatch
  BY <1>2, RealThreadCountType DEF MainDispatch, Terminate
<1>3. CASE MainBroadcast
  <2>1. s2c' \in [Conns -> Seq(Requests)]
    BY <1>3, PhaseMessageType DEF MainBroadcast
  <2> QED
    BY <1>3, <2>1, ClientCountType, RealThreadCountType DEF MainBroadcast
<1>4. CASE MainSendNext
  <2>1. CASE mi < ClientCount /\ ~stop_signal
    BY <1>4, <2>1, ClientCountType DEF MainSendNext, Conns
  <2>2. CASE ~(mi < ClientCount /\ ~stop_signal)
    BY <1>4, <2>2, ClientCountType, RealThreadCountType DEF MainSendNext
  <2> QED
    BY <2>1, <2>2
<1>5. CASE MainWrite
  <2>1. mi \in Conns /\ sent' \in 0 .. ClientCount /\ mi' \in 0 .. ClientCount /\ sent' = mi'
    BY <1>5 DEF MainWrite, Conns, ConfigAssumption
  <2>2. s2c' \in [Conns -> Seq(Requests)]
    BY <1>5, <2>1, PhaseMessageType, DeliveredType DEF MainWrite
  <2>3. ~Broadcast
    BY <1>5, <2>1 DEF MainWrite
  <2> QED
    BY <1>5, <2>1, <2>2 DEF MainWrite
<1>6. CASE MainWriteFails
  BY <1>6, RealThreadCountType DEF MainWriteFails, Terminate
<1>7. CASE MainWriteKills
  BY <1>7, RealThreadCountType DEF MainWriteKills, ServerDies
<1>8. CASE MainSum
  <2>1. votes_count[mi] \in Nat /\ mi \in Nat
    BY <1>8, RealThreadCountType DEF MainSum, Conns
  <2>2. mi + 1 < RealThreadCount => mi + 1 \in Threads /\ mi + 1 \in 0 .. ClientCount
    BY <2>1, RealThreadCountType DEF Threads, ConfigAssumption
  <2>3. total_votes + votes_count[mi] \in Nat
    BY <2>1
  <2>4. mi' \in Threads /\ mi' \in 0 .. ClientCount
    <3>1. 0 \in 0 .. ClientCount
      BY ClientCountType
    <3>2. (mi + 1 < RealThreadCount /\ mi' = mi + 1) \/ mi' = 0
      BY <1>8 DEF MainSum
    <3> QED
      BY <2>2, <3>1, <3>2, RealThreadCountType
  <2>5. total_votes' \in Nat /\ mpc' \in {"pause", "wait"} /\ (mpc' = "pause" => mi' = 0)
    BY <1>8, <2>3 DEF MainSum
  <2>6. UNCHANGED <<phase, sent, result, status, requests,
                    sharedVars, workerVars, clientVars, netVars>>
    BY <1>8 DEF MainSum
  <2> QED
    BY <2>4, <2>5, <2>6
<1>9. CASE MainPause
  BY <1>9, Zenon DEF MainPause
<1>10. CASE MainScan
  <2>1. Judge(mi) \in {"success", "fail", "cluster_fail", "violation"}
    BY DEF Judge, Judge1, Judge2
  <2> QED
    BY <1>10, <2>1 DEF MainScan, Terminate, IsSlot, ConfigAssumption
<1>11. CASE MainScanEnd
  BY <1>11, RealThreadCountType DEF MainScanEnd
<1>12. CASE MainClear
  <2>1. votes_count' \in [Threads -> Nat]
    BY <1>12 DEF MainClear
  <2>2. mi + 1 \in 0 .. ClientCount
    BY <1>12, RealThreadCountType DEF MainClear, ConfigAssumption
  <2> QED
    BY <1>12, <2>1, <2>2 DEF MainClear
<1>13. CASE MainUnpause
  <2>1. /\ mi' = 0 /\ sent' \in {0, sent} /\ pause_signal' \in BOOLEAN
        /\ phase' \in {phase, 2} /\ status' \in {status, result}
        /\ mpc' \in {"reset", "term", "loop"}
        /\ mpc' = "reset" => sent' = 0
    BY <1>13 DEF MainUnpause, Terminate
  <2>2. UNCHANGED <<votes_scoreboard, votes_count, stop_signal, deleted, total_votes, result,
                    requests, workerVars, clientVars, netVars>>
    BY <1>13 DEF MainUnpause
  <2> QED
    BY <2>1, <2>2, ClientCountType
<1>14. CASE MainLoop
  <2>1. /\ sent' \in {0, sent} /\ phase' \in {1, phase} /\ status' \in {"success", status}
        /\ requests' \in {requests, requests + 1}
        /\ mpc' \in {"reset", "term"}
        /\ mpc' = "reset" => sent' = 0
    BY <1>14 DEF MainLoop, Terminate
  <2>2. UNCHANGED <<mi, total_votes, result, sharedVars, workerVars, clientVars, netVars>>
    BY <1>14 DEF MainLoop
  <2> QED
    BY <2>1, <2>2, ClientCountType
<1>15. CASE MainTerm
  BY <1>15, RealThreadCountType DEF MainTerm
<1>16. CASE MainJoin
  BY <1>16, RealThreadCountType DEF MainJoin
<1>17. CASE MainTimeout
  BY <1>17, RealThreadCountType DEF MainTimeout
<1>18. CASE MainInterrupted
  BY <1>18, RealThreadCountType DEF MainInterrupted, Terminate
<1>19. CASE MainKilled
  BY <1>19, RealThreadCountType DEF MainKilled, ServerDies
<1> QED
  BY <1>1, <1>2, <1>3, <1>4, <1>5, <1>6, <1>7, <1>8, <1>9, <1>10, <1>11, <1>12, <1>13, <1>14, <1>15, <1>16, <1>17, <1>18, <1>19 DEF MainStep

(* The workers. *)
LEMMA TypesWorker ==
  ASSUME Types, NEW t \in Threads, WorkerStep(t)
  PROVE  Types'
<1> USE DEF Types, TypeOK, Control, sharedVars, mainVars, workerVars, clientVars, netVars
<1>1. CASE WorkerTop(t)
  BY <1>1, RangeType DEF WorkerTop
<1>2. CASE WorkerGate(t)
  BY <1>2, RangeType DEF WorkerGate
<1>3. CASE WorkerPaused(t)
  BY <1>3, RangeType DEF WorkerPaused
<1>4. CASE WorkerRecord(t)
  <2>1. wi[t] \in Conns
    BY <1>4, RangeType DEF WorkerRecord, Conns, ConfigAssumption
  <2>2. c2s[wi[t]] \in Seq(Responses) /\ c2s[wi[t]] # <<>>
    BY <1>4, <2>1 DEF WorkerRecord, ReadSays, TcpRead, UdpRead, QjRead
  <2>3. Head(c2s[wi[t]]) \in Responses /\ Tail(c2s[wi[t]]) \in Seq(Responses)
    BY <2>2, HeadTailProperties
  <2>4. votes_scoreboard' \in [Conns -> Requests \cup Responses \cup {"lost"}]
    BY <1>4, <2>1, <2>3 DEF WorkerRecord
  <2>5. c2s' \in [Conns -> Seq(Responses)]
    BY <1>4, <2>1, <2>3 DEF WorkerRecord
  <2>6. /\ wpc' = [wpc EXCEPT ![t] = "load"]
        /\ UNCHANGED <<votes_count, stop_signal, pause_signal, deleted, wi, loaded, stats_idx, s2c,
                       mainVars, clientVars>>
    BY <1>4 DEF WorkerRecord
  <2>7. TypeOK'
    BY <2>4, <2>5, <2>6
  <2>8. Control'
    <3>1. \A u \in Threads : wpc'[u] \in {"load", "store", "stats"} => wi'[u] \in Conns
      BY <2>1, <2>6
    <3> QED
      BY <2>6, <3>1
  <2> QED
    BY <2>7, <2>8
<1>5. CASE WorkerAgain(t)
  BY <1>5, RangeType DEF WorkerAgain
<1>6. CASE WorkerFin(t)
  BY <1>6, RangeType DEF WorkerFin
<1>7. CASE WorkerDies(t)
  BY <1>7, RangeType DEF WorkerDies, ServerDies
<1>8. CASE WorkerPassEnd(t)
  BY <1>8, RangeType DEF WorkerPassEnd
<1>9. CASE WorkerLoad(t)
  BY <1>9, RangeType DEF WorkerLoad
<1>10. CASE WorkerStore(t)
  <2>1. Incremented(loaded[t]) \in Nat
    BY DEF Incremented
  <2> QED
    BY <1>10, <2>1 DEF WorkerStore
<1>11. CASE WorkerStats(t)
  <2>1. wi[t] \in 0 .. ClientCount - 1 /\ stats_idx[t] + 1 \in Nat
    BY <1>11 DEF WorkerStats, Conns
  <2>2. wi[t] + 1 \in 0 .. ClientCount /\ Lo(t) \in 0 .. ClientCount
    BY <2>1, RangeType DEF ConfigAssumption
  <2>3. wi' \in [Threads -> 0 .. ClientCount]
    <3>1. \E n \in 0 .. ClientCount : wi' = [wi EXCEPT ![t] = n]
      BY <1>11, <2>2 DEF WorkerStats
    <3> QED
      BY <3>1
  <2>4. stats_idx' \in [Threads -> Nat]
    BY <1>11, <2>1 DEF WorkerStats
  <2>5. stop_signal' \in BOOLEAN /\ \E pc \in {"top", "poll"} : wpc' = [wpc EXCEPT ![t] = pc]
    BY <1>11 DEF WorkerStats
  <2>6. TypeOK'
    BY <1>11, <2>3, <2>4, <2>5 DEF WorkerStats
  <2>7. ASSUME NEW u \in Threads, wpc'[u] \in {"load", "store", "stats"}
        PROVE  wi'[u] \in Conns
    <3>1. u # t
      BY <2>5, <2>7
    <3> QED
      BY <1>11, <2>5, <2>7, <3>1 DEF WorkerStats
  <2>8. Control'
    BY <1>11, <2>7 DEF WorkerStats
  <2> QED
    BY <2>6, <2>8
<1>12. CASE WorkerCleanup(t)
  BY <1>12, RangeType DEF WorkerCleanup
<1> QED
  BY <1>1, <1>2, <1>3, <1>4, <1>5, <1>6, <1>7, <1>8, <1>9, <1>10, <1>11, <1>12 DEF WorkerStep

(* The clients. *)
LEMMA TypesClient ==
  ASSUME Types, NEW i \in Conns,
         ClientStep(i) \/ ClientTimeout(i) \/ ClientRefused(i) \/ ClientKilled(i)
  PROVE  Types'
<1> USE DEF Types, TypeOK, Control, sharedVars, mainVars, workerVars, clientVars, netVars
<1>1. CASE ClientPhase1(i)
  <2>1. Vote(vote_count[i]) \in Responses
    BY DEF Vote, Responses
  <2>2. s2c' \in [Conns -> Seq(Requests)]
    BY <1>1, HeadTailProperties DEF ClientPhase1
  <2>3. c2s' \in [Conns -> Seq(Responses)]
    BY <1>1, <2>1, DeliveredType DEF ClientPhase1
  <2> QED
    BY <1>1, <2>2, <2>3 DEF ClientPhase1
<1>2. CASE ClientPhase2(i)
  <2>1. "ack" \in Responses
    BY DEF Responses
  <2>2. s2c' \in [Conns -> Seq(Requests)]
    BY <1>2, HeadTailProperties DEF ClientPhase2
  <2>3. c2s' \in [Conns -> Seq(Responses)]
    BY <1>2, <2>1, DeliveredType DEF ClientPhase2
  <2> QED
    BY <1>2, <2>2, <2>3 DEF ClientPhase2
<1>3. CASE ClientProtocolFailure(i)
  <2>1. s2c' \in [Conns -> Seq(Requests)]
    BY <1>3, HeadTailProperties DEF ClientProtocolFailure
  <2> QED
    BY <1>3, <2>1 DEF ClientProtocolFailure, ClientExit
<1>4. CASE ClientEof(i)
  BY <1>4 DEF ClientEof, EndOfStream, ClientExit
<1>5. CASE ClientWriteFails(i)
  <2>1. s2c' \in [Conns -> Seq(Requests)]
    BY <1>5, HeadTailProperties DEF ClientWriteFails
  <2> QED
    BY <1>5, <2>1 DEF ClientWriteFails, ClientExit
<1>6. CASE ClientTimeout(i)
  BY <1>6 DEF ClientTimeout, ClientExit
<1>7. CASE ClientRefused(i)
  BY <1>7 DEF ClientRefused, ClientExit
<1>8. CASE ClientKilled(i)
  BY <1>8 DEF ClientKilled, ClientExit
<1> QED
  BY <1>1, <1>2, <1>3, <1>4, <1>5, <1>6, <1>7, <1>8 DEF ClientStep

LEMMA TypesNext == Types /\ [Next]_vars => Types'
<1> SUFFICES ASSUME Types, [Next]_vars
             PROVE  Types'
    OBVIOUS
<1>1. CASE UNCHANGED vars
  BY <1>1 DEF vars, sharedVars, mainVars, workerVars, clientVars, netVars, Types, TypeOK, Control
<1>2. CASE Next
  BY <1>2, TypesMain, TypesWorker, TypesClient DEF Next, Environment
<1> QED
  BY <1>1, <1>2

LEMMA TypesInvariant == Spec => []Types
BY TypesInit, TypesNext, PTL DEF Spec

(* Every variable keeps its type, whatever the threads, the clients and the network do. *)
THEOREM TypeCorrect == Spec => []TypeOK
<1>1. Types => TypeOK
  BY DEF Types
<1> QED
  BY <1>1, TypesInvariant, PTL

-----------------------------------------------------------------------------
(***************************************************************************)
(* Past the top of its loop a worker has room for a response, and at the   *)
(* top it has, or the stop flag is up; nobody lowers the stop flag.        *)
(***************************************************************************)
Room ==
  \A t \in Threads :
    \/ stats_idx[t] < StatsPerThread
    \/ wpc[t] \in {"cleanup", "done"}
    \/ wpc[t] = "top" /\ stop_signal

LEMMA RoomInit == Init => Room
BY DEF ConfigAssumption, Init, Room

(* The one action that fills the statistics looks at whether they are full. *)
LEMMA RoomStats ==
  ASSUME TypeOK, Room, NEW t \in Threads, WorkerStats(t)
  PROVE  Room'
<1>1. stats_idx' = [stats_idx EXCEPT ![t] = stats_idx[t] + 1]
  BY DEF WorkerStats
<1>2. CASE StatsFull(stats_idx[t] + 1)
  BY <1>1, <1>2 DEF WorkerStats, Room, TypeOK
<1>3. CASE ~StatsFull(stats_idx[t] + 1)
  <2>1. stats_idx[t] + 1 < StatsPerThread
    BY <1>3 DEF StatsFull, ConfigAssumption, TypeOK
  <2> QED
    BY <1>1, <1>3, <2>1 DEF WorkerStats, Room, TypeOK
<1> QED
  BY <1>2, <1>3

LEMMA RoomWorker ==
  ASSUME TypeOK, Room, NEW t \in Threads, WorkerStep(t)
  PROVE  Room'
<1> USE DEF Room, TypeOK
<1>1. CASE WorkerTop(t)
  BY <1>1 DEF WorkerTop, sharedVars
<1>2. CASE WorkerGate(t)
  BY <1>2 DEF WorkerGate, sharedVars
<1>3. CASE WorkerPaused(t)
  BY <1>3 DEF WorkerPaused
<1>4. CASE WorkerRecord(t)
  BY <1>4 DEF WorkerRecord
<1>5. CASE WorkerAgain(t)
  BY <1>5 DEF WorkerAgain, sharedVars
<1>6. CASE WorkerFin(t)
  BY <1>6 DEF WorkerFin
<1>7. CASE WorkerDies(t)
  BY <1>7 DEF WorkerDies, ServerDies
<1>8. CASE WorkerPassEnd(t)
  BY <1>8 DEF WorkerPassEnd, sharedVars
<1>9. CASE WorkerLoad(t)
  BY <1>9 DEF WorkerLoad, sharedVars
<1>10. CASE WorkerStore(t)
  BY <1>10 DEF WorkerStore
<1>11. CASE WorkerStats(t)
  BY <1>11, RoomStats
<1>12. CASE WorkerCleanup(t)
  BY <1>12 DEF WorkerCleanup
<1> QED
  BY <1>1, <1>2, <1>3, <1>4, <1>5, <1>6, <1>7, <1>8, <1>9, <1>10, <1>11, <1>12 DEF WorkerStep

(* The other threads and the clients leave the statistics and the workers alone, or end them all. *)
LEMMA RoomOthers ==
  ASSUME Room, Next, ~\E t \in Threads : WorkerStep(t)
  PROVE  Room'
<1>1. \/ ServerDies
      \/ UNCHANGED workerVars /\ (stop_signal => stop_signal')
  BY DEF Next, Environment, MainStep, ClientStep, sharedVars,
     MainReset, MainDispatch, MainBroadcast, MainSendNext, MainWrite, MainWriteFails,
     MainWriteKills, MainSum, MainPause, MainScan, MainScanEnd, MainClear, MainUnpause,
     MainLoop, MainTerm, MainJoin, MainTimeout, MainInterrupted, MainKilled,
     ClientPhase1, ClientPhase2, ClientProtocolFailure, ClientEof, ClientWriteFails,
     ClientTimeout, ClientRefused, ClientKilled, ClientExit
<1>2. CASE ServerDies
  BY <1>2 DEF ServerDies, Room
<1>3. CASE UNCHANGED workerVars /\ (stop_signal => stop_signal')
  BY <1>3 DEF workerVars, Room
<1> QED
  BY <1>1, <1>2, <1>3

(* A worker stops in time: it never enters a response past the end of its statistics. *)
THEOREM StatsStayInBounds == Spec => []StatsInBounds
<1>1. TypeOK /\ Room /\ [Next]_vars => Room'
  <2>1. CASE UNCHANGED vars
    BY <2>1 DEF vars, sharedVars, workerVars, Room
  <2>2. CASE Next
    BY <2>2, RoomWorker, RoomOthers
  <2> QED
    BY <2>1, <2>2
<1>2. Room => StatsInBounds
  BY DEF Room, StatsInBounds
<1> QED
  BY <1>1, <1>2, RoomInit, TypeCorrect, PTL DEF Spec
=============================================================================
