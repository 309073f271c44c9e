---------------------------- MODULE Q2PCWaitProofs ----------------------------
(***************************************************************************)
(* The server never waits for a response nobody is going to send, when no  *)
(* wait times out and nothing fails, for every number of clients and of    *)
(* workers: the safety half of "every round ends".                         *)
(***************************************************************************)
EXTENDS Q2PCSafetyProofs

USE ConfigAssumption

(* The server is gone or going. *)
LEMMA NobodyIsWaiting ==
  ASSUME mpc' \in {"term", "join", "exit"} \/ stop_signal'
  PROVE  Attended'
BY DEF Attended, Running

(* Who is there stays there. *)
LEMMA StillPresent ==
  ASSUME Present, UNCHANGED <<wpc, deleted, cpc>>
  PROVE  Present'
BY DEF Present, Alive, Exited

LEMMA StillVoted ==
  ASSUME UNCHANGED <<requests, vote_count>>
  PROVE  \A i \in Conns : Voted(i)' <=> Voted(i)
BY DEF Voted, Cast

LEMMA StillOnTheWay ==
  ASSUME UNCHANGED <<votes_scoreboard, netVars>>
  PROVE  \A i \in Conns : (Recorded(i)' <=> Recorded(i)) /\ (Empty(i)' <=> Empty(i))
BY DEF Recorded, Empty, netVars

-----------------------------------------------------------------------------
(* The main thread sends to everyone before it waits. *)
LEMMA AttendedSend ==
  ASSUME Types, Attended, Lossless, Running,
         MainDispatch \/ MainBroadcast \/ MainSendNext \/ MainWrite
  PROVE  Attended'
<1>0. Present /\ AllVoted /\ OnTheWay
  BY DEF Attended
<1>1. UNCHANGED <<wpc, deleted, cpc, requests, vote_count, phase, votes_scoreboard, c2s>>
  BY DEF MainDispatch, MainBroadcast, MainSendNext, MainWrite, sharedVars, workerVars, clientVars, netVars
<1>2. Present'
  BY <1>0, <1>1, StillPresent
<1>3. AllVoted'
  <2>1. mpc' \in {"send", "write", "wait", "term"}
    BY DEF MainDispatch, MainBroadcast, MainSendNext, MainWrite, Terminate
  <2> QED
    BY <1>0, <1>1, <2>1, StillVoted DEF AllVoted
<1>4. \A i \in Conns : Recorded(i)' <=> Recorded(i)
  BY <1>1 DEF Recorded
<1>5. CASE MainDispatch
  <2>1. mpc' # "wait" /\ sent' = 0
    BY <1>5 DEF MainDispatch, Terminate, Types, Control
  <2>2. \A i \in Conns : ~(i < sent')
    BY <2>1, ClientCountType DEF Conns
  <2> QED
    BY <1>2, <1>3, <2>1, <2>2 DEF Attended, OnTheWay
<1>6. CASE MainBroadcast
  <2>1. \A i \in Conns : s2c'[i] # <<>>
    <3>1. ASSUME NEW i \in Conns
          PROVE  s2c'[i] # <<>>
      <4>1. s2c[i] \in Seq(Requests \cup {PhaseMessage}) /\ s2c'[i] = Append(s2c[i], PhaseMessage)
        BY <1>6 DEF MainBroadcast, Types, TypeOK
      <4> QED
        BY <4>1, AppendProperties
    <3> QED
      BY <3>1
  <2>2. \A i \in Conns : ~Empty(i)'
    BY <2>1 DEF Empty
  <2> QED
    BY <1>2, <1>3, <2>2 DEF Attended, OnTheWay
<1>7. CASE MainSendNext
  <2>1. /\ mpc = "send" /\ UNCHANGED <<sent, s2c>>
        /\ mpc' = "wait" => sent = ClientCount
    BY <1>7 DEF MainSendNext, Running, Types, TypeOK, Control, netVars
  <2>2. \A i \in Conns : i < ClientCount
    BY ClientCountType DEF Conns
  <2>3. \A i \in Conns : Empty(i)' <=> Empty(i)
    BY <1>1, <2>1 DEF Empty
  <2>4. OnTheWay'
    BY <1>0, <1>4, <2>1, <2>2, <2>3 DEF OnTheWay, Coming
  <2> QED
    BY <1>2, <1>3, <2>4 DEF Attended
<1>8. CASE MainWrite
  <2>1. PICK k \in Conns : k = mi
    BY <1>8 DEF MainWrite, Types, Control
  <2>2. mpc = "write" /\ mpc' = "send" /\ k = sent /\ sent' = k + 1
    BY <1>8, <2>1 DEF MainWrite, Types, Control
  <2>3. s2c' = [s2c EXCEPT ![k] = Append(s2c[k], PhaseMessage)]
    BY <1>8, <2>1 DEF MainWrite, Delivered, Arrived, Lossless
  <2>4. s2c'[k] # <<>> /\ \A i \in Conns \ {k} : s2c'[i] = s2c[i]
    <3>1. s2c[k] \in Seq(Requests \cup {PhaseMessage})
      BY DEF Types, TypeOK
    <3>2. s2c'[k] = Append(s2c[k], PhaseMessage) /\ \A i \in Conns \ {k} : s2c'[i] = s2c[i]
      BY <2>3 DEF Types, TypeOK
    <3> QED
      BY <3>1, <3>2, AppendProperties
  <2>5. ~Empty(k)' /\ \A i \in Conns \ {k} : Empty(i)' <=> Empty(i)
    BY <1>1, <2>4 DEF Empty
  <2>6. \A i \in Conns : i < sent' => i = k \/ i < sent
    BY <2>2 DEF Conns
  <2>7. OnTheWay'
    BY <1>0, <1>4, <2>2, <2>5, <2>6 DEF OnTheWay, Coming
  <2> QED
    BY <1>2, <1>3, <2>7 DEF Attended
<1> QED
  BY <1>5, <1>6, <1>7, <1>8

(* When the counters add up, every response is in its slot, so every client has voted. *)
LEMMA VotesAreIn ==
  ASSUME TurnSafe, Safe, mpc = "pause", phase = 1
  PROVE  \A i \in Conns : Voted(i)
<1>1. \A i \in Conns : Recorded(i) /\ Ready(Slot(i))
  BY DEF TurnSafe, Settled, Ready
<1>2. \A i \in Conns : Answered(i)
  BY <1>1 DEF Safe, Scoreboard, Recorded
<1> QED
  BY <1>2 DEF Answered

LEMMA AttendedMain ==
  ASSUME Types, TurnSafe, Safe, Attended, Lossless, Running,
         MainStep \/ MainTimeout \/ MainInterrupted \/ MainKilled
  PROVE  Attended'
<1>0. Present /\ AllVoted /\ OnTheWay
  BY DEF Attended
<1>1. CASE MainDispatch \/ MainBroadcast \/ MainSendNext \/ MainWrite
  BY <1>1, AttendedSend
<1>2. CASE \/ MainWriteFails \/ MainWriteKills \/ MainTerm \/ MainJoin \/ MainInterrupted \/ MainKilled
  BY <1>2, NobodyIsWaiting DEF MainWriteFails, MainWriteKills, MainTerm, MainJoin, MainInterrupted,
     MainKilled, Terminate, ServerDies
<1>3. ~MainTimeout
  BY DEF MainTimeout, Lossless, Prompt
<1>4. CASE MainReset \/ MainSum \/ MainPause \/ MainScan \/ MainScanEnd \/ MainClear \/ MainUnpause \/ MainLoop
  <2>1. UNCHANGED <<wpc, deleted, cpc, vote_count>>
    BY <1>4 DEF MainReset, MainSum, MainPause, MainScan, MainScanEnd, MainClear, MainUnpause, MainLoop,
                sharedVars, workerVars, clientVars
  <2>2. Present'
    BY <1>0, <2>1, StillPresent
  <2>3. CASE MainSum
    <3>1. UNCHANGED <<requests, phase, sent, votes_scoreboard, netVars>> /\ mpc = "wait" /\ mpc' \in {"wait", "pause"}
      BY <2>3 DEF MainSum, sharedVars
    <3>2. AllVoted'
      BY <1>0, <2>1, <3>1, StillVoted DEF AllVoted
    <3>3. OnTheWay'
      BY <1>0, <3>1, StillOnTheWay DEF OnTheWay, Coming
    <3> QED
      BY <2>2, <3>2, <3>3 DEF Attended
  <2>4. CASE MainReset \/ MainPause \/ MainScan \/ MainScanEnd \/ MainClear
    <3>1. /\ UNCHANGED <<requests, phase>>
          /\ mpc' \in {"scan", "clear"} => mpc \in {"pause", "scan", "clear"}
          /\ mpc' \in {"reset", "scan", "clear", "term"}
      BY <2>4 DEF MainReset, MainPause, MainScan, MainScanEnd, MainClear, Terminate
    <3>2. phase \in {1, 2}
      BY DEF Types, TypeOK
    <3>3. AllVoted'
      BY <1>0, <2>1, <3>1, <3>2, StillVoted, VotesAreIn DEF AllVoted
    <3>4. OnTheWay'
      BY <3>1 DEF OnTheWay, Coming
    <3> QED
      BY <2>2, <3>3, <3>4 DEF Attended
  <2>5. CASE MainUnpause
    <3>1. UNCHANGED requests /\ mpc = "clear" /\ mpc' \in {"reset", "loop", "term"}
      BY <2>5 DEF MainUnpause, Terminate
    <3>2. AllVoted' /\ OnTheWay'
      BY <1>0, <2>1, <3>1, StillVoted DEF AllVoted, OnTheWay, Coming
    <3> QED
      BY <2>2, <3>2 DEF Attended
  <2>6. CASE MainLoop
    <3>1. mpc' = "reset" /\ phase' = 1
      BY <2>6 DEF MainLoop, Running
    <3>2. AllVoted' /\ OnTheWay'
      BY <3>1 DEF AllVoted, OnTheWay, Coming
    <3> QED
      BY <2>2, <3>2 DEF Attended
  <2> QED
    BY <1>4, <2>3, <2>4, <2>5, <2>6
<1> QED
  BY <1>1, <1>2, <1>3, <1>4 DEF MainStep

-----------------------------------------------------------------------------
(* A worker that takes a response records it; one that leaves has seen the stop flag. *)
LEMMA AttendedWorker ==
  ASSUME Types, TurnSafe, Attended, Running, NEW t \in Threads, WorkerStep(t)
  PROVE  Attended'
<1>0. Present /\ AllVoted /\ OnTheWay
  BY DEF Attended
<1>1. CASE WorkerDies(t)
  BY <1>1, NobodyIsWaiting DEF WorkerDies, ServerDies
<1>2. ~WorkerCleanup(t)
  BY <1>0 DEF WorkerCleanup, Present
<1>3. CASE ~WorkerDies(t)
  <2>1. /\ UNCHANGED <<mainVars, deleted, clientVars>>
        /\ \/ wpc' = wpc
           \/ \E pc \in {"top", "gate", "paused", "poll", "load", "store", "stats"} :
                 wpc' = [wpc EXCEPT ![t] = pc]
    BY <1>2, <1>3 DEF WorkerStep, WorkerTop, WorkerGate, WorkerPaused, WorkerRecord, WorkerAgain,
       WorkerFin, WorkerPassEnd, WorkerLoad, WorkerStore, WorkerStats, sharedVars, Running
  <2>2. Present'
    BY <1>0, <2>1 DEF Present, Alive, Exited, clientVars, Types, TypeOK
  <2>3. AllVoted'
    BY <1>0, <2>1, StillVoted DEF AllVoted, mainVars, clientVars
  <2>4. \A i \in Conns : Recorded(i) \/ ~Empty(i) => Recorded(i)' \/ ~Empty(i)'
    <3>1. CASE WorkerRecord(t)
      <4>1. PICK k \in Conns : /\ c2s[k] # <<>>
                               /\ votes_scoreboard' = [votes_scoreboard EXCEPT ![Slot(k)] = Head(c2s[k])]
                               /\ c2s' = [c2s EXCEPT ![k] = Tail(c2s[k])] /\ s2c' = s2c
        <5>1. wi[t] \in Conns
          BY <3>1, RangeType, ClientCountType DEF WorkerRecord, Types, TypeOK, Conns
        <5>2. c2s[wi[t]] # <<>>
          BY <3>1 DEF WorkerRecord, ReadSays, TcpRead, UdpRead, QjRead, ConfigAssumption
        <5> QED
          BY <3>1, <5>1, <5>2 DEF WorkerRecord
      <4>2. Head(c2s[k]) # "lost"
        <5>1. Head(c2s[k]) \in Responses
          BY <4>1, OneMessage DEF TurnSafe
        <5> QED
          BY <5>1 DEF Responses
      <4>3. /\ Recorded(k)'
            /\ \A i \in Conns \ {k} : (Recorded(i)' <=> Recorded(i)) /\ (Empty(i)' <=> Empty(i))
        BY <4>1, <4>2, SlotType DEF Recorded, Empty, Types, TypeOK
      <4> QED
        BY <4>3
    <3>2. CASE ~WorkerRecord(t)
      <4>1. UNCHANGED <<votes_scoreboard, netVars>>
        BY <1>2, <1>3, <3>2 DEF WorkerStep, WorkerTop, WorkerGate, WorkerPaused, WorkerAgain,
           WorkerFin, WorkerPassEnd, WorkerLoad, WorkerStore, WorkerStats, sharedVars
      <4> QED
        BY <4>1, StillOnTheWay
    <3> QED
      BY <3>1, <3>2
  <2>5. OnTheWay'
    BY <1>0, <2>1, <2>4 DEF OnTheWay, Coming, mainVars
  <2> QED
    BY <2>2, <2>3, <2>5 DEF Attended
<1> QED
  BY <1>1, <1>3

-----------------------------------------------------------------------------
(* No client has a reason to leave. *)
LEMMA NobodyLeaves ==
  ASSUME Types, Safe, Attended, Lossless, Running, NEW k \in Conns
  PROVE  /\ ~ClientProtocolFailure(k) /\ ~ClientEof(k) /\ ~ClientWriteFails(k)
         /\ ~ClientTimeout(k) /\ ~ClientRefused(k) /\ ~ClientKilled(k)
<1>0. Alive(k) /\ ~deleted[k] /\ AllVoted
  BY DEF Attended, Present
<1>1. ~ClientProtocolFailure(k)
  <2>1. SUFFICES ASSUME ClientProtocolFailure(k) PROVE FALSE
    OBVIOUS
  <2>2. /\ s2c[k] # <<>>
        /\ \/ cpc[k] = "phase1" /\ Head(s2c[k]) # "request"
           \/ cpc[k] = "phase2" /\ Head(s2c[k]) = "request"
    BY <2>1 DEF ClientProtocolFailure
  <2>3. Idle(k) \/ Waiting(k) \/ Knows(k)
    BY DEF Safe, Clients
  <2>4. CASE Idle(k)
    <3>1. phase # 2 \/ ~NotYet(k)
      <4>1. ~(Voted(k) /\ NotYet(k))
        BY DEF Voted, NotYet, Types, TypeOK
      <4> QED
        BY <1>0, <4>1 DEF AllVoted
    <3>2. phase # 2 /\ cpc[k] = "phase1"
      BY <1>0, <2>4, <3>1 DEF Idle
    <3>3. s2c[k] = <<"request">>
      BY <1>0, <2>2, <2>4, <3>2 DEF Idle
    <3> QED
      BY <2>2, <3>2, <3>3
  <2>5. CASE Waiting(k)
    <3>1. cpc[k] = "phase2" /\ s2c[k] = <<Verdict>>
      BY <1>0, <2>2, <2>5 DEF Waiting
    <3>2. Head(<<Verdict>>) = Verdict /\ Verdict # "request"
      BY ShortQueues DEF Verdict
    <3> QED
      BY <2>2, <3>1, <3>2
  <2>6. CASE Knows(k)
    BY <1>0, <2>2, <2>6 DEF Knows
  <2> QED
    BY <2>3, <2>4, <2>5, <2>6
<1> QED
  BY <1>0, <1>1 DEF ClientEof, EndOfStream, ClientWriteFails, MayBeClosed, ClientTimeout, GivesUp,
     ClientRefused, ClientKilled, Lossless, Prompt

(* A client that takes a message answers it. *)
LEMMA AttendedClient ==
  ASSUME Types, Safe, Attended, Lossless, Running, NEW k \in Conns,
         ClientStep(k) \/ ClientTimeout(k) \/ ClientRefused(k) \/ ClientKilled(k)
  PROVE  Attended'
<1>0. Present /\ AllVoted /\ OnTheWay
  BY DEF Attended
<1>1. ClientPhase1(k) \/ ClientPhase2(k)
  BY NobodyLeaves DEF ClientStep
<1>2. UNCHANGED <<mainVars, deleted, wpc, votes_scoreboard, stop_signal>>
  BY <1>1 DEF ClientPhase1, ClientPhase2, sharedVars, workerVars
<1>3. Present'
  <2>1. \E pc \in {"phase1", "phase2"} : cpc' = [cpc EXCEPT ![k] = pc]
    BY <1>1 DEF ClientPhase1, ClientPhase2
  <2> QED
    BY <1>0, <1>2, <2>1 DEF Present, Alive, Exited, Types, TypeOK
<1>4. AllVoted'
  <2>1. CASE ClientPhase2(k)
    BY <1>0, <1>2, <2>1, StillVoted DEF ClientPhase2, AllVoted, mainVars
  <2>2. CASE ClientPhase1(k)
    <3>1. NotYet(k)
      BY <2>2, VoterIsIdle DEF Idle
    <3>2. ~Voted(k)
      <4>1. requests \in Nat
        BY DEF Types, TypeOK
      <4> QED
        BY <3>1, <4>1 DEF NotYet, Voted
    <3> QED
      BY <1>0, <1>2, <3>2 DEF AllVoted, mainVars
  <2> QED
    BY <1>1, <2>1, <2>2
<1>5. OnTheWay'
  <2>1. PICK m \in Responses : c2s' = [c2s EXCEPT ![k] = Append(c2s[k], m)]
    <3>1. CASE ClientPhase1(k)
      BY <3>1 DEF ClientPhase1, Vote, Responses, Delivered, Arrived, Lossless
    <3>2. CASE ClientPhase2(k)
      BY <3>2 DEF ClientPhase2, Responses, Delivered, Arrived, Lossless
    <3> QED
      BY <1>1, <3>1, <3>2
  <2>2. c2s[k] \in Seq(Responses) /\ c2s'[k] = Append(c2s[k], m)
    BY <2>1 DEF Types, TypeOK
  <2>3. c2s'[k] # <<>>
    BY <2>2, AppendProperties
  <2>4. \A i \in Conns \ {k} : s2c'[i] = s2c[i] /\ c2s'[i] = c2s[i]
    BY <1>1, <2>1 DEF ClientPhase1, ClientPhase2, Types, TypeOK
  <2>5. ~Empty(k)' /\ \A i \in Conns \ {k} : Empty(i)' <=> Empty(i)
    BY <2>3, <2>4 DEF Empty
  <2>6. \A i \in Conns : Recorded(i)' <=> Recorded(i)
    BY <1>2 DEF Recorded
  <2> QED
    BY <1>0, <1>2, <2>5, <2>6 DEF OnTheWay, Coming, mainVars
<1> QED
  BY <1>3, <1>4, <1>5 DEF Attended

-----------------------------------------------------------------------------
(* Nobody takes the stop flag down, and a server that is leaving does not come back. *)
LEMMA StopsForGood == ~Running /\ [Next]_vars => ~Running'
<1> SUFFICES ASSUME ~Running, [Next]_vars PROVE ~Running'
  OBVIOUS
<1>1. CASE UNCHANGED vars
  BY <1>1 DEF vars, sharedVars, mainVars, Running
<1>2. CASE MainTerm
  BY <1>2 DEF MainTerm, Running
<1>3. CASE \/ MainReset \/ MainDispatch \/ MainBroadcast \/ MainSendNext \/ MainWrite \/ MainWriteFails
           \/ MainWriteKills \/ MainSum \/ MainScan \/ MainScanEnd \/ MainLoop \/ MainJoin
           \/ MainTimeout \/ MainInterrupted \/ MainKilled
  BY <1>3 DEF MainReset, MainDispatch, MainBroadcast, MainSendNext, MainWrite, MainWriteFails,
              MainWriteKills, MainSum, MainScan, MainScanEnd, MainLoop, MainJoin, MainTimeout,
              MainInterrupted, MainKilled, ServerDies, Terminate, sharedVars, Running
<1>4. CASE MainPause \/ MainClear \/ MainUnpause
  <2>1. stop_signal' = stop_signal /\ mpc \in {"pause", "clear"}
    BY <1>4 DEF MainPause, MainClear, MainUnpause
  <2> QED
    BY <2>1 DEF Running
<1>5. CASE \E t \in Threads : WorkerStep(t)
  <2>1. (mpc' = mpc \/ mpc' = "exit") /\ (stop_signal => stop_signal')
    <3>1. PICK t \in Threads : WorkerStep(t)
      BY <1>5
    <3>2. CASE WorkerFin(t) \/ WorkerStats(t)
      <4>1. mpc' = mpc
        BY <3>2 DEF WorkerFin, WorkerStats, mainVars
      <4>2. stop_signal => stop_signal'
        BY <3>2, Zenon DEF WorkerFin, WorkerStats
      <4> QED
        BY <4>1, <4>2
    <3>3. CASE ~WorkerFin(t) /\ ~WorkerStats(t)
      BY <3>1, <3>3 DEF WorkerStep, WorkerTop, WorkerGate, WorkerPaused, WorkerRecord, WorkerAgain,
         WorkerDies, WorkerPassEnd, WorkerLoad, WorkerStore, WorkerCleanup,
         ServerDies, sharedVars, mainVars
    <3> QED
      BY <3>2, <3>3
  <2> QED
    BY <2>1 DEF Running
<1>6. CASE \E i \in Conns : ClientStep(i) \/ ClientTimeout(i) \/ ClientRefused(i) \/ ClientKilled(i)
  BY <1>6 DEF ClientStep, ClientPhase1, ClientPhase2, ClientProtocolFailure, ClientEof, ClientWriteFails,
              ClientTimeout, ClientRefused, ClientKilled, ClientExit, sharedVars, mainVars, Running
<1> QED
  BY <1>1, <1>2, <1>3, <1>4, <1>5, <1>6 DEF Next, Environment, MainStep

LEMMA AttendedInit == Init => Attended
<1> SUFFICES ASSUME Init PROVE Attended
  OBVIOUS
<1>1. Present
  BY DEF Init, Present, Alive, Exited
<1> QED
  BY <1>1 DEF Init, Attended, AllVoted, OnTheWay, Coming

LEMMA AttendedNext ==
  ASSUME Types, TurnSafe, Safe, Attended, Lossless, [Next]_vars
  PROVE  Attended'
<1>1. CASE ~Running
  BY <1>1, StopsForGood DEF Attended
<1>2. CASE Running /\ UNCHANGED vars
  <2>1. Present /\ AllVoted /\ OnTheWay
    BY <1>2 DEF Attended
  <2>2. UNCHANGED <<mpc, phase, sent, requests, wpc, deleted, cpc, vote_count, votes_scoreboard, netVars>>
    BY <1>2 DEF vars, sharedVars, mainVars, workerVars, clientVars
  <2>3. Present' /\ AllVoted' /\ OnTheWay'
    BY <2>1, <2>2, StillPresent, StillVoted, StillOnTheWay DEF AllVoted, OnTheWay, Coming
  <2> QED
    BY <2>3 DEF Attended
<1>3. CASE Running /\ Next
  BY <1>3, AttendedMain, AttendedWorker, AttendedClient DEF Next, Environment
<1> QED
  BY <1>1, <1>2, <1>3

(***************************************************************************)
(* When no wait times out and nothing is lost, repeated or killed, the     *)
(* server never waits for a response nobody is going to send: as long as   *)
(* a slot of the scoreboard is empty the request, the decision or the      *)
(* response is on that client's connection.  With CountsStayExact: while   *)
(* a round lasts somebody has a message to read, a response to count or a  *)
(* sum to finish.                                                          *)
(***************************************************************************)
THEOREM ResponsesKeepComing == Lossless => (Spec => []ResponsesAreComing)
<1> SUFFICES ASSUME Lossless PROVE Spec => []ResponsesAreComing
  OBVIOUS
<1>1. Prompt /\ Tame
  BY DEF Lossless, Tame
<1>2. Spec => []TurnsInv
  BY <1>1, TurnsInvariant
<1>3. Spec => []IInv
  BY <1>1, IInvInvariant
<1>4. TurnsInv /\ IInv /\ Attended /\ [Next]_vars => Attended'
  BY AttendedNext, IInvIsSafe DEF TurnsInv
<1>5. Attended => ResponsesAreComing
  BY DEF Attended, Running, OnTheWay, Coming, Empty, ResponsesAreComing
<1> QED
  BY AttendedInit, <1>2, <1>3, <1>4, <1>5, PTL DEF Spec
=============================================================================
