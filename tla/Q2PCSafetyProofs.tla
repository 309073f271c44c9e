-------------------------- MODULE Q2PCSafetyProofs --------------------------
(***************************************************************************)
(* Atomic commitment over a tame network (TCP, Q-Jump, UDP that only loses *)
(* datagrams, or one that also reorders them when no wait times out), for  *)
(* every number of clients and of workers: the invariant of Q2PCInductive, *)
(* with that of Q2PCTurns where messages may be reordered, is inductive.   *)
(***************************************************************************)
EXTENDS Q2PCTurnsProofs

USE ConfigAssumption

(* The invariant without its types. *)
Safe ==
  /\ Clients
  /\ Scoreboard
  /\ Scanned
  /\ Decision
  /\ Vouched
  /\ CancelValid

LEMMA IInvIsSafe == IInv <=> Types /\ Safe
BY DEF IInv, Safe

(* What Clients, Vouched and CancelValid are about, but for the stop flag. *)
core == <<phase, sent, status, requests, clientVars, netVars>>

-----------------------------------------------------------------------------
(* Queues of at most two messages. *)
LEMMA ShortQueues ==
  ASSUME NEW a, NEW b
  PROVE  /\ Append(<<>>, a) = <<a>>
         /\ Append(<<a>>, b) = <<a, b>>
         /\ Head(<<a>>) = a /\ Tail(<<a>>) = <<>> /\ <<a>> # <<>>
         /\ Head(<<a, b>>) = a /\ Tail(<<a, b>>) = <<b>> /\ <<a, b>> # <<>>
<1>1. Append(<<>>, a) = <<a>>
  OBVIOUS
<1>2. Append(<<a>>, b) = <<a, b>>
  <2>1. <<a>> \in Seq({a, b}) /\ <<a, b>> \in Seq({a, b}) /\ Len(<<a>>) = 1 /\ Len(<<a, b>>) = 2
    OBVIOUS
  <2>2. /\ Append(<<a>>, b) \in Seq({a, b}) /\ Len(Append(<<a>>, b)) = 2
        /\ Append(<<a>>, b)[1] = a /\ Append(<<a>>, b)[2] = b
    BY <2>1, AppendProperties
  <2>3. \A k \in 1 .. 2 : Append(<<a>>, b)[k] = <<a, b>>[k]
    BY <2>2
  <2> QED
    BY <2>1, <2>2, <2>3, SeqEqual
<1>3. Head(<<a>>) = a /\ Head(<<a, b>>) = a
  OBVIOUS
<1>4. Tail(<<a>>) = <<>>
  OBVIOUS
<1>5. Tail(<<a, b>>) = <<b>>
  OBVIOUS
<1>6. <<a>> # <<>> /\ <<a, b>> # <<>>
  OBVIOUS
<1> QED
  BY <1>1, <1>2, <1>3, <1>4, <1>5, <1>6

(* Messages keep their order: the network keeps it, or there is never a second one. *)
InOrder == Orderly \/ (Prompt /\ TurnSafe)

(* A message is appended or lost, also on a network that reorders when the queue is empty. *)
LEMMA InOrderDelivery ==
  ASSUME NEW queue, Orderly \/ (Prompt /\ queue = <<>>), NEW m, NEW q \in Delivered(queue, m)
  PROVE  q = Append(queue, m) \/ q = queue
<1>1. CASE Orderly
  BY <1>1 DEF Orderly, Delivered, Arrived
<1>2. CASE Prompt /\ queue = <<>>
  BY <1>2, PromptDelivery, ShortQueues
<1> QED
  BY <1>1, <1>2

LEMMA CoreFrame ==
  ASSUME UNCHANGED core, stop_signal => stop_signal', Clients, Vouched, CancelValid
  PROVE  Clients' /\ Vouched' /\ CancelValid' /\ (AllYes <=> AllYes') /\ (SomeNo <=> SomeNo')
         /\ \A i \in Conns : Answered(i) <=> Answered(i)'
<1> USE DEF core, clientVars, netVars, NotYet, Voted, Cast, Verdict
<1>1. Clients'
  BY DEF Clients, Idle, Waiting, Knows, MyVote, YesIn, Alive, Exited
<1>2. Vouched' /\ CancelValid'
  BY DEF Vouched, Broadcast, CommitValid, CancelValid
<1>3. (AllYes <=> AllYes') /\ (SomeNo <=> SomeNo')
  BY DEF AllYes, SomeNo
<1>4. \A i \in Conns : Answered(i) <=> Answered(i)'
  BY DEF Answered
<1> QED
  BY <1>1, <1>2, <1>3, <1>4

-----------------------------------------------------------------------------
(* A step that touches nothing the invariant speaks of, except for raising the stop flag. *)
LEMMA Quiet ==
  ASSUME Safe, UNCHANGED <<mainVars, clientVars, netVars, votes_scoreboard>>,
         stop_signal => stop_signal'
  PROVE  Safe'
<1>1. UNCHANGED core /\ UNCHANGED <<mpc, mi, result>>
  BY DEF core, mainVars
<1>2. /\ Clients' /\ Vouched' /\ CancelValid' /\ (AllYes <=> AllYes') /\ (SomeNo <=> SomeNo')
      /\ \A i \in Conns : Answered(i) <=> Answered(i)'
  BY <1>1, CoreFrame DEF Safe
<1>3. Scoreboard'
  BY <1>1, <1>2 DEF Safe, Scoreboard, Ready, MyVote, core
<1>4. Scanned'
  BY <1>1, <1>2 DEF Safe, Scanned, core
<1>5. Decision'
  BY <1>1, <1>2 DEF Safe, Decision, Unread, Broadcast, core
<1> QED
  BY <1>2, <1>3, <1>4, <1>5 DEF Safe

(* The server leaves its rounds for good. *)
LEMMA Ended ==
  ASSUME Safe, UNCHANGED core, mpc' \in {"term", "join", "exit"}, stop_signal => stop_signal'
  PROVE  Safe'
<1>1. /\ Clients' /\ Vouched' /\ CancelValid' /\ (AllYes <=> AllYes') /\ (SomeNo <=> SomeNo')
  BY CoreFrame DEF Safe
<1>2. Scoreboard'
  BY DEF Scoreboard, Ready
<1>3. Scanned'
  BY DEF Scanned
<1>4. Decision'
  BY <1>1 DEF Safe, Decision, Unread, Broadcast, core
<1> QED
  BY <1>1, <1>2, <1>3, <1>4 DEF Safe

-----------------------------------------------------------------------------
(* The steps of the main thread that leave the clients and their round alone. *)
LEMMA SafeReset ==
  ASSUME Types, Safe, MainReset
  PROVE  Safe'
<1>1. /\ mpc = "reset" /\ mi < ClientCount /\ mi' = mi + 1 /\ mi \in Nat
      /\ votes_scoreboard' = [votes_scoreboard EXCEPT ![mi] = "lost"]
      /\ UNCHANGED <<core, mpc, result, stop_signal>>
  BY DEF MainReset, IsSlot, core, Types, TypeOK
<1>2. /\ Clients' /\ Vouched' /\ CancelValid' /\ (AllYes <=> AllYes') /\ (SomeNo <=> SomeNo')
      /\ \A i \in Conns : Answered(i) <=> Answered(i)'
  BY <1>1, CoreFrame DEF Safe
<1>3. Scoreboard'
  <2>1. ASSUME NEW i \in Conns, Ready(Slot(i))'
        PROVE  votes_scoreboard'[Slot(i)] = "lost" \/ (Ready(Slot(i)) /\ UNCHANGED votes_scoreboard[Slot(i)])
    <3>1. Slot(i) \in Conns /\ Slot(i) \in Nat /\ Slot(i) < mi + 1
      BY <1>1, <2>1, SlotType DEF Ready, Conns
    <3>2. CASE Slot(i) = mi
      BY <1>1, <3>1, <3>2 DEF Types, TypeOK
    <3>3. CASE Slot(i) # mi
      BY <1>1, <3>1, <3>3 DEF Ready, Types, TypeOK
    <3> QED
      BY <3>2, <3>3
  <2> QED
    BY <1>1, <1>2, <2>1 DEF Safe, Scoreboard, MyVote, core
<1>4. Scanned'
  BY <1>1 DEF Scanned
<1>5. Decision'
  BY <1>1, <1>2 DEF Safe, Decision, Unread, Broadcast, core
<1> QED
  BY <1>2, <1>3, <1>4, <1>5 DEF Safe

LEMMA SafeDispatch ==
  ASSUME Types, Safe, MainDispatch
  PROVE  Safe'
<1>1. /\ mpc = "reset" /\ mi = ClientCount
      /\ UNCHANGED <<core, votes_scoreboard, result, stop_signal>>
      /\ mpc' = "term" \/ (mpc' = "send" /\ (phase = 2 => status # "cluster_fail"))
  BY DEF MainDispatch, Terminate, HasDecision, core, sharedVars
<1>2. CASE mpc' = "term"
  BY <1>1, <1>2, Ended
<1>3. CASE mpc' = "send" /\ (phase = 2 => status # "cluster_fail")
  <2>1. /\ Clients' /\ Vouched' /\ CancelValid' /\ (AllYes <=> AllYes') /\ (SomeNo <=> SomeNo')
        /\ \A i \in Conns : Answered(i) <=> Answered(i)'
    BY <1>1, CoreFrame DEF Safe
  <2>2. \A i \in Conns : Ready(Slot(i))
    BY <1>1, SlotType, ClientCountType DEF Ready, Conns
  <2>3. Scoreboard'
    BY <1>1, <2>1, <2>2 DEF Safe, Scoreboard, MyVote, core
  <2>4. Scanned'
    BY <1>3 DEF Scanned
  <2>5. Decision'
    BY <1>1, <1>3, <2>1 DEF Safe, Decision, Unread, Broadcast, core
  <2> QED
    BY <2>1, <2>3, <2>4, <2>5 DEF Safe
<1> QED
  BY <1>1, <1>2, <1>3

(* Between the reset and the pause: the scoreboard is ready, the scan has not begun. *)
LEMMA SafeWaiting ==
  ASSUME Safe, UNCHANGED <<core, votes_scoreboard, stop_signal>>,
         mpc \in {"send", "wait"}, mpc' \in {"send", "write", "wait", "pause"},
         mpc' = "write" => ~stop_signal
  PROVE  Safe'
<1>1. /\ Clients' /\ Vouched' /\ CancelValid' /\ (AllYes <=> AllYes') /\ (SomeNo <=> SomeNo')
      /\ \A i \in Conns : Answered(i) <=> Answered(i)'
  BY CoreFrame DEF Safe
<1>2. Scoreboard'
  BY <1>1 DEF Safe, Scoreboard, Ready, MyVote, core
<1>3. Scanned'
  BY DEF Scanned
<1>4. Decision'
  BY <1>1 DEF Safe, Decision, Unread, Broadcast, core
<1> QED
  BY <1>1, <1>2, <1>3, <1>4 DEF Safe

LEMMA SafePause ==
  ASSUME Types, Safe, MainPause
  PROVE  Safe'
<1>1. /\ mpc = "pause" /\ mpc' = "scan" /\ mi' = 0 /\ result' = "success"
      /\ UNCHANGED <<core, votes_scoreboard, stop_signal>>
  BY Zenon DEF MainPause, core, Types, Control
<1>2. /\ Clients' /\ Vouched' /\ CancelValid' /\ (AllYes <=> AllYes') /\ (SomeNo <=> SomeNo')
      /\ \A i \in Conns : Answered(i) <=> Answered(i)'
  BY <1>1, CoreFrame DEF Safe
<1>3. Scoreboard'
  BY <1>1, <1>2 DEF Safe, Scoreboard, Ready, MyVote, core
<1>4. Scanned'
  <2>1. \A i \in Conns : ~(Slot(i) < 0)
    BY SlotType, ClientCountType DEF Conns
  <2> QED
    BY <1>1, <2>1 DEF Scanned
<1>5. Decision'
  BY <1>1, <1>2 DEF Safe, Decision, Unread, Broadcast, core
<1> QED
  BY <1>2, <1>3, <1>4, <1>5 DEF Safe

LEMMA SafeScanEnd ==
  ASSUME Types, Safe, MainScanEnd
  PROVE  Safe'
<1>1. /\ mpc = "scan" /\ mpc' = "clear" /\ (mi = ClientCount \/ stop_signal)
      /\ UNCHANGED <<core, votes_scoreboard, result, stop_signal>>
  BY DEF MainScanEnd, core, sharedVars
<1>2. /\ Clients' /\ Vouched' /\ CancelValid' /\ (AllYes <=> AllYes') /\ (SomeNo <=> SomeNo')
      /\ \A i \in Conns : Answered(i) <=> Answered(i)'
  BY <1>1, CoreFrame DEF Safe
<1>3. Scoreboard'
  BY <1>1, <1>2 DEF Safe, Scoreboard, Ready, MyVote, core
<1>4. Scanned'
  <2>1. \A i \in Conns : Slot(i) < ClientCount
    BY SlotType, ClientCountType DEF Conns
  <2> QED
    BY <1>1, <1>2, <2>1 DEF Safe, Scanned, core
<1>5. Decision'
  BY <1>1, <1>2 DEF Safe, Decision, Unread, Broadcast, core
<1> QED
  BY <1>2, <1>3, <1>4, <1>5 DEF Safe

LEMMA SafeClear ==
  ASSUME Safe, MainClear
  PROVE  Safe'
<1>1. /\ mpc = "clear" /\ mpc' = mpc
      /\ UNCHANGED <<core, votes_scoreboard, result, stop_signal>>
  BY DEF MainClear, core
<1>2. /\ Clients' /\ Vouched' /\ CancelValid' /\ (AllYes <=> AllYes') /\ (SomeNo <=> SomeNo')
      /\ \A i \in Conns : Answered(i) <=> Answered(i)'
  BY <1>1, CoreFrame DEF Safe
<1>3. Scoreboard'
  BY <1>1, <1>2 DEF Safe, Scoreboard, Ready, MyVote, core
<1>4. Scanned'
  BY <1>1, <1>2 DEF Safe, Scanned, core
<1>5. Decision'
  BY <1>1, <1>2 DEF Safe, Decision, Unread, Broadcast, core
<1> QED
  BY <1>2, <1>3, <1>4, <1>5 DEF Safe

(* The scan takes slot mi into its result. *)
LEMMA SafeScan ==
  ASSUME Types, Safe, MainScan
  PROVE  Safe'
<1>1. CASE Judge(mi) = "violation"
  <2>1. UNCHANGED <<core, stop_signal>> /\ mpc' = "term"
    BY <1>1 DEF MainScan, Terminate, core, sharedVars
  <2> QED
    BY <2>1, Ended
<1>2. CASE Judge(mi) # "violation"
  <2>1. /\ mpc = "scan" /\ mpc' = "scan" /\ ~stop_signal
        /\ mi \in Nat /\ mi < ClientCount /\ mi' = mi + 1 /\ result' = Judge(mi)
        /\ UNCHANGED <<core, votes_scoreboard, stop_signal>>
    BY <1>2 DEF MainScan, IsSlot, core, sharedVars, Types, TypeOK
  <2>2. /\ Clients' /\ Vouched' /\ CancelValid' /\ (AllYes <=> AllYes') /\ (SomeNo <=> SomeNo')
        /\ \A i \in Conns : Answered(i) <=> Answered(i)'
    BY <2>1, CoreFrame DEF Safe
  <2>3. Scoreboard'
    BY <2>1, <2>2 DEF Safe, Scoreboard, Ready, MyVote, core
  <2>4. PICK k \in Conns : Slot(k) = mi
    BY <2>1, SlotOwned, ClientCountType DEF Conns
  <2>5. IF phase = 1
        THEN \/ votes_scoreboard[mi] = "lost"
             \/ votes_scoreboard[mi] = MyVote(k) /\ Answered(k)
        ELSE \/ votes_scoreboard[mi] \in {"lost", "vote_yes", "vote_no"}
             \/ votes_scoreboard[mi] = "ack" /\ Answered(k)
    BY <2>1, <2>4 DEF Safe, Scoreboard, Ready
  <2>6. IF phase = 1 THEN result' = "fail" => SomeNo ELSE result' # "fail"
    <3>1. CASE phase = 1
      <4>1. \/ result' = result
            \/ result' = "cluster_fail"
            \/ result' = "fail" /\ votes_scoreboard[mi] = "vote_no"
        BY <1>2, <2>1, <3>1 DEF Judge, Judge1
      <4>2. votes_scoreboard[mi] = "vote_no" => SomeNo
        BY <2>5, <3>1 DEF MyVote, SomeNo, Answered
      <4> QED
        BY <2>1, <3>1, <4>1, <4>2 DEF Safe, Scanned
    <3>2. CASE phase # 1
      BY <2>1, <3>2 DEF Judge, Judge2, Safe, Scanned
    <3> QED
      BY <3>1, <3>2
  <2>7. result' = "success" => result = "success" /\ Answered(k) /\ (phase = 1 => YesIn(k, requests))
    <3>1. CASE phase = 1
      BY <1>2, <2>1, <2>5, <3>1 DEF Judge, Judge1, MyVote
    <3>2. CASE phase # 1
      BY <2>1, <2>5, <3>2 DEF Judge, Judge2
    <3> QED
      BY <3>1, <3>2
  <2>8. ASSUME result' = "success", NEW i \in Conns, Slot(i) < mi + 1
        PROVE  Answered(i) /\ (phase = 1 => YesIn(i, requests))
    <3>1. Slot(i) < mi \/ i = k
      BY <2>1, <2>4, <2>8, SlotType DEF Conns
    <3> QED
      BY <2>1, <2>7, <2>8, <3>1 DEF Safe, Scanned
  <2>9. Scanned'
    BY <2>1, <2>2, <2>6, <2>8 DEF Scanned, core, YesIn
  <2>10. Decision'
    BY <2>1, <2>2 DEF Safe, Decision, Unread, Broadcast, core
  <2> QED
    BY <2>2, <2>3, <2>9, <2>10 DEF Safe
<1> QED
  BY <1>1, <1>2

-----------------------------------------------------------------------------
(* The steps of the main thread that move the clients' round. *)

(* send_request writes to the connection of client mi = sent. *)
LEMMA SafeWrite ==
  ASSUME Types, Safe, InOrder, MainWrite
  PROVE  Safe'
<1>0. PICK k \in Conns : k = mi
  BY DEF MainWrite, Types, Control
<1>1. /\ mpc = "write" /\ mpc' = "send" /\ k = sent /\ sent' = k + 1 /\ k \in Nat
      /\ \A i \in Conns : i \in Nat
      /\ UNCHANGED <<phase, status, requests, result, stop_signal, votes_scoreboard, clientVars, c2s>>
  BY <1>0 DEF MainWrite, Types, Control, sharedVars, Conns
<1>2. PICK queue \in Delivered(s2c[k], PhaseMessage) : s2c' = [s2c EXCEPT ![k] = queue]
  BY <1>0 DEF MainWrite
<1>3. queue = Append(s2c[k], PhaseMessage) \/ queue = s2c[k]
  <2>1. Orderly \/ (Prompt /\ s2c[k] = <<>>)
    BY <1>1 DEF InOrder, TurnSafe, Turns, Coming, Empty
  <2> QED
    BY <1>2, <2>1, InOrderDelivery
<1>4. /\ s2c'[k] = Append(s2c[k], PhaseMessage) \/ s2c'[k] = s2c[k]
      /\ \A i \in Conns \ {k} : s2c'[i] = s2c[i]
  BY <1>1, <1>2, <1>3 DEF Types, TypeOK
<1>5. PhaseMessage = IF phase = 1 THEN "request" ELSE Verdict
  BY DEF PhaseMessage, Verdict
<1>6. \A i \in Conns : i < sent => i < sent'
  BY <1>1
<1>7. phase \in {1, 2} /\ k < sent' /\ ~(k < sent)
  BY <1>1 DEF Types, TypeOK
<1>8. Clients'
  <2>1. ASSUME NEW i \in Conns, i # k
        PROVE  (Idle(i) => Idle(i)') /\ (Waiting(i) => Waiting(i)') /\ (Knows(i) => Knows(i)')
    <3>1. s2c'[i] = s2c[i] /\ (i < sent => i < sent')
      BY <1>4, <1>6, <2>1
    <3> QED
      BY <1>1, <3>1 DEF Idle, Waiting, Knows, NotYet, Voted, Cast, MyVote, YesIn, Verdict, Alive, Exited, clientVars
  <2>2. Idle(k) => Idle(k)'
    <3> SUFFICES ASSUME Idle(k) PROVE Idle(k)'
      OBVIOUS
    <3>1. NotYet(k)' /\ c2s'[k] = <<>>
      BY <1>1 DEF Idle, NotYet, Cast, clientVars
    <3>2. ASSUME Alive(k)'
          PROVE  /\ cpc'[k] = "phase1"
                 /\ \/ s2c'[k] = <<>>
                    \/ s2c'[k] = <<"request">> /\ (phase' = 2 \/ k < sent')
                    \/ s2c'[k] = <<Verdict'>> /\ phase' = 2 /\ k < sent'
                    \/ s2c'[k] = <<"request", Verdict'>> /\ phase' = 2 /\ k < sent'
      <4>1. /\ cpc'[k] = "phase1" /\ Verdict' = Verdict /\ phase' = phase
            /\ s2c[k] = <<>> \/ (s2c[k] = <<"request">> /\ phase = 2)
        BY <1>1, <1>7, <3>2 DEF Idle, Alive, Exited, Verdict, clientVars
      <4>2. \/ s2c'[k] = <<>> \/ (s2c'[k] = <<"request">> /\ phase = 2)
            \/ s2c'[k] = <<PhaseMessage>>
            \/ s2c'[k] = <<"request", PhaseMessage>> /\ phase = 2
        <5>1. /\ Append(<<>>, PhaseMessage) = <<PhaseMessage>>
              /\ Append(<<"request">>, PhaseMessage) = <<"request", PhaseMessage>>
          BY ShortQueues
        <5> QED
          BY <1>4, <4>1, <5>1
      <4> QED
        BY <1>5, <1>7, <4>1, <4>2
    <3> QED
      BY <3>1, <3>2 DEF Idle
  <2>3. Waiting(k) => Waiting(k)'
    <3> SUFFICES ASSUME Waiting(k) PROVE Waiting(k)'
      OBVIOUS
    <3>1. phase = 2 /\ phase' = 2 /\ Verdict' = Verdict
      BY <1>1, <1>7 DEF Waiting, Verdict
    <3>2. Alive(k) => s2c'[k] = <<>> \/ s2c'[k] = <<Verdict>>
      BY <1>4, <1>5, <1>7, <3>1, ShortQueues DEF Waiting
    <3> QED
      BY <1>1, <1>7, <3>1, <3>2 DEF Waiting, Voted, Cast, MyVote, YesIn, Alive, Exited, clientVars
  <2>4. ~Knows(k)
    BY <1>7 DEF Knows
  <2> QED
    BY <2>1, <2>2, <2>3, <2>4 DEF Safe, Clients
<1>9. \A i \in Conns : Answered(i) => Answered(i)'
  BY <1>1, <1>6 DEF Answered, Voted, Cast, Verdict, clientVars
<1>10. Vouched' /\ CancelValid' /\ (AllYes => AllYes') /\ (SomeNo => SomeNo')
  BY <1>1 DEF Safe, Vouched, Broadcast, CommitValid, CancelValid, AllYes, SomeNo, Voted, Cast, clientVars
<1>11. Scoreboard'
  BY <1>1, <1>9 DEF Safe, Scoreboard, Ready, MyVote
<1>12. Scanned'
  BY <1>1 DEF Scanned
<1>13. Decision'
  BY <1>1, <1>10 DEF Safe, Decision, Unread, Broadcast
<1> QED
  BY <1>8, <1>10, <1>11, <1>12, <1>13 DEF Safe

(* send_request over Q-Jump: every client is written to at once. *)
LEMMA SafeBroadcast ==
  ASSUME Types, Safe, MainBroadcast
  PROVE  Safe'
<1>1. /\ mpc = "send" /\ mpc' = "wait" /\ Broadcast /\ sent = 0 /\ sent' = ClientCount
      /\ UNCHANGED <<phase, status, requests, result, stop_signal, votes_scoreboard, clientVars, c2s>>
      /\ phase \in {1, 2}
  BY DEF MainBroadcast, Types, TypeOK, Control, sharedVars
<1>2. \A i \in Conns : s2c'[i] = Append(s2c[i], PhaseMessage)
  BY DEF MainBroadcast
<1>3. PhaseMessage = IF phase = 1 THEN "request" ELSE Verdict
  BY DEF PhaseMessage, Verdict
<1>4. \A i \in Conns : ~(i < sent) /\ i < sent'
  BY <1>1, ClientCountType DEF Conns
<1>5. Clients'
  <2>1. ASSUME NEW i \in Conns
        PROVE  (Idle(i) => Idle(i)') /\ (Waiting(i) => Waiting(i)') /\ ~Knows(i)
    <3>1. ~(i < sent) /\ i < sent' /\ Verdict' = Verdict
      BY <1>1, <1>4 DEF Verdict
    <3>2. /\ s2c[i] = <<>> => s2c'[i] = <<PhaseMessage>>
          /\ s2c[i] = <<"request">> => s2c'[i] = <<"request", PhaseMessage>>
      BY <1>2, ShortQueues
    <3>3. Idle(i) => Idle(i)'
      BY <1>1, <1>3, <3>1, <3>2 DEF Idle, NotYet, Cast, Alive, Exited, clientVars
    <3>4. Waiting(i) => Waiting(i)'
      BY <1>1, <1>3, <3>1, <3>2 DEF Waiting, Voted, Cast, MyVote, YesIn, Alive, Exited, clientVars
    <3> QED
      BY <3>1, <3>3, <3>4 DEF Knows
  <2> QED
    BY <2>1 DEF Safe, Clients
<1>6. \A i \in Conns : Answered(i) => Answered(i)'
  BY <1>1, <1>4 DEF Answered, Voted, Cast, Verdict, clientVars
<1>7. Vouched' /\ CancelValid' /\ (AllYes => AllYes') /\ (SomeNo => SomeNo')
  BY <1>1 DEF Safe, Vouched, Broadcast, CommitValid, CancelValid, AllYes, SomeNo, Voted, Cast, clientVars
<1>8. Scoreboard'
  BY <1>1, <1>6 DEF Safe, Scoreboard, Ready, MyVote
<1>9. Scanned'
  BY <1>1 DEF Scanned
<1>10. Decision'
  BY <1>1, <1>7 DEF Safe, Decision, Unread, Broadcast
<1> QED
  BY <1>5, <1>7, <1>8, <1>9, <1>10 DEF Safe

(* do_phase1 returns what it found, or do_phase2 is over. *)
LEMMA SafeUnpause ==
  ASSUME Types, Safe, MainUnpause
  PROVE  Safe'
<1>1. /\ mpc = "clear"
      /\ UNCHANGED <<requests, result, stop_signal, votes_scoreboard, clientVars, netVars>>
  BY DEF MainUnpause
<1>2. CASE phase = 1
  <2>1. /\ phase' = 2 /\ status' = result /\ sent' = 0 /\ mpc' = "reset" /\ mi' = 0
    BY <1>2 DEF MainUnpause
  <2>2. Clients'
    <3>1. ASSUME NEW i \in Conns
          PROVE  (Idle(i) => Idle(i)') /\ (Waiting(i) => Waiting(i)') /\ ~Knows(i)
      BY <1>1, <1>2, <2>1
      DEF Idle, Waiting, Knows, NotYet, Voted, Cast, MyVote, YesIn, Alive, Exited, clientVars, netVars
    <3> QED
      BY <3>1 DEF Safe, Clients
  <2>3. Vouched' /\ CancelValid' /\ (AllYes => AllYes') /\ (SomeNo => SomeNo')
    BY <1>1 DEF Safe, Vouched, Broadcast, CommitValid, CancelValid, AllYes, SomeNo, Voted, Cast, clientVars
  <2>4. \A i \in Conns : ~Ready(Slot(i))'
    BY <2>1, SlotType, ClientCountType DEF Ready, Conns
  <2>5. Scoreboard' /\ Scanned'
    BY <2>1, <2>4 DEF Scoreboard, Scanned
  <2>6. /\ result = "success" => AllYes \/ stop_signal
        /\ result = "fail" => SomeNo
    BY <1>1, <1>2 DEF Safe, Scanned, AllYes, Answered
  <2>7. Decision'
    BY <1>1, <2>1, <2>3, <2>6 DEF Decision, Unread
  <2> QED
    BY <2>2, <2>3, <2>5, <2>7 DEF Safe
<1>3. CASE phase # 1
  <2>1. UNCHANGED core /\ (mpc' = "term" \/ (mpc' = "loop" /\ result # "cluster_fail"))
    BY <1>1, <1>3 DEF MainUnpause, Terminate, core
  <2>2. CASE mpc' = "term"
    BY <1>1, <2>1, <2>2, Ended
  <2>3. CASE mpc' = "loop" /\ result # "cluster_fail"
    <3>1. phase = 2 /\ result = "success"
      BY <1>1, <1>3, <2>3 DEF Types, TypeOK, Safe, Scanned
    <3>2. /\ Clients' /\ Vouched' /\ CancelValid' /\ (AllYes <=> AllYes') /\ (SomeNo <=> SomeNo')
          /\ \A i \in Conns : Answered(i) <=> Answered(i)'
      BY <1>1, <2>1, CoreFrame DEF Safe
    <3>3. Scoreboard'
      BY <1>1, <2>1, <2>3, <3>2 DEF Safe, Scoreboard, Ready, MyVote, core
    <3>4. Scanned'
      BY <1>1, <2>1, <2>3, <3>1, <3>2 DEF Safe, Scanned, core
    <3>5. Decision'
      BY <1>1, <2>1, <2>3, <3>1, <3>2 DEF Safe, Decision, Unread, Broadcast, core
    <3> QED
      BY <3>2, <3>3, <3>4, <3>5 DEF Safe
  <2> QED
    BY <2>1, <2>2, <2>3
<1> QED
  BY <1>2, <1>3

(* run_server starts another round, every client having acknowledged the last one. *)
LEMMA SafeLoop ==
  ASSUME Types, Safe, MainLoop
  PROVE  Safe'
<1>1. mpc = "loop" /\ mi = 0 /\ UNCHANGED <<mi, result, stop_signal, votes_scoreboard, clientVars, netVars>>
  BY DEF MainLoop, Types, Control, sharedVars
<1>2. CASE stop_signal
  <2>1. UNCHANGED core /\ mpc' = "term"
    BY <1>1, <1>2 DEF MainLoop, Terminate, core
  <2> QED
    BY <1>1, <2>1, Ended
<1>3. CASE ~stop_signal
  <2>1. /\ requests' = requests + 1 /\ phase' = 1 /\ status' = "success" /\ sent' = 0 /\ mpc' = "reset"
        /\ requests \in Nat
    BY <1>3 DEF MainLoop, Types, TypeOK
  <2>2. Clients'
    <3>1. ASSUME NEW i \in Conns
          PROVE  Idle(i)'
      <4>1. Answered(i) /\ phase = 2
        BY <1>1, <1>3 DEF Safe, Scanned
      <4>2. ~Idle(i)
        BY <2>1, <4>1 DEF Idle, NotYet, Answered, Voted
      <4>3. ~Waiting(i)
        BY <4>1 DEF Waiting, Answered, Verdict
      <4>4. Knows(i) /\ c2s[i] = <<>>
        BY <4>1, <4>2, <4>3 DEF Safe, Clients, Answered
      <4> QED
        BY <1>1, <2>1, <4>4 DEF Idle, Knows, NotYet, Voted, Cast, Alive, Exited, clientVars, netVars
    <3> QED
      BY <3>1 DEF Clients
  <2>3. Vouched' /\ CancelValid'
    BY <1>1 DEF Safe, Vouched, Broadcast, CommitValid, CancelValid, Cast, clientVars
  <2>4. \A i \in Conns : ~Ready(Slot(i))'
    BY <1>1, <2>1, SlotType, ClientCountType DEF Ready, Conns
  <2>5. Scoreboard' /\ Scanned' /\ Decision'
    BY <2>1, <2>4 DEF Scoreboard, Scanned, Decision
  <2> QED
    BY <2>2, <2>3, <2>5 DEF Safe
<1> QED
  BY <1>2, <1>3

-----------------------------------------------------------------------------
(* A worker records the oldest response on its connection. *)
LEMMA SafeRecord ==
  ASSUME Types, Safe, NEW t \in Threads, WorkerRecord(t)
  PROVE  Safe'
<1>1. PICK k \in Conns : /\ k = wi[t] /\ c2s[k] # <<>>
                         /\ votes_scoreboard' = [votes_scoreboard EXCEPT ![Slot(k)] = Head(c2s[k])]
                         /\ c2s' = [c2s EXCEPT ![k] = Tail(c2s[k])]
  <2>1. wi[t] \in Conns
    BY RangeType, ClientCountType DEF WorkerRecord, Types, TypeOK, Conns
  <2>2. c2s[wi[t]] # <<>>
    <3>1. "data" \in ReadSays(wi[t])
      BY DEF WorkerRecord
    <3>2. CASE Transport = "tcp_ln"
      BY <3>1, <3>2 DEF ReadSays, TcpRead
    <3>3. CASE Transport = "udp_ln"
      <4>1. ReadSays(wi[t]) = UdpRead(wi[t])
        BY <3>3 DEF ReadSays
      <4>2. c2s[wi[t]] = <<>> => UdpRead(wi[t]) \subseteq {"again", "fin"}
        BY DEF UdpRead
      <4> QED
        BY <3>1, <4>1, <4>2
    <3>4. CASE Transport = "udp_qj"
      BY <3>1, <3>4 DEF ReadSays, QjRead
    <3> QED
      BY <3>2, <3>3, <3>4 DEF ConfigAssumption
  <2> QED
    BY <2>1, <2>2 DEF WorkerRecord
<1>2. UNCHANGED <<mainVars, clientVars, s2c, stop_signal>>
  BY DEF WorkerRecord
<1>3. /\ votes_scoreboard'[Slot(k)] = Head(c2s[k]) /\ c2s'[k] = Tail(c2s[k])
      /\ \A i \in Conns \ {k} : c2s'[i] = c2s[i] /\ votes_scoreboard'[Slot(i)] = votes_scoreboard[Slot(i)]
  BY <1>1, SlotType DEF Types, TypeOK
<1>4. \/ Waiting(k) /\ Head(c2s[k]) = MyVote(k) /\ c2s'[k] = <<>>
      \/ Knows(k) /\ Head(c2s[k]) = MyVote(k) /\ c2s'[k] \in {<<>>, <<"ack">>}
      \/ Knows(k) /\ Head(c2s[k]) = "ack" /\ c2s'[k] = <<>>
  <2>1. Waiting(k) \/ Knows(k)
    BY <1>1 DEF Safe, Clients, Idle
  <2>2. CASE Waiting(k)
    <3>1. c2s[k] = <<MyVote(k)>>
      BY <1>1, <2>2 DEF Waiting
    <3>2. Head(<<MyVote(k)>>) = MyVote(k) /\ Tail(<<MyVote(k)>>) = <<>>
      BY ShortQueues
    <3> QED
      BY <1>3, <2>2, <3>1, <3>2
  <2>3. CASE Knows(k)
    <3>1. c2s[k] \in {<<MyVote(k)>>, <<"ack">>, <<MyVote(k), "ack">>}
      BY <1>1, <2>3 DEF Knows
    <3>2. /\ Head(<<MyVote(k)>>) = MyVote(k) /\ Tail(<<MyVote(k)>>) = <<>>
          /\ Head(<<"ack">>) = "ack" /\ Tail(<<"ack">>) = <<>>
          /\ Head(<<MyVote(k), "ack">>) = MyVote(k) /\ Tail(<<MyVote(k), "ack">>) = <<"ack">>
      BY ShortQueues
    <3> QED
      BY <1>3, <2>3, <3>1, <3>2
  <2> QED
    BY <2>1, <2>2, <2>3
<1>5. Clients'
  <2>1. ASSUME NEW i \in Conns, i # k
        PROVE  (Idle(i) => Idle(i)') /\ (Waiting(i) => Waiting(i)') /\ (Knows(i) => Knows(i)')
    BY <1>2, <1>3, <2>1 DEF Idle, Waiting, Knows, NotYet, Voted, Cast, MyVote, YesIn, Verdict, Alive, Exited, clientVars, mainVars
  <2>2. (Waiting(k) /\ c2s'[k] = <<>>) => Waiting(k)'
    BY <1>2 DEF Waiting, Voted, Cast, MyVote, YesIn, Verdict, Alive, Exited, clientVars, mainVars
  <2>3. (Knows(k) /\ c2s'[k] \in {<<>>, <<"ack">>}) => Knows(k)'
    BY <1>2 DEF Knows, Voted, Cast, MyVote, YesIn, Verdict, Alive, Exited, clientVars, mainVars
  <2> QED
    BY <1>4, <2>1, <2>2, <2>3 DEF Safe, Clients
<1>6. \A i \in Conns : Answered(i) => Answered(i)'
  BY <1>1, <1>2, <1>3 DEF Answered, Voted, Cast, Verdict, clientVars, mainVars
<1>7. Vouched' /\ CancelValid' /\ (AllYes => AllYes') /\ (SomeNo => SomeNo')
  BY <1>2 DEF Safe, Vouched, Broadcast, CommitValid, CancelValid, AllYes, SomeNo, Voted, Cast, clientVars, mainVars
<1>8. Scoreboard'
  <2>1. ASSUME NEW i \in Conns, i # k, Ready(Slot(i))'
        PROVE  IF phase = 1
               THEN votes_scoreboard'[Slot(i)] = "lost" \/ (votes_scoreboard'[Slot(i)] = MyVote(i) /\ Answered(i)')
               ELSE \/ votes_scoreboard'[Slot(i)] \in {"lost", "vote_yes", "vote_no"}
                    \/ votes_scoreboard'[Slot(i)] = "ack" /\ Answered(i)'
    BY <1>2, <1>3, <1>6, <2>1 DEF Safe, Scoreboard, Ready, mainVars
  <2>2. IF phase = 1
        THEN votes_scoreboard'[Slot(k)] = MyVote(k) /\ Answered(k)'
        ELSE \/ votes_scoreboard'[Slot(k)] \in {"vote_yes", "vote_no"}
             \/ votes_scoreboard'[Slot(k)] = "ack" /\ Answered(k)'
    <3>1. CASE phase = 1
      BY <1>2, <1>3, <1>4, <3>1 DEF Waiting, Knows, Answered, Voted, Cast, Verdict, clientVars, mainVars
    <3>2. CASE phase # 1
      BY <1>2, <1>3, <1>4, <3>2 DEF Knows, Answered, Voted, Cast, Verdict, MyVote, clientVars, mainVars
    <3> QED
      BY <3>1, <3>2
  <2> QED
    BY <1>2, <2>1, <2>2 DEF Scoreboard, MyVote, mainVars
<1>9. Scanned'
  BY <1>2, <1>6, <1>7 DEF Safe, Scanned, mainVars, YesIn
<1>10. Decision'
  BY <1>2, <1>7 DEF Safe, Decision, Unread, Broadcast, mainVars
<1> QED
  BY <1>5, <1>7, <1>8, <1>9, <1>10 DEF Safe

-----------------------------------------------------------------------------
(* The clients. *)

(* A client that votes has not voted in this round. *)
LEMMA VoterIsIdle ==
  ASSUME Safe, NEW k \in Conns, ClientPhase1(k)
  PROVE  Idle(k)
<1>1. cpc[k] = "phase1" /\ s2c[k] # <<>>
  BY DEF ClientPhase1
<1>2. Alive(k) /\ ~Waiting(k)
  BY <1>1 DEF Alive, Exited, Waiting
<1>3. ~Knows(k)
  BY <1>1, <1>2 DEF Knows
<1> QED
  BY <1>2, <1>3 DEF Safe, Clients

(* A client that reads a decision is waiting for it, and it is the decision of this round. *)
LEMMA DeciderWaits ==
  ASSUME Safe, NEW k \in Conns, ClientPhase2(k)
  PROVE  Waiting(k) /\ s2c[k] = <<Verdict>> /\ phase = 2 /\ k < sent
<1>1. cpc[k] = "phase2" /\ s2c[k] # <<>>
  BY DEF ClientPhase2
<1>2. Waiting(k)
  <2>1. Alive(k) /\ ~Idle(k) /\ ~Knows(k)
    BY <1>1 DEF Alive, Exited, Idle, Knows
  <2> QED
    BY <2>1 DEF Safe, Clients
<1> QED
  BY <1>1, <1>2 DEF Waiting, Alive, Exited

(* Client k votes. *)
LEMMA SafeVote ==
  ASSUME Types, Safe, InOrder, NEW k \in Conns, ClientPhase1(k)
  PROVE  Safe'
<1>1. /\ cpc[k] = "phase1" /\ s2c[k] # <<>> /\ Head(s2c[k]) = "request"
      /\ s2c' = [s2c EXCEPT ![k] = Tail(s2c[k])]
      /\ vote_count' = [vote_count EXCEPT ![k] = vote_count[k] + 1]
      /\ cpc' = [cpc EXCEPT ![k] = "phase2"]
      /\ outcome' = [outcome EXCEPT ![k] = "none"]
      /\ UNCHANGED <<mainVars, votes_scoreboard, stop_signal>>
  BY DEF ClientPhase1, sharedVars
<1>2. PICK queue \in Delivered(c2s[k], Vote(vote_count[k])) : c2s' = [c2s EXCEPT ![k] = queue]
  BY DEF ClientPhase1
<1>3. queue = Append(c2s[k], Vote(vote_count[k])) \/ queue = c2s[k]
  <2>1. Orderly \/ (Prompt /\ c2s[k] = <<>>)
    BY <1>1, OneMessage DEF InOrder, TurnSafe
  <2> QED
    BY <1>2, <2>1, InOrderDelivery
<1>4. /\ cpc'[k] = "phase2" /\ outcome'[k] = "none" /\ vote_count'[k] = vote_count[k] + 1
      /\ s2c'[k] = Tail(s2c[k]) /\ c2s'[k] = queue
      /\ \A i \in Conns \ {k} : /\ cpc'[i] = cpc[i] /\ outcome'[i] = outcome[i]
                                /\ vote_count'[i] = vote_count[i]
                                /\ s2c'[i] = s2c[i] /\ c2s'[i] = c2s[i]
  BY <1>1, <1>2 DEF Types, TypeOK
<1>5. /\ vote_count[k] \in Nat /\ requests \in Nat /\ \A i \in Conns : HostId[i] \in Nat /\ vote_count[i] \in Nat
  <2>1. \A i \in Conns : HostId[i] \in 1 .. ClientCount
    BY DEF ConfigAssumption
  <2> QED
    BY <2>1 DEF Types, TypeOK
<1>6. Idle(k)
  BY VoterIsIdle
<1>7. /\ Verdict' = Verdict
      /\ \/ s2c[k] = <<"request">> /\ (phase = 2 \/ k < sent)
         \/ s2c[k] = <<"request", Verdict>> /\ phase = 2 /\ k < sent
  <2>1. Head(<<Verdict>>) # "request"
    BY ShortQueues DEF Verdict
  <2> QED
    BY <1>1, <1>6, <2>1 DEF Idle, Alive, Exited, Verdict, mainVars
<1>8. ~Voted(k) /\ Voted(k)' /\ Cast(k)' = requests + 1 /\ Cast(k) = requests
  BY <1>1, <1>4, <1>5, <1>6 DEF Idle, NotYet, Voted, Cast, mainVars
<1>9. Vote(vote_count[k]) = MyVote(k) /\ MyVote(k)' = MyVote(k)
  <2>1. vote_count[k] = HostId[k] + requests
    BY <1>5, <1>8 DEF Cast
  <2> QED
    BY <1>1, <2>1 DEF Vote, MyVote, YesIn, mainVars
<1>10. Waiting(k)'
  <2>1. c2s'[k] = <<>> \/ c2s'[k] = <<MyVote(k)>>
    BY <1>3, <1>4, <1>6, <1>9, ShortQueues DEF Idle
  <2>2. s2c'[k] = <<>> \/ (s2c'[k] = <<Verdict>> /\ phase = 2 /\ k < sent)
    <3>1. Tail(<<"request">>) = <<>> /\ Tail(<<"request", Verdict>>) = <<Verdict>>
      BY ShortQueues
    <3> QED
      BY <1>4, <1>7, <3>1
  <2> QED
    BY <1>1, <1>4, <1>7, <1>8, <1>9, <2>1, <2>2 DEF Waiting, mainVars
<1>11. Clients'
  <2>1. ASSUME NEW i \in Conns, i # k
        PROVE  (Idle(i) => Idle(i)') /\ (Waiting(i) => Waiting(i)') /\ (Knows(i) => Knows(i)')
    BY <1>1, <1>4, <2>1 DEF Idle, Waiting, Knows, NotYet, Voted, Cast, MyVote, YesIn, Verdict, Alive, Exited, mainVars
  <2> QED
    BY <1>10, <2>1 DEF Safe, Clients
<1>12. \A i \in Conns : Answered(i) => Answered(i)'
  BY <1>1, <1>4, <1>8 DEF Answered, Voted, Cast, Verdict, mainVars
<1>13. \A i \in Conns : Cast(i)' >= Cast(i) /\ Cast(i) \in Int /\ Cast(i)' \in Int /\ (i # k => Cast(i)' = Cast(i))
  BY <1>4, <1>5 DEF Cast
<1>14. Vouched' /\ CancelValid'
  <2>1. Vouched'
    <3>1. CommitValid => CommitValid'
      BY <1>4, <1>13 DEF CommitValid, YesIn
    <3> QED
      BY <1>1, <3>1 DEF Safe, Vouched, Broadcast
  <2>2. CancelValid'
    BY <1>4, <1>13 DEF Safe, CancelValid, YesIn
  <2> QED
    BY <2>1, <2>2
<1>15. ~AllYes /\ (SomeNo => SomeNo')
  <2>1. ~AllYes
    BY <1>8 DEF AllYes
  <2>2. SomeNo => SomeNo'
    BY <1>1, <1>8, <1>13 DEF SomeNo, Voted, YesIn, mainVars
  <2> QED
    BY <2>1, <2>2
<1>16. Scoreboard'
  BY <1>1, <1>12 DEF Safe, Scoreboard, Ready, MyVote, mainVars
<1>17. Scanned'
  BY <1>1, <1>12, <1>15 DEF Safe, Scanned, mainVars, YesIn
<1>18. Decision'
  BY <1>1, <1>15 DEF Safe, Decision, Unread, Broadcast, mainVars
<1> QED
  BY <1>11, <1>14, <1>16, <1>17, <1>18 DEF Safe

(* Client k carries out the decision. *)
LEMMA SafeDecide ==
  ASSUME Types, Safe, InOrder, NEW k \in Conns, ClientPhase2(k)
  PROVE  Safe'
<1>1. /\ cpc[k] = "phase2" /\ s2c[k] # <<>> /\ Head(s2c[k]) \in {"commit", "cancel"}
      /\ s2c' = [s2c EXCEPT ![k] = Tail(s2c[k])]
      /\ outcome' = [outcome EXCEPT ![k] = Head(s2c[k])]
      /\ cpc' = [cpc EXCEPT ![k] = "phase1"]
      /\ UNCHANGED <<vote_count, mainVars, votes_scoreboard, stop_signal>>
  BY DEF ClientPhase2, sharedVars
<1>2. PICK queue \in Delivered(c2s[k], "ack") : c2s' = [c2s EXCEPT ![k] = queue]
  BY DEF ClientPhase2
<1>3. queue = Append(c2s[k], "ack") \/ queue = c2s[k]
  <2>1. Orderly \/ (Prompt /\ c2s[k] = <<>>)
    BY <1>1, OneMessage DEF InOrder, TurnSafe
  <2> QED
    BY <1>2, <2>1, InOrderDelivery
<1>4. /\ cpc'[k] = "phase1" /\ outcome'[k] = Head(s2c[k]) /\ s2c'[k] = Tail(s2c[k]) /\ c2s'[k] = queue
      /\ \A i \in Conns \ {k} : /\ cpc'[i] = cpc[i] /\ outcome'[i] = outcome[i]
                                /\ s2c'[i] = s2c[i] /\ c2s'[i] = c2s[i]
  BY <1>1, <1>2 DEF Types, TypeOK
<1>5. Waiting(k)
  BY DeciderWaits
<1>6. s2c[k] = <<Verdict>> /\ phase = 2 /\ k < sent
  BY DeciderWaits
<1>7. outcome'[k] = Verdict /\ s2c'[k] = <<>> /\ Verdict' = Verdict
  BY <1>1, <1>4, <1>6, ShortQueues DEF Verdict, mainVars
<1>8. Knows(k)'
  <2>1. \/ c2s'[k] = <<>> \/ c2s'[k] = <<MyVote(k)>>
        \/ c2s'[k] = <<"ack">> \/ c2s'[k] = <<MyVote(k), "ack">>
    <3>1. c2s[k] = <<>> \/ c2s[k] = <<MyVote(k)>>
      BY <1>5 DEF Waiting
    <3>2. Append(<<>>, "ack") = <<"ack">> /\ Append(<<MyVote(k)>>, "ack") = <<MyVote(k), "ack">>
      BY ShortQueues
    <3> QED
      BY <1>3, <1>4, <3>1, <3>2
  <2>2. Voted(k)' /\ MyVote(k)' = MyVote(k)
    BY <1>1, <1>5 DEF Waiting, Voted, Cast, MyVote, YesIn, mainVars
  <2> QED
    BY <1>1, <1>4, <1>6, <1>7, <2>1, <2>2 DEF Knows, mainVars
<1>9. Clients'
  <2>1. ASSUME NEW i \in Conns, i # k
        PROVE  (Idle(i) => Idle(i)') /\ (Waiting(i) => Waiting(i)') /\ (Knows(i) => Knows(i)')
    BY <1>1, <1>4, <2>1 DEF Idle, Waiting, Knows, NotYet, Voted, Cast, MyVote, YesIn, Verdict, Alive, Exited, mainVars
  <2> QED
    BY <1>8, <2>1 DEF Safe, Clients
<1>10. \A i \in Conns : Answered(i) => Answered(i)'
  <2>1. ~Answered(k)
    BY <1>5, <1>6 DEF Answered, Waiting, Verdict
  <2> QED
    BY <1>1, <1>4, <2>1 DEF Answered, Voted, Cast, Verdict, mainVars
<1>11. (AllYes => AllYes') /\ (SomeNo => SomeNo')
  BY <1>1 DEF AllYes, SomeNo, Voted, Cast, YesIn, mainVars
<1>12. /\ Verdict = "commit" => AllYes \/ (Broadcast /\ stop_signal)
       /\ Verdict = "cancel" => SomeNo
  <2>1. sent # 0 /\ status # "cluster_fail"
    BY <1>6, ClientCountType DEF Safe, Decision, Unread, Broadcast, Conns
  <2> QED
    BY <1>6, <2>1 DEF Safe, Decision, Unread, Verdict, Types, TypeOK
<1>13. Voted(k) /\ requests \in Nat
  BY <1>5 DEF Waiting, Types, TypeOK
<1>14. Vouched'
  <2>1. CASE Broadcast /\ stop_signal
    BY <1>1, <2>1 DEF Vouched, Broadcast
  <2>2. CASE ~(Broadcast /\ stop_signal)
    <3>1. CommitValid
      BY <2>2 DEF Safe, Vouched
    <3>2. Verdict = "commit" => \A j \in Conns : Cast(j) >= Cast(k) /\ YesIn(j, Cast(k) - 1)
      BY <1>12, <1>13, <2>2 DEF AllYes, Voted
    <3> QED
      BY <1>1, <1>4, <1>7, <3>1, <3>2 DEF Vouched, CommitValid, Cast, YesIn
  <2> QED
    BY <2>1, <2>2
<1>15. CancelValid'
  <2>1. Verdict = "cancel" => \E j \in Conns : Cast(j) >= Cast(k) /\ ~YesIn(j, Cast(k) - 1)
    BY <1>12, <1>13 DEF SomeNo, Voted
  <2> QED
    BY <1>1, <1>4, <1>7, <2>1 DEF Safe, CancelValid, Cast, YesIn
<1>16. Scoreboard'
  BY <1>1, <1>10 DEF Safe, Scoreboard, Ready, MyVote, mainVars
<1>17. Scanned'
  BY <1>1, <1>10, <1>11 DEF Safe, Scanned, mainVars, YesIn
<1>18. Decision'
  BY <1>1, <1>11 DEF Safe, Decision, Unread, Broadcast, mainVars
<1> QED
  BY <1>9, <1>14, <1>15, <1>16, <1>17, <1>18 DEF Safe

(* Client k is gone, perhaps with the message it had just read. *)
LEMMA SafeGone ==
  ASSUME Types, Safe, NEW k \in Conns, ClientExit(k), c2s' = c2s,
         s2c' = s2c \/ s2c' = [s2c EXCEPT ![k] = Tail(s2c[k])]
  PROVE  Safe'
<1>1. /\ cpc'[k] = "exited"
      /\ \A i \in Conns \ {k} : cpc'[i] = cpc[i] /\ s2c'[i] = s2c[i]
      /\ UNCHANGED <<vote_count, outcome, c2s, mainVars, votes_scoreboard, stop_signal>>
  BY DEF ClientExit, sharedVars, Types, TypeOK
<1>2. Clients'
  <2>1. ASSUME NEW i \in Conns
        PROVE  (Idle(i) => Idle(i)') /\ (Waiting(i) => Waiting(i)') /\ (Knows(i) => Knows(i)')
    BY <1>1, <2>1 DEF Idle, Waiting, Knows, NotYet, Voted, Cast, MyVote, YesIn, Verdict, Alive, Exited, mainVars
  <2> QED
    BY <2>1 DEF Safe, Clients
<1>3. \A i \in Conns : Answered(i) => Answered(i)'
  BY <1>1 DEF Answered, Voted, Cast, Verdict, mainVars
<1>4. (AllYes => AllYes') /\ (SomeNo => SomeNo')
  BY <1>1 DEF AllYes, SomeNo, Voted, Cast, YesIn, mainVars
<1>5. Vouched' /\ CancelValid'
  BY <1>1 DEF Safe, Vouched, Broadcast, CommitValid, CancelValid, Cast, YesIn
<1>6. Scoreboard'
  BY <1>1, <1>3 DEF Safe, Scoreboard, Ready, MyVote, mainVars
<1>7. Scanned'
  BY <1>1, <1>3, <1>4 DEF Safe, Scanned, mainVars, YesIn
<1>8. Decision'
  BY <1>1, <1>4 DEF Safe, Decision, Unread, Broadcast, mainVars
<1> QED
  BY <1>2, <1>5, <1>6, <1>7, <1>8 DEF Safe

-----------------------------------------------------------------------------
(* Every step of the main thread, of a worker and of a client preserves the invariant. *)
LEMMA SafeMain ==
  ASSUME Types, Safe, InOrder, MainStep \/ MainTimeout \/ MainInterrupted \/ MainKilled
  PROVE  Safe'
<1>1. CASE MainReset
  BY <1>1, SafeReset
<1>2. CASE MainDispatch
  BY <1>2, SafeDispatch
<1>3. CASE MainBroadcast
  BY <1>3, SafeBroadcast
<1>4. CASE MainSendNext
  <2>1. /\ mpc = "send" /\ mpc' \in {"write", "wait"} /\ (mpc' = "write" => ~stop_signal)
        /\ UNCHANGED <<core, votes_scoreboard, stop_signal>>
    BY <1>4 DEF MainSendNext, core, sharedVars
  <2> QED
    BY <2>1, SafeWaiting
<1>5. CASE MainWrite
  BY <1>5, SafeWrite
<1>6. CASE MainWriteFails \/ MainInterrupted
  <2>1. UNCHANGED <<core, stop_signal>> /\ mpc' = "term"
    BY <1>6 DEF MainWriteFails, MainInterrupted, Terminate, core, sharedVars
  <2> QED
    BY <2>1, Ended
<1>7. CASE MainWriteKills \/ MainKilled
  <2>1. UNCHANGED <<core, stop_signal>> /\ mpc' = "exit"
    BY <1>7 DEF MainWriteKills, MainKilled, ServerDies, core
  <2> QED
    BY <2>1, Ended
<1>8. CASE MainSum \/ MainTimeout
  <2>1. mpc = "wait" /\ mpc' \in {"wait", "pause"} /\ UNCHANGED <<core, votes_scoreboard, stop_signal>>
    BY <1>8 DEF MainSum, MainTimeout, core, sharedVars
  <2> QED
    BY <2>1, SafeWaiting
<1>9. CASE MainPause
  BY <1>9, SafePause
<1>10. CASE MainScan
  BY <1>10, SafeScan
<1>11. CASE MainScanEnd
  BY <1>11, SafeScanEnd
<1>12. CASE MainClear
  BY <1>12, SafeClear
<1>13. CASE MainUnpause
  BY <1>13, SafeUnpause
<1>14. CASE MainLoop
  BY <1>14, SafeLoop
<1>15. CASE MainTerm
  <2>1. UNCHANGED core /\ mpc' = "join" /\ stop_signal'
    BY <1>15, Zenon DEF MainTerm, core
  <2> QED
    BY <2>1, Ended
<1>16. CASE MainJoin
  <2>1. UNCHANGED <<core, stop_signal>> /\ mpc' = "exit"
    BY <1>16 DEF MainJoin, core, sharedVars
  <2> QED
    BY <2>1, Ended
<1> QED
  BY <1>1, <1>2, <1>3, <1>4, <1>5, <1>6, <1>7, <1>8, <1>9, <1>10, <1>11, <1>12, <1>13, <1>14, <1>15, <1>16
  DEF MainStep

LEMMA SafeWorker ==
  ASSUME Types, Safe, NEW t \in Threads, WorkerStep(t)
  PROVE  Safe'
<1>1. CASE WorkerRecord(t)
  BY <1>1, SafeRecord
<1>2. CASE WorkerDies(t)
  <2>1. UNCHANGED <<core, stop_signal>> /\ mpc' = "exit"
    BY <1>2 DEF WorkerDies, ServerDies, core
  <2> QED
    BY <2>1, Ended
<1>3. CASE \/ WorkerTop(t) \/ WorkerGate(t) \/ WorkerPaused(t) \/ WorkerAgain(t)
           \/ WorkerPassEnd(t) \/ WorkerLoad(t) \/ WorkerStore(t) \/ WorkerCleanup(t)
  <2>1. UNCHANGED <<mainVars, clientVars, netVars, votes_scoreboard, stop_signal>>
    BY <1>3 DEF WorkerTop, WorkerGate, WorkerPaused, WorkerAgain, WorkerPassEnd, WorkerLoad,
                WorkerStore, WorkerCleanup, sharedVars
  <2> QED
    BY <2>1, Quiet
<1>4. CASE WorkerFin(t) \/ WorkerStats(t)
  <2>1. UNCHANGED <<mainVars, clientVars, netVars, votes_scoreboard>>
    BY <1>4 DEF WorkerFin, WorkerStats
  <2>2. stop_signal => stop_signal'
    BY <1>4, Zenon DEF WorkerFin, WorkerStats
  <2> QED
    BY <2>1, <2>2, Quiet
<1> QED
  BY <1>1, <1>2, <1>3, <1>4 DEF WorkerStep

LEMMA SafeClient ==
  ASSUME Types, Safe, InOrder, NEW i \in Conns,
         ClientStep(i) \/ ClientTimeout(i) \/ ClientRefused(i) \/ ClientKilled(i)
  PROVE  Safe'
<1>1. CASE ClientPhase1(i)
  BY <1>1, SafeVote
<1>2. CASE ClientPhase2(i)
  BY <1>2, SafeDecide
<1>3. CASE ~ClientPhase1(i) /\ ~ClientPhase2(i)
  <2>1. /\ ClientExit(i) /\ c2s' = c2s
        /\ s2c' = s2c \/ s2c' = [s2c EXCEPT ![i] = Tail(s2c[i])]
    BY <1>3 DEF ClientStep, ClientProtocolFailure, ClientEof, ClientWriteFails, ClientTimeout,
                ClientRefused, ClientKilled, netVars
  <2> QED
    BY <2>1, SafeGone
<1> QED
  BY <1>1, <1>2, <1>3

LEMMA SafeInit == Init => Safe
<1> SUFFICES ASSUME Init PROVE Safe
  OBVIOUS
<1>1. \A i \in Conns : HostId[i] \in 1 .. ClientCount /\ Cast(i) = 0 /\ ~Ready(Slot(i))
  <2>1. \A i \in Conns : HostId[i] \in 1 .. ClientCount /\ vote_count[i] = HostId[i]
    BY DEF ConfigAssumption, Init
  <2>2. mpc = "reset" /\ mi = 0
    BY DEF Init
  <2> QED
    <3>1. \A i \in Conns : Cast(i) = 0
      BY <2>1 DEF Cast
    <3>2. \A i \in Conns : ~Ready(Slot(i))
      BY <2>2, SlotType, ClientCountType DEF Ready, Conns
    <3> QED
      BY <2>1, <3>1, <3>2
<1>2. Clients
  BY <1>1 DEF Init, Clients, Idle, NotYet, Alive, Exited
<1>3. Scoreboard /\ Scanned /\ Decision
  BY <1>1 DEF Init, Scoreboard, Scanned, Decision
<1>4. Vouched /\ CancelValid
  BY DEF Init, Vouched, CommitValid, CancelValid
<1> QED
  BY <1>2, <1>3, <1>4 DEF Safe

LEMMA SafeNext == IInv /\ InOrder /\ [Next]_vars => IInv'
<1> SUFFICES ASSUME Types, Safe, InOrder, [Next]_vars
             PROVE  Types' /\ Safe'
  BY IInvIsSafe DEF IInv, Safe
<1>1. CASE UNCHANGED vars
  <2>1. UNCHANGED <<mainVars, clientVars, netVars, votes_scoreboard, stop_signal>>
    BY <1>1 DEF vars, sharedVars
  <2> QED
    BY <2>1, Quiet, TypesNext
<1>2. CASE Next
  BY <1>2, TypesNext, SafeMain, SafeWorker, SafeClient DEF Next, Environment
<1> QED
  BY <1>1, <1>2

(***************************************************************************)
(* Over a tame network no message of one round is on its way in the next:  *)
(* each client is where the server's round says, each queue holds what     *)
(* that allows, and each slot of the scoreboard what its client answered   *)
(* in this phase.                                                          *)
(***************************************************************************)
THEOREM IInvInvariant == Tame => (Spec => []IInv)
<1>1. Init => IInv
  BY TypesInit, SafeInit, IInvIsSafe
<1>2. ASSUME Orderly PROVE Spec => []IInv
  <2>1. IInv /\ [Next]_vars => IInv'
    BY <1>2, SafeNext DEF InOrder
  <2> QED
    BY <1>1, <2>1, PTL DEF Spec
<1>3. ASSUME Prompt PROVE Spec => []IInv
  <2>1. IInv /\ TurnsInv /\ [Next]_vars => IInv'
    BY <1>3, SafeNext DEF InOrder, TurnsInv
  <2>2. Spec => []TurnsInv
    BY <1>3, TurnsInvariant
  <2> QED
    BY <1>1, <2>1, <2>2, PTL DEF Spec
<1> QED
  BY <1>2, <1>3 DEF Tame

-----------------------------------------------------------------------------
(***************************************************************************)
(* Over a tame network a client carries out a commit only if every         *)
(* client has voted yes in that round: the resets of the scoreboard, the   *)
(* counters, the pause flag and the timeouts never make the server commit  *)
(* on a vote that is missing, old or a no.  A broadcast is the exception:  *)
(* see the next theorem.                                                   *)
(***************************************************************************)
THEOREM CommitsAreValid == Tame /\ ~Broadcast => (Spec => []CommitValid)
<1>1. IInv /\ ~Broadcast => CommitValid
  BY DEF IInv, Vouched
<1> SUFFICES ASSUME Tame, ~Broadcast PROVE Spec => []CommitValid
  OBVIOUS
<1>2. IInv => CommitValid
  BY <1>1
<1>3. Spec => []IInv
  BY IInvInvariant
<1> QED
  BY <1>2, <1>3, PTL

(***************************************************************************)
(* Also over Q-Jump, where a stop skips the scan but not the broadcast of  *)
(* the decision, every commit is valid until the stop flag goes up: no     *)
(* timeout, no death of a client and no late vote makes a server that is   *)
(* not stopping commit.                                                    *)
(***************************************************************************)
THEOREM CommitsAreValidUnlessStopping == Tame => (Spec => []CommitValidUnlessStopping)
<1>1. IInv => CommitValidUnlessStopping
  BY DEF IInv, Vouched, CommitValidUnlessStopping
<1> QED
  BY <1>1, IInvInvariant, PTL

(***************************************************************************)
(* Over a tame network a client cancels only if some client has voted no   *)
(* in that round, whatever is lost, late or stopping.                      *)
(***************************************************************************)
THEOREM CancelsAreValid == Tame => (Spec => []CancelValid)
<1>1. IInv => CancelValid
  BY DEF IInv
<1> QED
  BY <1>1, IInvInvariant, PTL

(***************************************************************************)
(* Over a tame network, when run_server is at the end of a round and       *)
(* not stopping, every client has voted in that round and carried out its  *)
(* decision.                                                               *)
(***************************************************************************)
THEOREM ReportsAreTrue == Tame => (Spec => []ReportTrue)
<1>1. IInv => ReportTrue
  <2> SUFFICES ASSUME IInv, mpc = "loop", ~stop_signal
               PROVE  Reported
    BY DEF ReportTrue
  <2>1. \A i \in Conns : Answered(i) /\ phase = 2
    BY DEF IInv, Scanned
  <2> QED
    BY <2>1 DEF Reported, Answered, Voted
<1> QED
  BY <1>1, IInvInvariant, PTL
=============================================================================
