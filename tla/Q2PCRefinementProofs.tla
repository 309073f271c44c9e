------------------------ MODULE Q2PCRefinementProofs ------------------------
(***************************************************************************)
(* Over a tame network, unless it broadcasts, Q2PC implements              *)
(* AtomicCommit, for every number of clients and of workers.               *)
(***************************************************************************)
EXTENDS Q2PCSafetyProofs

USE ConfigAssumption

(* The refinement mapping. *)
Announced == IF phase = 2 /\ sent > 0 THEN Verdict ELSE "none"
Casts     == [i \in Conns |-> Cast(i)]
Ballots   == [i \in Conns |-> Ballot(i)]

(* The state AtomicCommit sees. *)
seen == <<requests, Announced, vote_count, outcome>>

LEMMA Unseen == UNCHANGED seen => UNCHANGED Abstract!vars
BY DEF seen, Announced, Abstract!vars, Cast, Ballot

(* A step of the server that leaves the round and the clients alone. *)
LEMMA CoreUnseen == UNCHANGED core => UNCHANGED seen
BY DEF core, clientVars, seen, Announced, Verdict

-----------------------------------------------------------------------------
(* The first copy of the decision takes the verdict. *)
LEMMA WriteSeen ==
  ASSUME Types, Safe, MainWrite
  PROVE  UNCHANGED seen \/ Abstract!Commit \/ Abstract!Cancel
<1>1. /\ mpc = "write" /\ sent' = sent + 1 /\ sent \in Nat
      /\ UNCHANGED <<phase, status, requests, vote_count, outcome>>
  BY DEF MainWrite, clientVars, Types, TypeOK
<1>2. CASE phase = 1 \/ sent > 0
  BY <1>1, <1>2 DEF seen, Announced, Verdict
<1>3. CASE phase = 2 /\ sent = 0
  <2>1. Announced = "none" /\ Announced' = Verdict
    BY <1>1, <1>3 DEF Announced, Verdict
  <2>2. /\ status = "success" => AllYes
        /\ status = "fail" => SomeNo
        /\ status \in {"success", "fail"}
    BY <1>1, <1>3 DEF Safe, Decision, Unread, Types, TypeOK, Control
  <2>3. /\ requests' = requests /\ outcome' = outcome
        /\ Casts' = Casts /\ Ballots' = Ballots
    BY <1>1 DEF Casts, Ballots, Cast, Ballot
  <2>4. \A i \in Conns : Voted(i) => /\ Ballots[i] = IF YesIn(i, requests) THEN "yes" ELSE "no"
                                     /\ Casts[i] = requests + 1
    <3>1. ASSUME NEW i \in Conns, Voted(i)
          PROVE  /\ Ballots[i] = IF YesIn(i, requests) THEN "yes" ELSE "no"
                 /\ Casts[i] = requests + 1
      <4>1. Cast(i) = requests + 1 /\ requests \in Nat /\ Cast(i) # 0
        BY <3>1 DEF Voted, Types, TypeOK
      <4>2. vote_count[i] - 1 = HostId[i] + requests
        <5>1. vote_count[i] \in Nat /\ HostId[i] \in 1 .. ClientCount
          BY DEF ConfigAssumption, Types, TypeOK
        <5> QED
          BY <4>1, <5>1 DEF Cast
      <4> QED
        BY <4>1, <4>2 DEF Casts, Ballots, Ballot, YesIn
    <3> QED
      BY <3>1
  <2>5. CASE status = "success"
    <3>1. \A i \in Conns : Casts[i] = requests + 1 /\ Ballots[i] = "yes"
      BY <2>2, <2>4, <2>5 DEF AllYes
    <3>2. Verdict = "commit"
      BY <2>5 DEF Verdict
    <3> QED
      BY <2>1, <2>3, <3>1, <3>2 DEF Abstract!Commit, Abstract!Voted, Announced, Casts, Ballots
  <2>6. CASE status = "fail"
    <3>1. \E i \in Conns : Casts[i] = requests + 1 /\ Ballots[i] = "no"
      BY <2>2, <2>4, <2>6 DEF SomeNo
    <3>2. Verdict = "cancel"
      BY <2>6 DEF Verdict
    <3> QED
      BY <2>1, <2>3, <3>1, <3>2 DEF Abstract!Cancel, Abstract!Voted, Announced, Casts, Ballots
  <2> QED
    BY <2>2, <2>5, <2>6
<1> QED
  BY <1>1, <1>2, <1>3 DEF Types, TypeOK

(* The end of phase 1 decides, but tells nobody yet; the end of phase 2 changes nothing. *)
LEMMA UnpauseSeen ==
  ASSUME Types, MainUnpause
  PROVE  UNCHANGED seen
<1>1. UNCHANGED <<requests, vote_count, outcome>>
  BY DEF MainUnpause, clientVars
<1>2. CASE phase = 1
  BY <1>1, <1>2 DEF MainUnpause, seen, Announced
<1>3. CASE phase # 1
  BY <1>1, <1>3 DEF MainUnpause, seen, Announced, Verdict
<1> QED
  BY <1>2, <1>3

(* Another round starts when all know the verdict of this one. *)
LEMMA LoopSeen ==
  ASSUME Types, Safe, MainLoop
  PROVE  UNCHANGED seen \/ Abstract!NextRound
<1>1. CASE stop_signal
  BY <1>1 DEF MainLoop, seen, Announced, Verdict, clientVars
<1>2. CASE ~stop_signal
  <2>1. /\ mpc = "loop" /\ requests' = requests + 1 /\ phase' = 1 /\ UNCHANGED <<vote_count, outcome>>
    BY <1>2 DEF MainLoop, clientVars
  <2>2. \A i \in Conns : Casts[i] = requests + 1 /\ outcome[i] # "none"
    BY <1>2, <2>1 DEF Safe, Scanned, Answered, Voted, Verdict, Casts
  <2>3. Announced' = "none" /\ Casts' = Casts /\ Ballots' = Ballots /\ outcome' = outcome
    BY <2>1 DEF Announced, Casts, Ballots, Cast, Ballot
  <2> QED
    BY <2>1, <2>2, <2>3 DEF Abstract!NextRound, Abstract!Voted, Announced, Casts, Ballots
<1> QED
  BY <1>1, <1>2

(* A client's vote is its ballot. *)
LEMMA VoteSeen ==
  ASSUME Types, Safe, NEW k \in Conns, ClientPhase1(k)
  PROVE  Abstract!CastBallot(k)
<1>1. /\ vote_count' = [vote_count EXCEPT ![k] = vote_count[k] + 1]
      /\ outcome' = [outcome EXCEPT ![k] = "none"]
      /\ UNCHANGED <<requests, phase, sent, status>>
  BY DEF ClientPhase1, mainVars
<1>2. /\ \A i \in Conns : vote_count[i] \in Nat /\ HostId[i] \in 1 .. ClientCount
      /\ requests \in Nat
  BY DEF ConfigAssumption, Types, TypeOK
<1>3. /\ vote_count'[k] = vote_count[k] + 1
      /\ \A i \in Conns \ {k} : vote_count'[i] = vote_count[i]
  BY <1>1 DEF Types, TypeOK
<1>4. Cast(k) = requests
  BY VoterIsIdle DEF Idle, NotYet
<1>5. Casts[k] = requests /\ Casts' = [Casts EXCEPT ![k] = Casts[k] + 1]
  <2>1. \A i \in Conns : Cast(i)' = IF i = k THEN Cast(i) + 1 ELSE Cast(i)
    BY <1>2, <1>3 DEF Cast
  <2> QED
    BY <1>4, <2>1 DEF Casts
<1>6. \E b \in {"yes", "no"} : Ballots' = [Ballots EXCEPT ![k] = b]
  <2>1. Ballot(k)' \in {"yes", "no"}
    <3>1. Cast(k)' = requests + 1
      BY <1>2, <1>3, <1>4 DEF Cast
    <3> QED
      BY <1>2, <3>1 DEF Ballot
  <2>2. \A i \in Conns \ {k} : Ballot(i)' = Ballot(i)
    BY <1>3 DEF Ballot, Cast
  <2>3. Ballots' = [Ballots EXCEPT ![k] = Ballot(k)']
    BY <2>2 DEF Ballots
  <2> QED
    BY <2>1, <2>3
<1>7. Announced' = Announced
  BY <1>1 DEF Announced, Verdict
<1> QED
  BY <1>1, <1>5, <1>6, <1>7 DEF Abstract!CastBallot, Announced, Casts, Ballots

(* A client that carries out the decision learns the verdict. *)
LEMMA DecideSeen ==
  ASSUME Types, Safe, NEW k \in Conns, ClientPhase2(k)
  PROVE  Abstract!Learn(k)
<1>1. /\ outcome' = [outcome EXCEPT ![k] = Head(s2c[k])]
      /\ UNCHANGED <<vote_count, requests, phase, sent, status>>
  BY DEF ClientPhase2, mainVars
<1>2. Waiting(k) /\ s2c[k] = <<Verdict>> /\ phase = 2 /\ k < sent
  BY DeciderWaits
<1>3. Announced = Verdict /\ Verdict # "none" /\ Head(s2c[k]) = Verdict
  <2>1. sent > 0
    BY <1>2, ClientCountType DEF Conns, Types, TypeOK
  <2> QED
    BY <1>2, <2>1, ShortQueues DEF Announced, Verdict
<1>4. Casts[k] = requests + 1 /\ outcome[k] = "none"
  BY <1>2 DEF Waiting, Voted, Casts
<1>5. Announced' = Announced /\ Casts' = Casts /\ Ballots' = Ballots
  BY <1>1 DEF Announced, Verdict, Casts, Ballots, Cast, Ballot
<1> QED
  BY <1>1, <1>3, <1>4, <1>5 DEF Abstract!Learn, Abstract!Voted, Announced, Casts, Ballots

-----------------------------------------------------------------------------
LEMMA MainSeen ==
  ASSUME Types, Safe, ~Broadcast, MainStep \/ MainTimeout \/ MainInterrupted \/ MainKilled
  PROVE  [Abstract!Next]_(Abstract!vars)
<1>1. CASE MainWrite
  BY <1>1, WriteSeen, Unseen DEF Abstract!Next
<1>2. CASE MainUnpause
  BY <1>2, UnpauseSeen, Unseen
<1>3. CASE MainLoop
  BY <1>3, LoopSeen, Unseen DEF Abstract!Next
<1>4. ~MainBroadcast
  BY DEF MainBroadcast
<1>5. CASE \/ MainReset \/ MainDispatch \/ MainSendNext \/ MainWriteFails \/ MainWriteKills
           \/ MainSum \/ MainPause \/ MainScan \/ MainScanEnd \/ MainClear \/ MainTerm \/ MainJoin
           \/ MainTimeout \/ MainInterrupted \/ MainKilled
  <2>1. UNCHANGED core
    BY <1>5 DEF MainReset, MainDispatch, MainSendNext, MainWriteFails, MainWriteKills, MainSum,
                MainPause, MainScan, MainScanEnd, MainClear, MainTerm, MainJoin, MainTimeout,
                MainInterrupted, MainKilled, ServerDies, core
  <2> QED
    BY <2>1, CoreUnseen, Unseen
<1> QED
  BY <1>1, <1>2, <1>3, <1>4, <1>5 DEF MainStep

LEMMA WorkerSeen ==
  ASSUME NEW t \in Threads, WorkerStep(t)
  PROVE  UNCHANGED seen
<1>1. UNCHANGED <<requests, phase, sent, status, clientVars>>
  BY DEF WorkerStep, WorkerTop, WorkerGate, WorkerPaused, WorkerRecord, WorkerAgain, WorkerFin,
         WorkerDies, WorkerPassEnd, WorkerLoad, WorkerStore, WorkerStats, WorkerCleanup,
         ServerDies, mainVars
<1> QED
  BY <1>1 DEF seen, Announced, Verdict, clientVars

LEMMA ClientSeen ==
  ASSUME Types, Safe, NEW i \in Conns,
         ClientStep(i) \/ ClientTimeout(i) \/ ClientRefused(i) \/ ClientKilled(i)
  PROVE  [Abstract!Next]_(Abstract!vars)
<1>1. CASE ClientPhase1(i)
  BY <1>1, VoteSeen DEF Abstract!Next
<1>2. CASE ClientPhase2(i)
  BY <1>2, DecideSeen DEF Abstract!Next
<1>3. CASE ~ClientPhase1(i) /\ ~ClientPhase2(i)
  <2>1. ClientExit(i)
    BY <1>3 DEF ClientStep, ClientProtocolFailure, ClientEof, ClientWriteFails, ClientTimeout,
                ClientRefused, ClientKilled
  <2>2. UNCHANGED seen
    BY <2>1 DEF ClientExit, seen, Announced, Verdict, mainVars
  <2> QED
    BY <2>2, Unseen
<1> QED
  BY <1>1, <1>2, <1>3

LEMMA StepSeen == ASSUME ~Broadcast PROVE IInv /\ [Next]_vars => [Abstract!Next]_(Abstract!vars)
<1> SUFFICES ASSUME Types, Safe, [Next]_vars
             PROVE  [Abstract!Next]_(Abstract!vars)
  BY IInvIsSafe
<1>1. CASE UNCHANGED vars
  <2>1. UNCHANGED core
    BY <1>1 DEF vars, core, mainVars
  <2> QED
    BY <2>1, CoreUnseen, Unseen
<1>2. CASE \E t \in Threads : WorkerStep(t)
  BY <1>2, WorkerSeen, Unseen
<1>3. CASE Next /\ ~\E t \in Threads : WorkerStep(t)
  BY <1>3, MainSeen, ClientSeen DEF Next, Environment
<1> QED
  BY <1>1, <1>2, <1>3

LEMMA InitSeen == Init => Abstract!Init
<1> SUFFICES ASSUME Init PROVE Abstract!Init
  OBVIOUS
<1>1. \A i \in Conns : Cast(i) = 0
  <2>1. \A i \in Conns : HostId[i] \in 1 .. ClientCount /\ vote_count[i] = HostId[i]
    BY DEF ConfigAssumption, Init
  <2> QED
    BY <2>1 DEF Cast
<1> QED
  BY <1>1 DEF Init, Abstract!Init, Ballot

(***************************************************************************)
(* Over TCP, over UDP that only loses, and over UDP that reorders too when *)
(* no wait times out, every behaviour of the server, its workers and the   *)
(* clients is one of AtomicCommit: verdicts rest on the ballots of their   *)
(* round, everyone learns the same one, and rounds do not overlap,         *)
(* whatever is lost, late, stopping or dead.  (A Q-Jump server that is     *)
(* stopping broadcasts a commit no ballots stand behind.)                  *)
(***************************************************************************)
THEOREM SystemCommitsAtomically == Tame /\ ~Broadcast => (Spec => ImplementsAtomicCommit)
<1> SUFFICES ASSUME Tame, ~Broadcast PROVE Spec => ImplementsAtomicCommit
  OBVIOUS
<1>1. IInv /\ [Next]_vars => [Abstract!Next]_(Abstract!vars)
  BY StepSeen
<1>2. Spec => []IInv
  BY IInvInvariant
<1> QED
  BY <1>1, <1>2, InitSeen, PTL DEF Spec, ImplementsAtomicCommit, Abstract!Spec
=============================================================================
