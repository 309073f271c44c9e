-------------------------------- MODULE Q2PC --------------------------------
(***************************************************************************)
(* The whole system over a transport without a handshake of its own (TCP,  *)
(* UDP, Q-Jump): the main thread of the server, its workers, the clients   *)
(* and the network between them.                                           *)
(***************************************************************************)
EXTENDS ServerMain, ServerWorker, Client

(* Where server_init leaves the server and init the clients. *)
Init ==
  /\ votes_scoreboard = [s \in Conns |-> "request"]  \* bzero: message type 0
  /\ votes_count = [t \in Threads |-> 0]
  /\ stop_signal = FALSE /\ pause_signal = FALSE
  /\ deleted = [i \in Conns |-> FALSE]
  /\ mpc = "reset" /\ mi = 0 /\ phase = 1 /\ sent = 0 /\ total_votes = 0
  /\ result = "success" /\ status = "success" /\ requests = 0
  /\ wpc = [t \in Threads |-> "top"]
  /\ wi = [t \in Threads |-> Lo(t)]
  /\ loaded = [t \in Threads |-> 0]
  /\ stats_idx = [t \in Threads |-> 0]
  /\ cpc = [i \in Conns |-> "phase1"]
  /\ vote_count = [i \in Conns |-> HostId[i]]
  /\ outcome = [i \in Conns |-> "none"]
  /\ s2c = [i \in Conns |-> <<>>]
  /\ c2s = [i \in Conns |-> <<>>]

(* The steps nothing obliges anyone to take: time running out, operators. *)
Environment ==
  \/ MainTimeout
  \/ MainInterrupted
  \/ MainKilled
  \/ \E i \in Conns : ClientTimeout(i) \/ ClientRefused(i) \/ ClientKilled(i)

Next ==
  \/ MainStep
  \/ \E t \in Threads : WorkerStep(t)
  \/ \E i \in Conns : ClientStep(i)
  \/ Environment

Spec == Init /\ [][Next]_vars

(***************************************************************************)
(* Every thread and every client is scheduled again and again.  A timeout  *)
(* that has run out stays run out: the main thread looks at the clock each *)
(* time round its loop, hence strong fairness; the client, on every read   *)
(* that finds nothing.                                                     *)
(***************************************************************************)
Fairness ==
  /\ WF_vars(MainStep)
  /\ \A t \in Threads : WF_vars(WorkerStep(t))
  /\ \A i \in Conns : WF_vars(ClientStep(i))
  /\ SF_vars(MainTimeout)
  /\ \A i \in Conns : WF_vars(ClientTimeout(i))

FairSpec == Spec /\ Fairness

-----------------------------------------------------------------------------
TypeOK ==
  /\ votes_scoreboard \in [Conns -> Requests \cup Responses \cup {"lost"}]
  /\ votes_count \in [Threads -> Nat]
  /\ stop_signal \in BOOLEAN /\ pause_signal \in BOOLEAN
  /\ deleted \in [Conns -> BOOLEAN]
  /\ mpc \in {"reset", "send", "write", "wait", "pause", "scan", "clear", "loop",
              "term", "join", "exit"}
  /\ mi \in 0 .. ClientCount
  /\ phase \in {1, 2}
  /\ sent \in 0 .. ClientCount
  /\ total_votes \in Nat
  /\ result \in {"success", "fail", "cluster_fail"}
  /\ status \in {"success", "fail", "cluster_fail"}
  /\ requests \in Nat
  /\ wpc \in [Threads -> {"top", "gate", "paused", "poll", "load", "store", "stats", "cleanup", "done"}]
  /\ wi \in [Threads -> 0 .. ClientCount]
  /\ loaded \in [Threads -> Nat]
  /\ stats_idx \in [Threads -> Nat]
  /\ cpc \in [Conns -> {"phase1", "phase2", "exited"}]
  /\ vote_count \in [Conns -> Nat]
  /\ outcome \in [Conns -> {"none", "commit", "cancel"}]
  /\ s2c \in [Conns -> Seq(Requests)]
  /\ c2s \in [Conns -> Seq(Responses)]

(***************************************************************************)
(* Atomic commitment, the first half: a client carries out a commit only   *)
(* if every client has voted, and voted yes, in that client's round.  The  *)
(* scoreboard, its reset and the order of the phases are all there is to   *)
(* tell a vote of this round from one of an earlier round.                 *)
(***************************************************************************)
CommitValid ==
  \A i \in Conns : outcome[i] = "commit" =>
    \A j \in Conns : Cast(j) >= Cast(i) /\ YesIn(j, Cast(i) - 1)

(***************************************************************************)
(* Atomic commitment, the second half: a client cancels only if some       *)
(* client has voted no in that client's round; a timeout or a lost message *)
(* cancels nothing.  With CommitValid, no two clients differ on a round.   *)
(***************************************************************************)
CancelValid ==
  \A i \in Conns : outcome[i] = "cancel" =>
    \E j \in Conns : Cast(j) >= Cast(i) /\ ~YesIn(j, Cast(i) - 1)

(***************************************************************************)
(* What run_server reports is so: when it reports the round's result and   *)
(* is not stopping, every client has carried out just that decision, in    *)
(* that round.                                                             *)
(***************************************************************************)
Verdict == IF status = "success" THEN "commit" ELSE "cancel"
Reported == \A i \in Conns : Cast(i) = requests + 1 /\ outcome[i] = Verdict
ReportTrue == mpc = "loop" /\ ~stop_signal => Reported

(***************************************************************************)
(* When no wait times out, the counters are as good as the scoreboard:     *)
(* once they add up to the number of clients, every client's response is   *)
(* in its slot (the workers store the response before they count it).      *)
(***************************************************************************)
CountedIsRecorded ==
  mpc = "pause" => \A s \in Conns : votes_scoreboard[s] # "lost"

(* The response of the client on connection i is in its slot. *)
Recorded(i) == votes_scoreboard[Slot(i)] # "lost"

(* Worker t is in the middle of votes_count[t]++ for connection wi[t]. *)
Counting(t) == wpc[t] \in {"load", "store"}

(* The connections from lo to hi - 1 whose response is in its slot and has been counted. *)
Counted(lo, hi) ==
  {i \in Conns : lo <= i /\ i < hi /\ Recorded(i) /\ \A t \in Threads : Counting(t) => wi[t] # i}

(***************************************************************************)
(* When no wait times out, no response is counted twice and none is        *)
(* forgotten.  A worker that looked at the pause flag just before it was   *)
(* lowered clears its counter when the next phase is under way; by then it *)
(* must not have counted anything, or wait_for_votes would wait for ever.  *)
(***************************************************************************)
CountsAreExact ==
  mpc \in {"send", "write", "wait"} =>
    \A t \in Threads : votes_count[t] = Cardinality(Counted(Lo(t), Hi(t)))

(***************************************************************************)
(* When no wait times out and nothing fails, the server never waits for a  *)
(* response nobody is going to send: as long as a slot is empty, there is  *)
(* a message on the connection for the client, or for the worker, to read. *)
(***************************************************************************)
ResponsesAreComing ==
  mpc = "wait" /\ ~stop_signal =>
    \A i \in Conns : ~Recorded(i) => s2c[i] # <<>> \/ c2s[i] # <<>>

(***************************************************************************)
(* When no wait times out, no count survives into the next phase: while    *)
(* the scoreboard is reset for it, every counter is zero and no worker is  *)
(* between its load and its store of one.                                  *)
(***************************************************************************)
CountsStartAtZero ==
  mpc = "reset" => \A t \in Threads : votes_count[t] = 0 /\ wpc[t] \notin {"load", "store"}

(***************************************************************************)
(* When no wait times out, the two ends of a connection take turns: there  *)
(* is never more than one message in it.  The workers and the client use a *)
(* message for a while after end_read, when the TCP delimiter may no       *)
(* longer hold it if more was read (see OutlivesRead of TcpDelimiter).     *)
(***************************************************************************)
OneInFlight == \A i \in Conns : Len(s2c[i]) + Len(c2s[i]) <= 1

(* No worker enters a response past the end of its statistics. *)
StatsInBounds ==
  \A t \in Threads : wpc[t] = "stats" => stats_idx[t] < StatsPerThread

(***************************************************************************)
(* Over Q-Jump, where a stopping server still broadcasts a decision it has *)
(* not read the votes for, the commits of a server that is not stopping    *)
(* are valid.                                                              *)
(***************************************************************************)
CommitValidUnlessStopping == ~stop_signal => CommitValid

-----------------------------------------------------------------------------
(***************************************************************************)
(* The whole system implements AtomicCommit.  A round's verdict is taken   *)
(* when send_request puts the first copy of the decision on a connection.  *)
(***************************************************************************)
Ballot(i) ==
  IF Cast(i) = 0 THEN "none" ELSE IF VotesYes(vote_count[i] - 1) THEN "yes" ELSE "no"

Abstract == INSTANCE AtomicCommit WITH
  Participants <- Conns,
  round   <- requests,
  verdict <- IF phase = 2 /\ sent > 0 THEN Verdict ELSE "none",
  cast    <- [i \in Conns |-> Cast(i)],
  ballot  <- [i \in Conns |-> Ballot(i)]

(* Every step of the threads, the clients and the network is a step of AtomicCommit or none. *)
ImplementsAtomicCommit == Abstract!Spec

-----------------------------------------------------------------------------
(***************************************************************************)
(* Without failures and without a limit on the waits, no round hangs: the  *)
(* server keeps completing rounds until a worker's statistics are full.    *)
(***************************************************************************)
RoundsEnd == []<>(mpc = "loop" \/ stop_signal)

(* With a limit on the waits, a server told to stop exits: no thread waits for another for ever. *)
StopEnds == stop_signal ~> mpc = "exit"

(***************************************************************************)
(* With a limit on the waits, no client waits for a decision for ever,     *)
(* also when the decision was lost or never sent, the server having        *)
(* failed, given up or run out of statistics.                              *)
(***************************************************************************)
DecisionAwaited == \A i \in Conns : cpc[i] = "phase2" ~> cpc[i] # "phase2"

(* Over TCP the end of the server ends every client, also one that waits without limit. *)
ClientsFollow == mpc = "exit" ~> \A i \in Conns : cpc[i] = "exited"

-----------------------------------------------------------------------------
(* What the comments and messages of the code say, and the code does not do. *)

(* q2pc_server.c:454, "message lost, cluster failed": a vote missing from the scan fails the cluster. *)
LostFailsCluster ==
  /\ phase = 1 /\ mpc = "clear" /\ ~stop_signal
  /\ \E s \in Conns : votes_scoreboard[s] = "lost"
  => result = "cluster_fail"

(***************************************************************************)
(* README.md:4, "A 2PC system": when each client has voted once in every   *)
(* round and one of them voted no in this one, the server does not turn to *)
(* writing a commit (q2pc_server.c:445).                                   *)
(***************************************************************************)
NoIsHeeded ==
  /\ phase = 2 /\ mpc = "write" /\ sent = 0 /\ Verdict = "commit"
  /\ \A i \in Conns : Cast(i) = requests + 1
  => \A i \in Conns : YesIn(i, requests)

(* q2pc_server_worker.c:144, "We're done with the connections now": the main thread writes to none of them. *)
DoneWithConnections == mpc = "write" => ~deleted[mi]
============================================================================
