--------------------------- MODULE Q2PCInductive ---------------------------
(***************************************************************************)
(* The inductive invariant behind the safety of Q2PC over TCP, Q-Jump, and *)
(* a UDP that loses datagrams but neither repeats nor reorders them.  It   *)
(* says where each client stands in the server's current round, what is    *)
(* left in its two queues, and what each place of the main thread knows.   *)
(***************************************************************************)
EXTENDS Q2PC

(* What the loops of the server keep about their indices. *)
Control ==
  /\ mpc = "wait" => mi \in Threads
  /\ mpc = "write" => mi \in Conns
  /\ mpc \in {"pause", "loop"} => mi = 0
  /\ mpc = "reset" => sent = 0
  /\ mpc \in {"send", "write"} => sent = mi
  /\ Broadcast => mpc # "write" /\ (mpc = "send" => mi = 0)
  /\ \A t \in Threads : wpc[t] \in {"load", "store", "stats"} => wi[t] \in Conns

Types == TypeOK /\ Control

-----------------------------------------------------------------------------
(* Where a client stands in round requests. *)
NotYet(i) == Cast(i) = requests
Voted(i)  == Cast(i) = requests + 1

MyVote(i) == IF YesIn(i, requests) THEN "vote_yes" ELSE "vote_no"

AllYes == \A i \in Conns : Voted(i) /\ YesIn(i, requests)
SomeNo == \E i \in Conns : Voted(i) /\ ~YesIn(i, requests)

(* The client has not voted: it may have a request to read, and the decision after it. *)
Idle(i) ==
  /\ NotYet(i)
  /\ c2s[i] = <<>>
  /\ Alive(i) =>
       /\ cpc[i] = "phase1"
       /\ \/ s2c[i] = <<>>
          \/ s2c[i] = <<"request">> /\ (phase = 2 \/ i < sent)
          \/ s2c[i] = <<Verdict>> /\ phase = 2 /\ i < sent
          \/ s2c[i] = <<"request", Verdict>> /\ phase = 2 /\ i < sent

(* The client has voted and knows no decision. *)
Waiting(i) ==
  /\ Voted(i)
  /\ phase = 2 \/ i < sent
  /\ outcome[i] = "none"
  /\ c2s[i] = <<>> \/ c2s[i] = <<MyVote(i)>>
  /\ Alive(i) =>
       /\ cpc[i] = "phase2"
       /\ \/ s2c[i] = <<>>
          \/ s2c[i] = <<Verdict>> /\ phase = 2 /\ i < sent

(* The client knows the decision. *)
Knows(i) ==
  /\ Voted(i)
  /\ phase = 2 /\ i < sent
  /\ outcome[i] = Verdict
  /\ \/ c2s[i] = <<>>
     \/ c2s[i] = <<MyVote(i)>>
     \/ c2s[i] = <<"ack">>
     \/ c2s[i] = <<MyVote(i), "ack">>
  /\ Alive(i) => cpc[i] = "phase1" /\ s2c[i] = <<>>

Clients == \A i \in Conns : Idle(i) \/ Waiting(i) \/ Knows(i)

-----------------------------------------------------------------------------
(* The scoreboard has been reset for this phase up to slot s. *)
Ready(s) ==
  \/ mpc \in {"send", "write", "wait", "pause", "scan", "clear", "loop"}
  \/ mpc = "reset" /\ s < mi

(* The client's latest answer of this phase is in its slot, and none is on its way. *)
Answered(i) == Voted(i) /\ c2s[i] = <<>> /\ (phase = 2 => i < sent /\ outcome[i] = Verdict)

Scoreboard ==
  \A i \in Conns : Ready(Slot(i)) =>
    LET vote == votes_scoreboard[Slot(i)] IN
    IF phase = 1
    THEN vote = "lost" \/ (vote = MyVote(i) /\ Answered(i))
    ELSE vote \in {"lost", "vote_yes", "vote_no"} \/ (vote = "ack" /\ Answered(i))

(* What the scan knows, slot by slot. *)
Scanned ==
  /\ mpc \in {"scan", "clear", "loop"} =>
       IF phase = 1 THEN result = "fail" => SomeNo ELSE result # "fail"
  /\ mpc = "scan" /\ result = "success" =>
       \A i \in Conns : Slot(i) < mi => Answered(i) /\ (phase = 1 => YesIn(i, requests))
  /\ mpc \in {"clear", "loop"} /\ result = "success" /\ ~stop_signal =>
       \A i \in Conns : Answered(i) /\ (phase = 1 => YesIn(i, requests))
  /\ mpc = "loop" => phase = 2 /\ result = "success"

(* A stop skipped the scan of the votes; only Q-Jump sends a decision all the same. *)
Unread == stop_signal /\ (Broadcast \/ (sent = 0 /\ mpc # "write"))

(* What stands behind the decision of phase 2. *)
Decision ==
  phase = 2 =>
    /\ status = "success" => AllYes \/ Unread
    /\ status = "fail" => SomeNo
    /\ status = "cluster_fail" => sent = 0 /\ mpc \in {"reset", "term", "join", "exit"}

(* The commits somebody vouches for: over Q-Jump, those of a server that is not stopping. *)
Vouched == CommitValid \/ (Broadcast /\ stop_signal)

IInv ==
  /\ Types
  /\ Clients
  /\ Scoreboard
  /\ Scanned
  /\ Decision
  /\ Vouched
  /\ CancelValid

(* The networks that keep the order of messages, and repeat none. *)
Orderly == Faults \subseteq {"loss"}
=============================================================================
