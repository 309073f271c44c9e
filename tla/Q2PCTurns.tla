----------------------------- MODULE Q2PCTurns -----------------------------
(***************************************************************************)
(* The inductive invariant behind what holds of Q2PC when no wait times    *)
(* out and the network repeats nothing: server and client take turns on    *)
(* each connection, and a worker's counter never runs ahead of the         *)
(* responses of this phase that are in the scoreboard.                     *)
(***************************************************************************)
EXTENDS Q2PCInductive

(* The networks the invariant is about: a response may be lost or late, not repeated. *)
Prompt == ~Timed /\ "duplication" \notin Faults

(* The networks over which every round's decision is safe, for one reason or the other. *)
Tame == Orderly \/ Prompt

Empty(i) == s2c[i] = <<>> /\ c2s[i] = <<>>

-----------------------------------------------------------------------------
(* A worker counts only for the connections of its range. *)
Ranges == \A t \in Threads : Lo(t) <= wi[t] /\ (Counting(t) => wi[t] < Hi(t))

(* While the responses of a phase come in. *)
Coming == mpc \in {"send", "write", "wait"}

Turns ==
  Coming =>
    /\ \A i \in Conns : Recorded(i) => Empty(i)
    /\ mpc # "wait" => \A i \in Conns : i >= sent => Empty(i) /\ ~Recorded(i)

Counters ==
  Coming =>
    /\ \A t \in Threads :
         /\ Counting(t) => Recorded(wi[t])
         /\ wpc[t] = "store" => loaded[t] = votes_count[t]
         /\ wpc[t] = "paused" => votes_count[t] = 0
         /\ votes_count[t] = Cardinality(Counted(Lo(t), Hi(t)))
    /\ \A t, u \in Threads : Counting(t) /\ Counting(u) /\ wi[t] = wi[u] => t = u
    /\ mpc = "wait" => total_votes <= Cardinality(Counted(0, Lo(mi)))
    /\ mpc # "wait" => total_votes = 0

(* Between the end of one phase's wait and the first message of the next. *)
Settled ==
  mpc \in {"pause", "scan", "clear", "loop", "reset"} =>
    /\ \A i \in Conns : Empty(i)
    /\ \A t \in Threads : ~Counting(t)
    /\ mpc = "pause" => \A i \in Conns : Recorded(i)
    /\ mpc = "clear" => \A t \in Threads : t < mi => votes_count[t] = 0
    /\ mpc \in {"loop", "reset"} => \A t \in Threads : votes_count[t] = 0
    /\ mpc = "reset" => \A s \in Conns : s < mi => votes_scoreboard[s] = "lost"
    /\ total_votes = 0

TurnSafe == Ranges /\ OneInFlight /\ Turns /\ Counters /\ Settled

(* The pause flag is up between the wait and the next phase only, but for the end. *)
PauseSafe == pause_signal => mpc \in {"scan", "clear", "term", "join", "exit"}

TurnsInv == Types /\ PauseSafe /\ TurnSafe

-----------------------------------------------------------------------------
(* Nothing fails, but an operator may interrupt or kill the server. *)
Lossless == Prompt /\ Faults = {} /\ Killable = {}

Running == ~stop_signal /\ mpc \notin {"term", "join", "exit"}

(* No worker is leaving and no client has left. *)
Present ==
  /\ \A t \in Threads : wpc[t] \notin {"cleanup", "done"}
  /\ \A i \in Conns : Alive(i) /\ ~deleted[i]

(* Once the server has stopped waiting for votes, all have been cast. *)
AllVoted == phase = 2 \/ mpc \in {"scan", "clear"} => \A i \in Conns : Voted(i)

(* The message sent to a client, or its response, is on its way, or the response in its slot. *)
OnTheWay == Coming => \A i \in Conns : mpc = "wait" \/ i < sent => Recorded(i) \/ ~Empty(i)

Attended == Running => Present /\ AllVoted /\ OnTheWay
=============================================================================
