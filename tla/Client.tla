------------------------------- MODULE Client -------------------------------
(***************************************************************************)
(* The client, q2pc_client.c, from the point where init has connected it:  *)
(* it alternates do_phase1 (wait for a request without limit, vote) and    *)
(* do_phase2 (wait for the decision, acknowledge it), and terminates on    *)
(* anything it does not expect.  It is a single thread: receiving a        *)
(* message and writing the response to it is one action.                   *)
(***************************************************************************)
EXTENDS Transports

Alive(i) == ~Exited(i)

(* Mutant: the two branches of the vote are swapped. *)
VoteSwapped(count) == IF VotesYes(count) THEN "vote_no" ELSE "vote_yes"

(* The vote do_phase1 sends. *)
Vote(count) == IF VotesYes(count) THEN "vote_yes" ELSE "vote_no"

(* do_phase1: a request is answered with a vote. *)
ClientPhase1(i) ==
  /\ cpc[i] = "phase1"
  /\ s2c[i] # <<>> /\ Head(s2c[i]) = "request"
  /\ s2c' = [s2c EXCEPT ![i] = Tail(@)]
  /\ \E queue \in Delivered(c2s[i], Vote(vote_count[i])) : c2s' = [c2s EXCEPT ![i] = queue]
  /\ vote_count' = [vote_count EXCEPT ![i] = @ + 1]
  /\ cpc' = [cpc EXCEPT ![i] = "phase2"]
  /\ outcome' = [outcome EXCEPT ![i] = "none"]
  /\ UNCHANGED <<sharedVars, mainVars, workerVars>>

(* do_phase2: a decision is carried out and acknowledged. *)
ClientPhase2(i) ==
  /\ cpc[i] = "phase2"
  /\ s2c[i] # <<>> /\ Head(s2c[i]) \in {"commit", "cancel"}
  /\ s2c' = [s2c EXCEPT ![i] = Tail(@)]
  /\ \E queue \in Delivered(c2s[i], "ack") : c2s' = [c2s EXCEPT ![i] = queue]
  /\ outcome' = [outcome EXCEPT ![i] = Head(s2c[i])]
  /\ cpc' = [cpc EXCEPT ![i] = "phase1"]
  /\ UNCHANGED <<vote_count, sharedVars, mainVars, workerVars>>

(* The client terminates: term(0), the process is gone. *)
ClientExit(i) ==
  /\ cpc' = [cpc EXCEPT ![i] = "exited"]
  /\ UNCHANGED <<vote_count, outcome, sharedVars, mainVars, workerVars>>

(* The message is not one the phase expects: "Protocol failure". *)
ClientProtocolFailure(i) ==
  /\ \/ cpc[i] = "phase1" /\ s2c[i] # <<>> /\ Head(s2c[i]) # "request"
     \/ cpc[i] = "phase2" /\ s2c[i] # <<>> /\ Head(s2c[i]) = "request"
  /\ s2c' = [s2c EXCEPT ![i] = Tail(@)]
  /\ c2s' = c2s
  /\ ClientExit(i)

(* Mutant: do_phase2 waits without limit too. *)
GivesUpNever(i) == FALSE

(* get_messge has a limit in phase 2 only, and looks at the clock when there is nothing to read. *)
GivesUp(i) == Timed /\ cpc[i] = "phase2" /\ s2c[i] = <<>>

(* get_messge times out. *)
ClientTimeout(i) ==
  /\ GivesUp(i)
  /\ ClientExit(i)
  /\ UNCHANGED netVars

(***************************************************************************)
(* The server has closed the TCP connection and the client's read says so: *)
(* gracefully once everything sent is read, or by a reset when the server  *)
(* closed with responses unread.                                           *)
(***************************************************************************)
EndOfStream(i) ==
  /\ Transport = "tcp_ln" /\ deleted[i]
  /\ s2c[i] = <<>> \/ c2s[i] # <<>>

(* Mutant: only a client waiting for a decision looks for the end of the stream. *)
ClientEofPhase2(i) ==
  /\ EndOfStream(i)
  /\ cpc[i] = "phase2"
  /\ ClientExit(i)
  /\ UNCHANGED netVars

(* The read fails: "Server has terminated. Cannot continue". *)
ClientEof(i) ==
  /\ EndOfStream(i)
  /\ Alive(i)
  /\ ClientExit(i)
  /\ UNCHANGED netVars

(***************************************************************************)
(* The read fails: a response reached a closed UDP port and the refusal    *)
(* came back.  Nothing guarantees that it does, and only this transport    *)
(* writes to the socket it reads from.                                     *)
(***************************************************************************)
ClientRefused(i) ==
  /\ Transport = "udp_ln" /\ deleted[i]
  /\ Alive(i)
  /\ c2s[i] # <<>>
  /\ ClientExit(i)
  /\ UNCHANGED netVars

(* The response cannot be written, the server's end is closed. *)
ClientWriteFails(i) ==
  /\ MayBeClosed(i)
  /\ Alive(i)
  /\ s2c[i] # <<>>
  /\ s2c' = [s2c EXCEPT ![i] = Tail(@)]
  /\ c2s' = c2s
  /\ ClientExit(i)

(* An operator kills the client. *)
ClientKilled(i) ==
  /\ i \in Killable /\ Alive(i)
  /\ ClientExit(i)
  /\ UNCHANGED netVars

(* What a client does of its own accord. *)
ClientStep(i) ==
  \/ ClientPhase1(i)
  \/ ClientPhase2(i)
  \/ ClientProtocolFailure(i)
  \/ ClientEof(i)
  \/ ClientWriteFails(i)
============================================================================
