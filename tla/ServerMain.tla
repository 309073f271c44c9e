----------------------------- MODULE ServerMain -----------------------------
(***************************************************************************)
(* The main thread of the server, q2pc_server.c after server_init: rounds  *)
(* of do_phase1 and do_phase2, each of which clears the scoreboard, sends  *)
(* a message on every connection, waits for the workers to count enough    *)
(* responses or for the timeout, raises the pause flag, reads the          *)
(* scoreboard, clears the counters and lowers the flag.                    *)
(*                                                                         *)
(* Every access to memory another thread uses is an action of its own, but *)
(* for a loop's test of stop_signal, taken with the access it guards (the  *)
(* flag is only ever raised); and so is every write to a connection.       *)
(***************************************************************************)
EXTENDS Transports

Broadcast == Transport = "udp_qj"

(* The message of the current phase: do_phase2 turns on what do_phase1 returned. *)
PhaseMessage ==
  IF phase = 1 THEN "request" ELSE IF status = "success" THEN "commit" ELSE "cancel"

(* Control leaves the phase functions for term(0). *)
Terminate == mpc' = "term"

-----------------------------------------------------------------------------
(* Mutant: the loops over the scoreboard go one slot too far. *)
IsSlotOneMore(s) == s <= ClientCount

(* Whether s is a slot of the scoreboard, the guard of the loops over it. *)
IsSlot(s) == s < ClientCount

(* Init the scoreboard. *)
MainReset ==
  /\ mpc = "reset" /\ IsSlot(mi)
  /\ votes_scoreboard' = [votes_scoreboard EXCEPT ![mi] = "lost"]
  /\ mi' = mi + 1
  /\ UNCHANGED <<votes_count, stop_signal, pause_signal, deleted, mpc, phase, sent, total_votes,
                 result, status, requests, workerVars, clientVars, netVars>>

(* Mutant: a failed phase 1 does not end the cluster. *)
HasDecisionAlways(phase1) == TRUE

(* Whether do_phase2 has a decision to send, given what do_phase1 returned. *)
HasDecision(phase1) == phase1 # "cluster_fail"

(* The scoreboard is clear: send the message of the phase, if there is one. *)
MainDispatch ==
  /\ mpc = "reset" /\ mi = ClientCount
  /\ mi' = 0
  /\ IF phase = 2 /\ ~HasDecision(status) THEN Terminate ELSE mpc' = "send"
  /\ UNCHANGED <<phase, sent, total_votes, result, status, requests,
                 sharedVars, workerVars, clientVars, netVars>>

(* send_request over Q-Jump: a single write, on the first connection, reaches every client. *)
MainBroadcast ==
  /\ mpc = "send" /\ Broadcast
  /\ "done" \in WriteSays(0)
  /\ s2c' = [i \in Conns |-> Append(s2c[i], PhaseMessage)]
  /\ sent' = ClientCount
  /\ mpc' = "wait"
  /\ UNCHANGED <<mi, phase, total_votes, result, status, requests, c2s,
                 sharedVars, workerVars, clientVars>>

(* Mutant: off by one, nothing is sent on the last connection. *)
MainSendNextButOne ==
  /\ mpc = "send" /\ ~Broadcast
  /\ IF mi + 1 < ClientCount /\ ~stop_signal
     THEN mpc' = "write" /\ mi' = mi
     ELSE mpc' = "wait" /\ mi' = 0
  /\ UNCHANGED <<phase, sent, total_votes, result, status, requests,
                 sharedVars, workerVars, clientVars, netVars>>

(* send_request: is there a connection left to write to, and no stop? *)
MainSendNext ==
  /\ mpc = "send" /\ ~Broadcast
  /\ IF mi < ClientCount /\ ~stop_signal
     THEN mpc' = "write" /\ mi' = mi
     ELSE mpc' = "wait" /\ mi' = 0
  /\ UNCHANGED <<phase, sent, total_votes, result, status, requests,
                 sharedVars, workerVars, clientVars, netVars>>

(* end_write on connection mi; TCP and UDP are done with it at once. *)
MainWrite ==
  /\ mpc = "write" /\ "done" \in WriteSays(mi)
  /\ \E queue \in Delivered(s2c[mi], PhaseMessage) : s2c' = [s2c EXCEPT ![mi] = queue]
  /\ sent' = sent + 1
  /\ mi' = mi + 1
  /\ mpc' = "send"
  /\ UNCHANGED <<phase, total_votes, result, status, requests, c2s,
                 sharedVars, workerVars, clientVars>>

(* end_write says Q2PC_EFIN: "Cannot complete write request, cluster failed". *)
MainWriteFails ==
  /\ mpc = "write" /\ "fin" \in WriteSays(mi)
  /\ Terminate
  /\ UNCHANGED <<mi, phase, sent, total_votes, result, status, requests,
                 sharedVars, workerVars, clientVars, netVars>>

(* end_write does not return. *)
MainWriteKills ==
  /\ \/ mpc = "write" /\ "dead" \in WriteSays(mi)
     \/ mpc = "send" /\ Broadcast /\ "dead" \in WriteSays(0)
  /\ ServerDies

-----------------------------------------------------------------------------
(* Mutant: only phase 1 has a limit. *)
MainTimeoutPhase1 ==
  /\ mpc = "wait" /\ mi = 0 /\ Timed /\ phase = 1
  /\ mpc' = "pause"
  /\ UNCHANGED <<mi, phase, sent, total_votes, result, status, requests,
                 sharedVars, workerVars, clientVars, netVars>>

(* wait_for_votes gives up; it looks at the clock before each sum. *)
MainTimeout ==
  /\ mpc = "wait" /\ mi = 0 /\ Timed
  /\ mpc' = "pause"
  /\ UNCHANGED <<mi, phase, sent, total_votes, result, status, requests,
                 sharedVars, workerVars, clientVars, netVars>>

(* Mutant: one vote short is enough. *)
EnoughVotesButOne(total) == total >= ClientCount - 1

(* Whether the responses counted are as many as there are clients. *)
EnoughVotes(total) == total >= ClientCount

(* wait_for_votes adds the counter of worker mi; after the last one it looks at the sum. *)
MainSum ==
  /\ mpc = "wait"
  /\ LET total == total_votes + votes_count[mi] IN
     IF mi + 1 < RealThreadCount
     THEN mi' = mi + 1 /\ total_votes' = total /\ mpc' = mpc
     ELSE /\ mi' = 0 /\ total_votes' = 0
          /\ mpc' = IF EnoughVotes(total) THEN "pause" ELSE "wait"
  /\ UNCHANGED <<phase, sent, result, status, requests,
                 sharedVars, workerVars, clientVars, netVars>>

(* dopause_all; the scan starts from success. *)
MainPause ==
  /\ mpc = "pause"
  /\ pause_signal' = TRUE
  /\ result' = "success"
  /\ mpc' = "scan"
  /\ UNCHANGED <<votes_scoreboard, votes_count, stop_signal, deleted, mi, phase, sent, total_votes,
                 status, requests, workerVars, clientVars, netVars>>

-----------------------------------------------------------------------------
(* Mutant: a lost vote is taken for a yes. *)
Judge1LostIsYes(vote, sofar) ==
  CASE vote \in {"vote_yes", "lost"} -> sofar
    [] vote = "vote_no"              -> "fail"
    [] OTHER                         -> "violation"

(* Mutant: a no does not change the result. *)
Judge1NoIsYes(vote, sofar) ==
  CASE vote \in {"vote_yes", "vote_no"} -> sofar
    [] vote = "lost"                    -> "cluster_fail"
    [] OTHER                            -> "violation"

(* Mutant: a lost vote cancels the round instead of failing the cluster. *)
Judge1LostIsNo(vote, sofar) ==
  CASE vote = "vote_yes"           -> sofar
    [] vote \in {"vote_no", "lost"} -> "fail"
    [] OTHER                       -> "violation"

(* Mutant: a lost acknowledgement is taken for one that came. *)
Judge2LostIsAck(answer, sofar) == IF answer \in {"ack", "lost"} THEN sofar ELSE "cluster_fail"

(***************************************************************************)
(* What the scan makes of a slot, given its result so far.  The break of   *)
(* the code leaves the switch and not the loop, so in phase 1 the last     *)
(* slot that is not a yes decides.                                         *)
(***************************************************************************)
Judge1(vote, sofar) ==
  CASE vote = "vote_yes" -> sofar
    [] vote = "vote_no"  -> "fail"
    [] vote = "lost"     -> "cluster_fail"
    [] OTHER             -> "violation"

Judge2(answer, sofar) == IF answer = "ack" THEN sofar ELSE "cluster_fail"

Judge(slot) ==
  IF phase = 1 THEN Judge1(votes_scoreboard[slot], result)
               ELSE Judge2(votes_scoreboard[slot], result)

(* The scan looks at slot mi; an unexpected vote is a "Protocol violation". *)
MainScan ==
  /\ mpc = "scan" /\ IsSlot(mi) /\ ~stop_signal
  /\ IF Judge(mi) = "violation"
     THEN Terminate /\ UNCHANGED <<result, mi>>
     ELSE result' = Judge(mi) /\ mi' = mi + 1 /\ mpc' = mpc
  /\ UNCHANGED <<phase, sent, total_votes, status, requests,
                 sharedVars, workerVars, clientVars, netVars>>

(* The scan is over, at the last slot or because the server is stopping. *)
MainScanEnd ==
  /\ mpc = "scan"
  /\ mi = ClientCount \/ stop_signal
  /\ mi' = 0
  /\ mpc' = "clear"
  /\ UNCHANGED <<phase, sent, total_votes, result, status, requests,
                 sharedVars, workerVars, clientVars, netVars>>

(* The counters are cleared for the next phase. *)
MainClear ==
  /\ mpc = "clear" /\ mi < RealThreadCount
  /\ votes_count' = [votes_count EXCEPT ![mi] = 0]
  /\ mi' = mi + 1
  /\ UNCHANGED <<votes_scoreboard, stop_signal, pause_signal, deleted, mpc, phase, sent, total_votes,
                 result, status, requests, workerVars, clientVars, netVars>>

(* unpause_all, and the end of the phase: from phase 1 to 2, from 2 back to the loop. *)
MainUnpause ==
  /\ mpc = "clear" /\ mi = RealThreadCount
  /\ pause_signal' = FALSE
  /\ mi' = 0
  /\ IF phase = 1
     THEN phase' = 2 /\ status' = result /\ sent' = 0 /\ mpc' = "reset"
     ELSE /\ UNCHANGED <<phase, status, sent>>
          /\ IF result = "cluster_fail" THEN Terminate ELSE mpc' = "loop"
  /\ UNCHANGED <<votes_scoreboard, votes_count, stop_signal, deleted, total_votes, result, requests,
                 workerVars, clientVars, netVars>>

(* The loop of run_server: the result is reported, then another round or the end. *)
MainLoop ==
  /\ mpc = "loop"
  /\ IF stop_signal
     THEN Terminate /\ UNCHANGED <<requests, phase, status, sent>>
     ELSE /\ requests' = requests + 1
          /\ phase' = 1 /\ status' = "success" /\ sent' = 0
          /\ mpc' = "reset"
  /\ UNCHANGED <<mi, total_votes, result,
                 sharedVars, workerVars, clientVars, netVars>>

-----------------------------------------------------------------------------
(* cleanup raises the stop flag *)
MainTerm ==
  /\ mpc = "term"
  /\ stop_signal' = TRUE
  /\ mpc' = "join"
  /\ UNCHANGED <<votes_scoreboard, votes_count, pause_signal, deleted, mi, phase, sent, total_votes,
                 result, status, requests, workerVars, clientVars, netVars>>

(* ... joins the workers, writes the statistics and exits. *)
MainJoin ==
  /\ mpc = "join"
  /\ \A t \in Threads : wpc[t] = "done"
  /\ mpc' = "exit"
  /\ UNCHANGED <<mi, phase, sent, total_votes, result, status, requests,
                 sharedVars, workerVars, clientVars, netVars>>

(* SIGINT or SIGTERM on the main thread: the handler is term, and term does not return. *)
MainInterrupted ==
  /\ Interruptible
  /\ mpc \notin {"term", "join", "exit"}
  /\ Terminate
  /\ UNCHANGED <<mi, phase, sent, total_votes, result, status, requests,
                 sharedVars, workerVars, clientVars, netVars>>

(* SIGKILL, or the machine is gone. *)
MainKilled ==
  /\ Interruptible
  /\ mpc # "exit"
  /\ ServerDies

(* What the main thread does of its own accord, the passing of time left out. *)
MainStep ==
  \/ MainReset
  \/ MainDispatch
  \/ MainBroadcast
  \/ MainSendNext
  \/ MainWrite
  \/ MainWriteFails
  \/ MainWriteKills
  \/ MainSum
  \/ MainPause
  \/ MainScan
  \/ MainScanEnd
  \/ MainClear
  \/ MainUnpause
  \/ MainLoop
  \/ MainTerm
  \/ MainJoin
============================================================================
