---------------------------- MODULE ServerWorker ----------------------------
(***************************************************************************)
(* run_thread of q2pc_server_worker.c: worker t polls its connections in   *)
(* turn, records each response in the shared scoreboard and counts it in   *)
(* its own slot of votes_count.  The flags are volatile and looked at only *)
(* between two passes over the connections; votes_count[t]++ is a load and *)
(* a store.  Reading a message from the connection and recording its type  *)
(* is one action: nobody else reads that connection, so only the store to  *)
(* the scoreboard is visible to other threads.                             *)
(***************************************************************************)
EXTENDS Transports

(* Mutant: the worker counts two votes for a response. *)
IncrementedTwice(count) == count + 2

(* The value votes_count[t]++ stores. *)
Incremented(count) == count + 1

(* Mutant: off by one at the end of the statistics. *)
StatsFullLate(idx) == idx > StatsPerThread

(* The statistics are full once stats_idx, just advanced, reaches the end. *)
StatsFull(idx) == idx >= StatsPerThread

(* The top of the loop looks at the stop flag ... *)
WorkerTop(t) ==
  /\ wpc[t] = "top"
  /\ wpc' = [wpc EXCEPT ![t] = IF stop_signal THEN "cleanup" ELSE "gate"]
  /\ UNCHANGED <<wi, loaded, stats_idx, sharedVars, mainVars, clientVars, netVars>>

(* ... then at the pause flag: spin, or poll the connections from lo on. *)
WorkerGate(t) ==
  /\ wpc[t] = "gate"
  /\ wpc' = [wpc EXCEPT ![t] = IF pause_signal THEN "paused" ELSE "poll"]
  /\ UNCHANGED <<wi, loaded, stats_idx, sharedVars, mainVars, clientVars, netVars>>

(* Paused: the worker clears its counter each time round. *)
WorkerPaused(t) ==
  /\ wpc[t] = "paused"
  /\ votes_count' = [votes_count EXCEPT ![t] = 0]
  /\ wpc' = [wpc EXCEPT ![t] = "top"]
  /\ UNCHANGED <<votes_scoreboard, stop_signal, pause_signal, deleted, wi, loaded, stats_idx,
                 mainVars, clientVars, netVars>>

(* beg_read has a response: its type goes to the slot of the sender. *)
WorkerRecord(t) ==
  /\ wpc[t] = "poll" /\ wi[t] < Hi(t)
  /\ "data" \in ReadSays(wi[t])
  /\ votes_scoreboard' = [votes_scoreboard EXCEPT ![Slot(wi[t])] = Head(c2s[wi[t]])]
  /\ c2s' = [c2s EXCEPT ![wi[t]] = Tail(@)]
  /\ wpc' = [wpc EXCEPT ![t] = "load"]
  /\ UNCHANGED <<votes_count, stop_signal, pause_signal, deleted, wi, loaded, stats_idx, s2c,
                 mainVars, clientVars>>

(* beg_read has nothing, Q2PC_EAGAIN: on to the next connection. *)
WorkerAgain(t) ==
  /\ wpc[t] = "poll" /\ wi[t] < Hi(t)
  /\ "again" \in ReadSays(wi[t])
  /\ wi' = [wi EXCEPT ![t] = @ + 1]
  /\ UNCHANGED <<wpc, loaded, stats_idx, sharedVars, mainVars, clientVars, netVars>>

(* beg_read says Q2PC_EFIN: the peer is gone, the server stops. *)
WorkerFin(t) ==
  /\ wpc[t] = "poll" /\ wi[t] < Hi(t)
  /\ "fin" \in ReadSays(wi[t])
  /\ stop_signal' = TRUE
  /\ wpc' = [wpc EXCEPT ![t] = "top"]
  /\ wi' = [wi EXCEPT ![t] = Lo(t)]
  /\ UNCHANGED <<votes_scoreboard, votes_count, pause_signal, deleted, loaded, stats_idx,
                 mainVars, clientVars, netVars>>

(* beg_read does not return. *)
WorkerDies(t) ==
  /\ wpc[t] = "poll" /\ wi[t] < Hi(t)
  /\ "dead" \in ReadSays(wi[t])
  /\ ServerDies

(* The pass over the connections is over. *)
WorkerPassEnd(t) ==
  /\ wpc[t] = "poll" /\ wi[t] = Hi(t)
  /\ wpc' = [wpc EXCEPT ![t] = "top"]
  /\ wi' = [wi EXCEPT ![t] = Lo(t)]
  /\ UNCHANGED <<loaded, stats_idx, sharedVars, mainVars, clientVars, netVars>>

(* Mutant: every worker increments what the first one has counted. *)
WorkerLoadFirst(t) ==
  /\ wpc[t] = "load"
  /\ loaded' = [loaded EXCEPT ![t] = votes_count[0]]
  /\ wpc' = [wpc EXCEPT ![t] = "store"]
  /\ UNCHANGED <<wi, stats_idx, sharedVars, mainVars, clientVars, netVars>>

(* votes_count[thread_id]++, the load. *)
WorkerLoad(t) ==
  /\ wpc[t] = "load"
  /\ loaded' = [loaded EXCEPT ![t] = votes_count[t]]
  /\ wpc' = [wpc EXCEPT ![t] = "store"]
  /\ UNCHANGED <<wi, stats_idx, sharedVars, mainVars, clientVars, netVars>>

(* votes_count[thread_id]++, the store. *)
WorkerStore(t) ==
  /\ wpc[t] = "store"
  /\ votes_count' = [votes_count EXCEPT ![t] = Incremented(loaded[t])]
  /\ loaded' = [loaded EXCEPT ![t] = 0]
  /\ wpc' = [wpc EXCEPT ![t] = "stats"]
  /\ UNCHANGED <<votes_scoreboard, stop_signal, pause_signal, deleted, wi, stats_idx,
                 mainVars, clientVars, netVars>>

(* The response is entered at stats_idx; a full table stops the server. *)
WorkerStats(t) ==
  /\ wpc[t] = "stats"
  /\ stats_idx' = [stats_idx EXCEPT ![t] = @ + 1]
  /\ IF StatsFull(stats_idx[t] + 1)
     THEN /\ stop_signal' = TRUE
          /\ wpc' = [wpc EXCEPT ![t] = "top"]
          /\ wi' = [wi EXCEPT ![t] = Lo(t)]
     ELSE /\ stop_signal' = stop_signal
          /\ wpc' = [wpc EXCEPT ![t] = "poll"]
          /\ wi' = [wi EXCEPT ![t] = @ + 1]
  /\ UNCHANGED <<votes_scoreboard, votes_count, pause_signal, deleted, loaded,
                 mainVars, clientVars, netVars>>

(* The loop is over: the worker deletes its connections and returns. *)
WorkerCleanup(t) ==
  /\ wpc[t] = "cleanup"
  /\ deleted' = [i \in Conns |-> deleted[i] \/ i \in Lo(t) .. Hi(t) - 1]
  /\ wpc' = [wpc EXCEPT ![t] = "done"]
  /\ UNCHANGED <<votes_scoreboard, votes_count, stop_signal, pause_signal, wi, loaded, stats_idx,
                 mainVars, clientVars, netVars>>

WorkerStep(t) ==
  \/ WorkerTop(t)
  \/ WorkerGate(t)
  \/ WorkerPaused(t)
  \/ WorkerRecord(t)
  \/ WorkerAgain(t)
  \/ WorkerFin(t)
  \/ WorkerDies(t)
  \/ WorkerPassEnd(t)
  \/ WorkerLoad(t)
  \/ WorkerStore(t)
  \/ WorkerStats(t)
  \/ WorkerCleanup(t)
============================================================================
