# A verification development for q2pc

q2pc is a two-phase-commit benchmark: a server asks its clients to vote, sends
the decision and collects acknowledgements, round after round, over one of four
transports. This directory holds TLA+ models of it, TLC configurations that
check them on small instances, and TLAPS proofs of their main properties. Paths
below are relative to the repository root; `server` stands for
`src/server/q2pc_server.c`, `worker` for `src/server/q2pc_server_worker.c`,
`client` for `src/client/q2pc_client.c`, `tcp`, `udp`, `qj`, `rudp` for
`src/transport/q2pc_trans_*.c`.

## 1. Inventory of the system

| Part | State | Operations | Talks to |
|---|---|---|---|
| Server main thread (`server` 277-595) | round, phase, result of the scan | reset, send, wait, pause, scan, clear, unpause, report, term | workers (shared memory), clients (writes) |
| Worker threads (`worker`) | position in its range, `stats_idx`, its slot of `votes_count` | poll, record, count, statistics, stop, delete connections | main thread (`votes_scoreboard`, `votes_count`, `stop_signal`, `pause_signal`), clients (reads) |
| Client (`client`) | phase, `vote_count` | receive, vote, acknowledge, time out, terminate | server |
| TCP (`tcp`) | read buffer, delimiter buffer | `beg/end_read`, `beg/end_write`, `delete`, `connect` | the kernel |
| UDP (`udp`) | read buffer, `is_connected` | the same | the kernel |
| Q-Jump (`qj`) | the same, two sockets | the same; a write is a broadcast | the network |
| RUDP (`rudp`) | `seq_no`, `current_seq`, `ack_outstanding` | the same over UDP, with retransmission | UDP |
| Connection establishment (`server` 133-179, `client` 40-103) | `connected`, `cons` | connect, read or write the connection message | transports |
| Shutdown (`server` 50-125) | `stop_signal`, thread handles | raise the flag, join, write statistics, exit; also the signal handler | workers |
| Connections per thread (`server` 217-259) | `lo`, `hi`, share of the statistics | computed once | workers |
| Command line (`src/q2pc.c`) | options | parse, check | everything |

The parts that are hard: the main thread and the workers share four variables
with no lock, only `volatile` and compiler barriers; the pause flag is a request
and not a barrier; messages carry neither round nor phase, so that only the
scoreboard's reset and the order of the phases tell a vote from an older one;
the wait for votes ends by count or by clock; a stop can be raised by any
worker at any time and is looked at in some loops and not in others; transports
differ in what they lose and in how they report a peer that is gone.

What makes each part correct:

* **Rounds** (main thread, workers, clients together): a commit only on all
  yes votes of that round, a cancel only on a no of that round, a report only
  of what every client has carried out; without failures every round ends.
* **Workers and main thread**: counters agree with the scoreboard; no count
  survives into the next phase; the statistics are not overrun; a stop ends
  every thread.
* **Clients**: none waits for a decision for ever.
* **TCP delimiter**: messages whole, in order, none left behind, usable for as
  long as their readers use them.
* **RUDP**: each request gets the response to it, once, or the sender hears of
  the failure.
* **Connection establishment**: it returns only when every connection leads to a
  client of its own, and if all clients come it does return.
* **Connections per thread**: every connection belongs to exactly one thread.
* **Shutdown**: every thread joined once, memory freed once.

The hazards behind these, each at its line, are listed in `PROJECT.json`.

## 2. Modules

```
Q2PCGlobals        constants, state, messages             AtomicCommit   (abstract)
  Transports       what reads and writes may answer            ^
    ServerMain     main thread                                 | refinement
    ServerWorker   workers                                     |
    Client         clients                                     |
      Q2PC         the system, its properties -----------------+
        Q2PCInductive          the inductive invariant of validity
          Q2PCTurns            the inductive invariant of the counters
            MCQ2PC             instances for TLC
        Q2PCTypeProofs         TypeOK, StatsInBounds
          Q2PCTurnsProofs      the counters: CountsAreExact, OneInFlight, ...
            Q2PCSafetyProofs   CommitValid, CancelValid, ReportTrue
              Q2PCRefinementProofs  ImplementsAtomicCommit
              Q2PCWaitProofs        ResponsesAreComing
TcpDelimiter -- refinement --> MessageQueue (abstract)
  TcpDelimiterProofs
Rudp         -- refinement --> Exchange (abstract)
  RudpProofs
Startup            from the command line to Q2PC's initial state
  MCStartup        instance for TLC
  StartupProofs
```

**Q2PC** starts where `server_init` has returned: every client connected, its
connection message consumed. A connection, the client at its far end and, by
`HostId`, that client's slot of the scoreboard share one index. Two corners of that
moment are left out: a late copy of a connection message, which a UDP that
duplicates may deliver to a worker, and a worker that ends (`EFIN`) before
`run_server` has tested `stop_signal` for the first time (`server` 563); the model's
first step is already that of round 0.

*Main thread.* `mpc` walks `reset -> send/write -> wait -> pause -> scan ->
clear -> (loop)`, twice a round, `phase` telling `do_phase1` from `do_phase2`.
Each reset of a slot, write to a connection, read of a counter or slot, and
change of a flag is a step. A loop's test of `stop_signal` is taken with the
access it guards: the flag is only ever raised. The scan keeps the code's
`break`, which leaves the `switch` and not the loop. `term` is `MainTerm` and
`MainJoin`; a signal enters `term` from anywhere (`MainInterrupted`).

*Workers.* `wpc` walks `top` (stop flag), `gate` (pause flag), `poll`, `load`
and `store` (the two halves of `votes_count[t]++`), `stats`; or `paused`, where
the worker clears its own counter; and in the end `cleanup`, `done`.

*Clients.* A client is one thread, so receiving a message and writing the
response is one step. The vote is the code's function of the number of votes
cast (`vote_count % 5`, the 5 a constant `VoteMod`). `outcome` records what
`do_phase2` returned; `Cast(i)`, from `vote_count`, tells the client's round.

*Network.* Two queues of message types per connection. TCP and the Q-Jump
network deliver each message once and in order; UDP may lose, repeat and
reorder, as `Faults` says. `ReadSays` and `WriteSays` give the answers a
transport's calls may return, including that the process does not survive
(`ch_log_fatal`, or SIGPIPE, which nobody handles). A message survives in the
queues when its reader is gone; a deleted connection may fail or kill a later
write to it (its memory has been freed).

**AtomicCommit** is what the system promises: ballots cast once a round, a
verdict that commits only on all yes and cancels only on a no, a new round when
all know the verdict. Under the mapping in `Q2PC` a round's verdict falls when
`send_request` puts the first copy of the decision on a connection.

**TcpDelimiter** models `conn_beg_delimit` and `conn_end_delimit` byte by byte,
the contents of `delim_buffer` included, for every way the stream may be cut
into reads. `Done` marks the point where the caller stops using the message,
which is later than its call of `end_read`: the client answers from it
(`client` 134, 181-183), the worker enters it in the statistics (`worker` 106,
120-124). **MessageQueue** is the queue that the TCP connections of `Transports`
are.

**Rudp** models one RUDP connection with the three threads that use it. The
server's main thread (`mpc`) writes a request and polls `end_write`, which sends,
samples `seq_no` and waits for it to change; the worker (`wpc`) reads responses,
and it is its read that moves `seq_no`; the client (`cpc`) does all of this
itself. The flag `is_server` is true at the *client* (`rudp` 309), so that the
branches of `conn_beg_read` are named the wrong way round in their comments:
`ClientTakes` is the branch of lines 95-107, `ServerTakes` the other. The number
of retransmissions is left open: any of them may be the one after which the
server ends the cluster (`MainGivesUp`, `server` 356) or the client goes on as if
the response were acknowledged (`ClientGivesUp`, `client` 191). The round around
the connection is there as far as the connection can tell: `MainReset` clears the
`slot` of the scoreboard before each message (odd ones are requests, even ones
decisions), `wait_for_votes` ends with the response recorded or by its time limit
(`MainWaitEnds`), and the scan goes on, fails or stops. The other slots appear in what
they add: a no in a later one lets the scan go on to the decision though this slot
is lost (`MainGoesOn`, `server` 445-456), so that the next message may be written
while the worker still has the last response to record. **Exchange** is what the
connection promises: ask, tell, hear, each once and in order. Its `Hear` is the
worker's `beg_read`, which hands the response out and moves `seq_no`: `Heard` in
`Rudp` counts the responses recorded and the one being recorded.

**Startup** models everything before Q2PC's initial state: `main`'s checks of the
transport options and the id, the bind of the server's ports with its retries,
`accept`, the connection messages, `do_connectall`'s loop, one step for each
connection it looks at, and the loop of `server_init` that starts the workers. An
operator starts any set of transports and any of the given ids; clients may be
killed at any time. `far[i]` is the client connection `i` leads to, known to the
server only through the socket. What it delivers to Q2PC is
`HostId[i] = id[far[i]]`: over the datagram transports `Seated` says that it is
`i + 1`, which is `ConfigAssumption`; over TCP `Seated` gives a different client for
each connection, and that their ids are 1 to `ClientCount` is up to the operators,
since no code looks at them. The ranges of the workers are those of `Lo` and `Hi`.

## 3. Runs

In the runs of Q2PC connection i leads to the client with id i + 1 where ports tie a
client to a connection, and also in `tcp_rounds`; `tcp_stops` swaps the two, as TCP
accepts clients in any order. Deadlock is
not checked in any run: the server and its clients terminate (in `startup`, the
model ends where the workers run).

| Run | What it asks | Outcome |
|---|---|---|
| `tcp_rounds` | no failures, no timeouts, 3 clients, 2 threads: counters and scoreboard agree to the unit, each connection carries one message at a time, no response is waited for that is not coming, the inductive invariant of all this, rounds keep ending, AtomicCommit is implemented | holds |
| `tcp_stops` | 2 clients, 1 thread, timeouts, a client killed, the server interrupted or killed, under fairness: types, valid commits and cancels, true reports, statistics in bounds, a stop ends the server, the end of the server ends the clients | holds |
| `udp_loss` | datagrams lost, a client killed: validity, reports, the inductive invariant, AtomicCommit; under fairness, every wait for a decision ends | holds |
| `qjump` | broadcast, a client killed: commits valid unless the server is stopping, cancels valid, reports true, the inductive invariant | holds |
| `tcp_stream` | the delimiter with up to 4 messages in flight: whole messages in order, all delivered, case 2 never reached, MessageQueue is implemented | holds |
| `rudp` | an RUDP connection over a network that loses, repeats and reorders: Exchange is implemented, an acknowledgement reported at either end is one (at the client's until it gives up), a response recorded after its wait has timed out is not taken for one of a later phase, every write ends unless an end gave up or the client is gone or the main thread missed the response | holds |
| `startup` | every set of transport flags, three connections, three clients, two threads: types, each connection its own client, one worker for each connection, and start-up ends if all clients come | holds |
| `qjump_stopping` | Q-Jump, `CommitValid` without the exception | **violated** |
| `udp_stale_vote` | datagrams repeated and reordered, "A 2PC system" (`README.md` 4): no commit over a no of this round, each client having voted once in every round | **violated** |
| `lost_then_no` | "message lost, cluster failed" (`server` 454) | **violated** |
| `write_after_delete` | "We're done with the connections now" (`worker` 144) | **violated** |
| `rudp_missed_ack` | "so that every one sees this update" (`rudp` 120) | **violated** |

What the violated runs show:

* `qjump_stopping`: a worker that fills its statistics in phase 1 raises
  `stop_signal`; the scan loop (`server` 441) is skipped and the result is still
  "success". On the other transports `send_request` checks the same flag and
  sends nothing; the Q-Jump branch (283-308) does not, and broadcasts a commit.
* `udp_stale_vote`: messages carry no round. The yes of round 0 is delivered twice, the
  second copy after the acknowledgement. In round 1 the worker records and counts
  that copy, the scan finds a yes, and the server turns to writing a commit, though
  the client, asked once in each round, has voted no in this one. One client shows it.
  `NoIsHeeded` asks that every client has cast exactly one vote a round, since
  `CommitValid` fails over such a network even sooner: in round 0, with a request
  and a commit repeated, a client votes twice and commits on the second copy while
  another has not voted again. Loss alone (`udp_loss`) does neither. Nor does it take a
  repetition: with `Faults` = {"reordering"}, two clients, time limits and `StatsLen` 14 TLC
  finds a violation of `CommitValid` by a vote that comes after its wait has timed
  out and is overtaken by the acknowledgement. Without time limits, reordering does
  no harm (`Tame` in section 4).
* `lost_then_no`: a no in a later slot overwrites the failure noted for a lost
  vote. The cancel is sound, so `CancelValid` holds; the message is not true.
* `write_after_delete`: a stopping worker frees connections that the main thread
  is still writing to.
* `rudp_missed_ack`: the response may be read between the send (`rudp` 184) and the
  sampling (194). The main thread then waits for a number that has already
  changed, retransmits what the client has answered and now drops, and fails the
  cluster after `MAX_RTOS`. `RequestsEnd` shows that nothing else keeps a write
  from ending.

What the properties that hold have to leave out says something too:

* `StopEnds` needs a time limit: `wait_for_votes` does not look at `stop_signal`, and
  with a negative `-w` a server whose workers have filled their statistics waits for
  votes for ever (`server` 398).
* `ClientAckTrueUntilGaveUp`: after `RTOS_MAX` retransmissions `send_response` returns
  as if the response had been received, with `ack_outstanding` still set. The
  exchange survives it (`ImplementsExchange` holds without the exception), since the
  server writes its next message only once the worker has read the response. The client's
  next `end_write` sends nothing at all: it finds the number changed by the message
  it answers, reports that as the acknowledgement of its answer, and clears
  `ack_outstanding`; the server, which sends its message again, hears nothing
  until it reaches its own limit.
* `ClientsFollow` is about TCP: over UDP and Q-Jump a client that waits for the next
  request learns nothing of the server's end (`client` 294).
* `Seated` excepts UDP and Q-Jump where a datagram is repeated or two clients have
  one id: `do_connectall` counts messages, not clients (`server` 167).
* `StartsUp` asks for a great deal: no client may leave before its connection message
  was read (over TCP the server ignores that it has gone, `server` 155); over UDP and
  Q-Jump no connection message may be lost, or sent before the server has bound
  that client's port, which it binds only once it comes to that connection; and no
  port may be in use at the first try. The loop that is to "wait up to two
  minutes" for the port (`udp` 237, `tcp` 428, `qj` 199) tests `errno`, which a bind that
  succeeds leaves alone: it binds again, gets `EINVAL`, and the server dies.

### Bounds

`StatsLen` bounds everything: a worker whose statistics are full stops the
server, in the code as in the model, so no counter needs a bound of the model's
own. With 2 clients and `StatsLen` 8 the server goes through two rounds (four
responses each), which is what it takes for something of one round to be found
in the next; with ids 1 and 2 and `VoteMod` 3 the first round is all yes and the
second has a no, so both verdicts occur and a vote left over from the first
would turn the second; `lost_then_no`, which needs a no at once, uses 2, and so does
`udp_stale_vote`, where one client (yes, then no) and 4 entries (the two responses of
its first round, the stale vote and one more) are enough, and two clients too many
to search.
`tcp_stops` has 7 entries, one less than two whole rounds, enough to be stopped in
either phase of either round.
`tcp_rounds` has 3 clients, so that one
thread serves two connections, 24 entries, which last for three rounds, and
`VoteMod` 4: the first round commits, the others cancel. `Killable` is a single connection: what a lost client does to the
server does not depend on which it is. In `tcp_stream`, `MsgSize` 3 and
`ReadSize` 7 let a read hold two messages and a part of a third, or less than
one; 5 messages suffice for every content of the buffer to recur. In `rudp`
`StatsLen` 4 gives four exchanges, so that datagrams of three earlier ones may be
on their way at once; the acceptance rules look no further than one number back.
In `startup` three connections on two threads give ranges of different length; the
ids are as expected but in another order, or two are equal, or out of range on
either side; `BindTries` 2 (24 in the code) is the least with which a bound socket
is bound again.

### Fairness

`FairSpec` asks for weak fairness of the main thread, of each worker and of each
client: they are threads that busy-loop, none ever blocks but in `pthread_join`,
which `MainJoin` waits for, and the operating system schedules all of them. A
time limit that has run out stays so, and the main thread looks at the clock
once each time round its loop, where its step is enabled again and again but not
continuously: `MainTimeout` is strongly fair. A client looks at the clock on
every read that finds nothing; a client with nothing to read stays so until
something arrives, and its `ClientTimeout` is weakly fair. Nothing is assumed of
losses, kills, interrupts or refusals.

In `Rudp` each thread's own steps are weakly fair; so are the retransmissions, which
stay enabled while their acknowledgement is missing; and taking a new datagram is
strongly fair, as a datagram sent again and again gets through a network that
loses some. Giving up is never required. In `Startup` the server's loop and each
client's own steps are weakly fair, and `ClientSend`, which over RUDP is repeated
until it arrives, strongly; what nobody repeats may be lost for good.

## 4. Proofs

All for every value of the constants that satisfies the named assumptions
(`ConfigAssumption`: client ids are 1..`ClientCount`, each once, each worker has
room for a response, only UDP has faults; `StreamAssumption`: sizes are
positive). The theorems about Q2PC name what else they need:

| Hypothesis | Meaning |
|---|---|
| `Orderly` | any network but a UDP that repeats or reorders; timeouts, kills and interrupts happen |
| `Prompt` | no time limit (`-w -1`), nothing is repeated; loss, reordering, kills and interrupts happen |
| `Tame` | `Orderly` or `Prompt` |
| `Lossless` | `Prompt`, and nothing is lost or reordered and no client killed; the server may still be interrupted or killed |
| `~Broadcast` | not Q-Jump |

* `TypeCorrect`, `StatsStayInBounds`: for all transports and faults.
  The first needs `Control`, what the loops keep about their indices (a worker
  that is past its read has `wi` on a connection, the main thread in `wait` has
  `mi` on a thread).

* `CountsAreRecorded`, `CountsAreCleared`, `CountsStayExact`, `OneMessageAtATime`
  (`Q2PCTurnsProofs`), under `Prompt`: the protocol between the main thread and the
  workers, which share counters without a lock. What makes it work is not in the
  code that handles the counters: it is that server and client take turns.
  `TurnsInv` says both:
  - on each connection at most one message is under way, and none once the client's
    response is in its slot (`OneInFlight`, `Turns`);
  - `votes_count[t]` *is* the number of recorded responses of thread `t`'s range,
    but for the one that `t` is about to count (`Counters`; `Counted` in `Q2PC`
    leaves that one out). The equality has two directions, and each excludes an
    accident of its own: one count too many ends a wait early, one too few makes it
    endless. `loaded[t]` equals `votes_count[t]` between the load and the store, as
    only `t` writes the counter while responses come in;
  - the sum over the threads read so far does not exceed the responses of their
    ranges. As these are at most `ClientCount`, a sum of `ClientCount` means that all
    have been recorded and nobody is counting. So the pause and the clearing of the
    counters meet idle workers only (`Settled`), although no one waits for the workers
    to see the pause flag.

  The clearing by a paused worker (`worker` 62) may come late, after the flag is
  down and the next phase has begun. It is harmless since that worker has read
  nothing meanwhile: its counter is zero, and nothing of its range has been counted
  (`wpc[t] = "paused" => votes_count[t] = 0` in `Counters`). With a time limit the
  argument fails at its first step, since a wait may end with a worker between its
  poll and its store; what survives of it then is validity, below.

* `CommitsAreValid` (`Tame`, `~Broadcast`), `CommitsAreValidUnlessStopping`,
  `CancelsAreValid`, `ReportsAreTrue` (`Tame`). `CommitValid`
  is not inductive: nothing in it says where the votes come from. `IInv`
  (module `Q2PCInductive`) says where each client is in the server's current round,
  `Idle`, `Waiting` or `Knows`, with the exact contents its queues may have (at
  most this round's request and decision one way, its vote and acknowledgement
  the other); that a slot of the scoreboard, once reset, holds what its client
  answered in this phase and that this answer is no longer on its way; what the
  scan has established so far; and what stands behind a decision. The heart of
  it is that a round is left only when every client has acknowledged, so no
  message of one round is in flight in the next.

  This needs queues that keep their order, as under `Orderly`, or that there is no
  order to keep: under `Prompt` a queue has at most one message by `TurnsInv`, and a
  step that reorders or repeats one is a stutter. Hence `Tame`. The
  hypothesis is about as weak as it can be: `udp_stale_vote` shows what a
  repetition does, and the remark there what reordering does once a wait has timed
  out. Whether a repetition can do harm without time limits is open: TLC finds
  nothing in ten million states, and nothing is proved.

  The stop flag appears in `Vouched`, what stands behind a commit: a skipped scan
  leaves "success" unfounded. On the other transports that is harmless because
  nothing is sent under the same flag. Over Q-Jump the decision goes out (see
  `qjump_stopping`), so there `CommitsAreValidUnlessStopping` is what can be
  proved, and it says that this is the only way to an unfounded commit.

* `SystemCommitsAtomically` (`Tame`, `~Broadcast`): the same `IInv` shows each step to
  be a step of `AtomicCommit` or a stutter; `MainWrite` of the first copy of a decision
  is `Commit` or `Cancel`, `ClientPhase1` is `CastBallot`, `ClientPhase2` is
  `Learn`, `MainLoop` is `NextRound`.

* `ResponsesKeepComing` (`Lossless`): while the server runs and waits, each client's
  response is in its slot or there is a message on its connection, so the wait is
  never for something that nobody will do. This is the part of `RoundsEnd` that is a
  safety property, and so the part that can be proved; what is left to TLC is
  that fair threads take these steps. `Attended` adds what it needs to be inductive:
  no worker and no client has left (`Present`; a client leaves when
  its connection dies, and connections die when workers leave), and
  in phase 2 every client has voted, so that a decision finds it waiting for
  one (`AllVoted`). Together with `CountsStayExact` it says that a wait that
  has everything is counted to the full, and one that has not is going to be.

* `RudpImplementsExchange`, `ServerAckIsTrue`, `ScansSeeThisRound`, `ClientAckIsTrueUntilGaveUp`,
  `RudpTypeCorrect`: for any number of exchanges, any network. `RudpIInv` says
  that the k-th request is always stamped k - 1 and its response k (`Stamped`), where either end's number is (`ServerEnd`, `ClientEnd`) and whose turn
  it is (`InTurn`): the two numbers never differ by more than one, so that what an
  end takes is the one message the other has not been answered yet, and every
  older copy is refused. The server never writes ahead of what it has read
  (`asked <= s_seq + 1` in `InTurn`), because `end_write` returns only when the
  response has come; that the response may still be unrecorded is why `Exchange`
  counts what was read. `ScansSeeThisRound` adds `InPhase`: an acknowledgement is
  recorded before its round is left, so that in phase 1 the slot holds nothing or this
  round's vote; in phase 2 it may also hold a vote recorded late, and a vote is
  not taken for an acknowledgement. `Sampled` ties the sampled number to the request, which
  is what makes an acknowledgement true. The client's acknowledgement needs
  `Persists`: once it holds that the client has not given up, giving up is what
  breaks it. Each step of the two ends is then a step of Exchange or a stutter.
* `EachIsServedOnce`: for any number of connections and threads. `SharedOut`: the
  ranges started so far hold each connection below `lo` exactly once, and
  `lo = min(ti * ConsPerThread, ClientCount)`; the share is rounded up, so that
  `RealThreadCount` shares reach the last connection (`Share`), even where the last
  workers get an empty range.
* `EveryConnectionIsSeated`: `connected` is the number of connections with a message
  counted (`SeatingInv`), so that it reaches `ClientCount` only when all have one. That
  none is counted twice follows, over TCP, from one message in each stream
  (`SeatedTcp`), over RUDP from the sequence numbers, over UDP and Q-Jump from the
  ports and a network that repeats nothing (`SeatedDatagram`).
* `MessagesAreWhole`, `Case2IsDead`, `StreamIsQueue`, `MessageOutlivesRead`,
  `PacedMessagesOutliveRead`, `StreamTypeCorrect`: the delimiter, for all sizes. The invariant says that the buffer from the result
  (or the front) on holds the bytes from `taken * MsgSize` to `received`. The
  second settles the comment at `tcp` 201. The last has a window of 1 for a
  hypothesis, which `OneMessageAtATime` proves on the system's side when no wait times
  out; after a timeout a second message may be in flight, and a message read
  together with a part of it may be overwritten while in use.

Only model-checked: liveness, which is out of the prover's reach (`RoundsEnd`,
`StopEnds`, `ClientsFollow`, `DecisionAwaited`, `AllDelivered`, `RequestsEnd`,
`StartsUp`). Every invariant and action property of a run that holds is also a
theorem. Over a UDP that repeats messages, and over one that reorders them with a
time limit, only types and statistics are proved; validity is false there.

## 5. Not modelled, and the plan

Memory is sequentially consistent and accesses of 64 bits are atomic, as on the
x86 the code's inline assembly is written for. A write through a connection
that has been deleted uses freed memory; it is taken to fail or to end the
process, and that it might reach some other descriptor is left out. The contents of the statistics,
time stamps and log lines are left out. Signals are taken to be delivered to the
main thread (Linux prefers it), between any two of its steps.

A signal that arrives while `cleanup` already runs enters it a second time from the
handler, and one that arrives during `server_init` makes it join threads that were
never created; both are undefined behaviour in memory that these models do not
have, as is `conn_delete` of UDP, which takes a descriptor from freed memory (`udp`
159). Options that no check refuses and that lead to a division by zero or to a
write past an array (`-T 0`, `-R 0`, fewer statistics than threads) are excluded by
the named assumptions. Over TCP two clients with one id, or with one out of
range, are not in Q2PC (`ConfigAssumption`), and so neither is `worker` 92-96.

The plan, in order:

1. *(done)* Rounds over TCP, UDP and Q-Jump; AtomicCommit; the TCP delimiter;
   their proofs.
2. *(done)* `Rudp` with its abstract exchange and their proofs.
3. *(done)* `Startup`: options, connection establishment and connections per thread,
   with their proofs.
4. Ids over TCP: Q2PC with `HostId` any function, and the worker's branch for ids
   out of range.
5. *(done)* Proofs: the counters for waits without limit, validity over Q-Jump and
   over a UDP that reorders, and that no response is waited for in vain.
6. Proofs: validity over a UDP that repeats in order and waits without limit (open,
   see section 4); the counters where waits are limited, as far as they hold there.

Not planned: the vendored build tool, the parsing of options and the containers
(both external, in the chaste library, which the repository does not include).
