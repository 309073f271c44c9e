-------------------------- MODULE Q2PCTurnsProofs --------------------------
(***************************************************************************)
(* What holds of Q2PC when no wait times out and the network repeats       *)
(* nothing, for every number of clients and of workers: the two ends of a  *)
(* connection take turns, and the counters are as good as the scoreboard.  *)
(***************************************************************************)
EXTENDS Q2PCTypeProofs

USE ConfigAssumption

-----------------------------------------------------------------------------
(* The ranges of the workers. *)
LEMMA RangeOrder ==
  \A t \in Threads : /\ Lo(t) \in Nat /\ Hi(t) \in Nat
                     /\ Lo(t) <= Hi(t) /\ Hi(t) = Lo(t + 1)
<1> SUFFICES ASSUME NEW t \in Threads
             PROVE  Lo(t) <= Hi(t) /\ Hi(t) = Lo(t + 1)
  BY RangeType
<1>1. ConsPerThread \in Nat /\ t \in Nat
  BY RealThreadCountType DEF ConsPerThread, Threads
<1>2. (t + 1) * ConsPerThread = t * ConsPerThread + ConsPerThread /\ t * ConsPerThread \in Nat
  BY <1>1
<1> QED
  BY <1>1, <1>2 DEF Lo, Hi, Clip

(* No connection is in the ranges of two workers. *)
LEMMA RangesApart ==
  ASSUME NEW t \in Threads, NEW u \in Threads, t # u,
         NEW i \in Nat, Lo(t) <= i, i < Hi(t)
  PROVE  ~(Lo(u) <= i /\ i < Hi(u))
<1>1. ConsPerThread \in Nat /\ t \in Nat /\ u \in Nat /\ ClientCount \in Nat
  BY RealThreadCountType, ClientCountType DEF ConsPerThread, Threads
<1>2. ASSUME NEW a \in Threads, NEW b \in Threads, a < b
      PROVE  Hi(a) <= Lo(b)
  <2>1. PICK d \in Nat : b = a + 1 + d
    <3>1. a \in Nat /\ b \in Nat /\ b - a - 1 \in Nat /\ b = a + 1 + (b - a - 1)
      BY <1>2, RealThreadCountType DEF Threads
    <3> QED
      BY <3>1
  <2>2. b * ConsPerThread = (a + 1) * ConsPerThread + d * ConsPerThread
    <3>1. a \in Nat
      BY RealThreadCountType DEF Threads
    <3> QED
      BY <1>1, <2>1, <3>1
  <2>3. d * ConsPerThread \in Nat /\ (a + 1) * ConsPerThread \in Nat
    BY <1>1, RealThreadCountType DEF Threads
  <2>4. b * ConsPerThread >= (a + 1) * ConsPerThread
    BY <2>2, <2>3
  <2> QED
    BY <1>1, <2>2, <2>3, <2>4 DEF Lo, Hi, Clip
<1>3. t < u \/ u < t
  BY <1>1
<1>4. /\ Lo(t) \in Nat /\ Hi(t) \in Nat /\ Lo(u) \in Nat /\ Hi(u) \in Nat
      /\ t < u => Hi(t) <= Lo(u)
      /\ u < t => Hi(u) <= Lo(t)
  BY <1>2, RangeOrder
<1> QED
  BY <1>3, <1>4

(* Sets of counted connections. *)
LEMMA CountedType ==
  ASSUME NEW lo, NEW hi
  PROVE  /\ Counted(lo, hi) \subseteq Conns
         /\ IsFiniteSet(Counted(lo, hi)) /\ Cardinality(Counted(lo, hi)) \in Nat
<1>1. IsFiniteSet(Conns)
  BY ClientCountType, FS_Interval DEF Conns
<1>2. Counted(lo, hi) \subseteq Conns
  BY DEF Counted
<1>3. IsFiniteSet(Counted(lo, hi))
  BY <1>1, <1>2, FS_Subset
<1> QED
  BY <1>2, <1>3, FS_CardinalityType

LEMMA CountedTypeNext ==
  ASSUME NEW lo, NEW hi
  PROVE  IsFiniteSet(Counted(lo, hi)') /\ Cardinality(Counted(lo, hi)') \in Nat
<1>1. IsFiniteSet(Conns)
  BY ClientCountType, FS_Interval DEF Conns
<1>2. Counted(lo, hi)' \subseteq Conns
  BY DEF Counted
<1>3. IsFiniteSet(Counted(lo, hi)')
  BY <1>1, <1>2, FS_Subset
<1> QED
  BY <1>3, FS_CardinalityType

(* The counted connections of two ranges side by side add up. *)
LEMMA CountedAdds ==
  ASSUME NEW a \in Nat, NEW b \in Nat, NEW c \in Nat, a <= b, b <= c
  PROVE  Cardinality(Counted(a, c)) = Cardinality(Counted(a, b)) + Cardinality(Counted(b, c))
<1>1. Counted(a, c) = Counted(a, b) \cup Counted(b, c) /\ Counted(a, b) \cap Counted(b, c) = {}
  BY DEF Counted, Conns
<1>2. Cardinality(Counted(a, b) \cup Counted(b, c)) =
        Cardinality(Counted(a, b)) + Cardinality(Counted(b, c)) - Cardinality({})
  <2>1. IsFiniteSet(Counted(a, b)) /\ IsFiniteSet(Counted(b, c))
    BY CountedType
  <2> QED
    BY <1>1, <2>1, FS_Union
<1>3. Cardinality(Counted(a, b)) \in Nat /\ Cardinality(Counted(b, c)) \in Nat /\ Cardinality({}) = 0
  BY CountedType, FS_EmptySet
<1> QED
  BY <1>1, <1>2, <1>3

(* When as many are counted as there are clients, all are. *)
LEMMA CountedAll ==
  ASSUME NEW lo, NEW hi, Cardinality(Counted(lo, hi)) >= ClientCount
  PROVE  \A i \in Conns : Recorded(i) /\ \A t \in Threads : Counting(t) => wi[t] # i
<1>1. IsFiniteSet(Conns) /\ Cardinality(Conns) = ClientCount
  BY ClientCountType, FS_Interval DEF Conns
<1>2. Counted(lo, hi) \in SUBSET Conns /\ Cardinality(Counted(lo, hi)) \in Nat
  BY CountedType
<1>3. /\ Cardinality(Counted(lo, hi)) <= Cardinality(Conns)
      /\ Cardinality(Conns) = Cardinality(Counted(lo, hi)) => Conns = Counted(lo, hi)
  BY <1>1, <1>2, FS_Subset
<1>4. Conns = Counted(lo, hi)
  BY <1>1, <1>2, <1>3, ClientCountType
<1> QED
  BY <1>4 DEF Counted

(* A step that records and counts no less has no fewer counted. *)
LEMMA CountedGrows ==
  ASSUME NEW lo, NEW hi, Counted(lo, hi) \subseteq Counted(lo, hi)'
  PROVE  Cardinality(Counted(lo, hi)) <= Cardinality(Counted(lo, hi)')
BY CountedTypeNext, FS_Subset

-----------------------------------------------------------------------------
(* A network that repeats nothing delivers a message into an empty queue once or not at all. *)
LEMMA PromptDelivery ==
  ASSUME Prompt, NEW m, NEW q \in Delivered(<<>>, m)
  PROVE  q = <<>> \/ q = <<m>>
<1>1. InsertAt(<<>>, 1, m) = <<m>> /\ Append(<<>>, m) = <<m>>
  <2>1. SubSeq(<<>>, 1, 1 - 1) = <<>> /\ SubSeq(<<>>, 1, Len(<<>>)) = <<>>
    OBVIOUS
  <2>2. <<m>> \in Seq({m}) /\ <<>> \in Seq({m})
    OBVIOUS
  <2>3. <<>> \o <<m>> = <<m>> /\ <<m>> \o <<>> = <<m>>
    BY <2>2, ConcatEmptySeq
  <2>4. Append(<<>>, m) = <<m>>
    OBVIOUS
  <2> QED
    BY <2>1, <2>3, <2>4 DEF InsertAt
<1>2. Len(<<>>) = 0 /\ 1 .. (0 + 1) = {1}
  OBVIOUS
<1>3. Arrived(<<>>, m) = {<<m>>}
  BY <1>1, <1>2 DEF Arrived
<1> QED
  BY <1>3 DEF Delivered, Prompt

-----------------------------------------------------------------------------
(* What is counted depends on the scoreboard and on where the workers are. *)
LEMMA SameCounts ==
  ASSUME UNCHANGED <<votes_scoreboard, wpc, wi>>
  PROVE  /\ \A i \in Conns : Recorded(i) <=> Recorded(i)'
         /\ \A t \in Threads : Counting(t) <=> Counting(t)'
         /\ \A lo, hi : Counted(lo, hi)' = Counted(lo, hi)
         /\ Ranges => Ranges'
<1>1. /\ \A i \in Conns : Recorded(i) <=> Recorded(i)'
      /\ \A t \in Threads : Counting(t) <=> Counting(t)'
  BY DEF Recorded, Counting
<1>2. \A lo, hi : Counted(lo, hi)' = Counted(lo, hi)
  BY <1>1 DEF Counted
<1>3. Ranges => Ranges'
  BY <1>1 DEF Ranges
<1> QED
  BY <1>1, <1>2, <1>3

(* A step that leaves the counters and what is counted alone. *)
LEMMA SameCounters ==
  ASSUME TurnSafe, Coming, UNCHANGED <<votes_scoreboard, wpc, wi, votes_count, loaded>>
  PROVE  /\ \A t \in Threads :
              /\ Counting(t)' => Recorded(wi[t])'
              /\ wpc'[t] = "store" => loaded'[t] = votes_count'[t]
              /\ wpc'[t] = "paused" => votes_count'[t] = 0
              /\ votes_count'[t] = Cardinality(Counted(Lo(t), Hi(t)))'
         /\ \A t, u \in Threads : Counting(t)' /\ Counting(u)' /\ wi'[t] = wi'[u] => t = u
<1>1. ASSUME NEW t \in Threads
      PROVE  /\ Counting(t)' => Recorded(wi[t])'
             /\ wpc'[t] = "store" => loaded'[t] = votes_count'[t]
             /\ wpc'[t] = "paused" => votes_count'[t] = 0
  BY DEF TurnSafe, Counters, Counting, Recorded
<1>2. ASSUME NEW t \in Threads
      PROVE  votes_count'[t] = Cardinality(Counted(Lo(t), Hi(t)))'
  <2>1. Counted(Lo(t), Hi(t))' = Counted(Lo(t), Hi(t))
    BY SameCounts
  <2> QED
    BY <2>1 DEF TurnSafe, Counters
<1>3. \A t, u \in Threads : Counting(t)' /\ Counting(u)' /\ wi'[t] = wi'[u] => t = u
  BY DEF TurnSafe, Counters, Counting
<1> QED
  BY <1>1, <1>2, <1>3

(* The server leaves its rounds for good. *)
LEMMA TurnsEnded ==
  ASSUME TurnSafe, mpc' \in {"term", "join", "exit"}, UNCHANGED <<wi, netVars>>,
         wpc' = wpc \/ wpc' = [t \in Threads |-> "done"]
  PROVE  TurnSafe'
<1>1. Ranges'
  BY DEF TurnSafe, Ranges, Counting
<1>2. OneInFlight'
  BY DEF TurnSafe, OneInFlight, netVars
<1>3. Turns' /\ Counters' /\ Settled'
  BY DEF Turns, Counters, Settled, Coming
<1> QED
  BY <1>1, <1>2, <1>3 DEF TurnSafe

(* The scoreboard is reset while nothing is on its way. *)
LEMMA TurnsReset ==
  ASSUME Types, TurnSafe, MainReset
  PROVE  TurnSafe'
<1>1. /\ mpc = "reset" /\ mpc' = "reset" /\ mi' = mi + 1 /\ mi \in Nat /\ mi \in Conns
      /\ votes_scoreboard' = [votes_scoreboard EXCEPT ![mi] = "lost"]
      /\ UNCHANGED <<votes_count, wpc, wi, s2c, c2s, total_votes>>
  BY ClientCountType DEF MainReset, IsSlot, Types, TypeOK, Conns, workerVars, netVars
<1>2. Ranges' /\ OneInFlight'
  BY <1>1 DEF TurnSafe, Ranges, Counting, OneInFlight
<1>3. Turns' /\ Counters'
  BY <1>1 DEF Turns, Counters, Coming
<1>4. Settled'
  <2>1. ASSUME NEW s \in Conns, s < mi + 1
        PROVE  votes_scoreboard'[s] = "lost"
    <3>1. s < mi \/ s = mi
      BY <1>1, <2>1 DEF Conns
    <3> QED
      BY <1>1, <3>1 DEF TurnSafe, Settled, Types, TypeOK
  <2> QED
    BY <1>1, <2>1 DEF TurnSafe, Settled, Empty, Counting
<1> QED
  BY <1>2, <1>3, <1>4 DEF TurnSafe

(* The wait for a phase begins with every slot lost and every counter zero. *)
LEMMA TurnsDispatch ==
  ASSUME Types, TurnSafe, MainDispatch
  PROVE  TurnSafe'
<1>1. /\ mpc = "reset" /\ mi = ClientCount /\ mpc' \in {"term", "send"}
      /\ UNCHANGED <<votes_scoreboard, votes_count, wpc, wi, loaded, s2c, c2s, total_votes>>
  BY DEF MainDispatch, Terminate, sharedVars, workerVars, netVars
<1>2. CASE mpc' = "term"
  BY <1>1, <1>2, TurnsEnded DEF netVars
<1>3. CASE mpc' = "send"
  <2>1. /\ \A i \in Conns : Empty(i) /\ ~Recorded(i)
        /\ \A t \in Threads : ~Counting(t) /\ votes_count[t] = 0
        /\ total_votes = 0
    <3>1. \A s \in Conns : s < mi
      BY <1>1, ClientCountType DEF Conns
    <3>2. \A s \in Conns : votes_scoreboard[s] = "lost"
      BY <1>1, <3>1 DEF TurnSafe, Settled
    <3>3. \A i \in Conns : ~Recorded(i)
      BY <3>2, SlotType DEF Recorded
    <3> QED
      BY <1>1, <3>3 DEF TurnSafe, Settled
  <2>2. Ranges' /\ OneInFlight'
    BY <1>1 DEF TurnSafe, Ranges, Counting, OneInFlight
  <2>3. Turns'
    BY <1>1, <2>1 DEF Turns, Empty, Recorded
  <2>4. Counters'
    <3>1. \A t \in Threads : ~Counting(t)' /\ wpc'[t] # "store" /\ votes_count'[t] = 0
      BY <1>1, <2>1 DEF Counting
    <3>2. \A t \in Threads : Cardinality(Counted(Lo(t), Hi(t)))' = 0
      <4>1. \A t \in Threads : Counted(Lo(t), Hi(t))' = {}
        BY <1>1, <2>1 DEF Counted, Recorded
      <4> QED
        BY <4>1, FS_EmptySet
    <3> QED
      BY <1>1, <1>3, <2>1, <3>1, <3>2 DEF Counters
  <2>5. Settled'
    BY <1>3 DEF Settled
  <2> QED
    BY <2>2, <2>3, <2>4, <2>5 DEF TurnSafe
<1> QED
  BY <1>1, <1>2, <1>3

(* send_request comes to the next connection, or to its end. *)
LEMMA TurnsSendNext ==
  ASSUME Types, TurnSafe, MainSendNext
  PROVE  TurnSafe'
<1>1. /\ mpc = "send" /\ (mpc' = "write" \/ (mpc' = "wait" /\ mi' = 0))
      /\ UNCHANGED <<sent, votes_scoreboard, votes_count, wpc, wi, loaded, s2c, c2s, total_votes>>
  BY DEF MainSendNext, sharedVars, workerVars, netVars
<1>2. Ranges' /\ OneInFlight' /\ Settled'
  BY <1>1, SameCounts DEF TurnSafe, OneInFlight, Settled
<1>3. Turns'
  BY <1>1 DEF TurnSafe, Turns, Coming, Empty, Recorded
<1>4. Counters'
  <2>1. Cardinality(Counted(0, Lo(mi)))' \in Nat /\ total_votes = 0
    BY <1>1, SameCounts, CountedType DEF TurnSafe, Counters, Coming
  <2>2. Coming
    BY <1>1 DEF Coming
  <2> QED
    BY <1>1, <2>1, <2>2, SameCounters DEF Counters
<1> QED
  BY <1>2, <1>3, <1>4 DEF TurnSafe

(* A message of the phase goes into an empty connection, whose slot is lost. *)
LEMMA TurnsWrite ==
  ASSUME Types, TurnSafe, Prompt, MainWrite
  PROVE  TurnSafe'
<1>0. PICK k \in Conns : k = mi
  BY DEF MainWrite, Types, Control
<1>1. /\ mpc = "write" /\ mpc' = "send" /\ k = sent /\ sent' = k + 1 /\ k \in Nat
      /\ \A i \in Conns : i \in Nat
      /\ UNCHANGED <<votes_scoreboard, votes_count, wpc, wi, loaded, c2s, total_votes>>
  BY <1>0 DEF MainWrite, Types, Control, sharedVars, workerVars, Conns
<1>2. \A i \in Conns : i >= k => Empty(i) /\ ~Recorded(i)
  BY <1>1 DEF TurnSafe, Turns, Coming
<1>3. PICK queue \in Delivered(s2c[k], PhaseMessage) : s2c' = [s2c EXCEPT ![k] = queue]
  BY <1>0 DEF MainWrite
<1>4. Empty(k) /\ ~Recorded(k)
  BY <1>1, <1>2
<1>5. queue = <<>> \/ queue = <<PhaseMessage>>
  BY <1>3, <1>4, PromptDelivery DEF Empty
<1>6. s2c'[k] = queue /\ \A i \in Conns \ {k} : s2c'[i] = s2c[i]
  BY <1>3 DEF Types, TypeOK
<1>7. OneInFlight'
  <2>1. Len(s2c'[k]) + Len(c2s'[k]) <= 1
    <3>1. s2c'[k] = queue /\ c2s'[k] = <<>>
      BY <1>1, <1>4, <1>6 DEF Empty
    <3>2. Len(<<>>) + Len(<<>>) <= 1 /\ Len(<<PhaseMessage>>) + Len(<<>>) <= 1
      OBVIOUS
    <3> QED
      BY <1>5, <3>1, <3>2, Zenon
  <2> QED
    BY <1>1, <1>6, <2>1 DEF TurnSafe, OneInFlight
<1>8. Turns'
  <2>1. \A i \in Conns : Recorded(i)' => Empty(i)'
    BY <1>1, <1>4, <1>6 DEF TurnSafe, Turns, Coming, Recorded, Empty
  <2>2. \A i \in Conns : i >= k + 1 => Empty(i)' /\ ~Recorded(i)'
    <3>1. ASSUME NEW i \in Conns, i >= k + 1
          PROVE  Empty(i)' /\ ~Recorded(i)'
      <4>1. i # k /\ i >= k
        BY <1>1, <3>1
      <4> QED
        BY <1>1, <1>2, <1>6, <4>1 DEF Recorded, Empty
    <3> QED
      BY <3>1
  <2> QED
    BY <1>1, <2>1, <2>2 DEF Turns
<1>9. Counters'
  BY <1>1, SameCounters DEF TurnSafe, Counters, Coming
<1>10. Ranges' /\ Settled'
  BY <1>1, SameCounts DEF TurnSafe, Settled
<1> QED
  BY <1>7, <1>8, <1>9, <1>10 DEF TurnSafe

LEMMA TurnsBroadcast ==
  ASSUME Types, TurnSafe, MainBroadcast
  PROVE  TurnSafe'
<1>1. /\ mpc = "send" /\ mpc' = "wait" /\ mi' = 0 /\ sent = 0
      /\ UNCHANGED <<votes_scoreboard, votes_count, wpc, wi, loaded, c2s, total_votes>>
  BY DEF MainBroadcast, Types, Control, sharedVars, workerVars
<1>2. \A i \in Conns : Empty(i) /\ ~Recorded(i)
  BY <1>1, ClientCountType DEF TurnSafe, Turns, Coming, Conns
<1>3. \A i \in Conns : s2c'[i] = Append(s2c[i], PhaseMessage)
  BY DEF MainBroadcast
<1>4. OneInFlight'
  <2>1. Len(Append(<<>>, PhaseMessage)) + Len(<<>>) <= 1
    OBVIOUS
  <2> QED
    BY <1>1, <1>2, <1>3, <2>1 DEF OneInFlight, Empty
<1>5. Turns'
  BY <1>1, <1>2 DEF Turns, Recorded
<1>6. Counters'
  <2>1. Cardinality(Counted(0, Lo(mi)))' \in Nat /\ total_votes = 0
    BY <1>1, SameCounts, CountedType DEF TurnSafe, Counters, Coming
  <2>2. Coming
    BY <1>1 DEF Coming
  <2> QED
    BY <1>1, <2>1, <2>2, SameCounters DEF Counters
<1>7. Ranges' /\ Settled'
  BY <1>1, SameCounts DEF TurnSafe, Settled
<1> QED
  BY <1>4, <1>5, <1>6, <1>7 DEF TurnSafe

(***************************************************************************)
(* The sum never exceeds the responses that are in their slots, so that it *)
(* reaches the number of clients only when all are, and no worker is still *)
(* counting.                                                               *)
(***************************************************************************)
LEMMA TurnsSum ==
  ASSUME Types, TurnSafe, MainSum
  PROVE  TurnSafe'
<1> DEFINE total == total_votes + votes_count[mi]
<1>1. /\ mpc = "wait" /\ mi \in Threads /\ mi \in Nat
      /\ UNCHANGED <<votes_scoreboard, votes_count, wpc, wi, loaded, s2c, c2s>>
  BY ClientCountType DEF MainSum, Types, TypeOK, Control, sharedVars, workerVars, netVars
<1>2. \/ mpc' = "wait" /\ mi' = mi + 1 /\ total_votes' = total
      \/ mpc' = "wait" /\ mi' = 0 /\ total_votes' = 0
      \/ mpc' = "pause" /\ mi' = 0 /\ total_votes' = 0 /\ total >= ClientCount
  BY <1>1 DEF MainSum, EnoughVotes
<1>3. total <= Cardinality(Counted(0, Hi(mi)))
  <2>1. /\ total_votes <= Cardinality(Counted(0, Lo(mi)))
        /\ votes_count[mi] = Cardinality(Counted(Lo(mi), Hi(mi)))
    BY <1>1 DEF TurnSafe, Counters, Coming
  <2>2. Cardinality(Counted(0, Hi(mi))) =
          Cardinality(Counted(0, Lo(mi))) + Cardinality(Counted(Lo(mi), Hi(mi)))
    BY <1>1, RangeOrder, CountedAdds
  <2>3. /\ Cardinality(Counted(0, Lo(mi))) \in Nat /\ Cardinality(Counted(Lo(mi), Hi(mi))) \in Nat
        /\ total_votes \in Nat /\ votes_count[mi] \in Nat
    BY <1>1, CountedType DEF Types, TypeOK
  <2> QED
    BY <2>1, <2>2, <2>3
<1>4. Ranges' /\ OneInFlight'
  BY <1>1, SameCounts DEF TurnSafe, OneInFlight
<1>5. Coming
  BY <1>1 DEF Coming
<1>6. CASE mpc' = "wait"
  <2>1. total_votes' <= Cardinality(Counted(0, Lo(mi)))'
    <3>1. CASE mi' = mi + 1 /\ total_votes' = total
      <4>1. Lo(mi)' = Hi(mi)
        BY <1>1, <3>1, RangeOrder
      <4>2. Counted(0, Lo(mi))' = Counted(0, Hi(mi))
        BY <1>1, <4>1, SameCounts
      <4> QED
        BY <1>3, <3>1, <4>2
    <3>2. CASE total_votes' = 0
      <4>1. Cardinality(Counted(0, Lo(mi)))' \in Nat
        BY <1>1, SameCounts, CountedType
      <4> QED
        BY <3>2, <4>1
    <3> QED
      BY <1>2, <1>6, <3>1, <3>2
  <2>2. Counters'
    BY <1>1, <1>5, <1>6, <2>1, SameCounters DEF Counters
  <2>3. Turns'
    BY <1>1, <1>5, <1>6 DEF TurnSafe, Turns, Recorded, Empty
  <2>4. Settled'
    BY <1>6 DEF Settled
  <2> QED
    BY <1>4, <2>2, <2>3, <2>4 DEF TurnSafe
<1>7. CASE mpc' = "pause"
  <2>1. Cardinality(Counted(0, Hi(mi))) >= ClientCount /\ total_votes' = 0
    <3>1. /\ Cardinality(Counted(0, Hi(mi))) \in Nat
          /\ total_votes \in Nat /\ votes_count[mi] \in Nat
      BY <1>1, CountedType DEF Types, TypeOK
    <3>2. total >= ClientCount /\ total_votes' = 0
      BY <1>2, <1>7
    <3> QED
      BY <1>3, <3>1, <3>2, ClientCountType
  <2>2. \A i \in Conns : Recorded(i) /\ \A t \in Threads : Counting(t) => wi[t] # i
    BY <2>1, CountedAll
  <2>3. \A t \in Threads : ~Counting(t)
    <3>1. \A t \in Threads : Counting(t) => wi[t] \in Conns
      BY DEF Counting, Types, Control
    <3> QED
      BY <2>2, <3>1
  <2>4. \A i \in Conns : Empty(i)
    BY <1>5, <2>2 DEF TurnSafe, Turns
  <2>5. Settled'
    BY <1>1, <1>7, <2>1, <2>2, <2>3, <2>4 DEF Settled, Empty, Counting, Recorded
  <2>6. Turns' /\ Counters'
    BY <1>7 DEF Turns, Counters, Coming
  <2> QED
    BY <1>4, <2>5, <2>6 DEF TurnSafe
<1> QED
  BY <1>2, <1>6, <1>7

(* Nothing is on its way and nobody counts: the server is between two waits. *)
Settling == mpc \in {"pause", "scan", "clear", "loop", "reset"}

LEMMA SameSettled ==
  ASSUME TurnSafe, Settling, UNCHANGED <<wpc, wi, s2c, c2s, total_votes>>
  PROVE  /\ Ranges' /\ OneInFlight'
         /\ \A i \in Conns : Empty(i)'
         /\ \A t \in Threads : ~Counting(t)'
         /\ total_votes' = 0
BY DEF TurnSafe, Settling, Settled, Ranges, OneInFlight, Empty, Counting

(* From the pause to the scan and through it to the clearing of the counters. *)
LEMMA TurnsScan ==
  ASSUME TurnSafe, MainPause \/ MainScan \/ MainScanEnd
  PROVE  TurnSafe'
<1>1. /\ mpc \in {"pause", "scan"} /\ (mpc' \in {"scan", "term"} \/ (mpc' = "clear" /\ mi' = 0))
      /\ UNCHANGED <<wpc, wi, s2c, c2s, total_votes>>
  <2>1. CASE MainPause
    BY <2>1, Zenon DEF MainPause, workerVars, netVars
  <2>2. CASE MainScan \/ MainScanEnd
    BY <2>2 DEF MainScan, MainScanEnd, Terminate, workerVars, netVars
  <2> QED
    BY <2>1, <2>2
<1>2. /\ Ranges' /\ OneInFlight'
      /\ \A i \in Conns : Empty(i)'
      /\ \A t \in Threads : ~Counting(t)'
      /\ total_votes' = 0
  BY <1>1, SameSettled DEF Settling
<1>3. Turns' /\ Counters'
  BY <1>1 DEF Turns, Counters, Coming
<1>4. \A t \in Threads : ~(t < 0)
  BY RealThreadCountType DEF Threads
<1>5. Settled'
  BY <1>1, <1>2, <1>4 DEF Settled
<1> QED
  BY <1>2, <1>3, <1>5 DEF TurnSafe

(* The counters are cleared one by one; nobody counts meanwhile. *)
LEMMA TurnsClear ==
  ASSUME Types, TurnSafe, MainClear
  PROVE  TurnSafe'
<1>1. /\ mpc = "clear" /\ mpc' = "clear" /\ mi \in Threads /\ mi' = mi + 1
      /\ votes_count' = [votes_count EXCEPT ![mi] = 0]
      /\ UNCHANGED <<wpc, wi, s2c, c2s, total_votes>>
  BY RealThreadCountType, ClientCountType DEF MainClear, Types, TypeOK, Threads, workerVars, netVars
<1>2. /\ Ranges' /\ OneInFlight'
      /\ \A i \in Conns : Empty(i)'
      /\ \A t \in Threads : ~Counting(t)'
      /\ total_votes' = 0
  BY <1>1, SameSettled DEF Settling
<1>3. Turns' /\ Counters'
  BY <1>1 DEF Turns, Counters, Coming
<1>4. \A t \in Threads : t < mi + 1 => votes_count'[t] = 0
  <2>1. ASSUME NEW t \in Threads, t < mi + 1
        PROVE  votes_count'[t] = 0
    <3>1. t = mi \/ t < mi
      BY <1>1, <2>1 DEF Threads
    <3> QED
      BY <1>1, <3>1 DEF TurnSafe, Settled, Types, TypeOK
  <2> QED
    BY <2>1
<1>5. Settled'
  BY <1>1, <1>2, <1>4 DEF Settled
<1> QED
  BY <1>2, <1>3, <1>5 DEF TurnSafe

(* The next phase, or the next round, begins with the counters cleared. *)
LEMMA TurnsUnpause ==
  ASSUME Types, TurnSafe, MainUnpause \/ MainLoop
  PROVE  TurnSafe'
<1>1. /\ mpc \in {"clear", "loop"} /\ mpc' \in {"reset", "loop", "term"}
      /\ mpc' = "reset" => mi' = 0
      /\ mpc = "clear" => mi = RealThreadCount
      /\ UNCHANGED <<wpc, wi, s2c, c2s, total_votes, votes_count>>
  BY DEF MainUnpause, MainLoop, Terminate, Types, Control, sharedVars, workerVars, netVars
<1>2. /\ Ranges' /\ OneInFlight'
      /\ \A i \in Conns : Empty(i)'
      /\ \A t \in Threads : ~Counting(t)'
      /\ total_votes' = 0
  BY <1>1, SameSettled DEF Settling
<1>3. Turns' /\ Counters'
  BY <1>1 DEF Turns, Counters, Coming
<1>4. \A t \in Threads : votes_count'[t] = 0
  <2>1. \A t \in Threads : t < RealThreadCount
    BY RealThreadCountType DEF Threads
  <2> QED
    BY <1>1, <2>1 DEF TurnSafe, Settled
<1>5. \A s \in Conns : ~(s < 0)
  BY ClientCountType DEF Conns
<1>6. Settled'
  BY <1>1, <1>2, <1>4, <1>5 DEF Settled
<1> QED
  BY <1>2, <1>3, <1>6 DEF TurnSafe

LEMMA TurnsMain ==
  ASSUME Types, TurnSafe, Prompt, MainStep \/ MainTimeout \/ MainInterrupted \/ MainKilled
  PROVE  TurnSafe'
<1>1. CASE MainReset
  BY <1>1, TurnsReset
<1>2. CASE MainDispatch
  BY <1>2, TurnsDispatch
<1>3. CASE MainBroadcast
  BY <1>3, TurnsBroadcast
<1>4. CASE MainSendNext
  BY <1>4, TurnsSendNext
<1>5. CASE MainWrite
  BY <1>5, TurnsWrite
<1>6. CASE MainWriteFails \/ MainInterrupted \/ MainTerm \/ MainJoin
  <2>1. mpc' \in {"term", "join", "exit"} /\ UNCHANGED <<wpc, wi, netVars>>
    BY <1>6 DEF MainWriteFails, MainInterrupted, MainTerm, MainJoin, Terminate, workerVars
  <2> QED
    BY <2>1, TurnsEnded
<1>7. CASE MainWriteKills \/ MainKilled
  <2>1. ServerDies
    BY <1>7 DEF MainWriteKills, MainKilled
  <2> QED
    BY <2>1, TurnsEnded DEF ServerDies
<1>8. CASE MainSum
  BY <1>8, TurnsSum
<1>9. CASE MainPause \/ MainScan \/ MainScanEnd
  BY <1>9, TurnsScan
<1>10. CASE MainClear
  BY <1>10, TurnsClear
<1>11. CASE MainUnpause \/ MainLoop
  BY <1>11, TurnsUnpause
<1>12. ~MainTimeout
  BY DEF MainTimeout, Prompt
<1> QED
  BY <1>1, <1>2, <1>3, <1>4, <1>5, <1>6, <1>7, <1>8, <1>9, <1>10, <1>11, <1>12 DEF MainStep

-----------------------------------------------------------------------------
(* A step that records nothing and ends no counting; a counter may be cleared. *)
LEMMA TurnsQuiet ==
  ASSUME Types, TurnSafe, UNCHANGED <<mainVars, netVars, votes_scoreboard>>,
         \A u \in Threads : Counting(u)' <=> Counting(u),
         \A u \in Threads : Counting(u) => wi'[u] = wi[u],
         \A u \in Threads : Lo(u) <= wi'[u],
         \A u \in Threads : \/ votes_count'[u] = votes_count[u]
                            \/ wpc[u] = "paused" /\ votes_count'[u] = 0,
         \A u \in Threads : wpc'[u] = "paused" => wpc[u] = "paused" \/ ~Coming,
         \A u \in Threads : Coming /\ wpc'[u] = "store" => loaded'[u] = votes_count'[u]
  PROVE  TurnSafe'
<1>1. UNCHANGED <<mpc, mi, sent, total_votes, s2c, c2s>>
  BY DEF mainVars, netVars
<1>2. Ranges' /\ OneInFlight'
  BY <1>1 DEF TurnSafe, Ranges, OneInFlight
<1>3. Turns'
  BY <1>1 DEF TurnSafe, Turns, Coming, Recorded, Empty
<1>4. \A lo, hi : Counted(lo, hi)' = Counted(lo, hi)
  <2>1. \A i \in Conns : Recorded(i)' <=> Recorded(i)
    BY DEF Recorded
  <2> QED
    BY <2>1 DEF Counted
<1>5. Counters'
  <2>1. SUFFICES ASSUME Coming PROVE Counters'
    BY <1>1 DEF Counters, Coming
  <2>2. ASSUME NEW u \in Threads
        PROVE  /\ Counting(u)' => Recorded(wi[u])'
               /\ wpc'[u] = "store" => loaded'[u] = votes_count'[u]
               /\ wpc'[u] = "paused" => votes_count'[u] = 0
    BY <2>1 DEF TurnSafe, Counters, Recorded
  <2>3. ASSUME NEW u \in Threads
        PROVE  votes_count'[u] = Cardinality(Counted(Lo(u), Hi(u)))'
    <3>1. Counted(Lo(u), Hi(u))' = Counted(Lo(u), Hi(u)) /\ votes_count'[u] = votes_count[u]
      BY <1>4, <2>1 DEF TurnSafe, Counters
    <3>2. votes_count[u] = Cardinality(Counted(Lo(u), Hi(u)))
      BY <2>1 DEF TurnSafe, Counters
    <3> QED
      BY <3>1, <3>2
  <2>4. \A u, v \in Threads : Counting(u)' /\ Counting(v)' /\ wi'[u] = wi'[v] => u = v
    BY <2>1 DEF TurnSafe, Counters
  <2>5. /\ mpc' = "wait" => total_votes' <= Cardinality(Counted(0, Lo(mi)))'
        /\ mpc' # "wait" => total_votes' = 0
    BY <1>1, <1>4, <2>1 DEF TurnSafe, Counters
  <2> QED
    BY <2>2, <2>3, <2>4, <2>5 DEF Counters
<1>6. Settled'
  BY <1>1 DEF TurnSafe, Settled, Empty, Recorded
<1> QED
  BY <1>2, <1>3, <1>5, <1>6 DEF TurnSafe

(* A step that touches nothing the invariant speaks of. *)
LEMMA TurnsStutter ==
  ASSUME Types, TurnSafe, UNCHANGED <<sharedVars, mainVars, workerVars, netVars>>
  PROVE  TurnSafe'
<1>1. UNCHANGED <<votes_scoreboard, votes_count, wpc, wi, loaded>>
  BY DEF sharedVars, workerVars
<1>2. /\ \A u \in Threads : Counting(u)' <=> Counting(u)
      /\ \A u \in Threads : Coming /\ wpc'[u] = "store" => loaded'[u] = votes_count'[u]
      /\ \A u \in Threads : Lo(u) <= wi'[u]
      /\ \A u \in Threads : wpc'[u] = wpc[u] /\ votes_count'[u] = votes_count[u]
  BY <1>1 DEF Counting, TurnSafe, Counters, Ranges
<1> QED
  BY <1>1, <1>2, TurnsQuiet

(* The steps of a worker between two responses, and the first half of an increment. *)
LEMMA TurnsIdle ==
  ASSUME Types, PauseSafe, TurnSafe, NEW t \in Threads,
         \/ WorkerTop(t) \/ WorkerGate(t) \/ WorkerPaused(t) \/ WorkerAgain(t) \/ WorkerFin(t)
         \/ WorkerPassEnd(t) \/ WorkerLoad(t) \/ WorkerStats(t) \/ WorkerCleanup(t)
  PROVE  TurnSafe'
<1>1. UNCHANGED <<mainVars, netVars, votes_scoreboard>>
  BY DEF WorkerTop, WorkerGate, WorkerPaused, WorkerAgain, WorkerFin, WorkerPassEnd, WorkerLoad,
         WorkerStats, WorkerCleanup, sharedVars
<1>2. \/ wpc' = wpc
      \/ wpc[t] = "load" /\ wpc' = [wpc EXCEPT ![t] = "store"] /\ wi' = wi
         /\ loaded' = [loaded EXCEPT ![t] = votes_count[t]] /\ votes_count' = votes_count
      \/ /\ wpc[t] \notin {"load", "store"} /\ loaded' = loaded
         /\ \E pc \in {"top", "gate", "paused", "poll", "cleanup", "done"} : wpc' = [wpc EXCEPT ![t] = pc]
  BY DEF WorkerTop, WorkerGate, WorkerPaused, WorkerAgain, WorkerFin, WorkerPassEnd, WorkerLoad,
         WorkerStats, WorkerCleanup, sharedVars
<1>3. /\ wi' = wi \/ (~Counting(t) /\ \E n \in {wi[t] + 1, Lo(t)} : wi' = [wi EXCEPT ![t] = n])
      /\ votes_count' = votes_count \/ (wpc[t] = "paused" /\ votes_count' = [votes_count EXCEPT ![t] = 0])
      /\ wpc' = wpc => loaded' = loaded /\ votes_count' = votes_count
  BY DEF WorkerTop, WorkerGate, WorkerPaused, WorkerAgain, WorkerFin, WorkerPassEnd, WorkerLoad,
         WorkerStats, WorkerCleanup, sharedVars, Counting, Types, TypeOK
<1>4. \A u \in Threads : Counting(u)' <=> Counting(u)
  BY <1>2 DEF Counting, Types, TypeOK
<1>5. \A u \in Threads : Counting(u) => wi'[u] = wi[u]
  BY <1>3 DEF Types, TypeOK
<1>6. \A u \in Threads : Lo(u) <= wi'[u]
  <2>1. \A u \in Threads : Lo(u) <= wi[u] /\ wi[u] \in Nat /\ Lo(u) \in Nat
    BY RangeType, ClientCountType DEF TurnSafe, Ranges, Types, TypeOK
  <2>2. \A u \in Threads : wi'[u] \in {wi[u], wi[u] + 1, Lo(u)}
    BY <1>3 DEF Types, TypeOK
  <2> QED
    BY <2>1, <2>2
<1>7. /\ \A u \in Threads : \/ votes_count'[u] = votes_count[u]
                            \/ wpc[u] = "paused" /\ votes_count'[u] = 0
      /\ \A u \in Threads : wpc'[u] = "paused" => wpc[u] = "paused" \/ ~Coming
  <2>1. wpc'[t] = "paused" => wpc[t] = "paused" \/ pause_signal
    BY DEF WorkerTop, WorkerGate, WorkerPaused, WorkerAgain, WorkerFin, WorkerPassEnd, WorkerLoad,
           WorkerStats, WorkerCleanup, Types, TypeOK
  <2>2. \A u \in Threads \ {t} : wpc'[u] = wpc[u] /\ votes_count'[u] = votes_count[u]
    BY <1>2, <1>3 DEF Types, TypeOK
  <2>3. votes_count'[t] = votes_count[t] \/ (wpc[t] = "paused" /\ votes_count'[t] = 0)
    BY <1>3 DEF Types, TypeOK
  <2>4. pause_signal => ~Coming
    BY DEF PauseSafe, Coming
  <2> QED
    BY <2>1, <2>2, <2>3, <2>4
<1>8. \A u \in Threads : Coming /\ wpc'[u] = "store" => loaded'[u] = votes_count'[u]
  <2>1. ASSUME NEW u \in Threads, Coming, wpc'[u] = "store"
        PROVE  loaded'[u] = votes_count'[u]
    <3>1. wpc[u] = "store" => loaded[u] = votes_count[u]
      BY <2>1 DEF TurnSafe, Counters
    <3>2. Counting(u)
      BY <1>4, <2>1 DEF Counting
    <3>3. votes_count'[u] = votes_count[u]
      <4>1. wpc[u] # "paused"
        BY <3>2 DEF Counting
      <4> QED
        BY <1>7, <4>1
    <3>4. CASE u = t
      BY <1>2, <1>3, <2>1, <3>1, <3>2, <3>3, <3>4 DEF Counting, Types, TypeOK
    <3>5. CASE u # t
      BY <1>2, <1>3, <2>1, <3>1, <3>3, <3>5 DEF Types, TypeOK
    <3> QED
      BY <3>4, <3>5
  <2> QED
    BY <2>1
<1> QED
  BY <1>1, <1>4, <1>5, <1>6, <1>7, <1>8, TurnsQuiet

(* Outside the rounds only the ranges and the queues matter. *)
LEMMA TurnsOutside ==
  ASSUME ~Coming, ~Settling, UNCHANGED mpc, Ranges', OneInFlight'
  PROVE  TurnSafe'
BY DEF Coming, Settling, TurnSafe, Turns, Counters, Settled

(* A connection with a message in it has no other. *)
LEMMA OneMessage ==
  ASSUME Types, OneInFlight, NEW i \in Conns
  PROVE  /\ s2c[i] # <<>> => c2s[i] = <<>> /\ Tail(s2c[i]) = <<>>
         /\ c2s[i] # <<>> => s2c[i] = <<>> /\ Tail(c2s[i]) = <<>> /\ Head(c2s[i]) \in Responses
<1>0. \A a, b \in Nat : a + b <= 1 => (a >= 1 => a = 1 /\ b = 0) /\ (b >= 1 => b = 1)
  OBVIOUS
<1>1. s2c[i] \in Seq(Requests) /\ c2s[i] \in Seq(Responses) /\ Len(s2c[i]) + Len(c2s[i]) <= 1
  BY DEF Types, TypeOK, OneInFlight
<1>2. ASSUME NEW S, NEW q \in Seq(S), q # <<>>
      PROVE  /\ Len(q) \in Nat /\ Len(q) >= 1 /\ Head(q) \in S
             /\ Len(q) = 1 => Tail(q) = <<>>
  <2>1. Len(q) \in Nat /\ Len(q) # 0
    BY <1>2, EmptySeq, LenProperties
  <2>2. Head(q) \in S /\ Tail(q) \in Seq(S) /\ Len(Tail(q)) = Len(q) - 1
    BY <1>2, HeadTailProperties
  <2> QED
    BY <2>1, <2>2, EmptySeq
<1>3. Len(s2c[i]) \in Nat /\ Len(c2s[i]) \in Nat
  BY <1>1, LenProperties
<1>4. CASE s2c[i] # <<>>
  <2>1. Len(s2c[i]) >= 1 /\ (Len(s2c[i]) = 1 => Tail(s2c[i]) = <<>>)
    BY <1>1, <1>2, <1>4
  <2>2. Len(s2c[i]) = 1 /\ Len(c2s[i]) = 0
    BY <1>0, <1>1, <1>3, <2>1, Zenon
  <2> QED
    BY <1>1, <2>1, <2>2, EmptySeq
<1>5. CASE s2c[i] = <<>> /\ c2s[i] # <<>>
  <2>1. Len(c2s[i]) >= 1 /\ (Len(c2s[i]) = 1 => Tail(c2s[i]) = <<>>) /\ Head(c2s[i]) \in Responses
    BY <1>1, <1>2, <1>5
  <2>2. Len(c2s[i]) = 1
    BY <1>0, <1>1, <1>3, <2>1, Zenon
  <2> QED
    BY <1>5, <2>1, <2>2
<1> QED
  BY <1>4, <1>5

(* The worker takes the one response on the connection; its slot was lost. *)
LEMMA TurnsRecord ==
  ASSUME Types, TurnSafe, NEW t \in Threads, WorkerRecord(t)
  PROVE  TurnSafe'
<1>1. PICK k \in Conns : /\ k = wi[t] /\ k < Hi(t) /\ c2s[k] # <<>>
                         /\ votes_scoreboard' = [votes_scoreboard EXCEPT ![Slot(k)] = Head(c2s[k])]
                         /\ c2s' = [c2s EXCEPT ![k] = Tail(c2s[k])]
  <2>1. wi[t] \in Conns
    BY RangeType, ClientCountType DEF WorkerRecord, Types, TypeOK, Conns
  <2>2. c2s[wi[t]] # <<>>
    BY DEF WorkerRecord, ReadSays, TcpRead, UdpRead, QjRead, ConfigAssumption
  <2> QED
    BY <2>1, <2>2 DEF WorkerRecord
<1>2. /\ wpc[t] = "poll" /\ wpc' = [wpc EXCEPT ![t] = "load"]
      /\ UNCHANGED <<mpc, mi, sent, total_votes, votes_count, wi, loaded, s2c>>
  BY DEF WorkerRecord, mainVars
<1>3. s2c[k] = <<>> /\ c2s'[k] = <<>> /\ Head(c2s[k]) # "lost"
  <2>1. s2c[k] = <<>> /\ Tail(c2s[k]) = <<>> /\ Head(c2s[k]) \in Responses
    BY <1>1, OneMessage DEF TurnSafe
  <2> QED
    BY <1>1, <2>1 DEF Responses, Types, TypeOK
<1>4. /\ Recorded(k)' /\ Empty(k)' /\ ~Empty(k)
      /\ \A i \in Conns \ {k} : (Recorded(i)' <=> Recorded(i)) /\ (Empty(i)' <=> Empty(i))
  BY <1>1, <1>2, <1>3, SlotType DEF Recorded, Empty, Types, TypeOK
<1>5. /\ Counting(t)' /\ ~Counting(t) /\ wi'[t] = k
      /\ \A u \in Threads \ {t} : (Counting(u)' <=> Counting(u)) /\ wi'[u] = wi[u] /\ wpc'[u] = wpc[u]
      /\ wpc'[t] = "load"
  BY <1>1, <1>2 DEF Counting, Types, TypeOK
<1>6. Ranges'
  BY <1>1, <1>2, <1>5 DEF TurnSafe, Ranges
<1>7. OneInFlight'
  <2>1. Len(s2c'[k]) + Len(c2s'[k]) <= 1
    <3>1. s2c'[k] = <<>> /\ c2s'[k] = <<>>
      BY <1>2, <1>3
    <3>2. Len(<<>>) + Len(<<>>) <= 1
      OBVIOUS
    <3> QED
      BY <3>1, <3>2, Zenon
  <2>2. \A i \in Conns \ {k} : c2s'[i] = c2s[i]
    BY <1>1 DEF Types, TypeOK
  <2> QED
    BY <1>2, <2>1, <2>2 DEF TurnSafe, OneInFlight
<1>8. CASE Coming
  <2>1. ~Recorded(k) /\ (mpc # "wait" => ~(k >= sent))
    BY <1>4, <1>8 DEF TurnSafe, Turns
  <2>2. Turns'
    BY <1>2, <1>4, <1>8, <2>1 DEF TurnSafe, Turns, Coming
  <2>4. \A lo, hi : Counted(lo, hi)' = Counted(lo, hi)
    BY <1>4, <1>5, <2>1 DEF Counted
  <2>5. \A u \in Threads : Counting(u) => Recorded(wi[u]) /\ wi[u] \in Conns /\ wi[u] # k
    BY <1>8, <2>1 DEF TurnSafe, Counters, Counting, Types, Control
  <2>6. ASSUME NEW u \in Threads
        PROVE  /\ Counting(u)' => Recorded(wi[u])'
               /\ wpc'[u] = "store" => loaded'[u] = votes_count'[u]
               /\ wpc'[u] = "paused" => votes_count'[u] = 0
    <3>1. CASE u = t
      BY <1>2, <1>4, <1>5, <3>1 DEF Recorded
    <3>2. CASE u # t
      <4>1. Counting(u)' => Recorded(wi[u])'
        BY <1>2, <1>4, <1>5, <2>5, <3>2 DEF Recorded
      <4> QED
        BY <1>2, <1>5, <1>8, <3>2, <4>1 DEF TurnSafe, Counters
    <3> QED
      BY <3>1, <3>2
  <2>7. ASSUME NEW u \in Threads
        PROVE  votes_count'[u] = Cardinality(Counted(Lo(u), Hi(u)))'
    <3>1. votes_count[u] = Cardinality(Counted(Lo(u), Hi(u)))
      BY <1>8 DEF TurnSafe, Counters
    <3>2. Counted(Lo(u), Hi(u))' = Counted(Lo(u), Hi(u))
      BY <2>4
    <3> QED
      BY <1>2, <3>1, <3>2
  <2>8. \A u, v \in Threads : Counting(u)' /\ Counting(v)' /\ wi'[u] = wi'[v] => u = v
    BY <1>5, <1>8, <2>5 DEF TurnSafe, Counters
  <2>9. /\ mpc' = "wait" => total_votes' <= Cardinality(Counted(0, Lo(mi)))'
        /\ mpc' # "wait" => total_votes' = 0
    <3>1. /\ mpc = "wait" => total_votes <= Cardinality(Counted(0, Lo(mi)))
          /\ mpc # "wait" => total_votes = 0
      BY <1>8 DEF TurnSafe, Counters
    <3>2. Counted(0, Lo(mi))' = Counted(0, Lo(mi))
      BY <1>2, <2>4
    <3> QED
      BY <1>2, <3>1, <3>2
  <2>10. Counters'
    BY <2>6, <2>7, <2>8, <2>9 DEF Counters
  <2>11. Settled'
    BY <1>2, <1>8 DEF Settled, Coming
  <2> QED
    BY <1>6, <1>7, <2>2, <2>10, <2>11 DEF TurnSafe
<1>9. ~Settling
  BY <1>4 DEF Settling, TurnSafe, Settled
<1> QED
  BY <1>2, <1>6, <1>7, <1>8, <1>9, TurnsOutside

(* The second half of an increment: what was recorded is counted. *)
LEMMA TurnsStore ==
  ASSUME Types, TurnSafe, NEW t \in Threads, WorkerStore(t)
  PROVE  TurnSafe'
<1>1. /\ wpc[t] = "store" /\ wpc' = [wpc EXCEPT ![t] = "stats"]
      /\ votes_count' = [votes_count EXCEPT ![t] = loaded[t] + 1]
      /\ loaded' = [loaded EXCEPT ![t] = 0]
      /\ UNCHANGED <<mpc, mi, sent, total_votes, wi, votes_scoreboard, s2c, c2s>>
  BY DEF WorkerStore, Incremented, mainVars, netVars
<1>2. /\ Counting(t) /\ ~Counting(t)' /\ wpc'[t] = "stats" /\ votes_count'[t] = loaded[t] + 1
      /\ \A u \in Threads \ {t} : /\ Counting(u)' <=> Counting(u)
                                  /\ wpc'[u] = wpc[u] /\ votes_count'[u] = votes_count[u]
                                  /\ loaded'[u] = loaded[u]
  BY <1>1 DEF Counting, Types, TypeOK
<1>3. \A i \in Conns : (Recorded(i)' <=> Recorded(i)) /\ (Empty(i)' <=> Empty(i))
  BY <1>1 DEF Recorded, Empty
<1>4. Ranges' /\ OneInFlight'
  BY <1>1, <1>2 DEF TurnSafe, Ranges, OneInFlight
<1>5. CASE Coming
  <2>1. /\ wi[t] \in Conns /\ Lo(t) <= wi[t] /\ wi[t] < Hi(t) /\ Recorded(wi[t])
        /\ \A u \in Threads \ {t} : Counting(u) => wi[u] # wi[t]
    BY <1>2, <1>5 DEF TurnSafe, Ranges, Counters, Counting, Types, Control
  <2>2. Turns'
    BY <1>1, <1>3, <1>5 DEF TurnSafe, Turns, Coming
  <2>3. \A lo, hi : Counted(lo, hi) \subseteq Counted(lo, hi)'
    BY <1>1, <1>2, <1>3 DEF Counted
  <2>4. /\ Counted(Lo(t), Hi(t))' = Counted(Lo(t), Hi(t)) \cup {wi[t]}
        /\ wi[t] \notin Counted(Lo(t), Hi(t))
    BY <1>1, <1>2, <1>3, <2>1 DEF Counted
  <2>5. \A lo, hi : /\ Cardinality(Counted(lo, hi)) <= Cardinality(Counted(lo, hi)')
                    /\ Cardinality(Counted(lo, hi)) \in Nat /\ Cardinality(Counted(lo, hi)') \in Nat
    BY <2>3, CountedGrows, CountedType, CountedTypeNext
  <2>6. Cardinality(Counted(Lo(t), Hi(t)))' = Cardinality(Counted(Lo(t), Hi(t))) + 1
    BY <2>4, CountedType, FS_AddElement
  <2>7. ASSUME NEW u \in Threads
        PROVE  votes_count'[u] = Cardinality(Counted(Lo(u), Hi(u)))'
    <3>1. votes_count[u] = Cardinality(Counted(Lo(u), Hi(u)))
      BY <1>5 DEF TurnSafe, Counters
    <3>2. CASE u = t
      <4>1. votes_count'[t] = votes_count[t] + 1
        BY <1>1, <1>2, <1>5 DEF TurnSafe, Counters
      <4> QED
        BY <2>6, <3>1, <3>2, <4>1
    <3>3. CASE u # t
      <4>1. ~(Lo(u) <= wi[t] /\ wi[t] < Hi(u))
        BY <2>1, <3>3, ClientCountType, RangesApart DEF Conns
      <4>2. Counted(Lo(u), Hi(u))' = Counted(Lo(u), Hi(u))
        BY <1>1, <1>2, <1>3, <2>1, <4>1 DEF Counted
      <4> QED
        BY <1>2, <3>1, <3>3, <4>2
    <3> QED
      BY <3>2, <3>3
  <2>8. ASSUME NEW u \in Threads
        PROVE  /\ Counting(u)' => Recorded(wi[u])'
               /\ wpc'[u] = "store" => loaded'[u] = votes_count'[u]
               /\ wpc'[u] = "paused" => votes_count'[u] = 0
    BY <1>1, <1>2, <1>5 DEF TurnSafe, Counters, Recorded
  <2>9. \A u, v \in Threads : Counting(u)' /\ Counting(v)' /\ wi'[u] = wi'[v] => u = v
    BY <1>1, <1>2, <1>5 DEF TurnSafe, Counters
  <2>10. /\ mpc' = "wait" => total_votes' <= Cardinality(Counted(0, Lo(mi)))'
         /\ mpc' # "wait" => total_votes' = 0
    <3>1. /\ mpc = "wait" => total_votes <= Cardinality(Counted(0, Lo(mi)))
          /\ mpc # "wait" => total_votes = 0
          /\ total_votes \in Nat
      BY <1>5 DEF TurnSafe, Counters, Types, TypeOK
    <3>2. /\ Cardinality(Counted(0, Lo(mi))) \in Nat /\ Cardinality(Counted(0, Lo(mi)))' \in Nat
          /\ Cardinality(Counted(0, Lo(mi))) <= Cardinality(Counted(0, Lo(mi)))'
      BY <1>1, <2>5
    <3> QED
      BY <1>1, <3>1, <3>2
  <2>11. Counters'
    BY <2>7, <2>8, <2>9, <2>10 DEF Counters
  <2>12. Settled'
    BY <1>1, <1>5 DEF Settled, Coming
  <2> QED
    BY <1>4, <2>2, <2>11, <2>12 DEF TurnSafe
<1>6. ~Settling
  BY <1>2 DEF Settling, TurnSafe, Settled
<1> QED
  BY <1>1, <1>4, <1>5, <1>6, TurnsOutside

LEMMA TurnsWorker ==
  ASSUME Types, PauseSafe, TurnSafe, NEW t \in Threads, WorkerStep(t)
  PROVE  TurnSafe'
<1>1. CASE WorkerRecord(t)
  BY <1>1, TurnsRecord
<1>2. CASE WorkerStore(t)
  BY <1>2, TurnsStore
<1>3. CASE WorkerDies(t)
  BY <1>3, TurnsEnded DEF WorkerDies, ServerDies
<1> QED
  BY <1>1, <1>2, <1>3, TurnsIdle DEF WorkerStep

-----------------------------------------------------------------------------
(* A client takes the one message on its connection, and may answer it. *)
LEMMA TurnsTake ==
  ASSUME Types, TurnSafe, NEW k \in Conns, UNCHANGED <<sharedVars, mainVars, workerVars>>,
         s2c[k] # <<>>, s2c' = [s2c EXCEPT ![k] = Tail(s2c[k])],
         NEW m, NEW queue, queue = <<>> \/ queue = <<m>>, c2s' = [c2s EXCEPT ![k] = queue]
  PROVE  TurnSafe'
<1>1. UNCHANGED <<mpc, mi, sent, total_votes, votes_scoreboard, votes_count, wpc, wi, loaded>>
  BY DEF sharedVars, mainVars, workerVars
<1>2. /\ s2c'[k] = <<>> /\ c2s'[k] = queue /\ ~Empty(k)
      /\ \A i \in Conns \ {k} : s2c'[i] = s2c[i] /\ c2s'[i] = c2s[i]
  BY OneMessage DEF TurnSafe, Types, TypeOK, Empty
<1>3. OneInFlight'
  <2>1. Len(s2c'[k]) + Len(c2s'[k]) <= 1
    <3>1. Len(<<>>) + Len(<<>>) <= 1 /\ Len(<<>>) + Len(<<m>>) <= 1
      OBVIOUS
    <3> QED
      BY <1>2, <3>1, Zenon
  <2> QED
    BY <1>2, <2>1 DEF TurnSafe, OneInFlight
<1>4. Ranges'
  BY <1>1, SameCounts DEF TurnSafe
<1>5. CASE Coming
  <2>1. ~Recorded(k) /\ (mpc # "wait" => ~(k >= sent))
    BY <1>2, <1>5 DEF TurnSafe, Turns
  <2>2. \A i \in Conns \ {k} : Empty(i)' <=> Empty(i)
    BY <1>2 DEF Empty
  <2>3. Turns'
    BY <1>1, <1>5, <2>1, <2>2, SameCounts DEF TurnSafe, Turns
  <2>4. Counters'
    <3>1. Counted(0, Lo(mi))' = Counted(0, Lo(mi))
      BY <1>1, SameCounts
    <3> QED
      BY <1>1, <1>5, <3>1, SameCounters DEF TurnSafe, Counters
  <2>5. Settled'
    BY <1>1, <1>5 DEF Settled, Coming
  <2> QED
    BY <1>3, <1>4, <2>3, <2>4, <2>5 DEF TurnSafe
<1>6. ~Settling
  BY <1>2 DEF Settling, TurnSafe, Settled
<1> QED
  BY <1>1, <1>3, <1>4, <1>5, <1>6, TurnsOutside

LEMMA TurnsClient ==
  ASSUME Types, TurnSafe, Prompt, NEW i \in Conns,
         ClientStep(i) \/ ClientTimeout(i) \/ ClientRefused(i) \/ ClientKilled(i)
  PROVE  TurnSafe'
<1>1. UNCHANGED <<sharedVars, mainVars, workerVars>>
  BY DEF ClientStep, ClientPhase1, ClientPhase2, ClientProtocolFailure, ClientEof, ClientWriteFails,
         ClientTimeout, ClientRefused, ClientKilled, ClientExit
<1>2. s2c[i] # <<>> => c2s[i] = <<>>
  BY OneMessage DEF TurnSafe
<1>3. CASE ClientPhase1(i) \/ ClientPhase2(i)
  <2>1. PICK m : \E queue \in Delivered(c2s[i], m) :
           s2c[i] # <<>> /\ s2c' = [s2c EXCEPT ![i] = Tail(s2c[i])] /\ c2s' = [c2s EXCEPT ![i] = queue]
    BY <1>3 DEF ClientPhase1, ClientPhase2
  <2>2. PICK queue \in Delivered(c2s[i], m) :
           s2c[i] # <<>> /\ s2c' = [s2c EXCEPT ![i] = Tail(s2c[i])] /\ c2s' = [c2s EXCEPT ![i] = queue]
    BY <2>1
  <2>3. queue = <<>> \/ queue = <<m>>
    BY <1>2, <2>2, PromptDelivery
  <2> QED
    BY <1>1, <2>2, <2>3, TurnsTake
<1>4. CASE ClientProtocolFailure(i) \/ ClientWriteFails(i)
  <2>1. s2c[i] # <<>> /\ s2c' = [s2c EXCEPT ![i] = Tail(s2c[i])] /\ c2s' = c2s
    BY <1>4 DEF ClientProtocolFailure, ClientWriteFails
  <2>2. c2s' = [c2s EXCEPT ![i] = <<>>]
    BY <1>2, <2>1 DEF Types, TypeOK
  <2> QED
    BY <1>1, <2>1, <2>2, TurnsTake
<1>5. CASE ClientEof(i) \/ ClientTimeout(i) \/ ClientRefused(i) \/ ClientKilled(i)
  <2>1. UNCHANGED netVars
    BY <1>5 DEF ClientEof, ClientTimeout, ClientRefused, ClientKilled
  <2> QED
    BY <1>1, <2>1, TurnsStutter
<1> QED
  BY <1>3, <1>4, <1>5 DEF ClientStep

-----------------------------------------------------------------------------
(* The pause flag is the main thread's own. *)
LEMMA PauseInit == Init => PauseSafe
BY DEF Init, PauseSafe

LEMMA PauseNext == PauseSafe /\ [Next]_vars => PauseSafe'
<1> SUFFICES ASSUME PauseSafe, [Next]_vars PROVE PauseSafe'
  OBVIOUS
<1>1. CASE MainPause
  BY <1>1 DEF MainPause, PauseSafe
<1>2. CASE MainUnpause
  BY <1>2 DEF MainUnpause, PauseSafe
<1>3. CASE MainClear
  BY <1>3 DEF MainClear, PauseSafe
<1>4. CASE \/ MainReset \/ MainDispatch \/ MainBroadcast \/ MainSendNext \/ MainWrite \/ MainWriteFails
           \/ MainWriteKills \/ MainSum \/ MainScan \/ MainScanEnd \/ MainLoop \/ MainJoin
           \/ MainTimeout \/ MainInterrupted \/ MainKilled
  BY <1>4 DEF MainReset, MainDispatch, MainBroadcast, MainSendNext, MainWrite, MainWriteFails,
              MainWriteKills, MainSum, MainScan, MainScanEnd, MainLoop, MainJoin, MainTimeout,
              MainInterrupted, MainKilled, ServerDies, Terminate, sharedVars, PauseSafe
<1>5. CASE MainTerm
  <2>1. mpc' = "join"
    BY <1>5 DEF MainTerm
  <2> QED
    BY <2>1 DEF PauseSafe
<1>6. CASE \E t \in Threads : WorkerStep(t)
  <2>1. pause_signal' = pause_signal /\ (mpc' = mpc \/ mpc' = "exit")
    BY <1>6 DEF WorkerStep, WorkerTop, WorkerGate, WorkerPaused, WorkerRecord, WorkerAgain, WorkerFin,
                WorkerDies, WorkerPassEnd, WorkerLoad, WorkerStore, WorkerStats, WorkerCleanup,
                ServerDies, sharedVars, mainVars
  <2> QED
    BY <2>1 DEF PauseSafe
<1>7. CASE \/ \E i \in Conns : ClientStep(i) \/ ClientTimeout(i) \/ ClientRefused(i) \/ ClientKilled(i)
           \/ UNCHANGED vars
  BY <1>7 DEF ClientStep, ClientPhase1, ClientPhase2, ClientProtocolFailure, ClientEof,
              ClientWriteFails, ClientTimeout, ClientRefused, ClientKilled, ClientExit,
              vars, sharedVars, mainVars, PauseSafe
<1> QED
  BY <1>1, <1>2, <1>3, <1>4, <1>5, <1>6, <1>7 DEF Next, Environment, MainStep

LEMMA TurnsInit == Init => TurnSafe
<1> SUFFICES ASSUME Init PROVE TurnSafe
    OBVIOUS
<1>1. /\ mpc = "reset" /\ mi = 0 /\ total_votes = 0
      /\ \A t \in Threads : wpc[t] = "top" /\ wi[t] = Lo(t) /\ votes_count[t] = 0
      /\ \A i \in Conns : s2c[i] = <<>> /\ c2s[i] = <<>>
  BY DEF Init
<1>2. OneInFlight
  <2>1. Len(<<>>) + Len(<<>>) <= 1
    OBVIOUS
  <2> QED
    BY <1>1, <2>1, Zenon DEF OneInFlight
<1>3. Ranges
  BY <1>1, RangeOrder DEF Ranges, Counting
<1>4. \A s \in Conns : ~(s < 0)
  BY ClientCountType DEF Conns
<1>5. Settled
  BY <1>1, <1>4 DEF Settled, Empty, Counting
<1> QED
  BY <1>1, <1>2, <1>3, <1>5 DEF TurnSafe, Turns, Counters, Coming

LEMMA TurnsNext ==
  ASSUME Prompt, Types, PauseSafe, TurnSafe, [Next]_vars
  PROVE  TurnSafe'
<1>1. CASE UNCHANGED vars
  BY <1>1, TurnsStutter DEF vars
<1>2. CASE Next
  BY <1>2, TurnsMain, TurnsWorker, TurnsClient DEF Next, Environment
<1> QED
  BY <1>1, <1>2

(***************************************************************************)
(* When no wait times out and the network repeats nothing (it may lose and *)
(* reorder, and processes may be killed), server and client take turns on  *)
(* every connection, and no counter runs ahead of the recorded responses.  *)
(***************************************************************************)
THEOREM TurnsInvariant == Prompt => (Spec => []TurnsInv)
<1> SUFFICES ASSUME Prompt PROVE Spec => []TurnsInv
    OBVIOUS
<1>1. Init => TurnsInv
  BY TypesInit, PauseInit, TurnsInit DEF TurnsInv
<1>2. TurnsInv /\ [Next]_vars => TurnsInv'
  BY TypesNext, PauseNext, TurnsNext DEF TurnsInv
<1> QED
  BY <1>1, <1>2, PTL DEF Spec

(***************************************************************************)
(* Under the same conditions: when the workers' counts have added up to    *)
(* the number of clients, no slot of the scoreboard is still empty, so     *)
(* do_phase1 and do_phase2 scan a complete scoreboard.                     *)
(***************************************************************************)
THEOREM CountsAreRecorded == Prompt => (Spec => []CountedIsRecorded)
<1> SUFFICES ASSUME Prompt PROVE Spec => []CountedIsRecorded
    OBVIOUS
<1>1. TurnsInv => CountedIsRecorded
  BY SlotOwned DEF TurnsInv, TurnSafe, Settled, Recorded, CountedIsRecorded
<1> QED
  BY <1>1, TurnsInvariant, PTL

(***************************************************************************)
(* Under the same conditions: while the responses of a phase come in, each *)
(* worker's counter is the number of responses of its range that are in    *)
(* their slots and not just being counted; a late clearing of a counter by *)
(* a paused worker erases nothing.                                         *)
(***************************************************************************)
THEOREM CountsStayExact == Prompt => (Spec => []CountsAreExact)
<1> SUFFICES ASSUME Prompt PROVE Spec => []CountsAreExact
    OBVIOUS
<1>1. TurnsInv => CountsAreExact
  BY DEF TurnsInv, TurnSafe, Counters, Coming, CountsAreExact
<1> QED
  BY <1>1, TurnsInvariant, PTL

(***************************************************************************)
(* Under the same conditions: while the scoreboard is reset for a phase    *)
(* every counter is zero and no worker is about to store a stale one, so   *)
(* do_phase1 and do_phase2 clear every count of the phase before.          *)
(***************************************************************************)
THEOREM CountsAreCleared == Prompt => (Spec => []CountsStartAtZero)
<1> SUFFICES ASSUME Prompt PROVE Spec => []CountsStartAtZero
    OBVIOUS
<1>1. TurnsInv => CountsStartAtZero
  BY DEF TurnsInv, TurnSafe, Settled, Counting, CountsStartAtZero
<1> QED
  BY <1>1, TurnsInvariant, PTL

(***************************************************************************)
(* Under the same conditions: a connection never holds two messages, so    *)
(* the one a worker or a client goes on using after end_read is not        *)
(* overtaken by another.                                                   *)
(***************************************************************************)
THEOREM OneMessageAtATime == Prompt => (Spec => []OneInFlight)
<1> SUFFICES ASSUME Prompt PROVE Spec => []OneInFlight
    OBVIOUS
<1>1. TurnsInv => OneInFlight
  BY DEF TurnsInv, TurnSafe
<1> QED
  BY <1>1, TurnsInvariant, PTL
=============================================================================
