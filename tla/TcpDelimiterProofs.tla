------------------------- MODULE TcpDelimiterProofs -------------------------
(***************************************************************************)
(* The TCP delimiter hands out whole messages in order, for every message  *)
(* size, every size of read and every split of the stream into reads.      *)
(***************************************************************************)
EXTENDS TcpDelimiter, TLAPS

USE StreamAssumption

(* Where the next message starts in the buffer. *)
Front == IF delim_result = NULL THEN 0 ELSE delim_result

(* The first byte not taken. *)
Base == taken * MsgSize

(* The buffer holds exactly what was read of the messages not taken. *)
Inv ==
  /\ StreamTypeOK
  /\ received = Base + used
  /\ Front + used <= MsgSize + ReadSize - 1
  /\ \A k \in 0 .. used - 1 : buffer[Front + k] = Base + k
  /\ delim_result = NULL => used < MsgSize /\ caller # "reading"
  /\ delim_result # NULL => delim_len = MsgSize /\ MsgSize <= used
  /\ caller = "reading" => msg = delim_result

LEMMA NextMultiple == \A n \in Nat : n * MsgSize \in Nat /\ (n + 1) * MsgSize = n * MsgSize + MsgSize
OBVIOUS

LEMMA CellsType == \A c : c \in Cells <=> c \in Nat /\ c < MsgSize + ReadSize - 1
BY DEF Cells

LEMMA BaseType == StreamTypeOK => Base \in Nat /\ Written \in Nat
BY NextMultiple DEF StreamTypeOK, Base, Written

LEMMA InvInit == Init => Inv
<1> SUFFICES ASSUME Init PROVE Inv
  OBVIOUS
<1>1. Base = 0 /\ Written = 0
  BY DEF Init, Base, Written
<1> QED
  BY <1>1, CellsType DEF Init, Inv, StreamTypeOK, Front, NULL

LEMMA InvNext == Inv /\ [Next]_vars => Inv'
<1> SUFFICES ASSUME Inv, [Next]_vars
             PROVE  Inv'
  OBVIOUS
<1> USE DEF Inv, StreamTypeOK, Front, NULL
<1>1. CASE PeerWrite
  <2>1. Written' = Written + MsgSize /\ Base' = Base
    BY <1>1, NextMultiple DEF PeerWrite, Written, Base
  <2> QED
    BY <1>1, <2>1, BaseType DEF PeerWrite
<1>2. CASE BegDelimitReady
  <2>1. delim_result # NULL
    BY <1>2 DEF BegDelimitReady, Delimit
  <2>2. Base' = Base /\ Written' = Written
    BY <1>2 DEF BegDelimitReady, Base, Written
  <2> QED
    BY <1>2, <2>1, <2>2 DEF BegDelimitReady
<1>3. CASE BegDelimitRead
  <2>1. PICK n \in 1 .. ReadSize :
          /\ n <= Written - received
          /\ received' = received + n
          /\ buffer' = Filled(n)
          /\ used' = used + n
          /\ IF Delimit(used + n) > 0
             THEN delim_result' = 0 /\ delim_len' = Delimit(used + n) /\ caller' = "reading" /\ msg' = 0
             ELSE UNCHANGED <<delim_result, delim_len, caller, msg>>
    BY <1>3 DEF BegDelimitRead
  <2>2. delim_result = NULL /\ used < MsgSize /\ caller = "idle" /\ UNCHANGED <<sent, taken>>
    BY <1>3 DEF BegDelimitRead
  <2>3. Front' = 0 /\ used + n \in 0 .. MsgSize + ReadSize - 1 /\ 0 \in Cells
    BY <2>1, <2>2, CellsType
  <2>4. Base \in Nat /\ Written \in Nat /\ Base' = Base /\ Written' = Written
    BY <2>2, BaseType DEF Base, Written
  <2>5. buffer' \in [Cells -> Int]
    BY <2>1, CellsType DEF Filled
  <2>6. ASSUME NEW k \in 0 .. used + n - 1
        PROVE  buffer'[k] = Base + k
    <3>1. k \in Cells
      BY <2>3, <2>6, CellsType
    <3>2. buffer'[k] = IF k \in used .. used + n - 1 THEN received + (k - used) ELSE buffer[k]
      BY <2>1, <3>1 DEF Filled
    <3>3. k < used => buffer[k] = Base + k
      BY <2>2, <2>6
    <3> QED
      BY <2>4, <2>6, <3>2, <3>3
  <2>7. StreamTypeOK' /\ received' = Base' + used'
    BY <2>1, <2>2, <2>3, <2>4, <2>5 DEF Delimit
  <2>8. /\ delim_result' = NULL => used' < MsgSize /\ caller' # "reading"
        /\ delim_result' # NULL => delim_len' = MsgSize /\ MsgSize <= used'
        /\ caller' = "reading" => msg' = delim_result'
    BY <2>1, <2>2, <2>3 DEF Delimit
  <2>9. \A k \in 0 .. used' - 1 : buffer'[Front' + k] = Base' + k
    <3>1. \A k \in 0 .. used + n - 1 : Front' + k = k
      BY <2>3
    <3> QED
      BY <2>1, <2>4, <2>6, <3>1
  <2>10. Front' + used' <= MsgSize + ReadSize - 1
    <3>1. used' = used + n
      BY <2>1
    <3> HIDE DEF Front
    <3> QED
      BY <2>3, <3>1
  <2> HIDE DEF Front, StreamTypeOK
  <2> QED
    BY <2>7, <2>8, <2>9, <2>10
<1>4. CASE EndDelimit
  <2> DEFINE left == used - MsgSize
             next == delim_result + MsgSize
  <2>1. /\ delim_result # NULL /\ delim_result \in Nat /\ delim_len = MsgSize /\ MsgSize <= used
        /\ Left = left /\ left \in Nat /\ next \in Nat /\ next + left <= MsgSize + ReadSize - 1
        /\ used' = left /\ taken' = taken + 1 /\ caller' = "using"
        /\ UNCHANGED <<sent, received, msg>>
    BY <1>4, CellsType DEF EndDelimit, Left
  <2>2. Base' = Base + MsgSize /\ Base \in Nat /\ taken' \in Nat /\ Written' = Written
    BY <2>1, NextMultiple, BaseType DEF Base, Written
  <2>3. \A k \in 0 .. left - 1 : buffer[next + k] = Base' + k
    <3>1. ASSUME NEW k \in 0 .. left - 1
          PROVE  buffer[next + k] = Base' + k
      <4>1. MsgSize + k \in 0 .. used - 1 /\ next + k = delim_result + (MsgSize + k)
        BY <2>1
      <4>2. buffer[delim_result + (MsgSize + k)] = Base + (MsgSize + k)
        BY <2>1, <4>1
      <4> QED
        BY <2>2, <4>1, <4>2
    <3> QED
      BY <3>1
  <2>4. received' = Base' + used'
    BY <2>1, <2>2
  <2>5. CASE left >= MsgSize
    <3>1. delim_result' = next /\ delim_len' = MsgSize /\ buffer' = buffer
      BY <1>4, <2>1, <2>5 DEF EndDelimit, Delimit
    <3>2. next \in Cells /\ next # NULL
      BY <2>1, <2>5, CellsType
    <3>3. StreamTypeOK'
      BY <2>1, <2>2, <3>1, <3>2
    <3> QED
      BY <2>1, <2>2, <2>3, <2>4, <2>5, <3>1, <3>2, <3>3
  <2>6. CASE left < MsgSize
    <3>1. delim_result' = NULL /\ delim_len' = 0 /\ buffer' = Moved(next, left)
      BY <1>4, <2>1, <2>6 DEF EndDelimit, Delimit
    <3>2. \A c \in 0 .. left - 1 : c \in Cells /\ next + c \in Cells
      BY <2>1, CellsType
    <3>3. buffer' \in [Cells -> Int]
      BY <2>1, <3>1, <3>2, CellsType DEF Moved
    <3>4. \A k \in 0 .. left - 1 : buffer'[k] = buffer[next + k]
      BY <2>1, <3>1, <3>2 DEF Moved
    <3>5. StreamTypeOK'
      BY <2>1, <2>2, <3>1, <3>3
    <3>6. \A k \in 0 .. used' - 1 : buffer'[Front' + k] = Base' + k
      <4>1. Front' = 0 /\ \A k \in 0 .. left - 1 : 0 + k = k
        BY <2>1, <3>1
      <4> QED
        BY <2>1, <2>3, <3>4, <4>1
    <3>7. /\ Front' + used' <= MsgSize + ReadSize - 1
          /\ delim_result' = NULL => used' < MsgSize /\ caller' # "reading"
          /\ delim_result' # NULL => delim_len' = MsgSize /\ MsgSize <= used'
          /\ caller' = "reading" => msg' = delim_result'
      BY <2>1, <2>6, <3>1
    <3> HIDE DEF Front, StreamTypeOK
    <3> QED
      BY <2>4, <3>5, <3>6, <3>7
  <2>7. left >= MsgSize \/ left < MsgSize
    BY <2>1
  <2> HIDE DEF Inv, left
  <2> QED
    BY <2>5, <2>6, <2>7
<1>5. CASE Done
  <2>1. Base' = Base /\ Written' = Written
    BY <1>5 DEF Done, Base, Written
  <2> QED
    BY <1>5, <2>1 DEF Done
<1>6. CASE UNCHANGED vars
  <2>1. Base' = Base /\ Written' = Written
    BY <1>6 DEF vars, Base, Written
  <2> QED
    BY <1>6, <2>1 DEF vars
<1> QED
  BY <1>1, <1>2, <1>3, <1>4, <1>5, <1>6 DEF Next, Reader

LEMMA InvInvariant == Spec => []Inv
BY InvInit, InvNext, PTL DEF Spec

(***************************************************************************)
(* conn_beg_delimit and conn_end_delimit stay within the buffer: what is   *)
(* read, moved or left over fits, whatever the sizes and the reads.        *)
(***************************************************************************)
THEOREM StreamTypeCorrect == Spec => []StreamTypeOK
BY InvInvariant, PTL DEF Inv

LEMMA InvHolds == Inv => WholeMessages
<1> SUFFICES ASSUME Inv, caller = "reading", NEW k \in 0 .. MsgSize - 1
             PROVE  msg + k \in Cells /\ buffer[msg + k] = Base + k
  BY DEF WholeMessages, Holds, Base
<1>1. /\ delim_result # NULL /\ delim_result \in Nat /\ msg = delim_result /\ k \in 0 .. used - 1
      /\ delim_result + used <= MsgSize + ReadSize - 1
  BY CellsType DEF Inv, StreamTypeOK, Front, NULL
<1>2. Front = delim_result /\ buffer[Front + k] = Base + k
  BY <1>1 DEF Inv, Front
<1>3. msg + k \in Nat /\ msg + k < MsgSize + ReadSize - 1
  BY <1>1 DEF Inv, StreamTypeOK
<1> QED
  BY <1>1, <1>2, <1>3, CellsType

(***************************************************************************)
(* Whatever the sizes and however the stream is split into reads, beg_read *)
(* hands out the bytes of the next message, and they stay until end_read.  *)
(***************************************************************************)
THEOREM MessagesAreWhole == Spec => []WholeMessages
BY InvInvariant, InvHolds, PTL

(* The case the author could not explain, line 201, is dead code. *)
THEOREM Case2IsDead == Spec => []NoCase2
<1>1. Inv => NoCase2
  BY DEF Inv, NoCase2
<1> QED
  BY <1>1, InvInvariant, PTL

-----------------------------------------------------------------------------
LEMMA Monotone == \A m, n \in Nat : m <= n => m * MsgSize <= n * MsgSize
<1> SUFFICES ASSUME NEW m \in Nat, NEW n \in Nat, m <= n
             PROVE  m * MsgSize <= n * MsgSize
  OBVIOUS
<1>1. PICK d \in Nat : n = m + d
  <2>1. n - m \in Nat /\ n = m + (n - m)
    OBVIOUS
  <2> QED
    BY <2>1
<1>2. n * MsgSize = m * MsgSize + d * MsgSize
  BY <1>1
<1>3. m * MsgSize \in Nat /\ d * MsgSize \in Nat
  BY <1>1, NextMultiple
<1> QED
  BY <1>2, <1>3

(* What the reader holds is message number taken and no other. *)
LEMMA HeldIsTaken ==
  ASSUME Inv, caller = "reading"
  PROVE  taken < sent /\ {m \in 0 .. sent : Holds(m)} = {taken}
<1>1. taken \in Nat /\ sent \in Nat /\ Base + MsgSize <= Written /\ Base \in Nat /\ Written \in Nat
  <2>1. StreamTypeOK /\ received = Base + used /\ MsgSize <= used
    BY DEF Inv
  <2>2. Base \in Nat /\ Written \in Nat
    BY <2>1, BaseType
  <2> QED
    BY <2>1, <2>2 DEF StreamTypeOK
<1>2. taken < sent
  <2>1. sent <= taken => Written <= Base
    BY <1>1, Monotone DEF Base, Written
  <2> QED
    BY <1>1, <2>1
<1>3. Holds(taken)
  BY InvHolds DEF WholeMessages
<1>4. ASSUME NEW m \in 0 .. sent, Holds(m)
      PROVE  m = taken
  <2>1. m * MsgSize = Base
    <3>1. 0 \in 0 .. MsgSize - 1
      OBVIOUS
    <3>2. buffer[msg + 0] = m * MsgSize + 0 /\ buffer[msg + 0] = taken * MsgSize + 0
      BY <1>3, <1>4, <3>1 DEF Holds
    <3>3. m * MsgSize \in Nat
      BY NextMultiple
    <3> QED
      BY <1>1, <3>2, <3>3 DEF Base
  <2>2. (m + 1) * MsgSize = m * MsgSize + MsgSize /\ (taken + 1) * MsgSize = Base + MsgSize
    BY <1>1, NextMultiple DEF Base
  <2>3. m + 1 <= taken => (m + 1) * MsgSize <= Base
    BY <1>1, Monotone DEF Base
  <2>4. taken + 1 <= m => (taken + 1) * MsgSize <= m * MsgSize
    BY <1>1, Monotone
  <2> QED
    BY <1>1, <2>1, <2>2, <2>3, <2>4
<1> QED
  BY <1>1, <1>2, <1>3, <1>4

(* The refinement mapping, and what it comes to. *)
Hand == IF caller = "reading" THEN {m \in 0 .. sent : Holds(m)} ELSE {}

HandIsTaken ==
  Inv => /\ Hand = IF caller = "reading" THEN {taken} ELSE {}
         /\ caller = "reading" => taken < sent

LEMMA HandType == HandIsTaken
BY HeldIsTaken DEF HandIsTaken, Hand

LEMMA QueueNext == Inv /\ Inv' /\ HandIsTaken' /\ [Next]_vars => [Queue!Next]_(Queue!vars)
<1> SUFFICES ASSUME Inv, Inv', HandIsTaken', [Next]_vars
             PROVE  [Queue!Next]_(Queue!vars)
  OBVIOUS
<1>1. /\ Hand = IF caller = "reading" THEN {taken} ELSE {}
      /\ Hand' = IF caller' = "reading" THEN {taken'} ELSE {}
      /\ caller = "reading" => taken < sent
      /\ caller' = "reading" => taken' < sent'
  BY HandType DEF HandIsTaken
<1>2. CASE PeerWrite
  <2>1. sent' = sent + 1 /\ taken' = taken /\ Hand' = Hand
    BY <1>1, <1>2 DEF PeerWrite
  <2> QED
    BY <2>1 DEF Hand, Queue!Next, Queue!Send
<1>3. CASE BegDelimitReady \/ BegDelimitRead
  <2>1. caller = "idle" /\ caller' \in {"idle", "reading"} /\ sent' = sent /\ taken' = taken
    BY <1>3 DEF BegDelimitReady, BegDelimitRead
  <2>2. CASE caller' = "idle"
    <3>1. Hand' = Hand
      BY <1>1, <2>1, <2>2
    <3> QED
      BY <2>1, <3>1 DEF Hand, Queue!vars
  <2>3. CASE caller' = "reading"
    <3>1. Hand = {} /\ Hand' = {taken} /\ taken < sent
      BY <1>1, <2>1, <2>3
    <3> QED
      BY <2>1, <3>1 DEF Hand, Queue!Next, Queue!Receive
  <2> QED
    BY <2>1, <2>2, <2>3
<1>4. CASE EndDelimit
  <2>1. Hand = {taken} /\ Hand' = {} /\ taken' = taken + 1 /\ sent' = sent
    BY <1>1, <1>4 DEF EndDelimit
  <2> QED
    BY <2>1 DEF Hand, Queue!Next, Queue!Release
<1>5. CASE Done
  <2>1. sent' = sent /\ taken' = taken /\ Hand' = Hand
    BY <1>1, <1>5 DEF Done
  <2> QED
    BY <2>1 DEF Hand, Queue!vars
<1>6. CASE UNCHANGED vars
  <2>1. sent' = sent /\ taken' = taken /\ Hand' = Hand
    BY <1>1, <1>6 DEF vars
  <2> QED
    BY <2>1 DEF Hand, Queue!vars
<1> QED
  BY <1>2, <1>3, <1>4, <1>5, <1>6 DEF Next, Reader

(***************************************************************************)
(* The byte stream, cut by the delimiter, is a queue of whole messages:    *)
(* what Transports takes a TCP connection to be.                           *)
(***************************************************************************)
THEOREM StreamIsQueue == Spec => ImplementsQueue
<1>1. Init => Queue!Init
  BY DEF Init, Queue!Init
<1>2. Inv /\ Inv' /\ HandIsTaken' /\ [Next]_vars => [Queue!Next]_(Queue!vars)
  BY QueueNext
<1> QED
  BY <1>1, <1>2, InvInvariant, HandType, PTL DEF Spec, ImplementsQueue, Queue!Spec

-----------------------------------------------------------------------------
(***************************************************************************)
(* A message nothing was read beyond outlives end_read: what the callers,  *)
(* which go on using it, count on.                                         *)
(***************************************************************************)
LEMMA LoneNext == Inv /\ Inv' /\ OutlivesRead /\ [Next]_vars => OutlivesRead'
<1> SUFFICES ASSUME Inv, Inv', OutlivesRead, [Next]_vars
             PROVE  OutlivesRead'
  OBVIOUS
<1>1. CASE PeerWrite
  BY <1>1 DEF PeerWrite, OutlivesRead, Holds
<1>2. CASE BegDelimitReady \/ BegDelimitRead
  <2>1. caller' # "using"
    BY <1>2 DEF BegDelimitReady, BegDelimitRead
  <2> QED
    BY <2>1 DEF OutlivesRead
<1>3. CASE EndDelimit
  <2> SUFFICES ASSUME received' = taken' * MsgSize
               PROVE  Holds(taken - 1)'
    BY DEF OutlivesRead
  <2>1. /\ taken' = taken + 1 /\ taken \in Nat /\ msg' = msg /\ used' = Left
        /\ caller = "reading"
    BY <1>3 DEF EndDelimit, Inv, StreamTypeOK
  <2>2. Left = 0
    BY <2>1 DEF Inv, StreamTypeOK, Base
  <2>3. buffer' = buffer
    <3>1. buffer' = Moved(delim_result + delim_len, 0)
      BY <1>3, <2>2 DEF EndDelimit, Delimit
    <3>2. buffer \in [Cells -> Int] /\ \A c \in Cells : ~(c < 0)
      BY CellsType DEF Inv, StreamTypeOK
    <3> QED
      BY <3>1, <3>2 DEF Moved
  <2>4. \A k \in 0 .. MsgSize - 1 : msg + k \in Cells /\ buffer[msg + k] = taken * MsgSize + k
    BY <2>1, InvHolds DEF WholeMessages, Holds
  <2>5. taken' - 1 = taken
    BY <2>1
  <2> QED
    BY <2>1, <2>3, <2>4, <2>5 DEF Holds
<1>4. CASE Done
  BY <1>4 DEF Done, OutlivesRead
<1>5. CASE UNCHANGED vars
  BY <1>5 DEF vars, OutlivesRead, Holds
<1> QED
  BY <1>1, <1>2, <1>3, <1>4, <1>5 DEF Next, Reader

THEOREM MessageOutlivesRead == Spec => []OutlivesRead
<1>1. Init => OutlivesRead
  BY DEF Init, OutlivesRead
<1>2. Inv /\ Inv' /\ OutlivesRead /\ [Next]_vars => OutlivesRead'
  BY LoneNext
<1> QED
  BY <1>1, <1>2, InvInvariant, PTL DEF Spec

(***************************************************************************)
(* Where the peer writes a message only once its last one was read, there  *)
(* is nothing to read beyond: every message outlives end_read.             *)
(***************************************************************************)
Paced == sent <= taken + 1 /\ (caller = "using" => received = taken * MsgSize)

LEMMA PacedNext == ASSUME Window = 1 PROVE Inv /\ Inv' /\ Paced /\ [Next]_vars => Paced'
<1> SUFFICES ASSUME Inv, Inv', Paced, [Next]_vars
             PROVE  Paced'
  OBVIOUS
<1>1. sent \in Nat /\ taken \in Nat /\ sent <= taken + 1
  BY DEF Paced, Inv, StreamTypeOK
<1>2. CASE PeerWrite
  BY <1>1, <1>2 DEF PeerWrite, Paced
<1>3. CASE BegDelimitReady \/ BegDelimitRead
  <2>1. caller' # "using" /\ UNCHANGED <<sent, taken>>
    BY <1>3 DEF BegDelimitReady, BegDelimitRead
  <2> QED
    BY <1>1, <2>1 DEF Paced
<1>4. CASE EndDelimit
  <2>1. /\ taken' = taken + 1 /\ sent' = sent /\ received' = received
        /\ caller = "reading" /\ MsgSize <= used
    BY <1>4 DEF EndDelimit, Inv, NULL, StreamTypeOK, Cells
  <2>2. received <= Written /\ Written <= Base + MsgSize
    BY <1>1, Monotone, NextMultiple DEF Inv, StreamTypeOK, Base, Written
  <2>3. received >= Base + MsgSize
    BY <2>1, BaseType DEF Inv, StreamTypeOK
  <2>4. Base + MsgSize = taken' * MsgSize
    BY <1>1, <2>1, NextMultiple DEF Base
  <2>5. received = Base + MsgSize
    BY <2>2, <2>3, BaseType DEF Inv, StreamTypeOK
  <2> QED
    BY <1>1, <2>1, <2>4, <2>5 DEF Paced
<1>5. CASE Done
  BY <1>1, <1>5 DEF Done, Paced
<1>6. CASE UNCHANGED vars
  BY <1>1, <1>6 DEF vars, Paced
<1> QED
  BY <1>2, <1>3, <1>4, <1>5, <1>6 DEF Next, Reader

THEOREM PacedMessagesOutliveRead ==
  Window = 1 => (Spec => [](caller = "using" => Holds(taken - 1)))
<1> SUFFICES ASSUME Window = 1 PROVE Spec => [](caller = "using" => Holds(taken - 1))
  OBVIOUS
<1>1. Init => Paced
  BY DEF Init, Paced
<1>2. Inv /\ Inv' /\ Paced /\ [Next]_vars => Paced'
  BY PacedNext
<1>3. Paced /\ OutlivesRead => (caller = "using" => Holds(taken - 1))
  BY DEF Paced, OutlivesRead
<1> QED
  BY <1>1, <1>2, <1>3, InvInvariant, MessageOutlivesRead, PTL DEF Spec
=============================================================================
