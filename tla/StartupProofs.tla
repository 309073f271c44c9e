--------------------------- MODULE StartupProofs ---------------------------
(***************************************************************************)
(* Start-up, for any number of clients, connections and threads: what      *)
(* do_connectall hands to the rest of the server is what module Q2PC       *)
(* assumes, and the workers share the connections out among them.          *)
(***************************************************************************)
EXTENDS Startup, FiniteSetTheorems, TLAPS

USE StartupAssumption

(* The first connection of worker k, before clipping. *)
Start(k) == k * ConsPerThread

Clipped(n) == IF n < ClientCount THEN n ELSE ClientCount

Workers == 0 .. RealThreadCount - 1

-----------------------------------------------------------------------------
LEMMA Share ==
  /\ ConsPerThread \in Nat \ {0}
  /\ ConsPerThread <= ClientCount
  /\ RealThreadCount \in Nat \ {0}
  /\ Start(RealThreadCount) >= ClientCount
<1> DEFINE q == (ClientCount + ThreadCount - 1) \div ThreadCount
<1>1. q \in Int /\ ThreadCount * q <= ClientCount + ThreadCount - 1 /\ ClientCount <= ThreadCount * q
  OBVIOUS
<1>2. ConsPerThread = IF q < 1 THEN 1 ELSE q
  BY DEF ConsPerThread
<1> HIDE DEF q
<1>3. q >= 1
  <2>1. SUFFICES ASSUME q <= 0 PROVE FALSE
    BY <1>1
  <2>2. ThreadCount * q <= 0
    BY <1>1, <2>1
  <2> QED
    BY <1>1, <2>2
<1>4. q <= ClientCount
  <2>1. SUFFICES ASSUME q >= ClientCount + 1 PROVE FALSE
    BY <1>1
  <2>2. ThreadCount * q >= ThreadCount * (ClientCount + 1)
    BY <1>1, <2>1
  <2>3. ThreadCount * (ClientCount + 1) >= ThreadCount + ClientCount
    OBVIOUS
  <2> QED
    BY <1>1, <2>2, <2>3
<1>5. RealThreadCount \in Nat \ {0}
  BY DEF RealThreadCount
<1>6. Start(RealThreadCount) >= ClientCount
  <2>1. CASE ThreadCount < ClientCount
    BY <1>1, <1>2, <1>3, <2>1 DEF Start, RealThreadCount
  <2>2. CASE ~(ThreadCount < ClientCount)
    <3>1. ClientCount * q >= ClientCount
      BY <1>1, <1>3
    <3> QED
      BY <1>1, <1>2, <1>3, <2>2, <3>1 DEF Start, RealThreadCount
  <2> QED
    BY <2>1, <2>2
<1> QED
  BY <1>1, <1>2, <1>3, <1>4, <1>5, <1>6

LEMMA StartNext == \A k \in Nat : Start(k) \in Nat /\ Start(k + 1) = Start(k) + ConsPerThread
BY Share DEF Start
-----------------------------------------------------------------------------
(* The connections below lo are shared out, each to one worker; the others to none. *)
SharedOut ==
  /\ lo = Clipped(Start(ti)) /\ hi = Clipped(Start(ti + 1))
  /\ spc = "threads" => ti < RealThreadCount
  /\ spc = "running" => ti = RealThreadCount
  /\ spc \in {"main", "bind", "connect"} => ti = 0
  /\ \A t \in Workers : ti <= t => ranges[t] = {}
  /\ \A t \in Workers : \A i \in ranges[t] : i < lo
  /\ \A i \in Conns : i < lo => \E t \in Workers : \A u \in Workers : i \in ranges[u] <=> u = t

SharingInv == StartupTypeOK /\ si <= attached /\ SharedOut

LEMMA ClippedType == \A n \in Nat : Clipped(n) \in 0 .. ClientCount
BY DEF Clipped

LEMMA SharingInit == Init => SharingInv
<1> SUFFICES ASSUME Init PROVE SharingInv
  OBVIOUS
<1>1. Start(ti) = 0 /\ Start(ti + 1) = ConsPerThread
  BY Share DEF Start, Init
<1>2. StartupTypeOK
  <2>1. bound \in BOOLEAN
    BY Zenon DEF Init
  <2> QED
    BY <2>1, Share DEF Init, StartupTypeOK, Conns
<1>3. lo = Clipped(Start(ti)) /\ hi = Clipped(Start(ti + 1))
  BY <1>1, Share DEF Init, Clipped
<1>4. \A t \in Workers : ranges[t] = {}
  BY DEF Init, Workers
<1>5. spc = "main" /\ ti = 0 /\ lo = 0 /\ si = 0 /\ attached = 0
  BY Zenon DEF Init
<1>6. SharedOut
  BY <1>3, <1>4, <1>5 DEF SharedOut, Conns
<1> QED
  BY <1>2, <1>5, <1>6 DEF SharingInv

LEMMA TypeServer ==
  ASSUME StartupTypeOK, si <= attached,
         \/ ServerMain \/ ServerBindFails \/ ServerRebind \/ ServerBindFatal
         \/ ServerAttach \/ ServerCounts \/ ServerDrops \/ ServerPolls
  PROVE  StartupTypeOK' /\ (si <= attached)'
<1> USE DEF StartupTypeOK, bindVars, serverVars, threadVars, netVars
<1>1. CASE ServerMain
  BY <1>1 DEF ServerMain
<1>6. CASE ServerBindFails
  BY <1>6 DEF ServerBindFails
<1>7. CASE ServerRebind
  <2>1. bound' \in BOOLEAN
    BY <1>7, Zenon DEF ServerRebind, BindFailed, BindSucceeded
  <2>2. errno' \in {"none", "EADDRINUSE", "EINVAL"}
    BY <1>7, Zenon DEF ServerRebind, BindFailed, BindSucceeded
  <2>3. tries' \in 0 .. BindTries
    BY <1>7 DEF ServerRebind, Rebinds
  <2>4. UNCHANGED <<flags, id, faults, spc, si, attached, connected, counted, far, threadVars, cpc, netVars>>
    BY <1>7, Zenon DEF ServerRebind
  <2> QED
    BY <2>1, <2>2, <2>3, <2>4
<1>8. CASE ServerBindFatal
  BY <1>8 DEF ServerBindFatal
<1>2. CASE ServerAttach
  BY <1>2 DEF ServerAttach, Accept, Conns
<1>3. CASE ServerCounts
  BY <1>3 DEF ServerCounts, Advance, NextIndex, Remains, Waiting, Conns
<1>4. CASE ServerDrops
  BY <1>4 DEF ServerDrops, Advance, NextIndex, Remains, Waiting, Conns
<1>5. CASE ServerPolls
  BY <1>5 DEF ServerPolls, Advance, NextIndex, Conns
<1> QED
  BY <1>1, <1>2, <1>3, <1>4, <1>5, <1>6, <1>7, <1>8

LEMMA TypeClient ==
  ASSUME StartupTypeOK, NEW c \in Clients,
         \/ ClientStep(c) \/ ClientBindFails(c) \/ ClientSend(c) \/ ClientSendLost(c)
         \/ ClientSendRefused(c) \/ ClientKilled(c)
  PROVE  StartupTypeOK'
<1> USE DEF StartupTypeOK, bindVars, serverVars, threadVars, netVars, Missed
<1>1. CASE ClientMain(c)
  BY <1>1 DEF ClientMain
<1>2. CASE ClientConnect(c)
  BY <1>2 DEF ClientConnect
<1>3. CASE ClientWrite(c)
  BY <1>3 DEF ClientWrite
<1>4. CASE ClientSend(c)
  BY <1>4 DEF ClientSend
<1>5. CASE ClientSendLost(c)
  BY <1>5 DEF ClientSendLost
<1>6. CASE ClientSendRefused(c)
  BY <1>6 DEF ClientSendRefused
<1>7. CASE ClientKilled(c)
  BY <1>7 DEF ClientKilled
<1>8. CASE ClientBindFails(c)
  BY <1>8 DEF ClientBindFails
<1> QED
  BY <1>1, <1>2, <1>3, <1>4, <1>5, <1>6, <1>7, <1>8 DEF ClientStep

LEMMA ThreadStarts == SharingInv /\ ServerThread => SharingInv'
<1> SUFFICES ASSUME SharingInv, ServerThread PROVE SharingInv'
  OBVIOUS
<1> USE DEF SharingInv, StartupTypeOK
<1>1. ti \in Workers /\ ti \in Nat /\ spc = "threads" /\ ti' = ti + 1
  BY Share DEF ServerThread, SharedOut, Workers
<1>2. /\ Start(ti) \in Nat /\ Start(ti + 1) \in Nat /\ Start(ti') \in Nat /\ Start(ti' + 1) \in Nat
      /\ Start(ti + 1) = Start(ti) + ConsPerThread
      /\ Start(ti' + 1) = Start(ti') + ConsPerThread
      /\ Start(ti') = Start(ti + 1)
  BY <1>1, StartNext
<1>3. lo' = Clipped(Start(ti')) /\ hi' = Clipped(Start(ti' + 1))
  BY <1>1, <1>2, Share DEF ServerThread, SharedOut, Clipped
<1>4. lo' \in 0 .. ClientCount /\ hi' \in 0 .. ClientCount
  BY <1>2, <1>3, ClippedType
<1>5. lo <= hi
  BY <1>2, Share DEF SharedOut, Clipped
<1>6. ranges' = [ranges EXCEPT ![ti] = lo .. hi - 1] /\ lo' = hi
  BY DEF ServerThread
<1>7. ranges' \in [Workers -> SUBSET Conns]
  BY <1>1, <1>6 DEF Workers, Conns
<1>8. StartupTypeOK' /\ (si <= attached)'
  <2>1. ti' \in 0 .. RealThreadCount /\ spc' \in {"threads", "running"}
    BY <1>1, Share DEF ServerThread, Workers
  <2>2. UNCHANGED <<flags, id, faults, serverVars, cpc, netVars>>
    BY Zenon DEF ServerThread
  <2> QED
    BY <1>4, <1>7, <2>1, <2>2 DEF Workers, bindVars, serverVars, netVars
<1>9. \A t \in Workers : ranges'[t] = IF t = ti THEN lo .. hi - 1 ELSE ranges[t]
  BY <1>6 DEF Workers
<1>10. \A t \in Workers : ti' <= t => ranges'[t] = {}
  BY <1>1, <1>9 DEF SharedOut, Workers
<1>11. \A t \in Workers : \A i \in ranges'[t] : i < lo'
  <2> SUFFICES ASSUME NEW t \in Workers, NEW i \in ranges'[t] PROVE i < hi
    BY <1>6
  <2>1. CASE t = ti
    BY <1>9, <2>1
  <2>2. CASE t # ti
    <3>1. i \in ranges[t] /\ ranges[t] \subseteq Conns
      BY <1>9, <2>2 DEF Workers
    <3>2. i < lo /\ i \in Int
      BY <3>1 DEF SharedOut, Conns
    <3> QED
      BY <3>2, <1>5
  <2> QED
    BY <2>1, <2>2
<1>12. \A i \in Conns : i < lo' =>
          \E t \in Workers : \A u \in Workers : i \in ranges'[u] <=> u = t
  <2> SUFFICES ASSUME NEW i \in Conns, i < hi
               PROVE  \E t \in Workers : \A u \in Workers : i \in ranges'[u] <=> u = t
    BY <1>6
  <2>1. CASE i < lo
    <3>1. PICK t \in Workers : \A u \in Workers : i \in ranges[u] <=> u = t
      BY <2>1 DEF SharedOut
    <3>2. ranges[ti] = {}
      BY <1>1 DEF SharedOut
    <3>3. t # ti
      BY <3>1, <3>2
    <3>4. i \notin lo .. hi - 1
      BY <2>1 DEF Conns
    <3>5. \A u \in Workers : i \in ranges'[u] <=> u = t
      BY <1>9, <3>1, <3>3, <3>4
    <3> QED
      BY <3>5
  <2>2. CASE ~(i < lo)
    <3>1. i \in lo .. hi - 1
      BY <2>2 DEF Conns
    <3>2. \A u \in Workers : u # ti => i \notin ranges[u]
      BY <2>2 DEF SharedOut
    <3>3. \A u \in Workers : i \in ranges'[u] <=> u = ti
      BY <1>9, <3>1, <3>2
    <3> QED
      BY <1>1, <3>3
  <2> QED
    BY <2>1, <2>2
<1>13. /\ spc' = "threads" => ti' < RealThreadCount
       /\ spc' = "running" => ti' = RealThreadCount
       /\ spc' \in {"threads", "running"}
  BY <1>1, Share DEF ServerThread, Workers
<1> QED
  BY <1>3, <1>8, <1>10, <1>11, <1>12, <1>13 DEF SharedOut

LEMMA SharingNext == SharingInv /\ [Next]_vars => SharingInv'
<1> SUFFICES ASSUME SharingInv, [Next]_vars PROVE SharingInv'
  OBVIOUS
<1> USE DEF SharingInv
<1>1. CASE UNCHANGED vars
  BY <1>1 DEF vars, bindVars, serverVars, threadVars, netVars, StartupTypeOK, SharedOut, Workers
<1>2. CASE ServerThread
  BY <1>2, ThreadStarts
<1>3. CASE \/ ServerMain \/ ServerBindFails \/ ServerRebind \/ ServerBindFatal
            \/ ServerAttach \/ ServerCounts \/ ServerDrops \/ ServerPolls
  <2>1. /\ spc \in {"main", "bind", "connect"} /\ spc' \in {"bind", "connect", "fatal", "threads"}
        /\ UNCHANGED threadVars
    BY <1>3, Zenon DEF ServerMain, ServerBindFails, ServerRebind, ServerBindFatal, ServerAttach,
                       ServerCounts, ServerDrops, ServerPolls, Advance
  <2>2. ti = 0
    BY <2>1 DEF SharedOut
  <2>3. SharedOut'
    BY <2>1, <2>2, Share DEF SharedOut, threadVars
  <2> QED
    BY <1>3, <2>3, TypeServer
<1>4. CASE \E c \in Clients : \/ ClientStep(c) \/ ClientBindFails(c) \/ ClientSend(c) \/ ClientSendLost(c)
                              \/ ClientSendRefused(c) \/ ClientKilled(c)
  <2>1. PICK c \in Clients : \/ ClientStep(c) \/ ClientBindFails(c) \/ ClientSend(c) \/ ClientSendLost(c)
                             \/ ClientSendRefused(c) \/ ClientKilled(c)
    BY <1>4
  <2>2. UNCHANGED <<spc, serverVars, threadVars>>
    BY <2>1, Zenon DEF ClientStep, ClientMain, ClientConnect, ClientBindFails, ClientWrite, ClientSend, ClientSendLost,
                       ClientSendRefused, ClientKilled
  <2>3. SharedOut' /\ (si <= attached)'
    BY <2>2 DEF SharedOut, threadVars, serverVars
  <2> QED
    BY <2>1, <2>3, TypeClient
<1> QED
  BY <1>1, <1>2, <1>3, <1>4, Zenon DEF Next, ServerStep

LEMMA SharingInvariant == Spec => []SharingInv
BY SharingInit, SharingNext, PTL DEF Spec

(* Every variable of start-up has its type; the index of do_connectall never leaves the array. *)
THEOREM StartupTypeCorrect == Spec => []StartupTypeOK
BY SharingInvariant, PTL DEF SharingInv

(***************************************************************************)
(* However many connections and threads there are, the ranges server_init  *)
(* computes leave no connection without a worker and none with two.        *)
(***************************************************************************)
THEOREM EachIsServedOnce == Spec => []EachServedOnce
<1>1. SharingInv => EachServedOnce
  <2> SUFFICES ASSUME SharingInv, spc = "running"
               PROVE  \A i \in Conns : \E t \in Workers : \A u \in Workers : i \in ranges[u] <=> u = t
    BY DEF EachServedOnce, Workers
  <2>1. Start(ti) >= ClientCount /\ Start(ti) \in Nat
    BY Share, StartNext DEF SharingInv, SharedOut
  <2>2. lo = ClientCount
    BY <2>1 DEF SharingInv, SharedOut, Clipped
  <2> QED
    BY <2>2 DEF SharingInv, SharedOut, Conns
<1> QED
  BY <1>1, SharingInvariant, PTL
-----------------------------------------------------------------------------
Datagram == Transport # "tcp_ln"

(* The connection message of a client is sent, and none of its is on the way. *)
Consumed(c) == cpc[c] \in {"sent", "exited"} /\ c \notin net

(* TCP: a client is accepted once, and its only message read once. *)
SeatedTcp ==
  /\ "duplication" \notin faults
  /\ \A c \in backlog : cpc[c] \in {"write", "sent", "exited"} /\ \A i \in Conns : far[i] # c
  /\ \A i \in Conns : i < attached =>
       /\ far[i] \in Clients /\ cpc[far[i]] \in {"write", "sent", "exited"}
       /\ \A j \in Conns : far[j] = far[i] => j = i
       /\ counted[i] > 0 => Consumed(far[i])

(* The ports keep the clients apart; only RUDP counts one message where several may come. *)
SeatedDatagram ==
  /\ \A c \in Clients : cpc[c] # "write"
  /\ \A i \in Conns : far[i] # NOBODY => id[far[i]] = i + 1
  /\ ~Repeats /\ Transport # "rdp_ln" =>
       \A i \in Conns : counted[i] > 0 => \A c \in Clients : id[c] = i + 1 => Consumed(c)

Heard == {i \in Conns : counted[i] > 0}

SeatingInv ==
  /\ StartupTypeOK /\ si <= attached
  /\ \A c \in net : cpc[c] \in {"sent", "exited"}
  /\ \A i \in Conns : attached <= i => far[i] = NOBODY /\ counted[i] = 0
  /\ \A i \in Conns : counted[i] > 0 => far[i] \in Clients
  /\ IF Datagram THEN SeatedDatagram ELSE SeatedTcp
  /\ ~Repeats => (\A i \in Conns : counted[i] <= 1) /\ connected = Cardinality(Heard)
  /\ spc \in {"threads", "running"} => connected >= ClientCount

LEMMA ConnsFinite == IsFiniteSet(Conns) /\ Cardinality(Conns) = ClientCount
<1>1. Cardinality(0 .. ClientCount - 1) = ClientCount /\ IsFiniteSet(0 .. ClientCount - 1)
  BY FS_Interval
<1> QED
  BY <1>1 DEF Conns

(* The options are fixed. *)
LEMMA OptionsStay == [Next]_vars => UNCHANGED <<flags, id, faults, Transport, Datagram, Repeats>>
<1> SUFFICES ASSUME [Next]_vars PROVE UNCHANGED <<flags, id, faults, Transport, Datagram, Repeats>>
  OBVIOUS
<1>1. flags' = flags /\ id' = id /\ faults' = faults
  BY Zenon DEF Next, vars, ServerStep, ClientStep, ServerMain, ServerBindFails, ServerRebind, ServerBindFatal,
               ServerAttach, Accept, ServerCounts, ServerDrops, ServerPolls, ServerThread,
               ClientMain, ClientConnect, ClientBindFails, ClientWrite, ClientSend,
               ClientSendLost, ClientSendRefused, ClientKilled
<1>2. Transport' = Transport
  BY <1>1 DEF Transport
<1> QED
  BY <1>1, <1>2, Zenon DEF Datagram, Repeats

(* A step that counts nothing, accepts nobody and takes no client back to where it was. *)
LEMMA SeatsStay ==
  ASSUME SeatingInv, [Next]_vars, StartupTypeOK', (si <= attached)',
         attached <= attached', UNCHANGED <<counted, connected, far>>,
         Transport = "tcp_ln" => attached' = attached /\ backlog' = backlog,
         net' \subseteq net,
         \A c \in Clients : cpc[c] \in {"write", "sent", "exited"} => cpc'[c] \in {cpc[c], "exited"},
         \A c \in Clients : cpc'[c] = "write" => cpc[c] = "write",
         spc' \in {"threads", "running"} => connected' >= ClientCount
  PROVE  SeatingInv'
<1> USE DEF SeatingInv
<1>1. UNCHANGED <<flags, id, faults, Transport, Datagram, Repeats>>
  BY OptionsStay
<1>2. \A c \in Clients : cpc[c] \in {"sent", "exited"} => cpc'[c] \in {"sent", "exited"}
  OBVIOUS
<1>3. \A c \in net' : cpc'[c] \in {"sent", "exited"}
  BY <1>2 DEF StartupTypeOK
<1>4. \A c \in Clients : Consumed(c) => Consumed(c)'
  BY <1>2 DEF Consumed
<1>5. \A i \in Conns : attached' <= i => far'[i] = NOBODY /\ counted'[i] = 0
  BY DEF StartupTypeOK, Conns
<1>6. CASE Datagram
  <2>1. SeatedDatagram
    BY <1>6
  <2>2. \A c \in Clients : cpc'[c] # "write"
    BY <2>1 DEF SeatedDatagram
  <2>3. \A i \in Conns : far'[i] # NOBODY => id'[far'[i]] = i + 1
    BY <1>1, <2>1 DEF SeatedDatagram
  <2>4. ~Repeats' /\ Transport' # "rdp_ln" =>
          \A i \in Conns : counted'[i] > 0 => \A c \in Clients : id'[c] = i + 1 => Consumed(c)'
    BY <1>1, <1>4, <2>1 DEF SeatedDatagram
  <2>5. SeatedDatagram'
    BY <2>2, <2>3, <2>4 DEF SeatedDatagram
  <2> QED
    BY <1>1, <1>3, <1>5, <1>6, <2>5 DEF Heard
<1>7. CASE ~Datagram
  <2>1. SeatedTcp /\ attached' = attached /\ backlog' = backlog
    BY <1>7 DEF Datagram
  <2>2. \A c \in backlog' : cpc'[c] \in {"write", "sent", "exited"} /\ \A i \in Conns : far'[i] # c
    BY <2>1 DEF SeatedTcp, StartupTypeOK
  <2>3. ASSUME NEW i \in Conns, i < attached'
        PROVE  /\ far'[i] \in Clients /\ cpc'[far'[i]] \in {"write", "sent", "exited"}
               /\ \A j \in Conns : far'[j] = far'[i] => j = i
               /\ counted'[i] > 0 => Consumed(far[i])'
    <3>1. /\ far[i] \in Clients /\ cpc[far[i]] \in {"write", "sent", "exited"}
          /\ \A j \in Conns : far[j] = far[i] => j = i
          /\ counted[i] > 0 => Consumed(far[i])
      BY <2>1, <2>3 DEF SeatedTcp
    <3>2. cpc'[far[i]] \in {"write", "sent", "exited"}
      BY <3>1
    <3>3. counted[i] > 0 => cpc'[far[i]] \in {"sent", "exited"} /\ far[i] \notin net'
      BY <1>2, <3>1 DEF Consumed
    <3> QED
      BY <3>1, <3>2, <3>3 DEF Consumed
  <2>4. SeatedTcp'
    BY <1>1, <2>1, <2>2, <2>3 DEF SeatedTcp
  <2> QED
    BY <1>1, <1>3, <1>5, <1>7, <2>4 DEF Heard
<1> QED
  BY <1>6, <1>7

(* accept: the client was never accepted before. *)
LEMMA AcceptSeats ==
  ASSUME SeatingInv, ServerAttach, Transport = "tcp_ln", SharingInv'
  PROVE  SeatingInv'
<1> USE DEF SeatingInv
<1>1. UNCHANGED <<flags, id, faults, Transport, Datagram, Repeats>>
  BY OptionsStay DEF Next, ServerStep
<1>2. PICK c \in backlog : backlog' = backlog \ {c} /\ far' = [far EXCEPT ![si] = c]
  BY DEF ServerAttach, Accept
<1>3. spc = "connect" /\ si = attached /\ attached' = attached + 1 /\ si \in Conns /\ attached \in Nat
  BY DEF ServerAttach, StartupTypeOK
<1>4. UNCHANGED <<spc, si, connected, counted, cpc, net>>
  BY DEF ServerAttach
<1>5. SeatedTcp /\ c \in Clients
  BY DEF Datagram, StartupTypeOK
<1>6. \A i \in Conns : far'[i] = IF i = si THEN c ELSE far[i]
  BY <1>2 DEF StartupTypeOK
<1>7. cpc[c] \in {"write", "sent", "exited"} /\ \A i \in Conns : far[i] # c
  BY <1>2, <1>5 DEF SeatedTcp
<1>8. counted[si] = 0
  BY <1>3
<1>9. \A i \in Conns : attached' <= i => far'[i] = NOBODY /\ counted'[i] = 0
  BY <1>3, <1>4, <1>6 DEF Conns
<1>10. \A i \in Conns : counted'[i] > 0 => far'[i] \in Clients
  BY <1>4, <1>5, <1>6
<1>11. \A b \in backlog' : cpc'[b] \in {"write", "sent", "exited"} /\ \A i \in Conns : far'[i] # b
  BY <1>2, <1>4, <1>5, <1>6 DEF SeatedTcp
<1>12. ASSUME NEW i \in Conns, i < attached'
       PROVE  /\ far'[i] \in Clients /\ cpc'[far'[i]] \in {"write", "sent", "exited"}
              /\ \A j \in Conns : far'[j] = far'[i] => j = i
              /\ counted'[i] > 0 => Consumed(far[i])'
  <2>1. CASE i = si
    BY <1>4, <1>5, <1>6, <1>7, <1>8, <2>1
  <2>2. CASE i # si
    <3>1. i < attached
      BY <1>3, <1>12, <2>2 DEF Conns
    <3>2. far[i] \in Clients /\ cpc[far[i]] \in {"write", "sent", "exited"}
          /\ (\A j \in Conns : far[j] = far[i] => j = i) /\ (counted[i] > 0 => Consumed(far[i]))
      BY <1>5, <3>1 DEF SeatedTcp
    <3>3. far'[i] = far[i]
      BY <1>6, <2>2
    <3> QED
      BY <1>4, <1>6, <1>7, <3>2, <3>3 DEF Consumed
  <2> QED
    BY <2>1, <2>2
<1>13. SeatedTcp'
  BY <1>1, <1>5, <1>11, <1>12 DEF SeatedTcp
<1> QED
  BY <1>1, <1>3, <1>4, <1>9, <1>10, <1>13 DEF SharingInv, Heard, Datagram

(* A connection message is counted: but for Repeats, the first on its connection. *)
LEMMA CountSeats ==
  ASSUME SeatingInv, ServerCounts, SharingInv'
  PROVE  SeatingInv'
<1> USE DEF SeatingInv
<1>1. UNCHANGED <<flags, id, faults, Transport, Datagram, Repeats>>
  BY OptionsStay DEF Next, ServerStep
<1>2. PICK c \in Waiting(si) : net' \in Remains(c) /\ far' = [far EXCEPT ![si] = IF @ = NOBODY THEN c ELSE @]
  BY DEF ServerCounts
<1>3. /\ spc = "connect" /\ si < attached /\ Fresh(si) /\ attached' = attached
      /\ counted' = [counted EXCEPT ![si] = @ + 1] /\ connected' = connected + 1
      /\ UNCHANGED <<cpc, backlog>>
      /\ spc' \in {"threads", "running"} => connected' >= ClientCount
  BY DEF ServerCounts, Advance
<1>4. si \in Conns /\ attached \in Nat /\ connected \in Nat /\ counted \in [Conns -> Nat]
      /\ far \in [Conns -> Clients \cup {NOBODY}] /\ net \subseteq Clients
  BY DEF StartupTypeOK
<1>5. c \in net /\ c \in Clients /\ cpc[c] \in {"sent", "exited"} /\ net' \subseteq net
  BY <1>2, <1>4 DEF Waiting, Remains
<1>6. \A i \in Conns : /\ counted'[i] = (IF i = si THEN counted[i] + 1 ELSE counted[i])
                        /\ far'[i] = (IF i = si /\ far[i] = NOBODY THEN c ELSE far[i])
  BY <1>2, <1>3, <1>4
<1>7. \A i \in Conns : attached' <= i => far'[i] = NOBODY /\ counted'[i] = 0
  BY <1>3, <1>4, <1>6 DEF Conns
<1>8. \A i \in Conns : counted'[i] > 0 => far'[i] \in Clients
  BY <1>4, <1>5, <1>6
<1>9. \A b \in net' : cpc'[b] \in {"sent", "exited"}
  BY <1>3, <1>5
<1>10. ~Repeats => counted[si] = 0
  <2> SUFFICES ASSUME ~Repeats, counted[si] > 0 PROVE FALSE
    BY <1>4
  <2>1. CASE Transport = "tcp_ln"
    <3>1. Consumed(far[si]) /\ c = far[si]
      BY <1>2, <1>3, <1>4, <2>1 DEF Datagram, SeatedTcp, Waiting
    <3> QED
      BY <1>5, <3>1 DEF Consumed
  <2>2. CASE Transport = "rdp_ln"
    BY <1>3, <1>4, <2>2 DEF Fresh
  <2>3. CASE Transport \notin {"tcp_ln", "rdp_ln"}
    <3>1. id[c] = si + 1
      BY <1>2, <2>3 DEF Waiting, Port
    <3>2. Consumed(c)
      BY <1>4, <1>5, <2>3, <3>1 DEF Datagram, SeatedDatagram
    <3> QED
      BY <1>5, <3>2 DEF Consumed
  <2> QED
    BY <2>1, <2>2, <2>3
<1>11. ~Repeats' => (\A i \in Conns : counted'[i] <= 1) /\ connected' = Cardinality(Heard')
  <2> SUFFICES ASSUME ~Repeats
               PROVE  (\A i \in Conns : counted'[i] <= 1) /\ connected' = Cardinality(Heard')
    BY <1>1
  <2>1. Heard' = Heard \cup {si} /\ si \notin Heard
    BY <1>4, <1>6, <1>10 DEF Heard
  <2>2. IsFiniteSet(Heard)
    BY ConnsFinite, FS_Subset DEF Heard
  <2>3. Cardinality(Heard \cup {si}) = Cardinality(Heard) + 1
    BY <2>1, <2>2, FS_AddElement
  <2> QED
    BY <1>3, <1>4, <1>6, <1>10, <2>1, <2>3
<1>12. CASE Datagram
  <2>1. SeatedDatagram /\ id[c] = si + 1
    BY <1>2, <1>12 DEF Waiting, Port, Datagram
  <2>2. \A i \in Conns : far'[i] # NOBODY => id'[far'[i]] = i + 1
    BY <1>1, <1>6, <2>1 DEF SeatedDatagram
  <2>3. ASSUME ~Repeats, Transport # "rdp_ln", NEW i \in Conns, counted'[i] > 0,
               NEW b \in Clients, id[b] = i + 1
        PROVE  Consumed(b)'
    <3>1. CASE i = si
      <4>1. Transport \in {"udp_ln", "udp_qj"}
        BY <1>12, <2>3 DEF Datagram, Transport, StartupTypeOK, TransportTypes
      <4>2. "duplication" \notin faults /\ b = c
        BY <1>5, <2>1, <2>3, <3>1, <4>1 DEF Repeats
      <4>3. net' = net \ {c}
        BY <1>2, <4>2 DEF Remains
      <4> QED
        BY <1>3, <1>5, <4>2, <4>3 DEF Consumed
    <3>2. CASE i # si
      <4>1. Consumed(b)
        BY <1>6, <2>1, <2>3, <3>2 DEF SeatedDatagram
      <4> QED
        BY <1>3, <1>5, <4>1 DEF Consumed
    <3> QED
      BY <3>1, <3>2
  <2>4. SeatedDatagram'
    BY <1>1, <1>3, <2>1, <2>2, <2>3 DEF SeatedDatagram
  <2> QED
    BY <1>1, <1>3, <1>7, <1>8, <1>9, <1>11, <1>12, <2>4 DEF SharingInv
<1>13. CASE ~Datagram
  <2>1. SeatedTcp /\ c = far[si]
    BY <1>2, <1>13 DEF Waiting, Datagram
  <2>2. far' = far
    BY <1>2, <1>4, <1>5, <2>1
  <2>3. net' = net \ {c}
    BY <1>2, <2>1 DEF SeatedTcp, Remains
  <2>4. ASSUME NEW i \in Conns, i < attached'
        PROVE  /\ far'[i] \in Clients /\ cpc'[far'[i]] \in {"write", "sent", "exited"}
               /\ \A j \in Conns : far'[j] = far'[i] => j = i
               /\ counted'[i] > 0 => Consumed(far[i])'
    <3>1. far[i] \in Clients /\ cpc[far[i]] \in {"write", "sent", "exited"}
          /\ (\A j \in Conns : far[j] = far[i] => j = i) /\ (counted[i] > 0 => Consumed(far[i]))
      BY <1>3, <2>1, <2>4 DEF SeatedTcp
    <3>2. counted'[i] > 0 => Consumed(far[i])'
      BY <1>3, <1>5, <1>6, <2>1, <2>2, <2>3, <3>1 DEF Consumed
    <3> QED
      BY <1>3, <2>2, <3>1, <3>2
  <2>5. SeatedTcp'
    BY <1>1, <1>3, <2>1, <2>2, <2>4 DEF SeatedTcp
  <2> QED
    BY <1>1, <1>3, <1>7, <1>8, <1>9, <1>11, <1>13, <2>5 DEF SharingInv
<1> QED
  BY <1>12, <1>13

(* TCP: a client that connects is in the backlog for the first time. *)
LEMMA ConnectSeats ==
  ASSUME SeatingInv, NEW c \in Clients, ClientConnect(c), SharingInv'
  PROVE  SeatingInv'
<1> USE DEF SeatingInv
<1>1. UNCHANGED <<flags, id, faults, Transport, Datagram, Repeats>>
  BY OptionsStay DEF Next, ClientStep
<1>2. cpc[c] = "connect" /\ Transport = "tcp_ln" /\ UNCHANGED <<spc, serverVars, threadVars, net>>
  BY DEF ClientConnect
<1>3. cpc \in [Clients -> {"main", "connect", "write", "sent", "fatal", "exited"}] /\ net \subseteq Clients
  BY DEF StartupTypeOK
<1>4. /\ \A b \in Clients : b # c => cpc'[b] = cpc[b]
      /\ backlog' \subseteq backlog \cup {c}
      /\ c \in backlog' => c \in backlog \/ cpc'[c] = "write"
  BY <1>3 DEF ClientConnect
<1>5. SeatedTcp /\ c \notin net /\ c \notin backlog
  BY <1>2 DEF Datagram, SeatedTcp
<1>6. \A i \in Conns : far[i] # c
  <2> SUFFICES ASSUME NEW i \in Conns, far[i] = c PROVE FALSE
    OBVIOUS
  <2>1. i < attached
    BY DEF StartupTypeOK, Conns
  <2> QED
    BY <1>2, <1>5, <2>1 DEF SeatedTcp
<1>7. \A b \in net' : cpc'[b] \in {"sent", "exited"}
  BY <1>2, <1>3, <1>4, <1>5
<1>8. \A b \in backlog' : cpc'[b] \in {"write", "sent", "exited"} /\ \A i \in Conns : far'[i] # b
  <2> SUFFICES ASSUME NEW b \in backlog'
               PROVE  cpc'[b] \in {"write", "sent", "exited"} /\ \A i \in Conns : far[i] # b
    BY <1>2 DEF serverVars
  <2>1. CASE b = c
    BY <1>4, <1>5, <1>6, <2>1
  <2>2. CASE b # c
    BY <1>4, <1>5, <2>2 DEF SeatedTcp, StartupTypeOK
  <2> QED
    BY <2>1, <2>2
<1>9. ASSUME NEW i \in Conns, i < attached
      PROVE  /\ far[i] \in Clients /\ cpc'[far[i]] \in {"write", "sent", "exited"}
             /\ \A j \in Conns : far[j] = far[i] => j = i
             /\ counted[i] > 0 => Consumed(far[i])'
  <2>1. /\ far[i] \in Clients /\ cpc[far[i]] \in {"write", "sent", "exited"}
        /\ \A j \in Conns : far[j] = far[i] => j = i
        /\ counted[i] > 0 => Consumed(far[i])
    BY <1>5, <1>9 DEF SeatedTcp
  <2>2. cpc'[far[i]] = cpc[far[i]]
    BY <1>4, <1>6, <2>1
  <2> QED
    BY <1>2, <2>1, <2>2 DEF Consumed, serverVars
<1>10. SeatedTcp'
  BY <1>1, <1>2, <1>5, <1>8, <1>9 DEF SeatedTcp, serverVars
<1> QED
  BY <1>1, <1>2, <1>7, <1>10 DEF SharingInv, Heard, Datagram, serverVars

(* A message is put on the way by a client none of whose was, but for RUDP's retransmissions. *)
LEMMA SendSeats ==
  ASSUME SeatingInv, NEW c \in Clients, ClientWrite(c) \/ ClientSend(c), SharingInv'
  PROVE  SeatingInv'
<1> USE DEF SeatingInv
<1>1. UNCHANGED <<flags, id, faults, Transport, Datagram, Repeats>>
  BY OptionsStay DEF Next, ClientStep
<1>2. /\ cpc' = [cpc EXCEPT ![c] = "sent"] /\ net' = net \cup {c}
      /\ UNCHANGED <<spc, serverVars, threadVars, backlog>>
  BY DEF ClientWrite, ClientSend
<1>3. \/ cpc[c] \in {"connect", "write"}
      \/ Transport = "rdp_ln"
  BY DEF ClientWrite, ClientSend, Sends
<1>4. cpc[c] = "write" \/ Transport # "tcp_ln"
  BY DEF ClientWrite, ClientSend, Sends
<1>5. cpc \in [Clients -> {"main", "connect", "write", "sent", "fatal", "exited"}] /\ net \subseteq Clients
  BY DEF StartupTypeOK
<1>6. \A b \in Clients : cpc'[b] = IF b = c THEN "sent" ELSE cpc[b]
  BY <1>2, <1>5
<1>7. \A b \in net' : cpc'[b] \in {"sent", "exited"}
  BY <1>2, <1>5, <1>6
<1>8. \A b \in Clients : b # c /\ Consumed(b) => Consumed(b)'
  BY <1>2, <1>6 DEF Consumed
<1>9. CASE Datagram
  <2>1. SeatedDatagram
    BY <1>9
  <2>2. \A b \in Clients : cpc'[b] # "write"
    BY <1>6, <2>1 DEF SeatedDatagram
  <2>3. ASSUME ~Repeats, Transport # "rdp_ln", NEW i \in Conns, counted[i] > 0,
               NEW b \in Clients, id[b] = i + 1
        PROVE  Consumed(b)'
    <3>1. Consumed(b)
      BY <2>1, <2>3 DEF SeatedDatagram
    <3>2. b # c
      BY <1>3, <2>3, <3>1 DEF Consumed
    <3> QED
      BY <1>8, <3>1, <3>2
  <2>4. SeatedDatagram'
    BY <1>1, <1>2, <2>1, <2>2, <2>3 DEF SeatedDatagram, serverVars
  <2> QED
    BY <1>1, <1>2, <1>7, <1>9, <2>4 DEF SharingInv, Heard, serverVars
<1>10. CASE ~Datagram
  <2>1. SeatedTcp /\ cpc[c] = "write"
    BY <1>4, <1>10 DEF Datagram
  <2>2. \A b \in backlog : cpc'[b] \in {"write", "sent", "exited"} /\ \A i \in Conns : far[i] # b
    BY <1>6, <2>1 DEF SeatedTcp, StartupTypeOK
  <2>3. ASSUME NEW i \in Conns, i < attached
        PROVE  /\ far[i] \in Clients /\ cpc'[far[i]] \in {"write", "sent", "exited"}
               /\ \A j \in Conns : far[j] = far[i] => j = i
               /\ counted[i] > 0 => Consumed(far[i])'
    <3>1. /\ far[i] \in Clients /\ cpc[far[i]] \in {"write", "sent", "exited"}
          /\ \A j \in Conns : far[j] = far[i] => j = i
          /\ counted[i] > 0 => Consumed(far[i])
      BY <2>1, <2>3 DEF SeatedTcp
    <3>2. cpc'[far[i]] \in {"write", "sent", "exited"}
      BY <1>6, <3>1
    <3>3. counted[i] > 0 => far[i] # c
      BY <2>1, <3>1 DEF Consumed
    <3>4. counted[i] > 0 => Consumed(far[i])'
      BY <1>2, <1>6, <3>1, <3>3 DEF Consumed, serverVars
    <3> QED
      BY <3>1, <3>2, <3>4
  <2>4. SeatedTcp'
    BY <1>1, <1>2, <2>1, <2>2, <2>3 DEF SeatedTcp, serverVars
  <2> QED
    BY <1>1, <1>2, <1>7, <1>10, <2>4 DEF SharingInv, Heard, serverVars
<1> QED
  BY <1>9, <1>10

LEMMA SeatingInit == Init => SeatingInv
<1> SUFFICES ASSUME Init PROVE SeatingInv
  OBVIOUS
<1>1. StartupTypeOK
  BY SharingInit DEF SharingInv
<1>2. /\ \A i \in Conns : far[i] = NOBODY /\ counted[i] = 0
      /\ \A c \in Clients : cpc[c] = "main"
      /\ attached = 0 /\ si = 0 /\ connected = 0 /\ spc = "main" /\ net = {} /\ backlog = {}
  BY DEF Init
<1>3. Transport = "tcp_ln" => "duplication" \notin faults
  BY DEF Init
<1>4. Heard = {}
  BY <1>2 DEF Heard
<1>5. Cardinality(Heard) = 0
  BY <1>4, FS_EmptySet
<1>6. ~Datagram => SeatedTcp
  BY <1>2, <1>3 DEF SeatedTcp, Datagram, Conns
<1>7. SeatedDatagram
  BY <1>2 DEF SeatedDatagram
<1> QED
  BY <1>1, <1>2, <1>5, <1>6, <1>7 DEF SeatingInv

LEMMA SeatingNext == SeatingInv /\ SharingInv' /\ [Next]_vars => SeatingInv'
<1> SUFFICES ASSUME SeatingInv, SharingInv', [Next]_vars PROVE SeatingInv'
  OBVIOUS
<1> USE DEF serverVars, threadVars, netVars
<1>0. StartupTypeOK' /\ (si <= attached)' /\ StartupTypeOK
      /\ (spc \in {"threads", "running"} => connected >= ClientCount)
  BY DEF SharingInv, SeatingInv
<1>1. CASE UNCHANGED vars
  BY <1>0, <1>1, SeatsStay DEF vars, StartupTypeOK
<1>2. CASE ServerMain \/ ServerBindFails \/ ServerRebind \/ ServerBindFatal \/ ServerPolls \/ ServerThread
  <2>1. UNCHANGED <<attached, connected, counted, far, cpc, backlog, net>>
    BY <1>2, Zenon DEF ServerMain, ServerBindFails, ServerRebind, ServerBindFatal, ServerPolls, ServerThread
  <2>2. spc' \in {"threads", "running"} => connected' >= ClientCount
    BY <1>0, <1>2 DEF ServerMain, ServerBindFails, ServerRebind, ServerBindFatal, ServerPolls, ServerThread, Advance
  <2> QED
    BY <1>0, <2>1, <2>2, SeatsStay DEF StartupTypeOK
<1>3. CASE ServerDrops
  <2>1. UNCHANGED <<attached, connected, counted, far, cpc, backlog>>
    BY <1>3, Zenon DEF ServerDrops
  <2>2. net' \subseteq net
    BY <1>3 DEF ServerDrops, Remains
  <2>3. spc' \in {"threads", "running"} => connected' >= ClientCount
    BY <1>0, <1>3 DEF ServerDrops, Advance
  <2> QED
    BY <1>0, <2>1, <2>2, <2>3, SeatsStay DEF StartupTypeOK
<1>4. CASE ServerAttach
  <2>1. CASE Transport = "tcp_ln"
    BY <1>4, <2>1, AcceptSeats
  <2>2. CASE Transport # "tcp_ln"
    <3>1. attached' = attached + 1 /\ UNCHANGED <<spc, connected, counted, far, cpc, backlog, net>>
      BY <1>4, <2>2, Zenon DEF ServerAttach
    <3> QED
      BY <1>0, <2>2, <3>1, SeatsStay DEF StartupTypeOK
  <2> QED
    BY <2>1, <2>2
<1>5. CASE ServerCounts
  BY <1>5, CountSeats
<1>6. CASE \E c \in Clients : \/ ClientStep(c) \/ ClientBindFails(c) \/ ClientSend(c) \/ ClientSendLost(c)
                              \/ ClientSendRefused(c) \/ ClientKilled(c)
  <2>1. PICK c \in Clients : \/ ClientStep(c) \/ ClientBindFails(c) \/ ClientSend(c) \/ ClientSendLost(c)
                             \/ ClientSendRefused(c) \/ ClientKilled(c)
    BY <1>6
  <2>2. CASE ClientConnect(c)
    BY <2>2, ConnectSeats
  <2>3. CASE ClientWrite(c) \/ ClientSend(c)
    BY <2>3, SendSeats
  <2>4. CASE ClientMain(c) \/ ClientBindFails(c) \/ ClientSendLost(c) \/ ClientSendRefused(c) \/ ClientKilled(c)
    <3>1. UNCHANGED <<spc, attached, connected, counted, far, backlog, net>>
      BY <2>4, Zenon DEF ClientMain, ClientBindFails, ClientSendLost, ClientSendRefused, ClientKilled
    <3>2. /\ \A b \in Clients : cpc[b] \in {"write", "sent", "exited"} => cpc'[b] \in {cpc[b], "exited"}
          /\ \A b \in Clients : cpc'[b] = "write" => cpc[b] = "write"
      BY <1>0, <2>4 DEF ClientMain, ClientBindFails, ClientSendLost, ClientSendRefused, ClientKilled, Sends, StartupTypeOK
    <3>3. attached <= attached' /\ net' \subseteq net
      BY <1>0, <3>1 DEF StartupTypeOK
    <3>4. spc' \in {"threads", "running"} => connected' >= ClientCount
      BY <1>0, <3>1
    <3>5. attached' = attached /\ backlog' = backlog /\ UNCHANGED <<counted, connected, far>>
      BY <3>1
    <3> QED
      BY <1>0, <3>2, <3>3, <3>4, <3>5, SeatsStay
  <2> QED
    BY <2>1, <2>2, <2>3, <2>4 DEF ClientStep
<1> QED
  BY <1>1, <1>2, <1>3, <1>4, <1>5, <1>6, Zenon DEF Next, ServerStep

(***************************************************************************)
(* However many clients come, in whatever order, killed or refused: when   *)
(* do_connectall is done, each connection leads to a client of its own.    *)
(***************************************************************************)
THEOREM EveryConnectionIsSeated == Spec => []Seated
<1>1. SeatingInv => Seated
  <2> SUFFICES ASSUME SeatingInv, spc \in {"threads", "running"}, ~Repeats
               PROVE  /\ \A i \in Conns : counted[i] = 1 /\ far[i] \in Clients
                      /\ \A i, j \in Conns : far[i] = far[j] => i = j
                      /\ Transport # "tcp_ln" => \A i \in Conns : id[far[i]] = i + 1
    BY DEF Seated
  <2> USE DEF SeatingInv
  <2>1. Cardinality(Heard) >= Cardinality(Conns) /\ Heard \subseteq Conns
    BY ConnsFinite DEF Heard
  <2>2. Heard = Conns
    <3>1. IsFiniteSet(Heard) /\ Cardinality(Heard) <= Cardinality(Conns)
          /\ (Cardinality(Conns) = Cardinality(Heard) => Conns = Heard)
      BY <2>1, ConnsFinite, FS_Subset, Zenon
    <3>2. Cardinality(Heard) \in Nat
      BY <3>1, FS_CardinalityType
    <3> QED
      BY <2>1, <3>1, <3>2, ConnsFinite
  <2>3. \A i \in Conns : counted[i] = 1 /\ far[i] \in Clients
    BY <2>2 DEF Heard, StartupTypeOK
  <2>4. \A i \in Conns : far[i] # NOBODY /\ i < attached
    BY <2>3 DEF StartupTypeOK, Conns
  <2>5. CASE Datagram
    <3>1. \A i \in Conns : id[far[i]] = i + 1
      BY <2>4, <2>5 DEF SeatedDatagram
    <3>2. \A i, j \in Conns : far[i] = far[j] => i = j
      BY <3>1 DEF Conns
    <3> QED
      BY <2>3, <3>1, <3>2
  <2>6. CASE ~Datagram
    BY <2>3, <2>4, <2>6 DEF SeatedTcp, Datagram
  <2> QED
    BY <2>5, <2>6
<1> QED
  BY <1>1, SeatingInit, SeatingNext, SharingInvariant, PTL DEF Spec
=============================================================================
