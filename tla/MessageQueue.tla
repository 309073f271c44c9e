---------------------------- MODULE MessageQueue ----------------------------
(***************************************************************************)
(* What a TCP connection promises to the code above it: whole messages,    *)
(* each once and in the order sent, one at a time in the reader's hands    *)
(* from beg_read to end_read.  Messages are numbered in the order sent.    *)
(***************************************************************************)
EXTENDS Integers

VARIABLES
  sent,   \* how many messages were written
  taken,  \* how many messages the reader is done with
  held    \* the message in the reader's hands: a set of at most one

vars == <<sent, taken, held>>

Init == sent = 0 /\ taken = 0 /\ held = {}

Send ==
  /\ sent' = sent + 1
  /\ UNCHANGED <<taken, held>>

Receive ==
  /\ held = {} /\ taken < sent
  /\ held' = {taken}
  /\ UNCHANGED <<sent, taken>>

Release ==
  /\ held = {taken}
  /\ held' = {}
  /\ taken' = taken + 1
  /\ sent' = sent

Next == Send \/ Receive \/ Release

Spec == Init /\ [][Next]_vars
=============================================================================
