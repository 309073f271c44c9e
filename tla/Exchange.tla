------------------------------ MODULE Exchange ------------------------------
(***************************************************************************)
(* What a reliable connection promises the two programs at its ends, which *)
(* take turns: the server asks; the client is handed the message, just     *)
(* once and in order, and answers; the server is handed the answer to that *)
(* message, just once, and asks again.  Messages are numbered from 1.      *)
(***************************************************************************)
EXTENDS Naturals

VARIABLES
  asked,   \* how many messages the server has written
  told,    \* how many the client has been handed
  message, \* which one it was handed last
  heard,   \* how many answers the server has been handed
  answer   \* to which message the last one was

turns == <<asked, told, message, heard, answer>>

Init == asked = 0 /\ told = 0 /\ message = 0 /\ heard = 0 /\ answer = 0

Ask ==
  /\ heard = asked
  /\ asked' = asked + 1
  /\ UNCHANGED <<told, message, heard, answer>>

Tell ==
  /\ told < asked
  /\ told' = told + 1
  /\ message' = told + 1
  /\ UNCHANGED <<asked, heard, answer>>

Hear ==
  /\ heard < told
  /\ heard' = heard + 1
  /\ answer' = heard + 1
  /\ UNCHANGED <<asked, told, message>>

Next == Ask \/ Tell \/ Hear

Spec == Init /\ [][Next]_turns
=============================================================================
