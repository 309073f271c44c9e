---------------------------- MODULE AtomicCommit ----------------------------
(***************************************************************************)
(* What q2pc promises, with no server, no network and no failures in it:   *)
(* rounds of atomic commitment.  In each round every participant casts a   *)
(* ballot at most once; the round's verdict is to commit only if all cast  *)
(* a yes and to cancel only if one cast a no; a participant that cast a    *)
(* ballot may learn the verdict; and a new round starts only when all      *)
(* have.  Nothing obliges a participant or the coordinator to go on.       *)
(***************************************************************************)
EXTENDS Integers

CONSTANT Participants

VARIABLES
  round,
  verdict,  \* of the current round: "none", "commit" or "cancel"
  cast,     \* per participant, how many ballots it has cast
  ballot,   \* per participant, its latest ballot
  outcome   \* per participant, the verdict it learnt on its latest ballot

vars == <<round, verdict, cast, ballot, outcome>>

Init ==
  /\ round = 0
  /\ verdict = "none"
  /\ cast = [p \in Participants |-> 0]
  /\ ballot = [p \in Participants |-> "none"]
  /\ outcome = [p \in Participants |-> "none"]

Voted(p) == cast[p] = round + 1

CastBallot(p) ==
  /\ cast[p] = round
  /\ cast' = [cast EXCEPT ![p] = @ + 1]
  /\ \E b \in {"yes", "no"} : ballot' = [ballot EXCEPT ![p] = b]
  /\ outcome' = [outcome EXCEPT ![p] = "none"]
  /\ UNCHANGED <<round, verdict>>

Commit ==
  /\ verdict = "none"
  /\ \A p \in Participants : Voted(p) /\ ballot[p] = "yes"
  /\ verdict' = "commit"
  /\ UNCHANGED <<round, cast, ballot, outcome>>

Cancel ==
  /\ verdict = "none"
  /\ \E p \in Participants : Voted(p) /\ ballot[p] = "no"
  /\ verdict' = "cancel"
  /\ UNCHANGED <<round, cast, ballot, outcome>>

Learn(p) ==
  /\ verdict # "none"
  /\ Voted(p) /\ outcome[p] = "none"
  /\ outcome' = [outcome EXCEPT ![p] = verdict]
  /\ UNCHANGED <<round, verdict, cast, ballot>>

NextRound ==
  /\ \A p \in Participants : Voted(p) /\ outcome[p] # "none"
  /\ round' = round + 1
  /\ verdict' = "none"
  /\ UNCHANGED <<cast, ballot, outcome>>

Next ==
  \/ \E p \in Participants : CastBallot(p) \/ Learn(p)
  \/ Commit
  \/ Cancel
  \/ NextRound

Spec == Init /\ [][Next]_vars
============================================================================
