----------------------------- MODULE BallotBox -----------------------------
(***************************************************************************)
(* What an election promises, without keys, proofs, nullifiers or          *)
(* versions: a roll that is fixed when voting opens, and one ballot per    *)
(* voter on the roll, which the voter may replace until voting closes.     *)
(***************************************************************************)
CONSTANTS Voters, Ballots, None

VARIABLES
  phase,      \* "signup", "voting" or "closed"
  roll,       \* the registered voters
  ballot,     \* the ballot of each voter that would be counted now
  published   \* a result has been published

vars == <<phase, roll, ballot, published>>

Init ==
  /\ phase = "signup"
  /\ roll = {}
  /\ ballot = [v \in Voters |-> None]
  /\ published = FALSE

Register(batch) ==
  /\ phase = "signup"
  /\ roll' = roll \cup batch
  /\ UNCHANGED <<phase, ballot, published>>

Open ==
  /\ phase = "signup"
  /\ phase' = "voting"
  /\ UNCHANGED <<roll, ballot, published>>

Vote(v, b) ==
  /\ phase = "voting"
  /\ v \in roll
  /\ ballot' = [ballot EXCEPT ![v] = b]
  /\ UNCHANGED <<phase, roll, published>>

Close ==
  /\ phase = "voting"
  /\ phase' = "closed"
  /\ UNCHANGED <<roll, ballot, published>>

Publish ==
  /\ phase = "closed"
  /\ ~published
  /\ published' = TRUE
  /\ UNCHANGED <<phase, roll, ballot>>

Next ==
  \/ \E batch \in SUBSET Voters : Register(batch)
  \/ Open
  \/ \E v \in Voters, b \in Ballots : Vote(v, b)
  \/ Close
  \/ Publish

Spec == Init /\ [][Next]_vars
=============================================================================
