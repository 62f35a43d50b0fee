------------------------- MODULE MCElectionResults --------------------------
(* Model-checking instance of the key ceremony and the results. *)
EXTENDS ElectionResults, TLC

CONSTANTS m1, m2, m3, v1, v2

MCCommittee == <<m1, m2, m3>>
MCVoters == {v1, v2}

(* The first member tries again, the others register once and in turn; the *)
(* third may submit a share by hand.                                        *)
Patient == \A m \in {m2, m3} : drawn'[m] <= 1 /\ m \notin overlapped'
Turns == drawn'[m3] > drawn[m3] => m2 \in Registered
SentByHand(m) == decryptedShares'[m] # decryptedShares[m] /\ sent' = sent
Hands == \A m \in {m1, m2} : ~SentByHand(m)
MCHandBytes == {Junk, [x |-> 1, y |-> 0], [x |-> 3, y |-> 0]}

(* Any key is dealt if nothing else is under way, one key otherwise; after *)
(* the signup one dealing is followed, and no call of the signup is left.  *)
Deals(d, secret, y) ==
  deals'[d].setup # None => /\ deals'[d].setup.electionPubKey = secret
                            /\ deals'[d].setup.encryptedShares[1].encryptedData.content.y = y
Quiet == sent = {} /\ overlapped = {} /\ \A m \in Members : Step(m, "idle")
Ceremonies == /\ Quiet \/ deals' = deals \/ Deals(1, 3, 1)
              /\ Deals(2, 2, 0)
Followed == phase' # "signup" /\ phase = "signup" =>
  /\ electionPubKey = 3 /\ EncryptedShares[1].encryptedData.content.y = 1
  /\ sent = {} /\ \A m \in Members : Step(m, "idle")
  /\ \A d \in 1..MaxDeals : deals[d].pc \in {"idle", "over"}

(* The first ballot is the first voter's for the first option; at most one *)
(* is improper, and only a single key has more than one.                   *)
Ballots == BallotsOf(log')
Improper == {i \in DOMAIN Ballots : ~Proper(Ballots[i], electionPubKey)}
Polls == log' # log /\ phase = "voting" =>
  /\ Ballots[1].baseNullifier = v1 /\ Ballots[1].voteCommitment[2] = 0
  /\ Cardinality(Improper) <= 1
  /\ committeeFinalized => Len(Ballots) = 1

Focus == Patient /\ Turns /\ Hands /\ Ceremonies /\ Followed /\ Polls
=============================================================================
