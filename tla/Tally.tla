------------------------------- MODULE Tally --------------------------------
(***************************************************************************)
(* The tally of an election from its VoteCast events: computeTally of      *)
(* apps/sdk/src/tally.ts, which runTally, runThresholdTally and            *)
(* runOnChainCommitteeTally of the election page repeat.                   *)
(*                                                                         *)
(* Abstractions: a nullifier is the voter it belongs to; the blob of a     *)
(* ballot is an envelope of module ElectionCrypto, or None when it is not  *)
(* one; the randomness of a ballot's payload is left out.                  *)
(*                                                                         *)
(* Definitions Slip_X are described in module SpectreVoting.               *)
(***************************************************************************)
EXTENDS ElectionCrypto

CONSTANTS
  NumOptions,  \* options of the election
  None         \* no value

ASSUME OptionsAssumption == NumOptions \in Nat /\ NumOptions >= 2

(* A payload decodes to a vote and a weight of a byte each. *)
decodeVotePayload(content) == content
voteCommitment(payload) == <<"poseidon3", payload.vote, payload.weight>>

Undecrypted == [vote |-> -1, weight |-> 0]

(* One ballot, decrypted and verified. *)
Verified(payload, submitted) == voteCommitment(payload) = submitted.voteCommitment

decryptAndVerifyVote(key, submitted) ==
  LET opened == submitted.encryptedBlob # None /\ Opens(key, submitted.encryptedBlob)
      payload == IF opened THEN decodeVotePayload(eciesDecrypt(key, submitted.encryptedBlob))
                 ELSE Undecrypted
  IN [baseNullifier |-> submitted.baseNullifier,
      vote |-> payload.vote, weight |-> payload.weight,
      commitmentValid |-> opened /\ Verified(payload, submitted)]

(* The last ballot of a nullifier counts. *)
Slip_Overwrites(votes, dv) == dv.baseNullifier \notin DOMAIN votes
Overwrites(votes, dv) == TRUE

Put(votes, dv) ==
  IF Overwrites(votes, dv)
  THEN [n \in DOMAIN votes \cup {dv.baseNullifier} |->
          IF n = dv.baseNullifier THEN dv ELSE votes[n]]
  ELSE votes

Nullifiers(decrypted) == {dv.baseNullifier : dv \in Range(decrypted)}
Maps(decrypted) == UNION {[N -> Range(decrypted)] : N \in SUBSET Nullifiers(decrypted)}

Unique(decrypted) ==
  LET Next == [i \in DOMAIN decrypted |->
        [acc \in [votes : Maps(decrypted), removed : Nat] |->
          [votes |-> Put(acc.votes, decrypted[i]),
           removed |-> IF decrypted[i].baseNullifier \in DOMAIN acc.votes
                       THEN acc.removed + 1 ELSE acc.removed]]]
  IN Loop(Next, [votes |-> <<>>, removed |-> 0], Len(decrypted))

(* A Map lists its values in the order in which their keys came first.     *)
FirstPlaces(decrypted) ==
  {i \in DOMAIN decrypted : \A j \in DOMAIN decrypted :
     j < i => decrypted[j].baseNullifier # decrypted[i].baseNullifier}
Values(votes, decrypted) ==
  Subsequence([i \in DOMAIN decrypted |-> votes[decrypted[i].baseNullifier]],
              FirstPlaces(decrypted))

Countable(dv) == dv.commitmentValid /\ dv.vote >= 0 /\ dv.vote < NumOptions

(* Option i of the code is the entry i + 1 of the counts. *)
Count(uniqueVotes) ==
  LET Next == [i \in DOMAIN uniqueVotes |->
        [acc \in [counts : [1..NumOptions -> Nat], invalid : Nat] |->
          IF Countable(uniqueVotes[i])
          THEN [acc EXCEPT !.counts[uniqueVotes[i].vote + 1] = @ + uniqueVotes[i].weight]
          ELSE [acc EXCEPT !.invalid = @ + 1]]]
  IN Loop(Next, [counts |-> [o \in 1..NumOptions |-> 0], invalid |-> 0], Len(uniqueVotes))

Total(counts) ==
  Loop([o \in 1..NumOptions |-> [a \in Nat |-> a + counts[o]]], 0, NumOptions)

computeTally(key, submittedVotes) ==
  LET decrypted == [i \in DOMAIN submittedVotes |-> decryptAndVerifyVote(key, submittedVotes[i])]
      unique == Unique(decrypted)
      uniqueVotes == Values(unique.votes, decrypted)
      count == Count(uniqueVotes)
  IN [optionCounts |-> count.counts,
      totalValid |-> Total(count.counts),
      totalInvalid |-> count.invalid,
      duplicatesRemoved |-> unique.removed,
      ballots |-> Len(uniqueVotes)]

(* The hash chain over the totals and the counts, in this order. *)
computeTallyCommitment(result) ==
  FoldLeft(LAMBDA hash, count : <<"poseidon2", hash, count>>,
           <<"poseidon2", result.totalValid, result.totalInvalid>>, result.optionCounts)

-----------------------------------------------------------------------------
(* What a tally promises, said without its steps: of each voter the last   *)
(* ballot counts, for the option it was proved for, if its envelope under  *)
(* the election's key holds what was proved.                               *)

LastBallots(events) ==
  {i \in DOMAIN events : \A j \in DOMAIN events :
     j > i => events[j].baseNullifier # events[i].baseNullifier}

Proper(ballot, electionKey) ==
  /\ ballot.encryptedBlob # None
  /\ ballot.encryptedBlob.to = electionKey
  /\ voteCommitment(ballot.encryptedBlob.content) = ballot.voteCommitment

(* r is the result of the ballots cast under electionKey in events.        *)
IsResultOf(r, events, electionKey) ==
  LET proper == {i \in LastBallots(events) : Proper(events[i], electionKey)}
      Cast(i) == events[i].encryptedBlob.content
  IN /\ \A o \in 1..NumOptions :
          r.optionCounts[o] = Cardinality({i \in proper : Cast(i).vote = o - 1})
     /\ r.totalValid = Cardinality(proper)
     /\ r.totalInvalid = Cardinality(LastBallots(events) \ proper)
     /\ r.duplicatesRemoved + Cardinality(LastBallots(events)) = Len(events)

(* r is what a wrong key makes of events: every voter's ballot is invalid. *)
IsUnreadable(r, events) ==
  /\ r.totalValid = 0
  /\ r.totalInvalid = Cardinality(LastBallots(events))
=============================================================================
