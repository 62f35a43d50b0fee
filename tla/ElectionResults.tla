-------------------------- MODULE ElectionResults ---------------------------
(***************************************************************************)
(* The results of an election: ballots on the log of the contract, and the *)
(* admin's page, apps/web-app/src/app/election/[address]/page.tsx with     *)
(* components/election/ResultsTab.tsx, which tallies them with a single    *)
(* key or with a committee's shares and commits the result.                *)
(*                                                                         *)
(* A tally reads the shares, the number of the last block, and the events  *)
(* in ranges of blocks, and awaits every one of these calls; ballots are   *)
(* cast all the while.  It may be run during the vote, as a preview, and   *)
(* its result stays on the page until another is asked for.                *)
(*                                                                         *)
(* ResultsTab lists the ballots by a field nullifierHash that they do not  *)
(* have: a page that is to show a result with ballots fails, and has to be *)
(* loaded again.                                                           *)
(*                                                                         *)
(* Abstractions: one vote in one envelope of ElectionCrypto or none; the   *)
(* page may show any earlier state of the committee; only the tab for the  *)
(* results is told apart.                                                  *)
(*                                                                         *)
(* Definitions Slip_X are described in module SpectreVoting.               *)
(***************************************************************************)
EXTENDS ElectionCommittee

CONSTANTS
  Voters,         \* the nullifiers
  PastedKeys,     \* keys that may be pasted beside the right one
  MAX_LOG_RANGE,  \* blocks of one query
  MaxBallots,     \* bound on the ballots
  MaxTallies      \* bound on the tallies of the page

ASSUME ResultsAssumption ==
  /\ MAX_LOG_RANGE \in Nat \ {0} /\ {MaxBallots, MaxTallies} \subseteq Nat
  /\ PastedKeys \subseteq Scalars

VARIABLES
  page,       \* the tab and the tally, with what it has read
  tallies,    \* how many were run
  commit,     \* the transaction that commits a result, or None
  committed   \* the result on chain, or None

resultsVars == <<committeeVars, page, tallies, commit, committed>>

FreshPage ==
  [tab |-> "other", step |-> "idle", seen |-> {}, shares |-> <<>>, key |-> None,
   height |-> 0, from |-> 1, ballots |-> <<>>]

ResultsInit ==
  /\ CommitteeInit
  /\ page = FreshPage /\ tallies = 0 /\ commit = None /\ committed = None

-----------------------------------------------------------------------------
(* Ballots.  The proof is about the commitment; the blob is not checked.   *)

Payloads == [vote : 0 .. NumOptions - 1, weight : {1}]
BallotsOf(events) == Subsequence(events, {i \in DOMAIN events : events[i].event = "VoteCast"})

CastVote(v) ==
  /\ phase = "voting" /\ Len(BallotsOf(log)) < MaxBallots
  /\ \E proved \in Payloads :
     \E blob \in {eciesEncrypt(electionPubKey, p) : p \in Payloads} \cup {None} :
       log' = Append(log, [event |-> "VoteCast", baseNullifier |-> v,
                           voteCommitment |-> voteCommitment(proved), encryptedBlob |-> blob])
  /\ UNCHANGED <<phase, committeePublicKeys, electionPubKey, decryptedShares,
                 browsers, sent, deals, page, tallies, commit, committed>>

handleCloseVoting ==
  /\ phase = "voting" /\ phase' = "closed"
  /\ UNCHANGED <<committeePublicKeys, electionPubKey, decryptedShares, log,
                 browsers, sent, deals, page, tallies, commit, committed>>

-----------------------------------------------------------------------------
(* The tab that shows the result: a function of what the tally has read.   *)

Page(new) == page' = new /\ UNCHANGED <<committeeVars, tallies, commit, committed>>

Done == page.step = "done"

Breaks(new) == new.tab = "results" /\ new.step = "done" /\ new.ballots # <<>>
Rendered(new) == IF Breaks(new) THEN [FreshPage EXCEPT !.step = "crashed"] ELSE new

SwitchTab ==
  /\ page.step # "crashed"
  /\ \E tab \in {"results", "other"} \ {page.tab} : Page(Rendered([page EXCEPT !.tab = tab]))

Reload == page # FreshPage /\ Page(FreshPage)

Retally ==
  /\ page.tab = "results" /\ Done
  /\ Page([FreshPage EXCEPT !.tab = "results"])

-----------------------------------------------------------------------------
(* The tally. *)

Begin(step, seen, key) ==
  /\ page.tab = "results" /\ page.step = "idle" /\ tallies < MaxTallies
  /\ tallies' = tallies + 1
  /\ page' = [FreshPage EXCEPT !.tab = "results", !.step = step, !.seen = seen, !.key = key]
  /\ UNCHANGED <<committeeVars, commit, committed>>

(* With the key in the browser, or one that is pasted. *)
runTally ==
  /\ electionPubKey # None /\ ~committeeFinalized
  /\ \E key \in PastedKeys \cup {electionPubKey} : Begin("height", {}, key)

(* With the shares that the page shows as submitted. *)
runOnChainCommitteeTally ==
  /\ committeeFinalized
  /\ \E seen \in SUBSET {m \in Members : hasSubmittedShare(m)} :
       Cardinality(seen) >= Threshold /\ Begin("shares", seen, None)

Awaits(step) == page.step = step

(* Malformed and empty shares are skipped, all the others are combined.    *)
Enough(shares) == Len(shares) >= Threshold
Whole(shares) == Subsequence(shares, {i \in DOMAIN shares : shares[i] # Junk})

ReadShare ==
  LET seen == Subsequence(Committee, {i \in DOMAIN Committee : Committee[i] \in page.seen})
      member == seen[Len(page.shares) + 1]
      read == Append(page.shares, decryptedShares[member])
  IN /\ Awaits("shares")
     /\ Page([page EXCEPT !.shares = read,
          !.step = IF Len(read) < Cardinality(page.seen) THEN "shares"
                   ELSE IF Enough(Whole(read)) THEN "height" ELSE "idle"])

TallyKey == IF page.shares = <<>> THEN page.key ELSE combine(Whole(page.shares))
TallyResult == computeTally(TallyKey, page.ballots)

ReadHeight ==
  /\ Awaits("height")
  /\ Page([page EXCEPT !.step = "fetch", !.height = Len(log)])

(* queryFilter, from block to block. *)
LastOf(first) == IF first + MAX_LOG_RANGE - 1 > page.height THEN page.height
                 ELSE first + MAX_LOG_RANGE - 1

To == LastOf(page.from)

Slip_NextFrom == To
NextFrom == page.from + MAX_LOG_RANGE

FetchVotes ==
  /\ Awaits("fetch") /\ page.from <= page.height
  /\ Page([page EXCEPT !.ballots = @ \o BallotsOf(SubSeq(log, page.from, To)),
                       !.from = NextFrom])

SetTallyResult ==
  /\ Awaits("fetch") /\ page.from > page.height
  /\ Page(Rendered([page EXCEPT !.step = "done"]))

TallyFails ==
  /\ page.step \in {"shares", "height", "fetch"}
  /\ Page([page EXCEPT !.step = "idle"])

-----------------------------------------------------------------------------
(* handleCommitTally: what the page shows, however old. *)

handleCommitTally ==
  /\ page.tab = "results" /\ Done /\ phase = "closed" /\ commit = None
  /\ commit' = [result |-> TallyResult, poseidonCommitment |-> computeTallyCommitment(TallyResult),
                key |-> TallyKey, seen |-> page.seen, height |-> page.height]
  /\ UNCHANGED <<committeeVars, page, tallies, committed>>

(* Only the first one that is mined is stored; the wallet may refuse.      *)
commitTallyResult ==
  /\ commit # None /\ commit' = None
  /\ committed' \in {committed, IF committed = None THEN commit ELSE committed}
  /\ UNCHANGED <<committeeVars, page, tallies>>

-----------------------------------------------------------------------------
TallyStep == ReadShare \/ ReadHeight \/ FetchVotes \/ SetTallyResult

ResultsNext ==
  \/ CommitteeNext /\ UNCHANGED <<page, tallies, commit, committed>>
  \/ \E v \in Voters : CastVote(v)
  \/ handleCloseVoting
  \/ SwitchTab \/ Reload \/ Retally
  \/ runTally \/ runOnChainCommitteeTally \/ TallyStep \/ TallyFails
  \/ handleCommitTally \/ commitTallyResult

(* Calls to the chain are answered. *)
ResultsSpec == ResultsInit /\ [][ResultsNext]_resultsVars /\ WF_resultsVars(TallyStep)

-----------------------------------------------------------------------------
(* The types of the ceremony's state, and of the page. *)
TypeOK ==
  /\ CommitteeTypeOK
  /\ page.tab \in {"results", "other"}
  /\ page.step \in {"idle", "shares", "height", "fetch", "done", "crashed"}
  /\ page.seen \subseteq Members /\ page.key \in Scalars \cup {None}
  /\ Done => TallyKey \in Scalars
  /\ page.height \in 0 .. Len(log) /\ tallies \in 0..MaxTallies

BallotsAt(height) == BallotsOf(SubSeq(log, 1, height))

(* What the page shows, with what it was computed from. *)
OnPage == [result |-> TallyResult, key |-> TallyKey, seen |-> page.seen, height |-> page.height]

(* The shares were submitted from the members' pages; or the key is right. *)
Genuine(t) ==
  IF committeeFinalized
  THEN \A m \in t.seen : decryptedShares[m] = MyShare(EncryptedShares, m).encryptedData.content
  ELSE t.key = electionPubKey

Sound(t) ==
  LET ballots == BallotsAt(t.height)
  IN /\ Genuine(t) => IsResultOf(t.result, ballots, electionPubKey)
     /\ IsResultOf(t.result, ballots, electionPubKey) \/ IsUnreadable(t.result, ballots)

(* A result on the page or on the chain that was computed from the right   *)
(* key, or from shares enough that the members' pages submitted, counts    *)
(* the last ballot of every voter in the blocks up to the last one when it *)
(* was asked for, however these are read in ranges and whatever is cast    *)
(* meanwhile; with wrong shares, or a wrong key, it does so or counts no   *)
(* ballot at all.  That is not to say that it counts all ballots: one      *)
(* computed before voting was closed is committed as it stands.            *)
ResultSound ==
  /\ Done => Sound(OnPage)
  /\ committed # None => Sound(committed)

(* A tally ends, with a result or without one. *)
TallyEnds == page.step \in {"shares", "height", "fetch"} ~>
             page.step \in {"idle", "done", "crashed"}
=============================================================================
