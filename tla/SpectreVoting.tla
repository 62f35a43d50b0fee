--------------------------- MODULE SpectreVoting ---------------------------
(***************************************************************************)
(* The election contract, apps/contracts/contracts/SpectreVoting.sol.      *)
(*                                                                         *)
(* One action per external function; a call that reverts changes nothing,  *)
(* so it is a call whose guard is false.  Abstractions:                    *)
(*                                                                         *)
(*  - A Poseidon hash is injective, so a voter's signup leaf and her join  *)
(*    nullifier are both named by the voter, a voting commitment and its   *)
(*    base nullifier by the voting identity, and a versioned nullifier by  *)
(*    a pair <<identity, version>>.  Leaves carry weight 1, the only       *)
(*    weight the contract ever writes (lines 235, 244, 254).               *)
(*  - A Semaphore group only grows, so its Merkle root is named by the set *)
(*    of leaves under it.                                                  *)
(*  - verifyProof accepts exactly the public signals for which a witness   *)
(*    of the circuit exists (JoinProof, VoteProof).                        *)
(*  - The zero or empty value of a mapping or of a key is None.            *)
(*                                                                         *)
(* A definition Slip_X is X with a slip a programmer could make.  Nothing  *)
(* uses it: mutation runs put it in the place of X to show which property  *)
(* rests on X.                                                             *)
(***************************************************************************)
EXTENDS Integers, Sequences, FiniteSets

CONSTANTS
  Voters,        \* signup identities
  VotingIds,     \* voting identities, which voters create afresh
  Versions,      \* submission numbers the vote circuit accepts
  Attempts,      \* submission numbers that clients try
  Ballots,       \* encrypted ballots
  Accounts,      \* addresses that call the contract
  Admin,         \* the admin's address
  NumOptions,    \* numOptions of the constructor
  Tallies,       \* arguments of commitTallyResult
  MemberLists,   \* _members arguments of setupCommittee, duplicates included
  PubKeys,       \* 33-byte keys of committee members
  ElectionKeys,  \* non-zero election public keys
  Shares,        \* serialized shares, the empty bytes apart
  Deadlines,     \* deadline arguments of the constructor, 0 for none
  MaxTime,       \* bound on the clock
  None           \* an empty value, empty bytes too

ASSUME VotersAssumption   == IsFiniteSet(Voters) /\ IsFiniteSet(VotingIds)
ASSUME VersionsAssumption == IsFiniteSet(Versions) /\ Versions \subseteq Attempts
ASSUME AccountsAssumption == Admin \in Accounts /\ IsFiniteSet(Accounts)
ASSUME OptionsAssumption  == NumOptions \in Nat /\ NumOptions >= 2
ASSUME TalliesAssumption  == \A t \in Tallies : t.optionCounts \in Seq(Nat)
ASSUME ListsAssumption    == MemberLists \subseteq Seq(Accounts)
ASSUME TimeAssumption     == MaxTime \in Nat \ {0} /\ Deadlines \subseteq Nat
ASSUME NoneAssumption     ==
  /\ None \notin Ballots /\ None \notin Tallies
  /\ None \notin PubKeys /\ None \notin ElectionKeys /\ None \notin Shares

VARIABLES
  now,                  \* block.timestamp
  signupDeadline, votingDeadline, selfSignupAllowed,
  signupOpen, votingOpen,
  signupGroup, votingGroup,   \* leaves of the two Semaphore groups
  usedJoinNullifiers,
  joined,               \* AnonJoined events: <<join nullifier, new commitment>>
  usedNullifiers, knownVoters, uniqueVoterCount, voteCount,
  voteLog,              \* VoteCast events, in the order of the chain
  tallyCommitted, tally,
  committeeThreshold, committeeMembers, isCommitteeMember,
  committeePublicKeys, registeredKeyCount, committeeFinalized,
  electionPubKey,
  decryptedShares, hasSubmittedShare, submittedShareCount

config        == <<signupDeadline, votingDeadline, selfSignupAllowed>>
phaseVars     == <<signupOpen, votingOpen>>
joinVars      == <<votingGroup, usedJoinNullifiers, joined>>
voteVars      == <<usedNullifiers, knownVoters, uniqueVoterCount, voteCount, voteLog>>
tallyVars     == <<tallyCommitted, tally>>
committeeVars == <<committeeThreshold, committeeMembers, isCommitteeMember,
                   committeePublicKeys, registeredKeyCount, committeeFinalized,
                   electionPubKey>>
shareVars     == <<decryptedShares, hasSubmittedShare, submittedShareCount>>
vars == <<now, config, phaseVars, signupGroup, joinVars, voteVars, tallyVars,
          committeeVars, shareVars>>

VoteEvents == [base : VotingIds, nullifier : VotingIds \X Versions, ballot : Ballots]

-----------------------------------------------------------------------------
(* The modifiers, and what the two verifiers accept. *)

Passed(deadline) == deadline # 0 /\ now > deadline

Slip_whenSignupOpen == ~Passed(signupDeadline)
whenSignupOpen == signupOpen /\ ~Passed(signupDeadline)
whenVotingOpen == votingOpen /\ ~Passed(votingDeadline)

(* A phase is closed by the admin at any time and by anybody once its      *)
(* deadline has passed.                                                    *)
Slip_MayClose(sender, deadline) == sender = Admin
MayClose(sender, deadline) == sender = Admin \/ Passed(deadline)

Slip_BothOver == ~signupOpen
BothOver == ~signupOpen /\ ~votingOpen

(* AnonJoin.circom: the prover knows the secret behind a leaf under root,  *)
(* and the join nullifier is the one of that secret.  The new commitment   *)
(* is the prover's choice.                                                 *)
Slip_JoinProof(root, nullifier) == TRUE
JoinProof(root, nullifier) == nullifier \in root

(* SpectreVote.circom: the prover knows the secret of a leaf under root,   *)
(* both nullifiers are derived from that secret, and the version is one    *)
(* the circuit's comparator accepts.                                       *)
VoteProof(root, base, versioned) ==
  /\ base \in root
  /\ versioned[1] = base
  /\ versioned[2] \in Versions

(* SemaphoreGroups.getMerkleTreeRoot, and addMember on a leaf that the     *)
(* group does not hold yet (a second insertion reverts).                   *)
MerkleRoot(group) == group
Slip_NewLeaf(group, leaf) == TRUE
NewLeaf(group, leaf) == leaf \notin group

(* The nullifier and committee mappings the contract consults. *)
Slip_FreshJoinNullifier(nullifier) == TRUE
FreshJoinNullifier(nullifier) == nullifier \notin usedJoinNullifiers
Slip_FreshNullifier(versioned) == TRUE
FreshNullifier(versioned) == versioned \notin usedNullifiers
Slip_NoKeyYet(member) == TRUE
NoKeyYet(member) == committeePublicKeys[member] = None
Slip_AllKeysRegistered == registeredKeyCount >= committeeThreshold
AllKeysRegistered == registeredKeyCount = Len(committeeMembers)

-----------------------------------------------------------------------------
Init ==
  /\ now = 1
  /\ signupDeadline \in Deadlines /\ votingDeadline \in Deadlines
  /\ selfSignupAllowed \in BOOLEAN
  /\ electionPubKey \in ElectionKeys \cup {None}
  /\ signupOpen = TRUE /\ votingOpen = FALSE
  /\ signupGroup = {} /\ votingGroup = {}
  /\ usedJoinNullifiers = {} /\ joined = {}
  /\ usedNullifiers = {} /\ knownVoters = {} /\ uniqueVoterCount = 0
  /\ voteCount = 0 /\ voteLog = <<>>
  /\ tallyCommitted = FALSE /\ tally = None
  /\ committeeThreshold = 0 /\ committeeMembers = <<>> /\ isCommitteeMember = {}
  /\ committeePublicKeys = [a \in Accounts |-> None] /\ registeredKeyCount = 0
  /\ committeeFinalized = FALSE
  /\ decryptedShares = [a \in Accounts |-> None]
  /\ hasSubmittedShare = {} /\ submittedShareCount = 0

(* Blocks are mined; the clock stops at MaxTime. *)
Tick ==
  /\ now < MaxTime
  /\ now' = now + 1
  /\ UNCHANGED <<config, phaseVars, signupGroup, joinVars, voteVars, tallyVars,
                 committeeVars, shareVars>>

-----------------------------------------------------------------------------
(* Phase 1: signup. *)

AddToRoll(batch) ==
  /\ \A v \in batch : NewLeaf(signupGroup, v)
  /\ signupGroup' = signupGroup \cup batch
  /\ UNCHANGED <<now, config, phaseVars, joinVars, voteVars, tallyVars,
                 committeeVars, shareVars>>

signUp(v) == whenSignupOpen /\ selfSignupAllowed /\ AddToRoll({v})

registerVoter(sender, v) == sender = Admin /\ whenSignupOpen /\ AddToRoll({v})

registerVoters(sender, batch) == sender = Admin /\ whenSignupOpen /\ AddToRoll(batch)

(* A committee that was set up must have been finalized. *)
closeSignup(sender) ==
  /\ signupOpen
  /\ MayClose(sender, signupDeadline)
  /\ committeeThreshold > 0 => committeeFinalized
  /\ signupOpen' = FALSE
  /\ votingOpen' = TRUE
  /\ UNCHANGED <<now, config, signupGroup, joinVars, voteVars, tallyVars,
                 committeeVars, shareVars>>

-----------------------------------------------------------------------------
(* Phase 2: anonymous join and vote. *)

anonJoin(root, nullifier, commitment) ==
  /\ whenVotingOpen
  /\ FreshJoinNullifier(nullifier)
  /\ root = MerkleRoot(signupGroup)
  /\ JoinProof(root, nullifier)
  /\ NewLeaf(votingGroup, commitment)
  /\ usedJoinNullifiers' = usedJoinNullifiers \cup {nullifier}
  /\ votingGroup' = votingGroup \cup {commitment}
  /\ joined' = joined \cup {<<nullifier, commitment>>}
  /\ UNCHANGED <<now, config, phaseVars, signupGroup, voteVars, tallyVars,
                 committeeVars, shareVars>>

castVote(root, base, versioned, ballot) ==
  /\ whenVotingOpen
  /\ FreshNullifier(versioned)
  /\ root = MerkleRoot(votingGroup)
  /\ VoteProof(root, base, versioned)
  /\ usedNullifiers' = usedNullifiers \cup {versioned}
  /\ knownVoters' = knownVoters \cup {base}
  /\ uniqueVoterCount' = uniqueVoterCount + (IF base \in knownVoters THEN 0 ELSE 1)
  /\ voteCount' = voteCount + 1
  /\ voteLog' = Append(voteLog, [base |-> base, nullifier |-> versioned, ballot |-> ballot])
  /\ UNCHANGED <<now, config, phaseVars, signupGroup, joinVars, tallyVars,
                 committeeVars, shareVars>>

closeVoting(sender) ==
  /\ votingOpen
  /\ MayClose(sender, votingDeadline)
  /\ votingOpen' = FALSE
  /\ UNCHANGED <<now, config, signupOpen, signupGroup, joinVars, voteVars,
                 tallyVars, committeeVars, shareVars>>

-----------------------------------------------------------------------------
(* Phase 3: the tally. *)

commitTallyResult(sender, t) ==
  /\ sender = Admin
  /\ BothOver
  /\ ~tallyCommitted
  /\ Len(t.optionCounts) = NumOptions
  /\ tallyCommitted' = TRUE
  /\ tally' = t
  /\ UNCHANGED <<now, config, phaseVars, signupGroup, joinVars, voteVars,
                 committeeVars, shareVars>>

-----------------------------------------------------------------------------
(* The threshold committee. *)

setupCommittee(sender, threshold, members) ==
  /\ sender = Admin /\ whenSignupOpen
  /\ committeeThreshold = 0
  /\ 2 <= threshold /\ threshold <= Len(members)
  /\ committeeThreshold' = threshold
  /\ committeeMembers' = members
  /\ isCommitteeMember' = {members[i] : i \in DOMAIN members}
  /\ UNCHANGED <<now, config, phaseVars, signupGroup, joinVars, voteVars, tallyVars,
                 committeePublicKeys, registeredKeyCount, committeeFinalized,
                 electionPubKey, shareVars>>

registerCommitteeKey(sender, key) ==
  /\ whenSignupOpen
  /\ committeeThreshold # 0 /\ ~committeeFinalized
  /\ sender \in isCommitteeMember
  /\ NoKeyYet(sender)
  /\ committeePublicKeys' = [committeePublicKeys EXCEPT ![sender] = key]
  /\ registeredKeyCount' = registeredKeyCount + 1
  /\ UNCHANGED <<now, config, phaseVars, signupGroup, joinVars, voteVars, tallyVars,
                 committeeThreshold, committeeMembers, isCommitteeMember,
                 committeeFinalized, electionPubKey, shareVars>>

finalizeCommittee(sender, key) ==
  /\ sender = Admin /\ whenSignupOpen
  /\ committeeThreshold # 0 /\ ~committeeFinalized
  /\ AllKeysRegistered
  /\ electionPubKey' = key
  /\ committeeFinalized' = TRUE
  /\ UNCHANGED <<now, config, phaseVars, signupGroup, joinVars, voteVars, tallyVars,
                 committeeThreshold, committeeMembers, isCommitteeMember,
                 committeePublicKeys, registeredKeyCount, shareVars>>

submitDecryptedShare(sender, share) ==
  /\ committeeThreshold # 0 /\ committeeFinalized
  /\ sender \in isCommitteeMember
  /\ BothOver
  /\ sender \notin hasSubmittedShare
  /\ decryptedShares' = [decryptedShares EXCEPT ![sender] = share]
  /\ hasSubmittedShare' = hasSubmittedShare \cup {sender}
  /\ submittedShareCount' = submittedShareCount + 1
  /\ UNCHANGED <<now, config, phaseVars, signupGroup, joinVars, voteVars, tallyVars,
                 committeeVars>>

-----------------------------------------------------------------------------
SignUp               == \E v \in Voters : signUp(v)
RegisterVoter        == \E s \in Accounts, v \in Voters : registerVoter(s, v)
RegisterVoters       == \E s \in Accounts, batch \in SUBSET Voters \ {{}} : registerVoters(s, batch)
CloseSignup          == \E s \in Accounts : closeSignup(s)
AnonJoin             == \E root \in SUBSET Voters, v \in Voters, id \in VotingIds :
                          anonJoin(root, v, id)
CastVote             == \E root \in SUBSET VotingIds, id \in VotingIds,
                           versioned \in VotingIds \X Attempts, b \in Ballots :
                          castVote(root, id, versioned, b)
CloseVoting          == \E s \in Accounts : closeVoting(s)
CommitTallyResult    == \E s \in Accounts, t \in Tallies : commitTallyResult(s, t)
SetupCommittee       == \E s \in Accounts, list \in MemberLists :
                          \E n \in 0 .. Len(list) + 1 : setupCommittee(s, n, list)
RegisterCommitteeKey == \E s \in Accounts, k \in PubKeys : registerCommitteeKey(s, k)
FinalizeCommittee    == \E s \in Accounts, k \in ElectionKeys : finalizeCommittee(s, k)
(* No length is asked of a share: None stands for empty bytes here. *)
SubmitDecryptedShare ==
  \E s \in Accounts, x \in Shares \cup {None} : submitDecryptedShare(s, x)

Next ==
  \/ Tick
  \/ SignUp \/ RegisterVoter \/ RegisterVoters \/ CloseSignup
  \/ AnonJoin \/ CastVote \/ CloseVoting
  \/ CommitTallyResult
  \/ SetupCommittee \/ RegisterCommitteeKey \/ FinalizeCommittee \/ SubmitDecryptedShare

Spec == Init /\ [][Next]_vars

(* Once a deadline has passed anybody may close the phase it ends: the     *)
(* fairness is that blocks keep coming and that somebody other than the    *)
(* admin does call.  Nothing is assumed of the admin.                      *)
Public == Accounts \ {Admin}
Fairness ==
  /\ WF_vars(Tick)
  /\ WF_vars(\E s \in Public : closeSignup(s))
  /\ WF_vars(\E s \in Public : closeVoting(s))
FairSpec == Spec /\ Fairness

-----------------------------------------------------------------------------
(* Properties. *)

(* Every storage variable has the type the contract declares for it. *)
TypeOK ==
  /\ now \in 1 .. MaxTime
  /\ signupDeadline \in Deadlines /\ votingDeadline \in Deadlines
  /\ selfSignupAllowed \in BOOLEAN
  /\ signupOpen \in BOOLEAN /\ votingOpen \in BOOLEAN
  /\ signupGroup \subseteq Voters /\ votingGroup \subseteq VotingIds
  /\ usedJoinNullifiers \subseteq Voters /\ joined \subseteq Voters \X VotingIds
  /\ usedNullifiers \subseteq VotingIds \X Versions
  /\ knownVoters \subseteq VotingIds
  /\ uniqueVoterCount \in Nat /\ voteCount \in Nat
  /\ voteLog \in Seq(VoteEvents)
  /\ tallyCommitted \in BOOLEAN /\ tally \in Tallies \cup {None}
  /\ committeeThreshold \in Nat /\ committeeMembers \in Seq(Accounts)
  /\ isCommitteeMember \subseteq Accounts
  /\ committeePublicKeys \in [Accounts -> PubKeys \cup {None}]
  /\ registeredKeyCount \in Nat /\ committeeFinalized \in BOOLEAN
  /\ electionPubKey \in ElectionKeys \cup {None}
  /\ decryptedShares \in [Accounts -> Shares \cup {None}]
  /\ hasSubmittedShare \subseteq Accounts /\ submittedShareCount \in Nat

(* Re-keying is one to one: AnonJoined pairs each used join nullifier of a *)
(* registered voter with one voting identity and each member of the voting *)
(* group with one nullifier, so nobody holds two places in the voting      *)
(* group and no two voters share one.                                      *)
OnePlacePerVoter ==
  /\ usedJoinNullifiers = {p[1] : p \in joined}
  /\ votingGroup = {p[2] : p \in joined}
  /\ usedJoinNullifiers \subseteq signupGroup
  /\ \A p, q \in joined : (p[1] = q[1] \/ p[2] = q[2]) => p = q

(* The counters the contract maintains beside its mappings and its events  *)
(* agree with them, and no VoteCast event repeats a versioned nullifier.   *)
CountersAgree ==
  /\ voteCount = Len(voteLog)
  /\ voteCount = Cardinality(usedNullifiers)
  /\ usedNullifiers = {voteLog[i].nullifier : i \in DOMAIN voteLog}
  /\ \A i, j \in DOMAIN voteLog : voteLog[i].nullifier = voteLog[j].nullifier => i = j
  /\ uniqueVoterCount = Cardinality(knownVoters)
  /\ knownVoters = {n[1] : n \in usedNullifiers}

(* The turnout a reader computes from uniqueVoterCount never exceeds the   *)
(* roll, only members of the voting group are counted, and nobody submits  *)
(* more often than there are versions.                                     *)
TurnoutBounded ==
  /\ knownVoters \subseteq votingGroup
  /\ uniqueVoterCount <= Cardinality(signupGroup)
  /\ \A id \in VotingIds :
       Cardinality({i \in DOMAIN voteLog : voteLog[i].base = id}) <= Cardinality(Versions)

(* What ballots are encrypted to, and what join proofs are made against,   *)
(* is fixed from the moment voting opens: the roll, the election key and   *)
(* the committee that shares the key.                                      *)
FrozenAtOpening ==
  [][~signupOpen => UNCHANGED <<signupGroup, committeeVars>>]_vars

(* Decrypted shares, and a committed tally, exist on chain only for a      *)
(* closed ballot box, and from the first of them on the log never changes: *)
(* the chain shows nobody a result while ballots can still be cast.  The   *)
(* holder of a single key can look at any time (page.tsx, the preview).    *)
NoResultBeforeClose ==
  [][hasSubmittedShare' # {} \/ tallyCommitted' =>
       /\ ~signupOpen' /\ ~votingOpen'
       /\ UNCHANGED <<voteLog, votingGroup>>]_vars

(* Voting under a committee starts only when every listed member has a key *)
(* on record, and finalizing proves that the list has no duplicate, so     *)
(* that enough distinct members exist to submit committeeThreshold shares. *)
CommitteeReady ==
  committeeThreshold > 0 /\ (committeeFinalized \/ ~signupOpen) =>
    /\ committeeFinalized
    /\ electionPubKey # None
    /\ \A m \in isCommitteeMember : committeePublicKeys[m] # None
    /\ \A i, j \in DOMAIN committeeMembers :
         committeeMembers[i] = committeeMembers[j] => i = j
    /\ committeeThreshold <= Cardinality(isCommitteeMember)

(* The counters beside the committee's mappings agree with them: keys and  *)
(* submissions are those of members, one each, and no share is stored that *)
(* was not submitted.  The converse fails: submitDecryptedShare counts an  *)
(* empty share as submitted and leaves nothing to read.                    *)
CommitteeCountersAgree ==
  /\ registeredKeyCount = Cardinality({m \in Accounts : committeePublicKeys[m] # None})
  /\ {m \in Accounts : committeePublicKeys[m] # None} \subseteq isCommitteeMember
  /\ submittedShareCount = Cardinality(hasSubmittedShare)
  /\ {m \in Accounts : decryptedShares[m] # None} \subseteq hasSubmittedShare
  /\ hasSubmittedShare \subseteq isCommitteeMember
  /\ isCommitteeMember = {committeeMembers[i] : i \in DOMAIN committeeMembers}

-----------------------------------------------------------------------------
(* The contract implements the abstract ballot box.  A voter's ballot is   *)
(* the last VoteCast event of the identity she joined with, the one the    *)
(* tally keeps (apps/sdk/src/tally.ts, computeTally).                      *)

VotesOf(id) == {i \in DOMAIN voteLog : voteLog[i].base = id}

LastBallot(id) ==
  IF VotesOf(id) = {} THEN None
  ELSE voteLog[CHOOSE i \in VotesOf(id) : \A j \in VotesOf(id) : j <= i].ballot

EffectiveBallot(v) ==
  IF v \in usedJoinNullifiers
  THEN LastBallot(CHOOSE id \in VotingIds : <<v, id>> \in joined)
  ELSE None

Phase == IF signupOpen THEN "signup" ELSE IF votingOpen THEN "voting" ELSE "closed"

Box == INSTANCE BallotBox WITH
         phase     <- Phase,
         roll      <- signupGroup,
         ballot    <- [v \in Voters |-> EffectiveBallot(v)],
         published <- tallyCommitted

(* Every call is a step of the ballot box or changes nothing it shows: in  *)
(* particular the joins, the versions and the nullifiers together give     *)
(* each registered voter exactly one replaceable ballot.                   *)
ImplementsBallotBox == Box!Spec

(* With both deadlines set the election reaches its last phase whatever    *)
(* the admin does, because closing is open to all.  The one exception is a *)
(* committee that is set up and never finalized.                           *)
CommitteePending == signupOpen /\ committeeThreshold > 0 /\ ~committeeFinalized

DeadlinesEndElection ==
  signupDeadline # 0 /\ votingDeadline # 0
    => <>(~signupOpen /\ ~votingOpen) \/ <>[]CommitteePending

(* "Admin can close anytime; anyone after deadline"                        *)
(* (SpectreVoting.sol:259): an election with a signup deadline leaves its  *)
(* signup phase.                                                           *)
SignupEventuallyCloses == (signupDeadline # 0) ~> ~signupOpen
=============================================================================
