------------------------ MODULE SpectreVotingProofs ------------------------
(***************************************************************************)
(* Theorems about the election contract, for all values of the constants   *)
(* that its assumptions allow: its types, its safety invariants and action *)
(* properties, and that it implements the ballot box, Spec => Box!Spec.    *)
(***************************************************************************)
EXTENDS SpectreVoting, FiniteSetTheorems, WellFoundedInduction, TLAPS

(* Every call keeps the storage variables within their declared types. *)
THEOREM TypeCorrect == Spec => []TypeOK
<1> USE DEF vars, config, phaseVars, joinVars, voteVars, tallyVars,
            committeeVars, shareVars
<1>1. Init => TypeOK
  <2> SUFFICES ASSUME Init PROVE TypeOK
    OBVIOUS
  <2>1. 1 \in 1 .. MaxTime
    BY TimeAssumption
  <2>2. voteLog \in Seq(VoteEvents) /\ committeeMembers \in Seq(Accounts)
    BY DEF Init
  <2>3. committeePublicKeys \in [Accounts -> PubKeys \cup {None}]
    BY DEF Init
  <2>4. decryptedShares \in [Accounts -> Shares \cup {None}]
    BY DEF Init
  <2>5. uniqueVoterCount \in Nat /\ voteCount \in Nat /\ committeeThreshold \in Nat
        /\ registeredKeyCount \in Nat /\ submittedShareCount \in Nat
    BY DEF Init
  <2> QED
    BY <2>1, <2>2, <2>3, <2>4, <2>5, Zenon DEF Init, TypeOK
<1>2. ASSUME TypeOK, [Next]_vars
      PROVE  TypeOK'
  <2> USE TypeOK DEF TypeOK
  <2>1. CASE Tick
    BY <2>1, TimeAssumption DEF Tick
  <2>2. CASE SignUp
    BY <2>2 DEF SignUp, signUp, AddToRoll
  <2>3. CASE RegisterVoter
    BY <2>3 DEF RegisterVoter, registerVoter, AddToRoll
  <2>4. CASE RegisterVoters
    BY <2>4 DEF RegisterVoters, registerVoters, AddToRoll
  <2>5. CASE CloseSignup
    BY <2>5 DEF CloseSignup, closeSignup
  <2>6. CASE AnonJoin
    BY <2>6 DEF AnonJoin, anonJoin
  <2>7. CASE CastVote
    <3> PICK root \in SUBSET VotingIds, id \in VotingIds,
             versioned \in VotingIds \X Attempts, b \in Ballots :
               castVote(root, id, versioned, b)
      BY <2>7 DEF CastVote
    <3>1. versioned \in VotingIds \X Versions
      BY DEF castVote, VoteProof
    <3>2. [base |-> id, nullifier |-> versioned, ballot |-> b] \in VoteEvents
      BY <3>1 DEF VoteEvents
    <3>3. voteLog' \in Seq(VoteEvents)
      BY <3>2 DEF castVote
    <3> QED
      BY <3>1, <3>3 DEF castVote
  <2>8. CASE CloseVoting
    BY <2>8 DEF CloseVoting, closeVoting
  <2>9. CASE CommitTallyResult
    BY <2>9 DEF CommitTallyResult, commitTallyResult
  <2>10. CASE SetupCommittee
    <3> PICK s \in Accounts, list \in MemberLists :
               \E n \in 0 .. Len(list) + 1 : setupCommittee(s, n, list)
      BY <2>10 DEF SetupCommittee
    <3> PICK n \in 0 .. Len(list) + 1 : setupCommittee(s, n, list)
      OBVIOUS
    <3>1. list \in Seq(Accounts) /\ n \in Nat
      BY ListsAssumption
    <3> QED
      BY <3>1 DEF setupCommittee
  <2>11. CASE RegisterCommitteeKey
    BY <2>11 DEF RegisterCommitteeKey, registerCommitteeKey
  <2>12. CASE FinalizeCommittee
    BY <2>12 DEF FinalizeCommittee, finalizeCommittee
  <2>13. CASE SubmitDecryptedShare
    BY <2>13 DEF SubmitDecryptedShare, submitDecryptedShare
  <2>14. CASE UNCHANGED vars
    BY <2>14
  <2> QED
    BY <1>2, <2>1, <2>2, <2>3, <2>4, <2>5, <2>6, <2>7, <2>8, <2>9, <2>10,
       <2>11, <2>12, <2>13, <2>14 DEF Next
<1> QED
  BY <1>1, <1>2, PTL DEF Spec

-----------------------------------------------------------------------------
(* Which calls write which variables. *)
LEMMA Writers ==
  ASSUME [Next]_vars
  PROVE  /\ AnonJoin \/ UNCHANGED joinVars
         /\ CastVote \/ UNCHANGED voteVars
         /\ CommitTallyResult \/ UNCHANGED tallyVars
         /\ SetupCommittee \/ RegisterCommitteeKey \/ FinalizeCommittee
            \/ UNCHANGED committeeVars
         /\ SubmitDecryptedShare \/ UNCHANGED shareVars
         /\ SignUp \/ RegisterVoter \/ RegisterVoters \/ UNCHANGED signupGroup
         /\ CloseSignup \/ CloseVoting \/ UNCHANGED phaseVars
<1> USE DEF vars, config, phaseVars, joinVars, voteVars, tallyVars,
            committeeVars, shareVars
<1>1. CASE Tick
  BY <1>1 DEF Tick
<1>2. CASE SignUp
  BY <1>2 DEF SignUp, signUp, AddToRoll
<1>3. CASE RegisterVoter
  BY <1>3 DEF RegisterVoter, registerVoter, AddToRoll
<1>4. CASE RegisterVoters
  BY <1>4 DEF RegisterVoters, registerVoters, AddToRoll
<1>5. CASE CloseSignup
  BY <1>5 DEF CloseSignup, closeSignup
<1>6. CASE AnonJoin
  BY <1>6 DEF AnonJoin, anonJoin
<1>7. CASE CastVote
  BY <1>7 DEF CastVote, castVote
<1>8. CASE CloseVoting
  BY <1>8 DEF CloseVoting, closeVoting
<1>9. CASE CommitTallyResult
  BY <1>9 DEF CommitTallyResult, commitTallyResult
<1>10. CASE SetupCommittee
  BY <1>10 DEF SetupCommittee, setupCommittee
<1>11. CASE RegisterCommitteeKey
  BY <1>11 DEF RegisterCommitteeKey, registerCommitteeKey
<1>12. CASE FinalizeCommittee
  BY <1>12 DEF FinalizeCommittee, finalizeCommittee
<1>13. CASE SubmitDecryptedShare
  BY <1>13 DEF SubmitDecryptedShare, submitDecryptedShare
<1>14. CASE UNCHANGED vars
  BY <1>14
<1> QED
  BY <1>1, <1>2, <1>3, <1>4, <1>5, <1>6, <1>7, <1>8, <1>9, <1>10, <1>11,
     <1>12, <1>13, <1>14 DEF Next

(* The roll only grows, and only while signup is open. *)
LEMMA RollStep ==
  ASSUME [Next]_vars
  PROVE  /\ signupGroup \subseteq signupGroup'
         /\ signupGroup' # signupGroup => signupOpen
<1>1. CASE SignUp \/ RegisterVoter \/ RegisterVoters
  BY <1>1 DEF SignUp, RegisterVoter, RegisterVoters, signUp, registerVoter,
              registerVoters, AddToRoll, whenSignupOpen
<1> QED
  BY <1>1, Writers

(* Re-keying is one to one: a join needs a nullifier that has not been used *)
(* and a commitment the voting group does not hold, so it pairs two         *)
(* elements that were both unpaired.                                        *)
THEOREM OnePlace == Spec => []OnePlacePerVoter
<1>1. Init => OnePlacePerVoter
  BY DEF Init, OnePlacePerVoter
<1>2. ASSUME OnePlacePerVoter, [Next]_vars
      PROVE  OnePlacePerVoter'
  <2>1. CASE AnonJoin
    <3> PICK root \in SUBSET Voters, v \in Voters, id \in VotingIds :
               anonJoin(root, v, id)
      BY <2>1 DEF AnonJoin
    <3>1. /\ v \notin usedJoinNullifiers /\ id \notin votingGroup
          /\ v \in signupGroup
          /\ usedJoinNullifiers' = usedJoinNullifiers \cup {v}
          /\ votingGroup' = votingGroup \cup {id}
          /\ joined' = joined \cup {<<v, id>>}
          /\ signupGroup' = signupGroup
      BY DEF anonJoin, FreshJoinNullifier, NewLeaf, JoinProof, MerkleRoot
    <3>2. \A p \in joined : p[1] # v /\ p[2] # id
      BY <1>2, <3>1 DEF OnePlacePerVoter
    <3>3. \A p, q \in joined' : (p[1] = q[1] \/ p[2] = q[2]) => p = q
      BY <1>2, <3>1, <3>2 DEF OnePlacePerVoter
    <3> DEFINE event == <<v, id>>
    <3>0. joined' = joined \cup {event} /\ event[1] = v /\ event[2] = id
      BY <3>1
    <3> HIDE DEF event
    <3>4. {p[1] : p \in joined'} = {p[1] : p \in joined} \cup {v}
      BY <3>0
    <3>5. {p[2] : p \in joined'} = {p[2] : p \in joined} \cup {id}
      BY <3>0
    <3>6. usedJoinNullifiers' \subseteq signupGroup'
      BY <1>2, <3>1 DEF OnePlacePerVoter
    <3>7. usedJoinNullifiers' = {p[1] : p \in joined'}
      BY <1>2, <3>1, <3>4 DEF OnePlacePerVoter
    <3>8. votingGroup' = {p[2] : p \in joined'}
      BY <1>2, <3>1, <3>5 DEF OnePlacePerVoter
    <3> QED
      BY <3>3, <3>6, <3>7, <3>8 DEF OnePlacePerVoter
  <2>2. CASE UNCHANGED joinVars
    BY <1>2, <2>2, RollStep DEF OnePlacePerVoter, joinVars
  <2> QED
    BY <1>2, <2>1, <2>2, Writers
<1> QED
  BY <1>1, <1>2, PTL DEF Spec

-----------------------------------------------------------------------------
(* From the opening of voting on, the roll and the committee's variables,  *)
(* the election key among them, never change: every call that writes them  *)
(* requires signup to be open.                                             *)
THEOREM Frozen == Spec => FrozenAtOpening
<1>1. ASSUME [Next]_vars, ~signupOpen
      PROVE  UNCHANGED <<signupGroup, committeeVars>>
  <2>1. ~(SetupCommittee \/ RegisterCommitteeKey \/ FinalizeCommittee)
    BY <1>1 DEF SetupCommittee, RegisterCommitteeKey, FinalizeCommittee, setupCommittee,
                registerCommitteeKey, finalizeCommittee, whenSignupOpen
  <2>2. signupGroup' = signupGroup
    BY <1>1, RollStep
  <2> QED
    BY <1>1, <2>1, <2>2, Writers
<1>2. [Next]_vars => [~signupOpen => UNCHANGED <<signupGroup, committeeVars>>]_vars
  BY <1>1
<1> QED
  BY <1>2, PTL DEF Spec, FrozenAtOpening

(* A share or a tally on chain means that both phases are over; they stay  *)
(* over, since only an open signup can open voting.                        *)
ResultsAfterClose == hasSubmittedShare # {} \/ tallyCommitted => BothOver

LEMMA OverForGood ==
  ASSUME BothOver, [Next]_vars
  PROVE  BothOver' /\ UNCHANGED <<voteLog, votingGroup>>
<1>1. ~CloseSignup /\ ~CloseVoting
  BY DEF BothOver, CloseSignup, CloseVoting, closeSignup, closeVoting
<1>2. ~CastVote /\ ~AnonJoin
  BY DEF BothOver, CastVote, AnonJoin, castVote, anonJoin, whenVotingOpen
<1> QED
  BY <1>1, <1>2, Writers DEF BothOver, phaseVars, voteVars, joinVars

LEMMA ResultStep ==
  ASSUME ResultsAfterClose, [Next]_vars, hasSubmittedShare' # {} \/ tallyCommitted'
  PROVE  BothOver' /\ UNCHANGED <<voteLog, votingGroup>>
<1>1. CASE SubmitDecryptedShare
  BY <1>1, OverForGood DEF SubmitDecryptedShare, submitDecryptedShare
<1>2. CASE CommitTallyResult
  BY <1>2, OverForGood DEF CommitTallyResult, commitTallyResult
<1>3. CASE UNCHANGED <<tallyVars, shareVars>>
  BY <1>3, OverForGood DEF ResultsAfterClose, tallyVars, shareVars
<1> QED
  BY <1>1, <1>2, <1>3, Writers

(* Shares and results are on chain only once signup and voting are over    *)
(* (SpectreVoting.sol).                                                    *)
THEOREM ResultsLast == Spec => []ResultsAfterClose
<1>1. Init => ResultsAfterClose
  BY DEF Init, ResultsAfterClose
<1>2. ResultsAfterClose /\ [Next]_vars => ResultsAfterClose'
  BY ResultStep DEF ResultsAfterClose
<1> QED
  BY <1>1, <1>2, PTL DEF Spec

(* A step that stores the first share or the result finds voting over, and *)
(* leaves the ballots and the roll alone.                                  *)
THEOREM NoEarlyResult == Spec => NoResultBeforeClose
<1>1. ResultsAfterClose /\ [Next]_vars =>
        [hasSubmittedShare' # {} \/ tallyCommitted' =>
           /\ ~signupOpen' /\ ~votingOpen'
           /\ UNCHANGED <<voteLog, votingGroup>>]_vars
  BY ResultStep DEF BothOver
<1> QED
  BY <1>1, ResultsLast, PTL DEF Spec, NoResultBeforeClose

-----------------------------------------------------------------------------
(* The committee.  The contract counts keys but never members, so that a   *)
(* finalized list has no duplicate follows from counting: each distinct    *)
(* member registers at most once, and finalizing needs as many keys as the *)
(* list has entries.                                                       *)
Registered == {m \in Accounts : committeePublicKeys[m] # None}

LEMMA RegisteredFinite == IsFiniteSet(Registered)
  BY AccountsAssumption, FS_Subset DEF Registered

(* The inductive invariant: the counters agree, nothing is configured      *)
(* before setup, and what finalizing and closing signup checked still      *)
(* holds.                                                                  *)
CommitteeInv ==
  /\ CommitteeCountersAgree
  /\ committeeThreshold = 0 => committeeMembers = <<>> /\ ~committeeFinalized
  /\ committeeThreshold <= Len(committeeMembers)
  /\ committeeFinalized => /\ registeredKeyCount = Len(committeeMembers)
                           /\ electionPubKey # None
  /\ committeeThreshold > 0 /\ ~signupOpen => committeeFinalized

(* A member's key is counted when it is registered, and only then. *)
LEMMA KeysCounted ==
  ASSUME TypeOK, CommitteeInv, [Next]_vars
  PROVE  /\ registeredKeyCount' = Cardinality(Registered')
         /\ Registered' \subseteq isCommitteeMember'
         /\ isCommitteeMember \subseteq isCommitteeMember'
         /\ isCommitteeMember' = {committeeMembers'[i] : i \in DOMAIN committeeMembers'}
<1> USE DEF CommitteeInv, CommitteeCountersAgree
<1>1. CASE SetupCommittee
  <2>1. PICK s \in Accounts, list \in MemberLists :
          \E n \in 0 .. Len(list) + 1 : setupCommittee(s, n, list)
    BY <1>1 DEF SetupCommittee
  <2>2. /\ committeeMembers' = list
        /\ isCommitteeMember' = {list[i] : i \in DOMAIN list}
        /\ UNCHANGED <<committeePublicKeys, registeredKeyCount>>
        /\ committeeThreshold = 0
    BY <2>1 DEF setupCommittee
  <2>3. isCommitteeMember = {}
    BY <2>2
  <2> QED
    BY <2>2, <2>3 DEF Registered
<1>2. CASE RegisterCommitteeKey
  <2>1. PICK s \in Accounts, k \in PubKeys : registerCommitteeKey(s, k)
    BY <1>2 DEF RegisterCommitteeKey
  <2>2. /\ s \in isCommitteeMember /\ s \notin Registered
        /\ registeredKeyCount' = registeredKeyCount + 1
        /\ UNCHANGED <<isCommitteeMember, committeeMembers>>
    BY <2>1 DEF registerCommitteeKey, NoKeyYet, Registered
  <2>3. Registered' = Registered \cup {s}
    BY <2>1, NoneAssumption DEF registerCommitteeKey, Registered, TypeOK
  <2>4. Cardinality(Registered') = Cardinality(Registered) + 1
    BY <2>2, <2>3, RegisteredFinite, FS_AddElement
  <2> QED
    BY <2>2, <2>3, <2>4 DEF Registered
<1>3. CASE FinalizeCommittee \/ UNCHANGED committeeVars
  <2>1. UNCHANGED <<committeePublicKeys, registeredKeyCount, isCommitteeMember,
                    committeeMembers>>
    BY <1>3 DEF FinalizeCommittee, finalizeCommittee, committeeVars
  <2> QED
    BY <2>1 DEF Registered
<1> QED
  BY <1>1, <1>2, <1>3, Writers

(* So is a share. *)
LEMMA SharesCounted ==
  ASSUME TypeOK, CommitteeInv, [Next]_vars
  PROVE  /\ submittedShareCount' = Cardinality(hasSubmittedShare')
         /\ {m \in Accounts : decryptedShares'[m] # None} \subseteq hasSubmittedShare'
         /\ hasSubmittedShare' \subseteq isCommitteeMember'
<1> USE DEF CommitteeInv, CommitteeCountersAgree
<1>1. isCommitteeMember \subseteq isCommitteeMember'
  BY KeysCounted
<1>2. CASE SubmitDecryptedShare
  <2>1. PICK s \in Accounts, x \in Shares \cup {None} : submitDecryptedShare(s, x)
    BY <1>2 DEF SubmitDecryptedShare
  <2>2. /\ s \notin hasSubmittedShare /\ s \in isCommitteeMember
        /\ hasSubmittedShare' = hasSubmittedShare \cup {s}
        /\ submittedShareCount' = submittedShareCount + 1
        /\ decryptedShares' = [decryptedShares EXCEPT ![s] = x]
    BY <2>1 DEF submitDecryptedShare
  <2>3. IsFiniteSet(hasSubmittedShare)
    BY AccountsAssumption, FS_Subset DEF TypeOK
  <2>4. submittedShareCount' = Cardinality(hasSubmittedShare')
    BY <2>2, <2>3, FS_AddElement
  <2>5. {m \in Accounts : decryptedShares'[m] # None} \subseteq hasSubmittedShare'
    BY <2>2 DEF TypeOK
  <2> QED
    BY <1>1, <2>2, <2>4, <2>5
<1>3. CASE UNCHANGED shareVars
  BY <1>1, <1>3 DEF shareVars
<1> QED
  BY <1>2, <1>3, Writers

(* The checks of setupCommittee, finalizeCommittee and closeSignup are not *)
(* undone by any later call.                                               *)
LEMMA ChecksLast ==
  ASSUME TypeOK, CommitteeInv, [Next]_vars
  PROVE  /\ committeeThreshold' = 0 => committeeMembers' = <<>> /\ ~committeeFinalized'
         /\ committeeThreshold' <= Len(committeeMembers')
         /\ committeeFinalized' => /\ registeredKeyCount' = Len(committeeMembers')
                                   /\ electionPubKey' # None
         /\ committeeThreshold' > 0 /\ ~signupOpen' => committeeFinalized'
<1> USE DEF CommitteeInv
<1>1. CASE SetupCommittee
  <2>1. PICK s \in Accounts, list \in MemberLists :
          \E n \in 0 .. Len(list) + 1 : setupCommittee(s, n, list)
    BY <1>1 DEF SetupCommittee
  <2>2. PICK n \in 0 .. Len(list) + 1 : setupCommittee(s, n, list)
    BY <2>1
  <2> QED
    BY <2>2 DEF setupCommittee, whenSignupOpen, phaseVars
<1>2. CASE RegisterCommitteeKey
  BY <1>2 DEF RegisterCommitteeKey, registerCommitteeKey, whenSignupOpen, phaseVars
<1>3. CASE FinalizeCommittee
  BY <1>3, NoneAssumption DEF FinalizeCommittee, finalizeCommittee, AllKeysRegistered,
                              whenSignupOpen, phaseVars
<1>4. CASE CloseSignup
  BY <1>4 DEF CloseSignup, closeSignup, committeeVars
<1>5. CASE UNCHANGED <<committeeVars, signupOpen>>
  BY <1>5 DEF committeeVars
<1>6. CASE CloseVoting
  BY <1>6 DEF CloseVoting, closeVoting, committeeVars
<1> QED
  BY <1>1, <1>2, <1>3, <1>4, <1>5, <1>6, Writers DEF phaseVars

(* What the contract keeps of its committee: the inductive invariant behind*)
(* the theorems about it.                                                  *)
THEOREM CommitteeInvariant == Spec => []CommitteeInv
<1>1. Init => CommitteeInv
  <2> SUFFICES ASSUME Init PROVE CommitteeInv
    OBVIOUS
  <2>1. {m \in Accounts : committeePublicKeys[m] # None} = {}
    BY DEF Init
  <2>2. {m \in Accounts : decryptedShares[m] # None} = {}
    BY DEF Init
  <2>3. {committeeMembers[i] : i \in DOMAIN committeeMembers} = {}
    BY DEF Init
  <2>4. CommitteeCountersAgree
    BY <2>1, <2>2, <2>3, FS_EmptySet DEF Init, CommitteeCountersAgree
  <2> QED
    BY <2>4 DEF Init, CommitteeInv
<1>2. TypeOK /\ CommitteeInv /\ [Next]_vars => CommitteeInv'
  BY KeysCounted, SharesCounted, ChecksLast
     DEF CommitteeInv, CommitteeCountersAgree, Registered
<1> QED
  BY <1>1, <1>2, TypeCorrect, PTL DEF Spec

(* The counters beside the committee's mappings agree with them. *)
THEOREM CommitteeCounters == Spec => []CommitteeCountersAgree
<1>1. CommitteeInv => CommitteeCountersAgree
  BY DEF CommitteeInv
<1> QED
  BY <1>1, CommitteeInvariant, PTL

(* Once finalized, the registered members are as many as the list is long, *)
(* and are all on the list: the list names each of them once.              *)
LEMMA FullList ==
  ASSUME TypeOK, CommitteeInv, committeeFinalized
  PROVE  /\ Registered = isCommitteeMember
         /\ Cardinality(isCommitteeMember) = Len(committeeMembers)
         /\ \A i, j \in DOMAIN committeeMembers :
              committeeMembers[i] = committeeMembers[j] => i = j
<1> DEFINE n == Len(committeeMembers)
<1>0. n \in Nat /\ DOMAIN committeeMembers = 1 .. n /\ n = Len(committeeMembers)
  BY DEF TypeOK
<1> HIDE DEF n
<1>1. /\ isCommitteeMember = {committeeMembers[i] : i \in 1 .. n}
      /\ Cardinality(Registered) = n
      /\ Registered \subseteq isCommitteeMember
  BY <1>0 DEF CommitteeInv, CommitteeCountersAgree, Registered
<1>2. IsFiniteSet(1 .. n) /\ Cardinality(1 .. n) = n
  <2>1. n \in Int /\ 1 \in Int /\ n - 1 + 1 = n /\ (1 > n => n = 0)
    BY <1>0
  <2>2. IsFiniteSet(1 .. n) /\ Cardinality(1 .. n) = IF 1 > n THEN 0 ELSE n - 1 + 1
    BY <2>1, FS_Interval, Zenon
  <2> QED
    BY <2>1, <2>2
<1>3. committeeMembers \in Surjection(1 .. n, isCommitteeMember)
  BY <1>0, <1>1 DEF Surjection, TypeOK
<1>4. /\ IsFiniteSet(isCommitteeMember)
      /\ Cardinality(isCommitteeMember) <= n
      /\ Cardinality(isCommitteeMember) = n
           <=> committeeMembers \in Injection(1 .. n, isCommitteeMember)
  BY <1>2, <1>3, FS_Surjection
<1>5. /\ Cardinality(Registered) <= Cardinality(isCommitteeMember)
      /\ Cardinality(Registered) = Cardinality(isCommitteeMember)
           => Registered = isCommitteeMember
  BY <1>1, <1>4, FS_Subset
<1>6. Cardinality(isCommitteeMember) \in Nat
  BY <1>4, FS_CardinalityType
<1>7. Cardinality(isCommitteeMember) = n
  BY <1>0, <1>1, <1>4, <1>5, <1>6
<1> QED
  BY <1>0, <1>1, <1>4, <1>5, <1>7 DEF Injection, IsInjective

(* Voting under a committee starts with a key from each of a duplicate-    *)
(* free list of members, at least committeeThreshold of them.              *)
THEOREM CommitteeIsReady == Spec => []CommitteeReady
<1>1. TypeOK /\ CommitteeInv => CommitteeReady
  BY FullList DEF CommitteeReady, CommitteeInv, Registered
<1> QED
  BY <1>1, TypeCorrect, CommitteeInvariant, PTL

-----------------------------------------------------------------------------
(* The ballots.  Beside agreeing counters the invariant records that each  *)
(* event's base nullifier is the one its versioned nullifier belongs to,   *)
(* and that only members of the voting group have voted.                   *)
VoteInv ==
  /\ CountersAgree
  /\ IsFiniteSet(usedNullifiers) /\ IsFiniteSet(knownVoters)
  /\ \A i \in DOMAIN voteLog : voteLog[i].base = voteLog[i].nullifier[1]
  /\ knownVoters \subseteq votingGroup

(* What one castVote does. *)
LEMMA VoteStep ==
  ASSUME TypeOK, CastVote
  PROVE  \E id \in votingGroup, n \in VotingIds \X Versions, b \in Ballots :
           /\ n \notin usedNullifiers /\ n[1] = id
           /\ usedNullifiers' = usedNullifiers \cup {n}
           /\ knownVoters' = knownVoters \cup {id}
           /\ uniqueVoterCount' = IF id \in knownVoters THEN uniqueVoterCount
                                                        ELSE uniqueVoterCount + 1
           /\ voteCount' = voteCount + 1
           /\ voteLog' = Append(voteLog, [base |-> id, nullifier |-> n, ballot |-> b])
           /\ [base |-> id, nullifier |-> n, ballot |-> b] \in VoteEvents
           /\ signupOpen = signupOpen' /\ votingOpen = votingOpen' /\ votingOpen
           /\ UNCHANGED <<signupGroup, votingGroup, usedJoinNullifiers, joined, tallyCommitted>>
<1>1. PICK root \in SUBSET VotingIds, id \in VotingIds,
           n \in VotingIds \X Attempts, b \in Ballots : castVote(root, id, n, b)
  BY DEF CastVote
<1>2. /\ id \in votingGroup
      /\ n \in VotingIds \X Versions /\ n[1] = id
      /\ n \notin usedNullifiers
  BY <1>1 DEF castVote, VoteProof, MerkleRoot, FreshNullifier
<1>3. [base |-> id, nullifier |-> n, ballot |-> b] \in VoteEvents
  BY <1>2 DEF VoteEvents
<1>4. uniqueVoterCount' = IF id \in knownVoters THEN uniqueVoterCount
                                                ELSE uniqueVoterCount + 1
  BY <1>1 DEF castVote, TypeOK
<1> QED
  BY <1>1, <1>2, <1>3, <1>4
     DEF castVote, whenVotingOpen, phaseVars, joinVars, tallyVars

(* Appending an event: its nullifier is new, so the nullifiers of the log  *)
(* stay pairwise different.                                                *)
LEMMA AppendVote ==
  ASSUME NEW log \in Seq(VoteEvents), NEW e \in VoteEvents,
         \A i \in DOMAIN log : log[i].nullifier # e.nullifier,
         \A i, j \in DOMAIN log : log[i].nullifier = log[j].nullifier => i = j,
         NEW new, new = Append(log, e)
  PROVE  /\ Len(new) = Len(log) + 1
         /\ {new[i].nullifier : i \in DOMAIN new}
              = {log[i].nullifier : i \in DOMAIN log} \cup {e.nullifier}
         /\ \A i, j \in DOMAIN new : new[i].nullifier = new[j].nullifier => i = j
<1>1. /\ Len(new) = Len(log) + 1 /\ Len(log) \in Nat
      /\ DOMAIN new = 1 .. Len(log) + 1 /\ DOMAIN log = 1 .. Len(log)
      /\ new[Len(log) + 1] = e
      /\ \A i \in DOMAIN log : new[i] = log[i]
  OBVIOUS
<1>2. {new[i].nullifier : i \in DOMAIN new}
        = {log[i].nullifier : i \in DOMAIN log} \cup {e.nullifier}
  <2>1. \A i \in DOMAIN new : i = Len(log) + 1 \/ i \in DOMAIN log
    BY <1>1
  <2>2. Len(log) + 1 \in DOMAIN new /\ DOMAIN log \subseteq DOMAIN new
    BY <1>1
  <2>3. ASSUME NEW x \in {new[i].nullifier : i \in DOMAIN new}
        PROVE  x \in {log[i].nullifier : i \in DOMAIN log} \cup {e.nullifier}
    <3> PICK i \in DOMAIN new : x = new[i].nullifier
      OBVIOUS
    <3> QED
      BY <1>1, <2>1, Zenon
  <2>4. ASSUME NEW x \in {log[i].nullifier : i \in DOMAIN log}
        PROVE  x \in {new[i].nullifier : i \in DOMAIN new}
    <3> PICK i \in DOMAIN log : x = log[i].nullifier
      OBVIOUS
    <3> QED
      BY <1>1, <2>2, Zenon
  <2>5. e.nullifier \in {new[i].nullifier : i \in DOMAIN new}
    BY <1>1, <2>2, Zenon
  <2> QED
    BY <2>3, <2>4, <2>5, Zenon
<1>3. \A i, j \in DOMAIN new : new[i].nullifier = new[j].nullifier => i = j
  BY <1>1
<1> QED
  BY <1>1, <1>2, <1>3

(* What the contract keeps of the ballots: the inductive invariant behind  *)
(* the theorems about them.                                                *)
THEOREM VoteInvariant == Spec => []VoteInv
<1>1. Init => VoteInv
  <2> SUFFICES ASSUME Init PROVE VoteInv
    OBVIOUS
  <2>1. voteLog = <<>> /\ usedNullifiers = {} /\ knownVoters = {}
        /\ voteCount = 0 /\ uniqueVoterCount = 0
    BY DEF Init
  <2>2. /\ {n[1] : n \in usedNullifiers} = {}
        /\ {voteLog[i].nullifier : i \in DOMAIN voteLog} = {}
        /\ Len(voteLog) = 0 /\ DOMAIN voteLog = {}
    BY <2>1
  <2> QED
    BY <2>1, <2>2, FS_EmptySet DEF VoteInv, CountersAgree
<1>2. ASSUME TypeOK, VoteInv, [Next]_vars
      PROVE  VoteInv'
  <2> USE DEF VoteInv, CountersAgree
  <2>1. CASE CastVote
    <3>1. PICK id \in votingGroup, n \in VotingIds \X Versions, b \in Ballots :
           /\ n \notin usedNullifiers /\ n[1] = id
           /\ usedNullifiers' = usedNullifiers \cup {n}
           /\ knownVoters' = knownVoters \cup {id}
           /\ uniqueVoterCount' = IF id \in knownVoters THEN uniqueVoterCount
                                                        ELSE uniqueVoterCount + 1
           /\ voteCount' = voteCount + 1
           /\ voteLog' = Append(voteLog, [base |-> id, nullifier |-> n, ballot |-> b])
           /\ [base |-> id, nullifier |-> n, ballot |-> b] \in VoteEvents
           /\ UNCHANGED votingGroup
      BY <1>2, <2>1, VoteStep
    <3> DEFINE e == [base |-> id, nullifier |-> n, ballot |-> b]
    <3>2. e \in VoteEvents /\ e.base = id /\ e.nullifier = n
          /\ voteLog' = Append(voteLog, e) /\ voteLog \in Seq(VoteEvents)
      BY <1>2, <3>1 DEF TypeOK
    <3> HIDE DEF e
    <3>3. \A i \in DOMAIN voteLog : voteLog[i].nullifier # e.nullifier
      BY <1>2, <3>1, <3>2
    <3>4. /\ Len(voteLog') = Len(voteLog) + 1
          /\ {voteLog'[i].nullifier : i \in DOMAIN voteLog'}
               = {voteLog[i].nullifier : i \in DOMAIN voteLog} \cup {n}
          /\ \A i, j \in DOMAIN voteLog' :
               voteLog'[i].nullifier = voteLog'[j].nullifier => i = j
      <4>1. \A i, j \in DOMAIN voteLog :
              voteLog[i].nullifier = voteLog[j].nullifier => i = j
        BY <1>2
      <4> HIDE DEF VoteInv, CountersAgree
      <4>2. voteLog \in Seq(VoteEvents) /\ e \in VoteEvents /\ voteLog' = Append(voteLog, e)
        BY <3>2
      <4>3. /\ Len(voteLog') = Len(voteLog) + 1
            /\ {voteLog'[i].nullifier : i \in DOMAIN voteLog'}
                 = {voteLog[i].nullifier : i \in DOMAIN voteLog} \cup {e.nullifier}
            /\ \A i, j \in DOMAIN voteLog' :
                 voteLog'[i].nullifier = voteLog'[j].nullifier => i = j
        BY <3>3, <4>1, <4>2, AppendVote
      <4>4. e.nullifier = n
        BY <3>2
      <4> QED
        BY <4>3, <4>4
    <3>5. \A i \in DOMAIN voteLog' : voteLog'[i].base = voteLog'[i].nullifier[1]
      BY <1>2, <3>1, <3>2
    <3>6. /\ IsFiniteSet(usedNullifiers')
          /\ Cardinality(usedNullifiers') = Cardinality(usedNullifiers) + 1
      BY <1>2, <3>1, FS_AddElement
    <3>7. /\ IsFiniteSet(knownVoters')
          /\ Cardinality(knownVoters')
               = IF id \in knownVoters THEN Cardinality(knownVoters)
                                       ELSE Cardinality(knownVoters) + 1
      BY <1>2, <3>1, FS_AddElement
    <3>8. knownVoters' = {m[1] : m \in usedNullifiers'}
      BY <1>2, <3>1
    <3>9. knownVoters' \subseteq votingGroup'
      BY <1>2, <3>1
    <3>10. voteCount' = Len(voteLog') /\ voteCount' = Cardinality(usedNullifiers')
           /\ uniqueVoterCount' = Cardinality(knownVoters')
      BY <1>2, <3>1, <3>4, <3>6, <3>7
    <3>11. usedNullifiers' = {voteLog'[i].nullifier : i \in DOMAIN voteLog'}
      BY <1>2, <3>1, <3>4
    <3> QED
      BY <3>4, <3>5, <3>6, <3>7, <3>8, <3>9, <3>10, <3>11
  <2>2. CASE UNCHANGED voteVars
    <3>1. votingGroup \subseteq votingGroup'
      BY <1>2, Writers DEF AnonJoin, anonJoin, joinVars
    <3> QED
      BY <1>2, <2>2, <3>1 DEF voteVars
  <2> QED
    BY <1>2, <2>1, <2>2, Writers
<1> QED
  BY <1>1, <1>2, TypeCorrect, PTL DEF Spec

(* The counters agree with the mappings and the events. *)
THEOREM Counters == Spec => []CountersAgree
<1>1. VoteInv => CountersAgree
  BY DEF VoteInv
<1> QED
  BY <1>1, VoteInvariant, PTL

(* OnePlacePerVoter, stated for pairs. *)
LEMMA JoinedPairs ==
  ASSUME OnePlacePerVoter
  PROVE  /\ \A v, id : <<v, id>> \in joined => v \in usedJoinNullifiers /\ id \in votingGroup
         /\ \A v, i, j : <<v, i>> \in joined /\ <<v, j>> \in joined => i = j
         /\ \A v, w, i : <<v, i>> \in joined /\ <<w, i>> \in joined => v = w
<1>1. ASSUME NEW v, NEW id, <<v, id>> \in joined
      PROVE  v \in usedJoinNullifiers /\ id \in votingGroup
  <2> DEFINE p == <<v, id>>
  <2>1. p \in joined /\ p[1] = v /\ p[2] = id
    BY <1>1
  <2> HIDE DEF p
  <2> QED
    BY <2>1 DEF OnePlacePerVoter
<1>2. ASSUME NEW v, NEW w, NEW i, NEW j, <<v, i>> \in joined, <<w, j>> \in joined,
             v = w \/ i = j
      PROVE  v = w /\ i = j
  <2> DEFINE p == <<v, i>>
             q == <<w, j>>
  <2>1. /\ p \in joined /\ p[1] = v /\ p[2] = i
        /\ q \in joined /\ q[1] = w /\ q[2] = j
    BY <1>2
  <2> HIDE DEF p, q
  <2>2. p = q
    BY <1>2, <2>1 DEF OnePlacePerVoter
  <2> QED
    BY <2>1, <2>2
<1> QED
  BY <1>1, <1>2

(* Distinct voting identities that have voted were joined by distinct      *)
(* registered voters, so there are no more of them than names on the roll. *)
LEMMA TurnoutWithinRoll ==
  ASSUME TypeOK, OnePlacePerVoter, VoteInv
  PROVE  uniqueVoterCount <= Cardinality(signupGroup)
<1> DEFINE f == [id \in knownVoters |-> CHOOSE v \in Voters : <<v, id>> \in joined]
<1>1. ASSUME NEW id \in knownVoters
      PROVE  /\ f[id] \in signupGroup
             /\ <<f[id], id>> \in joined
  <2>1. id \in {p[2] : p \in joined}
    BY DEF VoteInv, OnePlacePerVoter
  <2>2. PICK p \in joined : p[2] = id
    BY <2>1
  <2>3. p = <<p[1], id>> /\ p[1] \in Voters
    BY <2>2 DEF TypeOK
  <2>4. f[id] \in Voters /\ <<f[id], id>> \in joined
    BY <2>3
  <2>5. f[id] \in usedJoinNullifiers
    BY <2>4, JoinedPairs
  <2> QED
    BY <2>4, <2>5 DEF OnePlacePerVoter
<1>6. f \in [knownVoters -> signupGroup]
  BY <1>1
<1>2. \A i, j \in knownVoters : f[i] = f[j] => i = j
  <2> HIDE DEF f
  <2> QED
    BY <1>1, JoinedPairs
<1> HIDE DEF f
<1>3. f \in Injection(knownVoters, signupGroup)
  BY <1>2, <1>6 DEF Injection, IsInjective
<1>4. IsFiniteSet(signupGroup)
  BY VotersAssumption, FS_Subset DEF TypeOK
<1>5. Cardinality(knownVoters) <= Cardinality(signupGroup)
  BY <1>3, <1>4, FS_Injection
<1> QED
  BY <1>5 DEF VoteInv, CountersAgree

(* The events of one identity carry different versions. *)
LEMMA OneVotePerVersion ==
  ASSUME TypeOK, VoteInv, NEW id \in VotingIds
  PROVE  Cardinality({i \in DOMAIN voteLog : voteLog[i].base = id}) <= Cardinality(Versions)
<1> DEFINE V == {i \in DOMAIN voteLog : voteLog[i].base = id}
           g == [i \in V |-> voteLog[i].nullifier[2]]
<1>1. \A i \in DOMAIN voteLog : voteLog[i] \in VoteEvents
  BY DEF TypeOK
<1>2. \A i \in V : /\ voteLog[i].nullifier[2] \in Versions
                   /\ voteLog[i].nullifier = <<id, voteLog[i].nullifier[2]>>
  BY <1>1 DEF VoteEvents, VoteInv
<1>3. g \in [V -> Versions]
  BY <1>2
<1>4. \A i, j \in V : g[i] = g[j] => i = j
  BY <1>2 DEF VoteInv, CountersAgree
<1> HIDE DEF g, V
<1>5. g \in Injection(V, Versions)
  BY <1>3, <1>4 DEF Injection, IsInjective
<1> QED
  BY <1>5, VersionsAssumption, FS_Injection DEF V

(* The turnout stays within the roll, and a voter within her versions. *)
THEOREM Turnout == Spec => []TurnoutBounded
<1>1. TypeOK /\ OnePlacePerVoter /\ VoteInv => TurnoutBounded
  BY TurnoutWithinRoll, OneVotePerVersion DEF TurnoutBounded, VoteInv
<1> QED
  BY <1>1, TypeCorrect, OnePlace, VoteInvariant, PTL

-----------------------------------------------------------------------------
(* The ballot that counts for an identity in a log. *)
VotesIn(log, id) == {i \in DOMAIN log : log[i].base = id}

LEMMA LastVote ==
  ASSUME NEW log \in Seq(VoteEvents), NEW id, VotesIn(log, id) # {}
  PROVE  \E i \in VotesIn(log, id) : \A j \in VotesIn(log, id) : j <= i
<1> DEFINE n == Len(log)
           R == StrictSubsetOrdering(1 .. n)
           after == {(i + 1) .. n : i \in VotesIn(log, id)}
<1>1. n \in Nat /\ DOMAIN log = 1 .. n
  OBVIOUS
<1> HIDE DEF n
<1>2. \A i \in VotesIn(log, id) : i \in 1 .. n
  BY <1>1 DEF VotesIn
<1>3. after \subseteq FiniteSubsetsOf(1 .. n) /\ after # {}
  <2>1. ASSUME NEW i \in VotesIn(log, id)
        PROVE  IsFiniteSet((i + 1) .. n) /\ (i + 1) .. n \subseteq 1 .. n
    <3>1. i + 1 \in Int /\ n \in Int /\ i \in 1 .. n
      BY <1>1, <1>2
    <3> QED
      BY <3>1, FS_Interval
  <2> QED
    BY <2>1 DEF FiniteSubsetsOf
<1>4. IsWellFoundedOn(R, FiniteSubsetsOf(1 .. n))
  BY FS_StrictSubsetOrderingWellFounded
<1> HIDE DEF R
<1>5. PICK m \in after : \A k \in after : <<k, m>> \notin R
  BY <1>3, <1>4, WFMin
<1>6. PICK i \in VotesIn(log, id) : m = (i + 1) .. n
  OBVIOUS
<1>7. ASSUME NEW j \in VotesIn(log, id), j > i
      PROVE  FALSE
  <2> DEFINE k == (j + 1) .. n
  <2>1. j \in (i + 1) .. n /\ j \notin k /\ k \subseteq (i + 1) .. n
    BY <1>1, <1>2, <1>7
  <2>2. k \subseteq m /\ k # m /\ m \subseteq 1 .. n
    BY <1>1, <1>2, <1>6, <2>1
  <2>3. <<k, m>> \in R
    BY <2>2 DEF R, StrictSubsetOrdering
  <2> QED
    BY <1>5, <2>3
<1>8. \A j \in VotesIn(log, id) : j <= i
  BY <1>1, <1>2, <1>7
<1> QED
  BY <1>8

(* The position of an identity's last event. *)
Last(log, id) == CHOOSE i \in VotesIn(log, id) : \A j \in VotesIn(log, id) : j <= i

(* The append is named, so that the lemma below applies to voteLog'. *)
IsAppend(new, log, e) == new = Append(log, e)

(* An appended event is the last one of its own identity and leaves the    *)
(* last ones of all others where they are.                                 *)
LEMMA AppendIsLast ==
  \A log \in Seq(VoteEvents), e \in VoteEvents :
    \A id, new :
      IsAppend(new, log, e) =>
        /\ e.base = id => /\ VotesIn(new, id) # {}
                          /\ new[Last(new, id)] = e
        /\ e.base # id => /\ VotesIn(new, id) = VotesIn(log, id)
                          /\ VotesIn(log, id) # {} =>
                               new[Last(new, id)] = log[Last(log, id)]
<1> SUFFICES ASSUME NEW log \in Seq(VoteEvents), NEW e \in VoteEvents, NEW id,
                    NEW new, IsAppend(new, log, e)
             PROVE  /\ e.base = id => /\ VotesIn(new, id) # {}
                                      /\ new[Last(new, id)] = e
                    /\ e.base # id => /\ VotesIn(new, id) = VotesIn(log, id)
                                      /\ VotesIn(log, id) # {} =>
                                           new[Last(new, id)] = log[Last(log, id)]
  BY Zenon
<1> DEFINE n == Len(log)
<1>1. /\ n \in Nat /\ DOMAIN log = 1 .. n /\ DOMAIN new = 1 .. n + 1
      /\ new[n + 1] = e
      /\ \A i \in DOMAIN log : new[i] = log[i]
  BY DEF IsAppend
<1> HIDE DEF n
<1>2. ASSUME e.base = id
      PROVE  VotesIn(new, id) # {} /\ new[Last(new, id)] = e
  <2>1. n + 1 \in VotesIn(new, id)
    BY <1>1, <1>2 DEF VotesIn
  <2>2. \A j \in VotesIn(new, id) : j \in 1 .. n + 1
    BY <1>1 DEF VotesIn
  <2>3. \E i \in VotesIn(new, id) : \A j \in VotesIn(new, id) : j <= i
    BY <1>1, <2>1, <2>2
  <2>4. /\ Last(new, id) \in VotesIn(new, id)
        /\ \A j \in VotesIn(new, id) : j <= Last(new, id)
    BY <2>3 DEF Last
  <2>5. Last(new, id) = n + 1
    BY <1>1, <2>1, <2>2, <2>4
  <2> QED
    BY <1>1, <2>1, <2>5
<1>3. ASSUME e.base # id
      PROVE  VotesIn(new, id) = VotesIn(log, id)
  BY <1>1, <1>3 DEF VotesIn
<1>4. ASSUME e.base # id, VotesIn(log, id) # {}
      PROVE  new[Last(new, id)] = log[Last(log, id)]
  <2>1. Last(new, id) = Last(log, id)
    BY <1>3, <1>4 DEF Last
  <2>2. Last(log, id) \in VotesIn(log, id)
    BY <1>4, LastVote DEF Last
  <2> QED
    BY <1>1, <2>1, <2>2 DEF VotesIn
<1> QED
  BY <1>2, <1>3, <1>4

(* EffectiveBallot as an operator of the log and the joins it reads, so    *)
(* that its values before and after a step can be compared.                *)
LastIn(log, id) == IF VotesIn(log, id) = {} THEN None ELSE log[Last(log, id)].ballot
IdentityIn(pairs, v) == CHOOSE id \in VotingIds : <<v, id>> \in pairs
BallotIn(log, pairs, used, v) ==
  IF v \in used THEN LastIn(log, IdentityIn(pairs, v)) ELSE None

Ballot == [v \in Voters |-> EffectiveBallot(v)]

LEMMA BallotsRead ==
  /\ Ballot = [v \in Voters |-> BallotIn(voteLog, joined, usedJoinNullifiers, v)]
  /\ Ballot' = [v \in Voters |-> BallotIn(voteLog', joined', usedJoinNullifiers', v)]
BY DEF Ballot, EffectiveBallot, LastBallot, VotesOf, BallotIn, LastIn, IdentityIn,
       VotesIn, Last

(* A voter's ballot is found through the one identity she joined with. *)
LEMMA ChosenIdentity ==
  ASSUME NEW pairs, NEW v, NEW id \in VotingIds, <<v, id>> \in pairs,
         \A i, j : <<v, i>> \in pairs /\ <<v, j>> \in pairs => i = j
  PROVE  IdentityIn(pairs, v) = id
BY DEF IdentityIn

LEMMA JoinedIdentity ==
  ASSUME TypeOK, OnePlacePerVoter, NEW v \in usedJoinNullifiers
  PROVE  /\ IdentityIn(joined, v) \in VotingIds
         /\ <<v, IdentityIn(joined, v)>> \in joined
<1>1. PICK p \in joined : p[1] = v
  BY DEF OnePlacePerVoter
<1>2. p = <<v, p[2]>> /\ p[2] \in VotingIds
  BY <1>1 DEF TypeOK
<1> QED
  BY <1>1, <1>2 DEF IdentityIn

(* An identity outside the voting group has no ballot. *)
LEMMA NoBallotYet ==
  ASSUME TypeOK, VoteInv, NEW id \in VotingIds, id \notin votingGroup
  PROVE  LastIn(voteLog, id) = None
<1>1. ASSUME NEW i \in DOMAIN voteLog
      PROVE  voteLog[i].base # id
  <2>1. voteLog[i].nullifier \in usedNullifiers
    BY DEF VoteInv, CountersAgree
  <2>2. voteLog[i].nullifier[1] \in knownVoters
    BY <2>1 DEF VoteInv, CountersAgree
  <2> QED
    BY <2>2 DEF VoteInv
<1> QED
  BY <1>1 DEF LastIn, VotesIn

-----------------------------------------------------------------------------
(* Calls that touch neither the joins nor the log leave every ballot.      *)
LEMMA SameBallots ==
  ASSUME UNCHANGED <<joinVars, voteVars>>
  PROVE  Ballot' = Ballot
BY BallotsRead DEF joinVars, voteVars

(* A join gives the voter an identity that nobody has voted with.          *)
LEMMA JoinKeepsBallots ==
  ASSUME TypeOK, OnePlacePerVoter, VoteInv, AnonJoin
  PROVE  Ballot' = Ballot
<1> PICK root \in SUBSET Voters, v \in Voters, id \in VotingIds : anonJoin(root, v, id)
  BY DEF AnonJoin
<1>1. /\ v \notin usedJoinNullifiers /\ id \notin votingGroup
      /\ usedJoinNullifiers' = usedJoinNullifiers \cup {v}
      /\ joined' = joined \cup {<<v, id>>}
      /\ voteLog' = voteLog
  BY DEF anonJoin, FreshJoinNullifier, NewLeaf, voteVars
<1>2. ASSUME NEW w \in Voters
      PROVE  BallotIn(voteLog, joined', usedJoinNullifiers', w)
               = BallotIn(voteLog, joined, usedJoinNullifiers, w)
  <2>1. CASE w = v
    <3>1. \A i, j : <<v, i>> \in joined' /\ <<v, j>> \in joined' => i = j
      BY <1>1, JoinedPairs
    <3>2. <<v, id>> \in joined'
      BY <1>1
    <3>3. IdentityIn(joined', v) = id
      BY <3>1, <3>2 DEF IdentityIn
    <3> QED
      BY <1>1, <2>1, <3>3, NoBallotYet DEF BallotIn
  <2>2. CASE w # v
    <3>1. \A x : <<w, x>> \in joined' <=> <<w, x>> \in joined
      BY <1>1, <2>2
    <3>2. IdentityIn(joined', w) = IdentityIn(joined, w)
      BY <3>1 DEF IdentityIn
    <3> QED
      BY <1>1, <2>2, <3>2 DEF BallotIn
  <2> QED
    BY <2>1, <2>2
<1> QED
  BY <1>1, <1>2, BallotsRead

(* A vote replaces the ballot of exactly one registered voter. *)
LEMMA VoteReplacesBallot ==
  ASSUME TypeOK, OnePlacePerVoter, VoteInv, CastVote
  PROVE  \E v \in signupGroup, b \in Ballots : Ballot' = [Ballot EXCEPT ![v] = b]
<1>1. PICK id \in votingGroup, n \in VotingIds \X Versions, b \in Ballots :
        /\ voteLog' = Append(voteLog, [base |-> id, nullifier |-> n, ballot |-> b])
        /\ [base |-> id, nullifier |-> n, ballot |-> b] \in VoteEvents
        /\ UNCHANGED <<usedJoinNullifiers, joined>>
  BY VoteStep
<1>a. PICK log, new, e :
        /\ log = voteLog /\ new = voteLog'
        /\ e = [base |-> id, nullifier |-> n, ballot |-> b]
  OBVIOUS
<1>2. /\ log \in Seq(VoteEvents) /\ e \in VoteEvents /\ e.base = id /\ e.ballot = b
      /\ IsAppend(new, log, e)
  BY <1>1, <1>a DEF TypeOK, IsAppend
<1>3. LastIn(new, id) = b
  <2>1. VotesIn(new, id) # {} /\ new[Last(new, id)] = e
    BY <1>2, AppendIsLast
  <2> QED
    BY <1>2, <2>1 DEF LastIn
<1>4. ASSUME NEW i, i # id
      PROVE  LastIn(new, i) = LastIn(log, i)
  <2>1. e.base # i
    BY <1>2, <1>4
  <2>2. /\ VotesIn(new, i) = VotesIn(log, i)
        /\ VotesIn(log, i) # {} => new[Last(new, i)] = log[Last(log, i)]
    BY <1>2, <2>1, AppendIsLast
  <2> QED
    BY <2>2 DEF LastIn
<1>5. PICK p \in joined : p[2] = id
  BY DEF OnePlacePerVoter
<1>6. PICK v \in Voters : p = <<v, id>>
  BY <1>5 DEF TypeOK
<1>7. <<v, id>> \in joined /\ v \in usedJoinNullifiers /\ v \in signupGroup
  BY <1>5, <1>6, JoinedPairs DEF OnePlacePerVoter
<1>8. ASSUME NEW w \in Voters
      PROVE  BallotIn(new, joined, usedJoinNullifiers, w)
               = IF w = v THEN b ELSE BallotIn(log, joined, usedJoinNullifiers, w)
  <2>1. CASE w \notin usedJoinNullifiers
    BY <1>7, <2>1 DEF BallotIn
  <2>2. CASE w \in usedJoinNullifiers
    <3>1. <<w, IdentityIn(joined, w)>> \in joined
      BY <2>2, JoinedIdentity
    <3>2. w = v <=> IdentityIn(joined, w) = id
      BY <1>7, <3>1, JoinedPairs
    <3> QED
      BY <1>3, <1>4, <2>2, <3>2 DEF BallotIn
  <2> QED
    BY <2>1, <2>2
<1>9. Ballot' = [w \in Voters |-> BallotIn(new, joined, usedJoinNullifiers, w)]
  BY <1>1, <1>a, BallotsRead
<1> QED
  BY <1>a, <1>6, <1>7, <1>8, <1>9, BallotsRead

-----------------------------------------------------------------------------
(* The phases move as the ballot box's do. *)
LEMMA PhaseStep ==
  ASSUME TypeOK, [Next]_vars
  PROVE  /\ CloseSignup => Phase = "signup" /\ Phase' = "voting"
         /\ CloseVoting /\ ~signupOpen => Phase = "voting" /\ Phase' = "closed"
         /\ ~CloseSignup /\ ~CloseVoting => Phase' = Phase
         /\ signupGroup' # signupGroup => Phase = "signup"
<1>1. ~CloseSignup /\ ~CloseVoting => Phase' = Phase
  BY Writers DEF Phase, phaseVars
<1>2. signupGroup' # signupGroup => Phase = "signup"
  BY RollStep DEF Phase
<1>3. CloseSignup => Phase = "signup" /\ Phase' = "voting"
  BY DEF Phase, CloseSignup, closeSignup
<1>4. CloseVoting /\ ~signupOpen => Phase = "voting" /\ Phase' = "closed"
  BY DEF Phase, CloseVoting, closeVoting
<1> QED
  BY <1>1, <1>2, <1>3, <1>4

(* Signup and voting are never open together. *)
PhasesDisjoint == ~(signupOpen /\ votingOpen)

(* closeSignup opens the vote when it ends the signup, so the two phases   *)
(* never overlap.                                                          *)
THEOREM OnePhase == Spec => []PhasesDisjoint
<1>1. Init => PhasesDisjoint
  BY DEF Init, PhasesDisjoint
<1>2. PhasesDisjoint /\ [Next]_vars => PhasesDisjoint'
  BY Writers DEF PhasesDisjoint, CloseSignup, closeSignup, CloseVoting, closeVoting,
                 phaseVars
<1> QED
  BY <1>1, <1>2, PTL DEF Spec

LEMMA StepRefines ==
  ASSUME TypeOK, OnePlacePerVoter, VoteInv, PhasesDisjoint,
         OnePlacePerVoter', TypeOK', [Next]_vars
  PROVE  [Box!Next]_(Box!vars)
<1> USE DEF Box!vars
<1>1. CASE SignUp \/ RegisterVoter \/ RegisterVoters
  <2>1. /\ signupOpen /\ UNCHANGED <<phaseVars, joinVars, voteVars, tallyVars>>
    BY <1>1 DEF SignUp, RegisterVoter, RegisterVoters, signUp, registerVoter,
                registerVoters, AddToRoll, whenSignupOpen
  <2>2. Phase = "signup" /\ Phase' = Phase /\ Ballot' = Ballot
        /\ tallyCommitted' = tallyCommitted
    BY <2>1, SameBallots DEF Phase, phaseVars, tallyVars
  <2>3. signupGroup' \in SUBSET Voters /\ signupGroup' = signupGroup \cup signupGroup'
    BY RollStep DEF TypeOK
  <2> QED
    BY <2>2, <2>3 DEF Box!Next, Box!Register, Ballot
<1>2. CASE CloseSignup
  <2>1. UNCHANGED <<signupGroup, joinVars, voteVars, tallyVars>>
    BY <1>2 DEF CloseSignup, closeSignup
  <2> QED
    BY <1>2, <2>1, SameBallots, PhaseStep DEF Box!Next, Box!Open, Ballot, tallyVars
<1>3. CASE AnonJoin
  <2>1. UNCHANGED <<phaseVars, signupGroup, tallyVars>>
    BY <1>3 DEF AnonJoin, anonJoin
  <2> QED
    BY <1>3, <2>1, JoinKeepsBallots DEF Ballot, Phase, phaseVars, tallyVars
<1>4. CASE CastVote
  <2>1. PICK v \in signupGroup, b \in Ballots : Ballot' = [Ballot EXCEPT ![v] = b]
    BY <1>4, VoteReplacesBallot
  <2>2. /\ UNCHANGED <<phaseVars, signupGroup, tallyVars>>
        /\ votingOpen /\ v \in Voters
    BY <1>4 DEF CastVote, castVote, whenVotingOpen, TypeOK
  <2>3. Phase = "voting" /\ Phase' = Phase
    BY <2>2 DEF Phase, phaseVars, PhasesDisjoint
  <2> QED
    BY <2>1, <2>2, <2>3 DEF Box!Next, Box!Vote, Ballot, tallyVars
<1>5. CASE CloseVoting
  <2>1. UNCHANGED <<signupGroup, joinVars, voteVars, tallyVars>> /\ votingOpen
    BY <1>5 DEF CloseVoting, closeVoting
  <2>2. Phase = "voting" /\ Phase' = "closed"
    BY <1>5, <2>1, PhaseStep DEF PhasesDisjoint
  <2> QED
    BY <2>1, <2>2, SameBallots DEF Box!Next, Box!Close, Ballot, tallyVars
<1>6. CASE CommitTallyResult
  <2>1. /\ UNCHANGED <<phaseVars, signupGroup, joinVars, voteVars>>
        /\ ~signupOpen /\ ~votingOpen /\ ~tallyCommitted /\ tallyCommitted' = TRUE
    BY <1>6 DEF CommitTallyResult, commitTallyResult, BothOver
  <2>2. Phase = "closed" /\ Phase' = Phase /\ Ballot' = Ballot
    BY <2>1, SameBallots DEF Phase, phaseVars
  <2> QED
    BY <2>1, <2>2 DEF Box!Next, Box!Publish, Ballot
<1>7. CASE UNCHANGED <<phaseVars, signupGroup, joinVars, voteVars, tallyVars>>
  BY <1>7, SameBallots DEF Ballot, Phase, phaseVars, tallyVars
<1> QED
  BY <1>1, <1>2, <1>3, <1>4, <1>5, <1>6, <1>7, Writers

(* Every behaviour of the contract is, seen through the mapping, one of    *)
(* the ballot box.                                                         *)
THEOREM Refinement == Spec => ImplementsBallotBox
<1>1. Init => Box!Init
  BY DEF Init, Box!Init, Phase, EffectiveBallot
<1>2. ASSUME TypeOK, OnePlacePerVoter, VoteInv, PhasesDisjoint,
             TypeOK', OnePlacePerVoter', [Next]_vars
      PROVE  [Box!Next]_(Box!vars)
  BY <1>2, StepRefines
<1> QED
  BY <1>1, <1>2, TypeCorrect, OnePlace, VoteInvariant, OnePhase, PTL
     DEF Spec, ImplementsBallotBox, Box!Spec
=============================================================================
