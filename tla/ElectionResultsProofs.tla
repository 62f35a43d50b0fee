----------------------- MODULE ElectionResultsProofs ------------------------
(***************************************************************************)
(* The committee of an election and the page for the results, modules      *)
(* ElectionCommittee and ElectionResults, for every committee and          *)
(* threshold, every number of keys, ceremonies, ballots and tallies.       *)
(*                                                                         *)
(* ResultsInv is the inductive invariant. Its parts: the types; what a call*)
(* in progress or under way holds (ContentsOK); that a member who never    *)
(* drew a key beside another has the registered one in its browser         *)
(* (KeysOK); that a ceremony past its reading has read registered keys, and*)
(* deals one key to all of them (DealsOK); that every ceremony on the log  *)
(* is such a dealing of the key of the election (FinalOK), which stays so  *)
(* because keys are registered once and one ceremony at most is finalized; *)
(* and what the page has read (PageOK). The safety properties of the       *)
(* ceremony then follow from the theorems about sharing.                   *)
(*                                                                         *)
(* SoundInv is the inductive invariant of the results, ResultsInv with     *)
(* TallyInv: ballots are under the key of the election (BallotsOK), which  *)
(* no ceremony replaces once it was published (SingleOK); a running tally  *)
(* has the shares that are on chain and the ballots of the log as far as   *)
(* it has read (ReadOK); and a committed result is sound (CommitOK). That a*)
(* result counts what it should is then a fact about computeTally.         *)
(***************************************************************************)
EXTENDS ElectionResults, ElectionCryptoProofs

(* The members are named by their places in the list.                      *)
LEMMA Places ==
  /\ Len(Committee) \in Nat /\ Len(Committee) < ORDER
  /\ Threshold \in 2 .. Len(Committee)
  /\ DOMAIN Committee = 1 .. Len(Committee)
  /\ \A i \in 1 .. Len(Committee) : Committee[i] \in Members
  /\ \A i, j \in 1 .. Len(Committee) : Committee[i] = Committee[j] => i = j
  /\ \A m \in Members : \E i \in 1 .. Len(Committee) : Committee[i] = m
<1>1. Committee \in Seq(Members) /\ IsInjective(Committee)
  BY CommitteeAssumption
<1>2. Len(Committee) \in Nat /\ DOMAIN Committee = 1 .. Len(Committee)
  BY <1>1
<1>3. Len(Committee) < ORDER /\ Threshold \in 2 .. Len(Committee)
  BY CommitteeAssumption DEF Splittable
<1>4. \A m \in Members : \E i \in 1 .. Len(Committee) : Committee[i] = m
  BY <1>2 DEF Members, Range
<1>5. \A i, j \in 1 .. Len(Committee) : Committee[i] = Committee[j] => i = j
  BY <1>1, <1>2 DEF IsInjective
<1>6. \A i \in 1 .. Len(Committee) : Committee[i] \in Members
  BY <1>1
<1> QED
  BY <1>2, <1>3, <1>4, <1>5, <1>6

(* The committee as a ceremony reads it, once all keys are registered.     *)
Size == Len(Committee)
AllKeys == [i \in 1..Size |-> [id |-> Committee[i], publicKey |-> committeePublicKeys[Committee[i]]]]

KeyRecords == [id : Members, publicKey : Keys \cup {None}]
Randoms == [1 .. Threshold - 1 -> Scalars]
Envelopes == [to : Keys \cup {None}, content : ShareSet]
Entry == [memberId : Members, shareIndex : Scalars, encryptedData : Envelopes]
Setups == [electionPubKey : Scalars, encryptedShares : Seq(Entry)]

(* The share at place i of a split is a share, and for the point i.        *)
LEMMA SplitAt ==
  ASSUME NEW secret \in Scalars, NEW r \in Randoms
  PROVE  \A i \in 1..Size : split(secret, r, Size)[i] \in ShareSet /\ split(secret, r, Size)[i].x = i
<1> SUFFICES ASSUME NEW i \in 1..Size
             PROVE  split(secret, r, Size)[i] \in ShareSet /\ split(secret, r, Size)[i].x = i
  OBVIOUS
<1> DEFINE share == split(secret, r, Size)[i]
           e == Evaluate(<<secret>> \o r, i)
<1>1. Size \in Nat /\ Size < ORDER /\ Threshold \in Nat \ {0}
  BY Places DEF Size
<1>2. share \in ShareSet /\ share = [x |-> i, y |-> e]
  BY <1>1, SplitShares DEF Randoms
<1> HIDE DEF e, share
<1> QED
  BY <1>2 DEF share

(* What a ceremony deals: to each member, in an envelope for its key, the  *)
(* share at its place.                                                     *)
LEMMA SetupDeals ==
  ASSUME NEW keys \in Seq(KeyRecords), Len(keys) = Size,
         NEW secret \in Scalars, NEW r \in Randoms
  PROVE  LET setup == setupElection(keys, secret, r)
             entries == setup.encryptedShares
             shares == split(secret, r, Size)
         IN /\ setup \in Setups /\ setup.electionPubKey = secret
            /\ entries \in Seq(Entry) /\ Len(entries) = Size
            /\ \A i \in 1..Size :
                 /\ shares[i] \in ShareSet /\ shares[i].x = i
                 /\ entries[i].memberId = keys[i].id
                 /\ entries[i].encryptedData = [to |-> keys[i].publicKey, content |-> shares[i]]
<1> DEFINE shares == split(secret, r, Size)
           entry(i) == [memberId |-> keys[i].id, shareIndex |-> shares[i].x,
                        encryptedData |-> [to |-> keys[i].publicKey, content |-> shares[i]]]
           entries == [i \in 1..Size |-> entry(i)]
<1>1. Size \in Nat /\ Size < ORDER /\ Threshold \in Nat \ {0}
  BY Places DEF Size
<1>2. DOMAIN keys = 1..Size /\ \A i \in 1..Size : keys[i] \in KeyRecords
  BY <1>1
<1>3. \A i \in 1..Size : shares[i] \in ShareSet /\ shares[i].x = i
  BY SplitAt
<1>4. setupElection(keys, secret, r) = [electionPubKey |-> secret, encryptedShares |-> entries]
  BY <1>2 DEF setupElection, eciesEncrypt
<1> HIDE DEF shares
<1>5. \A i \in 1..Size : entry(i) \in Entry
  <2> SUFFICES ASSUME NEW i \in 1..Size PROVE entry(i) \in Entry
    OBVIOUS
  <2>1. keys[i].id \in Members /\ keys[i].publicKey \in Keys \cup {None}
    BY <1>2 DEF KeyRecords
  <2>2. shares[i].x \in Scalars
    BY <1>3 DEF ShareSet
  <2>3. [to |-> keys[i].publicKey, content |-> shares[i]] \in Envelopes
    BY <1>3, <2>1 DEF Envelopes
  <2> QED
    BY <2>1, <2>2, <2>3 DEF Entry
<1>6. entries \in Seq(Entry) /\ Len(entries) = Size
  BY <1>1, <1>5
<1>7. \A i \in 1..Size : /\ entries[i].memberId = keys[i].id
                         /\ entries[i].encryptedData = [to |-> keys[i].publicKey, content |-> shares[i]]
  OBVIOUS
<1> HIDE DEF entries
<1>8. [electionPubKey |-> secret, encryptedShares |-> entries] \in Setups
  BY <1>6 DEF Setups
<1> QED
  BY <1>3, <1>4, <1>6, <1>7, <1>8 DEF shares

(* The library says which element of a set of numbers is its least.        *)
LEMMA MinIn ==
  ASSUME NEW I \in SUBSET Nat, I # {}
  PROVE  Min(I) \in I
<1>1. \E m \in I : \A k \in I : m <= k
  BY LeastNatural
<1> QED
  BY <1>1 DEF Min

(* The list that a ceremony has read once every member has registered.     *)
LEMMA KeysRead ==
  ASSUME committeePublicKeys \in [Members -> Keys \cup {None}]
  PROVE  /\ AllKeys \in Seq(KeyRecords) /\ Len(AllKeys) = Size
         /\ \A i \in 1..Size : /\ AllKeys[i].id = Committee[i]
                               /\ AllKeys[i].publicKey = committeePublicKeys[Committee[i]]
<1>1. Size \in Nat /\ \A i \in 1..Size : Committee[i] \in Members
  BY Places DEF Size
<1>2. \A i \in 1..Size :
        [id |-> Committee[i], publicKey |-> committeePublicKeys[Committee[i]]] \in KeyRecords
  BY <1>1 DEF KeyRecords
<1>3. AllKeys \in Seq(KeyRecords) /\ Len(AllKeys) = Size
  BY <1>1, <1>2 DEF AllKeys
<1>4. \A i \in 1..Size : /\ AllKeys[i].id = Committee[i]
                         /\ AllKeys[i].publicKey = committeePublicKeys[Committee[i]]
  BY DEF AllKeys
<1> QED
  BY <1>3, <1>4

IsDealing(entries, secret, r) == entries = setupElection(AllKeys, secret, r).encryptedShares

(* What the event of a ceremony holds, member by member. *)
LEMMA DealingEntries ==
  ASSUME committeePublicKeys \in [Members -> Keys \cup {None}],
         NEW secret \in Scalars, NEW r \in Randoms, NEW entries, IsDealing(entries, secret, r)
  PROVE  /\ entries \in Seq(Entry) /\ Len(entries) = Size
         /\ \A i \in 1..Size :
              /\ split(secret, r, Size)[i] \in ShareSet
              /\ split(secret, r, Size)[i].x = i
              /\ entries[i].memberId = Committee[i]
              /\ entries[i].encryptedData = [to |-> committeePublicKeys[Committee[i]],
                                             content |-> split(secret, r, Size)[i]]
<1>1. /\ AllKeys \in Seq(KeyRecords) /\ Len(AllKeys) = Size
      /\ \A i \in 1..Size : /\ AllKeys[i].id = Committee[i]
                            /\ AllKeys[i].publicKey = committeePublicKeys[Committee[i]]
  BY KeysRead
<1>2. /\ entries \in Seq(Entry) /\ Len(entries) = Size
      /\ \A i \in 1..Size :
           /\ split(secret, r, Size)[i] \in ShareSet /\ split(secret, r, Size)[i].x = i
           /\ entries[i].memberId = AllKeys[i].id
           /\ entries[i].encryptedData = [to |-> AllKeys[i].publicKey,
                                          content |-> split(secret, r, Size)[i]]
  BY <1>1, SetupDeals DEF IsDealing
<1> SUFFICES ASSUME NEW i \in 1..Size
             PROVE  /\ split(secret, r, Size)[i] \in ShareSet
                    /\ split(secret, r, Size)[i].x = i
                    /\ entries[i].memberId = Committee[i]
                    /\ entries[i].encryptedData = [to |-> committeePublicKeys[Committee[i]],
                                                   content |-> split(secret, r, Size)[i]]
  BY <1>2, Zenon
<1>3. /\ split(secret, r, Size)[i] \in ShareSet
      /\ split(secret, r, Size)[i].x = i
      /\ entries[i].memberId = AllKeys[i].id
      /\ entries[i].encryptedData = [to |-> AllKeys[i].publicKey,
                                     content |-> split(secret, r, Size)[i]]
  BY <1>2, Zenon
<1>4. /\ AllKeys[i].id = Committee[i]
      /\ AllKeys[i].publicKey = committeePublicKeys[Committee[i]]
  BY <1>1, Zenon
<1> QED
  BY <1>3, <1>4, Zenon

(* A member finds the entry at its own place.                              *)
LEMMA MyShareAt ==
  ASSUME committeePublicKeys \in [Members -> Keys \cup {None}],
         NEW secret \in Scalars, NEW r \in Randoms, NEW entries, IsDealing(entries, secret, r),
         NEW i \in 1..Size
  PROVE  MyShare(entries, Committee[i]) = entries[i]
<1> DEFINE I == {j \in 1 .. Len(entries) : entries[j].memberId = Committee[i]}
<1>1. /\ entries \in Seq(Entry) /\ Len(entries) = Size
      /\ \A j \in 1..Size :
           /\ split(secret, r, Size)[j] \in ShareSet
           /\ split(secret, r, Size)[j].x = j
           /\ entries[j].memberId = Committee[j]
           /\ entries[j].encryptedData = [to |-> committeePublicKeys[Committee[j]],
                                          content |-> split(secret, r, Size)[j]]
  BY DealingEntries
<1>2. \A j \in 1..Size : Committee[j] = Committee[i] => j = i
  BY Places DEF Size
<1>3. I = {i}
  <2>1. i \in I
    BY <1>1
  <2>2. ASSUME NEW j \in I
        PROVE  j = i
    <3>1. j \in 1..Size /\ Committee[j] = Committee[i]
      BY <1>1
    <3> QED
      BY <1>2, <3>1
  <2> HIDE DEF I
  <2> QED
    BY <2>1, <2>2
<1>4. MyShare(entries, Committee[i]) = entries[IF I # {} THEN Min(I) ELSE 0]
  BY DEF MyShare, SelectInSeq
<1>5. Min({i}) \in {i}
  BY MinIn
<1> HIDE DEF I
<1> QED
  BY <1>3, <1>4, <1>5

(* Every ceremony on the log, and the key of the election.                 *)
FinalOK == \A i \in DOMAIN log : log[i].event = "CommitteeFinalized" =>
  /\ Registered = Members
  /\ electionPubKey \in Scalars
  /\ \E r \in Randoms : IsDealing(log[i].shares, electionPubKey, r)

(* The first event of a ceremony, which the page goes by, is a dealing of  *)
(* the key of the election.                                                *)
LEMMA FirstFinal ==
  ASSUME NEW T, log \in Seq(T), FinalOK, committeeFinalized
  PROVE  /\ Registered = Members /\ electionPubKey \in Scalars
         /\ \E r \in Randoms : IsDealing(EncryptedShares, electionPubKey, r)
<1> DEFINE I == {i \in 1 .. Len(log) : log[i].event = "CommitteeFinalized"}
<1>1. DOMAIN log = 1 .. Len(log) /\ Len(log) \in Nat
  OBVIOUS
<1>2. I # {} /\ I \in SUBSET Nat
  BY <1>1 DEF committeeFinalized
<1>3. Min(I) \in I
  BY <1>2, MinIn
<1>4. EncryptedShares = log[Min(I)].shares
  BY <1>2 DEF EncryptedShares, SelectInSeq
<1> DEFINE k == Min(I)
<1>5. k \in DOMAIN log /\ log[k].event = "CommitteeFinalized" /\ EncryptedShares = log[k].shares
  <2> HIDE DEF k
  <2>1. k \in I
    BY <1>3 DEF k
  <2> QED
    BY <1>1, <1>4, <2>1 DEF k
<1> HIDE DEF k, I
<1> QED
  BY <1>5 DEF FinalOK

-----------------------------------------------------------------------------
(* The places of a set of members. *)

PlacesOf(S) == {i \in 1..Size : Committee[i] \in S}

(* A set of members has as many places on the list. *)
LEMMA CountPlaces ==
  ASSUME NEW S \in SUBSET Members
  PROVE  /\ PlacesOf(S) \in SUBSET (1..Size) /\ IsFiniteSet(PlacesOf(S))
         /\ IsFiniteSet(S) /\ Cardinality(PlacesOf(S)) = Cardinality(S)
<1> DEFINE I == PlacesOf(S)
           f == [i \in I |-> Committee[i]]
<1>1. /\ Size \in Nat /\ \A m \in Members : \E i \in 1..Size : Committee[i] = m
      /\ \A i, j \in 1..Size : Committee[i] = Committee[j] => i = j
  BY Places DEF Size
<1>2. I \in SUBSET (1..Size) /\ \A i \in I : Committee[i] \in S
  BY DEF PlacesOf
<1>3. IsFiniteSet(I)
  <2>1. IsFiniteSet(1..Size)
    BY <1>1, FS_Interval, 1 \in Int, Size \in Int
  <2> QED
    BY <1>2, <2>1, FS_Subset
<1>4. \A m \in S : \E i \in I : Committee[i] = m
  BY <1>1 DEF PlacesOf
<1> HIDE DEF I
<1>5. f \in [I -> S] /\ (\A i, j \in I : f[i] = f[j] => i = j) /\ (\A m \in S : \E i \in I : f[i] = m)
  BY <1>1, <1>2, <1>4
<1> HIDE DEF f
<1>6. f \in Bijection(I, S)
  BY <1>5 DEF Bijection, Injection, Surjection, IsInjective
<1>7. ExistsBijection(I, S)
  BY <1>6 DEF ExistsBijection
<1>8. IsFiniteSet(S) /\ Cardinality(S) = Cardinality(I)
  BY <1>3, <1>7, FS_Bijection
<1> QED
  BY <1>2, <1>3, <1>8 DEF I

(* The entries of a set of members are those at their places. *)
LEMMA EntriesAt ==
  ASSUME committeePublicKeys \in [Members -> Keys \cup {None}],
         NEW secret \in Scalars, NEW r \in Randoms, IsDealing(EncryptedShares, secret, r),
         NEW S \in SUBSET Members
  PROVE  \E at \in Seq(PlacesOf(S)) :
           /\ Len(at) = Cardinality(S)
           /\ \A j, k \in 1 .. Len(at) : j # k => at[j] # at[k]
           /\ Dealt(S) = [k \in 1 .. Len(at) |-> split(secret, r, Size)[at[k]]]
<1> DEFINE entries == EncryptedShares
           I == PlacesOf(S)
<1>1. /\ entries \in Seq(Entry) /\ Len(entries) = Size
      /\ \A j \in 1..Size :
           /\ split(secret, r, Size)[j] \in ShareSet
           /\ split(secret, r, Size)[j].x = j
           /\ entries[j].memberId = Committee[j]
           /\ entries[j].encryptedData = [to |-> committeePublicKeys[Committee[j]],
                                          content |-> split(secret, r, Size)[j]]
  BY DealingEntries
<1>2. Size \in Nat
  BY Places DEF Size
<1>3. Entries(S) = I
  <2>1. DOMAIN entries = 1..Size
    BY <1>1, <1>2
  <2>2. \A j \in 1..Size : entries[j].memberId = Committee[j]
    BY <1>1, Zenon
  <2> QED
    BY <2>1, <2>2 DEF Entries, PlacesOf
<1>4. I \in SUBSET (1..Size) /\ Cardinality(I) = Cardinality(S)
  BY CountPlaces
<1> HIDE DEF I, entries
<1>5. PICK at : IsSelection(at, entries, I)
  BY <1>1, <1>4, SubsequenceSelects
<1>6. /\ at \in Seq(I) /\ Len(at) = Cardinality(I)
      /\ \A j, k \in 1 .. Len(at) : j < k => at[j] < at[k]
      /\ Subsequence(entries, I) = [k \in 1 .. Len(at) |-> entries[at[k]]]
  BY <1>5 DEF IsSelection
<1>7. Len(at) \in Nat /\ \A k \in 1 .. Len(at) : at[k] \in I /\ at[k] \in 1..Size
  <2>1. Len(at) \in Nat /\ \A k \in 1 .. Len(at) : at[k] \in I
    BY <1>6
  <2> QED
    BY <1>4, <2>1
<1>8. ASSUME NEW j \in 1 .. Len(at), NEW k \in 1 .. Len(at), j # k
      PROVE  at[j] # at[k]
  <2>1. j < k \/ k < j
    BY <1>7, <1>8
  <2>2. at[j] < at[k] \/ at[k] < at[j]
    BY <1>6, <2>1
  <2>3. at[j] \in Int /\ at[k] \in Int
    BY <1>7
  <2> QED
    BY <2>2, <2>3
<1>9. Dealt(S) = [k \in 1 .. Len(at) |-> entries[at[k]].encryptedData.content]
  <2>1. Dealt(S) = LET chosen == Subsequence(entries, I)
                   IN [i \in DOMAIN chosen |-> chosen[i].encryptedData.content]
    BY <1>3, Zenon DEF Dealt, entries
  <2> QED
    BY <1>6, <2>1
<1>10. \A k \in 1 .. Len(at) : entries[at[k]].encryptedData.content = split(secret, r, Size)[at[k]]
  <2> SUFFICES ASSUME NEW k \in 1 .. Len(at)
               PROVE  entries[at[k]].encryptedData.content = split(secret, r, Size)[at[k]]
    OBVIOUS
  <2> DEFINE j == at[k]
  <2>1. j \in 1..Size
    BY <1>7
  <2> HIDE DEF j
  <2>2. entries[j].encryptedData = [to |-> committeePublicKeys[Committee[j]],
                                    content |-> split(secret, r, Size)[j]]
    BY <1>1, <2>1, Zenon
  <2>3. entries[j].encryptedData.content = split(secret, r, Size)[j]
    BY <2>2
  <2> QED
    BY <2>3 DEF j
<1>11. Dealt(S) = [k \in 1 .. Len(at) |-> split(secret, r, Size)[at[k]]]
  BY <1>9, <1>10
<1> QED
  BY <1>4, <1>6, <1>8, <1>11 DEF I

(* Enough members combine what they were dealt to the key. *)
LEMMA Reconstructs ==
  ASSUME committeePublicKeys \in [Members -> Keys \cup {None}],
         NEW T, log \in Seq(T), FinalOK
  PROVE  SharesReconstruct
<1> SUFFICES ASSUME committeeFinalized, NEW S \in SUBSET Members, Cardinality(S) >= Threshold
             PROVE  combine(Dealt(S)) = electionPubKey
  BY DEF SharesReconstruct
<1> DEFINE secret == electionPubKey
<1>1. secret \in Scalars /\ \E r \in Randoms : IsDealing(EncryptedShares, secret, r)
  BY FirstFinal
<1> HIDE DEF secret
<1>2. PICK r \in Randoms : IsDealing(EncryptedShares, secret, r)
  BY <1>1
<1>3. PICK at \in Seq(PlacesOf(S)) :
        /\ Len(at) = Cardinality(S)
        /\ \A j, k \in 1 .. Len(at) : j # k => at[j] # at[k]
        /\ Dealt(S) = [k \in 1 .. Len(at) |-> split(secret, r, Size)[at[k]]]
  BY <1>1, <1>2, EntriesAt
<1>4. /\ Size \in Nat /\ Size < ORDER /\ Threshold \in Nat \ {0}
      /\ r \in [1 .. Threshold - 1 -> Scalars]
  BY Places DEF Size, Randoms
<1>5. at \in Seq(1..Size)
  <2>1. PlacesOf(S) \in SUBSET (1..Size)
    BY CountPlaces
  <2>2. at \in [1 .. Len(at) -> PlacesOf(S)] /\ Len(at) \in Nat
    OBVIOUS
  <2> DEFINE P == 1..Size
  <2>3. at \in [1 .. Len(at) -> P]
    BY <2>1, <2>2
  <2>4. at \in Seq(P)
    <3> HIDE DEF P
    <3> QED
      BY <2>2, <2>3
  <2> QED
    BY <2>4
<1>6. Threshold <= Len(at)
  BY <1>3, <1>4
<1>7. combine([k \in 1 .. Len(at) |-> split(secret, r, Size)[at[k]]]) = secret
  <2>1. \A i, j \in 1 .. Len(at) : i # j => at[i] # at[j]
    BY <1>3
  <2> QED
    <3>1. \A chosen \in Seq(1..Size) :
             /\ Threshold <= Len(chosen)
             /\ \A i, j \in 1 .. Len(chosen) : i # j => chosen[i] # chosen[j]
             => combine([i \in 1 .. Len(chosen) |-> split(secret, r, Size)[chosen[i]]]) = secret
      BY <1>1, <1>4, SharesCombine, Zenon
    <3> QED
      BY <1>5, <1>6, <2>1, <3>1, Zenon
<1> QED
  BY <1>3, <1>7 DEF secret

(* One member fewer would have been dealt the same for any key.            *)
LEMMA Hides ==
  ASSUME committeePublicKeys \in [Members -> Keys \cup {None}],
         NEW T, log \in Seq(T), FinalOK
  PROVE  SharesSecret
<1> SUFFICES ASSUME committeeFinalized,
                    NEW S \in SUBSET Members, Cardinality(S) = Threshold - 1,
                    NEW other \in Scalars
             PROVE  \E dealing \in Dealings[other] : Range(Dealt(S)) \subseteq dealing
  BY DEF SharesSecret
<1> DEFINE secret == electionPubKey
           P == PlacesOf(S)
<1>1. secret \in Scalars /\ \E r \in Randoms : IsDealing(EncryptedShares, secret, r)
  BY FirstFinal
<1> HIDE DEF secret
<1>2. PICK r \in Randoms : IsDealing(EncryptedShares, secret, r)
  BY <1>1
<1> DEFINE shares == split(secret, r, Size)
           y == [i \in 1..Size |-> shares[i].y]
<1>3. PICK at \in Seq(P) :
        /\ Len(at) = Cardinality(S)
        /\ Dealt(S) = [k \in 1 .. Len(at) |-> shares[at[k]]]
  BY <1>1, <1>2, EntriesAt
<1>4. /\ Size \in Nat /\ Size < ORDER /\ Threshold \in Nat \ {0}
      /\ r \in [1 .. Threshold - 1 -> Scalars] /\ Size = Len(Committee)
  BY Places DEF Size, Randoms
<1>5. \A i \in 1..Size : shares[i] \in ShareSet /\ shares[i].x = i
  BY <1>1, <1>2, SplitAt
<1> HIDE DEF shares
<1>6. y \in [1..Size -> Scalars] /\ \A i \in 1..Size : shares[i] = [x |-> i, y |-> y[i]]
  BY <1>5 DEF ShareSet
<1>7. P \in SUBSET (1..Size) /\ Cardinality(P) = Threshold - 1
  BY CountPlaces
<1> HIDE DEF P, y
<1>8. PICK q \in [1 .. Threshold - 1 -> Scalars] :
        \A i \in P : split(other, q, Size)[i] = [x |-> i, y |-> y[i]]
  <2>1. PICK q \in [1 .. Threshold - 1 -> Scalars] : Gives(split(other, q, Size), y, P)
    BY <1>4, <1>6, <1>7, SharesHide
  <2> QED
    BY <2>1, Zenon DEF Gives
<1> DEFINE dealing == Range(split(other, q, Size))
<1>9. DOMAIN split(other, q, Size) = 1..Size
  BY DEF split
<1>10. dealing \in Dealings[other]
  BY <1>4 DEF Dealings
<1>11. ASSUME NEW share \in Range(Dealt(S))
       PROVE  share \in dealing
  <2>1. PICK k \in 1 .. Len(at) : share = shares[at[k]]
    BY <1>3 DEF Range
  <2>2. at[k] \in P
    BY <1>3
  <2>3. at[k] \in 1..Size
    BY <1>7, <2>2
  <2>4. share = split(other, q, Size)[at[k]]
    <3>1. shares[at[k]] = [x |-> at[k], y |-> y[at[k]]]
      BY <1>6, <2>3, Zenon
    <3>2. split(other, q, Size)[at[k]] = [x |-> at[k], y |-> y[at[k]]]
      BY <1>8, <2>2, Zenon
    <3> QED
      BY <2>1, <3>1, <3>2, Zenon
  <2> QED
    BY <1>9, <2>3, <2>4 DEF Range
<1> QED
  BY <1>10, <1>11

-----------------------------------------------------------------------------
(* The inductive invariant of the ceremony. *)

Commitments == {"poseidon3"} \X (0 .. NumOptions - 1) \X {1}
Blobs == [to : Scalars, content : Payloads] \cup {None}

Finals == [event : {"CommitteeFinalized"}, shares : Seq(Entry)]
Votes == [event : {"VoteCast"}, baseNullifier : Voters,
          voteCommitment : Commitments, encryptedBlob : Blobs]
Events == Finals \cup Votes

DealSet == [pc : {"idle", "read", "sign", "sent", "over"}, keys : Seq(KeyRecords),
            setup : Setups \cup {None}]

Types ==
  /\ CommitteeTypeOK
  /\ log \in Seq(Events)
  /\ deals \in [1..MaxDeals -> DealSet]

(* A handler that has prepared a call, and a call, hold what it takes.     *)
ContentsOK ==
  /\ \A m \in Members : /\ handler[m].pc = "sign key" => handler[m].content \in Keys
                        /\ handler[m].pc = "sign share" => handler[m].content \in ShareSet
  /\ \A t \in sent : /\ t.fn = "registerCommitteeKey" => t.content \in Keys
                     /\ t.fn = "submitDecryptedShare" => t.content \in ShareSet

(* The key in the browser is the only one that is or may be registered.    *)
KeyStored(m) ==
  /\ \A t \in Calls(m, "registerCommitteeKey") : t.content = stored[m]
  /\ m \in Registered => committeePublicKeys[m] = stored[m]
  /\ handler[m].pc = "sign key" => handler[m].content = stored[m]
KeysOK == \A m \in Members \ overlapped : KeyStored(m)

(* A ceremony has read registered keys, which do not change any more, and  *)
(* deals with all of them.                                                 *)
IsSetup(setup, keys) ==
  \E secret \in Scalars, r \in Randoms : setup = setupElection(keys, secret, r)
DealOK(d) ==
  /\ deals[d].pc = "idle" => deals[d].keys = <<>>
  /\ deals[d].pc \in {"read", "sign", "sent"} => Registered = Members
  /\ deals[d].pc = "read" => /\ Len(deals[d].keys) < Size
                             /\ \A i \in 1 .. Len(deals[d].keys) : deals[d].keys[i] = AllKeys[i]
  /\ deals[d].pc \in {"sign", "sent"} => IsSetup(deals[d].setup, AllKeys)
DealsOK == \A d \in 1..MaxDeals : DealOK(d)

PhaseOK == phase # "signup" => electionPubKey \in Scalars

CommitteeInv == Types /\ ContentsOK /\ KeysOK /\ DealsOK /\ FinalOK /\ PhaseOK

(* The ceremony starts in the invariant. *)
LEMMA CommitteeInitOK == CommitteeInit => CommitteeInv
<1> SUFFICES ASSUME CommitteeInit PROVE CommitteeInv
  OBVIOUS
<1> USE DEF CommitteeInit
<1>1. CommitteeTypeOK
  <2>1. electionPubKey \in Scalars \cup {None} /\ phase \in {"signup", "voting", "closed"}
    BY CommitteeAssumption
  <2>2. drawn \in [Members -> 0..MaxDraws]
    BY CommitteeAssumption
  <2>3. handler \in [Members ->
          [pc : {"idle", "sign key", "wait key", "sign share", "wait share"},
           content : Keys \cup ShareSet \cup {None}]]
    BY DEF Idle
  <2>4. \A d \in 1..MaxDeals : deals[d].pc \in {"idle", "read", "sign", "sent", "over"}
    BY DEF NoDeal
  <2> QED
    BY <2>1, <2>2, <2>3, <2>4 DEF CommitteeTypeOK
<1>2. log \in Seq(Events)
  OBVIOUS
<1>3. deals \in [1..MaxDeals -> DealSet]
  <2>1. NoDeal \in DealSet
    BY DEF NoDeal, DealSet
  <2> QED
    BY <2>1
<1>4. ContentsOK
  BY DEF ContentsOK, Idle
<1>5. KeysOK
  BY DEF KeysOK, KeyStored, Calls, Registered, Idle
<1>6. DealsOK
  BY DEF DealsOK, DealOK, NoDeal
<1>7. FinalOK
  BY DEF FinalOK
<1>8. PhaseOK
  BY CommitteeAssumption DEF PhaseOK
<1> QED
  BY <1>1, <1>2, <1>3, <1>4, <1>5, <1>6, <1>7, <1>8 DEF CommitteeInv, Types

(* What does not change keeps its part of the invariant.                   *)
LEMMA FinalKept == FinalOK /\ UNCHANGED <<committeePublicKeys, electionPubKey, log>> => FinalOK'
BY DEF FinalOK, IsDealing, AllKeys, Registered

LEMMA DealsKept == DealsOK /\ UNCHANGED <<committeePublicKeys, deals>> => DealsOK'
BY DEF DealsOK, DealOK, IsSetup, AllKeys, Registered

LEMMA KeysKept == KeysOK /\ UNCHANGED <<committeePublicKeys, browsers, sent>> => KeysOK'
BY DEF KeysOK, KeyStored, Calls, Registered, browsers

LEMMA PhaseKept == PhaseOK /\ UNCHANGED <<phase, electionPubKey>> => PhaseOK'
BY DEF PhaseOK

LEMMA ContentsKept == ContentsOK /\ UNCHANGED <<handler, sent>> => ContentsOK'
BY DEF ContentsOK

-----------------------------------------------------------------------------
(* The page: what a tally has read, and what it still has to read.         *)

PageSet ==
  [tab : {"results", "other"}, step : {"idle", "shares", "height", "fetch", "done", "crashed"},
   seen : SUBSET Members, shares : Seq(ShareSet \cup {Junk}), key : Scalars \cup {None},
   height : Nat, from : Nat \ {0}, ballots : Seq(Votes)]

PageOK ==
  /\ page \in PageSet
  /\ page.height <= Len(log)
  /\ page.step = "shares" => /\ Len(page.shares) < Cardinality(page.seen)
                             /\ \A m \in page.seen : decryptedShares[m] # None
  /\ page.step \in {"height", "fetch", "done"} /\ page.shares = <<>> => page.key \in Scalars
  /\ tallies \in 0..MaxTallies

ResultsInv == CommitteeInv /\ PageOK

-----------------------------------------------------------------------------
(* The steps of the ceremony, one lemma for each. *)

(* handleRegisterCommitteeKey draws a key. *)
LEMMA DrawKey ==
  ASSUME CommitteeInv, NEW m \in Members, handleRegisterCommitteeKey(m)
  PROVE  CommitteeInv'
<1> USE DEF CommitteeInv, Types
<1> DEFINE key == [member |-> m, draw |-> drawn[m] + 1]
<1>1. /\ Step(m, "idle") /\ drawn[m] < MaxDraws
      /\ drawn' = [drawn EXCEPT ![m] = @ + 1]
      /\ stored' = [stored EXCEPT ![m] = key]
      /\ handler' = [handler EXCEPT ![m] = [pc |-> "sign key", content |-> key]]
      /\ overlapped' = IF Calls(m, "registerCommitteeKey") # {} \/ m \in Registered
                       THEN overlapped \cup {m} ELSE overlapped
      /\ phase' = phase /\ committeePublicKeys' = committeePublicKeys
      /\ electionPubKey' = electionPubKey /\ decryptedShares' = decryptedShares
      /\ log' = log /\ sent' = sent /\ deals' = deals
  BY DEF handleRegisterCommitteeKey, Kept, onChain
<1>2. key \in Keys /\ drawn[m] + 1 \in 0..MaxDraws
  <2> DEFINE k == drawn[m]
  <2>1. k \in 0..MaxDraws /\ k < MaxDraws /\ MaxDraws \in Nat
    BY <1>1, CommitteeAssumption DEF CommitteeTypeOK
  <2> HIDE DEF k
  <2>2. k + 1 \in 1..MaxDraws /\ k + 1 \in 0..MaxDraws
    BY <2>1
  <2> QED
    BY <2>2 DEF Keys, k
<1> HIDE DEF key
<1>3. CommitteeTypeOK'
  <2>1. drawn' \in [Members -> 0..MaxDraws]
    <3>1. drawn \in [Members -> 0..MaxDraws]
      BY DEF CommitteeTypeOK
    <3> QED
      BY <1>1, <1>2, <3>1
  <2>2. stored' \in [Members -> Keys \cup {None}]
    BY <1>1, <1>2 DEF CommitteeTypeOK
  <2>3. handler' \in [Members ->
          [pc : {"idle", "sign key", "wait key", "sign share", "wait share"},
           content : Keys \cup ShareSet \cup {None}]]
    BY <1>1, <1>2 DEF CommitteeTypeOK
  <2>4. overlapped' \subseteq Members
    BY <1>1 DEF CommitteeTypeOK
  <2> QED
    BY <1>1, <2>1, <2>2, <2>3, <2>4 DEF CommitteeTypeOK
<1>4. ContentsOK'
  BY <1>1, <1>2 DEF ContentsOK, CommitteeTypeOK
<1>5. KeysOK'
  <2> SUFFICES ASSUME NEW n \in Members \ overlapped' PROVE KeyStored(n)'
    BY DEF KeysOK
  <2>1. n \notin overlapped /\ KeyStored(n)
    BY <1>1 DEF KeysOK
  <2>2. CASE n = m
    <3>1. Calls(m, "registerCommitteeKey") = {} /\ m \notin Registered
      BY <1>1, <2>2
    <3>2. Calls(m, "registerCommitteeKey")' = {} /\ m \notin Registered'
      BY <1>1, <3>1 DEF Calls, Registered
    <3>3. handler'[m].content = stored'[m]
      BY <1>1 DEF CommitteeTypeOK
    <3> QED
      BY <2>2, <3>2, <3>3 DEF KeyStored
  <2>3. CASE n # m
    BY <1>1, <2>1, <2>3 DEF KeyStored, Calls, Registered, CommitteeTypeOK
  <2> QED
    BY <2>2, <2>3
<1> QED
  BY <1>1, <1>3, <1>4, <1>5, FinalKept, DealsKept, PhaseKept

(* The wallet signs, or the handler gives up. *)
LEMMA SignOK ==
  ASSUME CommitteeInv, NEW m \in Members, SignCall(m)
  PROVE  CommitteeInv'
<1> USE DEF CommitteeInv, Types
<1> PICK fn, next :
      /\ \/ /\ handler[m].pc = "sign key" /\ fn = "registerCommitteeKey" /\ next = "wait key"
         \/ /\ handler[m].pc = "sign share" /\ fn = "submitDecryptedShare" /\ next = "wait share"
      /\ sent' = sent \cup {[from |-> m, fn |-> fn, content |-> handler[m].content]}
      /\ handler' = [handler EXCEPT ![m].pc = next]
  BY DEF SignCall, Prepared, Step
<1> DEFINE call == [from |-> m, fn |-> fn, content |-> handler[m].content]
<1>1. /\ phase' = phase /\ committeePublicKeys' = committeePublicKeys
      /\ electionPubKey' = electionPubKey /\ decryptedShares' = decryptedShares
      /\ log' = log /\ stored' = stored /\ drawn' = drawn
      /\ overlapped' = overlapped /\ deals' = deals
  BY DEF SignCall, onChain
<1>2. /\ fn = "registerCommitteeKey" => handler[m].content \in Keys
      /\ fn = "submitDecryptedShare" => handler[m].content \in ShareSet
      /\ fn \in {"registerCommitteeKey", "submitDecryptedShare"}
      /\ handler[m].content \in Keys \cup ShareSet
  BY DEF ContentsOK
<1>3. call \in [from : Members, content : Keys \cup ShareSet,
                fn : {"registerCommitteeKey", "submitDecryptedShare"}]
  BY <1>2
<1>4. CommitteeTypeOK'
  <2>1. sent' \subseteq [from : Members, content : Keys \cup ShareSet,
                        fn : {"registerCommitteeKey", "submitDecryptedShare"}]
    BY <1>3 DEF CommitteeTypeOK
  <2>2. handler' \in [Members ->
          [pc : {"idle", "sign key", "wait key", "sign share", "wait share"},
           content : Keys \cup ShareSet \cup {None}]]
    BY DEF CommitteeTypeOK
  <2> QED
    BY <1>1, <2>1, <2>2 DEF CommitteeTypeOK
<1>5. ContentsOK'
  <2>1. \A n \in Members : /\ handler'[n].pc = "sign key" => handler'[n].content \in Keys
                           /\ handler'[n].pc = "sign share" => handler'[n].content \in ShareSet
    BY DEF ContentsOK, CommitteeTypeOK
  <2>2. \A t \in sent' : /\ t.fn = "registerCommitteeKey" => t.content \in Keys
                         /\ t.fn = "submitDecryptedShare" => t.content \in ShareSet
    <3> SUFFICES ASSUME NEW t \in sent'
                 PROVE  /\ t.fn = "registerCommitteeKey" => t.content \in Keys
                        /\ t.fn = "submitDecryptedShare" => t.content \in ShareSet
      OBVIOUS
    <3>1. CASE t \in sent
      BY <3>1 DEF ContentsOK
    <3>2. CASE t = call
      BY <1>2, <3>2
    <3> QED
      BY <3>1, <3>2
  <2> QED
    BY <2>1, <2>2 DEF ContentsOK
<1>6. KeysOK'
  <2> SUFFICES ASSUME NEW n \in Members \ overlapped' PROVE KeyStored(n)'
    BY DEF KeysOK
  <2>1. n \notin overlapped /\ KeyStored(n)
    BY <1>1 DEF KeysOK
  <2>2. ASSUME NEW t \in Calls(n, "registerCommitteeKey")'
        PROVE  t.content = stored'[n]
    <3>1. CASE t \in sent
      BY <1>1, <2>1, <2>2, <3>1 DEF KeyStored, Calls
    <3>2. CASE t = call
      <4>1. n = m /\ fn = "registerCommitteeKey" /\ t.content = handler[m].content
        BY <2>2, <3>2 DEF Calls
      <4>2. handler[m].pc = "sign key"
        BY <4>1
      <4> QED
        BY <1>1, <2>1, <4>1, <4>2 DEF KeyStored
    <3> QED
      BY <2>2, <3>1, <3>2 DEF Calls
  <2>3. n \in Registered' => committeePublicKeys'[n] = stored'[n]
    BY <1>1, <2>1 DEF KeyStored, Registered
  <2>4. handler'[n].pc = "sign key" => handler'[n].content = stored'[n]
    BY <1>1, <2>1 DEF KeyStored, CommitteeTypeOK
  <2> QED
    BY <2>2, <2>3, <2>4 DEF KeyStored
<1> QED
  BY <1>1, <1>4, <1>5, <1>6, FinalKept, DealsKept, PhaseKept

LEMMA GiveUpOK ==
  ASSUME CommitteeInv, NEW m \in Members, GiveUp(m)
  PROVE  CommitteeInv'
<1> USE DEF CommitteeInv, Types
<1>1. /\ phase' = phase /\ committeePublicKeys' = committeePublicKeys
      /\ electionPubKey' = electionPubKey /\ decryptedShares' = decryptedShares
      /\ log' = log /\ stored' = stored /\ drawn' = drawn
      /\ overlapped' = overlapped /\ deals' = deals /\ sent' = sent
      /\ handler' = [handler EXCEPT ![m] = [pc |-> "idle", content |-> None]]
  BY DEF GiveUp, onChain, Idle
<1>2. CommitteeTypeOK'
  <2>1. handler' \in [Members ->
          [pc : {"idle", "sign key", "wait key", "sign share", "wait share"},
           content : Keys \cup ShareSet \cup {None}]]
    BY <1>1 DEF CommitteeTypeOK
  <2> QED
    BY <1>1, <2>1 DEF CommitteeTypeOK
<1>3. ContentsOK'
  BY <1>1 DEF ContentsOK, CommitteeTypeOK
<1>4. KeysOK'
  BY <1>1 DEF KeysOK, KeyStored, Calls, Registered, CommitteeTypeOK
<1> QED
  BY <1>1, <1>2, <1>3, <1>4, FinalKept, DealsKept, PhaseKept

(* A call that is mined leaves a handler as it was, or ends it.            *)
LEMMA AnsweredOK ==
  ASSUME CommitteeTypeOK, NEW t \in sent, Answered(t)
  PROVE  /\ handler' \in [Members ->
              [pc : {"idle", "sign key", "wait key", "sign share", "wait share"},
               content : Keys \cup ShareSet \cup {None}]]
         /\ \A n \in Members : handler'[n] = handler[n] \/ handler'[n].pc = "idle"
<1>1. t.from \in Members
  BY DEF CommitteeTypeOK
<1>2. Idle \in [pc : {"idle", "sign key", "wait key", "sign share", "wait share"},
                content : Keys \cup ShareSet \cup {None}] /\ Idle.pc = "idle"
  BY DEF Idle
<1>3. handler \in [Members ->
        [pc : {"idle", "sign key", "wait key", "sign share", "wait share"},
         content : Keys \cup ShareSet \cup {None}]]
  BY DEF CommitteeTypeOK
<1>4. CASE handler' = [handler EXCEPT ![t.from] = Idle]
  BY <1>1, <1>2, <1>3, <1>4
<1>5. CASE handler' = handler
  BY <1>3, <1>5
<1> QED
  BY <1>4, <1>5 DEF Answered

(* A registration is mined; the contract takes the first key. *)
LEMMA RegisterOK ==
  ASSUME CommitteeInv, NEW t, registerCommitteeKey(t)
  PROVE  CommitteeInv'
<1> USE DEF CommitteeInv, Types
<1> DEFINE m == t.from
<1>1. /\ t \in sent /\ t.fn = "registerCommitteeKey" /\ sent' = sent \ {t} /\ Answered(t)
      /\ committeePublicKeys' = IF Registrable(m)
           THEN [committeePublicKeys EXCEPT ![m] = t.content] ELSE committeePublicKeys
      /\ phase' = phase /\ electionPubKey' = electionPubKey
      /\ decryptedShares' = decryptedShares /\ log' = log /\ stored' = stored
      /\ drawn' = drawn /\ overlapped' = overlapped /\ deals' = deals
  BY DEF registerCommitteeKey
<1>2. m \in Members /\ t.content \in Keys
  BY <1>1 DEF CommitteeTypeOK, ContentsOK
<1>3. /\ handler' \in [Members ->
           [pc : {"idle", "sign key", "wait key", "sign share", "wait share"},
            content : Keys \cup ShareSet \cup {None}]]
      /\ \A n \in Members : handler'[n] = handler[n] \/ handler'[n].pc = "idle"
  BY <1>1, AnsweredOK
<1>4. CommitteeTypeOK'
  <2>1. committeePublicKeys' \in [Members -> Keys \cup {None}]
    BY <1>1, <1>2 DEF CommitteeTypeOK
  <2>2. sent' \subseteq [from : Members, content : Keys \cup ShareSet,
                        fn : {"registerCommitteeKey", "submitDecryptedShare"}]
    BY <1>1 DEF CommitteeTypeOK
  <2> QED
    BY <1>1, <1>3, <2>1, <2>2 DEF CommitteeTypeOK
<1>5. ContentsOK'
  BY <1>1, <1>3 DEF ContentsOK
<1>6. KeysOK'
  <2> SUFFICES ASSUME NEW n \in Members \ overlapped' PROVE KeyStored(n)'
    BY DEF KeysOK
  <2>1. n \notin overlapped /\ KeyStored(n)
    BY <1>1 DEF KeysOK
  <2>2. \A u \in Calls(n, "registerCommitteeKey")' : u.content = stored'[n]
    BY <1>1, <2>1 DEF KeyStored, Calls
  <2>3. n \in Registered' => committeePublicKeys'[n] = stored'[n]
    <3>1. CASE committeePublicKeys'[n] = committeePublicKeys[n]
      BY <1>1, <2>1, <3>1 DEF KeyStored, Registered
    <3>2. CASE n = m /\ committeePublicKeys'[n] = t.content
      BY <1>1, <2>1, <3>2 DEF KeyStored, Calls
    <3> QED
      BY <1>1, <1>2, <3>1, <3>2 DEF CommitteeTypeOK
  <2>4. handler'[n].pc = "sign key" => handler'[n].content = stored'[n]
    BY <1>1, <1>3, <2>1 DEF KeyStored
  <2> QED
    BY <2>2, <2>3, <2>4 DEF KeyStored
<1>7. DealsOK' /\ FinalOK'
  <2>1. CASE committeePublicKeys' = committeePublicKeys
    BY <1>1, <2>1, FinalKept, DealsKept
  <2>2. CASE Registrable(m)
    <3>1. Registered # Members /\ ~committeeFinalized
      BY <1>2, <2>2 DEF Registrable
    <3>2. FinalOK'
      BY <1>1, <3>1 DEF FinalOK, committeeFinalized
    <3>3. DealsOK'
      BY <1>1, <3>1 DEF DealsOK, DealOK
    <3> QED
      BY <3>2, <3>3
  <2> QED
    BY <1>1, <2>1, <2>2
<1> QED
  BY <1>1, <1>4, <1>5, <1>6, <1>7, PhaseKept

(* A share is stored once, and stays.                                      *)
LEMMA SubmitOK ==
  ASSUME CommitteeTypeOK, NEW m \in Members, NEW bytes \in ShareSet \cup {Junk}, Submit(m, bytes)
  PROVE  /\ decryptedShares' \in [Members -> ShareSet \cup {Junk, None}]
         /\ \A n \in Members : hasSubmittedShare(n) => decryptedShares'[n] = decryptedShares[n]
BY DEF CommitteeTypeOK, Submit, hasSubmittedShare

(* A share is mined that a page has sent, or a member by hand. *)
LEMMA MinedShareOK ==
  ASSUME CommitteeInv, NEW t, submitDecryptedShare(t)
  PROVE  /\ CommitteeInv'
         /\ \A n \in Members : hasSubmittedShare(n) => decryptedShares'[n] = decryptedShares[n]
<1> USE DEF CommitteeInv, Types
<1>1. /\ t \in sent /\ t.fn = "submitDecryptedShare" /\ sent' = sent \ {t} /\ Answered(t)
      /\ Submit(t.from, t.content)
      /\ phase' = phase /\ committeePublicKeys' = committeePublicKeys
      /\ electionPubKey' = electionPubKey /\ log' = log /\ stored' = stored
      /\ drawn' = drawn /\ overlapped' = overlapped /\ deals' = deals
  BY DEF submitDecryptedShare
<1>2. t.from \in Members /\ t.content \in ShareSet \cup {Junk}
  BY <1>1 DEF CommitteeTypeOK, ContentsOK
<1>3. /\ handler' \in [Members ->
           [pc : {"idle", "sign key", "wait key", "sign share", "wait share"},
            content : Keys \cup ShareSet \cup {None}]]
      /\ \A n \in Members : handler'[n] = handler[n] \/ handler'[n].pc = "idle"
  BY <1>1, AnsweredOK
<1>4. /\ decryptedShares' \in [Members -> ShareSet \cup {Junk, None}]
      /\ \A n \in Members : hasSubmittedShare(n) => decryptedShares'[n] = decryptedShares[n]
  BY <1>1, <1>2, SubmitOK
<1>5. CommitteeTypeOK'
  <2>1. sent' \subseteq [from : Members, content : Keys \cup ShareSet,
                        fn : {"registerCommitteeKey", "submitDecryptedShare"}]
    BY <1>1 DEF CommitteeTypeOK
  <2> QED
    BY <1>1, <1>3, <1>4, <2>1 DEF CommitteeTypeOK
<1>6. ContentsOK'
  BY <1>1, <1>3 DEF ContentsOK
<1>7. KeysOK'
  BY <1>1, <1>3 DEF KeysOK, KeyStored, Calls, Registered
<1> QED
  BY <1>1, <1>4, <1>5, <1>6, <1>7, FinalKept, DealsKept, PhaseKept

LEMMA ByHandOK ==
  ASSUME CommitteeInv, NEW m \in Members, SubmitByHand(m)
  PROVE  /\ CommitteeInv'
         /\ \A n \in Members : hasSubmittedShare(n) => decryptedShares'[n] = decryptedShares[n]
<1> USE DEF CommitteeInv, Types
<1>1. PICK bytes \in HandBytes : Submit(m, bytes)
  BY DEF SubmitByHand
<1>2. UNCHANGED <<phase, committeePublicKeys, electionPubKey, log, stored, drawn, handler,
                  overlapped, sent, deals>>
  BY DEF SubmitByHand, browsers
<1>3. /\ decryptedShares' \in [Members -> ShareSet \cup {Junk, None}]
      /\ \A n \in Members : hasSubmittedShare(n) => decryptedShares'[n] = decryptedShares[n]
  BY <1>1, SubmitOK, CommitteeAssumption
<1>4. CommitteeTypeOK'
  BY <1>2, <1>3 DEF CommitteeTypeOK
<1> QED
  BY <1>2, <1>3, <1>4, ContentsKept, KeysKept, FinalKept, DealsKept, PhaseKept DEF browsers

(* The members' share is there to be opened.                               *)
LEMMA ShareDealt ==
  ASSUME CommitteeInv, committeeFinalized, NEW m \in Members
  PROVE  /\ MyShare(EncryptedShares, m).encryptedData.to = committeePublicKeys[m]
         /\ MyShare(EncryptedShares, m).encryptedData.content \in ShareSet
<1>1. /\ committeePublicKeys \in [Members -> Keys \cup {None}] /\ log \in Seq(Events) /\ FinalOK
  BY DEF CommitteeInv, Types, CommitteeTypeOK
<1> DEFINE secret == electionPubKey
<1>2. secret \in Scalars /\ \E r \in Randoms : IsDealing(EncryptedShares, secret, r)
  BY <1>1, FirstFinal
<1> HIDE DEF secret
<1>3. PICK r \in Randoms : IsDealing(EncryptedShares, secret, r)
  BY <1>2
<1>4. PICK i \in 1..Size : Committee[i] = m
  BY Places DEF Size
<1>5. MyShare(EncryptedShares, m) = EncryptedShares[i]
  BY <1>1, <1>2, <1>3, <1>4, MyShareAt
<1> DEFINE share == split(secret, r, Size)[i]
<1>6. share \in ShareSet
  BY <1>2, SplitAt
<1>7. EncryptedShares[i].encryptedData = [to |-> committeePublicKeys[Committee[i]], content |-> share]
  <2>1. /\ EncryptedShares \in Seq(Entry) /\ Len(EncryptedShares) = Size
        /\ \A j \in 1..Size :
             /\ split(secret, r, Size)[j] \in ShareSet
             /\ split(secret, r, Size)[j].x = j
             /\ EncryptedShares[j].memberId = Committee[j]
             /\ EncryptedShares[j].encryptedData = [to |-> committeePublicKeys[Committee[j]],
                                                    content |-> split(secret, r, Size)[j]]
    BY <1>1, <1>2, <1>3, DealingEntries
  <2> QED
    BY <2>1, Zenon
<1> HIDE DEF share
<1> QED
  BY <1>4, <1>5, <1>6, <1>7

(* handleSubmitDecryptedShare opens the share of the member. *)
LEMMA PrepareShareOK ==
  ASSUME CommitteeInv, NEW m \in Members, handleSubmitDecryptedShare(m)
  PROVE  CommitteeInv'
<1> USE DEF CommitteeInv, Types
<1> DEFINE share == MyShare(EncryptedShares, m).encryptedData.content
<1>1. /\ committeeFinalized
      /\ handler' = [handler EXCEPT ![m] = [pc |-> "sign share", content |-> share]]
      /\ phase' = phase /\ committeePublicKeys' = committeePublicKeys
      /\ electionPubKey' = electionPubKey /\ decryptedShares' = decryptedShares
      /\ log' = log /\ stored' = stored /\ drawn' = drawn
      /\ overlapped' = overlapped /\ sent' = sent /\ deals' = deals
  BY DEF handleSubmitDecryptedShare, decryptShare, eciesDecrypt, onChain
<1>2. share \in ShareSet
  BY <1>1, ShareDealt
<1> HIDE DEF share
<1>3. CommitteeTypeOK'
  <2>1. handler' \in [Members ->
          [pc : {"idle", "sign key", "wait key", "sign share", "wait share"},
           content : Keys \cup ShareSet \cup {None}]]
    BY <1>1, <1>2 DEF CommitteeTypeOK
  <2> QED
    BY <1>1, <2>1 DEF CommitteeTypeOK
<1>4. ContentsOK'
  BY <1>1, <1>2 DEF ContentsOK, CommitteeTypeOK
<1>5. KeysOK'
  BY <1>1 DEF KeysOK, KeyStored, Calls, Registered, CommitteeTypeOK
<1> QED
  BY <1>1, <1>3, <1>4, <1>5, FinalKept, DealsKept, PhaseKept

(* A step of the admin's page that changes nothing but its ceremony.       *)
LEMMA DealStep ==
  ASSUME CommitteeInv, NEW d \in 1..MaxDeals, NEW deal \in DealSet,
         deals' = [deals EXCEPT ![d] = deal], UNCHANGED <<onChain, browsers, sent>>, DealOK(d)'
  PROVE  CommitteeInv'
<1> USE DEF CommitteeInv, Types
<1>1. UNCHANGED <<phase, committeePublicKeys, electionPubKey, decryptedShares, log,
                  stored, drawn, handler, overlapped, sent>>
  BY DEF onChain, browsers
<1>2. deals' \in [1..MaxDeals -> DealSet]
  OBVIOUS
<1>3. CommitteeTypeOK'
  <2>1. \A c \in 1..MaxDeals : deals'[c].pc \in {"idle", "read", "sign", "sent", "over"}
    <3>1. \A c \in 1..MaxDeals : deals'[c] \in DealSet
      BY <1>2
    <3> QED
      BY <3>1 DEF DealSet
  <2> QED
    BY <1>1, <2>1 DEF CommitteeTypeOK
<1>4. DealsOK'
  <2> SUFFICES ASSUME NEW c \in 1..MaxDeals, c # d PROVE DealOK(c)'
    BY DEF DealsOK
  <2>1. deals'[c] = deals[c] /\ DealOK(c)
    BY DEF DealsOK
  <2> QED
    BY <1>1, <2>1 DEF DealOK, IsSetup, AllKeys, Registered
<1> QED
  BY <1>1, <1>2, <1>3, <1>4, ContentsKept, KeysKept, FinalKept, PhaseKept DEF browsers

(* The admin's page starts a ceremony, reads the keys one by one, deals and*)
(* signs.                                                                  *)
LEMMA StartDealOK ==
  ASSUME CommitteeInv, NEW d \in 1..MaxDeals, StartDeal(d)
  PROVE  CommitteeInv'
<1> DEFINE deal == [deals[d] EXCEPT !.pc = "read"]
<1>1. deals[d] \in DealSet /\ deals[d].keys = <<>> /\ Registered = Members
  BY DEF CommitteeInv, Types, DealsOK, DealOK, StartDeal
<1>2. deal \in DealSet /\ deal.pc = "read" /\ deal.keys = <<>>
  BY <1>1 DEF DealSet
<1>3. deals' = [deals EXCEPT ![d] = deal] /\ UNCHANGED <<onChain, browsers, sent>>
  BY DEF StartDeal
<1> HIDE DEF deal
<1>4. deals'[d] = deal /\ Registered' = Members /\ 0 < Size
  BY <1>1, <1>3, Places DEF CommitteeInv, Types, Registered, onChain, Size
<1>5. DealOK(d)'
  BY <1>2, <1>4 DEF DealOK
<1> QED
  BY <1>2, <1>3, <1>5, DealStep

LEMMA ReadKeyOK ==
  ASSUME CommitteeInv, NEW d \in 1..MaxDeals, ReadKey(d)
  PROVE  CommitteeInv'
<1> DEFINE old == deals[d].keys
           next == Len(old) + 1
           record == [id |-> Committee[next], publicKey |-> committeePublicKeys[Committee[next]]]
           keys == Append(old, record)
<1>1. /\ deals[d] \in DealSet /\ deals[d].pc = "read" /\ Registered = Members
      /\ Len(old) < Size /\ \A i \in 1 .. Len(old) : old[i] = AllKeys[i]
  BY DEF CommitteeInv, Types, DealsOK, DealOK, ReadKey
<1>2. old \in Seq(KeyRecords) /\ Size \in Nat /\ next \in 1..Size
  BY <1>1, Places DEF DealSet, Size
<1>3. /\ AllKeys \in Seq(KeyRecords) /\ Len(AllKeys) = Size /\ record = AllKeys[next]
  <2>1. committeePublicKeys \in [Members -> Keys \cup {None}]
    BY DEF CommitteeInv, Types, CommitteeTypeOK
  <2> QED
    BY <1>2, <2>1, KeysRead DEF AllKeys
<1>4. record \in KeyRecords
  BY <1>2, <1>3
<1> HIDE DEF record
<1>5. /\ keys \in Seq(KeyRecords) /\ Len(keys) = next
      /\ \A i \in 1..next : keys[i] = AllKeys[i]
  BY <1>1, <1>2, <1>3, <1>4
<1>6. UNCHANGED <<onChain, browsers, sent>> /\ Registered' = Members /\ AllKeys' = AllKeys
  BY <1>1 DEF ReadKey, onChain, Registered, AllKeys
<1>7. CASE next < Size
  <2> DEFINE deal == [deals[d] EXCEPT !.keys = keys]
  <2>1. deals' = [deals EXCEPT ![d] = deal]
    BY <1>7 DEF ReadKey, Size, record
  <2> HIDE DEF keys
  <2>2. deal \in DealSet /\ deal.pc = "read" /\ deal.keys = keys
    BY <1>1, <1>5 DEF DealSet
  <2> HIDE DEF deal
  <2>3. deals'[d] = deal
    BY <2>1 DEF CommitteeInv, Types
  <2>4. DealOK(d)'
    BY <1>5, <1>6, <1>7, <2>2, <2>3 DEF DealOK
  <2> QED
    BY <1>6, <2>1, <2>2, <2>4, DealStep
<1>8. CASE ~(next < Size)
  <2>1. PICK secret \in Scalars \ {0}, r \in Randoms :
          deals' = [deals EXCEPT ![d] =
            [pc |-> "sign", keys |-> keys, setup |-> setupElection(keys, secret, r)]]
    BY <1>8 DEF ReadKey, Size, record, Randoms
  <2>2. keys = AllKeys
    <3>1. next = Size
      BY <1>2, <1>8
    <3> HIDE DEF keys, next
    <3> QED
      BY <1>2, <1>3, <1>5, <3>1
  <2> DEFINE setup == setupElection(AllKeys, secret, r)
             deal == [pc |-> "sign", keys |-> AllKeys, setup |-> setup]
  <2>3. setup \in Setups
    BY <1>3, SetupDeals
  <2>4. IsSetup(setup, AllKeys)
    BY DEF IsSetup
  <2>5. deals' = [deals EXCEPT ![d] = deal]
    BY <2>1, <2>2
  <2> HIDE DEF setup
  <2>6. deal \in DealSet /\ deal.pc = "sign" /\ deal.setup = setup
    BY <1>3, <2>3 DEF DealSet
  <2> HIDE DEF deal
  <2>7. deals'[d] = deal
    BY <2>5 DEF CommitteeInv, Types
  <2>8. DealOK(d)'
    BY <1>6, <2>4, <2>6, <2>7 DEF DealOK
  <2> QED
    BY <1>6, <2>5, <2>6, <2>8, DealStep
<1> QED
  BY <1>7, <1>8

LEMMA SignDealOK ==
  ASSUME CommitteeInv, NEW d \in 1..MaxDeals, SignDeal(d)
  PROVE  CommitteeInv'
<1> DEFINE deal == [deals[d] EXCEPT !.pc = "sent"]
<1>1. /\ deals[d] \in DealSet /\ Registered = Members /\ IsSetup(deals[d].setup, AllKeys)
  BY DEF CommitteeInv, Types, DealsOK, DealOK, SignDeal
<1>2. deal \in DealSet /\ deal.pc = "sent" /\ deal.setup = deals[d].setup
  BY <1>1 DEF DealSet
<1>3. deals' = [deals EXCEPT ![d] = deal] /\ UNCHANGED <<onChain, browsers, sent>>
  BY DEF SignDeal
<1> HIDE DEF deal
<1>4. deals'[d] = deal /\ Registered' = Members /\ AllKeys' = AllKeys
  BY <1>1, <1>3 DEF CommitteeInv, Types, Registered, AllKeys, onChain
<1>5. DealOK(d)'
  BY <1>1, <1>2, <1>4 DEF DealOK
<1> QED
  BY <1>2, <1>3, <1>5, DealStep

LEMMA OverOK == [NoDeal EXCEPT !.pc = "over"] \in DealSet /\ [NoDeal EXCEPT !.pc = "over"].pc = "over"
<1>1. [NoDeal EXCEPT !.pc = "over"] = [pc |-> "over", keys |-> <<>>, setup |-> None]
  BY DEF NoDeal
<1>2. <<>> \in Seq(KeyRecords)
  OBVIOUS
<1> QED
  BY <1>1, <1>2 DEF DealSet

(* A ceremony is given up, or its transaction is mined. *)
LEMMA GiveUpDealOK ==
  ASSUME CommitteeInv, NEW d \in 1..MaxDeals, GiveUpDeal(d)
  PROVE  CommitteeInv'
<1> DEFINE deal == [NoDeal EXCEPT !.pc = "over"]
<1>1. deal \in DealSet /\ deal.pc = "over"
  BY OverOK
<1>2. deals' = [deals EXCEPT ![d] = deal] /\ UNCHANGED <<onChain, browsers, sent>>
  BY DEF GiveUpDeal
<1> HIDE DEF deal
<1>3. deals'[d] = deal
  BY <1>2 DEF CommitteeInv, Types
<1>4. DealOK(d)'
  BY <1>1, <1>3 DEF DealOK
<1> QED
  BY <1>1, <1>2, <1>4, DealStep

LEMMA FinalizeOK ==
  ASSUME CommitteeInv, NEW d \in 1..MaxDeals, finalizeCommittee(d)
  PROVE  CommitteeInv' /\ Len(log) <= Len(log')
<1> USE DEF CommitteeInv, Types
<1> DEFINE over == [NoDeal EXCEPT !.pc = "over"]
           setup == deals[d].setup
           event == [event |-> "CommitteeFinalized", shares |-> setup.encryptedShares]
<1>1. over \in DealSet /\ over.pc = "over"
  BY OverOK
<1>2. /\ deals[d].pc = "sent" /\ deals' = [deals EXCEPT ![d] = over]
      /\ phase' = phase /\ committeePublicKeys' = committeePublicKeys
      /\ decryptedShares' = decryptedShares /\ stored' = stored /\ drawn' = drawn
      /\ handler' = handler /\ overlapped' = overlapped /\ sent' = sent
      /\ \/ /\ Finalizable /\ electionPubKey' = setup.electionPubKey /\ log' = Append(log, event)
         \/ electionPubKey' = electionPubKey /\ log' = log
  BY DEF finalizeCommittee, browsers
<1> HIDE DEF over
<1>3. /\ deals[d] \in DealSet /\ deals[d].pc = "sent"
      /\ Registered = Members /\ IsSetup(setup, AllKeys)
  BY <1>2 DEF DealsOK, DealOK
<1> HIDE DEF setup
<1>4. PICK secret \in Scalars, r \in Randoms : setup = setupElection(AllKeys, secret, r)
  BY <1>3 DEF IsSetup
<1>5. /\ setup.electionPubKey = secret /\ setup.encryptedShares \in Seq(Entry)
      /\ IsDealing(setup.encryptedShares, secret, r)
  <2>1. AllKeys \in Seq(KeyRecords) /\ Len(AllKeys) = Size
    BY KeysRead DEF CommitteeTypeOK
  <2>2. setup \in Setups /\ setup.electionPubKey = secret
    BY <1>4, <2>1, SetupDeals
  <2> QED
    BY <1>4, <2>2 DEF IsDealing, Setups
<1>6. event \in Events /\ event.event = "CommitteeFinalized" /\ event.shares = setup.encryptedShares
  BY <1>5 DEF Events, Finals
<1> HIDE DEF event
<1>7. deals' \in [1..MaxDeals -> DealSet] /\ deals'[d].pc = "over"
  BY <1>1, <1>2
<1>8. log' \in Seq(Events) /\ Len(log) <= Len(log')
  <2>1. log \in Seq(Events) /\ Len(log) \in Nat
    OBVIOUS
  <2> QED
    BY <1>2, <1>6, <2>1
<1>9. CommitteeTypeOK'
  <2>1. \A c \in 1..MaxDeals : deals'[c].pc \in {"idle", "read", "sign", "sent", "over"}
    <3>1. \A c \in 1..MaxDeals : deals'[c] \in DealSet
      BY <1>7
    <3> QED
      BY <3>1 DEF DealSet
  <2>2. electionPubKey' \in Scalars \cup {None}
    BY <1>2, <1>5 DEF CommitteeTypeOK
  <2> QED
    BY <1>2, <2>1, <2>2 DEF CommitteeTypeOK
<1>10. DealsOK'
  <2> SUFFICES ASSUME NEW c \in 1..MaxDeals PROVE DealOK(c)'
    BY DEF DealsOK
  <2>1. CASE c = d
    BY <1>7, <2>1 DEF DealOK
  <2>2. CASE c # d
    <3>1. deals'[c] = deals[c] /\ DealOK(c)
      BY <1>2, <2>2 DEF DealsOK
    <3> QED
      BY <1>2, <3>1 DEF DealOK, AllKeys, Registered
  <2> QED
    BY <2>1, <2>2
<1>11. FinalOK' /\ PhaseOK'
  <2>1. CASE electionPubKey' = electionPubKey /\ log' = log
    BY <1>2, <2>1, FinalKept, PhaseKept
  <2>2. CASE Finalizable /\ electionPubKey' = setup.electionPubKey /\ log' = Append(log, event)
    <3>1. \A i \in DOMAIN log : log[i].event # "CommitteeFinalized"
      BY <2>2 DEF Finalizable, committeeFinalized
    <3>2. log \in Seq(Events) /\ Len(log) \in Nat /\ DOMAIN log = 1 .. Len(log)
      OBVIOUS
    <3>3. /\ DOMAIN log' = 1 .. Len(log) + 1 /\ log'[Len(log) + 1] = event
          /\ \A i \in 1 .. Len(log) : log'[i] = log[i]
      BY <1>6, <2>2, <3>2
    <3>4. Registered' = Members /\ electionPubKey' = secret /\ AllKeys' = AllKeys
      BY <1>2, <1>3, <1>5, <2>2 DEF Registered, AllKeys
    <3>5. ASSUME NEW i \in DOMAIN log', log'[i].event = "CommitteeFinalized"
          PROVE  /\ Registered' = Members /\ electionPubKey' \in Scalars
                 /\ \E s \in Randoms : IsDealing(log[i].shares, electionPubKey, s)'
      <4>1. i = Len(log) + 1
        BY <3>1, <3>2, <3>3, <3>5
      <4>2. log'[i].shares = setup.encryptedShares
        BY <1>6, <3>3, <4>1
      <4>3. IsDealing(log[i].shares, electionPubKey, r)'
        BY <1>5, <3>4, <4>2 DEF IsDealing
      <4> QED
        BY <3>4, <4>3
    <3>6. FinalOK'
      BY <3>5 DEF FinalOK
    <3> QED
      BY <1>2, <3>4, <3>6 DEF PhaseOK
  <2> QED
    BY <1>2, <2>1, <2>2
<1> QED
  BY <1>2, <1>7, <1>8, <1>9, <1>10, <1>11, ContentsKept, KeysKept DEF browsers

(* A ballot, or the end of signup or voting.                               *)
LEMMA CloseOK ==
  ASSUME CommitteeInv, handleCloseSignup \/ handleCloseVoting
  PROVE  CommitteeInv'
<1> USE DEF CommitteeInv, Types
<1>1. /\ UNCHANGED <<committeePublicKeys, electionPubKey, decryptedShares, log,
                     stored, drawn, handler, overlapped, sent, deals>>
      /\ phase' \in {"voting", "closed"} /\ (committeeFinalized \/ phase # "signup")
  BY DEF handleCloseSignup, handleCloseVoting, browsers
<1>2. CommitteeTypeOK'
  BY <1>1 DEF CommitteeTypeOK
<1>3. PhaseOK'
  <2>1. electionPubKey \in Scalars
    BY <1>1, FirstFinal DEF PhaseOK
  <2> QED
    BY <1>1, <2>1 DEF PhaseOK
<1> QED
  BY <1>1, <1>2, <1>3, ContentsKept, KeysKept, FinalKept, DealsKept DEF browsers

LEMMA CastOK ==
  ASSUME CommitteeInv, NEW v \in Voters, CastVote(v)
  PROVE  CommitteeInv' /\ Len(log) <= Len(log')
<1> USE DEF CommitteeInv, Types
<1>1. PICK proved \in Payloads,
           blob \in {eciesEncrypt(electionPubKey, p) : p \in Payloads} \cup {None} :
        log' = Append(log, [event |-> "VoteCast", baseNullifier |-> v,
                            voteCommitment |-> voteCommitment(proved), encryptedBlob |-> blob])
  BY DEF CastVote
<1> DEFINE event == [event |-> "VoteCast", baseNullifier |-> v,
                     voteCommitment |-> voteCommitment(proved), encryptedBlob |-> blob]
<1>2. /\ UNCHANGED <<phase, committeePublicKeys, electionPubKey, decryptedShares,
                     stored, drawn, handler, overlapped, sent, deals>>
      /\ electionPubKey \in Scalars
  BY DEF CastVote, browsers, PhaseOK
<1>3. voteCommitment(proved) \in Commitments
  BY DEF voteCommitment, Commitments, Payloads
<1>4. blob \in Blobs
  BY <1>2 DEF eciesEncrypt, Blobs
<1>5. event \in Events /\ event.event = "VoteCast"
  BY <1>3, <1>4 DEF Events, Votes
<1> HIDE DEF event
<1>6. log \in Seq(Events) /\ Len(log) \in Nat /\ DOMAIN log = 1 .. Len(log)
  OBVIOUS
<1>7. /\ log' \in Seq(Events) /\ Len(log') = Len(log) + 1 /\ DOMAIN log' = 1 .. Len(log) + 1
      /\ log'[Len(log) + 1] = event /\ \A i \in 1 .. Len(log) : log'[i] = log[i]
  BY <1>1, <1>5, <1>6 DEF event
<1>8. FinalOK'
  <2>1. ASSUME NEW i \in DOMAIN log', log'[i].event = "CommitteeFinalized"
        PROVE  /\ Registered' = Members /\ electionPubKey' \in Scalars
               /\ \E s \in Randoms : IsDealing(log[i].shares, electionPubKey, s)'
    <3>1. i \in 1 .. Len(log) /\ log'[i] = log[i]
      BY <1>5, <1>6, <1>7, <2>1
    <3>2. i \in DOMAIN log /\ log[i].event = "CommitteeFinalized"
      BY <1>6, <2>1, <3>1
    <3>3. /\ Registered = Members /\ electionPubKey \in Scalars
          /\ \E s \in Randoms : IsDealing(log[i].shares, electionPubKey, s)
      BY <3>2 DEF FinalOK
    <3> QED
      BY <1>2, <3>1, <3>3 DEF IsDealing, AllKeys, Registered
  <2> QED
    BY <2>1 DEF FinalOK
<1>9. CommitteeTypeOK'
  BY <1>2 DEF CommitteeTypeOK
<1>10. Len(log) <= Len(log')
  BY <1>6, <1>7
<1> QED
  BY <1>2, <1>7, <1>8, <1>9, <1>10, ContentsKept, KeysKept, DealsKept, PhaseKept DEF browsers

(* What every step does with the chain: the log only grows, before voting  *)
(* is closed, and shares are kept.                                         *)
Growing ==
  /\ Len(log) <= Len(log') /\ \A i \in 1 .. Len(log) : log'[i] = log[i]
  /\ \A i \in Len(log) + 1 .. Len(log') :
       \/ /\ phase = "signup" /\ log'[i].event = "CommitteeFinalized"
       \/ /\ phase = "voting" /\ log'[i].event = "VoteCast"
          /\ log'[i].encryptedBlob # None => log'[i].encryptedBlob.to = electionPubKey
  /\ electionPubKey' # electionPubKey =>
       /\ phase = "signup"
       /\ \E i \in 1 .. Len(log') : log'[i].event = "CommitteeFinalized"
  /\ phase # "signup" => phase' # "signup"
  /\ phase = "closed" => phase' = "closed"
  /\ \A m \in Members : hasSubmittedShare(m) => decryptedShares'[m] = decryptedShares[m]

(* A step that leaves the log and the key alone. *)
LEMMA QuietGrows ==
  ASSUME Types, UNCHANGED <<phase, electionPubKey, log>>,
         \A m \in Members : hasSubmittedShare(m) => decryptedShares'[m] = decryptedShares[m]
  PROVE  Growing
<1>1. Len(log) \in Nat
  BY DEF Types
<1> QED
  BY <1>1 DEF Growing

(* A share that is on chain is not overwritten.                            *)
LEMMA SubmitGrows ==
  ASSUME Types, NEW m \in Members, NEW bytes, Submit(m, bytes)
  PROVE  \A k \in Members : hasSubmittedShare(k) => decryptedShares'[k] = decryptedShares[k]
BY DEF Types, CommitteeTypeOK, Submit, hasSubmittedShare

(* A ceremony is finalized during signup, and publishes the key with it.   *)
LEMMA FinalizeGrows ==
  ASSUME CommitteeInv, NEW d \in 1..MaxDeals, finalizeCommittee(d)
  PROVE  Growing
<1>1. Types /\ UNCHANGED <<phase, decryptedShares>>
  BY DEF finalizeCommittee, CommitteeInv
<1>2. CASE Finalizable
  <2> DEFINE e == [event |-> "CommitteeFinalized", shares |-> deals[d].setup.encryptedShares]
             n == Len(log)
  <2>1. log' = Append(log, e) /\ phase = "signup" /\ e.event = "CommitteeFinalized"
    BY <1>2 DEF finalizeCommittee, Finalizable
  <2> HIDE DEF e
  <2>2. log \in Seq(Events) /\ n \in Nat
    BY <1>1 DEF Types
  <2>3. Len(log') = n + 1 /\ (\A i \in 1..n : log'[i] = log[i]) /\ log'[n + 1] = e
    BY <2>1, <2>2
  <2>4. \A i \in n + 1 .. Len(log') : i = n + 1
    BY <2>2, <2>3
  <2>5. n + 1 \in 1 .. Len(log') /\ n <= Len(log')
    BY <2>2, <2>3
  <2> HIDE DEF n
  <2> QED
    BY <1>1, <2>1, <2>3, <2>4, <2>5 DEF Growing, n
<1>3. CASE ~Finalizable
  BY <1>1, <1>3, QuietGrows DEF finalizeCommittee
<1> QED
  BY <1>2, <1>3

(* A ballot is cast during voting, under the key of the election.          *)
LEMMA CastGrows ==
  ASSUME CommitteeInv, NEW v \in Voters, CastVote(v)
  PROVE  Growing
<1>1. Types /\ phase = "voting" /\ UNCHANGED <<phase, electionPubKey, decryptedShares>>
  BY DEF CastVote, CommitteeInv
<1>2. PICK proved \in Payloads,
           blob \in {eciesEncrypt(electionPubKey, p) : p \in Payloads} \cup {None} :
        log' = Append(log, [event |-> "VoteCast", baseNullifier |-> v,
                            voteCommitment |-> voteCommitment(proved), encryptedBlob |-> blob])
  BY DEF CastVote
<1> DEFINE e == [event |-> "VoteCast", baseNullifier |-> v,
                 voteCommitment |-> voteCommitment(proved), encryptedBlob |-> blob]
           n == Len(log)
<1>3. /\ log' = Append(log, e) /\ e.event = "VoteCast"
      /\ e.encryptedBlob # None => e.encryptedBlob.to = electionPubKey
  BY <1>2 DEF eciesEncrypt
<1> HIDE DEF e
<1>4. log \in Seq(Events) /\ n \in Nat
  BY <1>1 DEF Types
<1>5. Len(log') = n + 1 /\ (\A i \in 1..n : log'[i] = log[i]) /\ log'[n + 1] = e
  BY <1>3, <1>4
<1>6. \A i \in n + 1 .. Len(log') : i = n + 1
  BY <1>4, <1>5
<1>7. n <= Len(log')
  BY <1>4, <1>5
<1> HIDE DEF n
<1> QED
  BY <1>1, <1>3, <1>5, <1>6, <1>7 DEF Growing, n

(* Every step of the system.                                               *)
LEMMA ChainGrows ==
  ASSUME CommitteeInv, [ResultsNext]_resultsVars
  PROVE  Growing
<1>1. Types
  BY DEF CommitteeInv
<1>2. ASSUME UNCHANGED onChain PROVE Growing
  BY <1>1, <1>2, QuietGrows DEF onChain
<1>3. ASSUME NEW m \in Members, MemberStep(m) PROVE Growing
  <2>1. CASE SubmitByHand(m)
    <3>1. PICK bytes \in HandBytes : Submit(m, bytes)
      BY <2>1 DEF SubmitByHand
    <3> QED
      BY <1>1, <2>1, <3>1, SubmitGrows, QuietGrows DEF SubmitByHand
  <2>2. CASE ~SubmitByHand(m)
    BY <1>2, <1>3, <2>2
    DEF MemberStep, handleRegisterCommitteeKey, SignCall, GiveUp, handleSubmitDecryptedShare
  <2> QED
    BY <2>1, <2>2
<1>4. ASSUME NEW d \in 1..MaxDeals, AdminStep(d) PROVE Growing
  <2>1. CASE finalizeCommittee(d)
    BY <2>1, FinalizeGrows
  <2>2. CASE ~finalizeCommittee(d)
    BY <1>2, <1>4, <2>2 DEF AdminStep, StartDeal, ReadKey, SignDeal, GiveUpDeal
  <2> QED
    BY <2>1, <2>2
<1>5. ASSUME NEW t \in sent, registerCommitteeKey(t) \/ submitDecryptedShare(t) PROVE Growing
  <2>1. CASE registerCommitteeKey(t)
    BY <1>1, <2>1, QuietGrows DEF registerCommitteeKey
  <2>2. CASE submitDecryptedShare(t)
    <3>1. t.from \in Members
      BY <1>1 DEF Types, CommitteeTypeOK
    <3> QED
      BY <1>1, <2>2, <3>1, SubmitGrows, QuietGrows DEF submitDecryptedShare
  <2> QED
    BY <1>5, <2>1, <2>2
<1>6. CASE handleCloseSignup
  <2>1. Len(log) \in Nat
    BY <1>1 DEF Types
  <2> QED
    BY <1>6, <2>1 DEF handleCloseSignup, Growing
<1>7. CASE handleCloseVoting
  <2>1. Len(log) \in Nat
    BY <1>1 DEF Types
  <2> QED
    BY <1>7, <2>1 DEF handleCloseVoting, Growing
<1>8. ASSUME NEW v \in Voters, CastVote(v) PROVE Growing
  BY <1>8, CastGrows
<1>9. CASE CommitteeNext
  BY <1>3, <1>4, <1>5, <1>6, <1>9 DEF CommitteeNext, Mined
<1>10. CASE UNCHANGED committeeVars
  BY <1>2, <1>10 DEF committeeVars
<1> QED
  BY <1>7, <1>8, <1>9, <1>10
  DEF ResultsNext, resultsVars, SwitchTab, Reload, Retally, runTally, runOnChainCommitteeTally, Begin,
      TallyStep, ReadShare, ReadHeight, FetchVotes, SetTallyResult, TallyFails, Page,
      handleCommitTally, commitTallyResult

(* Every step of the ceremony. *)
LEMMA CommitteeStep ==
  ASSUME CommitteeInv, CommitteeNext
  PROVE  CommitteeInv'
<1>1. ASSUME NEW m \in Members, MemberStep(m) PROVE CommitteeInv'
  BY <1>1, DrawKey, SignOK, GiveUpOK, PrepareShareOK, ByHandOK DEF MemberStep
<1>2. ASSUME NEW d \in 1..MaxDeals, AdminStep(d) PROVE CommitteeInv'
  BY <1>2, StartDealOK, ReadKeyOK, SignDealOK, GiveUpDealOK, FinalizeOK DEF AdminStep
<1>3. ASSUME NEW t \in sent, registerCommitteeKey(t) \/ submitDecryptedShare(t)
      PROVE  CommitteeInv'
  BY <1>3, RegisterOK, MinedShareOK
<1> QED
  BY <1>1, <1>2, <1>3, CloseOK DEF CommitteeNext, Mined

LEMMA CommitteeStutters ==
  ASSUME CommitteeInv, UNCHANGED committeeVars
  PROVE  CommitteeInv'
<1>1. UNCHANGED <<phase, committeePublicKeys, electionPubKey, decryptedShares, log,
                  stored, drawn, handler, overlapped, sent, deals>>
  BY DEF committeeVars, onChain, browsers
<1>2. Types'
  BY <1>1 DEF CommitteeInv, Types, CommitteeTypeOK
<1> QED
  BY <1>1, <1>2, ContentsKept, KeysKept, FinalKept, DealsKept, PhaseKept
  DEF CommitteeInv, browsers

-----------------------------------------------------------------------------
(* The steps of the page. *)

(* A page that has just been loaded. *)
LEMMA FreshOK ==
  /\ FreshPage \in PageSet /\ FreshPage.height = 0 /\ FreshPage.step = "idle"
  /\ FreshPage.tab = "other" /\ FreshPage.shares = <<>>
<1>1. <<>> \in Seq(ShareSet \cup {Junk}) /\ <<>> \in Seq(Votes)
  OBVIOUS
<1> QED
  BY <1>1 DEF FreshPage, PageSet

(* A page that runs no tally is in order.                                  *)
LEMMA RestOK ==
  ASSUME Types', page' \in PageSet, page'.height <= Len(log'),
         page'.step \in {"idle", "crashed"}, tallies' \in 0..MaxTallies
  PROVE  PageOK'
BY DEF PageOK

(* A step of the chain leaves what a page has read in order. *)
LEMMA PageKept ==
  ASSUME CommitteeInv, PageOK, Types', Growing, UNCHANGED <<page, tallies>>
  PROVE  PageOK'
<1>1. page \in PageSet /\ page.height \in Nat /\ page.seen \in SUBSET Members
  BY DEF PageOK, PageSet
<1>2. page.height <= Len(log')
  <2>1. Len(log) \in Nat /\ Len(log') \in Nat
    BY DEF CommitteeInv, Types
  <2> QED
    BY <1>1, <2>1 DEF PageOK, Growing
<1>3. ASSUME page.step = "shares", NEW m \in page.seen
      PROVE  decryptedShares'[m] # None
  BY <1>1, <1>3 DEF PageOK, Growing, hasSubmittedShare
<1> QED
  BY <1>2, <1>3 DEF PageOK

(* A page that shows its result, or fails to. *)
LEMMA RenderedOK ==
  ASSUME CommitteeInv, Types', NEW new \in PageSet, new.height <= Len(log),
         new.step = "shares" => /\ Len(new.shares) < Cardinality(new.seen)
                                /\ \A m \in new.seen : decryptedShares[m] # None,
         new.step \in {"height", "fetch", "done"} /\ new.shares = <<>> => new.key \in Scalars,
         Page(Rendered(new)), PageOK
  PROVE  PageOK'
<1> DEFINE crashed == [FreshPage EXCEPT !.step = "crashed"]
<1>1. /\ page' = crashed \/ page' = new
      /\ tallies' = tallies /\ log' = log /\ decryptedShares' = decryptedShares
  BY DEF Page, Rendered, committeeVars, onChain
<1>2. crashed \in PageSet /\ crashed.height = 0 /\ crashed.step = "crashed"
  BY FreshOK DEF PageSet
<1> HIDE DEF crashed
<1>3. CASE page' = crashed
  <2>1. Len(log') \in Nat
    BY DEF Types
  <2> QED
    BY <1>1, <1>2, <1>3, <2>1 DEF PageOK
<1>4. CASE page' = new
  BY <1>1, <1>4 DEF PageOK
<1> QED
  BY <1>1, <1>3, <1>4

(* The shares that a tally combines are shares. *)
LEMMA WholeType ==
  ASSUME NEW shares \in Seq(ShareSet \cup {Junk})
  PROVE  Whole(shares) \in Seq(ShareSet)
<1> DEFINE I == {i \in DOMAIN shares : shares[i] # Junk}
<1>1. DOMAIN shares = 1 .. Len(shares) /\ \A i \in DOMAIN shares : shares[i] \in ShareSet \cup {Junk}
  OBVIOUS
<1>2. I \in SUBSET (1 .. Len(shares)) /\ \A i \in I : shares[i] \in ShareSet
  BY <1>1
<1> HIDE DEF I
<1>3. Subsequence(shares, I) \in Seq(ShareSet)
  BY <1>2, SubsequenceType
<1> QED
  BY <1>3 DEF Whole, I

(* The ballots of a part of the log are ballots. *)
LEMMA BallotsType ==
  ASSUME NEW events \in Seq(Events)
  PROVE  BallotsOf(events) \in Seq(Votes)
<1> DEFINE I == {i \in DOMAIN events : events[i].event = "VoteCast"}
<1>1. DOMAIN events = 1 .. Len(events) /\ \A i \in DOMAIN events : events[i] \in Events
  OBVIOUS
<1>2. \A e \in Events : e.event = "VoteCast" => e \in Votes
  BY DEF Events, Finals
<1>3. I \in SUBSET (1 .. Len(events)) /\ \A i \in I : events[i] \in Votes
  BY <1>1, <1>2
<1> HIDE DEF I
<1>4. Subsequence(events, I) \in Seq(Votes)
  BY <1>3, SubsequenceType
<1> QED
  BY <1>4 DEF BallotsOf, I

(* The steps of the page, one lemma for each. *)
LEMMA SwitchOK ==
  ASSUME CommitteeInv, PageOK, Types', SwitchTab
  PROVE  PageOK'
<1>1. PICK tab \in {"results", "other"} \ {page.tab} : Page(Rendered([page EXCEPT !.tab = tab]))
  BY DEF SwitchTab
<1> DEFINE new == [page EXCEPT !.tab = tab]
<1>2. page \in PageSet
  BY DEF PageOK
<1>3. /\ new \in PageSet /\ new.height = page.height /\ new.step = page.step
      /\ new.shares = page.shares /\ new.seen = page.seen /\ new.key = page.key
  BY <1>2 DEF PageSet
<1> HIDE DEF new
<1>4. Page(Rendered(new))
  BY <1>1 DEF new
<1> QED
  BY <1>3, <1>4, RenderedOK DEF PageOK

LEMMA FreshStepOK ==
  ASSUME CommitteeInv, PageOK, Types', Reload \/ Retally
  PROVE  PageOK'
<1> DEFINE again == [FreshPage EXCEPT !.tab = "results"]
<1>1. again \in PageSet /\ again.height = 0 /\ again.step = "idle"
  BY FreshOK DEF PageSet
<1> HIDE DEF again
<1>2. page' \in PageSet /\ page'.height = 0 /\ page'.step = "idle" /\ tallies' = tallies
  BY <1>1, FreshOK DEF Reload, Retally, Page, again
<1>3. Len(log') \in Nat
  BY DEF Types
<1>4. page'.height <= Len(log')
  BY <1>2, <1>3
<1> QED
  BY <1>2, <1>4, RestOK DEF PageOK

LEMMA BeginOK ==
  ASSUME CommitteeInv, PageOK, Types', NEW step, NEW seen \in SUBSET Members,
         NEW key \in Scalars \cup {None}, Begin(step, seen, key),
         \/ step = "height" /\ key \in Scalars
         \/ /\ step = "shares" /\ 0 < Cardinality(seen)
            /\ \A m \in seen : hasSubmittedShare(m)
  PROVE  PageOK'
<1> DEFINE new == [FreshPage EXCEPT !.tab = "results", !.step = step, !.seen = seen, !.key = key]
<1>1. /\ page' = new /\ tallies' = tallies + 1 /\ tallies < MaxTallies
      /\ log' = log /\ decryptedShares' = decryptedShares
  BY DEF Begin, committeeVars, onChain
<1>2. /\ new \in PageSet /\ new.height = 0 /\ new.step = step /\ new.seen = seen
      /\ new.shares = <<>> /\ new.key = key
  BY FreshOK DEF PageSet
<1> HIDE DEF new
<1>3. Len(log') \in Nat /\ Len(<<>>) = 0
  BY DEF Types
<1>4. tallies' \in 0..MaxTallies
  BY <1>1, ResultsAssumption DEF PageOK
<1>5. \A m \in seen : hasSubmittedShare(m) => decryptedShares'[m] # None
  BY <1>1 DEF hasSubmittedShare
<1> QED
  BY <1>1, <1>2, <1>3, <1>4, <1>5 DEF PageOK

LEMMA RunOK ==
  ASSUME CommitteeInv, PageOK, Types', runTally \/ runOnChainCommitteeTally
  PROVE  PageOK'
<1>1. CASE runTally
  <2>1. PICK key \in PastedKeys \cup {electionPubKey} : Begin("height", {}, key)
    BY <1>1 DEF runTally
  <2>2. key \in Scalars /\ {} \in SUBSET Members
    BY <1>1, <2>1, ResultsAssumption DEF runTally, CommitteeInv, Types, CommitteeTypeOK
  <2> QED
    BY <2>1, <2>2, BeginOK
<1>2. CASE runOnChainCommitteeTally
  <2>1. PICK seen \in SUBSET {m \in Members : hasSubmittedShare(m)} :
          Cardinality(seen) >= Threshold /\ Begin("shares", seen, None)
    BY <1>2 DEF runOnChainCommitteeTally
  <2>2. seen \in SUBSET Members /\ \A m \in seen : hasSubmittedShare(m)
    BY <2>1
  <2>3. 0 < Cardinality(seen)
    <3>1. Cardinality(seen) \in Nat
      BY <2>2, CountPlaces, FS_CardinalityType
    <3> QED
      BY <2>1, <3>1, Places
  <2> QED
    BY <2>1, <2>2, <2>3, BeginOK
<1> QED
  BY <1>1, <1>2

(* A share is read from the chain: what was seen there stays there.        *)
LEMMA ReadShareOK ==
  ASSUME CommitteeInv, PageOK, Types', ReadShare
  PROVE  PageOK'
<1> DEFINE P == PlacesOf(page.seen)
           seen == Subsequence(Committee, P)
           next == Len(page.shares) + 1
           share == decryptedShares[seen[next]]
           read == Append(page.shares, share)
           step == IF Len(read) < Cardinality(page.seen) THEN "shares"
                   ELSE IF Enough(Whole(read)) THEN "height" ELSE "idle"
           new == [page EXCEPT !.shares = read, !.step = step]
<1>1. /\ page \in PageSet /\ page.step = "shares" /\ page.seen \in SUBSET Members
      /\ page.shares \in Seq(ShareSet \cup {Junk})
      /\ Len(page.shares) < Cardinality(page.seen)
      /\ \A m \in page.seen : decryptedShares[m] # None
  BY DEF ReadShare, Awaits, PageOK, PageSet
<1>2. /\ page' = new /\ tallies' = tallies /\ log' = log /\ decryptedShares' = decryptedShares
  <2>1. {i \in DOMAIN Committee : Committee[i] \in page.seen} = P
    BY Places DEF PlacesOf, Size
  <2> QED
    BY <2>1 DEF ReadShare, Page, committeeVars, onChain
<1>3. /\ seen \in Seq(page.seen) /\ Len(seen) = Cardinality(page.seen)
      /\ Cardinality(page.seen) \in Nat
  <2>1. /\ P \in SUBSET (1 .. Len(Committee)) /\ Cardinality(P) = Cardinality(page.seen)
        /\ IsFiniteSet(page.seen)
    BY <1>1, CountPlaces DEF Size
  <2>2. \A i \in P : Committee[i] \in page.seen
    BY DEF PlacesOf
  <2>3. Committee \in Seq(Members)
    BY CommitteeAssumption
  <2> HIDE DEF P
  <2> QED
    BY <2>1, <2>2, <2>3, SubsequenceType, FS_CardinalityType
<1> HIDE DEF seen
<1>4. seen[next] \in page.seen
  BY <1>1, <1>3
<1>5. share \in ShareSet \cup {Junk}
  BY <1>1, <1>4 DEF CommitteeInv, Types, CommitteeTypeOK
<1> HIDE DEF share
<1>6. read \in Seq(ShareSet \cup {Junk}) /\ read # <<>>
  BY <1>1, <1>5
<1> HIDE DEF read
<1>7. step \in {"shares", "height", "idle"} /\ (step = "shares" => Len(read) < Cardinality(page.seen))
  OBVIOUS
<1> HIDE DEF step
<1>8. /\ new \in PageSet /\ new.step = step /\ new.shares = read
      /\ new.seen = page.seen /\ new.height = page.height
  BY <1>1, <1>6, <1>7 DEF PageSet
<1> HIDE DEF new
<1> QED
  BY <1>1, <1>2, <1>6, <1>7, <1>8 DEF PageOK

LEMMA ReadHeightOK ==
  ASSUME CommitteeInv, PageOK, Types', ReadHeight
  PROVE  PageOK'
<1> DEFINE new == [page EXCEPT !.step = "fetch", !.height = Len(log)]
<1>1. /\ page \in PageSet /\ page.step = "height" /\ Len(log) \in Nat
      /\ page' = new /\ tallies' = tallies /\ log' = log
  BY DEF ReadHeight, Awaits, Page, PageOK, CommitteeInv, Types, committeeVars, onChain
<1>2. /\ new \in PageSet /\ new.step = "fetch" /\ new.height = Len(log)
      /\ new.shares = page.shares /\ new.key = page.key
  BY <1>1 DEF PageSet
<1> HIDE DEF new
<1> QED
  BY <1>1, <1>2 DEF PageOK

(* The ballots of one range of blocks. *)
LEMMA FetchOK ==
  ASSUME CommitteeInv, PageOK, Types', FetchVotes
  PROVE  PageOK'
<1> DEFINE more == BallotsOf(SubSeq(log, page.from, To))
           ballots == page.ballots \o more
           new == [page EXCEPT !.ballots = ballots, !.from = NextFrom]
<1>1. /\ page \in PageSet /\ page.step = "fetch" /\ log \in Seq(Events) /\ Len(log) \in Nat
      /\ page.height \in Nat /\ page.height <= Len(log) /\ page.from <= page.height
      /\ page.from \in Nat \ {0} /\ MAX_LOG_RANGE \in Nat \ {0}
      /\ page' = new /\ tallies' = tallies /\ log' = log
  BY ResultsAssumption
  DEF FetchVotes, Awaits, Page, PageOK, PageSet, CommitteeInv, Types, committeeVars, onChain
<1>2. To \in Nat /\ To <= page.height /\ page.from <= To /\ NextFrom \in Nat \ {0}
  <2> DEFINE f == page.from
             h == page.height
  <2>1. f \in Nat \ {0} /\ h \in Nat /\ f <= h
    BY <1>1
  <2> HIDE DEF f, h
  <2> QED
    BY <1>1, <2>1 DEF To, LastOf, NextFrom, f, h
<1>3. SubSeq(log, page.from, To) \in Seq(Events)
  <2> DEFINE f == page.from
             t == To
  <2>1. f \in Nat \ {0} /\ t \in Nat /\ t <= Len(log) /\ f <= t
    BY <1>1, <1>2
  <2> HIDE DEF f, t
  <2>2. SubSeq(log, f, t) \in Seq(Events)
    BY <1>1, <2>1
  <2> QED
    BY <2>2 DEF f, t
<1>4. ballots \in Seq(Votes)
  <2>1. page.ballots \in Seq(Votes)
    BY <1>1 DEF PageSet
  <2>2. more \in Seq(Votes)
    BY <1>3, BallotsType
  <2> QED
    BY <2>1, <2>2
<1> HIDE DEF ballots
<1>5. /\ new \in PageSet /\ new.step = "fetch" /\ new.height = page.height
      /\ new.shares = page.shares /\ new.key = page.key
  BY <1>1, <1>2, <1>4 DEF PageSet
<1> HIDE DEF new
<1> QED
  BY <1>1, <1>5 DEF PageOK

LEMMA SetResultOK ==
  ASSUME CommitteeInv, PageOK, Types', SetTallyResult
  PROVE  PageOK'
<1> DEFINE new == [page EXCEPT !.step = "done"]
<1>1. page \in PageSet /\ page.step = "fetch" /\ Page(Rendered(new))
  BY DEF SetTallyResult, Awaits, PageOK
<1>2. /\ new \in PageSet /\ new.height = page.height /\ new.step = "done"
      /\ new.shares = page.shares /\ new.key = page.key
  BY <1>1 DEF PageSet
<1> HIDE DEF new
<1> QED
  BY <1>1, <1>2, RenderedOK DEF PageOK

LEMMA TallyFailsOK ==
  ASSUME CommitteeInv, PageOK, Types', TallyFails
  PROVE  PageOK'
<1> DEFINE new == [page EXCEPT !.step = "idle"]
<1>1. page \in PageSet /\ page' = new /\ tallies' = tallies /\ log' = log
  BY DEF TallyFails, Page, PageOK, committeeVars, onChain
<1>2. new \in PageSet /\ new.height = page.height /\ new.step = "idle"
  BY <1>1 DEF PageSet
<1> HIDE DEF new
<1> QED
  BY <1>1, <1>2, RestOK DEF PageOK

-----------------------------------------------------------------------------
(* The whole starts in the invariant. *)
LEMMA ResultsInitOK == ResultsInit => ResultsInv
<1> SUFFICES ASSUME ResultsInit PROVE ResultsInv
  OBVIOUS
<1>1. CommitteeInv
  BY CommitteeInitOK DEF ResultsInit
<1>2. PageOK
  <2>1. page = FreshPage /\ tallies = 0
    BY DEF ResultsInit
  <2>2. Len(log) \in Nat /\ MaxTallies \in Nat
    BY <1>1, ResultsAssumption DEF CommitteeInv, Types
  <2> QED
    BY <2>1, <2>2, FreshOK DEF PageOK
<1> QED
  BY <1>1, <1>2 DEF ResultsInv

(* Every step keeps it. *)
LEMMA ResultsStep == ResultsInv /\ [ResultsNext]_resultsVars => ResultsInv'
<1> SUFFICES ASSUME ResultsInv, [ResultsNext]_resultsVars PROVE ResultsInv'
  OBVIOUS
<1>1. CommitteeInv /\ PageOK /\ Len(log) \in Nat
  BY DEF ResultsInv, CommitteeInv, Types
<1>2. ASSUME UNCHANGED committeeVars
      PROVE  CommitteeInv' /\ Types'
  BY <1>1, <1>2, CommitteeStutters DEF CommitteeInv
<1>3. Growing
  BY <1>1, ChainGrows
<1>4. CASE CommitteeNext /\ UNCHANGED <<page, tallies, commit, committed>>
  <2>1. CommitteeInv' /\ Types'
    BY <1>1, <1>4, CommitteeStep DEF CommitteeInv
  <2> QED
    BY <1>1, <1>4, <1>3, <2>1, PageKept DEF ResultsInv
<1>5. ASSUME NEW v \in Voters, CastVote(v) PROVE ResultsInv'
  <2>1. CommitteeInv' /\ Types'
    BY <1>1, <1>5, CastOK DEF CommitteeInv
  <2>2. UNCHANGED <<page, tallies>>
    BY <1>5 DEF CastVote
  <2> QED
    BY <1>1, <1>3, <2>1, <2>2, PageKept DEF ResultsInv
<1>6. CASE handleCloseVoting
  <2>1. CommitteeInv' /\ Types'
    BY <1>1, <1>6, CloseOK DEF CommitteeInv
  <2>2. UNCHANGED <<page, tallies>>
    BY <1>6 DEF handleCloseVoting
  <2> QED
    BY <1>1, <1>3, <2>1, <2>2, PageKept DEF ResultsInv
<1>7. CASE SwitchTab
  BY <1>1, <1>2, <1>7, SwitchOK DEF ResultsInv, SwitchTab, Page
<1>8. CASE Reload \/ Retally
  BY <1>1, <1>2, <1>8, FreshStepOK DEF ResultsInv, Reload, Retally, Page
<1>9. CASE runTally \/ runOnChainCommitteeTally
  BY <1>1, <1>2, <1>9, RunOK DEF ResultsInv, runTally, runOnChainCommitteeTally, Begin
<1>10. CASE TallyStep
  <2>1. CASE ReadShare
    BY <1>1, <1>2, <2>1, ReadShareOK DEF ResultsInv, ReadShare, Page
  <2>2. CASE ReadHeight
    BY <1>1, <1>2, <2>2, ReadHeightOK DEF ResultsInv, ReadHeight, Page
  <2>3. CASE FetchVotes
    BY <1>1, <1>2, <2>3, FetchOK DEF ResultsInv, FetchVotes, Page
  <2>4. CASE SetTallyResult
    BY <1>1, <1>2, <2>4, SetResultOK DEF ResultsInv, SetTallyResult, Page
  <2> QED
    BY <1>10, <2>1, <2>2, <2>3, <2>4 DEF TallyStep
<1>11. CASE TallyFails
  BY <1>1, <1>2, <1>11, TallyFailsOK DEF ResultsInv, TallyFails, Page
<1>12. CASE handleCommitTally \/ commitTallyResult
  BY <1>1, <1>2, <1>12, <1>3, PageKept DEF ResultsInv, handleCommitTally, commitTallyResult
<1>13. CASE UNCHANGED resultsVars
  BY <1>1, <1>2, <1>13, <1>3, PageKept DEF ResultsInv, resultsVars
<1> QED
  BY <1>4, <1>5, <1>6, <1>7, <1>8, <1>9, <1>10, <1>11, <1>12, <1>13 DEF ResultsNext

(* What the members' browsers, the ceremonies, the log and the page know of*)
(* each other: the inductive invariant.                                    *)
THEOREM ResultsInvariant == ResultsSpec => []ResultsInv
BY ResultsInitOK, ResultsStep, PTL DEF ResultsSpec

(* The types of the ceremony and the page; a result that is shown was      *)
(* computed with a scalar as its key.                                      *)
THEOREM ResultsTypes == ResultsSpec => []TypeOK
<1>1. ResultsInv => TypeOK
  <2> SUFFICES ASSUME ResultsInv PROVE TypeOK
    OBVIOUS
  <2>1. CommitteeTypeOK /\ log \in Seq(Events) /\ page \in PageSet
    BY DEF ResultsInv, CommitteeInv, Types, PageOK
  <2>2. ASSUME Done PROVE TallyKey \in Scalars
    <3>1. CASE page.shares = <<>>
      BY <2>2, <3>1 DEF ResultsInv, PageOK, Done, TallyKey
    <3>2. CASE page.shares # <<>>
      <4>1. Whole(page.shares) \in Seq(ShareSet)
        BY <2>1, WholeType DEF PageSet
      <4> QED
        BY <3>2, <4>1, CombineType DEF TallyKey
    <3> QED
      BY <3>1, <3>2
  <2>3. page.height \in 0 .. Len(log)
    BY <2>1 DEF ResultsInv, PageOK, PageSet
  <2>4. tallies \in 0..MaxTallies
    BY DEF ResultsInv, PageOK
  <2> QED
    BY <2>1, <2>2, <2>3, <2>4 DEF TypeOK, PageSet
<1> QED
  BY <1>1, ResultsInvariant, PTL

(* However ceremonies overlap, any members enough for the threshold        *)
(* reconstruct the published key from the shares that they were sent.      *)
THEOREM EnoughReconstruct == ResultsSpec => []SharesReconstruct
<1>1. ResultsInv => SharesReconstruct
  BY Reconstructs DEF ResultsInv, CommitteeInv, Types, CommitteeTypeOK
<1> QED
  BY <1>1, ResultsInvariant, PTL

(* One member fewer learns nothing: every key is dealt in a way that gives *)
(* the members the shares that they have.                                  *)
THEOREM FewerLearnNothing == ResultsSpec => []SharesSecret
<1>1. ResultsInv => SharesSecret
  BY Hides DEF ResultsInv, CommitteeInv, Types, CommitteeTypeOK
<1> QED
  BY <1>1, ResultsInvariant, PTL

(* After the ceremony every member opens its share with the key in its     *)
(* browser, unless it drew another one while one was on its way.           *)
THEOREM EveryoneOpens == ResultsSpec => []ShareOpens
<1>1. ResultsInv => ShareOpens
  <2> SUFFICES ASSUME ResultsInv, committeeFinalized, NEW m \in Members \ overlapped
               PROVE  CanDecrypt(m)
    BY DEF ShareOpens
  <2>1. CommitteeInv /\ log \in Seq(Events) /\ FinalOK
    BY DEF ResultsInv, CommitteeInv, Types
  <2>2. m \in Registered
    BY <2>1, FirstFinal
  <2>3. stored[m] = committeePublicKeys[m] /\ committeePublicKeys[m] # None
    BY <2>1, <2>2 DEF CommitteeInv, KeysOK, KeyStored, Registered
  <2>4. MyShare(EncryptedShares, m).encryptedData.to = committeePublicKeys[m]
    BY <2>1, ShareDealt
  <2> QED
    BY <2>3, <2>4 DEF CanDecrypt, Opens
<1> QED
  BY <1>1, ResultsInvariant, PTL

-----------------------------------------------------------------------------
(* The tally: of every nullifier the last ballot counts. *)

(* The nullifiers of the first k ballots. *)
Names(d, k) == {d[i].baseNullifier : i \in 1..k}

(* The places of the last ballots in d, and what one step of the loop      *)
(* does.                                                                   *)
LastPlaces(d) == {i \in DOMAIN d : \A j \in DOMAIN d : j > i => d[j].baseNullifier # d[i].baseNullifier}

(* The map and the count of duplicates after k ballots.                    *)
IsUnique(acc, d, k) ==
  /\ acc \in [votes : Maps(d), removed : Nat]
  /\ DOMAIN acc.votes = Names(d, k)
  /\ \A i \in 1..k :
       (\A j \in i + 1 .. k : d[j].baseNullifier # d[i].baseNullifier) =>
         acc.votes[d[i].baseNullifier] = d[i]
  /\ acc.removed + Cardinality(Names(d, k)) = k

(* What one more ballot does to them. *)
After(acc, dv) ==
  [votes |-> Put(acc.votes, dv),
   removed |-> IF dv.baseNullifier \in DOMAIN acc.votes THEN acc.removed + 1 ELSE acc.removed]

(* g is the map f with ballot dv put into it.                              *)
IsPut(g, f, d, dv) ==
  /\ g \in Maps(d)
  /\ DOMAIN g = DOMAIN f \cup {dv.baseNullifier}
  /\ g[dv.baseNullifier] = dv
  /\ \A n \in DOMAIN f : n # dv.baseNullifier => g[n] = f[n]

(* Putting a ballot into a map gives such a map.                           *)
LEMMA PutType ==
  ASSUME NEW A, NEW d \in Seq(A), NEW f \in Maps(d), NEW i \in DOMAIN d
  PROVE  IsPut(Put(f, d[i]), f, d, d[i])
<1> DEFINE x == d[i].baseNullifier
           g == [n \in DOMAIN f \cup {x} |-> IF n = x THEN d[i] ELSE f[n]]
<1>1. PICK N \in SUBSET Nullifiers(d) : f \in [N -> Range(d)]
  BY DEF Maps
<1>2. d[i] \in Range(d)
  BY DEF Range
<1>3. x \in Nullifiers(d)
  BY <1>2 DEF Nullifiers
<1>4. Put(f, d[i]) = g
  BY DEF Put, Overwrites
<1> DEFINE M == N \cup {x}
<1> HIDE DEF x
<1>5. g \in [M -> Range(d)] /\ M \in SUBSET Nullifiers(d)
  BY <1>1, <1>2, <1>3
<1> HIDE DEF M
<1>6. g \in Maps(d)
  BY <1>5 DEF Maps
<1>7. DOMAIN g = DOMAIN f \cup {x} /\ g[x] = d[i] /\ \A n \in DOMAIN f : n # x => g[n] = f[n]
  OBVIOUS
<1> HIDE DEF g
<1> QED
  BY <1>4, <1>6, <1>7 DEF x, IsPut

(* The nullifiers of one ballot more.                                      *)
LEMMA NamesNext ==
  ASSUME NEW d, NEW k \in Nat
  PROVE  Names(d, k + 1) = Names(d, k) \cup {d[k + 1].baseNullifier}
<1>1. 1 .. k + 1 = (1..k) \cup {k + 1}
  OBVIOUS
<1> QED
  BY <1>1 DEF Names

(* One step of the loop: the map has the last ballot of every nullifier so *)
(* far, and every other ballot was counted as a duplicate.                 *)
LEMMA UniqueStep ==
  ASSUME NEW A, NEW d \in Seq(A), NEW k \in 0 .. Len(d) - 1, NEW acc, IsUnique(acc, d, k),
         IsFiniteSet(Names(d, k))
  PROVE  IsUnique(After(acc, d[k + 1]), d, k + 1) /\ IsFiniteSet(Names(d, k + 1))
<1> DEFINE x == d[k + 1].baseNullifier
           new == After(acc, d[k + 1])
           votes == Put(acc.votes, d[k + 1])
           removed == IF x \in DOMAIN acc.votes THEN acc.removed + 1 ELSE acc.removed
<1>1. /\ Len(d) \in Nat /\ k \in Nat /\ k + 1 \in DOMAIN d /\ DOMAIN d = 1 .. Len(d)
      /\ acc.votes \in Maps(d) /\ acc.removed \in Nat
      /\ DOMAIN acc.votes = Names(d, k)
      /\ acc.removed + Cardinality(Names(d, k)) = k
  BY DEF IsUnique
<1>2. Names(d, k + 1) = Names(d, k) \cup {x}
  BY <1>1, NamesNext
<1>3. /\ votes \in Maps(d)
      /\ DOMAIN votes = Names(d, k + 1)
      /\ votes[x] = d[k + 1]
      /\ \A n \in Names(d, k) : n # x => votes[n] = acc.votes[n]
  <2>1. /\ votes \in Maps(d)
        /\ DOMAIN votes = DOMAIN acc.votes \cup {x}
        /\ votes[x] = d[k + 1]
        /\ \A n \in DOMAIN acc.votes : n # x => votes[n] = acc.votes[n]
    <3>1. IsPut(votes, acc.votes, d, d[k + 1])
      BY <1>1, PutType
    <3> HIDE DEF votes
    <3> QED
      BY <3>1 DEF IsPut
  <2> QED
    BY <1>1, <1>2, <2>1
<1>4. /\ IsFiniteSet(Names(d, k + 1)) /\ Cardinality(Names(d, k)) \in Nat
      /\ Cardinality(Names(d, k + 1)) =
           IF x \in Names(d, k) THEN Cardinality(Names(d, k)) ELSE Cardinality(Names(d, k)) + 1
  BY <1>2, FS_AddElement, FS_CardinalityType
<1>5. removed \in Nat /\ removed + Cardinality(Names(d, k + 1)) = k + 1
  BY <1>1, <1>4
<1>6. new.votes = votes /\ new.removed = removed /\ new = [votes |-> votes, removed |-> removed]
  BY DEF After
<1>7. ASSUME NEW i \in 1 .. k + 1,
             \A j \in i + 1 .. k + 1 : d[j].baseNullifier # d[i].baseNullifier
      PROVE  votes[d[i].baseNullifier] = d[i]
  <2>1. CASE i = k + 1
    BY <1>3, <2>1
  <2>2. CASE i # k + 1
    <3>1. i \in 1..k /\ k + 1 \in i + 1 .. k + 1
      BY <1>1, <2>2
    <3>2. d[i].baseNullifier # x
      BY <1>7, <3>1
    <3>3. \A j \in i + 1 .. k : d[j].baseNullifier # d[i].baseNullifier
      BY <1>1, <1>7
    <3>4. acc.votes[d[i].baseNullifier] = d[i]
      BY <3>1, <3>3 DEF IsUnique
    <3>5. d[i].baseNullifier \in Names(d, k)
      BY <3>1 DEF Names
    <3> QED
      BY <1>3, <3>2, <3>4, <3>5
  <2> QED
    BY <2>1, <2>2
<1> HIDE DEF votes, removed, new
<1>8. new \in [votes : Maps(d), removed : Nat]
  BY <1>3, <1>5, <1>6
<1>9. IsUnique(new, d, k + 1)
  BY <1>3, <1>5, <1>6, <1>7, <1>8 DEF IsUnique
<1> QED
  BY <1>4, <1>9 DEF new

(* The loop over the ballots. *)
LEMMA UniqueVotes ==
  ASSUME NEW A, NEW d \in Seq(A)
  PROVE  IsUnique(Unique(d), d, Len(d))
<1> DEFINE n == Len(d)
           B == [votes : Maps(d), removed : Nat]
           empty == [votes |-> <<>>, removed |-> 0]
           step == [i \in DOMAIN d |-> [acc \in B |-> After(acc, d[i])]]
<1>1. n \in Nat /\ DOMAIN d = 1..n
  OBVIOUS
<1>2. Unique(d) = Loop(step, empty, n)
  BY DEF Unique, After
<1>3. ASSUME NEW i \in 1..n, NEW acc \in B
      PROVE  After(acc, d[i]) \in B
  <2>1. acc.votes \in Maps(d) /\ acc.removed \in Nat
    OBVIOUS
  <2>2. Put(acc.votes, d[i]) \in Maps(d)
    BY <1>1, <2>1, PutType DEF IsPut
  <2> QED
    BY <2>1, <2>2 DEF After
<1>4. empty \in B
  <2>1. <<>> \in [{} -> Range(d)]
    OBVIOUS
  <2>2. <<>> \in Maps(d)
    BY <2>1 DEF Maps
  <2> QED
    BY <2>2
<1>5. step \in [1..n -> [B -> B]] /\ \A i \in 1..n, acc \in B : step[i][acc] = After(acc, d[i])
  BY <1>1, <1>3
<1> HIDE DEF step
<1>6. IsLoop(B, step, empty, n)
  BY <1>1, <1>4, <1>5 DEF IsLoop
<1>7. PICK acc : IsTrace(acc, B, step, empty, n)
  BY <1>6, LoopUnrolls
<1>8. /\ acc \in [0..n -> B] /\ acc[0] = empty /\ acc[n] = Unique(d)
      /\ \A i \in 1..n : acc[i] = step[i][acc[i - 1]]
  BY <1>2, <1>7 DEF IsTrace
<1> DEFINE Good(k) == IsUnique(acc[k], d, k) /\ IsFiniteSet(Names(d, k))
           S == {k \in 0..n : Good(k)}
<1>9. 0 \in S
  <2>1. Names(d, 0) = {}
    BY DEF Names
  <2>2. IsFiniteSet({}) /\ Cardinality({}) = 0
    BY FS_EmptySet
  <2>3. IsUnique(empty, d, 0)
    BY <1>4, <2>1, <2>2 DEF IsUnique
  <2>4. 0 \in 0..n
    BY <1>1
  <2> QED
    BY <1>8, <2>1, <2>2, <2>3, <2>4
<1>10. ASSUME NEW k \in 0 .. n - 1, k \in S
       PROVE  k + 1 \in S
  <2>1. k \in 0..n /\ k + 1 \in 0..n /\ k + 1 \in 1..n /\ k + 1 - 1 = k
    BY <1>1
  <2>2. acc[k] \in B
    BY <1>8, <2>1
  <2>3. acc[k + 1] = After(acc[k], d[k + 1])
    BY <1>5, <1>8, <2>1, <2>2
  <2>4. Good(k)
    BY <1>10
  <2> HIDE DEF n
  <2>5. IsUnique(After(acc[k], d[k + 1]), d, k + 1) /\ IsFiniteSet(Names(d, k + 1))
    BY <2>4, UniqueStep DEF n
  <2> QED
    BY <2>1, <2>3, <2>5
<1> HIDE DEF S
<1>11. 0..n \subseteq S
  BY <1>1, <1>9, <1>10, BoundedInduction, Zenon
<1> QED
  BY <1>1, <1>8, <1>11 DEF S

(* Every nullifier has a first and a last place. *)
LEMMA LastExists ==
  ASSUME NEW A, NEW d \in Seq(A), NEW i \in DOMAIN d
  PROVE  /\ \E j \in LastPlaces(d) : d[j].baseNullifier = d[i].baseNullifier
         /\ \E j \in FirstPlaces(d) : d[j].baseNullifier = d[i].baseNullifier
<1> DEFINE S == {j \in DOMAIN d : d[j].baseNullifier = d[i].baseNullifier}
<1>1. /\ Len(d) \in Nat /\ DOMAIN d = 1 .. Len(d) /\ i \in S
      /\ S \in SUBSET (0 .. Len(d)) /\ S \in SUBSET Nat /\ S # {}
  OBVIOUS
<1>2. \A j \in DOMAIN d : j \in S <=> d[j].baseNullifier = d[i].baseNullifier
  OBVIOUS
<1>3. S \subseteq DOMAIN d
  OBVIOUS
<1> HIDE DEF S
<1>4. PICK last \in S : \A k \in S : k <= last
  BY <1>1, GreatestNatural
<1>5. last \in LastPlaces(d)
  BY <1>1, <1>2, <1>3, <1>4 DEF LastPlaces
<1>6. PICK first \in S : \A k \in S : first <= k
  BY <1>1, LeastNatural
<1>7. first \in FirstPlaces(d)
  BY <1>1, <1>2, <1>3, <1>6 DEF FirstPlaces
<1> QED
  BY <1>2, <1>3, <1>4, <1>5, <1>6, <1>7

(* It has one of each. *)
LEMMA LastOnce ==
  ASSUME NEW A, NEW d \in Seq(A), NEW i, NEW j, d[i].baseNullifier = d[j].baseNullifier
  PROVE  /\ i \in LastPlaces(d) /\ j \in LastPlaces(d) => i = j
         /\ i \in FirstPlaces(d) /\ j \in FirstPlaces(d) => i = j
<1>1. Len(d) \in Nat /\ DOMAIN d = 1 .. Len(d)
  OBVIOUS
<1> QED
  BY <1>1 DEF LastPlaces, FirstPlaces

(* The values u of the map are the last ballots of the nullifiers in d.    *)
IsLast(last, u, d) ==
  /\ last \in [1 .. Len(u) -> LastPlaces(d)]
  /\ \A j, k \in 1 .. Len(u) : last[j] = last[k] => j = k
  /\ \A l \in LastPlaces(d) : \E k \in 1 .. Len(u) : last[k] = l
  /\ \A k \in 1 .. Len(u) : u[k] = d[last[k]]

(* The values that the code goes on with are the last ballots.             *)
LEMMA ValuesLast ==
  ASSUME NEW A, NEW d \in Seq(A), NEW acc, IsUnique(acc, d, Len(d))
  PROVE  /\ Values(acc.votes, d) \in Seq(A)
         /\ \E last : IsLast(last, Values(acc.votes, d), d)
<1> DEFINE votes == acc.votes
           s == [i \in DOMAIN d |-> votes[d[i].baseNullifier]]
           F == FirstPlaces(d)
           u == Values(votes, d)
           n == Len(d)
           Same(i, j) == d[i].baseNullifier = d[j].baseNullifier
<1>1. n \in Nat /\ DOMAIN d = 1..n /\ \A i \in 1..n : d[i] \in A
  OBVIOUS
<1>2. \A i \in LastPlaces(d) : i \in 1..n /\ votes[d[i].baseNullifier] = d[i]
  <2> SUFFICES ASSUME NEW i \in LastPlaces(d) PROVE i \in 1..n /\ votes[d[i].baseNullifier] = d[i]
    OBVIOUS
  <2>1. i \in 1..n /\ \A j \in i + 1 .. n : d[j].baseNullifier # d[i].baseNullifier
    BY <1>1 DEF LastPlaces
  <2> QED
    BY <2>1 DEF IsUnique
<1>3. \A i \in 1..n : \E l \in LastPlaces(d) : Same(l, i) /\ s[i] = d[l]
  <2> SUFFICES ASSUME NEW i \in 1..n PROVE \E l \in LastPlaces(d) : Same(l, i) /\ s[i] = d[l]
    OBVIOUS
  <2>1. PICK l \in LastPlaces(d) : Same(l, i)
    BY <1>1, LastExists
  <2>2. s[i] = votes[d[i].baseNullifier]
    BY <1>1
  <2> QED
    BY <1>2, <2>1, <2>2
<1>4. s \in Seq(A) /\ Len(s) = n
  <2>1. \A i \in 1..n : s[i] \in A
    BY <1>1, <1>2, <1>3
  <2> QED
    BY <1>1, <2>1
<1>5. u = Subsequence(s, F)
  BY DEF Values
<1>6. F \in SUBSET (1 .. Len(s))
  BY <1>1, <1>4 DEF FirstPlaces
<1> HIDE DEF votes, u, F, Same
<1>7. PICK at : IsSelection(at, s, F)
  BY <1>4, <1>6, SubsequenceSelects
<1>8. u \in Seq(A) /\ Len(u) = Cardinality(F)
  <2>1. \A i \in F : s[i] \in A
    BY <1>4, <1>6
  <2> HIDE DEF s
  <2> QED
    BY <1>4, <1>5, <1>6, <2>1, SubsequenceType
<1> DEFINE m == Len(u)
           L == LastPlaces(d)
<1>9. /\ at \in Seq(F) /\ Len(at) = m /\ m \in Nat
      /\ \A j, k \in 1..m : j < k => at[j] < at[k]
      /\ \A i \in F : \E k \in 1..m : at[k] = i
      /\ u = [k \in 1..m |-> s[at[k]]]
  <2> HIDE DEF s
  <2> QED
    BY <1>5, <1>7, <1>8 DEF IsSelection
<1>10. \A k \in 1..m : at[k] \in F /\ at[k] \in 1..n
  <2>1. \A k \in 1..m : at[k] \in F
    BY <1>9
  <2> QED
    BY <1>4, <1>6, <2>1
<1> DEFINE last == [k \in 1..m |-> CHOOSE l \in L : Same(l, at[k]) /\ s[at[k]] = d[l]]
<1> HIDE DEF s, m, L
<1>11. \A k \in 1..m : last[k] \in L /\ Same(last[k], at[k]) /\ s[at[k]] = d[last[k]]
  <2> SUFFICES ASSUME NEW k \in 1..m
               PROVE  last[k] \in L /\ Same(last[k], at[k]) /\ s[at[k]] = d[last[k]]
    OBVIOUS
  <2>1. \E l \in L : Same(l, at[k]) /\ s[at[k]] = d[l]
    BY <1>3, <1>10 DEF L
  <2> QED
    BY <2>1
<1>12. last \in [1..m -> L]
  BY <1>11
<1>13. DOMAIN last = 1..m
  OBVIOUS
<1> HIDE DEF last
<1>14. ASSUME NEW j \in 1..m, NEW k \in 1..m, last[j] = last[k]
       PROVE  j = k
  <2>1. Same(at[j], at[k])
    BY <1>11, <1>14 DEF Same
  <2>2. at[j] = at[k]
    BY <1>10, <2>1, LastOnce DEF Same, F
  <2>3. at[j] \in Int /\ at[k] \in Int
    BY <1>10
  <2> QED
    BY <1>9, <2>2, <2>3
<1>15. ASSUME NEW l \in L
       PROVE  \E k \in 1..m : last[k] = l
  <2>1. l \in DOMAIN d
    BY <1>1, <1>2 DEF L
  <2>2. PICK f \in F : Same(f, l)
    BY <2>1, LastExists DEF F, Same
  <2>3. PICK k \in 1..m : at[k] = f
    BY <1>9
  <2>4. last[k] \in L /\ Same(last[k], l)
    BY <1>11, <2>2, <2>3 DEF Same
  <2>5. last[k] = l
    BY <2>4, LastOnce DEF Same, L
  <2> QED
    BY <2>5
<1>16. \A k \in 1..m : u[k] = d[last[k]]
  BY <1>9, <1>11
<1>17. IsLast(last, u, d)
  BY <1>12, <1>14, <1>15, <1>16 DEF IsLast, m, L
<1> QED
  BY <1>8, <1>17 DEF u, votes

(* The places of the ballots for option o, of the countable ones, and of   *)
(* the others.                                                             *)
For(u, o) == {k \in 1 .. Len(u) : Countable(u[k]) /\ u[k].vote = o - 1}
Good(u) == {k \in 1 .. Len(u) : Countable(u[k])}
Bad(u) == {k \in 1 .. Len(u) : ~Countable(u[k])}

(* Ballots that count have one of the options, and the weight 1.           *)
OneEach(u) == \A k \in Good(u) : u[k].vote \in 0 .. NumOptions - 1 /\ u[k].weight = 1

(* The counts after k ballots. *)
IsCount(acc, u, k) ==
  /\ acc \in [counts : [1..NumOptions -> Nat], invalid : Nat]
  /\ \A o \in 1..NumOptions : acc.counts[o] = Cardinality(For(u, o) \cap (1..k))
  /\ acc.invalid = Cardinality(Bad(u) \cap (1..k))

(* What one more ballot does to the counts.                                *)
Counted(acc, dv) ==
  IF Countable(dv) THEN [acc EXCEPT !.counts[dv.vote + 1] = @ + dv.weight]
  ELSE [acc EXCEPT !.invalid = @ + 1]

(* One step of the loop over the unique ballots.                           *)
LEMMA CountStep ==
  ASSUME NEW A, NEW u \in Seq(A), OneEach(u), NEW k \in 0 .. Len(u) - 1, NEW acc, IsCount(acc, u, k)
  PROVE  IsCount(Counted(acc, u[k + 1]), u, k + 1)
<1> DEFINE C == acc.counts
           b == acc.invalid
           dv == u[k + 1]
<1>1. /\ Len(u) \in Nat /\ k \in Nat /\ k + 1 \in 1 .. Len(u) /\ NumOptions \in Nat
      /\ acc = [counts |-> C, invalid |-> b]
      /\ C \in [1..NumOptions -> Nat] /\ b \in Nat
      /\ \A o \in 1..NumOptions : C[o] = Cardinality(For(u, o) \cap (1..k))
      /\ b = Cardinality(Bad(u) \cap (1..k))
  BY OptionsAssumption DEF IsCount
<1>2. Bad(u) \in SUBSET Nat /\ \A o \in 1..NumOptions : For(u, o) \in SUBSET Nat
  BY DEF Bad, For
<1>3. /\ Cardinality(Bad(u) \cap (1 .. k + 1)) = b + (IF k + 1 \in Bad(u) THEN 1 ELSE 0)
      /\ \A o \in 1..NumOptions :
           Cardinality(For(u, o) \cap (1 .. k + 1)) = C[o] + (IF k + 1 \in For(u, o) THEN 1 ELSE 0)
  <2>1. Cardinality(Bad(u) \cap (1 .. k + 1)) =
          Cardinality(Bad(u) \cap (1..k)) + (IF k + 1 \in Bad(u) THEN 1 ELSE 0)
    BY <1>1, <1>2, CountUpTo
  <2>2. ASSUME NEW o \in 1..NumOptions
        PROVE  Cardinality(For(u, o) \cap (1 .. k + 1)) =
                 Cardinality(For(u, o) \cap (1..k)) + (IF k + 1 \in For(u, o) THEN 1 ELSE 0)
    BY <1>1, <1>2, CountUpTo
  <2> HIDE DEF C, b
  <2> QED
    BY <1>1, <2>1, <2>2
<1> HIDE DEF C, b
<1>4. CASE Countable(dv)
  <2> DEFINE v == dv.vote + 1
             D == [C EXCEPT ![v] = @ + dv.weight]
  <2>1. dv.weight = 1 /\ v \in 1..NumOptions /\ dv.vote = v - 1
    BY <1>1, <1>4 DEF OneEach, Good
  <2>2. Counted(acc, dv) = [acc EXCEPT !.counts[v] = @ + dv.weight]
    BY <1>4 DEF Counted
  <2> HIDE DEF dv
  <2>3. Counted(acc, dv) = [counts |-> D, invalid |-> b]
    BY <1>1, <2>2
  <2>4. k + 1 \notin Bad(u) /\ \A o \in 1..NumOptions : k + 1 \in For(u, o) <=> o = v
    <3>1. k + 1 \notin Bad(u)
      BY <1>4 DEF Bad, dv
    <3>2. ASSUME NEW o \in 1..NumOptions
          PROVE  k + 1 \in For(u, o) <=> o = v
      <4>1. k + 1 \in For(u, o) <=> dv.vote = o - 1
        BY <1>1, <1>4 DEF For, dv
      <4> HIDE DEF v
      <4> QED
        BY <1>1, <2>1, <4>1
    <3> QED
      BY <3>1, <3>2
  <2> HIDE DEF v
  <2>5. D \in [1..NumOptions -> Nat] /\ \A o \in 1..NumOptions : D[o] = IF o = v THEN C[o] + 1 ELSE C[o]
    BY <1>1, <2>1
  <2> HIDE DEF D
  <2>6. \A o \in 1..NumOptions : D[o] = Cardinality(For(u, o) \cap (1 .. k + 1))
    <3> SUFFICES ASSUME NEW o \in 1..NumOptions
                 PROVE  D[o] = Cardinality(For(u, o) \cap (1 .. k + 1))
      OBVIOUS
    <3>1. C[o] \in Nat
      BY <1>1
    <3> QED
      BY <1>3, <2>4, <2>5, <3>1
  <2>7. b = Cardinality(Bad(u) \cap (1 .. k + 1))
    BY <1>1, <1>3, <2>4
  <2>8. [counts |-> D, invalid |-> b] \in [counts : [1..NumOptions -> Nat], invalid : Nat]
    BY <1>1, <2>5
  <2>9. IsCount([counts |-> D, invalid |-> b], u, k + 1)
    BY <2>6, <2>7, <2>8 DEF IsCount
  <2> QED
    BY <2>3, <2>9 DEF dv
<1>5. CASE ~Countable(dv)
  <2>1. Counted(acc, dv) = [acc EXCEPT !.invalid = @ + 1]
    BY <1>5 DEF Counted
  <2> HIDE DEF dv
  <2>2. Counted(acc, dv) = [counts |-> C, invalid |-> b + 1]
    BY <1>1, <2>1
  <2>3. k + 1 \in Bad(u) /\ \A o \in 1..NumOptions : k + 1 \notin For(u, o)
    BY <1>1, <1>5 DEF Bad, For, dv
  <2>4. \A o \in 1..NumOptions : C[o] = Cardinality(For(u, o) \cap (1 .. k + 1))
    <3> SUFFICES ASSUME NEW o \in 1..NumOptions
                 PROVE  C[o] = Cardinality(For(u, o) \cap (1 .. k + 1))
      OBVIOUS
    <3>1. C[o] \in Nat
      BY <1>1
    <3> QED
      BY <1>3, <2>3, <3>1
  <2>5. b + 1 = Cardinality(Bad(u) \cap (1 .. k + 1))
    BY <1>3, <2>3
  <2>6. [counts |-> C, invalid |-> b + 1] \in [counts : [1..NumOptions -> Nat], invalid : Nat]
    BY <1>1
  <2>7. IsCount([counts |-> C, invalid |-> b + 1], u, k + 1)
    BY <2>4, <2>5, <2>6 DEF IsCount
  <2> QED
    BY <2>2, <2>7 DEF dv
<1> QED
  BY <1>4, <1>5

(* The loop over the unique ballots. *)
LEMMA CountBallots ==
  ASSUME NEW A, NEW u \in Seq(A), OneEach(u)
  PROVE  IsCount(Count(u), u, Len(u))
<1> DEFINE n == Len(u)
           B == [counts : [1..NumOptions -> Nat], invalid : Nat]
           none == [counts |-> [o \in 1..NumOptions |-> 0], invalid |-> 0]
           step == [i \in DOMAIN u |-> [acc \in B |-> Counted(acc, u[i])]]
<1>1. n \in Nat /\ DOMAIN u = 1..n /\ NumOptions \in Nat
  BY OptionsAssumption
<1>2. Count(u) = Loop(step, none, n)
  BY DEF Count, Counted
<1>3. ASSUME NEW i \in 1..n, NEW acc \in B
      PROVE  Counted(acc, u[i]) \in B
  <2>1. CASE Countable(u[i])
    <3> DEFINE v == u[i].vote + 1
               w == u[i].weight
    <3>1. w = 1 /\ v \in 1..NumOptions
      BY <1>1, <2>1 DEF OneEach, Good
    <3>2. Counted(acc, u[i]) = [acc EXCEPT !.counts[v] = @ + w]
      BY <2>1 DEF Counted
    <3> DEFINE C == acc.counts
               b == acc.invalid
               D == [C EXCEPT ![v] = @ + w]
    <3> HIDE DEF v, w
    <3>3. C \in [1..NumOptions -> Nat] /\ b \in Nat /\ acc = [counts |-> C, invalid |-> b]
      OBVIOUS
    <3> HIDE DEF C, b
    <3>4. Counted(acc, u[i]) = [counts |-> D, invalid |-> b]
      BY <3>2, <3>3
    <3>5. D \in [1..NumOptions -> Nat]
      BY <3>1, <3>3
    <3> HIDE DEF D
    <3> QED
      BY <3>3, <3>4, <3>5
  <2>2. CASE ~Countable(u[i])
    <3>1. Counted(acc, u[i]) = [acc EXCEPT !.invalid = @ + 1]
      BY <2>2 DEF Counted
    <3> QED
      BY <3>1
  <2> QED
    BY <2>1, <2>2
<1>4. none \in B
  OBVIOUS
<1>5. step \in [1..n -> [B -> B]] /\ \A i \in 1..n, acc \in B : step[i][acc] = Counted(acc, u[i])
  BY <1>1, <1>3
<1> HIDE DEF step
<1>6. IsLoop(B, step, none, n)
  BY <1>1, <1>4, <1>5 DEF IsLoop
<1>7. PICK acc : IsTrace(acc, B, step, none, n)
  BY <1>6, LoopUnrolls
<1>8. /\ acc \in [0..n -> B] /\ acc[0] = none /\ acc[n] = Count(u)
      /\ \A i \in 1..n : acc[i] = step[i][acc[i - 1]]
  BY <1>2, <1>7 DEF IsTrace
<1> DEFINE S == {k \in 0..n : IsCount(acc[k], u, k)}
<1>9. 0 \in S
  <2>1. Cardinality({}) = 0 /\ 1..0 = {}
    BY FS_EmptySet
  <2>2. Bad(u) \cap (1..0) = {} /\ \A o \in 1..NumOptions : For(u, o) \cap (1..0) = {}
    BY <2>1
  <2>3. IsCount(none, u, 0)
    BY <1>4, <2>1, <2>2 DEF IsCount
  <2>4. 0 \in 0..n
    BY <1>1
  <2> QED
    BY <1>8, <2>3, <2>4
<1>10. ASSUME NEW k \in 0 .. n - 1, k \in S
       PROVE  k + 1 \in S
  <2>1. k \in 0..n /\ k + 1 \in 0..n /\ k + 1 \in 1..n /\ k + 1 - 1 = k
    BY <1>1
  <2>2. acc[k] \in B
    BY <1>8, <2>1
  <2>3. acc[k + 1] = Counted(acc[k], u[k + 1])
    <3> HIDE DEF B, n
    <3>1. acc[k + 1] = step[k + 1][acc[k + 1 - 1]]
      BY <1>8, <2>1
    <3> QED
      BY <1>5, <2>1, <2>2, <3>1
  <2>4. IsCount(acc[k], u, k)
    BY <1>10
  <2>5. IsCount(Counted(acc[k], u[k + 1]), u, k + 1)
    BY <2>4, CountStep
  <2> QED
    BY <2>1, <2>3, <2>5
<1> HIDE DEF S
<1>11. 0..n \subseteq S
  BY <1>1, <1>9, <1>10, BoundedInduction, Zenon
<1> QED
  BY <1>1, <1>8, <1>11 DEF S

(* All the options together have the ballots that count.                   *)
LEMMA TotalBallots ==
  ASSUME NEW A, NEW u \in Seq(A), OneEach(u), NEW counts \in [1..NumOptions -> Nat],
         \A o \in 1..NumOptions : counts[o] = Cardinality(For(u, o))
  PROVE  Total(counts) = Cardinality(Good(u))
<1> DEFINE n == NumOptions
           step == [o \in 1..n |-> [a \in Nat |-> a + counts[o]]]
           Earlier(o) == {k \in Good(u) : u[k].vote < o}
<1>1. n \in Nat /\ Total(counts) = Loop(step, 0, n)
  BY OptionsAssumption DEF Total
<1>2. step \in [1..n -> [Nat -> Nat]] /\ \A i \in 1..n, a \in Nat : step[i][a] = a + counts[i]
  OBVIOUS
<1> HIDE DEF step
<1>3. IsLoop(Nat, step, 0, n)
  BY <1>1, <1>2 DEF IsLoop
<1>4. PICK acc : IsTrace(acc, Nat, step, 0, n)
  BY <1>3, LoopUnrolls
<1>5. /\ acc \in [0..n -> Nat] /\ acc[0] = 0 /\ acc[n] = Total(counts)
      /\ \A i \in 1..n : acc[i] = step[i][acc[i - 1]]
  BY <1>1, <1>4 DEF IsTrace
<1>6. IsFiniteSet(Good(u))
  <2>1. IsFiniteSet(1 .. Len(u)) /\ Good(u) \in SUBSET (1 .. Len(u))
    BY FS_Interval, 1 \in Int, Len(u) \in Int DEF Good
  <2> QED
    BY <2>1, FS_Subset
<1> DEFINE S == {o \in 0..n : acc[o] = Cardinality(Earlier(o))}
<1>7. \A k \in Good(u) : u[k].vote \in 0 .. n - 1
  BY DEF OneEach
<1>8. 0 \in S
  <2>1. Earlier(0) = {}
    BY <1>7
  <2>2. Cardinality({}) = 0
    BY FS_EmptySet
  <2>3. 0 \in 0..n
    BY <1>1
  <2> HIDE DEF Earlier
  <2> QED
    BY <1>5, <2>1, <2>2, <2>3
<1>9. ASSUME NEW o \in 0 .. n - 1, o \in S
      PROVE  o + 1 \in S
  <2>1. o \in Nat /\ o \in 0..n /\ o + 1 \in 0..n /\ o + 1 \in 1..n /\ o + 1 - 1 = o
    BY <1>1
  <2>2. Earlier(o + 1) = Earlier(o) \cup For(u, o + 1)
    <3>1. For(u, o + 1) = {k \in Good(u) : u[k].vote = o}
      BY <2>1 DEF For, Good
    <3>2. ASSUME NEW k \in Good(u)
          PROVE  u[k].vote < o + 1 <=> (u[k].vote < o \/ u[k].vote = o)
      BY <1>7, <2>1
    <3> QED
      BY <3>1, <3>2
  <2>3. Earlier(o) \cap For(u, o + 1) = {}
    <3> SUFFICES ASSUME NEW k \in Earlier(o), k \in For(u, o + 1) PROVE FALSE
      OBVIOUS
    <3>1. u[k].vote < o /\ u[k].vote = o
      BY <2>1 DEF For
    <3> QED
      BY <2>1, <3>1
  <2>4. IsFiniteSet(Earlier(o)) /\ IsFiniteSet(For(u, o + 1))
    <3>1. Earlier(o) \in SUBSET Good(u) /\ For(u, o + 1) \in SUBSET Good(u)
      BY DEF For, Good
    <3> HIDE DEF Earlier
    <3> QED
      BY <1>6, <3>1, FS_Subset
  <2>5. acc[o] = Cardinality(Earlier(o)) /\ acc[o] \in Nat
    BY <1>5, <1>9, <2>1
  <2>6. acc[o + 1] = acc[o] + Cardinality(For(u, o + 1))
    <3>1. acc[o + 1] = step[o + 1][acc[o + 1 - 1]]
      BY <1>5, <2>1
    <3>2. step[o + 1][acc[o]] = acc[o] + counts[o + 1]
      BY <1>2, <2>1, <2>5
    <3>3. counts[o + 1] = Cardinality(For(u, o + 1))
      BY <2>1
    <3> QED
      BY <2>1, <3>1, <3>2, <3>3
  <2> HIDE DEF Earlier
  <2>7. Cardinality(Earlier(o + 1)) = Cardinality(Earlier(o)) + Cardinality(For(u, o + 1))
    <3>1. /\ Cardinality(Earlier(o)) \in Nat /\ Cardinality(For(u, o + 1)) \in Nat
          /\ Cardinality({}) = 0
      BY <2>4, FS_CardinalityType, FS_EmptySet
    <3>2. Cardinality(Earlier(o) \cup For(u, o + 1)) =
            Cardinality(Earlier(o)) + Cardinality(For(u, o + 1)) - Cardinality(Earlier(o) \cap For(u, o + 1))
      BY <2>4, FS_Union
    <3>3. Cardinality(Earlier(o) \cap For(u, o + 1)) = 0
      BY <2>3, <3>1
    <3>4. Cardinality(Earlier(o + 1)) = Cardinality(Earlier(o) \cup For(u, o + 1))
      BY <2>2
    <3> QED
      BY <3>1, <3>2, <3>3, <3>4
  <2> QED
    BY <2>1, <2>5, <2>6, <2>7
<1>10. n \in S
  <2> HIDE DEF S
  <2>1. 0..n \subseteq S
    BY <1>1, <1>8, <1>9, BoundedInduction, Zenon
  <2> QED
    BY <1>1, <2>1
<1>11. Earlier(n) = Good(u)
  BY <1>1, <1>7
<1> QED
  BY <1>5, <1>10, <1>11

(* The ballots as they are decrypted.                                      *)
Decrypted(key, events) == [i \in DOMAIN events |-> decryptAndVerifyVote(key, events[i])]

(* Among the last ballots L: those for option o, and those that count.     *)
LastFor(d, o) == {i \in LastPlaces(d) : Countable(d[i]) /\ d[i].vote = o - 1}
LastGood(d) == {i \in LastPlaces(d) : Countable(d[i])}
LastBad(d) == {i \in LastPlaces(d) : ~Countable(d[i])}

(* The nullifiers are as many as the last ballots. *)
LEMMA CountLast ==
  ASSUME NEW A, NEW d \in Seq(A)
  PROVE  Cardinality(Names(d, Len(d))) = Cardinality(LastPlaces(d))
<1> DEFINE L == LastPlaces(d)
           f == [l \in L |-> d[l].baseNullifier]
<1>1. Len(d) \in Nat /\ DOMAIN d = 1 .. Len(d) /\ L \in SUBSET (1 .. Len(d))
  BY DEF LastPlaces
<1>2. IsFiniteSet(L)
  <2>1. IsFiniteSet(1 .. Len(d))
    BY <1>1, FS_Interval, 1 \in Int, Len(d) \in Int
  <2> HIDE DEF L
  <2> QED
    BY <1>1, <2>1, FS_Subset
<1>3. f \in [L -> Names(d, Len(d))]
  BY <1>1 DEF Names
<1>4. ASSUME NEW j \in L, NEW k \in L, f[j] = f[k]
      PROVE  j = k
  BY <1>4, LastOnce
<1>5. ASSUME NEW n \in Names(d, Len(d))
      PROVE  \E l \in L : f[l] = n
  <2>1. PICK i \in 1 .. Len(d) : n = d[i].baseNullifier
    BY DEF Names
  <2>2. PICK l \in L : d[l].baseNullifier = d[i].baseNullifier
    BY <1>1, <2>1, LastExists
  <2> QED
    BY <2>1, <2>2
<1> HIDE DEF f, L
<1> QED
  BY <1>2, <1>3, <1>4, <1>5, CountAlong DEF L

(* Counting the values of the map is counting the last ballots.            *)
LEMMA CountValues ==
  ASSUME NEW A, NEW d \in Seq(A), NEW u \in Seq(A), NEW last, IsLast(last, u, d),
         NEW K \in SUBSET (1 .. Len(u)), NEW L \in SUBSET LastPlaces(d),
         \A k \in 1 .. Len(u) : k \in K <=> last[k] \in L
  PROVE  Cardinality(K) = Cardinality(L)
<1> DEFINE f == [k \in K |-> last[k]]
<1>1. IsFiniteSet(K)
  <2>1. IsFiniteSet(1 .. Len(u))
    BY FS_Interval, 1 \in Int, Len(u) \in Int
  <2> QED
    BY <2>1, FS_Subset
<1>2. f \in [K -> L]
  OBVIOUS
<1>3. \A j, k \in K : f[j] = f[k] => j = k
  BY DEF IsLast
<1>4. ASSUME NEW l \in L
      PROVE  \E k \in K : f[k] = l
  <2>1. PICK k \in 1 .. Len(u) : last[k] = l
    BY DEF IsLast
  <2> QED
    BY <2>1
<1> HIDE DEF f
<1> QED
  BY <1>1, <1>2, <1>3, <1>4, CountAlong

(* The tally counts the last ballots, as they were decrypted.              *)
IsTally(r, d) ==
  /\ \A o \in 1..NumOptions : r.optionCounts[o] = Cardinality(LastFor(d, o))
  /\ r.totalValid = Cardinality(LastGood(d))
  /\ r.totalInvalid = Cardinality(LastBad(d))
  /\ r.duplicatesRemoved + Cardinality(LastPlaces(d)) = Len(d)

(* The whole of computeTally, over ballots that weigh 1 if they count.     *)
LEMMA TallyCounts ==
  ASSUME NEW A, NEW events \in Seq(A), NEW key, OneEach(Decrypted(key, events))
  PROVE  IsTally(computeTally(key, events), Decrypted(key, events))
<1> DEFINE d == Decrypted(key, events)
           D == Range(d)
           n == Len(events)
           unique == Unique(d)
           u == Values(unique.votes, d)
           r == computeTally(key, events)
<1>1. n \in Nat /\ DOMAIN d = 1..n /\ d \in Seq(D) /\ Len(d) = n
  <2>1. n \in Nat /\ DOMAIN events = 1..n
    OBVIOUS
  <2>2. d = [i \in 1..n |-> d[i]] /\ DOMAIN d = 1..n
    BY <2>1 DEF Decrypted
  <2>3. \A i \in 1..n : d[i] \in D
    BY <2>2 DEF Range
  <2> HIDE DEF d, D
  <2> QED
    BY <2>1, <2>2, <2>3
<1>2. r = [optionCounts |-> Count(u).counts, totalValid |-> Total(Count(u).counts),
           totalInvalid |-> Count(u).invalid, duplicatesRemoved |-> unique.removed,
           ballots |-> Len(u)]
  BY DEF computeTally, Decrypted
<1> HIDE DEF d, D, n, unique
<1>3. IsUnique(unique, d, n)
  BY <1>1, UniqueVotes DEF unique
<1>4. u \in Seq(D) /\ \E last : IsLast(last, u, d)
  BY <1>1, <1>3, ValuesLast
<1> HIDE DEF u, r
<1>5. PICK last : IsLast(last, u, d)
  BY <1>4
<1> DEFINE m == Len(u)
<1>6. \A k \in 1..m : last[k] \in LastPlaces(d) /\ u[k] = d[last[k]]
  BY <1>5 DEF IsLast
<1>7. LastPlaces(d) \subseteq 1..n
  BY <1>1 DEF LastPlaces
<1>8. OneEach(u)
  <2> SUFFICES ASSUME NEW k \in Good(u) PROVE u[k].vote \in 0 .. NumOptions - 1 /\ u[k].weight = 1
    BY DEF OneEach
  <2>1. k \in 1..m /\ Countable(u[k])
    BY DEF Good
  <2>2. last[k] \in 1 .. Len(d) /\ u[k] = d[last[k]]
    BY <1>1, <1>6, <1>7, <2>1
  <2>3. last[k] \in Good(d)
    BY <2>1, <2>2 DEF Good
  <2> QED
    BY <2>2, <2>3 DEF OneEach, d
<1>9. IsCount(Count(u), u, m)
  BY <1>4, <1>8, CountBallots
<1> DEFINE counts == Count(u).counts
           invalid == Count(u).invalid
<1>10. /\ counts \in [1..NumOptions -> Nat]
       /\ \A o \in 1..NumOptions : counts[o] = Cardinality(For(u, o))
       /\ invalid = Cardinality(Bad(u))
  <2>1. Bad(u) \cap (1..m) = Bad(u) /\ \A o \in 1..NumOptions : For(u, o) \cap (1..m) = For(u, o)
    BY DEF Bad, For
  <2> QED
    BY <1>9, <2>1 DEF IsCount
<1>11. Total(counts) = Cardinality(Good(u))
  BY <1>4, <1>8, <1>10, TotalBallots
<1>12. ASSUME NEW o \in 1..NumOptions
       PROVE  Cardinality(For(u, o)) = Cardinality(LastFor(d, o))
  <2>1. For(u, o) \in SUBSET (1..m) /\ LastFor(d, o) \in SUBSET LastPlaces(d)
    BY DEF For, LastFor
  <2>2. \A k \in 1..m : k \in For(u, o) <=> last[k] \in LastFor(d, o)
    BY <1>6 DEF For, LastFor
  <2> QED
    BY <1>1, <1>4, <1>5, <2>1, <2>2, CountValues
<1>13. Cardinality(Good(u)) = Cardinality(LastGood(d))
  <2>1. Good(u) \in SUBSET (1..m) /\ LastGood(d) \in SUBSET LastPlaces(d)
    BY DEF Good, LastGood
  <2>2. \A k \in 1..m : k \in Good(u) <=> last[k] \in LastGood(d)
    BY <1>6 DEF Good, LastGood
  <2> QED
    BY <1>1, <1>4, <1>5, <2>1, <2>2, CountValues
<1>14. Cardinality(Bad(u)) = Cardinality(LastBad(d))
  <2>1. Bad(u) \in SUBSET (1..m) /\ LastBad(d) \in SUBSET LastPlaces(d)
    BY DEF Bad, LastBad
  <2>2. \A k \in 1..m : k \in Bad(u) <=> last[k] \in LastBad(d)
    BY <1>6 DEF Bad, LastBad
  <2> QED
    BY <1>1, <1>4, <1>5, <2>1, <2>2, CountValues
<1>15. unique.removed + Cardinality(LastPlaces(d)) = Len(d)
  <2>1. unique.removed + Cardinality(Names(d, n)) = n
    BY <1>3 DEF IsUnique
  <2>2. Cardinality(Names(d, n)) = Cardinality(LastPlaces(d))
    BY <1>1, CountLast
  <2> QED
    BY <1>1, <2>1, <2>2
<1>16. /\ r.optionCounts = counts /\ r.totalValid = Total(counts)
       /\ r.totalInvalid = invalid /\ r.duplicatesRemoved = unique.removed
  BY <1>2
<1> HIDE DEF counts, invalid
<1>17. IsTally(r, d)
  BY <1>10, <1>11, <1>12, <1>13, <1>14, <1>15, <1>16 DEF IsTally
<1> QED
  BY <1>17 DEF r, d

(* One ballot: it counts, as what its envelope holds, if it is proper.     *)
LEMMA VoteDecrypted ==
  ASSUME NEW e \in Votes, NEW key
  PROVE  /\ decryptAndVerifyVote(key, e).baseNullifier = e.baseNullifier
         /\ Countable(decryptAndVerifyVote(key, e)) <=> Proper(e, key)
         /\ Proper(e, key) =>
              /\ decryptAndVerifyVote(key, e).vote = e.encryptedBlob.content.vote
              /\ decryptAndVerifyVote(key, e).vote \in 0 .. NumOptions - 1
              /\ decryptAndVerifyVote(key, e).weight = 1
<1> DEFINE dv == decryptAndVerifyVote(key, e)
           blob == e.encryptedBlob
           opened == blob # None /\ Opens(key, blob)
           payload == IF opened THEN decodeVotePayload(eciesDecrypt(key, blob)) ELSE Undecrypted
           valid == opened /\ Verified(payload, e)
<1>1. dv = [baseNullifier |-> e.baseNullifier, vote |-> payload.vote, weight |-> payload.weight,
            commitmentValid |-> valid]
  BY DEF decryptAndVerifyVote
<1>2. blob \in Blobs
  BY DEF Votes
<1>3. CASE opened
  <2>1. payload = blob.content
    BY <1>3 DEF decodeVotePayload, eciesDecrypt
  <2>2. blob.content \in Payloads /\ blob.to = key /\ blob # None
    BY <1>2, <1>3 DEF Blobs, Opens
  <2>3. payload.vote \in 0 .. NumOptions - 1 /\ payload.weight = 1 /\ NumOptions \in Nat
    BY <2>1, <2>2, OptionsAssumption DEF Payloads
  <2>4. valid <=> Proper(e, key)
    BY <1>3, <2>1, <2>2 DEF Verified, Proper
  <2> HIDE DEF valid, payload, dv
  <2>5. dv.vote = payload.vote /\ dv.weight = 1 /\ dv.baseNullifier = e.baseNullifier
    BY <1>1, <2>3
  <2>6. dv.commitmentValid = valid
    BY <1>1, Zenon
  <2>7. Countable(dv) <=> valid
    BY <2>3, <2>5, <2>6 DEF Countable
  <2> QED
    BY <2>1, <2>3, <2>4, <2>5, <2>7 DEF dv
<1>4. CASE ~opened
  <2>1. ~valid /\ ~Proper(e, key)
    BY <1>4 DEF Proper, Opens
  <2> HIDE DEF valid, payload, dv
  <2>2. dv.baseNullifier = e.baseNullifier
    BY <1>1
  <2>3. dv.commitmentValid = valid
    BY <1>1, Zenon
  <2> QED
    BY <2>1, <2>2, <2>3 DEF Countable, dv
<1> QED
  BY <1>3, <1>4

(* All the ballots that have an envelope have it for this key.             *)
SealedFor(events, key) ==
  \A i \in DOMAIN events : events[i].encryptedBlob # None => events[i].encryptedBlob.to = key

(* What computeTally (sdk/src/tally.ts) makes of any ballots sealed with   *)
(* one key: with that key, of every nullifier the last ballot counts, for  *)
(* the option that it was proved for, if its envelope holds what was       *)
(* proved, and the others are duplicates; with any other key none counts.  *)
THEOREM TallyOfBallots ==
  ASSUME NEW events \in Seq(Votes), NEW key, NEW sealed, SealedFor(events, sealed)
  PROVE  IF key = sealed THEN IsResultOf(computeTally(key, events), events, sealed)
         ELSE IsUnreadable(computeTally(key, events), events)
<1> DEFINE d == Decrypted(key, events)
           r == computeTally(key, events)
           n == Len(events)
           L == LastBallots(events)
           proper == {i \in L : Proper(events[i], sealed)}
           Cast(i) == events[i].encryptedBlob.content
<1>1. n \in Nat /\ DOMAIN events = 1..n /\ DOMAIN d = 1..n
  BY DEF Decrypted
<1>2. \A i \in 1..n :
        /\ d[i].baseNullifier = events[i].baseNullifier
        /\ Countable(d[i]) <=> Proper(events[i], key)
        /\ Proper(events[i], key) => /\ d[i].vote = Cast(i).vote
                                     /\ d[i].vote \in 0 .. NumOptions - 1 /\ d[i].weight = 1
  <2> SUFFICES ASSUME NEW i \in 1..n
               PROVE  /\ d[i].baseNullifier = events[i].baseNullifier
                      /\ Countable(d[i]) <=> Proper(events[i], key)
                      /\ Proper(events[i], key) =>
                           /\ d[i].vote = Cast(i).vote
                           /\ d[i].vote \in 0 .. NumOptions - 1 /\ d[i].weight = 1
    OBVIOUS
  <2>1. d[i] = decryptAndVerifyVote(key, events[i]) /\ events[i] \in Votes
    BY <1>1 DEF Decrypted
  <2> HIDE DEF d
  <2> QED
    BY <2>1, VoteDecrypted
<1>3. Len(d) = n /\ d = [i \in 1..n |-> d[i]]
  BY <1>1 DEF Decrypted
<1>4. OneEach(d)
  BY <1>2, <1>3 DEF OneEach, Good
<1>5. IsTally(r, d)
  BY <1>4, TallyCounts
<1>6. LastPlaces(d) = L
  BY <1>1, <1>2 DEF LastPlaces, LastBallots
<1>7. \A i \in L : i \in 1..n
  BY <1>1 DEF LastBallots
<1> HIDE DEF d, r, L
<1>8. r.duplicatesRemoved + Cardinality(L) = n
  BY <1>3, <1>5, <1>6 DEF IsTally
<1>9. CASE key = sealed
  <2>1. LastGood(d) = proper
    BY <1>2, <1>6, <1>7, <1>9 DEF LastGood
  <2>2. LastBad(d) = L \ proper
    BY <1>2, <1>6, <1>7, <1>9 DEF LastBad
  <2>3. ASSUME NEW o \in 1..NumOptions
        PROVE  LastFor(d, o) = {i \in proper : Cast(i).vote = o - 1}
    BY <1>2, <1>6, <1>7, <1>9 DEF LastFor
  <2>4. \A o \in 1..NumOptions :
          r.optionCounts[o] = Cardinality({i \in proper : Cast(i).vote = o - 1})
    BY <1>5, <2>3 DEF IsTally
  <2>5. r.totalValid = Cardinality(proper) /\ r.totalInvalid = Cardinality(L \ proper)
    BY <1>5, <2>1, <2>2 DEF IsTally
  <2>6. IsResultOf(r, events, sealed)
    BY <1>8, <2>4, <2>5 DEF IsResultOf, L
  <2> QED
    BY <1>9, <2>6 DEF r
<1>10. CASE key # sealed
  <2>1. \A i \in 1..n : ~Proper(events[i], key)
    BY <1>1, <1>10 DEF Proper, SealedFor
  <2>2. LastGood(d) = {} /\ LastBad(d) = L
    BY <1>2, <1>6, <1>7, <2>1 DEF LastGood, LastBad
  <2>3. Cardinality({}) = 0
    BY FS_EmptySet
  <2>4. IsUnreadable(r, events)
    BY <1>5, <2>2, <2>3 DEF IsTally, IsUnreadable, L
  <2> QED
    BY <1>10, <2>4 DEF r
<1> QED
  BY <1>9, <1>10

(* Ballots are cast after signup, with the key of the election.            *)
BallotsOK == \A i \in DOMAIN log : log[i].event = "VoteCast" =>
  /\ phase # "signup"
  /\ log[i].encryptedBlob # None => log[i].encryptedBlob.to = electionPubKey

(* A key without a ceremony is the single key of the election, whose       *)
(* signup is over from the start.                                          *)
SingleOK == electionPubKey # None /\ ~committeeFinalized => phase # "signup"

(* A tally that has not failed, with or without its result yet.            *)
Running == page.step \in {"shares", "height", "fetch", "done"}
SeenMembers == Subsequence(Committee, PlacesOf(page.seen))

(* What it read from members: nothing if the key is a single one, or else, *)
(* of enough members, the shares on chain in the order of the list.        *)
SharesRead ==
  IF page.seen = {} THEN electionPubKey # None /\ ~committeeFinalized
  ELSE /\ committeeFinalized /\ Cardinality(page.seen) >= Threshold
       /\ \A m \in page.seen : decryptedShares[m] # None
       /\ \A k \in 1 .. Len(page.shares) : page.shares[k] = decryptedShares[SeenMembers[k]]
       /\ page.step # "shares" => Len(page.shares) = Cardinality(page.seen)

(* The last block read, and what a tally that has read up to it holds: the *)
(* ballots on the log so far.                                              *)
ReadUpTo == IF page.from <= page.height THEN page.from - 1 ELSE page.height
BlocksRead ==
  IF page.step \in {"shares", "height"} THEN page.from = 1 /\ page.ballots = <<>>
  ELSE page.ballots = BallotsAt(ReadUpTo)

(* What a page has read, until it shows the result or forgets it.          *)
ReadOK == Running => /\ SharesRead /\ BlocksRead
                     /\ page.step = "done" => page.from > page.height

(* A result is committed after voting, from shares that are on chain.      *)
Settled(t) ==
  /\ phase = "closed" /\ t.height \in 0 .. Len(log)
  /\ t.seen \in SUBSET Members /\ \A m \in t.seen : decryptedShares[m] # None
  /\ Sound(t)
CommitOK == /\ commit # None => Settled(commit)
            /\ committed # None => Settled(committed)

(* The inductive invariant of the tallies, beside ResultsInv.              *)
TallyInv == BallotsOK /\ SingleOK /\ ReadOK /\ CommitOK

(* Whether the ceremony is over is told by the log, which only grows.      *)
LEMMA FinalizedKept ==
  ASSUME Types, Types', Growing
  PROVE  /\ committeeFinalized => committeeFinalized'
         /\ phase # "signup" /\ committeeFinalized' => committeeFinalized
<1>1. /\ Len(log) \in Nat /\ DOMAIN log = 1 .. Len(log)
      /\ Len(log') \in Nat /\ DOMAIN log' = 1 .. Len(log')
  BY DEF Types
<1>2. ASSUME committeeFinalized PROVE committeeFinalized'
  <2>1. PICK i \in 1 .. Len(log) : log[i].event = "CommitteeFinalized"
    BY <1>1, <1>2 DEF committeeFinalized
  <2>2. i \in 1 .. Len(log') /\ log'[i] = log[i]
    BY <1>1, <2>1 DEF Growing
  <2> QED
    BY <1>1, <2>1, <2>2 DEF committeeFinalized
<1>3. ASSUME phase # "signup", committeeFinalized' PROVE committeeFinalized
  <2>1. PICK i \in 1 .. Len(log') : log'[i].event = "CommitteeFinalized"
    BY <1>1, <1>3 DEF committeeFinalized
  <2>2. i \in 1 .. Len(log)
    <3>1. CASE i \in Len(log) + 1 .. Len(log')
      BY <1>3, <2>1, <3>1 DEF Growing
    <3>2. CASE i \notin Len(log) + 1 .. Len(log')
      BY <1>1, <2>1, <3>2
    <3> QED
      BY <3>1, <3>2
  <2> QED
    BY <1>1, <2>1, <2>2 DEF committeeFinalized, Growing
<1> QED
  BY <1>2, <1>3

(* No step puts a ballot on the log under another key, or before voting.   *)
LEMMA BallotsKept ==
  ASSUME Types, Types', Growing, BallotsOK, SingleOK
  PROVE  BallotsOK' /\ SingleOK'
<1>1. /\ Len(log) \in Nat /\ DOMAIN log = 1 .. Len(log)
      /\ Len(log') \in Nat /\ DOMAIN log' = 1 .. Len(log')
  BY DEF Types
<1>2. ASSUME NEW i \in 1 .. Len(log'), log'[i].event = "VoteCast"
      PROVE  /\ phase' # "signup"
             /\ log'[i].encryptedBlob # None => log'[i].encryptedBlob.to = electionPubKey'
  <2>1. CASE i \in 1 .. Len(log)
    <3>1. log'[i] = log[i]
      BY <2>1 DEF Growing
    <3>2. /\ phase # "signup"
          /\ log[i].encryptedBlob # None => log[i].encryptedBlob.to = electionPubKey
      BY <1>1, <1>2, <2>1, <3>1 DEF BallotsOK
    <3>3. phase' # "signup" /\ electionPubKey' = electionPubKey
      BY <3>2 DEF Growing
    <3> QED
      BY <3>1, <3>2, <3>3
  <2>2. CASE i \in Len(log) + 1 .. Len(log')
    <3>1. /\ phase = "voting"
          /\ log'[i].encryptedBlob # None => log'[i].encryptedBlob.to = electionPubKey
      BY <1>2, <2>2 DEF Growing
    <3>2. phase' # "signup" /\ electionPubKey' = electionPubKey
      BY <3>1 DEF Growing
    <3> QED
      BY <3>1, <3>2
  <2> QED
    BY <1>1, <2>1, <2>2
<1>3. SingleOK'
  <2> SUFFICES ASSUME electionPubKey' # None, ~committeeFinalized' PROVE phase' # "signup"
    BY DEF SingleOK
  <2>1. electionPubKey' = electionPubKey
    BY <1>1 DEF Growing, committeeFinalized
  <2>2. ~committeeFinalized
    BY FinalizedKept
  <2>3. phase # "signup"
    BY <2>1, <2>2 DEF SingleOK
  <2> QED
    BY <2>3 DEF Growing
<1> QED
  BY <1>1, <1>2, <1>3 DEF BallotsOK

-----------------------------------------------------------------------------
(* Ballots are found in ranges as they are found at once. *)

(* A range that is one event longer.                                       *)
LEMMA SubSeqNext ==
  ASSUME NEW A, NEW s \in Seq(A), NEW a \in 1 .. Len(s), NEW b \in a - 1 .. Len(s) - 1
  PROVE  /\ SubSeq(s, a, b) \in Seq(A) /\ s[b + 1] \in A
         /\ SubSeq(s, a, b + 1) = Append(SubSeq(s, a, b), s[b + 1])
<1>1. a \in Nat /\ b \in Nat /\ Len(s) \in Nat /\ a - 1 <= b /\ b + 1 <= Len(s) /\ 1 <= a
  OBVIOUS
<1>2. s[b + 1] \in A
  BY <1>1
<1>3. SubSeq(s, a, b) \in Seq(A)
  BY <1>1
<1>4. SubSeq(s, a, b + 1) = Append(SubSeq(s, a, b), s[b + 1])
  BY <1>1
<1> QED
  BY <1>2, <1>3, <1>4

(* No events have no ballots.                                              *)
LEMMA NoBallots == BallotsOf(<<>>) = <<>>
<1>1. BallotsOf(<<>>) \in Seq({})
  <2>1. {i \in DOMAIN <<>> : <<>>[i].event = "VoteCast"} \in SUBSET (1 .. Len(<<>>))
    OBVIOUS
  <2>2. \A i \in {i \in DOMAIN <<>> : <<>>[i].event = "VoteCast"} : <<>>[i] \in {}
    OBVIOUS
  <2>3. <<>> \in Seq({})
    OBVIOUS
  <2> QED
    BY <2>1, <2>2, <2>3, SubsequenceType DEF BallotsOf
<1> QED
  BY <1>1

(* One more event. *)
LEMMA BallotsAppend ==
  ASSUME NEW A, NEW s \in Seq(A), NEW e \in A
  PROVE  BallotsOf(Append(s, e)) =
           IF e.event = "VoteCast" THEN Append(BallotsOf(s), e) ELSE BallotsOf(s)
<1> DEFINE t == Append(s, e)
           n == Len(s)
           I == {i \in DOMAIN t : t[i].event = "VoteCast"}
           J == {i \in DOMAIN s : s[i].event = "VoteCast"}
<1>1. /\ n \in Nat /\ DOMAIN s = 1..n /\ DOMAIN t = 1 .. n + 1 /\ t[n + 1] = e
      /\ \A i \in 1..n : t[i] = s[i]
  OBVIOUS
<1>2. \A i \in 1..n : i \in I <=> i \in J
  <2> HIDE DEF t
  <2> QED
    BY <1>1
<1>3. n + 1 \in I <=> e.event = "VoteCast"
  <2> HIDE DEF t
  <2> QED
    BY <1>1
<1>4. BallotsOf(s) = Subsequence(s, J) /\ BallotsOf(t) = Subsequence(t, I)
  BY DEF BallotsOf
<1> HIDE DEF I, J
<1>5. Subsequence(t, I) = IF n + 1 \in I THEN Append(Subsequence(s, J), e) ELSE Subsequence(s, J)
  BY <1>2, SubsequenceAppend
<1> QED
  BY <1>3, <1>4, <1>5

(* The events from a to b after those before a. *)
LEMMA BallotsJoin ==
  ASSUME log \in Seq(Events), NEW a \in 1 .. Len(log), NEW b \in a .. Len(log)
  PROVE  BallotsAt(b) = BallotsAt(a - 1) \o BallotsOf(SubSeq(log, a, b))
<1> DEFINE part(k) == BallotsOf(SubSeq(log, a, a - 1 + k))
           before == BallotsAt(a - 1)
           n == b - (a - 1)
           S == {k \in 0..n : BallotsAt(a - 1 + k) = before \o part(k)}
<1>1. n \in Nat /\ a \in Nat /\ b \in Nat /\ Len(log) \in Nat /\ 1 <= a /\ a <= b /\ b <= Len(log)
  OBVIOUS
<1>2. before \in Seq(Votes)
  <2>1. SubSeq(log, 1, a - 1) \in Seq(Events)
    BY <1>1
  <2> QED
    BY <2>1, BallotsType DEF BallotsAt
<1>3. 0 \in S
  <2>1. SubSeq(log, a, a - 1 + 0) = <<>>
    BY <1>1
  <2>2. BallotsOf(<<>>) = <<>>
    BY NoBallots
  <2>3. before \o <<>> = before /\ a - 1 + 0 = a - 1 /\ 0 \in 0..n
    BY <1>1, <1>2
  <2> QED
    BY <2>1, <2>2, <2>3
<1>4. ASSUME NEW k \in 0 .. n - 1, k \in S
      PROVE  k + 1 \in S
  <2> DEFINE m == a - 1 + k
             e == log[m + 1]
  <2>1. /\ m \in a - 1 .. Len(log) - 1 /\ m \in 1 - 1 .. Len(log) - 1 /\ 1 \in 1 .. Len(log)
        /\ k + 1 \in 0..n /\ a - 1 + (k + 1) = m + 1
    BY <1>1
  <2> HIDE DEF m
  <2>2. /\ SubSeq(log, 1, m) \in Seq(Events) /\ e \in Events
        /\ SubSeq(log, 1, m + 1) = Append(SubSeq(log, 1, m), e)
    BY <2>1, SubSeqNext
  <2>3. /\ SubSeq(log, a, m) \in Seq(Events)
        /\ SubSeq(log, a, m + 1) = Append(SubSeq(log, a, m), e)
    BY <2>1, SubSeqNext
  <2>4. BallotsAt(m + 1) = IF e.event = "VoteCast" THEN Append(BallotsAt(m), e) ELSE BallotsAt(m)
    BY <2>2, BallotsAppend DEF BallotsAt
  <2> DEFINE old == BallotsOf(SubSeq(log, a, m))
             new == BallotsOf(SubSeq(log, a, m + 1))
  <2>5. new = IF e.event = "VoteCast" THEN Append(old, e) ELSE old
    BY <2>2, <2>3, BallotsAppend
  <2>6. old \in Seq(Votes)
    BY <2>3, BallotsType
  <2>7. BallotsAt(m) = before \o old
    BY <1>4 DEF m
  <2>8. e.event = "VoteCast" => e \in Votes
    BY <2>2 DEF Events, Finals
  <2> HIDE DEF old, new, e, before
  <2>9. BallotsAt(m + 1) = before \o new
    <3>1. e \in Votes => Append(before \o old, e) = before \o Append(old, e)
      BY <1>2, <2>6
    <3> QED
      BY <2>4, <2>5, <2>7, <2>8, <3>1
  <2> QED
    BY <2>1, <2>9 DEF new
<1>5. n \in S
  <2> HIDE DEF S, n
  <2>1. 0..n \subseteq S
    BY <1>1, <1>3, <1>4, BoundedInduction, Zenon
  <2> QED
    BY <1>1, <2>1
<1>6. a - 1 + n = b
  BY <1>1
<1> QED
  BY <1>5, <1>6

(* What was cast stays where it was cast. *)
LEMMA BallotsStay ==
  ASSUME Types, Types', Growing, NEW h \in 0 .. Len(log)
  PROVE  BallotsAt(h)' = BallotsAt(h)
<1>1. /\ log \in Seq(Events) /\ log' \in Seq(Events) /\ h \in Nat /\ h <= Len(log)
      /\ Len(log) \in Nat /\ Len(log') \in Nat
  BY DEF Types
<1>2. h <= Len(log') /\ \A i \in 1..h : log'[i] = log[i]
  BY <1>1 DEF Growing
<1>3. SubSeq(log', 1, h) = SubSeq(log, 1, h)
  <2> DEFINE s == SubSeq(log, 1, h)
             t == SubSeq(log', 1, h)
  <2>1. s \in Seq(Events) /\ Len(s) = h /\ \A i \in 1..h : s[i] = log[i]
    BY <1>1
  <2>2. t \in Seq(Events) /\ Len(t) = h /\ \A i \in 1..h : t[i] = log'[i]
    BY <1>1, <1>2
  <2> HIDE DEF s, t
  <2>3. s = [i \in 1..h |-> s[i]] /\ t = [i \in 1..h |-> t[i]]
    BY <2>1, <2>2
  <2> QED
    BY <1>2, <2>1, <2>2, <2>3 DEF s, t
<1> QED
  BY <1>3 DEF BallotsAt

(* The members whose shares a page reads, in the order of the list.        *)
LEMMA SeenType ==
  ASSUME page.seen \in SUBSET Members
  PROVE  /\ SeenMembers \in Seq(page.seen) /\ Len(SeenMembers) = Cardinality(page.seen)
         /\ Cardinality(page.seen) \in Nat
<1> DEFINE P == PlacesOf(page.seen)
<1>1. /\ P \in SUBSET (1 .. Len(Committee)) /\ Cardinality(P) = Cardinality(page.seen)
      /\ IsFiniteSet(page.seen)
  BY CountPlaces DEF Size
<1>2. \A i \in P : Committee[i] \in page.seen
  BY DEF PlacesOf
<1>3. Committee \in Seq(Members)
  BY CommitteeAssumption
<1> HIDE DEF P
<1> QED
  BY <1>1, <1>2, <1>3, SubsequenceType, FS_CardinalityType DEF SeenMembers, P

(* What a page has read stays what the chain says.                         *)
LEMMA ReadKept ==
  ASSUME CommitteeInv, PageOK, Types', Growing, SingleOK, ReadOK, page' = page
  PROVE  ReadOK'
<1> SUFFICES ASSUME Running PROVE ReadOK'
  BY DEF ReadOK, Running
<1>1. Types /\ SharesRead /\ BlocksRead /\ (page.step = "done" => page.from > page.height)
  BY DEF ReadOK, CommitteeInv
<1>2. page \in PageSet /\ page.height <= Len(log) /\ page.seen \in SUBSET Members
  BY DEF PageOK, PageSet
<1>3. SharesRead'
  <2>1. CASE page.seen = {}
    <3>1. electionPubKey # None /\ ~committeeFinalized
      BY <1>1, <2>1 DEF SharesRead
    <3>2. phase # "signup"
      BY <3>1 DEF SingleOK
    <3>3. electionPubKey' = electionPubKey
      BY <3>2 DEF Growing
    <3>4. ~committeeFinalized'
      BY <1>1, <3>1, <3>2, FinalizedKept
    <3> QED
      BY <2>1, <3>1, <3>3, <3>4 DEF SharesRead
  <2>2. CASE page.seen # {}
    <3>1. /\ committeeFinalized /\ Cardinality(page.seen) >= Threshold
          /\ \A m \in page.seen : decryptedShares[m] # None
          /\ \A k \in 1 .. Len(page.shares) : page.shares[k] = decryptedShares[SeenMembers[k]]
          /\ page.step # "shares" => Len(page.shares) = Cardinality(page.seen)
      BY <1>1, <2>2 DEF SharesRead
    <3>2. committeeFinalized'
      BY <1>1, <3>1, FinalizedKept
    <3>3. \A m \in page.seen : decryptedShares'[m] = decryptedShares[m]
      BY <1>2, <3>1 DEF Growing, hasSubmittedShare
    <3>4. SeenMembers \in Seq(page.seen) /\ Len(SeenMembers) = Cardinality(page.seen)
          /\ Cardinality(page.seen) \in Nat
      BY <1>2, SeenType
    <3>5. SeenMembers' = SeenMembers
      BY DEF SeenMembers, PlacesOf, Size
    <3>6. Len(page.shares) \in Nat /\ Len(page.shares) <= Cardinality(page.seen)
      <4>1. Len(page.shares) \in Nat
        BY <1>2 DEF PageSet
      <4> QED
        BY <3>1, <3>4, <4>1 DEF PageOK
    <3>7. ASSUME NEW k \in 1 .. Len(page.shares)
          PROVE  page.shares[k] = decryptedShares'[SeenMembers[k]]
      <4>1. SeenMembers[k] \in page.seen
        BY <3>4, <3>6
      <4> QED
        BY <3>1, <3>3, <4>1
    <3> QED
      BY <2>2, <3>1, <3>2, <3>3, <3>5, <3>7 DEF SharesRead
  <2> QED
    BY <2>1, <2>2
<1>4. BlocksRead'
  <2>1. ReadUpTo' = ReadUpTo
    BY DEF ReadUpTo
  <2>2. ReadUpTo \in 0 .. Len(log)
    <3> DEFINE f == page.from
               h == page.height
    <3>1. f \in Nat \ {0} /\ h \in Nat /\ h <= Len(log) /\ Len(log) \in Nat
      BY <1>1, <1>2 DEF PageSet, Types
    <3>2. ReadUpTo = IF f <= h THEN f - 1 ELSE h
      BY DEF ReadUpTo
    <3> HIDE DEF f, h
    <3> QED
      BY <3>1, <3>2
  <2>3. BallotsAt(ReadUpTo)' = BallotsAt(ReadUpTo)
    <3> DEFINE u == ReadUpTo
    <3>1. u' = u /\ u \in 0 .. Len(log)
      BY <2>1, <2>2
    <3> HIDE DEF u
    <3>2. \A h \in 0 .. Len(log) : BallotsOf(SubSeq(log', 1, h)) = BallotsOf(SubSeq(log, 1, h))
      BY <1>1, BallotsStay DEF BallotsAt
    <3> QED
      BY <3>1, <3>2 DEF BallotsAt, u
  <2> QED
    BY <1>1, <2>3 DEF BlocksRead
<1> QED
  BY <1>1, <1>3, <1>4 DEF ReadOK, Running

(* The steps of the page leave the chain alone. *)
LEMMA ChainStays ==
  ASSUME UNCHANGED committeeVars
  PROVE  /\ log' = log /\ electionPubKey' = electionPubKey /\ phase' = phase
         /\ decryptedShares' = decryptedShares
         /\ committeeFinalized' = committeeFinalized
         /\ \A h : BallotsAt(h)' = BallotsAt(h)
         /\ (page'.seen = page.seen => SeenMembers' = SeenMembers)
<1>1. log' = log /\ electionPubKey' = electionPubKey /\ phase' = phase
      /\ decryptedShares' = decryptedShares
  BY DEF committeeVars, onChain
<1>2. committeeFinalized' = committeeFinalized
  BY <1>1 DEF committeeFinalized
<1>3. ASSUME page'.seen = page.seen PROVE SeenMembers' = SeenMembers
  BY <1>3 DEF SeenMembers, PlacesOf
<1> QED
  BY <1>1, <1>2, <1>3 DEF BallotsAt

(* A page that runs no tally has nothing to account for.                   *)
LEMMA ReadRests ==
  ASSUME page'.step \in {"idle", "crashed"}
  PROVE  ReadOK'
BY DEF ReadOK, Running

(* A step that reads nothing: another tab, or the result that was awaited. *)
LEMMA ReadRendered ==
  ASSUME UNCHANGED committeeVars, page \in PageSet, ReadOK, Running, NEW new \in PageSet,
         new.seen = page.seen, new.shares = page.shares, new.height = page.height,
         new.from = page.from, new.ballots = page.ballots,
         \/ new.step = page.step
         \/ page.step = "fetch" /\ new.step = "done" /\ page.from > page.height,
         Page(Rendered(new))
  PROVE  ReadOK'
<1>1. page' = new \/ page' = [FreshPage EXCEPT !.step = "crashed"]
  BY DEF Page, Rendered
<1>2. CASE page' = [FreshPage EXCEPT !.step = "crashed"]
  BY <1>2, ReadRests DEF FreshPage
<1>3. CASE page' = new
  <2>1. SharesRead /\ BlocksRead /\ (page.step = "done" => page.from > page.height)
    BY DEF ReadOK
  <2>2. /\ log' = log /\ electionPubKey' = electionPubKey /\ decryptedShares' = decryptedShares
        /\ committeeFinalized' = committeeFinalized /\ SeenMembers' = SeenMembers
    BY <1>3, ChainStays
  <2>3. SharesRead'
    BY <1>3, <2>1, <2>2 DEF SharesRead
  <2>4. BlocksRead'
    BY <1>3, <2>1, <2>2 DEF BlocksRead, ReadUpTo, BallotsAt
  <2> QED
    BY <1>3, <2>1, <2>3, <2>4 DEF ReadOK, Running
<1> QED
  BY <1>1, <1>2, <1>3

(* A tally begins with the members whose shares the page shows, or none.   *)
LEMMA ReadBegins ==
  ASSUME CommitteeInv, PageOK, runTally \/ runOnChainCommitteeTally
  PROVE  ReadOK'
<1>1. ASSUME NEW step \in {"shares", "height"}, NEW seen \in SUBSET Members, NEW key,
             Begin(step, seen, key),
             IF seen = {} THEN electionPubKey # None /\ ~committeeFinalized
             ELSE /\ committeeFinalized /\ Cardinality(seen) >= Threshold /\ step = "shares"
                  /\ \A m \in seen : decryptedShares[m] # None
      PROVE  ReadOK'
  <2> DEFINE new == [FreshPage EXCEPT !.tab = "results", !.step = step, !.seen = seen, !.key = key]
  <2>1. page' = new /\ UNCHANGED committeeVars
    BY <1>1 DEF Begin
  <2>2. /\ page'.step = step /\ page'.seen = seen /\ page'.shares = <<>>
        /\ page'.from = 1 /\ page'.ballots = <<>>
    BY <2>1 DEF FreshPage
  <2>3. /\ electionPubKey' = electionPubKey /\ decryptedShares' = decryptedShares
        /\ committeeFinalized' = committeeFinalized
    BY <2>1, ChainStays
  <2>4. SharesRead'
    <3>1. 1 .. Len(<<>>) = {}
      OBVIOUS
    <3> QED
      BY <1>1, <2>2, <2>3, <3>1 DEF SharesRead
  <2>5. BlocksRead'
    BY <2>2 DEF BlocksRead
  <2> QED
    BY <2>2, <2>4, <2>5 DEF ReadOK, Running
<1>2. CASE runTally
  <2>1. PICK key \in PastedKeys \cup {electionPubKey} : Begin("height", {}, key)
    BY <1>2 DEF runTally
  <2>2. {} \in SUBSET Members /\ electionPubKey # None /\ ~committeeFinalized
    BY <1>2 DEF runTally
  <2> QED
    BY <1>1, <2>1, <2>2
<1>3. CASE runOnChainCommitteeTally
  <2>1. PICK seen \in SUBSET {m \in Members : hasSubmittedShare(m)} :
          Cardinality(seen) >= Threshold /\ Begin("shares", seen, None)
    BY <1>3 DEF runOnChainCommitteeTally
  <2>2. seen \in SUBSET Members /\ committeeFinalized /\ \A m \in seen : decryptedShares[m] # None
    BY <1>3, <2>1 DEF hasSubmittedShare, runOnChainCommitteeTally
  <2>3. seen # {}
    BY <2>1, Places, FS_EmptySet
  <2> QED
    BY <1>1, <2>1, <2>2, <2>3
<1> QED
  BY <1>2, <1>3

(* The share of the next member that was seen. *)
LEMMA ReadNextShare ==
  ASSUME CommitteeInv, PageOK, ReadOK, ReadShare
  PROVE  ReadOK'
<1> DEFINE P == PlacesOf(page.seen)
           n == Len(page.shares)
           seen == SeenMembers
           share == decryptedShares[seen[n + 1]]
           read == Append(page.shares, share)
           step == IF Len(read) < Cardinality(page.seen) THEN "shares"
                   ELSE IF Enough(Whole(read)) THEN "height" ELSE "idle"
           new == [page EXCEPT !.shares = read, !.step = step]
<1>1. /\ page \in PageSet /\ page.step = "shares" /\ page.seen \in SUBSET Members
      /\ page.shares \in Seq(ShareSet \cup {Junk}) /\ n \in Nat
      /\ n < Cardinality(page.seen)
  BY DEF ReadShare, Awaits, PageOK, PageSet
<1>2. page' = new /\ UNCHANGED committeeVars
  <2>1. {i \in DOMAIN Committee : Committee[i] \in page.seen} = P
    BY Places DEF PlacesOf, Size
  <2> QED
    BY <2>1 DEF ReadShare, Page, SeenMembers
<1>3. /\ seen \in Seq(page.seen) /\ Len(seen) = Cardinality(page.seen)
      /\ Cardinality(page.seen) \in Nat
  BY <1>1, SeenType
<1>4. /\ SharesRead /\ BlocksRead
  BY <1>1 DEF ReadOK, Running
<1>5. page.seen # {}
  <2> SUFFICES ASSUME page.seen = {} PROVE FALSE
    OBVIOUS
  <2>1. Cardinality({}) = 0
    BY FS_EmptySet
  <2>2. Cardinality(page.seen) = 0
    BY <2>1, Zenon
  <2> HIDE DEF n
  <2> QED
    BY <1>1, <2>2
<1>6. /\ committeeFinalized /\ Cardinality(page.seen) >= Threshold
      /\ \A m \in page.seen : decryptedShares[m] # None
      /\ \A k \in 1..n : page.shares[k] = decryptedShares[seen[k]]
  BY <1>4, <1>5 DEF SharesRead
<1>7. seen[n + 1] \in page.seen
  <2> HIDE DEF seen, n
  <2> QED
    BY <1>1, <1>3
<1>8. share \in ShareSet \cup {Junk}
  BY <1>1, <1>6, <1>7 DEF CommitteeInv, Types, CommitteeTypeOK
<1>9. Len(read) = n + 1 /\ \A k \in 1 .. n + 1 : read[k] = decryptedShares[seen[k]]
  <2> HIDE DEF share, seen
  <2>1. Len(read) = n + 1 /\ read[n + 1] = share /\ \A k \in 1..n : read[k] = page.shares[k]
    BY <1>1, <1>8
  <2>2. \A k \in 1 .. n + 1 : k = n + 1 \/ k \in 1..n
    BY <1>1
  <2> HIDE DEF read, n
  <2> QED
    BY <1>6, <2>1, <2>2 DEF share, n
<1> HIDE DEF share, read
<1>10. step # "shares" => Len(read) = Cardinality(page.seen)
  BY <1>1, <1>3, <1>9
<1>11. step \in {"shares", "height", "idle"}
  OBVIOUS
<1> HIDE DEF step
<1>12. /\ page'.step = step /\ page'.shares = read /\ page'.seen = page.seen
       /\ page'.from = page.from /\ page'.ballots = page.ballots
  BY <1>1, <1>2 DEF PageSet
<1>13. /\ electionPubKey' = electionPubKey /\ decryptedShares' = decryptedShares
       /\ committeeFinalized' = committeeFinalized /\ SeenMembers' = SeenMembers
  BY <1>2, <1>12, ChainStays
<1>14. SharesRead'
  BY <1>5, <1>6, <1>9, <1>10, <1>12, <1>13 DEF SharesRead
<1>15. page.from = 1 /\ page.ballots = <<>>
  BY <1>1, <1>4 DEF BlocksRead
<1>16. CASE step = "idle"
  BY <1>12, <1>16, ReadRests
<1>17. CASE step # "idle"
  BY <1>11, <1>12, <1>14, <1>15, <1>17 DEF ReadOK, Running, BlocksRead
<1> QED
  BY <1>16, <1>17

(* The last block; nothing of it has been read yet.                        *)
LEMMA ReadFirstBlock ==
  ASSUME CommitteeInv, PageOK, ReadOK, ReadHeight
  PROVE  ReadOK'
<1> DEFINE n == Len(log)
           new == [page EXCEPT !.step = "fetch", !.height = n]
<1>1. /\ page \in PageSet /\ page.step = "height" /\ n \in Nat
      /\ page' = new /\ UNCHANGED committeeVars
  BY DEF ReadHeight, Awaits, Page, PageOK, CommitteeInv, Types
<1>2. SharesRead /\ page.from = 1 /\ page.ballots = <<>>
  BY <1>1 DEF ReadOK, Running, BlocksRead
<1>3. /\ page'.step = "fetch" /\ page'.height = n /\ page'.shares = page.shares
      /\ page'.seen = page.seen /\ page'.from = 1 /\ page'.ballots = <<>>
  BY <1>1, <1>2 DEF PageSet
<1>4. /\ log' = log /\ electionPubKey' = electionPubKey /\ decryptedShares' = decryptedShares
      /\ committeeFinalized' = committeeFinalized /\ SeenMembers' = SeenMembers
  BY <1>1, <1>3, ChainStays
<1>5. SharesRead'
  BY <1>1, <1>2, <1>3, <1>4 DEF SharesRead
<1>6. ReadUpTo' = 0
  BY <1>1, <1>3 DEF ReadUpTo
<1>7. BallotsAt(0) = <<>>
  <2>1. SubSeq(log, 1, 0) = <<>>
    BY DEF CommitteeInv, Types
  <2> QED
    BY <2>1, NoBallots DEF BallotsAt
<1>8. BlocksRead'
  BY <1>3, <1>4, <1>6, <1>7 DEF BlocksRead, BallotsAt
<1> QED
  BY <1>3, <1>5, <1>8 DEF ReadOK, Running

(* The next range of blocks, up to the last one. *)
LEMMA ReadNextBlocks ==
  ASSUME CommitteeInv, PageOK, ReadOK, FetchVotes
  PROVE  ReadOK'
<1> DEFINE f == page.from
           h == page.height
           t == To
           g == NextFrom
           more == BallotsOf(SubSeq(log, f, t))
           ballots == page.ballots \o more
           new == [page EXCEPT !.ballots = ballots, !.from = g]
<1>1. /\ page \in PageSet /\ page.step = "fetch" /\ log \in Seq(Events) /\ Len(log) \in Nat
      /\ h \in Nat /\ h <= Len(log) /\ f <= h /\ f \in Nat \ {0}
      /\ page' = new /\ UNCHANGED committeeVars
  BY DEF FetchVotes, Awaits, Page, PageOK, PageSet, CommitteeInv, Types
<1>2. /\ SharesRead /\ page.ballots = BallotsAt(f - 1)
  BY <1>1 DEF ReadOK, Running, BlocksRead, ReadUpTo
<1>3. /\ t \in f..h /\ g \in Nat \ {0}
      /\ IF g <= h THEN g - 1 = t ELSE h = t
  <2>1. MAX_LOG_RANGE \in Nat \ {0}
    BY ResultsAssumption
  <2>2. t = (IF f + MAX_LOG_RANGE - 1 > h THEN h ELSE f + MAX_LOG_RANGE - 1)
        /\ g = f + MAX_LOG_RANGE
    BY DEF To, LastOf, NextFrom
  <2> HIDE DEF f, h, t, g
  <2> QED
    BY <1>1, <2>1, <2>2
<1>4. BallotsAt(t) = BallotsAt(f - 1) \o more
  <2> HIDE DEF f, h, t
  <2>1. f \in 1 .. Len(log) /\ t \in f .. Len(log)
    BY <1>1, <1>3
  <2>2. BallotsAt(t) = BallotsAt(f - 1) \o BallotsOf(SubSeq(log, f, t))
    BY <1>1, <2>1, BallotsJoin
  <2> QED
    BY <2>2
<1> HIDE DEF more
<1>5. /\ page'.step = "fetch" /\ page'.height = h /\ page'.shares = page.shares
      /\ page'.seen = page.seen /\ page'.from = g /\ page'.ballots = BallotsAt(t)
  BY <1>1, <1>2, <1>4 DEF PageSet
<1>6. /\ log' = log /\ electionPubKey' = electionPubKey /\ decryptedShares' = decryptedShares
      /\ committeeFinalized' = committeeFinalized /\ SeenMembers' = SeenMembers
  BY <1>1, <1>5, ChainStays
<1>7. SharesRead'
  BY <1>1, <1>2, <1>5, <1>6 DEF SharesRead
<1>8. ReadUpTo' = t
  <2>1. ReadUpTo' = IF g <= h THEN g - 1 ELSE h
    BY <1>5 DEF ReadUpTo
  <2> HIDE DEF g, h, t
  <2> QED
    BY <1>3, <2>1
<1>9. BlocksRead'
  BY <1>5, <1>6, <1>8 DEF BlocksRead, BallotsAt
<1> QED
  BY <1>5, <1>7, <1>9 DEF ReadOK, Running

(* Shares that the members' pages submitted combine to the key.            *)
LEMMA GenuineKey ==
  ASSUME CommitteeInv, PageOK, ReadOK, Done, committeeFinalized, Genuine(OnPage)
  PROVE  TallyKey = electionPubKey
<1> DEFINE secret == electionPubKey
           S == page.seen
           P == PlacesOf(S)
           n == Len(page.shares)
<1>1. /\ committeePublicKeys \in [Members -> Keys \cup {None}] /\ log \in Seq(Events) /\ FinalOK
      /\ page.seen \in SUBSET Members /\ page.shares \in Seq(ShareSet \cup {Junk}) /\ n \in Nat
  <2>1. committeePublicKeys \in [Members -> Keys \cup {None}] /\ log \in Seq(Events) /\ FinalOK
    BY DEF CommitteeInv, Types, CommitteeTypeOK
  <2>2. page.seen \in SUBSET Members /\ page.shares \in Seq(ShareSet \cup {Junk})
    BY DEF PageOK, PageSet
  <2> QED
    BY <2>1, <2>2
<1>2. /\ Cardinality(page.seen) >= Threshold /\ n = Cardinality(page.seen)
      /\ \A k \in 1..n : page.shares[k] = decryptedShares[SeenMembers[k]]
  BY DEF Done, ReadOK, Running, SharesRead
<1>3. \A m \in page.seen : decryptedShares[m] = MyShare(EncryptedShares, m).encryptedData.content
  BY DEF Genuine, OnPage
<1>4. secret \in Scalars /\ \E r \in Randoms : IsDealing(EncryptedShares, secret, r)
  BY <1>1, FirstFinal
<1> HIDE DEF secret
<1>5. PICK r \in Randoms : IsDealing(EncryptedShares, secret, r)
  BY <1>4
<1> DEFINE shares == split(secret, r, Size)
<1>6. /\ Size \in Nat /\ Size < ORDER /\ Threshold \in Nat \ {0}
      /\ r \in [1 .. Threshold - 1 -> Scalars]
  BY Places DEF Size, Randoms
<1>7. /\ P \in SUBSET (1..Size) /\ Cardinality(P) = Cardinality(S)
      /\ \A i \in P : Committee[i] \in S
  BY <1>1, CountPlaces DEF PlacesOf
<1> HIDE DEF P
<1>8. PICK at : IsSelection(at, Committee, P)
  <2>1. Size = Len(Committee) /\ Committee \in Seq(Members)
    BY CommitteeAssumption DEF Size
  <2> QED
    BY <1>7, <2>1, SubsequenceSelects
<1>9. /\ at \in Seq(P) /\ Len(at) = Cardinality(P)
      /\ \A j, k \in 1 .. Len(at) : j < k => at[j] < at[k]
      /\ Subsequence(Committee, P) = [k \in 1 .. Len(at) |-> Committee[at[k]]]
  BY <1>8 DEF IsSelection
<1>10. Len(at) = n /\ SeenMembers = [k \in 1..n |-> Committee[at[k]]]
  BY <1>2, <1>7, <1>9 DEF SeenMembers, P
<1>11. \A k \in 1..n : at[k] \in P /\ at[k] \in 1..Size
  <2>1. \A k \in 1..n : at[k] \in P
    <3> HIDE DEF n
    <3> QED
      BY <1>9, <1>10
  <2> QED
    BY <1>7, <2>1
<1>12. \A i \in 1..Size : /\ shares[i] \in ShareSet
                          /\ MyShare(EncryptedShares, Committee[i]).encryptedData.content = shares[i]
  <2> SUFFICES ASSUME NEW i \in 1..Size
               PROVE  /\ shares[i] \in ShareSet
                      /\ MyShare(EncryptedShares, Committee[i]).encryptedData.content = shares[i]
    OBVIOUS
  <2>1. MyShare(EncryptedShares, Committee[i]) = EncryptedShares[i]
    BY <1>1, <1>4, <1>5, MyShareAt
  <2>2. /\ EncryptedShares \in Seq(Entry) /\ Len(EncryptedShares) = Size
        /\ \A j \in 1..Size :
             /\ split(secret, r, Size)[j] \in ShareSet
             /\ split(secret, r, Size)[j].x = j
             /\ EncryptedShares[j].memberId = Committee[j]
             /\ EncryptedShares[j].encryptedData =
                  [to |-> committeePublicKeys[Committee[j]], content |-> split(secret, r, Size)[j]]
    BY <1>1, <1>4, <1>5, DealingEntries
  <2>3. /\ shares[i] \in ShareSet
        /\ EncryptedShares[i].encryptedData =
             [to |-> committeePublicKeys[Committee[i]], content |-> shares[i]]
    BY <2>2, Zenon
  <2> HIDE DEF shares
  <2> QED
    BY <2>1, <2>3
<1> HIDE DEF shares
<1>13. \A k \in 1..n : page.shares[k] = shares[at[k]] /\ page.shares[k] \in ShareSet
  <2> SUFFICES ASSUME NEW k \in 1..n
               PROVE  page.shares[k] = shares[at[k]] /\ page.shares[k] \in ShareSet
    OBVIOUS
  <2> DEFINE i == at[k]
  <2>1. i \in 1..Size /\ Committee[i] \in S
    BY <1>7, <1>11
  <2>2. SeenMembers[k] = Committee[i]
    BY <1>10
  <2> HIDE DEF i, n
  <2> QED
    BY <1>2, <1>3, <1>12, <2>1, <2>2 DEF i, n
<1>14. page.shares = [k \in 1..n |-> shares[at[k]]]
  <2>1. page.shares = [k \in 1..n |-> page.shares[k]]
    BY <1>1
  <2> QED
    BY <1>13, <2>1
<1>15. Whole(page.shares) = page.shares
  <2>1. DOMAIN page.shares = 1..n
    BY <1>1
  <2>2. {k \in DOMAIN page.shares : page.shares[k] # Junk} = 1..n
    BY <1>13, <2>1, CommitteeAssumption
  <2>3. Subsequence(page.shares, 1..n) = page.shares
    BY <1>1, SubsequenceAll
  <2> QED
    BY <2>2, <2>3 DEF Whole
<1>16. page.shares # <<>>
  <2> SUFFICES ASSUME page.shares = <<>> PROVE FALSE
    OBVIOUS
  <2>1. Len(<<>>) = 0
    OBVIOUS
  <2>2. n = 0
    BY <2>1, Zenon
  <2> HIDE DEF n
  <2> QED
    BY <1>2, <1>6, <2>2
<1>17. combine([k \in 1..n |-> shares[at[k]]]) = secret
  <2>1. at \in Seq(1..Size)
    <3> DEFINE Q == 1..Size
    <3>1. at \in [1..n -> Q]
      BY <1>9, <1>10, <1>11
    <3>2. at \in Seq(Q)
      <4> HIDE DEF Q, n
      <4> QED
        BY <1>1, <3>1
    <3> QED
      BY <3>2
  <2>2. \A j, k \in 1 .. Len(at) : j # k => at[j] # at[k]
    <3> SUFFICES ASSUME NEW j \in 1..n, NEW k \in 1..n, j # k PROVE at[j] # at[k]
      BY <1>10
    <3>1. j < k \/ k < j
      BY <1>1
    <3>2. at[j] < at[k] \/ at[k] < at[j]
      BY <1>9, <1>10, <3>1
    <3>3. at[j] \in Int /\ at[k] \in Int
      BY <1>11
    <3> QED
      BY <3>2, <3>3
  <2>3. Threshold <= Len(at)
    BY <1>1, <1>2, <1>6, <1>10
  <2>4. \A chosen \in Seq(1..Size) :
          /\ Threshold <= Len(chosen)
          /\ \A i, j \in 1 .. Len(chosen) : i # j => chosen[i] # chosen[j]
          => combine([i \in 1 .. Len(chosen) |-> split(secret, r, Size)[chosen[i]]]) = secret
    BY <1>4, <1>6, SharesCombine, Zenon
  <2>5. combine([i \in 1 .. Len(at) |-> split(secret, r, Size)[at[i]]]) = secret
    BY <2>1, <2>2, <2>3, <2>4, Zenon
  <2> QED
    BY <1>10, <2>5 DEF shares
<1> QED
  BY <1>14, <1>15, <1>16, <1>17 DEF TallyKey, secret

(* The ballots on the log are sealed with the key of the election.         *)
LEMMA BallotsSealed ==
  ASSUME Types, BallotsOK, NEW h \in 0 .. Len(log)
  PROVE  BallotsAt(h) \in Seq(Votes) /\ SealedFor(BallotsAt(h), electionPubKey)
<1> DEFINE s == SubSeq(log, 1, h)
           B == {e \in Votes : e.encryptedBlob # None => e.encryptedBlob.to = electionPubKey}
           I == {i \in DOMAIN s : s[i].event = "VoteCast"}
<1>1. log \in Seq(Events) /\ Len(log) \in Nat /\ DOMAIN log = 1 .. Len(log)
      /\ h \in Nat /\ h <= Len(log)
  BY DEF Types
<1>2. s \in Seq(Events) /\ Len(s) = h /\ DOMAIN s = 1..h /\ \A i \in 1..h : s[i] = log[i]
  BY <1>1
<1> HIDE DEF s
<1>3. ASSUME NEW i \in I PROVE s[i] \in B
  <2>1. i \in 1 .. Len(log) /\ s[i] = log[i] /\ s[i] \in Events /\ s[i].event = "VoteCast"
    BY <1>1, <1>2
  <2>2. s[i] \in Votes
    BY <2>1 DEF Events, Finals
  <2>3. s[i].encryptedBlob # None => s[i].encryptedBlob.to = electionPubKey
    BY <1>1, <2>1 DEF BallotsOK
  <2> QED
    BY <2>2, <2>3
<1>4. I \in SUBSET (1 .. Len(s))
  BY <1>2
<1>5. BallotsAt(h) = Subsequence(s, I)
  BY DEF BallotsAt, BallotsOf, s
<1> HIDE DEF I, B
<1>6. BallotsAt(h) \in Seq(B)
  BY <1>2, <1>3, <1>4, <1>5, SubsequenceType
<1>7. \A i \in DOMAIN BallotsAt(h) : BallotsAt(h)[i] \in B
  BY <1>6
<1>8. BallotsAt(h) \in Seq(Votes)
  BY <1>2, BallotsType DEF BallotsAt, s
<1> QED
  BY <1>7, <1>8 DEF SealedFor, B

(* A result that is shown is sound. *)
LEMMA DoneSound ==
  ASSUME CommitteeInv, PageOK, BallotsOK, ReadOK, Done
  PROVE  Sound(OnPage)
<1> DEFINE h == page.height
           key == TallyKey
           ballots == BallotsAt(h)
<1>1. Types /\ page \in PageSet /\ h \in Nat /\ h <= Len(log) /\ Len(log) \in Nat
  BY DEF CommitteeInv, Types, PageOK, PageSet
<1>2. /\ SharesRead /\ BlocksRead /\ page.from > page.height
  BY DEF Done, ReadOK, Running
<1>3. page.ballots = ballots
  <2>1. ReadUpTo = h
    <3> DEFINE f == page.from
    <3>1. f \in Nat /\ ReadUpTo = IF f <= h THEN f - 1 ELSE h
      BY <1>1 DEF PageSet, ReadUpTo
    <3> HIDE DEF f, h
    <3> QED
      BY <1>1, <1>2, <3>1 DEF f, h
  <2> QED
    BY <1>2, <2>1 DEF Done, BlocksRead
<1>4. ballots \in Seq(Votes) /\ SealedFor(ballots, electionPubKey)
  BY <1>1, BallotsSealed
<1>5. IF key = electionPubKey
      THEN IsResultOf(computeTally(key, ballots), ballots, electionPubKey)
      ELSE IsUnreadable(computeTally(key, ballots), ballots)
  <2> HIDE DEF ballots, key
  <2> QED
    BY <1>4, TallyOfBallots
<1>6. TallyResult = computeTally(key, ballots)
  BY <1>3 DEF TallyResult
<1>7. Genuine(OnPage) => key = electionPubKey
  <2>1. CASE committeeFinalized
    BY <2>1, GenuineKey
  <2>2. CASE ~committeeFinalized
    BY <2>2 DEF Genuine, OnPage
  <2> QED
    BY <2>1, <2>2
<1>8. OnPage.result = TallyResult /\ OnPage.height = h
  BY DEF OnPage
<1> HIDE DEF key
<1> QED
  BY <1>5, <1>6, <1>7, <1>8 DEF Sound

-----------------------------------------------------------------------------
(* Once voting is closed nothing changes that a result was computed from.  *)
LEMMA ClosedStays ==
  ASSUME Types, Types', Growing, phase = "closed"
  PROVE  phase' = "closed" /\ log' = log /\ electionPubKey' = electionPubKey
<1>1. log \in Seq(Events) /\ log' \in Seq(Events) /\ Len(log) \in Nat /\ Len(log') \in Nat
  BY DEF Types
<1>2. Len(log') = Len(log)
  <2>1. Len(log) <= Len(log') /\ \A i \in Len(log) + 1 .. Len(log') : FALSE
    BY DEF Growing
  <2>2. Len(log) < Len(log') => Len(log') \in Len(log) + 1 .. Len(log')
    BY <1>1
  <2> QED
    BY <1>1, <2>1, <2>2
<1>3. \A i \in 1 .. Len(log) : log'[i] = log[i]
  BY DEF Growing
<1>4. log' = log
  <2>1. log = [i \in 1 .. Len(log) |-> log[i]] /\ log' = [i \in 1 .. Len(log') |-> log'[i]]
    BY <1>1
  <2> QED
    BY <1>2, <1>3, <2>1
<1> QED
  BY <1>4 DEF Growing

(* A result that is settled stays so while the chain, as far as it was     *)
(* computed from it, stays.                                                *)
LEMMA SettledStays ==
  ASSUME NEW t, Settled(t), log' = log, electionPubKey' = electionPubKey, phase' = phase,
         \A m \in t.seen : decryptedShares'[m] = decryptedShares[m]
  PROVE  Settled(t)'
<1>1. /\ phase = "closed" /\ t.height \in 0 .. Len(log)
      /\ t.seen \in SUBSET Members /\ \A m \in t.seen : decryptedShares[m] # None
      /\ Sound(t)
  BY DEF Settled
<1>2. committeeFinalized' = committeeFinalized
  BY DEF committeeFinalized
<1>3. EncryptedShares' = EncryptedShares
  BY Zenon DEF EncryptedShares, SelectInSeq
<1>4. Genuine(t)' => Genuine(t)
  BY <1>2, <1>3 DEF Genuine
<1>5. Sound(t)'
  BY <1>1, <1>4 DEF Sound, BallotsAt
<1> QED
  BY <1>1, <1>5 DEF Settled

(* No step of the system disturbs it.                                      *)
LEMMA SettledKept ==
  ASSUME Types, Types', Growing, NEW t, Settled(t)
  PROVE  Settled(t)'
<1>1. phase = "closed" /\ t.seen \in SUBSET Members /\ \A m \in t.seen : decryptedShares[m] # None
  BY DEF Settled
<1>2. phase' = phase /\ log' = log /\ electionPubKey' = electionPubKey
  BY <1>1, ClosedStays
<1>3. \A m \in t.seen : decryptedShares'[m] = decryptedShares[m]
  BY <1>1 DEF Growing, hasSubmittedShare
<1> QED
  BY <1>2, <1>3, SettledStays

(* The result is committed as it is shown, and stored as it was committed. *)
LEMMA CommitKept ==
  ASSUME CommitteeInv, CommitteeInv', PageOK, BallotsOK, ReadOK, Growing, CommitOK,
         [ResultsNext]_resultsVars
  PROVE  CommitOK'
<1>1. Types /\ Types'
  BY DEF CommitteeInv
<1>2. \A t : Settled(t) => Settled(t)'
  BY <1>1, SettledKept
<1>3. ASSUME committed' = committed, committed # None
      PROVE  Settled(committed)'
  <2>1. PICK t : t = committed
    OBVIOUS
  <2>2. Settled(t)' /\ committed' = t
    BY <1>2, <1>3, <2>1 DEF CommitOK
  <2> QED
    BY <2>2 DEF Settled, Sound, Genuine
<1>4. CASE handleCommitTally
  <2> DEFINE new == [result |-> TallyResult,
                     poseidonCommitment |-> computeTallyCommitment(TallyResult),
                     key |-> TallyKey, seen |-> page.seen, height |-> page.height]
  <2>1. /\ Done /\ phase = "closed" /\ commit' = new /\ committed' = committed
        /\ UNCHANGED committeeVars
    BY <1>4 DEF handleCommitTally
  <2>2. /\ new.result = OnPage.result /\ new.key = OnPage.key /\ new.seen = OnPage.seen
        /\ new.height = OnPage.height /\ new.seen = page.seen /\ new.height = page.height
    BY DEF OnPage
  <2> HIDE DEF new
  <2>3. Sound(OnPage)
    BY <2>1, DoneSound
  <2>4. Sound(new)
    BY <2>2, <2>3 DEF Sound, Genuine
  <2>5. \A m \in page.seen : decryptedShares[m] # None
    BY <2>1 DEF ReadOK, Running, Done, SharesRead
  <2>6. page.seen \in SUBSET Members /\ page.height \in 0 .. Len(log)
    <3>1. page.seen \in SUBSET Members /\ page.height \in Nat /\ Len(log) \in Nat
      BY <1>1 DEF PageOK, PageSet, Types
    <3> QED
      BY <3>1 DEF PageOK
  <2>7. Settled(new)
    BY <2>1, <2>2, <2>4, <2>5, <2>6 DEF Settled
  <2>8. /\ log' = log /\ electionPubKey' = electionPubKey /\ phase' = phase
        /\ decryptedShares' = decryptedShares
    BY <2>1 DEF committeeVars, onChain
  <2>9. Settled(commit)'
    <3>1. PICK t : t = new
      OBVIOUS
    <3>2. Settled(t)'
      BY <2>7, <2>8, <3>1, SettledStays
    <3>3. commit' = t
      BY <2>1, <3>1
    <3> QED
      BY <3>2, <3>3 DEF Settled, Sound, Genuine
  <2>10. committed # None => Settled(committed)'
    BY <1>2, <1>3, <2>1
  <2> QED
    BY <2>1, <2>9, <2>10 DEF CommitOK
<1>5. CASE commitTallyResult
  <2>1. /\ commit # None /\ commit' = None
        /\ committed' \in {committed, IF committed = None THEN commit ELSE committed}
        /\ UNCHANGED committeeVars
    BY <1>5 DEF commitTallyResult
  <2>2. committed' # None => Settled(committed')
    BY <2>1 DEF CommitOK
  <2>3. /\ log' = log /\ electionPubKey' = electionPubKey /\ phase' = phase
        /\ decryptedShares' = decryptedShares
    BY <2>1 DEF committeeVars, onChain
  <2>4. committed' # None => Settled(committed)'
    <3> SUFFICES ASSUME committed' # None PROVE Settled(committed)'
      OBVIOUS
    <3>1. PICK t : t = committed'
      OBVIOUS
    <3>2. Settled(t)'
      BY <2>2, <2>3, <3>1, SettledStays
    <3> QED
      BY <3>1, <3>2 DEF Settled, Sound, Genuine
  <2> QED
    BY <2>1, <2>4 DEF CommitOK
<1>6. CASE UNCHANGED <<commit, committed>>
  <2>1. commit # None => Settled(commit)'
    <3> SUFFICES ASSUME commit # None PROVE Settled(commit)'
      OBVIOUS
    <3>1. PICK t : t = commit
      OBVIOUS
    <3>2. Settled(t)' /\ commit' = t
      BY <1>2, <1>6, <3>1 DEF CommitOK
    <3> QED
      BY <3>2 DEF Settled, Sound, Genuine
  <2> QED
    BY <1>6, <1>3, <2>1 DEF CommitOK
<1> QED
  BY <1>4, <1>5, <1>6
  DEF ResultsNext, resultsVars, SwitchTab, Reload, Retally, runTally, runOnChainCommitteeTally, Begin,
      TallyStep, ReadShare, ReadHeight, FetchVotes, SetTallyResult, TallyFails, Page,
      CastVote, handleCloseVoting

(* The inductive invariant of the results.                                 *)
SoundInv == ResultsInv /\ TallyInv

(* The whole starts in the invariant.                                      *)
LEMMA TallyInitOK == ResultsInit => TallyInv
<1> SUFFICES ASSUME ResultsInit PROVE TallyInv
  OBVIOUS
<1>1. log = <<>> /\ page = FreshPage /\ commit = None /\ committed = None
      /\ phase = IF electionPubKey = None THEN "signup" ELSE "voting"
  BY DEF ResultsInit, CommitteeInit
<1>2. BallotsOK
  BY <1>1 DEF BallotsOK
<1>3. SingleOK
  BY <1>1 DEF SingleOK
<1>4. ReadOK
  BY <1>1 DEF ReadOK, Running, FreshPage
<1>5. CommitOK
  BY <1>1 DEF CommitOK
<1> QED
  BY <1>2, <1>3, <1>4, <1>5 DEF TallyInv

(* Every step of the system keeps what a page has read in order.           *)
LEMMA ReadStep ==
  ASSUME ResultsInv, ResultsInv', Growing, SingleOK, ReadOK, [ResultsNext]_resultsVars
  PROVE  ReadOK'
<1>1. CommitteeInv /\ PageOK /\ Types' /\ page \in PageSet
  BY DEF ResultsInv, CommitteeInv, PageOK
<1>2. CASE page' = page
  BY <1>1, <1>2, ReadKept
<1>3. CASE SwitchTab
  <2>1. PICK tab \in {"results", "other"} \ {page.tab} : Page(Rendered([page EXCEPT !.tab = tab]))
    BY <1>3 DEF SwitchTab
  <2> DEFINE new == [page EXCEPT !.tab = tab]
  <2>2. /\ new \in PageSet /\ new.seen = page.seen /\ new.shares = page.shares
        /\ new.height = page.height /\ new.from = page.from /\ new.ballots = page.ballots
        /\ new.step = page.step
    BY <1>1 DEF PageSet
  <2> HIDE DEF new
  <2>3. Page(Rendered(new)) /\ UNCHANGED committeeVars
    BY <2>1 DEF new, Page
  <2>4. CASE Running
    BY <1>1, <2>2, <2>3, <2>4, ReadRendered
  <2>5. CASE ~Running
    <3>1. page' = new \/ page' = [FreshPage EXCEPT !.step = "crashed"]
      BY <2>3 DEF Page, Rendered
    <3>2. page'.step \in {"idle", "crashed"}
      BY <1>1, <2>2, <2>5, <3>1 DEF Running, PageSet, FreshPage
    <3> QED
      BY <3>2, ReadRests
  <2> QED
    BY <2>4, <2>5
<1>4. CASE Reload \/ Retally \/ TallyFails
  <2>1. page'.step = "idle"
    BY <1>1, <1>4 DEF Reload, Retally, TallyFails, Page, FreshPage, PageSet
  <2> QED
    BY <2>1, ReadRests
<1>5. CASE runTally \/ runOnChainCommitteeTally
  BY <1>1, <1>5, ReadBegins
<1>6. CASE ReadShare
  BY <1>1, <1>6, ReadNextShare
<1>7. CASE ReadHeight
  BY <1>1, <1>7, ReadFirstBlock
<1>8. CASE FetchVotes
  BY <1>1, <1>8, ReadNextBlocks
<1>9. CASE SetTallyResult
  <2> DEFINE new == [page EXCEPT !.step = "done"]
  <2>1. /\ page.step = "fetch" /\ page.from > page.height
        /\ Page(Rendered(new)) /\ UNCHANGED committeeVars
    BY <1>9 DEF SetTallyResult, Awaits, Page
  <2>2. /\ new \in PageSet /\ new.seen = page.seen /\ new.shares = page.shares
        /\ new.height = page.height /\ new.from = page.from /\ new.ballots = page.ballots
        /\ new.step = "done"
    BY <1>1 DEF PageSet
  <2> HIDE DEF new
  <2>3. Running
    BY <2>1 DEF Running
  <2> QED
    BY <1>1, <2>1, <2>2, <2>3, ReadRendered
<1> QED
  BY <1>2, <1>3, <1>4, <1>5, <1>6, <1>7, <1>8, <1>9
  DEF ResultsNext, resultsVars, TallyStep, CastVote, handleCloseVoting,
      handleCommitTally, commitTallyResult

(* Every step keeps the invariant.                                         *)
LEMMA SoundStep == SoundInv /\ [ResultsNext]_resultsVars => SoundInv'
<1> SUFFICES ASSUME SoundInv, [ResultsNext]_resultsVars PROVE SoundInv'
  OBVIOUS
<1>1. ResultsInv /\ ResultsInv' /\ CommitteeInv /\ CommitteeInv' /\ Types /\ Types' /\ PageOK
  <2>1. ResultsInv /\ ResultsInv'
    BY ResultsStep DEF SoundInv
  <2> QED
    BY <2>1 DEF ResultsInv, CommitteeInv
<1>2. BallotsOK /\ SingleOK /\ ReadOK /\ CommitOK
  BY DEF SoundInv, TallyInv
<1>3. Growing
  BY <1>1, ChainGrows
<1>4. BallotsOK' /\ SingleOK'
  BY <1>1, <1>2, <1>3, BallotsKept
<1>5. ReadOK'
  BY <1>1, <1>2, <1>3, ReadStep
<1>6. CommitOK'
  BY <1>1, <1>2, <1>3, CommitKept
<1> QED
  BY <1>1, <1>4, <1>5, <1>6 DEF SoundInv, TallyInv

(* A result on the page or on the chain that was computed with the right   *)
(* key, or from enough shares that members' pages submitted, counts the    *)
(* last ballot of every voter up to the block that was the last when it    *)
(* was asked for; with a wrong key or share it does so or counts none.     *)
THEOREM ResultsAreSound == ResultsSpec => []ResultSound
<1>1. ResultsInit => SoundInv
  BY ResultsInitOK, TallyInitOK DEF SoundInv
<1>2. SoundInv => ResultSound
  <2> SUFFICES ASSUME SoundInv PROVE ResultSound
    OBVIOUS
  <2>1. CommitteeInv /\ PageOK /\ BallotsOK /\ ReadOK /\ CommitOK
    BY DEF SoundInv, ResultsInv, TallyInv
  <2>2. Done => Sound(OnPage)
    BY <2>1, DoneSound
  <2>3. committed # None => Sound(committed)
    BY <2>1 DEF CommitOK, Settled
  <2> QED
    BY <2>2, <2>3 DEF ResultSound
<1> QED
  BY <1>1, <1>2, SoundStep, PTL DEF ResultsSpec
=============================================================================
