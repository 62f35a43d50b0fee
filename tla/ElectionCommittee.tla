------------------------- MODULE ElectionCommittee --------------------------
(***************************************************************************)
(* A committee's key ceremony and its shares: the handlers of the election *)
(* page, apps/web-app/src/app/election/[address]/page.tsx, in the browsers *)
(* of the members and of the admin, against the committee's part of        *)
(* apps/contracts/contracts/SpectreVoting.sol.                             *)
(*                                                                         *)
(* A handler awaits the wallet and the receipt.  A wait may fail while the *)
(* transaction is still to be mined, and a page may be left or reloaded:   *)
(* its handler is gone, what its browser stores stays, and transactions    *)
(* under way stay under way.                                               *)
(*                                                                         *)
(* Abstractions: the committee was set up when the election was created,   *)
(* without repeated members (module SpectreVoting has them); a member uses *)
(* one browser, whose pages may show any earlier state of the chain; a key *)
(* is named by its member and the number of the draw; the log holds the    *)
(* CommitteeFinalized and VoteCast events, each in a block of its own.  An *)
(* election with a single key has no committee, and its signup is over.    *)
(*                                                                         *)
(* Definitions Slip_X are described in module SpectreVoting.               *)
(***************************************************************************)
EXTENDS Tally

CONSTANTS
  Committee,  \* the members, in the order of the contract's list
  Threshold,  \* shares that reconstruct the key
  MaxDraws,   \* bound on the keys a member draws
  MaxDeals,   \* bound on the ceremonies
  HandBytes,  \* what a member may submit by hand
  SingleKeys, \* the keys of elections without a committee
  Junk        \* bytes that are no share, none at all included

Members == Range(Committee)
Keys == [member : Members, draw : 1..MaxDraws]

ASSUME CommitteeAssumption ==
  /\ Committee \in Seq(Members) /\ IsInjective(Committee)
  /\ Len(Committee) < ORDER /\ Splittable(Len(Committee), Threshold)
  /\ {MaxDraws, MaxDeals} \subseteq Nat /\ SingleKeys \subseteq Scalars \ {0}
  /\ HandBytes \subseteq ShareSet \cup {Junk}
  /\ None \notin Keys \cup Scalars /\ Junk # None /\ Junk \notin ShareSet

VARIABLES
  phase,               \* signupOpen and votingOpen of the contract
  committeePublicKeys, \* by member
  electionPubKey,
  decryptedShares,     \* by member, what the contract stores
  log,                 \* the events, oldest first
  stored,              \* by member, the key in the browser
  drawn,               \* by member, the keys drawn so far
  handler,             \* by member, the running handler of the page
  sent,                \* the members' transactions under way
  deals,               \* the ceremonies of the admin's page
  overlapped           \* members who drew a key beside a registration under way

onChain == <<phase, committeePublicKeys, electionPubKey, decryptedShares, log>>
browsers == <<stored, drawn, handler, overlapped>>
committeeVars == <<onChain, browsers, sent, deals>>

Idle == [pc |-> "idle", content |-> None]
NoDeal == [pc |-> "idle", keys |-> <<>>, setup |-> None]

CommitteeInit ==
  /\ electionPubKey \in {None} \cup SingleKeys /\ log = <<>>
  /\ phase = IF electionPubKey = None THEN "signup" ELSE "voting"
  /\ committeePublicKeys = [m \in Members |-> None]
  /\ decryptedShares = [m \in Members |-> None]
  /\ stored = [m \in Members |-> None]
  /\ drawn = [m \in Members |-> 0]
  /\ handler = [m \in Members |-> Idle]
  /\ sent = {} /\ overlapped = {}
  /\ deals = [d \in 1..MaxDeals |-> NoDeal]

committeeFinalized == \E i \in DOMAIN log : log[i].event = "CommitteeFinalized"
Registered == {m \in Members : committeePublicKeys[m] # None}
hasSubmittedShare(m) == decryptedShares[m] # None

Step(m, label) == handler[m].pc = label
Calls(m, fn) == {t \in sent : t.from = m /\ t.fn = fn}

-----------------------------------------------------------------------------
(* A member's key.  The page may not know yet of a registration.           *)

(* The key goes into the browser before the transaction goes out.          *)
Slip_Kept(m, key) == stored
Kept(m, key) == [stored EXCEPT ![m] = key]

handleRegisterCommitteeKey(m) ==
  LET key == [member |-> m, draw |-> drawn[m] + 1]
  IN /\ phase = "signup" /\ ~committeeFinalized
     /\ Step(m, "idle") /\ drawn[m] < MaxDraws
     /\ drawn' = [drawn EXCEPT ![m] = @ + 1]
     /\ stored' = Kept(m, key)
     /\ handler' = [handler EXCEPT ![m] = [pc |-> "sign key", content |-> key]]
     /\ overlapped' = IF Calls(m, "registerCommitteeKey") # {} \/ m \in Registered
                      THEN overlapped \cup {m} ELSE overlapped
     /\ UNCHANGED <<onChain, sent, deals>>

(* The wallet signs and sends what the handler has prepared.               *)
Prepared == [key   |-> [fn |-> "registerCommitteeKey", next |-> "wait key"],
             share |-> [fn |-> "submitDecryptedShare", next |-> "wait share"]]

SignCall(m) ==
  /\ Step(m, "sign key") \/ Step(m, "sign share")
  /\ LET call == IF Step(m, "sign key") THEN Prepared.key ELSE Prepared.share
     IN /\ sent' = sent \cup {[from |-> m, fn |-> call.fn, content |-> handler[m].content]}
        /\ handler' = [handler EXCEPT ![m].pc = call.next]
  /\ UNCHANGED <<onChain, stored, drawn, overlapped, deals>>

(* Refused by the wallet, a failed wait, or a page left or reloaded.       *)
GiveUp(m) ==
  /\ ~Step(m, "idle")
  /\ handler' = [handler EXCEPT ![m] = Idle]
  /\ UNCHANGED <<onChain, stored, drawn, overlapped, sent, deals>>

(* The handler that waits for t has its receipt. *)
Answered(t) == handler' =
  IF handler[t.from].pc \in {"wait key", "wait share"} /\ handler[t.from].content = t.content
  THEN [handler EXCEPT ![t.from] = Idle] ELSE handler

Registrable(m) == phase = "signup" /\ ~committeeFinalized /\ m \notin Registered

registerCommitteeKey(t) ==
  /\ t \in sent /\ t.fn = "registerCommitteeKey"
  /\ sent' = sent \ {t} /\ Answered(t)
  /\ committeePublicKeys' = IF Registrable(t.from)
       THEN [committeePublicKeys EXCEPT ![t.from] = t.content] ELSE committeePublicKeys
  /\ UNCHANGED <<phase, electionPubKey, decryptedShares, log,
                 stored, drawn, overlapped, deals>>

-----------------------------------------------------------------------------
(* The ceremony, handleFinalizeCommittee: offered once the page shows that *)
(* all are registered, it reads the keys one by one and deals at once.     *)

StartDeal(d) ==
  /\ phase = "signup" /\ Registered = Members
  /\ deals[d].pc = "idle" /\ \A c \in 1 .. d - 1 : deals[c].pc # "idle"
  /\ deals' = [deals EXCEPT ![d].pc = "read"]
  /\ UNCHANGED <<onChain, browsers, sent>>

ReadKey(d) ==
  LET next == Len(deals[d].keys) + 1
      member == Committee[next]
      keys == Append(deals[d].keys, [id |-> member, publicKey |-> committeePublicKeys[member]])
  IN /\ deals[d].pc = "read"
     /\ IF next < Len(Committee)
        THEN deals' = [deals EXCEPT ![d].keys = keys]
        ELSE \E secret \in Scalars \ {0}, r \in [1 .. Threshold - 1 -> Scalars] :
               deals' = [deals EXCEPT ![d] =
                 [pc |-> "sign", keys |-> keys, setup |-> setupElection(keys, secret, r)]]
     /\ UNCHANGED <<onChain, browsers, sent>>

SignDeal(d) ==
  /\ deals[d].pc = "sign"
  /\ deals' = [deals EXCEPT ![d].pc = "sent"]
  /\ UNCHANGED <<onChain, browsers, sent>>

(* A ceremony given up before it is sent is forgotten; one that is sent is *)
(* mined whether its page waits or not.                                    *)
GiveUpDeal(d) ==
  /\ deals[d].pc \in {"read", "sign"}
  /\ deals' = [deals EXCEPT ![d] = [NoDeal EXCEPT !.pc = "over"]]
  /\ UNCHANGED <<onChain, browsers, sent>>

Slip_Finalizable == phase = "signup" /\ Registered = Members
Finalizable == phase = "signup" /\ ~committeeFinalized /\ Registered = Members

finalizeCommittee(d) ==
  /\ deals[d].pc = "sent"
  /\ deals' = [deals EXCEPT ![d] = [NoDeal EXCEPT !.pc = "over"]]
  /\ IF Finalizable
     THEN /\ electionPubKey' = deals[d].setup.electionPubKey
          /\ log' = Append(log, [event |-> "CommitteeFinalized",
                                 shares |-> deals[d].setup.encryptedShares])
     ELSE UNCHANGED <<electionPubKey, log>>
  /\ UNCHANGED <<phase, committeePublicKeys, decryptedShares, browsers, sent>>

handleCloseSignup ==
  /\ phase = "signup" /\ committeeFinalized
  /\ phase' = "voting"
  /\ UNCHANGED <<committeePublicKeys, electionPubKey, decryptedShares, log,
                 browsers, sent, deals>>

-----------------------------------------------------------------------------
(* A member's share, once voting is closed. *)

(* The first CommitteeFinalized event. *)
EncryptedShares ==
  LET Final(e) == e.event = "CommitteeFinalized"
  IN log[SelectInSeq(log, Final)].shares

CanDecrypt(m) ==
  /\ stored[m] # None
  /\ Opens(stored[m], MyShare(EncryptedShares, m).encryptedData)

handleSubmitDecryptedShare(m) ==
  /\ phase = "closed" /\ committeeFinalized
  /\ Step(m, "idle") /\ Calls(m, "submitDecryptedShare") = {} /\ ~hasSubmittedShare(m)
  /\ CanDecrypt(m)
  /\ handler' = [handler EXCEPT ![m] =
       [pc |-> "sign share",
        content |-> decryptShare(stored[m], MyShare(EncryptedShares, m).encryptedData)]]
  /\ UNCHANGED <<onChain, stored, drawn, overlapped, sent, deals>>

Submit(m, bytes) ==
  decryptedShares' = IF hasSubmittedShare(m) THEN decryptedShares
                     ELSE [decryptedShares EXCEPT ![m] = bytes]

submitDecryptedShare(t) ==
  /\ t \in sent /\ t.fn = "submitDecryptedShare"
  /\ sent' = sent \ {t} /\ Answered(t)
  /\ Submit(t.from, t.content)
  /\ UNCHANGED <<phase, committeePublicKeys, electionPubKey, log,
                 stored, drawn, overlapped, deals>>

(* The contract takes whatever bytes a member sends it directly, malformed *)
(* or empty: it counts both as submitted, and the page skips both alike.   *)
SubmitByHand(m) ==
  /\ phase = "closed" /\ committeeFinalized /\ ~hasSubmittedShare(m)
  /\ \E bytes \in HandBytes : Submit(m, bytes)
  /\ UNCHANGED <<phase, committeePublicKeys, electionPubKey, log, browsers, sent, deals>>

MemberStep(m) ==
  \/ handleRegisterCommitteeKey(m) \/ SignCall(m) \/ GiveUp(m)
  \/ handleSubmitDecryptedShare(m) \/ SubmitByHand(m)
AdminStep(d) ==
  \/ StartDeal(d) \/ ReadKey(d) \/ SignDeal(d) \/ GiveUpDeal(d)
  \/ finalizeCommittee(d)
Mined == \E t \in sent : registerCommitteeKey(t) \/ submitDecryptedShare(t)

CommitteeNext ==
  \/ \E m \in Members : MemberStep(m)
  \/ \E d \in 1..MaxDeals : AdminStep(d)
  \/ Mined \/ handleCloseSignup

-----------------------------------------------------------------------------
(* The types of the committee's part of the state. *)
CommitteeTypeOK ==
  /\ phase \in {"signup", "voting", "closed"}
  /\ committeePublicKeys \in [Members -> Keys \cup {None}]
  /\ electionPubKey \in Scalars \cup {None}
  /\ decryptedShares \in [Members -> ShareSet \cup {Junk, None}]
  /\ stored \in [Members -> Keys \cup {None}]
  /\ drawn \in [Members -> 0..MaxDraws]
  /\ handler \in [Members ->
       [pc : {"idle", "sign key", "wait key", "sign share", "wait share"},
        content : Keys \cup ShareSet \cup {None}]]
  /\ sent \subseteq [from : Members, content : Keys \cup ShareSet,
                     fn : {"registerCommitteeKey", "submitDecryptedShare"}]
  /\ \A d \in 1..MaxDeals : deals[d].pc \in {"idle", "read", "sign", "sent", "over"}
  /\ overlapped \subseteq Members

(* What the members of S were sent. *)
Entries(S) == {i \in DOMAIN EncryptedShares : EncryptedShares[i].memberId \in S}
Dealt(S) == LET chosen == Subsequence(EncryptedShares, Entries(S))
            IN [i \in DOMAIN chosen |-> chosen[i].encryptedData.content]

(* However ceremonies overlap: the key published with the first one is     *)
(* what any members enough for the threshold reconstruct from their shares.*)
SharesReconstruct == committeeFinalized =>
  \A S \in SUBSET Members : Cardinality(S) >= Threshold =>
    combine(Dealt(S)) = electionPubKey

(* Fewer members learn nothing: for every key there is a dealing that      *)
(* gives them the shares that they have.                                   *)
Dealings == [secret \in Scalars |->
  {Range(split(secret, r, Len(Committee))) : r \in [1 .. Threshold - 1 -> Scalars]}]

SharesSecret == committeeFinalized =>
  \A S \in SUBSET Members : Cardinality(S) = Threshold - 1 =>
    LET known == Range(Dealt(S))
    IN \A secret \in Scalars : \E dealing \in Dealings[secret] : known \subseteq dealing

(* After the ceremony every member can open the share that is for it, with *)
(* the key in its browser, unless it drew another key while one that it    *)
(* had sent was under way or registered.                                   *)
ShareOpens == committeeFinalized => \A m \in Members \ overlapped : CanDecrypt(m)
=============================================================================
