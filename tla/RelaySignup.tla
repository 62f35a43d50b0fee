---------------------------- MODULE RelaySignup ----------------------------
(***************************************************************************)
(* Gated signup through the relay,                                         *)
(* apps/web-app/src/app/api/relay/route.ts.                                *)
(*                                                                         *)
(* The relay is one Node.js process: handlers interleave only where they   *)
(* await, so each action is the code between two awaits.  What it remembers*)
(* (rate limits, used codes, cached metadata) is process memory and is     *)
(* gone after a restart.  A handler ends with the hash of a transaction    *)
(* that is broadcast, not confirmed: the transaction may still be mined,   *)
(* revert, or be replaced by another one with the same nonce.              *)
(*                                                                         *)
(* Abstractions: one election; a credential (the hash of an invite code,   *)
(* of an allowlist identifier, of a verified e-mail address, of a GitHub   *)
(* id, or a token holder's address) is a model value, and "listed" when    *)
(* the election's metadata, the HMAC or the token balance admits it; the   *)
(* contract's signup is the part of it the relay can see: a phase and the  *)
(* commitments on the roll.                                                *)
(*                                                                         *)
(* Definitions Slip_X are described in module SpectreVoting.               *)
(***************************************************************************)
EXTENDS Naturals, FiniteSets

CONSTANTS
  Requests,     \* POST requests that reach the relay
  Clients,      \* IP addresses
  Listed,       \* credentials the election's gate admits
  Unlisted,     \* other credentials a client may present
  Commitments,  \* identity commitments to put on the roll
  Gates,        \* gate types an election may be created with
  MaxCalls,     \* MAX_CALLS_PER_IP_PER_ELECTION
  MaxRestarts,  \* bound on the restarts of the process
  None          \* no metadata

Fallback == {"invite-codes", "allowlist"}             \* gates with the cold-start fallback
Tracked  == Fallback \cup {"email-domain", "github-org"}  \* gates that use up a credential
AllGates == Tracked \cup {"token-gate", "open"}

ASSUME GatesAssumption  == Gates \subseteq AllGates /\ None \notin AllGates
ASSUME ListedAssumption == Listed \cap Unlisted = {} /\ IsFiniteSet(Commitments)
ASSUME BoundsAssumption == MaxCalls \in Nat /\ MaxRestarts \in Nat

VARIABLES
  gate,              \* metadata.gateType of the election, fixed at creation
  selfSignupAllowed, \* of the contract
  phase,             \* "open", "expired" (deadline passed, not closed) or "closed"
  roll,              \* commitments with a VoterSignedUp event
  mempool,           \* requests whose transaction is pending
  broadcast,         \* requests whose transaction was ever broadcast
  rateLimit,         \* rateLimitMap
  usedCodes,         \* usedCodeHashes of this election
  metadataCached,    \* metadataCache holds this election
  restarts,          \* how often the process has restarted
  handler            \* the local state of each request's handler

chain  == <<gate, selfSignupAllowed, phase, roll>>
memory == <<rateLimit, usedCodes, metadataCached, restarts>>
vars   == <<chain, mempool, broadcast, memory, handler>>

Credentials == Listed \cup Unlisted
Waiting == {"reading", "checking", "counting", "counted", "sending"}
Handlers ==
  [pc : {"idle", "answered", "refused", "lost"} \cup Waiting,
   code : Credentials \cup {None}, voter : Commitments \cup {None},
   open : BOOLEAN, meta : AllGates \cup {None}, count : Nat, life : Nat]

Init ==
  /\ gate \in Gates /\ selfSignupAllowed \in BOOLEAN
  /\ phase = "open" /\ roll = {} /\ mempool = {} /\ broadcast = {}
  /\ rateLimit = [c \in Clients |-> 0] /\ usedCodes = {}
  /\ metadataCached = FALSE /\ restarts = 0
  /\ handler = [r \in Requests |->
                  [pc |-> "idle", code |-> None, voter |-> None, open |-> FALSE,
                   meta |-> None, count |-> 0, life |-> 0]]

Goto(r, label) == handler' = [handler EXCEPT ![r].pc = label]
At(r, label) == handler[r].pc = label

-----------------------------------------------------------------------------
(* The handler of a request, from one await to the next. *)

isCodeUsed(code) == code \in usedCodes

(* markCodeUsed, before the transaction is submitted. *)
Slip_Marked(code) == usedCodes
Marked(code) == usedCodes \cup {code}
Slip_Unmarked(code) == usedCodes
Unmarked(code) == usedCodes \ {code}

Admissible(r) == handler[r].open /\ selfSignupAllowed
Slip_Ungated(r) == handler[r].meta \notin Fallback
Ungated(r) == handler[r].meta \in {None, "open"}
Valid(r) == handler[r].code \in Listed

(* The call arrives and is counted against its IP address. *)
Post(r, c, code, v) ==
  /\ At(r, "idle")
  /\ rateLimit[c] < MaxCalls
  /\ rateLimit' = [rateLimit EXCEPT ![c] = @ + 1]
  /\ handler' = [handler EXCEPT ![r].pc = "reading", ![r].code = code,
                                ![r].voter = v, ![r].life = restarts]
  /\ UNCHANGED <<chain, mempool, broadcast, usedCodes, metadataCached, restarts>>

RateLimited(r, c) ==
  /\ At(r, "idle")
  /\ rateLimit[c] >= MaxCalls
  /\ Goto(r, "refused")
  /\ UNCHANGED <<chain, mempool, broadcast, memory>>

(* getElectionMetadata answers from its cache, or from the event log, or   *)
(* with null when the log cannot be read.                                  *)
MetadataRead == IF metadataCached THEN {gate} ELSE {gate, None}

(* The three pre-checks are read together.  The contract's flag stays up   *)
(* after the deadline until somebody closes the phase.                     *)
Read(r) ==
  /\ At(r, "reading")
  /\ \E meta \in MetadataRead :
       /\ handler' = [handler EXCEPT ![r].pc = "checking",
                                     ![r].open = (phase # "closed"), ![r].meta = meta]
       /\ metadataCached' = (metadataCached \/ meta # None)
  /\ UNCHANGED <<chain, mempool, broadcast, rateLimit, usedCodes, restarts>>

(* Any read of the contracts may fail and end the call; the token balance  *)
(* is read after the pre-checks.                                           *)
ReadFails(r) ==
  /\ \/ At(r, "reading")
     \/ At(r, "checking") /\ handler[r].meta = "token-gate" /\ Admissible(r)
  /\ Goto(r, "refused")
  /\ UNCHANGED <<chain, mempool, broadcast, memory>>

Refuse(r) ==
  /\ At(r, "checking")
  /\ \/ ~Admissible(r)
     \/ ~Ungated(r) /\ ~Valid(r)
     \/ handler[r].meta \in Tracked /\ isCodeUsed(handler[r].code)
  /\ Goto(r, "refused")
  /\ UNCHANGED <<chain, mempool, broadcast, memory>>

(* Elections without a gate, and token gates, keep no track of signups. *)
PassUntracked(r) ==
  /\ At(r, "checking") /\ Admissible(r)
  /\ \/ Ungated(r)
     \/ handler[r].meta = "token-gate" /\ Valid(r)
  /\ Goto(r, "sending")
  /\ UNCHANGED <<chain, mempool, broadcast, memory>>

Fresh(r) ==
  /\ Admissible(r) /\ handler[r].meta \in Tracked
  /\ Valid(r) /\ ~isCodeUsed(handler[r].code)

NeedsCount(r) == handler[r].meta \in Fallback /\ usedCodes = {}

Mark(r) ==
  /\ usedCodes' = Marked(handler[r].code)
  /\ Goto(r, "sending")
  /\ UNCHANGED <<chain, mempool, broadcast, rateLimit, metadataCached, restarts>>

PassTracked(r) == At(r, "checking") /\ Fresh(r) /\ ~NeedsCount(r) /\ Mark(r)

(* Cold start fallback: no code is tracked, so the signups are counted. *)
StartCount(r) ==
  /\ At(r, "checking") /\ Fresh(r) /\ NeedsCount(r)
  /\ Goto(r, "counting")
  /\ UNCHANGED <<chain, mempool, broadcast, memory>>

(* getSignupCount answers 0 when the log cannot be read. *)
Count(r) ==
  /\ At(r, "counting")
  /\ \E n \in {Cardinality(roll), 0} :
       handler' = [handler EXCEPT ![r].pc = "counted", ![r].count = n]
  /\ UNCHANGED <<chain, mempool, broadcast, memory>>

Exhausted(r) == handler[r].count >= Cardinality(Listed)

RefuseExhausted(r) ==
  /\ At(r, "counted") /\ Exhausted(r)
  /\ Goto(r, "refused")
  /\ UNCHANGED <<chain, mempool, broadcast, memory>>

PassCounted(r) == At(r, "counted") /\ ~Exhausted(r) /\ Mark(r)

(* What election.signUp would do on the current state of the chain. *)
WouldSucceed(r) == phase = "open" /\ handler[r].voter \notin roll

(* The gas estimate succeeds and the transaction is broadcast. *)
Send(r) ==
  /\ At(r, "sending")
  /\ WouldSucceed(r)
  /\ mempool' = mempool \cup {r}
  /\ broadcast' = broadcast \cup {r}
  /\ Goto(r, "answered")
  /\ UNCHANGED <<chain, memory>>

(* election.signUp throws: nothing was broadcast, or it was and the answer *)
(* of the node got lost.  The credential is given back.                    *)
SendFails(r) ==
  /\ At(r, "sending")
  /\ \/ UNCHANGED <<mempool, broadcast>>
     \/ /\ WouldSucceed(r)
        /\ mempool' = mempool \cup {r}
        /\ broadcast' = broadcast \cup {r}
  /\ usedCodes' = IF handler[r].meta \in Tracked THEN Unmarked(handler[r].code)
                                                ELSE usedCodes
  /\ Goto(r, "refused")
  /\ UNCHANGED <<chain, rateLimit, metadataCached, restarts>>

-----------------------------------------------------------------------------
(* The chain and the process around the handlers. *)

(* A pending transaction is mined; it reverts when the phase is over or    *)
(* the commitment is on the roll already.                                  *)
Mine(r) ==
  /\ r \in mempool
  /\ mempool' = mempool \ {r}
  /\ roll' = IF WouldSucceed(r) THEN roll \cup {handler[r].voter} ELSE roll
  /\ UNCHANGED <<gate, selfSignupAllowed, phase, broadcast, memory, handler>>

Drop(r) ==
  /\ r \in mempool
  /\ mempool' = mempool \ {r}
  /\ UNCHANGED <<chain, broadcast, memory, handler>>

(* A voter with a wallet calls signUp on the contract herself. *)
DirectSignUp(v) ==
  /\ phase = "open" /\ selfSignupAllowed /\ v \notin roll
  /\ roll' = roll \cup {v}
  /\ UNCHANGED <<gate, selfSignupAllowed, phase, mempool, broadcast, memory, handler>>

SignupEnds ==
  /\ \/ phase = "open" /\ phase' \in {"expired", "closed"}
     \/ phase = "expired" /\ phase' = "closed"
  /\ UNCHANGED <<gate, selfSignupAllowed, roll, mempool, broadcast, memory, handler>>

(* A cold start: memory is empty and the calls in progress are gone. *)
Restart ==
  /\ restarts < MaxRestarts
  /\ restarts' = restarts + 1
  /\ rateLimit' = [c \in Clients |-> 0]
  /\ usedCodes' = {}
  /\ metadataCached' = FALSE
  /\ handler' = [r \in Requests |->
                   IF handler[r].pc \in Waiting THEN [handler[r] EXCEPT !.pc = "lost"]
                                                ELSE handler[r]]
  /\ UNCHANGED <<chain, mempool, broadcast>>

Handle(r) ==
  \/ Read(r) \/ ReadFails(r)
  \/ Refuse(r) \/ PassUntracked(r) \/ PassTracked(r)
  \/ StartCount(r) \/ Count(r) \/ RefuseExhausted(r) \/ PassCounted(r)
  \/ Send(r) \/ SendFails(r)

Next ==
  \/ \E r \in Requests, c \in Clients :
       \/ \E code \in Credentials, v \in Commitments : Post(r, c, code, v)
       \/ RateLimited(r, c)
  \/ \E r \in Requests : Handle(r) \/ Mine(r) \/ Drop(r)
  \/ \E v \in Commitments : DirectSignUp(v)
  \/ SignupEnds \/ Restart

Spec == Init /\ [][Next]_vars

-----------------------------------------------------------------------------
(* Properties. *)

(* The relay's maps and the handlers' variables hold values of their types. *)
TypeOK ==
  /\ gate \in Gates /\ selfSignupAllowed \in BOOLEAN
  /\ phase \in {"open", "expired", "closed"} /\ roll \subseteq Commitments
  /\ mempool \subseteq broadcast /\ broadcast \subseteq Requests
  /\ rateLimit \in [Clients -> 0 .. MaxCalls]
  /\ usedCodes \subseteq Listed
  /\ metadataCached \in BOOLEAN /\ restarts \in 0 .. MaxRestarts
  /\ handler \in [Requests -> Handlers]

(* The calls of one process lifetime that relay under a credential. *)
Relaying(r) == handler[r].pc \in {"sending", "answered"} /\ handler[r].meta \in Tracked

(* A verified e-mail address or GitHub account is good for one relayed     *)
(* signup per lifetime of the process: two calls with the same one are     *)
(* never both submitting or answered with a hash, however they interleave  *)
(* and fail, because the check and the mark are not separated by an await. *)
(* (A call whose submission throws gives the account back, also when the   *)
(* transaction is under way: see SendFails.)                               *)
OneSignupPerAccount ==
  gate \notin Fallback =>
    \A r, s \in Requests :
      /\ Relaying(r) /\ Relaying(s)
      /\ handler[r].code = handler[s].code /\ handler[r].life = handler[s].life
      => r = s

(* A failed submission never burns a credential: what is marked as used is *)
(* in the hands of a call that is submitting, or was submitted.            *)
MarkedMeansSubmitted ==
  \A code \in usedCodes :
    \E r \in Requests : /\ handler[r].code = code
                        /\ At(r, "sending") \/ r \in broadcast

(* Every relayed signup of a gated election presented a credential of the  *)
(* gate, unless the election's metadata could not be read.                 *)
GateKept ==
  \A r \in broadcast :
    gate # "open" /\ handler[r].code \in Unlisted => handler[r].meta = None

(* "Mark code used BEFORE submitting tx (Node.js single-threaded - no      *)
(* race)" (route.ts:312): a call that marks a credential finds it unmarked.*)
NoRaceOnMark ==
  [][\A r \in Requests :
       ~Relaying(r) /\ Relaying(r)' => handler[r].code \notin usedCodes]_vars

(* "Invite code required for this election" (route.ts:268), and its        *)
(* counterparts for the other gates: without a credential of the gate no   *)
(* signup of a gated election is relayed.                                  *)
GateEnforced ==
  \A r \in broadcast : gate = "open" \/ handler[r].code \in Listed
=============================================================================
