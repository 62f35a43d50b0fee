------------------------- MODULE EmailVerification -------------------------
(***************************************************************************)
(* E-mail verification, apps/web-app/src/app/api/verify-email/route.ts.    *)
(*                                                                         *)
(* One Node.js process keeps the pending codes in memory.  A "send" awaits *)
(* the election's metadata, before it reads or writes any of them, and the *)
(* mail service after it has stored a code, so sends to one address        *)
(* overlap; a "verify" runs without an await.                              *)
(*                                                                         *)
(* Abstractions: one election; an address is a model value, case and       *)
(* blanks removed; the code drawn by a send is the number of that send, so *)
(* two codes are equal only by a guess of the caller; the token, an HMAC   *)
(* of the address and the election, is the address itself, and no one else *)
(* can make one.  The mail service is external.                            *)
(*                                                                         *)
(* Definitions Slip_X are described in module SpectreVoting.               *)
(***************************************************************************)
EXTENDS Integers, Sequences, FiniteSets

CONSTANTS
  Gates,        \* gate types an election may be created with
  Allowed,      \* addresses in a domain of the election's metadata
  Foreign,      \* addresses in other domains
  MaxCalls,     \* bound on the requests in a behaviour
  CodeTtl,      \* how long a code is valid
  SendWindow,   \* the hour that send counters look back
  MaxSends,     \* sends in that window
  MaxAttempts,  \* attempts at one code
  MaxTime,      \* bound on the clock
  MaxRestarts,  \* bound on the restarts of the process
  None          \* no address, no code, no record

Addresses == Allowed \cup Foreign
Calls == 1..MaxCalls

(* What is assumed of the constants. *)
AddressAssumption == Allowed \cap Foreign = {} /\ None \notin Addresses \cup Calls
TimeAssumption ==
  /\ {MaxCalls, CodeTtl, SendWindow, MaxTime, MaxRestarts} \subseteq Nat
  /\ {MaxSends, MaxAttempts} \subseteq Nat \ {0}

(* The window is longer than all the codes sent in it are valid together.  *)
WindowAssumption == SendWindow > MaxSends * CodeTtl

VARIABLES
  gate,               \* metadata.gateType of the election
  now,                \* the clock
  verificationCodes,  \* the pending code of every address
  metadataCached,     \* metadataCache holds the election
  restarts,           \* how often the process has restarted
  call,               \* the state of every request
  inbox,              \* codes that have arrived by mail
  sent,               \* history: the codes stored for an address, in order
  cleared             \* history: how many of them precede the last removal of a
                      \* record for another reason than its age

server  == <<verificationCodes, metadataCached, restarts>>
history == <<sent, cleared>>
vars == <<gate, now, server, call, inbox, history>>

StoredCodes ==
  [code : Calls, expires : Int, attempts : 0..MaxAttempts,
   sendCount : 1..MaxSends, firstSentAt : Int]

RecordAssumption == None \notin StoredCodes

CallStates ==
  [pc : {"idle", "delivering", "ok", "no"},
   action : {"send", "verify"}, email : Addresses \cup {None},
   code : Calls \cup {None},      \* the code typed, if it was the right one
   against : Calls \cup {None}]   \* history: the code it was compared with

Init ==
  /\ gate \in Gates
  /\ now = 0 /\ metadataCached = FALSE /\ restarts = 0
  /\ verificationCodes = [a \in Addresses |-> None]
  /\ call = [c \in Calls |-> [pc |-> "idle", action |-> "send", email |-> None,
                              code |-> None, against |-> None]]
  /\ inbox = {}
  /\ sent = [a \in Addresses |-> <<>>] /\ cleared = [a \in Addresses |-> 0]

At(c, label) == call[c].pc = label
Answer(c, label) == call' = [call EXCEPT ![c].pc = label]
Address(c) == call[c].email
Stored(a) == verificationCodes[a]

-----------------------------------------------------------------------------
(* Requests that store a code or compare one, numbered in the order in     *)
(* which they do so; a refused request leaves nothing behind but a clean-up*)
(* and the cached metadata.                                                *)

NextCall(c) == At(c, "idle") /\ \A d \in Calls : d < c => ~At(d, "idle")

Handled(c, action, email, code, against, label) ==
  call' = [call EXCEPT ![c] = [pc |-> label, action |-> action, email |-> email,
                               code |-> code, against |-> against]]

(* getElectionMetadata answers from its cache, from the event log, or with *)
(* null when the log cannot be read.                                       *)
MetadataRead == IF metadataCached THEN {gate} ELSE {gate, None}

(* cleanExpired, over the records of all addresses. *)
Slip_Expired(record) == record.expires <= now
Expired(record) == record.expires < now
Live(a) == Stored(a) # None /\ ~Expired(Stored(a))
cleanExpired == [a \in Addresses |-> IF Live(a) THEN Stored(a) ELSE None]

-----------------------------------------------------------------------------
(* handleSend *)

(* The record that a new send finds, if its window is still running. *)
InWindow(a) == Live(a) /\ Stored(a).firstSentAt > now - SendWindow
Slip_TooMany(a) == InWindow(a) /\ Stored(a).sendCount >= MaxSends + 1
TooMany(a) == InWindow(a) /\ Stored(a).sendCount >= MaxSends

NewRecord(a, c) ==
  [code |-> c, expires |-> now + CodeTtl, attempts |-> 0,
   sendCount |-> IF InWindow(a) THEN Stored(a).sendCount + 1 ELSE 1,
   firstSentAt |-> IF InWindow(a) THEN Stored(a).firstSentAt ELSE now]

(* Refused for the metadata or the domain, before the codes are touched. *)
SendRefused(a) ==
  /\ \E meta \in MetadataRead :
       /\ meta # "email-domain" \/ a \notin Allowed
       /\ metadataCached' = (metadataCached \/ meta # None)
  /\ UNCHANGED <<gate, now, verificationCodes, restarts, call, inbox, history>>

Accepts(a) ==
  /\ gate = "email-domain" /\ a \in Allowed
  /\ metadataCached' = TRUE

SendLimited(a) ==
  /\ Accepts(a) /\ TooMany(a)
  /\ verificationCodes' = cleanExpired
  /\ UNCHANGED <<gate, now, restarts, call, inbox, history>>

(* The code is stored before it is mailed, over the one that was pending. *)
SendStored(c, a) ==
  /\ NextCall(c)
  /\ Accepts(a) /\ ~TooMany(a)
  /\ verificationCodes' = [cleanExpired EXCEPT ![a] = NewRecord(a, c)]
  /\ sent' = [sent EXCEPT ![a] = Append(@, [code |-> c, at |-> now])]
  /\ Handled(c, "send", a, None, None, "delivering")
  /\ UNCHANGED <<gate, now, restarts, inbox, cleared>>

(* The mail service resolves, also when it could not deliver the mail. *)
SendAnswered(c) ==
  /\ At(c, "delivering")
  /\ inbox' \in {inbox, inbox \cup {c}}
  /\ Answer(c, "ok")
  /\ UNCHANGED <<gate, now, server, history>>

Remove(a) ==
  /\ verificationCodes' = [verificationCodes EXCEPT ![a] = None]
  /\ cleared' = [cleared EXCEPT ![a] = Len(sent[a])]

(* The call to the mail service throws: the pending code of the address is *)
(* deleted, whichever send it came from.  The mail may have left.          *)
SendFailed(c) ==
  /\ At(c, "delivering")
  /\ inbox' \in {inbox, inbox \cup {c}}
  /\ Remove(Address(c))
  /\ Answer(c, "no")
  /\ UNCHANGED <<gate, now, metadataCached, restarts, sent>>

-----------------------------------------------------------------------------
(* handleVerify.  It looks at neither the metadata nor the domain: a code  *)
(* is pending only for an address that a send has accepted.                *)

VerifyNothing(a) ==
  /\ ~Live(a)
  /\ verificationCodes' = cleanExpired
  /\ UNCHANGED <<gate, now, metadataCached, restarts, call, inbox, history>>

Exhausted(a) == Stored(a).attempts >= MaxAttempts

VerifyExhausted(a) ==
  /\ Live(a) /\ Exhausted(a)
  /\ verificationCodes' = [cleanExpired EXCEPT ![a] = None]
  /\ cleared' = [cleared EXCEPT ![a] = Len(sent[a])]
  /\ UNCHANGED <<gate, now, metadataCached, restarts, call, inbox, sent>>

Slip_Counted(record) == record
Counted(record) == [record EXCEPT !.attempts = @ + 1]

Slip_Matches(a, code) == TRUE
Matches(a, code) == code = Stored(a).code

VerifyWrong(c, a, code) ==
  /\ NextCall(c) /\ Live(a) /\ ~Exhausted(a)
  /\ ~Matches(a, code)
  /\ verificationCodes' = [cleanExpired EXCEPT ![a] = Counted(Stored(a))]
  /\ Handled(c, "verify", a, None, Stored(a).code, "no")
  /\ UNCHANGED <<gate, now, metadataCached, restarts, inbox, history>>

(* The code is deleted and the token returned. *)
Slip_Spent(a) == cleanExpired
Spent(a) == [cleanExpired EXCEPT ![a] = None]

VerifyRight(c, a, code) ==
  /\ NextCall(c) /\ Live(a) /\ ~Exhausted(a)
  /\ Matches(a, code)
  /\ verificationCodes' = Spent(a)
  /\ cleared' = [cleared EXCEPT ![a] = Len(sent[a])]
  /\ Handled(c, "verify", a, code, Stored(a).code, "ok")
  /\ UNCHANGED <<gate, now, metadataCached, restarts, inbox, sent>>

-----------------------------------------------------------------------------
(* The environment of the handlers. *)

(* A cold start: the codes and the cache are gone, and the calls that wait *)
(* for the mail service get no answer.                                     *)
Restart ==
  /\ restarts < MaxRestarts
  /\ restarts' = restarts + 1
  /\ verificationCodes' = [a \in Addresses |-> None]
  /\ metadataCached' = FALSE
  /\ cleared' = [a \in Addresses |-> Len(sent[a])]
  /\ call' = [c \in Calls |-> IF At(c, "delivering") THEN [call[c] EXCEPT !.pc = "no"]
                                                     ELSE call[c]]
  /\ UNCHANGED <<gate, now, inbox, sent>>

Tick ==
  /\ now < MaxTime
  /\ now' = now + 1
  /\ UNCHANGED <<gate, server, call, inbox, history>>

(* A caller types a code that arrived by mail, or a wrong one (None). *)
Typed == inbox \cup {None}

Next ==
  \/ \E a \in Addresses :
       \/ SendRefused(a) \/ SendLimited(a) \/ VerifyNothing(a) \/ VerifyExhausted(a)
       \/ \E c \in Calls : \/ SendStored(c, a)
                          \/ \E code \in Typed : \/ VerifyWrong(c, a, code)
                                               \/ VerifyRight(c, a, code)
  \/ \E c \in Calls : SendAnswered(c) \/ SendFailed(c)
  \/ Restart
  \/ Tick

Spec == Init /\ [][Next]_vars

-----------------------------------------------------------------------------
(* Properties. *)

TypeOK ==
  /\ gate \in Gates
  /\ now \in 0..MaxTime /\ metadataCached \in BOOLEAN /\ restarts \in 0..MaxRestarts
  /\ verificationCodes \in [Addresses -> StoredCodes \cup {None}]
  /\ call \in [Calls -> CallStates]
  /\ inbox \subseteq Calls
  /\ sent \in [Addresses -> Seq([code : Calls, at : Nat])]
  /\ cleared \in [Addresses -> Nat]

Newest(a) == sent[a][Len(sent[a])]
Accepted(c) == call[c].action = "verify" /\ At(c, "ok")

(* A token is given for an address only against the code that was stored   *)
(* last for that address, within its validity, and each code gives one     *)
(* token at most, however sends and verifications to it overlap            *)
(* (handleVerify).                                                         *)
TokenForNewestCode ==
  [][\A c \in Calls : ~Accepted(c) /\ Accepted(c)' =>
       LET a == call'[c].email  code == call'[c].code IN
       /\ sent[a] # <<>>
       /\ code = Newest(a).code
       /\ now <= Newest(a).at + CodeTtl
       /\ \A d \in Calls : Accepted(d) => call[d].code # code]_vars

(* No code is compared with more than MaxAttempts inputs, the right one    *)
(* included, over all its verifications (handleVerify).                    *)
AttemptsBounded ==
  \A code \in Calls : Cardinality({c \in Calls : call[c].against = code}) <= MaxAttempts

(* As long as no record is removed before its time, MaxSends + 1 sends in  *)
(* a row to an address have two between which a code's whole validity has  *)
(* passed (the send limit, whose counter lives in the record of the code). *)
SendsSpaced ==
  \A a \in Addresses : \A i \in cleared[a]+1 .. Len(sent[a]) - MaxSends :
     \E k \in i .. i + MaxSends - 1 : sent[a][k+1].at > sent[a][k].at + CodeTtl

(* A pending code that is still valid is only lost by being used, by too   *)
(* many attempts, by a newer send to its address, by a send to its address *)
(* that fails, or with the process: never through calls for other          *)
(* addresses, refused calls, or the clean-up (cleanExpired).               *)
ValidCodeKept ==
  [][\A a \in Addresses : Stored(a) # None /\ now <= Stored(a).expires =>
       \/ Stored(a)' # None /\ Stored(a)'.code = Stored(a).code
       \/ restarts' # restarts
       \/ VerifyExhausted(a)
       \/ \E c \in Calls :
            /\ call'[c] # call[c] /\ call'[c].email = a
            /\ \/ At(c, "delivering")
               \/ call'[c].pc \in {"delivering", "ok"}]_vars
=============================================================================
