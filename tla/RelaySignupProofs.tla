------------------------- MODULE RelaySignupProofs -------------------------
(***************************************************************************)
(* Proofs about the relay's signup handler (module RelaySignup), for any   *)
(* number of concurrent calls, addresses, credentials and restarts.        *)
(*                                                                         *)
(* HandlerInv says what a suspended call still knows to be true; MarkInv   *)
(* finds the call behind every used credential; OnceInv finds the mark     *)
(* behind every call that relays.                                          *)
(***************************************************************************)
EXTENDS RelaySignup, FiniteSetTheorems, TLAPS

Ends   == {"answered", "refused", "lost"}
Labels == {"idle"} \cup Ends \cup Waiting

(* What has been checked stays true while the handler awaits. *)
HandlerOK(r) ==
  LET h == handler[r] IN
  /\ h.pc \in Waiting \/ r \in broadcast => h.voter \in Commitments
  /\ h.life <= restarts /\ (h.pc \in Waiting => h.life = restarts)
  /\ h.meta \in {gate, None}
  /\ h.pc \in {"counting", "counted"} => h.meta \in Fallback /\ h.code \in Listed
  /\ r \in broadcast => h.pc \in {"answered", "refused"}
  /\ h.pc = "sending" \/ r \in broadcast =>
       gate = "open" \/ h.meta = None \/ h.code \in Listed

HandlerInv == TypeOK /\ \A r \in Requests : HandlerOK(r)

(* A used credential is in the hands of a call that will give it back if   *)
(* it fails, or was submitted.                                             *)
MarkInv ==
  \A code \in usedCodes :
    \E r \in Requests : /\ handler[r].code = code
                        /\ \/ At(r, "sending") /\ handler[r].meta \in Tracked
                           \/ r \in broadcast

(* With a gate that is always tracked, a call that relays holds the mark.  *)
OnceInv ==
  gate \notin Fallback =>
    \A r \in Requests : Relaying(r) /\ handler[r].life = restarts => handler[r].code \in usedCodes

-----------------------------------------------------------------------------
(* The effects of the actions. *)

OnlyRequest(r) ==
  handler' \in [Requests -> Handlers] /\ \A s \in Requests \ {r} : handler'[s] = handler[s]

Moved(r, label) ==
  /\ OnlyRequest(r) /\ handler'[r].pc = label
  /\ handler'[r].code = handler[r].code /\ handler'[r].meta = handler[r].meta
  /\ handler'[r].life = handler[r].life /\ handler'[r].voter = handler[r].voter

LEMMA Update ==
  ASSUME TypeOK, NEW r \in Requests, NEW h \in Handlers, handler' = [handler EXCEPT ![r] = h]
  PROVE  OnlyRequest(r) /\ handler'[r] = h
BY DEF TypeOK, OnlyRequest

LEMMA Going ==
  ASSUME TypeOK, NEW r \in Requests, NEW label \in Labels, Goto(r, label)
  PROVE  Moved(r, label)
<1> DEFINE h == [handler[r] EXCEPT !.pc = label]
<1>1. handler' = [handler EXCEPT ![r] = h]
  BY DEF Goto
<1>2. handler[r] \in Handlers
  BY DEF TypeOK
<1>3. /\ h \in Handlers /\ h.pc = label /\ h.code = handler[r].code /\ h.meta = handler[r].meta
      /\ h.life = handler[r].life /\ h.voter = handler[r].voter
  BY <1>2 DEF Handlers, Labels, Ends
<1> QED
  BY <1>1, <1>3, Update DEF Moved

LEMMA Posting ==
  ASSUME TypeOK, NEW r \in Requests, NEW c \in Clients, NEW code \in Credentials,
         NEW v \in Commitments, Post(r, c, code, v)
  PROVE  /\ OnlyRequest(r) /\ handler'[r].pc = "reading" /\ handler'[r].code = code
         /\ handler'[r].meta = handler[r].meta /\ handler'[r].life = restarts
         /\ handler'[r].voter = v
<1> DEFINE h == [handler[r] EXCEPT !.pc = "reading", !.code = code, !.voter = v, !.life = restarts]
<1>1. handler' = [handler EXCEPT ![r] = h]
  BY DEF Post
<1>2. handler[r] \in Handlers /\ restarts \in Nat
  BY BoundsAssumption DEF TypeOK
<1>3. /\ h \in Handlers /\ h.pc = "reading" /\ h.code = code /\ h.meta = handler[r].meta
      /\ h.life = restarts /\ h.voter = v
  BY <1>2 DEF Handlers, Waiting
<1> QED
  BY <1>1, <1>3, Update

LEMMA Reading ==
  ASSUME TypeOK, NEW r \in Requests, Read(r)
  PROVE  /\ OnlyRequest(r) /\ handler[r].pc = "reading" /\ handler'[r].pc = "checking"
         /\ handler'[r].code = handler[r].code /\ handler'[r].meta \in {gate, None}
         /\ handler'[r].life = handler[r].life /\ handler'[r].voter = handler[r].voter
         /\ metadataCached' \in BOOLEAN
<1>1. PICK meta \in {gate, None} :
        /\ handler' = [handler EXCEPT ![r].pc = "checking",
                                      ![r].open = (phase # "closed"), ![r].meta = meta]
        /\ metadataCached' = (metadataCached \/ meta # None)
  BY DEF Read, MetadataRead
<1> DEFINE open == phase # "closed"
           h == [handler[r] EXCEPT !.pc = "checking", !.open = open, !.meta = meta]
<1>2. handler' = [handler EXCEPT ![r] = h]
  BY <1>1
<1>3. handler[r] \in Handlers /\ meta \in AllGates \cup {None} /\ open \in BOOLEAN
  BY GatesAssumption DEF TypeOK
<1>4. /\ h \in Handlers /\ h.pc = "checking" /\ h.code = handler[r].code /\ h.meta = meta
      /\ h.life = handler[r].life /\ h.voter = handler[r].voter
  <2> HIDE DEF open
  <2> QED
    BY <1>3 DEF Handlers, Waiting
<1>5. metadataCached' \in BOOLEAN
  BY <1>1
<1> QED
  BY <1>2, <1>4, <1>5, Update DEF Read, At

LEMMA Counting ==
  ASSUME TypeOK, NEW r \in Requests, Count(r)
  PROVE  handler[r].pc = "counting" /\ Moved(r, "counted")
<1>1. PICK n \in {Cardinality(roll), 0} :
        handler' = [handler EXCEPT ![r].pc = "counted", ![r].count = n]
  BY DEF Count
<1> DEFINE h == [handler[r] EXCEPT !.pc = "counted", !.count = n]
<1>2. handler' = [handler EXCEPT ![r] = h]
  BY <1>1
<1>3. Cardinality(roll) \in Nat
  BY ListedAssumption, FS_Subset, FS_CardinalityType DEF TypeOK
<1>4. handler[r] \in Handlers /\ n \in Nat
  BY <1>3 DEF TypeOK
<1>5. /\ h \in Handlers /\ h.pc = "counted" /\ h.code = handler[r].code
      /\ h.meta = handler[r].meta /\ h.life = handler[r].life /\ h.voter = handler[r].voter
  BY <1>4 DEF Handlers, Waiting
<1> QED
  BY <1>2, <1>5, Update DEF Count, At, Moved

-----------------------------------------------------------------------------
(* Types, and what the handlers know. *)

LEMMA HandlerInit == Init => HandlerInv
<1> SUFFICES ASSUME Init PROVE HandlerInv
  OBVIOUS
<1> DEFINE h == [pc |-> "idle", code |-> None, voter |-> None, open |-> FALSE,
                 meta |-> None, count |-> 0, life |-> 0]
<1>1. h \in Handlers
  BY DEF Handlers
<1>2. \A r \in Requests : handler[r] = h
  BY DEF Init
<1>3. TypeOK
  <2>1. handler \in [Requests -> Handlers]
    BY <1>1 DEF Init
  <2>2. rateLimit \in [Clients -> 0 .. MaxCalls] /\ restarts \in 0 .. MaxRestarts
    BY BoundsAssumption DEF Init
  <2> HIDE DEF h
  <2> QED
    BY <2>1, <2>2 DEF Init, TypeOK
<1>4. \A r \in Requests : HandlerOK(r)
  BY <1>2 DEF Init, HandlerOK, Waiting
<1> QED
  BY <1>3, <1>4 DEF HandlerInv

(* A step of the call r, which may broadcast its transaction. *)
LEMMA HandlersKept ==
  ASSUME HandlerInv, NEW r \in Requests, OnlyRequest(r),
         UNCHANGED <<chain, restarts>>,
         \/ UNCHANGED <<mempool, broadcast>>
         \/ mempool' = mempool \cup {r} /\ broadcast' = broadcast \cup {r},
         rateLimit' \in [Clients -> 0 .. MaxCalls], usedCodes' \subseteq Listed,
         metadataCached' \in BOOLEAN, HandlerOK(r)'
  PROVE  HandlerInv'
<1>1. TypeOK'
  BY DEF HandlerInv, TypeOK, OnlyRequest, chain
<1>2. ASSUME NEW s \in Requests \ {r} PROVE HandlerOK(s)'
  <2>1. handler'[s] = handler[s] /\ gate' = gate /\ restarts' = restarts
        /\ (s \in broadcast' <=> s \in broadcast)
    BY DEF OnlyRequest, chain
  <2> QED
    BY <2>1 DEF HandlerInv, HandlerOK
<1> QED
  BY <1>1, <1>2 DEF HandlerInv

(* The gate has been passed: the call knows why it may relay.              *)
LEMMA Passing ==
  ASSUME HandlerInv, NEW r \in Requests, PassUntracked(r) \/ PassTracked(r) \/ PassCounted(r)
  PROVE  /\ Moved(r, "sending") /\ handler[r].pc \in {"checking", "counted"}
         /\ UNCHANGED <<chain, mempool, broadcast, rateLimit, metadataCached, restarts>>
         /\ \/ usedCodes' = usedCodes /\ handler[r].meta \notin Tracked
            \/ /\ handler[r].code \in Listed /\ handler[r].meta \in Tracked
               /\ usedCodes' = usedCodes \cup {handler[r].code}
               /\ gate \notin Fallback => handler[r].code \notin usedCodes
         /\ gate = "open" \/ handler[r].meta = None \/ handler[r].code \in Listed
<1>0. TypeOK /\ HandlerOK(r) /\ gate \in AllGates
  BY GatesAssumption DEF HandlerInv, TypeOK
<1>1. CASE PassUntracked(r)
  <2>1. Moved(r, "sending")
    BY <1>0, <1>1, Going DEF PassUntracked, Labels, Waiting
  <2>2. handler[r].meta \notin Tracked
    BY <1>1, GatesAssumption DEF PassUntracked, Ungated, Tracked, Fallback, AllGates
  <2>3. gate = "open" \/ handler[r].meta = None \/ handler[r].code \in Listed
    BY <1>0, <1>1 DEF PassUntracked, Ungated, Valid, HandlerOK
  <2> QED
    BY <1>1, <2>1, <2>2, <2>3 DEF PassUntracked, At, memory
<1>2. CASE PassTracked(r)
  <2>1. Moved(r, "sending")
    BY <1>0, <1>2, Going DEF PassTracked, Mark, Labels, Waiting
  <2> QED
    BY <1>2, <2>1 DEF PassTracked, Mark, Marked, Fresh, Valid, isCodeUsed, At
<1>3. CASE PassCounted(r)
  <2>1. Moved(r, "sending")
    BY <1>0, <1>3, Going DEF PassCounted, Mark, Labels, Waiting
  <2>2. handler[r].code \in Listed /\ handler[r].meta \in Fallback /\ gate \in Fallback
    BY <1>0, <1>3, GatesAssumption DEF PassCounted, At, HandlerOK, Fallback, AllGates, Tracked
  <2> QED
    BY <1>3, <2>1, <2>2 DEF PassCounted, Mark, Marked, At, Tracked
<1> QED
  BY <1>1, <1>2, <1>3

(* The submission ends the call, with or without a broadcast. *)
LEMMA Submitting ==
  ASSUME HandlerInv, NEW r \in Requests, Send(r) \/ SendFails(r)
  PROVE  /\ handler[r].pc = "sending"
         /\ UNCHANGED <<chain, rateLimit, metadataCached, restarts>>
         /\ \/ /\ Moved(r, "answered") /\ usedCodes' = usedCodes
               /\ mempool' = mempool \cup {r} /\ broadcast' = broadcast \cup {r}
            \/ /\ Moved(r, "refused")
               /\ \/ UNCHANGED <<mempool, broadcast>>
                  \/ mempool' = mempool \cup {r} /\ broadcast' = broadcast \cup {r}
               /\ usedCodes' = IF handler[r].meta \in Tracked
                                 THEN usedCodes \ {handler[r].code} ELSE usedCodes
<1>0. TypeOK
  BY DEF HandlerInv
<1>1. CASE Send(r)
  BY <1>0, <1>1, Going DEF Send, At, memory, Labels, Ends
<1>2. CASE SendFails(r)
  <2>1. Moved(r, "refused")
    BY <1>0, <1>2, Going DEF SendFails, Labels, Ends
  <2> QED
    BY <1>2, <2>1 DEF SendFails, At, Unmarked
<1> QED
  BY <1>1, <1>2

(* A call that ends without a submission, or goes on to count.             *)
Waits(r) == ReadFails(r) \/ Refuse(r) \/ StartCount(r) \/ Count(r) \/ RefuseExhausted(r)

LEMMA Awaiting ==
  ASSUME HandlerInv, NEW r \in Requests,
         Waits(r) \/ \E c \in Clients : RateLimited(r, c)
  PROVE  /\ UNCHANGED <<chain, mempool, broadcast, memory>>
         /\ \/ /\ Moved(r, "refused")
               /\ handler[r].pc \in {"idle", "reading", "checking", "counted"}
            \/ /\ handler[r].pc = "checking" /\ Moved(r, "counting")
               /\ handler[r].meta \in Fallback /\ handler[r].code \in Listed
            \/ handler[r].pc = "counting" /\ Moved(r, "counted")
<1>0. TypeOK /\ "refused" \in Labels /\ "counting" \in Labels
  BY DEF HandlerInv, Labels, Ends, Waiting
<1>1. CASE \E c \in Clients : RateLimited(r, c)
  BY <1>0, <1>1, Going DEF RateLimited, At
<1>2. CASE ReadFails(r)
  BY <1>0, <1>2, Going DEF ReadFails, At
<1>3. CASE Refuse(r)
  BY <1>0, <1>3, Going DEF Refuse, At
<1>4. CASE StartCount(r)
  BY <1>0, <1>4, Going DEF StartCount, At, Fresh, NeedsCount, Valid
<1>5. CASE Count(r)
  BY <1>0, <1>5, Counting DEF Count
<1>6. CASE RefuseExhausted(r)
  BY <1>0, <1>6, Going DEF RefuseExhausted, At
<1> QED
  BY <1>1, <1>2, <1>3, <1>4, <1>5, <1>6 DEF Waits

(* What happens on the chain does not touch the process. *)
Chain == (\E r \in Requests : Mine(r) \/ Drop(r)) \/ (\E v \in Commitments : DirectSignUp(v))
           \/ SignupEnds

LEMMA OnChain ==
  ASSUME HandlerInv, Chain
  PROVE  UNCHANGED <<gate, broadcast, memory, handler>> /\ TypeOK'
<1>0. TypeOK
  BY DEF HandlerInv
<1>1. ASSUME NEW r \in Requests, Mine(r)
      PROVE  UNCHANGED <<gate, broadcast, memory, handler>> /\ TypeOK'
  <2>1. handler[r].voter \in Commitments
    BY <1>1 DEF Mine, HandlerInv, TypeOK, HandlerOK
  <2> QED
    BY <1>0, <1>1, <2>1 DEF Mine, TypeOK, memory
<1>2. ASSUME NEW r \in Requests, Drop(r)
      PROVE  UNCHANGED <<gate, broadcast, memory, handler>> /\ TypeOK'
  BY <1>0, <1>2 DEF Drop, TypeOK, chain, memory
<1>3. ASSUME NEW v \in Commitments, DirectSignUp(v)
      PROVE  UNCHANGED <<gate, broadcast, memory, handler>> /\ TypeOK'
  BY <1>0, <1>3 DEF DirectSignUp, TypeOK, memory
<1>4. CASE SignupEnds
  BY <1>0, <1>4 DEF SignupEnds, TypeOK, memory
<1> QED
  BY <1>1, <1>2, <1>3, <1>4 DEF Chain

(* Every step is one of these. *)
LEMMA Steps ==
  ASSUME [Next]_vars
  PROVE  \/ \E r \in Requests, c \in Clients, code \in Credentials, v \in Commitments :
              Post(r, c, code, v)
         \/ \E r \in Requests : Waits(r) \/ \E c \in Clients : RateLimited(r, c)
         \/ \E r \in Requests : Read(r)
         \/ \E r \in Requests : PassUntracked(r) \/ PassTracked(r) \/ PassCounted(r)
         \/ \E r \in Requests : Send(r) \/ SendFails(r)
         \/ Chain \/ Restart \/ UNCHANGED vars
<1>1. ASSUME NEW r \in Requests, Handle(r)
      PROVE  Waits(r) \/ Read(r) \/ PassUntracked(r) \/ PassTracked(r) \/ PassCounted(r)
               \/ Send(r) \/ SendFails(r)
  BY <1>1 DEF Handle, Waits
<1> QED
  BY <1>1 DEF Next, Chain

LEMMA HandlerStep == HandlerInv /\ [Next]_vars => HandlerInv'
<1> SUFFICES ASSUME HandlerInv, [Next]_vars PROVE HandlerInv'
  OBVIOUS
<1>0. TypeOK /\ restarts \in Nat /\ \A r \in Requests : HandlerOK(r)
  BY BoundsAssumption DEF HandlerInv, TypeOK
<1>1. ASSUME NEW r \in Requests, NEW c \in Clients, NEW code \in Credentials,
             NEW v \in Commitments, Post(r, c, code, v)
      PROVE  HandlerInv'
  <2>1. /\ handler[r].pc = "idle" /\ usedCodes' \subseteq Listed
        /\ UNCHANGED <<chain, mempool, broadcast, metadataCached, restarts>>
    BY <1>0, <1>1 DEF Post, At, TypeOK
  <2>2. rateLimit' \in [Clients -> 0 .. MaxCalls]
    <3>1. rateLimit[c] + 1 \in 0 .. MaxCalls
      BY <1>0, <1>1, BoundsAssumption DEF Post, TypeOK
    <3> QED
      BY <1>0, <1>1, <3>1 DEF Post, TypeOK
  <2>3. HandlerOK(r)'
    BY <1>0, <1>1, <2>1, Posting DEF HandlerOK, chain
  <2> QED
    BY <1>0, <1>1, <2>1, <2>2, <2>3, Posting, HandlersKept DEF TypeOK
<1>2. ASSUME NEW r \in Requests, Waits(r) \/ \E c \in Clients : RateLimited(r, c)
      PROVE  HandlerInv'
  <2>1. HandlerOK(r)'
    BY <1>0, <1>2, Awaiting DEF Moved, HandlerOK, Waiting, chain, memory
  <2> QED
    BY <1>0, <1>2, <2>1, Awaiting, HandlersKept DEF Moved, TypeOK, memory
<1>3. ASSUME NEW r \in Requests, Read(r) PROVE HandlerInv'
  <2>1. UNCHANGED <<chain, mempool, broadcast, rateLimit, usedCodes, restarts>>
    BY <1>3 DEF Read
  <2>2. HandlerOK(r)'
    BY <1>0, <1>3, <2>1, Reading DEF HandlerOK, Waiting, chain
  <2> QED
    BY <1>0, <1>3, <2>1, <2>2, Reading, HandlersKept DEF TypeOK
<1>4. ASSUME NEW r \in Requests, PassUntracked(r) \/ PassTracked(r) \/ PassCounted(r)
      PROVE  HandlerInv'
  <2>1. HandlerOK(r)'
    BY <1>0, <1>4, Passing DEF Moved, HandlerOK, Waiting, chain
  <2>2. usedCodes' \subseteq Listed
    BY <1>0, <1>4, Passing DEF TypeOK
  <2> QED
    BY <1>0, <1>4, <2>1, <2>2, Passing, HandlersKept DEF Moved, TypeOK
<1>5. ASSUME NEW r \in Requests, Send(r) \/ SendFails(r) PROVE HandlerInv'
  <2>1. HandlerOK(r)'
    BY <1>0, <1>5, Submitting DEF Moved, HandlerOK, Waiting, chain
  <2>2. usedCodes' \subseteq Listed
    BY <1>0, <1>5, Submitting DEF TypeOK
  <2> QED
    BY <1>0, <1>5, <2>1, <2>2, Submitting, HandlersKept DEF Moved, TypeOK
<1>6. CASE Chain
  BY <1>0, <1>6, OnChain DEF HandlerInv, HandlerOK, memory
<1>7. CASE Restart
  <2>1. /\ UNCHANGED <<chain, mempool, broadcast>> /\ restarts' = restarts + 1
        /\ restarts' \in 0 .. MaxRestarts /\ rateLimit' \in [Clients -> 0 .. MaxCalls]
        /\ usedCodes' = {} /\ metadataCached' = FALSE
    BY <1>0, <1>7, BoundsAssumption DEF Restart
  <2>2. ASSUME NEW r \in Requests
        PROVE  /\ handler'[r] \in Handlers /\ handler'[r].pc \notin Waiting
               /\ handler'[r].voter = handler[r].voter /\ handler'[r].life = handler[r].life
               /\ handler'[r].code = handler[r].code /\ handler'[r].meta = handler[r].meta
               /\ handler'[r].pc = handler[r].pc \/ handler[r].pc \in Waiting
    <3>1. handler[r] \in Handlers
      BY <1>0 DEF TypeOK
    <3>2. CASE handler[r].pc \in Waiting
      <4>1. handler'[r] = [handler[r] EXCEPT !.pc = "lost"]
        BY <1>7, <3>2 DEF Restart
      <4> QED
        BY <3>1, <3>2, <4>1 DEF Handlers, Waiting
    <3>3. CASE handler[r].pc \notin Waiting
      BY <1>7, <3>1, <3>3 DEF Restart
    <3> QED
      BY <3>2, <3>3
  <2>3. handler' \in [Requests -> Handlers]
    BY <1>7, <2>2 DEF Restart
  <2>4. TypeOK'
    BY <1>0, <2>1, <2>3 DEF TypeOK, chain
  <2>5. ASSUME NEW r \in Requests PROVE HandlerOK(r)'
    <3>1. r \in broadcast => handler[r].pc \notin Waiting
      BY <1>0 DEF HandlerOK, Waiting
    <3>2. handler[r] \in Handlers
      BY <1>0 DEF TypeOK
    <3>3. handler[r].life \in Nat
      BY <3>2 DEF Handlers
    <3> QED
      BY <1>0, <2>1, <2>2, <3>1, <3>3 DEF HandlerOK, Waiting, chain
  <2> QED
    BY <2>4, <2>5 DEF HandlerInv
<1>8. CASE UNCHANGED vars
  BY <1>0, <1>8 DEF HandlerInv, TypeOK, HandlerOK, vars, chain, memory
<1> QED
  BY <1>1, <1>2, <1>3, <1>4, <1>5, <1>6, <1>7, <1>8, Steps

(* The relay's maps and the local variables of its handlers keep their     *)
(* types; in particular only listed credentials are ever marked as used.   *)
THEOREM RelayTypes == Spec => []TypeOK
<1>1. HandlerInv => TypeOK
  BY DEF HandlerInv
<1> QED
  BY <1>1, HandlerInit, HandlerStep, PTL DEF Spec

(* Whatever a gated election's relay broadcasts was presented with a       *)
(* listed credential, unless the metadata could not be read.               *)
THEOREM RelayKeepsGate == Spec => []GateKept
<1>1. HandlerInv => GateKept
  BY ListedAssumption DEF HandlerInv, TypeOK, HandlerOK, GateKept
<1> QED
  BY <1>1, HandlerInit, HandlerStep, PTL DEF Spec

-----------------------------------------------------------------------------
(* Used credentials. *)

(* No credential is marked except by the call r that now submits.          *)
LEMMA MarkKept ==
  ASSUME HandlerInv, MarkInv, NEW r \in Requests, OnlyRequest(r),
         handler[r].pc \notin {"sending", "answered", "refused"}, UNCHANGED broadcast,
         \A code \in usedCodes' :
           code \in usedCodes \/ (/\ handler'[r].code = code /\ handler'[r].pc = "sending"
                                  /\ handler'[r].meta \in Tracked)
  PROVE  MarkInv'
<1> SUFFICES ASSUME NEW code \in usedCodes'
             PROVE  \E s \in Requests : /\ handler'[s].code = code
                                        /\ \/ handler'[s].pc = "sending" /\ handler'[s].meta \in Tracked
                                           \/ s \in broadcast
  BY DEF MarkInv, At
<1>1. CASE code \in usedCodes
  <2>1. PICK s \in Requests :
          /\ handler[s].code = code
          /\ (handler[s].pc = "sending" /\ handler[s].meta \in Tracked) \/ s \in broadcast
    BY <1>1 DEF MarkInv, At
  <2>2. s # r
    BY <2>1 DEF HandlerInv, HandlerOK
  <2> QED
    BY <2>1, <2>2 DEF OnlyRequest
<1>2. CASE code \notin usedCodes
  BY <1>2
<1> QED
  BY <1>1, <1>2

LEMMA MarkStep == HandlerInv /\ MarkInv /\ [Next]_vars => MarkInv'
<1> SUFFICES ASSUME HandlerInv, MarkInv, [Next]_vars PROVE MarkInv'
  OBVIOUS
<1>0. TypeOK
  BY DEF HandlerInv
<1>1. ASSUME NEW r \in Requests, NEW c \in Clients, NEW code \in Credentials,
             NEW v \in Commitments, Post(r, c, code, v)
      PROVE  MarkInv'
  BY <1>0, <1>1, Posting, MarkKept DEF Post, At
<1>2. ASSUME NEW r \in Requests, Waits(r) \/ \E c \in Clients : RateLimited(r, c)
      PROVE  MarkInv'
  BY <1>2, Awaiting, MarkKept DEF Moved, memory
<1>3. ASSUME NEW r \in Requests, Read(r) PROVE MarkInv'
  BY <1>0, <1>3, Reading, MarkKept DEF Read
<1>4. ASSUME NEW r \in Requests, PassUntracked(r) \/ PassTracked(r) \/ PassCounted(r)
      PROVE  MarkInv'
  BY <1>4, Passing, MarkKept DEF Moved
<1>5. ASSUME NEW r \in Requests, Send(r) \/ SendFails(r) PROVE MarkInv'
  <2>1. /\ OnlyRequest(r) /\ handler[r].pc = "sending" /\ handler'[r].code = handler[r].code
        /\ broadcast \subseteq broadcast' /\ usedCodes' \subseteq usedCodes
        /\ r \in broadcast' \/ (handler[r].meta \in Tracked => handler[r].code \notin usedCodes')
    BY <1>5, Submitting DEF Moved
  <2> SUFFICES ASSUME NEW code \in usedCodes'
               PROVE  \E s \in Requests : /\ handler'[s].code = code
                                          /\ \/ handler'[s].pc = "sending" /\ handler'[s].meta \in Tracked
                                             \/ s \in broadcast'
    BY DEF MarkInv, At
  <2>2. PICK s \in Requests :
          /\ handler[s].code = code
          /\ (handler[s].pc = "sending" /\ handler[s].meta \in Tracked) \/ s \in broadcast
    BY <2>1 DEF MarkInv, At
  <2>3. CASE s # r
    BY <2>1, <2>2, <2>3 DEF OnlyRequest
  <2>4. CASE s = r
    BY <2>1, <2>2, <2>4
  <2> QED
    BY <2>3, <2>4
<1>6. CASE Chain
  BY <1>6, OnChain DEF MarkInv, At, memory
<1>7. CASE Restart
  BY <1>7 DEF Restart, MarkInv
<1>8. CASE UNCHANGED vars
  BY <1>8 DEF vars, memory, MarkInv, At
<1> QED
  BY <1>1, <1>2, <1>3, <1>4, <1>5, <1>6, <1>7, <1>8, Steps

(* A failed submission never burns a credential.                           *)
THEOREM NothingBurnt == Spec => []MarkedMeansSubmitted
<1>1. Init => MarkInv
  BY DEF Init, MarkInv
<1>2. MarkInv => MarkedMeansSubmitted
  BY DEF MarkInv, MarkedMeansSubmitted
<1> QED
  BY <1>1, <1>2, HandlerInit, HandlerStep, MarkStep, PTL DEF Spec

-----------------------------------------------------------------------------
(* One signup per account. *)

Once == OnceInv /\ OneSignupPerAccount

(* No call starts to relay, and no mark is removed. *)
LEMMA OnceKept ==
  ASSUME Once, UNCHANGED gate, restarts <= restarts', restarts' \in Nat,
         restarts' = restarts => usedCodes \subseteq usedCodes',
         \A s \in Requests :
           Relaying(s)' => /\ Relaying(s) /\ handler'[s].code = handler[s].code
                           /\ handler'[s].life = handler[s].life
                           /\ handler[s].life <= restarts /\ handler[s].life \in Nat,
         restarts \in Nat
  PROVE  Once'
<1>1. OneSignupPerAccount'
  BY DEF Once, OneSignupPerAccount
<1>2. OnceInv'
  BY DEF Once, OnceInv
<1> QED
  BY <1>1, <1>2 DEF Once

LEMMA OnceStep == HandlerInv /\ Once /\ [Next]_vars => Once'
<1> SUFFICES ASSUME HandlerInv, Once, [Next]_vars PROVE Once'
  OBVIOUS
<1>0. /\ TypeOK /\ restarts \in Nat
      /\ \A s \in Requests : HandlerOK(s) /\ handler[s].life \in Nat /\ handler[s].life <= restarts
  BY BoundsAssumption DEF HandlerInv, TypeOK, Handlers, HandlerOK
(* A step of r that does not lead to a submission. *)
<1>1. ASSUME NEW r \in Requests, OnlyRequest(r), UNCHANGED <<gate, usedCodes, restarts>>,
             ~Relaying(r)'
      PROVE  Once'
  <2>1. \A s \in Requests : Relaying(s)' => s # r /\ handler'[s] = handler[s]
    BY <1>1 DEF OnlyRequest
  <2>2. \A s \in Requests :
          Relaying(s)' => /\ Relaying(s) /\ handler'[s].code = handler[s].code
                          /\ handler'[s].life = handler[s].life
                          /\ handler[s].life <= restarts /\ handler[s].life \in Nat
    BY <1>0, <2>1 DEF Relaying
  <2> QED
    BY <1>0, <1>1, <2>2, OnceKept
<1>2. ASSUME NEW r \in Requests, NEW c \in Clients, NEW code \in Credentials,
             NEW v \in Commitments, Post(r, c, code, v)
      PROVE  Once'
  BY <1>0, <1>1, <1>2, Posting DEF Post, chain, Relaying
<1>3. ASSUME NEW r \in Requests, Waits(r) \/ \E c \in Clients : RateLimited(r, c)
      PROVE  Once'
  BY <1>1, <1>3, Awaiting DEF Moved, chain, memory, Relaying
<1>4. ASSUME NEW r \in Requests, Read(r) PROVE Once'
  BY <1>0, <1>1, <1>4, Reading DEF Read, chain, Relaying
<1>5. ASSUME NEW r \in Requests, PassUntracked(r) \/ PassTracked(r) \/ PassCounted(r)
      PROVE  Once'
  <2>1. /\ Moved(r, "sending") /\ UNCHANGED <<gate, restarts>>
        /\ handler[r].life = restarts
    BY <1>0, <1>5, Passing DEF chain, HandlerOK, Waiting
  <2>2. CASE usedCodes' = usedCodes /\ handler[r].meta \notin Tracked
    BY <1>1, <2>1, <2>2 DEF Moved, Relaying
  <2>3. CASE /\ usedCodes' = usedCodes \cup {handler[r].code}
             /\ gate \notin Fallback => handler[r].code \notin usedCodes
    <3>1. \A s \in Requests \ {r} :
            handler'[s] = handler[s] /\ (Relaying(s)' <=> Relaying(s))
      BY <2>1 DEF Moved, OnlyRequest, Relaying
    <3>2. gate \notin Fallback =>
            \A s \in Requests : Relaying(s) /\ handler[s].life = handler'[r].life
                                  => handler[s].code # handler'[r].code
      BY <2>1, <2>3 DEF Moved, Once, OnceInv
    <3>3. OneSignupPerAccount'
      <4> SUFFICES ASSUME gate \notin Fallback, NEW s \in Requests, NEW u \in Requests,
                          Relaying(s)', Relaying(u)', handler'[s].code = handler'[u].code,
                          handler'[s].life = handler'[u].life
                   PROVE  s = u
        BY <2>1 DEF OneSignupPerAccount
      <4>1. CASE s = r \/ u = r
        BY <3>1, <3>2, <4>1
      <4>2. CASE s # r /\ u # r
        BY <3>1, <4>2 DEF Once, OneSignupPerAccount
      <4> QED
        BY <4>1, <4>2
    <3>4. OnceInv'
      BY <2>1, <2>3, <3>1 DEF Moved, Once, OnceInv
    <3> QED
      BY <3>3, <3>4 DEF Once
  <2> QED
    BY <1>5, <2>2, <2>3, Passing
<1>6. ASSUME NEW r \in Requests, Send(r) \/ SendFails(r) PROVE Once'
  <2>1. /\ OnlyRequest(r) /\ handler'[r].code = handler[r].code
        /\ handler'[r].meta = handler[r].meta /\ handler'[r].life = handler[r].life
        /\ handler[r].pc = "sending" /\ UNCHANGED <<gate, restarts>>
        /\ handler[r].life = restarts
    BY <1>0, <1>6, Submitting DEF Moved, chain, HandlerOK, Waiting
  <2>2. CASE handler'[r].pc = "answered" /\ usedCodes' = usedCodes
    <3>1. \A s \in Requests :
            Relaying(s)' => /\ Relaying(s) /\ handler'[s].code = handler[s].code
                            /\ handler'[s].life = handler[s].life
      BY <2>1, <2>2 DEF OnlyRequest, Relaying
    <3> QED
      BY <1>0, <2>1, <2>2, <3>1, OnceKept
  <2>3. CASE handler'[r].pc = "refused" /\ handler[r].meta \notin Tracked /\ usedCodes' = usedCodes
    BY <1>1, <2>1, <2>3 DEF Relaying
  <2>4. CASE /\ handler'[r].pc = "refused" /\ handler[r].meta \in Tracked
             /\ usedCodes' = usedCodes \ {handler[r].code}
    <3>1. \A s \in Requests : Relaying(s)' => s # r /\ Relaying(s) /\ handler'[s] = handler[s]
      BY <2>1, <2>4 DEF OnlyRequest, Relaying
    <3>2. OneSignupPerAccount'
      BY <2>1, <3>1 DEF Once, OneSignupPerAccount
    <3>3. OnceInv'
      <4> SUFFICES ASSUME gate \notin Fallback, NEW s \in Requests, Relaying(s)',
                          handler'[s].life = restarts
                   PROVE  handler'[s].code \in usedCodes'
        BY <2>1 DEF OnceInv
      <4>1. handler[s].code \in usedCodes
        BY <3>1 DEF Once, OnceInv
      <4>2. Relaying(r)
        BY <2>1, <2>4 DEF Relaying
      <4>3. handler[s].code # handler[r].code
        BY <2>1, <3>1, <4>2 DEF Once, OneSignupPerAccount
      <4> QED
        BY <2>4, <3>1, <4>1, <4>3
    <3> QED
      BY <3>2, <3>3 DEF Once
  <2> QED
    BY <1>6, <2>2, <2>3, <2>4, Submitting DEF Moved
<1>7. CASE Chain
  BY <1>7, OnChain DEF memory, Once, OnceInv, OneSignupPerAccount, Relaying
<1>8. CASE Restart
  <2>1. /\ gate' = gate /\ restarts' = restarts + 1 /\ restarts' \in Nat
    BY <1>0, <1>8 DEF Restart, chain
  <2>2. \A s \in Requests : Relaying(s)' => handler'[s] = handler[s]
    <3> SUFFICES ASSUME NEW s \in Requests, handler[s].pc \in Waiting PROVE ~Relaying(s)'
      BY <1>8 DEF Restart
    <3>1. handler[s] \in Handlers /\ handler'[s] = [handler[s] EXCEPT !.pc = "lost"]
      BY <1>0, <1>8 DEF Restart, TypeOK
    <3> QED
      BY <3>1 DEF Handlers, Relaying
  <2>3. \A s \in Requests :
          Relaying(s)' => /\ Relaying(s) /\ handler'[s].code = handler[s].code
                          /\ handler'[s].life = handler[s].life
    BY <2>2 DEF Relaying
  <2> QED
    BY <1>0, <2>1, <2>3, OnceKept
<1>9. CASE UNCHANGED vars
  BY <1>9 DEF vars, chain, memory, Once, OnceInv, OneSignupPerAccount, Relaying
<1> QED
  BY <1>2, <1>3, <1>4, <1>5, <1>6, <1>7, <1>8, <1>9, Steps

(* One account, one relayed signup per lifetime of the process: a call     *)
(* that relays holds the mark until it has failed, and no await separates  *)
(* the check of a mark from setting it.                                    *)
THEOREM OneAccount == Spec => []OneSignupPerAccount
<1>1. Init => Once
  BY DEF Init, Once, OnceInv, OneSignupPerAccount, Relaying
<1>2. Once => OneSignupPerAccount
  BY DEF Once
<1> QED
  BY <1>1, <1>2, HandlerInit, HandlerStep, OnceStep, PTL DEF Spec

=============================================================================
