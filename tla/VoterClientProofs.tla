------------------------- MODULE VoterClientProofs -------------------------
(***************************************************************************)
(* The voter's page (module VoterClient), for any number of tabs,          *)
(* identities, options, overwrites, other voters and transactions under    *)
(* way.                                                                    *)
(*                                                                         *)
(* The types come first, with what each action does to the tab that takes  *)
(* it.  Each safety property is then the last conjunct of an inductive     *)
(* invariant that also covers the calls in progress and the transactions   *)
(* nobody waits for any more: KeptInv for the identity in the storage,     *)
(* BallotInv for the order of the ballots and what a tab reports, and      *)
(* UnsavedInv for the version in the storage.  All of them rest on TypeInv.*)
(***************************************************************************)
EXTENDS VoterClient, TLAPS

Busy == {"joining", "joinWait", "fetching", "proving", "voteWait", "verifying"}

(* A call in progress has an identity and a version that can be voted with,*)
(* and so has every transaction that is under way.                         *)
BusyOK(t) == tab[t].pc \in Busy => tab[t].id \in created /\ tab[t].version \in Versions

TypeInv ==
  /\ TypeOK
  /\ \A t \in Tabs : BusyOK(t)
  /\ \A s \in Slots : Pending(s) => txs[s].call.id \in created

(* The fields that the status requests do not touch. *)
SameCall(u) ==
  /\ tab'[u].pc = tab[u].pc /\ tab'[u].version = tab[u].version
  /\ tab'[u].id = tab[u].id /\ tab'[u].choice = tab[u].choice
  /\ tab'[u].seen = tab[u].seen /\ tab'[u].tx = tab[u].tx

Checking(t) == CheckStarts(t) \/ CheckReads(t) \/ CheckAnswers(t) \/ CheckFails(t)

(* Without choices there would be no default choice. *)
LEMMA AnyChoiceType == AnyChoice \in Choices
BY ClientAssumption DEF AnyChoice

LEMMA ClosedType == Closed \in TabStates
BY AnyChoiceType DEF Closed, TabStates, Labels

(* A step of tab t leaves the other tabs alone. *)
OnlyTab(t) == tab' \in [Tabs -> TabStates] /\ \A u \in Tabs \ {t} : tab'[u] = tab[u]

LEMMA Update ==
  ASSUME TypeOK, NEW t \in Tabs, NEW r \in TabStates, tab' = [tab EXCEPT ![t] = r]
  PROVE  OnlyTab(t) /\ tab'[t] = r
BY DEF TypeOK, OnlyTab

LEMMA Ends ==
  ASSUME TypeOK, NEW t \in Tabs, NEW label \in {"idle", "done"}, tab' = Ended(t, label)
  PROVE  /\ OnlyTab(t) /\ tab'[t].pc = label
         /\ tab'[t].tx = None /\ tab'[t].version = tab[t].version
<1> DEFINE r == [tab[t] EXCEPT !.pc = label, !.id = None, !.seen = 0, !.choice = AnyChoice,
                               !.tx = None]
<1>1. tab' = [tab EXCEPT ![t] = r]
  BY DEF Ended
<1>2. /\ r \in TabStates
      /\ r.pc = label /\ r.tx = None /\ r.version = tab[t].version
  <2>1. tab[t] \in TabStates /\ label \in Labels
    BY DEF TypeOK, Labels
  <2> QED
    BY <2>1, AnyChoiceType DEF TabStates
<1> QED
  BY <1>1, <1>2, Update

(* Status requests change nothing but themselves and their answer.         *)
LEMMA Rechecked ==
  ASSUME TypeOK, NEW t \in Tabs, NEW C \in SUBSET Checks,
         NEW answer \in {"unknown", "joined", "not-joined"},
         tab' = [tab EXCEPT ![t] = [tab[t] EXCEPT !.checks = C, !.join = answer]]
  PROVE  OnlyTab(t) /\ SameCall(t)
<1> DEFINE r == [tab[t] EXCEPT !.checks = C, !.join = answer]
<1>1. /\ r \in TabStates
      /\ r.pc = tab[t].pc /\ r.version = tab[t].version /\ r.id = tab[t].id
      /\ r.choice = tab[t].choice /\ r.seen = tab[t].seen /\ r.tx = tab[t].tx
  BY DEF TypeOK, TabStates
<1>2. OnlyTab(t) /\ tab'[t] = r
  BY <1>1, Update
<1> QED
  BY <1>1, <1>2 DEF SameCall

LEMMA CheckingStep ==
  ASSUME TypeOK, NEW t \in Tabs, Checking(t)
  PROVE  OnlyTab(t) /\ SameCall(t) /\ UNCHANGED <<chain, txs, browser>>
<1> DEFINE checks == tab[t].checks
<1>0. /\ checks \in SUBSET Checks
      /\ tab[t].join \in {"unknown", "joined", "not-joined"}
      /\ saved.id \in Identities \cup {None}
  BY DEF TypeOK, TabStates, Stored
<1>1. CASE CheckStarts(t)
  <2>1. CASE saved.id = None
    <3>1. tab' = [tab EXCEPT ![t] = [tab[t] EXCEPT !.checks = checks \ {Due}, !.join = "not-joined"]]
      BY <1>1, <2>1 DEF CheckStarts
    <3> QED
      BY <1>0, <1>1, <3>1, Rechecked DEF CheckStarts
  <2>2. CASE saved.id # None
    <3> DEFINE C == (checks \ {Due}) \cup {[step |-> "asked", id |-> saved.id]}
    <3>1. tab' = [tab EXCEPT ![t] = [tab[t] EXCEPT !.checks = C, !.join = "unknown"]]
      BY <1>1, <2>2 DEF CheckStarts
    <3>2. C \in SUBSET Checks
      BY <1>0 DEF Checks
    <3> QED
      BY <1>1, <3>1, <3>2, Rechecked DEF CheckStarts
  <2> QED
    BY <2>1, <2>2
<1>2. CASE CheckReads(t)
  <2>1. PICK check \in checks, answer \in {"found", "missing"} :
          tab' = [tab EXCEPT ![t].checks =
                    (@ \ {check}) \cup {[step |-> answer, id |-> None]}]
    BY <1>2 DEF CheckReads
  <2> DEFINE C == (checks \ {check}) \cup {[step |-> answer, id |-> None]}
  <2>2. tab' = [tab EXCEPT ![t] = [tab[t] EXCEPT !.checks = C]]
    BY <2>1
  <2>3. [tab[t] EXCEPT !.checks = C] = [tab[t] EXCEPT !.checks = C, !.join = tab[t].join]
    BY DEF TypeOK, TabStates
  <2>4. C \in SUBSET Checks
    BY <1>0 DEF Checks
  <2> QED
    BY <1>0, <1>2, <2>2, <2>3, <2>4, Rechecked DEF CheckReads
<1>3. CASE CheckAnswers(t)
  <2>1. PICK check \in checks, answer \in {"joined", "not-joined"} :
          tab' = [tab EXCEPT ![t].checks = @ \ {check}, ![t].join = answer]
    BY <1>3 DEF CheckAnswers
  <2>2. tab' = [tab EXCEPT ![t] = [tab[t] EXCEPT !.checks = checks \ {check}, !.join = answer]]
    BY <2>1
  <2> QED
    BY <1>0, <1>3, <2>2, Rechecked DEF CheckAnswers
<1>4. CASE CheckFails(t)
  <2>1. PICK check \in checks :
          tab' = [tab EXCEPT ![t].checks = @ \ {check},
                             ![t].join = IF check = Due THEN @ ELSE "unknown"]
    BY <1>4 DEF CheckFails
  <2> DEFINE answer == IF check = Due THEN tab[t].join ELSE "unknown"
  <2>2. tab' = [tab EXCEPT ![t] = [tab[t] EXCEPT !.checks = checks \ {check}, !.join = answer]]
    BY <2>1
  <2> QED
    BY <1>0, <1>4, <2>2, Rechecked DEF CheckFails
<1> QED
  BY <1>1, <1>2, <1>3, <1>4 DEF Checking

(* A tab that is opened, closed, or whose call ends without a ballot.      *)
Leaves(t) ==
  Open(t) \/ Close(t) \/ Again(t) \/ Fails(t)
    \/ \E choice \in Choices : ClickToVote(t, choice) /\ saved.id = None

Left(t) ==
  /\ OnlyTab(t) /\ tab'[t].pc \in {"closed", "idle"} /\ tab'[t].tx = None
  /\ tab'[t].version \in {tab[t].version, saved.version, 0}

LEMMA LeavingStep ==
  ASSUME TypeOK, NEW t \in Tabs, Leaves(t)
  PROVE  Left(t) /\ UNCHANGED <<chain, txs, browser>>
<1>1. CASE Open(t)
  <2> DEFINE r == [Closed EXCEPT !.pc = "idle", !.onRoll = saved.onRoll, !.weight = saved.weight,
                                 !.version = saved.version, !.checks = {Due}]
  <2>1. tab' = [tab EXCEPT ![t] = r]
    BY <1>1 DEF Open
  <2>2. {Due} \in SUBSET Checks
    BY DEF Due, Checks
  <2>3. saved.onRoll \in BOOLEAN /\ saved.weight \in {1, 2} /\ saved.version \in Nat
    BY DEF TypeOK, Stored
  <2>4. r \in TabStates /\ r.pc = "idle" /\ r.tx = None /\ r.version = saved.version
    BY <2>2, <2>3, ClosedType DEF TabStates, Labels, Closed
  <2> QED
    BY <1>1, <2>1, <2>4, Update DEF Open, Left
<1>2. CASE Close(t)
  <2>1. Closed.pc = "closed" /\ Closed.tx = None /\ Closed.version = 0
    BY DEF Closed
  <2> QED
    BY <1>2, <2>1, ClosedType, Update DEF Close, Left
<1>3. CASE Again(t)
  BY <1>3, Ends DEF Again, Left
<1>4. CASE Fails(t)
  BY <1>4, Ends DEF Fails, Left
<1>5. ASSUME NEW choice \in Choices, ClickToVote(t, choice), saved.id = None PROVE Left(t)
  BY <1>5, Ends DEF ClickToVote, Left
<1> QED
  BY <1>1, <1>2, <1>3, <1>4, <1>5 DEF Leaves, Open, Close, Again, Fails, ClickToVote

(* A call of handleJoinAndVote starts with the identity that is stored, or *)
(* with a new one that is stored first.                                    *)
Starts(t) ==
  \E choice \in Choices :
    ClickToJoin(t, choice) \/ (ClickToVote(t, choice) /\ saved.id # None)

StartedOn(t) ==
  /\ OnlyTab(t) /\ tab[t].pc \in {"idle", "done"} /\ tab'[t].pc \in {"joining", "fetching"}
  /\ tab'[t].tx = tab[t].tx /\ tab[t].version <= MaxOverwrites
  /\ tab'[t].version = tab[t].version /\ tab'[t].id = saved'.id

LEMMA StartingStep ==
  ASSUME TypeOK, NEW t \in Tabs, Starts(t)
  PROVE  /\ StartedOn(t)
         /\ \/ saved.id # None /\ UNCHANGED <<saved, created>>
            \/ \E id \in Identities \ created :
                  /\ saved.id = None /\ saved' = [saved EXCEPT !.id = id]
                  /\ created' = created \cup {id}
         /\ UNCHANGED <<chain, txs, clears>>
<1>1. PICK choice \in Choices :
        ClickToJoin(t, choice) \/ (ClickToVote(t, choice) /\ saved.id # None)
  BY DEF Starts
<1>2. tab[t].pc \in {"idle", "done"} /\ tab[t].version <= MaxOverwrites
  BY <1>1 DEF ClickToJoin, ClickToVote, MayClick, CanOverwrite
<1>3. ASSUME NEW id \in Identities, NEW label \in {"joining", "fetching"},
             Started(t, id, choice, label)
      PROVE  /\ OnlyTab(t) /\ tab'[t].pc = label /\ tab'[t].tx = tab[t].tx
             /\ tab'[t].version = tab[t].version /\ tab'[t].id = id
  <2> DEFINE r == [tab[t] EXCEPT !.pc = label, !.id = id, !.choice = choice]
  <2>1. tab' = [tab EXCEPT ![t] = r]
    BY <1>3 DEF Started
  <2>2. tab[t] \in TabStates /\ label \in Labels
    BY DEF TypeOK, Labels
  <2>3. /\ r \in TabStates /\ r.pc = label /\ r.tx = tab[t].tx
        /\ r.version = tab[t].version /\ r.id = id
    BY <2>2 DEF TabStates
  <2> QED
    BY <2>1, <2>3, Update
<1>4. saved \in Stored /\ saved.id \in created \cup {None} /\ created \subseteq Identities
  BY DEF TypeOK
<1>5. CASE ClickToJoin(t, choice) /\ saved.id = None
  <2>1. PICK id \in Identities \ created :
          /\ created' = created \cup {id} /\ saved' = [saved EXCEPT !.id = id]
          /\ Started(t, id, choice, "joining")
    BY <1>5 DEF ClickToJoin, CreatesIdentity
  <2>2. saved'.id = id
    BY <1>4, <2>1 DEF Stored
  <2> QED
    BY <1>2, <1>3, <1>5, <2>1, <2>2 DEF StartedOn, ClickToJoin
<1>6. CASE ClickToJoin(t, choice) /\ saved.id # None
  BY <1>2, <1>3, <1>4, <1>6 DEF ClickToJoin, CreatesIdentity, StartedOn
<1>7. CASE ClickToVote(t, choice) /\ saved.id # None
  BY <1>2, <1>3, <1>4, <1>7 DEF ClickToVote, StartedOn, browser
<1> QED
  BY <1>1, <1>5, <1>6, <1>7

(* The handler goes on from one await to the next.                         *)
Advanced(t, from, to) ==
  /\ OnlyTab(t) /\ tab[t].pc = from /\ tab'[t].pc = to
  /\ tab'[t].id = tab[t].id /\ tab'[t].version = tab[t].version
  /\ tab'[t].choice = tab[t].choice

LEMMA ConfirmingJoin ==
  ASSUME TypeOK, NEW t \in Tabs, ConfirmJoin(t)
  PROVE  Advanced(t, "joinWait", "fetching") /\ tab'[t].tx = None
<1> DEFINE r == [tab[t] EXCEPT !.pc = "fetching", !.join = "joined", !.tx = None]
<1>1. tab' = [tab EXCEPT ![t] = r]
  BY DEF ConfirmJoin
<1>2. tab[t] \in TabStates
  BY DEF TypeOK
<1>3. /\ r \in TabStates /\ r.pc = "fetching" /\ r.tx = None /\ r.id = tab[t].id
      /\ r.version = tab[t].version /\ r.choice = tab[t].choice
  BY <1>2 DEF TabStates, Labels
<1> QED
  BY <1>1, <1>3, Update DEF ConfirmJoin, Advanced, At

LEMMA Fetching ==
  ASSUME TypeOK, NEW t \in Tabs, FetchGroup(t)
  PROVE  Advanced(t, "fetching", "proving") /\ tab'[t].tx = tab[t].tx
<1> DEFINE r == [tab[t] EXCEPT !.pc = "proving", !.seen = GroupSize]
<1>1. tab' = [tab EXCEPT ![t] = r]
  BY DEF FetchGroup
<1>2. tab[t] \in TabStates /\ GroupSize \in Nat
  BY ClientAssumption DEF TypeOK, GroupSize
<1>3. /\ r \in TabStates /\ r.pc = "proving" /\ r.tx = tab[t].tx /\ r.id = tab[t].id
      /\ r.version = tab[t].version /\ r.choice = tab[t].choice
  BY <1>2 DEF TabStates, Labels
<1> QED
  BY <1>1, <1>3, Update DEF FetchGroup, Advanced, At

LEMMA ConfirmingVote ==
  ASSUME TypeOK, NEW t \in Tabs, ConfirmVote(t)
  PROVE  Advanced(t, "voteWait", "verifying") /\ tab'[t].tx = None
<1> DEFINE r == [tab[t] EXCEPT !.pc = "verifying", !.tx = None]
<1>1. tab' = [tab EXCEPT ![t] = r]
  BY DEF ConfirmVote
<1>2. tab[t] \in TabStates
  BY DEF TypeOK
<1>3. /\ r \in TabStates /\ r.pc = "verifying" /\ r.tx = None /\ r.id = tab[t].id
      /\ r.version = tab[t].version /\ r.choice = tab[t].choice
  BY <1>2 DEF TabStates, Labels
<1> QED
  BY <1>1, <1>3, Update DEF ConfirmVote, Advanced, At

LEMMA Saving ==
  ASSUME TypeOK, NEW t \in Tabs, Save(t)
  PROVE  /\ OnlyTab(t) /\ tab[t].pc = "verifying" /\ tab'[t].pc = "done"
         /\ tab'[t].tx = tab[t].tx /\ tab'[t].choice = tab[t].choice
         /\ tab[t].version \in Nat /\ tab'[t].version = tab[t].version + 1
         /\ saved' \in Stored /\ saved'.id = saved.id
         /\ saved'.version = tab[t].version + 1
<1> DEFINE r == [tab[t] EXCEPT !.pc = "done", !.id = None, !.seen = 0,
                 !.version = NextVersion(t), !.checks = tab[t].checks \cup {Due}]
<1>1. tab' = [tab EXCEPT ![t] = r]
  BY DEF Save
<1>2. tab[t] \in TabStates /\ tab[t].version \in Nat /\ NextVersion(t) = tab[t].version + 1
  BY DEF TypeOK, TabStates, NextVersion
<1>3. tab[t].checks \cup {Due} \in SUBSET Checks
  BY <1>2 DEF TabStates, Due, Checks
<1>4. /\ r \in TabStates /\ r.pc = "done" /\ r.tx = tab[t].tx
      /\ r.version = tab[t].version + 1 /\ r.choice = tab[t].choice
  <2>1. tab[t].version + 1 \in Nat /\ "done" \in Labels
    BY <1>2 DEF Labels
  <2> QED
    BY <1>2, <1>3, <2>1 DEF TabStates
<1>5. /\ saved' \in Stored /\ saved'.id = saved.id
      /\ saved'.version = tab[t].version + 1
  <2>1. saved \in Stored /\ saved' = [saved EXCEPT !.version = tab[t].version + 1]
    BY <1>2 DEF TypeOK, Save
  <2> QED
    BY <1>2, <2>1 DEF Stored
<1> QED
  BY <1>1, <1>2, <1>4, <1>5, Update DEF Save, At

(* A transaction takes a slot that no other tab waits for.                 *)
SentIn(s, call) ==
  /\ Reusable(s) /\ Valid(call)
  /\ txs' = [txs EXCEPT ![s] = [status |-> "pending", call |-> call]]
  /\ UNCHANGED <<chain, browser>>

LEMMA Submitting ==
  ASSUME TypeOK, NEW t \in Tabs, NEW call, NEW label \in Waiting, Submit(t, call, label)
  PROVE  \E s \in Slots :
           /\ SentIn(s, call) /\ Advanced(t, tab[t].pc, label)
           /\ tab'[t].seen = tab[t].seen /\ tab'[t].tx = s
<1>1. PICK s \in Slots : /\ Valid(call) /\ Broadcast(s, call)
                         /\ tab' = [tab EXCEPT ![t].pc = label, ![t].tx = s]
                         /\ UNCHANGED <<chain, browser>>
  BY DEF Submit
<1> DEFINE r == [tab[t] EXCEPT !.pc = label, !.tx = s]
<1>2. tab' = [tab EXCEPT ![t] = r]
  BY <1>1
<1>3. tab[t] \in TabStates /\ label \in Labels
  BY DEF TypeOK, Labels
<1>4. /\ r \in TabStates /\ r.pc = label /\ r.tx = s /\ r.id = tab[t].id
      /\ r.version = tab[t].version /\ r.choice = tab[t].choice /\ r.seen = tab[t].seen
  BY <1>3 DEF TabStates
<1>5. OnlyTab(t) /\ tab'[t] = r
  BY <1>2, <1>4, Update
<1> QED
  BY <1>1, <1>4, <1>5 DEF Advanced, SentIn, Broadcast

LEMMA Losing ==
  ASSUME TypeOK, NEW t \in Tabs, NEW call, SubmitLost(t, call)
  PROVE  (\E s \in Slots : SentIn(s, call)) /\ Left(t)
<1>1. tab' = Ended(t, "idle")
  BY DEF SubmitLost
<1>2. Left(t)
  BY <1>1, Ends DEF Left
<1> QED
  BY <1>2 DEF SubmitLost, SentIn, Broadcast

LEMMA Settling ==
  ASSUME TypeOK, NEW s \in Slots, NEW status \in {"mined", "reverted", "dropped"},
         Settle(s, status)
  PROVE  /\ txs' \in [Slots -> TxStates] /\ \A r \in Slots \ {s} : txs'[r] = txs[r]
         /\ txs'[s].status \in {status, "settled"}
BY DEF TypeOK, Settle, Free, TxStates

LEMMA Sending ==
  ASSUME TypeOK, NEW s \in Slots, NEW call \in Submitted, SentIn(s, call)
  PROVE  /\ txs' \in [Slots -> TxStates] /\ \A r \in Slots \ {s} : txs'[r] = txs[r]
         /\ txs'[s].status = "pending" /\ txs'[s].call = call
BY DEF TypeOK, SentIn, TxStates

LEMMA JoinType ==
  ASSUME TypeOK, NEW t \in Tabs, tab[t].id \in Identities
  PROVE  /\ Join(t) \in Submitted /\ Join(t).kind = "join" /\ Join(t).id = tab[t].id
         /\ Join(t).version = 0
BY AnyChoiceType, ClientAssumption DEF Join, Submitted, Versions

LEMMA VoteType ==
  ASSUME TypeOK, NEW t \in Tabs, tab[t].id \in Identities, tab[t].version \in Versions
  PROVE  /\ Vote(t) \in Submitted /\ Vote(t).kind = "vote" /\ Vote(t).id = tab[t].id
         /\ Vote(t).version = tab[t].version /\ Vote(t).choice = tab[t].choice
BY DEF TypeOK, TabStates, Vote, Submitted

(* Every step is one of these.                                             *)
TabStep(t) ==
  \/ Checking(t) \/ Leaves(t) \/ Starts(t)
  \/ SubmitJoin(t) \/ ConfirmJoin(t) \/ FetchGroup(t)
  \/ SubmitVote(t) \/ ConfirmVote(t) \/ Save(t) \/ AnswerLost(t)

LEMMA Steps ==
  ASSUME [Next]_vars
  PROVE  \/ \E t \in Tabs : TabStep(t)
         \/ \E s \in Slots : Mine(s) \/ Drop(s)
         \/ OtherJoins \/ VotingCloses \/ Clear
         \/ UNCHANGED vars
<1>1. ASSUME NEW t \in Tabs, NEW choice \in Choices, ClickToVote(t, choice)
      PROVE  Leaves(t) \/ Starts(t)
  BY <1>1 DEF Leaves, Starts
<1>2. ASSUME NEW t \in Tabs, NEW choice \in Choices, ClickToJoin(t, choice)
      PROVE  Starts(t)
  <2>1. ClickToJoin(t, choice) \/ (ClickToVote(t, choice) /\ saved.id # None)
    BY <1>2
  <2> QED
    BY <2>1, Zenon DEF Starts
<1>3. ASSUME NEW t \in Tabs,
             Open(t) \/ Close(t) \/ HandleVote(t) \/ Again(t) \/ Fails(t) \/ AnswerLost(t)
      PROVE  TabStep(t)
  BY <1>3 DEF TabStep, Leaves, HandleVote
<1>4. ASSUME NEW t \in Tabs,
             CheckStarts(t) \/ CheckReads(t) \/ CheckAnswers(t) \/ CheckFails(t)
      PROVE  TabStep(t)
  BY <1>4 DEF TabStep, Checking
<1> QED
  BY <1>1, <1>2, <1>3, <1>4 DEF Next, TabStep

(* The part of TypeInv that a step of tab t can disturb.                   *)
LEMMA TabsTyped ==
  ASSUME TypeInv, NEW t \in Tabs, OnlyTab(t), created \subseteq created',
         tab'[t].pc \in Waiting <=> tab'[t].tx # None, BusyOK(t)'
  PROVE  /\ tab' \in [Tabs -> TabStates]
         /\ \A u \in Tabs : tab'[u].pc \in Waiting <=> tab'[u].tx # None
         /\ \A u \in Tabs : BusyOK(u)'
BY DEF TypeInv, TypeOK, OnlyTab, BusyOK

LEMMA SentTyped ==
  ASSUME TypeInv, NEW s \in Slots, NEW call \in Submitted, SentIn(s, call),
         call.id \in created
  PROVE  /\ txs' \in [Slots -> TxStates]
         /\ \A r \in Slots : Pending(r)' => txs'[r].call.id \in created'
<1>1. created' = created
  BY DEF SentIn, browser
<1> QED
  BY <1>1, Sending DEF TypeInv, Pending

LEMMA TypeInit == Init => TypeInv
<1> SUFFICES ASSUME Init PROVE TypeInv
  OBVIOUS
<1>1. Free \in TxStates /\ Free.status = "settled"
  BY DEF Free, TxStates
<1>2. saved \in Stored /\ saved.id = None
  <2>1. PICK w \in {1, 2} :
          saved = [onRoll |-> TRUE, weight |-> w, id |-> None, version |-> 0]
    BY ClientAssumption DEF Init
  <2> QED
    BY <2>1 DEF Stored
<1>3. Closed.pc = "closed" /\ Closed.tx = None
  BY DEF Closed
<1> QED
  BY <1>1, <1>2, <1>3, ClosedType, ClientAssumption
  DEF Init, TypeInv, TypeOK, BusyOK, Busy, Waiting, Pending

(* When only tab t moves and nothing else changes. *)
LEMMA TypedAlone ==
  ASSUME TypeInv, NEW t \in Tabs, OnlyTab(t), UNCHANGED <<chain, txs, browser>>,
         tab'[t].pc \in Waiting <=> tab'[t].tx # None, BusyOK(t)'
  PROVE  TypeInv'
<1>1. created' = created
  BY DEF browser
<1>2. /\ tab' \in [Tabs -> TabStates]
      /\ \A u \in Tabs : tab'[u].pc \in Waiting <=> tab'[u].tx # None
      /\ \A u \in Tabs : BusyOK(u)'
  BY <1>1, TabsTyped
<1> QED
  BY <1>2 DEF TypeInv, TypeOK, chain, browser, Pending

LEMMA TypedTab ==
  ASSUME TypeInv, NEW t \in Tabs, TabStep(t)
  PROVE  TypeInv'
<1> USE DEF TypeInv
<1>0. /\ tab[t] \in TabStates /\ BusyOK(t) /\ created \subseteq Identities
      /\ tab[t].pc \in Waiting <=> tab[t].tx # None
  BY DEF TypeOK
<1>1. CASE Checking(t)
  BY <1>0, <1>1, CheckingStep, TypedAlone DEF SameCall, BusyOK, browser
<1>2. CASE Leaves(t)
  BY <1>2, LeavingStep, TypedAlone DEF Left, BusyOK, Busy, Waiting
<1>3. CASE Starts(t)
  <2>1. /\ StartedOn(t) /\ UNCHANGED <<chain, txs, clears>>
        /\ saved' \in Stored /\ saved'.id \in created'
        /\ created \subseteq created' /\ created' \subseteq Identities
    <3>1. CASE saved.id # None /\ UNCHANGED <<saved, created>>
      BY <1>3, <3>1, StartingStep DEF TypeOK
    <3>2. CASE \E id \in Identities \ created :
                 /\ saved.id = None /\ saved' = [saved EXCEPT !.id = id]
                 /\ created' = created \cup {id}
      BY <1>0, <1>3, <3>2, StartingStep DEF TypeOK, Stored
    <3> QED
      BY <1>3, <3>1, <3>2, StartingStep
  <2>2. BusyOK(t)' /\ (tab'[t].pc \in Waiting <=> tab'[t].tx # None)
    BY <1>0, <2>1, ClientAssumption DEF StartedOn, BusyOK, Busy, Waiting, Versions, TabStates
  <2>3. /\ tab' \in [Tabs -> TabStates]
        /\ \A u \in Tabs : tab'[u].pc \in Waiting <=> tab'[u].tx # None
        /\ \A u \in Tabs : BusyOK(u)'
    BY <2>1, <2>2, TabsTyped DEF StartedOn
  <2> QED
    BY <2>1, <2>3 DEF TypeOK, chain, Pending
<1>4. ASSUME NEW s \in Slots, NEW call \in Submitted, SentIn(s, call), call.id \in created,
             OnlyTab(t), BusyOK(t)', tab'[t].pc \in Waiting <=> tab'[t].tx # None
      PROVE  TypeInv'
  <2>1. UNCHANGED <<chain, browser>> /\ created' = created
    BY <1>4 DEF SentIn, browser
  <2>2. /\ txs' \in [Slots -> TxStates]
        /\ \A r \in Slots : Pending(r)' => txs'[r].call.id \in created'
    BY <1>4, SentTyped
  <2>3. /\ tab' \in [Tabs -> TabStates]
        /\ \A u \in Tabs : tab'[u].pc \in Waiting <=> tab'[u].tx # None
        /\ \A u \in Tabs : BusyOK(u)'
    BY <1>4, <2>1, TabsTyped
  <2> QED
    BY <2>1, <2>2, <2>3 DEF TypeOK, chain, browser
<1>5. tab[t].pc \in Busy => tab[t].id \in Identities /\ tab[t].id \in created
  BY <1>0 DEF BusyOK
<1>6. CASE SubmitJoin(t)
  <2>1. tab[t].pc = "joining" /\ Submit(t, Join(t), "joinWait")
    BY <1>6 DEF SubmitJoin, At
  <2>2. Join(t) \in Submitted /\ Join(t).id \in created
    BY <1>5, <2>1, JoinType DEF Busy
  <2>3. PICK s \in Slots : SentIn(s, Join(t)) /\ Advanced(t, tab[t].pc, "joinWait")
                           /\ tab'[t].tx = s
    BY <2>1, Submitting DEF Waiting
  <2>4. BusyOK(t)' /\ (tab'[t].pc \in Waiting <=> tab'[t].tx # None)
    BY <1>0, <2>1, <2>3, ClientAssumption DEF Advanced, SentIn, browser, BusyOK, Busy, Waiting
  <2> QED
    BY <1>4, <2>2, <2>3, <2>4 DEF Advanced
<1>7. CASE SubmitVote(t)
  <2>1. tab[t].pc = "proving" /\ Submit(t, Vote(t), "voteWait")
    BY <1>7 DEF SubmitVote, At
  <2>2. Vote(t) \in Submitted /\ Vote(t).id \in created
    BY <1>0, <1>5, <2>1, VoteType DEF Busy, BusyOK
  <2>3. PICK s \in Slots : SentIn(s, Vote(t)) /\ Advanced(t, tab[t].pc, "voteWait")
                           /\ tab'[t].tx = s
    BY <2>1, Submitting DEF Waiting
  <2>4. BusyOK(t)' /\ (tab'[t].pc \in Waiting <=> tab'[t].tx # None)
    BY <1>0, <2>1, <2>3, ClientAssumption DEF Advanced, SentIn, browser, BusyOK, Busy, Waiting
  <2> QED
    BY <1>4, <2>2, <2>3, <2>4 DEF Advanced
<1>8. CASE AnswerLost(t)
  <2>1. ASSUME NEW call \in Submitted, call.id \in created, SubmitLost(t, call) PROVE TypeInv'
    <3>1. PICK s \in Slots : SentIn(s, call)
      BY <2>1, Losing
    <3>2. Left(t)
      BY <2>1, Losing
    <3> QED
      BY <1>4, <2>1, <3>1, <3>2 DEF Left, BusyOK, Busy, Waiting
  <2>2. CASE At(t, "joining") /\ SubmitLost(t, Join(t))
    BY <1>5, <2>1, <2>2, JoinType DEF At, Busy
  <2>3. CASE At(t, "proving") /\ SubmitLost(t, Vote(t))
    BY <1>0, <1>5, <2>1, <2>3, VoteType DEF At, Busy, BusyOK
  <2> QED
    BY <1>8, <2>2, <2>3 DEF AnswerLost
<1>9. ASSUME NEW from \in Busy, NEW to \in Busy, Advanced(t, from, to),
             tab'[t].tx # None <=> to \in Waiting, UNCHANGED <<chain, txs, browser>>
      PROVE  TypeInv'
  <2>1. BusyOK(t)' /\ (tab'[t].pc \in Waiting <=> tab'[t].tx # None)
    BY <1>0, <1>9 DEF Advanced, BusyOK, browser
  <2> QED
    BY <1>9, <2>1, TypedAlone DEF Advanced
<1>10. CASE ConfirmJoin(t)
  BY <1>9, <1>10, ConfirmingJoin DEF ConfirmJoin, Busy, Waiting
<1>11. CASE FetchGroup(t)
  <2>1. tab'[t].tx = None
    BY <1>0, <1>11, Fetching DEF Advanced, Waiting
  <2> QED
    BY <1>9, <1>11, <2>1, Fetching DEF FetchGroup, Busy, Waiting
<1>13. CASE ConfirmVote(t)
  BY <1>9, <1>13, ConfirmingVote DEF ConfirmVote, Busy, Waiting
<1>12. CASE Save(t)
  <2>1. /\ tab' \in [Tabs -> TabStates]
        /\ \A u \in Tabs : tab'[u].pc \in Waiting <=> tab'[u].tx # None
        /\ \A u \in Tabs : BusyOK(u)'
    BY <1>0, <1>12, Saving, TabsTyped DEF Save, BusyOK, Busy, Waiting
  <2> QED
    BY <1>12, <2>1, Saving DEF TypeOK, Save, chain, Pending
<1> QED
  BY <1>1, <1>2, <1>3, <1>6, <1>7, <1>8, <1>10, <1>11, <1>12, <1>13 DEF TabStep

LEMMA TypeStep == TypeInv /\ [Next]_vars => TypeInv'
<1> SUFFICES ASSUME TypeInv, [Next]_vars PROVE TypeInv'
  OBVIOUS
<1>1. ASSUME NEW t \in Tabs, TabStep(t) PROVE TypeInv'
  BY <1>1, TypedTab
<1>2. ASSUME NEW s \in Slots, NEW status \in {"mined", "reverted", "dropped"},
             Settle(s, status), UNCHANGED <<browser, tab>>,
             votingOpen' \in BOOLEAN, joinedAs' \in created \cup {None},
             others' \in 0 .. MaxOthers, ballots' \in Seq(Ballots)
      PROVE  TypeInv'
  <2>1. /\ txs' \in [Slots -> TxStates]
        /\ \A r \in Slots : Pending(r)' => Pending(r) /\ txs'[r] = txs[r]
    BY <1>2, Settling DEF TypeInv, Pending
  <2> QED
    BY <1>2, <2>1 DEF TypeInv, TypeOK, BusyOK, browser
<1>3. ASSUME NEW s \in Slots, Mine(s) PROVE TypeInv'
  <2> DEFINE x == txs[s].call
  <2>1. Pending(s) /\ x \in Submitted /\ x.id \in created
    BY <1>3 DEF Mine, Pending, TypeInv, TypeOK, TxStates
  <2>2. CASE Valid(x) /\ x.kind = "join"
    BY <1>2, <1>3, <2>1, <2>2 DEF Mine, TypeInv, TypeOK
  <2>3. CASE Valid(x) /\ x.kind # "join"
    <3>1. [id |-> x.id, version |-> x.version, choice |-> x.choice] \in Ballots
      BY <2>1 DEF Submitted, Ballots
    <3>2. ballots' \in Seq(Ballots)
      BY <1>3, <2>3, <3>1 DEF Mine, TypeInv, TypeOK
    <3> QED
      BY <1>2, <1>3, <2>3, <3>2 DEF Mine, TypeInv, TypeOK
  <2>4. CASE ~Valid(x)
    BY <1>2, <1>3, <2>4 DEF Mine, TypeInv, TypeOK
  <2> QED
    BY <2>2, <2>3, <2>4
<1>4. ASSUME NEW s \in Slots, Drop(s) PROVE TypeInv'
  BY <1>2, <1>4 DEF Drop, TypeInv, TypeOK, chain
<1>5. CASE OtherJoins
  BY <1>5, ClientAssumption DEF OtherJoins, TypeInv, TypeOK, BusyOK, Pending, browser
<1>6. CASE VotingCloses
  BY <1>6 DEF VotingCloses, TypeInv, TypeOK, BusyOK, Pending, browser
<1>7. CASE Clear
  <2>1. saved' \in Stored /\ saved'.id = None
    BY <1>7 DEF Clear, Stored, TypeInv, TypeOK
  <2>2. clears' \in 0 .. MaxClears
    BY <1>7, ClientAssumption DEF Clear, TypeInv, TypeOK
  <2> QED
    BY <1>7, <2>1, <2>2 DEF Clear, TypeInv, TypeOK, BusyOK, Pending, chain
<1>8. CASE UNCHANGED vars
  BY <1>8 DEF vars, chain, browser, TypeInv, TypeOK, BusyOK, Pending
<1> QED
  BY <1>1, <1>3, <1>4, <1>5, <1>6, <1>7, <1>8, Steps

(* The page's state keeps its type, and no call is made with a version the *)
(* circuit does not accept or with an identity the page has not stored.    *)
THEOREM ClientTypes == Spec => []TypeOK
<1>1. TypeInv => TypeOK
  BY DEF TypeInv
<1> QED
  BY <1>1, TypeInit, TypeStep, PTL DEF Spec

-----------------------------------------------------------------------------
(* The identity in the storage. *)

KeptInv ==
  clears = 0 =>
    /\ \A t \in Tabs : tab[t].pc \in Busy => tab[t].id = saved.id
    /\ \A s \in Slots : Pending(s) /\ txs[s].call.kind = "join" => txs[s].call.id = saved.id
    /\ joinedAs # None => saved.id = joinedAs

(* While nothing is stored nothing is under way: this is why a new         *)
(* identity never takes the place of one that is in use.                   *)
LEMMA NothingUnderWay ==
  ASSUME TypeInv, KeptInv, clears = 0, saved.id = None
  PROVE  /\ \A t \in Tabs : tab[t].pc \notin Busy
         /\ \A s \in Slots : Pending(s) => txs[s].call.kind # "join"
         /\ joinedAs = None
BY ClientAssumption DEF TypeInv, TypeOK, BusyOK, KeptInv

(* A step of tab t that keeps the storage, unless nothing is under way.    *)
LEMMA KeptAlone ==
  ASSUME TypeInv, KeptInv, NEW t \in Tabs, OnlyTab(t),
         UNCHANGED <<joinedAs, txs, clears>>,
         tab'[t].pc \in Busy => tab'[t].id = saved'.id \/ (tab[t].pc \in Busy /\ tab'[t].id = tab[t].id),
         saved'.id = saved.id \/ saved.id = None
  PROVE  KeptInv'
<1> SUFFICES ASSUME clears = 0 PROVE KeptInv'
  BY DEF KeptInv
<1>1. CASE saved'.id = saved.id
  BY <1>1 DEF KeptInv, OnlyTab, Pending
<1>2. CASE saved.id = None
  BY <1>2, NothingUnderWay DEF KeptInv, OnlyTab, Pending
<1> QED
  BY <1>1, <1>2

(* A call that is sent carries the identity of a call in progress. *)
LEMMA KeptSent ==
  ASSUME TypeInv, KeptInv, NEW t \in Tabs, NEW s \in Slots, NEW call \in Submitted,
         OnlyTab(t), SentIn(s, call), tab[t].pc \in Busy, call.id = tab[t].id,
         tab'[t].pc \in Busy => tab'[t].id = tab[t].id
  PROVE  KeptInv'
<1>1. UNCHANGED <<joinedAs, saved, clears>>
  BY DEF SentIn, chain, browser
<1>2. \A r \in Slots : Pending(r)' => txs'[r].call.id = call.id \/ (Pending(r) /\ txs'[r] = txs[r])
  BY Sending DEF TypeInv, Pending
<1> QED
  BY <1>1, <1>2 DEF KeptInv, OnlyTab

LEMMA KeptTab ==
  ASSUME TypeInv, KeptInv, NEW t \in Tabs, TabStep(t)
  PROVE  KeptInv'
<1>0. TypeOK /\ (tab[t].pc \in Busy => tab[t].id \in Identities /\ tab[t].version \in Versions)
  BY DEF TypeInv, TypeOK, BusyOK
<1>1. CASE Checking(t)
  BY <1>0, <1>1, CheckingStep, KeptAlone DEF SameCall, chain, browser
<1>2. CASE Leaves(t)
  BY <1>0, <1>2, LeavingStep, KeptAlone DEF Left, Busy, chain, browser
<1>3. CASE Starts(t)
  <2>1. StartedOn(t) /\ UNCHANGED <<chain, txs, clears>>
        /\ (saved' = saved \/ saved.id = None)
    BY <1>0, <1>3, StartingStep
  <2> QED
    BY <2>1, KeptAlone DEF StartedOn, chain
<1>4. CASE SubmitJoin(t)
  <2>1. tab[t].pc = "joining" /\ Submit(t, Join(t), "joinWait")
    BY <1>4 DEF SubmitJoin, At
  <2>2. PICK s \in Slots : SentIn(s, Join(t)) /\ Advanced(t, tab[t].pc, "joinWait")
    BY <1>0, <2>1, Submitting DEF Waiting
  <2> QED
    BY <1>0, <2>1, <2>2, JoinType, KeptSent DEF Advanced, Busy
<1>5. CASE SubmitVote(t)
  <2>1. tab[t].pc = "proving" /\ Submit(t, Vote(t), "voteWait")
    BY <1>5 DEF SubmitVote, At
  <2>2. PICK s \in Slots : SentIn(s, Vote(t)) /\ Advanced(t, tab[t].pc, "voteWait")
    BY <1>0, <2>1, Submitting DEF Waiting
  <2> QED
    BY <1>0, <2>1, <2>2, VoteType, KeptSent DEF Advanced, Busy
<1>6. CASE AnswerLost(t)
  <2>1. ASSUME NEW call \in Submitted, tab[t].pc \in Busy, call.id = tab[t].id,
               SubmitLost(t, call)
        PROVE  KeptInv'
    <3>1. PICK s \in Slots : SentIn(s, call)
      BY <1>0, <2>1, Losing
    <3>2. Left(t)
      BY <1>0, <2>1, Losing
    <3> QED
      BY <2>1, <3>1, <3>2, KeptSent DEF Left, Busy
  <2>2. CASE At(t, "joining") /\ SubmitLost(t, Join(t))
    BY <1>0, <2>1, <2>2, JoinType DEF At, Busy
  <2>3. CASE At(t, "proving") /\ SubmitLost(t, Vote(t))
    BY <1>0, <2>1, <2>3, VoteType DEF At, Busy
  <2> QED
    BY <1>6, <2>2, <2>3 DEF AnswerLost
<1>7. ASSUME NEW from \in Busy, NEW to \in Busy, Advanced(t, from, to),
             UNCHANGED <<chain, txs, browser>>
      PROVE  KeptInv'
  BY <1>7, KeptAlone DEF Advanced, chain, browser
<1>8. CASE ConfirmJoin(t)
  BY <1>0, <1>7, <1>8, ConfirmingJoin DEF ConfirmJoin, Busy
<1>9. CASE FetchGroup(t)
  BY <1>0, <1>7, <1>9, Fetching DEF FetchGroup, Busy
<1>10. CASE ConfirmVote(t)
  BY <1>0, <1>7, <1>10, ConfirmingVote DEF ConfirmVote, Busy
<1>11. CASE Save(t)
  <2>1. UNCHANGED <<joinedAs, txs, clears>>
    BY <1>11 DEF Save, chain
  <2> QED
    BY <1>0, <1>11, <2>1, Saving, KeptAlone DEF Busy
<1> QED
  BY <1>1, <1>2, <1>3, <1>4, <1>5, <1>6, <1>8, <1>9, <1>10, <1>11 DEF TabStep

LEMMA KeptStep == TypeInv /\ KeptInv /\ [Next]_vars => KeptInv'
<1> SUFFICES ASSUME TypeInv, KeptInv, [Next]_vars PROVE KeptInv'
  OBVIOUS
<1>1. ASSUME NEW s \in Slots, NEW status \in {"mined", "reverted", "dropped"},
             Settle(s, status)
      PROVE  \A r \in Slots : Pending(r)' => Pending(r) /\ txs'[r] = txs[r]
  BY <1>1, Settling DEF TypeInv, Pending
<1>2. ASSUME NEW s \in Slots, Mine(s) PROVE KeptInv'
  <2>1. Pending(s) /\ UNCHANGED <<browser, tab>>
        /\ \/ joinedAs' = joinedAs
           \/ txs[s].call.kind = "join" /\ joinedAs' = txs[s].call.id
        /\ \E status \in {"mined", "reverted", "dropped"} : Settle(s, status)
    BY <1>2 DEF Mine
  <2> QED
    BY <1>1, <2>1 DEF KeptInv, browser
<1>3. ASSUME NEW s \in Slots, Drop(s) PROVE KeptInv'
  <2>1. Settle(s, "dropped") /\ UNCHANGED <<chain, browser, tab>>
    BY <1>3 DEF Drop
  <2> QED
    BY <1>1, <2>1 DEF KeptInv, chain, browser
<1>4. CASE Clear
  BY <1>4 DEF Clear, TypeInv, TypeOK, KeptInv
<1>5. CASE OtherJoins \/ VotingCloses \/ UNCHANGED vars
  BY <1>5 DEF OtherJoins, VotingCloses, vars, chain, browser, KeptInv, Pending
<1> QED
  BY <1>2, <1>3, <1>4, <1>5, KeptTab, Steps

(* No tab, retry, timeout or crash makes the page lose the identity its    *)
(* voter joined with; only clearing the browser's data does.               *)
THEOREM IdentityKept == Spec => []JoinedIdentityKept
<1>1. Init => KeptInv
  BY DEF Init, Closed, Free, Busy, Pending, KeptInv
<1>2. KeptInv => JoinedIdentityKept
  BY DEF KeptInv, JoinedIdentityKept
<1> QED
  BY <1>1, <1>2, TypeInit, TypeStep, KeptStep, PTL DEF Spec

-----------------------------------------------------------------------------
(* The order of the ballots and what a tab reports. *)

(* The ballot of a version is the event at its place. *)
Counted(t, version) ==
  version + 1 \in DOMAIN ballots /\ ballots[version + 1].choice = tab[t].choice

InOrder ==
  /\ \A i \in DOMAIN ballots : ballots[i].version = i - 1 /\ ballots[i].id = joinedAs
  /\ saved.version <= Len(ballots)
  /\ \A t \in Tabs : tab[t].version <= Len(ballots)
  /\ \A s \in Slots : Pending(s) => txs[s].call.version <= Len(ballots)

(* A tab waits for its own ballot, and a confirmed one is on the chain.    *)
Answered(t) ==
  /\ tab[t].pc = "voteWait" =>
       LET x == txs[tab[t].tx] IN
       /\ x.status = "pending" =>
            /\ x.call.kind = "vote" /\ x.call.version = tab[t].version
            /\ x.call.choice = tab[t].choice
       /\ x.status = "mined" => Counted(t, tab[t].version)
  /\ tab[t].pc = "verifying" => Counted(t, tab[t].version)
  /\ tab[t].pc = "done" => Counted(t, tab[t].version - 1)

BallotInv == InOrder /\ \A t \in Tabs : Answered(t)

(* A tab that does not move waits on, whatever happens to other slots.     *)
LEMMA StillAnswered ==
  ASSUME NEW t \in Tabs, Answered(t), UNCHANGED ballots,
         tab'[t].pc = tab[t].pc, tab'[t].version = tab[t].version,
         tab'[t].choice = tab[t].choice, tab'[t].tx = tab[t].tx,
         tab[t].pc = "voteWait" => txs'[tab[t].tx] = txs[tab[t].tx]
  PROVE  Answered(t)'
BY DEF Answered, Counted

(* A step of tab t that leaves the transactions alone. *)
LEMMA OrderAlone ==
  ASSUME TypeInv, BallotInv, NEW t \in Tabs, OnlyTab(t),
         UNCHANGED <<joinedAs, ballots, txs>>,
         tab'[t].version <= Len(ballots), saved'.version <= Len(ballots), Answered(t)'
  PROVE  BallotInv'
<1>1. InOrder'
  BY DEF InOrder, OnlyTab, Pending, BallotInv
<1>2. ASSUME NEW u \in Tabs \ {t} PROVE Answered(u)'
  BY <1>2, StillAnswered DEF OnlyTab, BallotInv
<1> QED
  BY <1>1, <1>2 DEF BallotInv

(* A tab sends a call: the slot it takes is nobody's. *)
LEMMA OrderSent ==
  ASSUME TypeInv, BallotInv, NEW t \in Tabs, NEW s \in Slots, NEW call \in Submitted,
         OnlyTab(t), SentIn(s, call), call.version \in {0, tab[t].version},
         tab'[t].version <= Len(ballots), Answered(t)'
  PROVE  BallotInv'
<1>1. UNCHANGED <<joinedAs, ballots, saved>>
  BY DEF SentIn, chain, browser
<1>2. /\ \A r \in Slots \ {s} : txs'[r] = txs[r]
      /\ txs'[s].call = call
  BY Sending DEF TypeInv
<1>3. InOrder'
  <2>1. call.version <= Len(ballots) /\ Len(ballots) \in Nat
    BY DEF BallotInv, InOrder, TypeInv, TypeOK
  <2> QED
    BY <1>1, <1>2, <2>1 DEF InOrder, OnlyTab, Pending, BallotInv
<1>4. ASSUME NEW u \in Tabs \ {t} PROVE Answered(u)'
  <2>1. tab[u].pc = "voteWait" => tab[u].tx \in Slots \ {s}
    BY DEF TypeInv, TypeOK, TabStates, Waiting, SentIn, Reusable
  <2> QED
    BY <1>1, <1>2, <2>1, StillAnswered DEF OnlyTab, BallotInv
<1> QED
  BY <1>3, <1>4 DEF BallotInv

LEMMA OrderTab ==
  ASSUME TypeInv, BallotInv, NEW t \in Tabs, TabStep(t)
  PROVE  BallotInv'
<1>0. /\ TypeOK /\ Answered(t)
      /\ tab[t].pc \in Busy => tab[t].id \in Identities /\ tab[t].version \in Versions
      /\ tab[t].version \in Nat /\ tab[t].version <= Len(ballots)
      /\ saved.version \in Nat /\ saved.version <= Len(ballots) /\ Len(ballots) \in Nat
  BY DEF TypeInv, TypeOK, TabStates, Stored, BusyOK, BallotInv, InOrder
<1>1. CASE Checking(t)
  <2>1. OnlyTab(t) /\ SameCall(t) /\ UNCHANGED <<joinedAs, ballots, txs, saved>>
    BY <1>0, <1>1, CheckingStep DEF chain, browser
  <2>2. Answered(t)'
    BY <1>0, <2>1, StillAnswered DEF SameCall
  <2> QED
    BY <1>0, <2>1, <2>2, OrderAlone DEF SameCall
<1>2. CASE Leaves(t)
  <2>1. Left(t) /\ UNCHANGED <<joinedAs, ballots, txs, saved>>
    BY <1>0, <1>2, LeavingStep DEF chain, browser
  <2>2. Answered(t)'
    BY <2>1 DEF Left, Answered
  <2> QED
    BY <1>0, <2>1, <2>2, OrderAlone DEF Left
<1>3. CASE Starts(t)
  <2>1. StartedOn(t) /\ UNCHANGED <<joinedAs, ballots, txs>> /\ saved'.version = saved.version
    BY <1>0, <1>3, StartingStep DEF chain, TypeOK, Stored
  <2>2. Answered(t)'
    BY <2>1 DEF StartedOn, Answered
  <2> QED
    BY <1>0, <2>1, <2>2, OrderAlone DEF StartedOn
<1>4. CASE SubmitJoin(t)
  <2>1. tab[t].pc = "joining" /\ Submit(t, Join(t), "joinWait")
    BY <1>4 DEF SubmitJoin, At
  <2>2. PICK s \in Slots : SentIn(s, Join(t)) /\ Advanced(t, tab[t].pc, "joinWait")
    BY <1>0, <2>1, Submitting DEF Waiting
  <2>3. Answered(t)'
    BY <2>2 DEF Advanced, Answered
  <2> QED
    BY <1>0, <2>1, <2>2, <2>3, JoinType, OrderSent DEF Advanced, Busy
<1>5. CASE SubmitVote(t)
  <2>1. tab[t].pc = "proving" /\ Submit(t, Vote(t), "voteWait")
    BY <1>5 DEF SubmitVote, At
  <2>2. /\ Vote(t) \in Submitted /\ Vote(t).kind = "vote"
        /\ Vote(t).version = tab[t].version /\ Vote(t).choice = tab[t].choice
    BY <1>0, <2>1, VoteType DEF Busy
  <2>3. PICK s \in Slots : SentIn(s, Vote(t)) /\ Advanced(t, tab[t].pc, "voteWait")
                           /\ tab'[t].tx = s
    BY <1>0, <2>1, Submitting DEF Waiting
  <2>4. Answered(t)'
    <3>1. txs'[s].status = "pending" /\ txs'[s].call = Vote(t)
      BY <1>0, <2>2, <2>3, Sending
    <3> QED
      BY <2>2, <2>3, <3>1 DEF Advanced, Answered
  <2> QED
    BY <1>0, <2>2, <2>3, <2>4, OrderSent DEF Advanced
<1>6. CASE AnswerLost(t)
  <2>1. ASSUME NEW call \in Submitted, call.version \in {0, tab[t].version},
               SubmitLost(t, call)
        PROVE  BallotInv'
    <3>1. PICK s \in Slots : SentIn(s, call)
      BY <1>0, <2>1, Losing
    <3>2. Left(t)
      BY <1>0, <2>1, Losing
    <3>3. Answered(t)'
      BY <3>2 DEF Left, Answered
    <3> QED
      BY <1>0, <2>1, <3>1, <3>2, <3>3, OrderSent DEF Left
  <2>2. CASE At(t, "joining") /\ SubmitLost(t, Join(t))
    BY <1>0, <2>1, <2>2, JoinType DEF At, Busy
  <2>3. CASE At(t, "proving") /\ SubmitLost(t, Vote(t))
    BY <1>0, <2>1, <2>3, VoteType DEF At, Busy
  <2> QED
    BY <1>6, <2>2, <2>3 DEF AnswerLost
<1>7. ASSUME NEW from, NEW to, Advanced(t, from, to), UNCHANGED <<chain, txs, browser>>,
             Answered(t)'
      PROVE  BallotInv'
  BY <1>0, <1>7, OrderAlone DEF Advanced, chain, browser
<1>8. CASE ConfirmJoin(t)
  <2>1. Advanced(t, "joinWait", "fetching") /\ UNCHANGED <<chain, txs, browser>>
    BY <1>0, <1>8, ConfirmingJoin DEF ConfirmJoin
  <2> QED
    BY <1>7, <2>1 DEF Advanced, Answered
<1>9. CASE FetchGroup(t)
  <2>1. Advanced(t, "fetching", "proving") /\ UNCHANGED <<chain, txs, browser>>
    BY <1>0, <1>9, Fetching DEF FetchGroup
  <2> QED
    BY <1>7, <2>1 DEF Advanced, Answered
<1>10. CASE ConfirmVote(t)
  <2>1. Advanced(t, "voteWait", "verifying") /\ UNCHANGED <<chain, txs, browser>>
    BY <1>0, <1>10, ConfirmingVote DEF ConfirmVote
  <2>2. Counted(t, tab[t].version)
    BY <1>0, <1>10 DEF ConfirmVote, Confirmed, At, Answered
  <2>3. Answered(t)'
    BY <2>1, <2>2 DEF Advanced, Answered, Counted, chain
  <2> QED
    BY <1>7, <2>1, <2>3
<1>11. CASE Save(t)
  <2>1. /\ OnlyTab(t) /\ UNCHANGED <<joinedAs, ballots, txs>>
        /\ tab[t].pc = "verifying" /\ tab'[t].pc = "done" /\ tab'[t].choice = tab[t].choice
        /\ tab'[t].version = tab[t].version + 1 /\ saved'.version = tab[t].version + 1
    BY <1>0, <1>11, Saving DEF Save, chain
  <2>2. Counted(t, tab[t].version) /\ tab[t].version + 1 <= Len(ballots)
    BY <1>0, <2>1 DEF Answered, Counted, TypeOK
  <2>3. Answered(t)'
    BY <1>0, <2>1, <2>2 DEF Answered, Counted
  <2> QED
    BY <2>1, <2>2, <2>3, OrderAlone
<1> QED
  BY <1>1, <1>2, <1>3, <1>4, <1>5, <1>6, <1>8, <1>9, <1>10, <1>11 DEF TabStep

(* A ballot is mined only with the next version, since all smaller ones    *)
(* are spent and no call is ahead.                                         *)
LEMMA NextIsMined ==
  ASSUME TypeInv, BallotInv, NEW s \in Slots, Pending(s), Valid(txs[s].call),
         txs[s].call.kind # "join"
  PROVE  /\ txs[s].call.kind = "vote" /\ txs[s].call.id = joinedAs
         /\ txs[s].call.version = Len(ballots)
<1>1. txs[s].call.version \in Nat /\ txs[s].call.version <= Len(ballots)
      /\ ballots \in Seq(Ballots)
  BY ClientAssumption DEF TypeInv, TypeOK, Pending, TxStates, Submitted, Versions, BallotInv, InOrder
<1>2. \A i \in DOMAIN ballots : i - 1 # txs[s].call.version
  BY DEF Valid, Spent, BallotInv, InOrder
<1>3. txs[s].call.version + 1 \notin DOMAIN ballots
  BY <1>1, <1>2
<1> QED
  BY <1>1, <1>3 DEF Valid

LEMMA OrderMined ==
  ASSUME TypeInv, BallotInv, NEW s \in Slots, Mine(s)
  PROVE  BallotInv'
<1> DEFINE x == txs[s].call
           b == [id |-> x.id, version |-> x.version, choice |-> x.choice]
<1>0. /\ TypeOK /\ Pending(s) /\ UNCHANGED <<saved, tab>> /\ ballots \in Seq(Ballots)
      /\ x \in Submitted
      /\ \A t \in Tabs : tab[t].pc = "voteWait" => tab[t].tx \in Slots
  BY DEF TypeInv, TypeOK, Mine, browser, Pending, TxStates, TabStates, Waiting
<1>1. PICK status \in {"mined", "reverted"} :
        Settle(s, status) /\ (status = "mined" => Valid(x))
  BY DEF Mine
<1>2. /\ \A r \in Slots \ {s} : txs'[r] = txs[r]
      /\ txs'[s].status \in {status, "settled"}
      /\ \A r \in Slots : Pending(r)' => Pending(r) /\ txs'[r] = txs[r]
  BY <1>0, <1>1, Settling DEF Pending
<1>3. CASE Valid(x) /\ x.kind # "join"
  <2>1. /\ x.version = Len(ballots) /\ x.id = joinedAs /\ joinedAs' = joinedAs
        /\ ballots' = Append(ballots, b) /\ b \in Ballots
    BY <1>0, <1>3, NextIsMined DEF Mine, Submitted, Ballots
  <2>2. /\ Len(ballots') = Len(ballots) + 1 /\ Len(ballots) \in Nat
        /\ DOMAIN ballots' = 1 .. Len(ballots) + 1
        /\ \A i \in DOMAIN ballots : ballots'[i] = ballots[i] /\ i \in DOMAIN ballots'
        /\ ballots'[Len(ballots) + 1] = b
    BY <1>0, <2>1
  <2>3. InOrder'
    <3>1. \A i \in DOMAIN ballots' : ballots'[i].version = i - 1 /\ ballots'[i].id = joinedAs'
      <4>1. ASSUME NEW i \in DOMAIN ballots', i # Len(ballots) + 1
            PROVE  ballots'[i].version = i - 1 /\ ballots'[i].id = joinedAs'
        <5>1. i \in DOMAIN ballots
          BY <1>0, <2>2, <4>1
        <5> QED
          BY <2>1, <2>2, <5>1 DEF BallotInv, InOrder
      <4> QED
        BY <2>1, <2>2, <4>1
    <3>2. /\ saved'.version <= Len(ballots') /\ \A t \in Tabs : tab'[t].version <= Len(ballots')
      BY <1>0, <2>2 DEF BallotInv, InOrder, TypeOK, Stored, TabStates
    <3>3. \A r \in Slots : Pending(r)' => txs'[r].call.version <= Len(ballots')
      <4>1. ASSUME NEW r \in Slots, Pending(r) PROVE txs[r].call.version \in Nat
        BY <1>0, <4>1, ClientAssumption DEF TypeOK, Pending, TxStates, Submitted, Versions
      <4> QED
        BY <1>2, <2>2, <4>1 DEF BallotInv, InOrder
    <3> QED
      BY <3>1, <3>2, <3>3 DEF InOrder
  <2>4. ASSUME NEW t \in Tabs PROVE Answered(t)'
    <3>1. \A v : Counted(t, v) => Counted(t, v)'
      BY <1>0, <2>2 DEF Counted
    <3>2. CASE tab[t].pc = "voteWait" /\ tab[t].tx = s
      <4>1. x.version = tab[t].version /\ x.choice = tab[t].choice
        BY <1>0, <3>2 DEF BallotInv, Answered, Pending
      <4>2. Counted(t, tab[t].version)'
        BY <1>0, <2>1, <2>2, <4>1 DEF Counted
      <4>3. txs'[s].status # "pending"
        BY <1>1, <1>2
      <4> QED
        BY <1>0, <3>2, <4>2, <4>3 DEF Answered
    <3>3. CASE ~(tab[t].pc = "voteWait" /\ tab[t].tx = s)
      <4>1. tab[t].pc = "voteWait" => txs'[tab[t].tx] = txs[tab[t].tx]
        BY <1>0, <1>2, <3>3
      <4>2. Answered(t)
        BY DEF BallotInv
      <4> QED
        BY <1>0, <3>1, <4>1, <4>2 DEF Answered
    <3> QED
      BY <3>2, <3>3
  <2> QED
    BY <2>3, <2>4 DEF BallotInv
<1>4. CASE ~(Valid(x) /\ x.kind # "join")
  <2>1. ballots' = ballots /\ (joinedAs' = joinedAs \/ joinedAs = None)
    BY <1>4 DEF Mine, Valid
  <2>2. joinedAs = None => DOMAIN ballots = {}
    <3>1. ASSUME NEW i \in DOMAIN ballots
          PROVE  ballots[i].id \in Identities /\ ballots[i].id = joinedAs
      <4>1. ballots[i] \in Ballots
        BY <1>0
      <4> QED
        BY <4>1 DEF Ballots, BallotInv, InOrder
    <3> QED
      BY <3>1, ClientAssumption
  <2>3. InOrder'
    BY <1>0, <1>2, <2>1, <2>2 DEF BallotInv, InOrder
  <2>4. ASSUME NEW t \in Tabs PROVE Answered(t)'
    <3>1. CASE tab[t].pc = "voteWait" /\ tab[t].tx = s
      <4>1. x.kind = "vote"
        BY <1>0, <3>1 DEF BallotInv, Answered, Pending
      <4>2. status = "reverted"
        BY <1>1, <1>4, <4>1
      <4>3. txs'[s].status \notin {"pending", "mined"}
        BY <1>2, <4>2
      <4> QED
        BY <1>0, <3>1, <4>3 DEF Answered
    <3>2. CASE ~(tab[t].pc = "voteWait" /\ tab[t].tx = s)
      <4>1. tab[t].pc = "voteWait" => txs'[tab[t].tx] = txs[tab[t].tx]
        BY <1>0, <1>2, <3>2
      <4> QED
        BY <1>0, <2>1, <4>1, StillAnswered DEF BallotInv
    <3> QED
      BY <3>1, <3>2
  <2> QED
    BY <2>3, <2>4 DEF BallotInv
<1> QED
  BY <1>3, <1>4

LEMMA OrderStep == TypeInv /\ BallotInv /\ [Next]_vars => BallotInv'
<1> SUFFICES ASSUME TypeInv, BallotInv, [Next]_vars PROVE BallotInv'
  OBVIOUS
<1>1. ASSUME NEW s \in Slots, Drop(s) PROVE BallotInv'
  <2>0. TypeOK /\ Pending(s) /\ UNCHANGED <<joinedAs, ballots, saved, tab>>
        /\ Settle(s, "dropped")
    BY <1>1 DEF TypeInv, Drop, chain, browser
  <2>1. /\ \A r \in Slots \ {s} : txs'[r] = txs[r]
        /\ txs'[s].status \in {"dropped", "settled"}
    BY <2>0, Settling
  <2>2. InOrder'
    BY <2>0, <2>1 DEF BallotInv, InOrder, Pending
  <2>3. ASSUME NEW t \in Tabs PROVE Answered(t)'
    <3>1. tab[t].pc = "voteWait" => tab[t].tx \in Slots
      BY <2>0 DEF TypeOK, TabStates, Waiting
    <3>2. CASE tab[t].pc = "voteWait" /\ tab[t].tx = s
      BY <2>0, <2>1, <3>2 DEF Answered
    <3>3. CASE ~(tab[t].pc = "voteWait" /\ tab[t].tx = s)
      BY <2>0, <2>1, <3>1, <3>3, StillAnswered DEF BallotInv
    <3> QED
      BY <3>2, <3>3
  <2> QED
    BY <2>2, <2>3 DEF BallotInv
<1>2. CASE OtherJoins \/ VotingCloses \/ Clear \/ UNCHANGED vars
  <2>1. UNCHANGED <<joinedAs, ballots, txs, tab>> /\ saved'.version \in {saved.version, 0}
    BY <1>2 DEF OtherJoins, VotingCloses, Clear, vars, chain, browser
  <2>2. InOrder'
    BY <2>1 DEF BallotInv, InOrder, Pending, TypeInv, TypeOK
  <2>3. \A t \in Tabs : Answered(t)'
    BY <2>1, StillAnswered DEF BallotInv
  <2> QED
    BY <2>2, <2>3 DEF BallotInv
<1> QED
  BY <1>1, <1>2, OrderTab, OrderMined, Steps

LEMMA OrderInit == Init => BallotInv
BY DEF Init, Closed, Free, Pending, BallotInv, InOrder, Answered

(* The ballots of one voter reach the chain with the versions 0, 1, 2 ...  *)
(* and neither a tab nor the storage is ever ahead of the chain.           *)
THEOREM BallotsInOrder == Spec => []VersionsInOrder
<1>1. BallotInv => VersionsInOrder
  BY DEF BallotInv, InOrder, VersionsInOrder
<1> QED
  BY <1>1, TypeInit, TypeStep, OrderInit, OrderStep, PTL DEF Spec

(* A tab that reports a ballot as submitted is right: it is on the chain,  *)
(* under the voter's identity, with this tab's version and choice.         *)
THEOREM ReportedIsCounted == Spec => []DoneMeansCounted
<1>1. TypeInv /\ BallotInv => DoneMeansCounted
  <2> SUFFICES ASSUME TypeInv, BallotInv, NEW t \in Tabs, At(t, "done")
               PROVE  [id |-> joinedAs, version |-> tab[t].version - 1, choice |-> tab[t].choice]
                        \in {ballots[i] : i \in DOMAIN ballots}
    BY DEF DoneMeansCounted
  <2> DEFINE i == tab[t].version
  <2>1. i \in DOMAIN ballots /\ ballots[i].choice = tab[t].choice
    <3>1. Counted(t, i - 1) /\ i \in Nat
      BY DEF BallotInv, Answered, At, TypeInv, TypeOK, TabStates
    <3> QED
      BY <3>1 DEF Counted
  <2>2. ballots[i].version = i - 1 /\ ballots[i].id = joinedAs /\ ballots[i] \in Ballots
    BY <2>1 DEF BallotInv, InOrder, TypeInv, TypeOK
  <2>3. ballots[i] = [id |-> joinedAs, version |-> i - 1, choice |-> tab[t].choice]
    BY <2>1, <2>2 DEF Ballots
  <2> QED
    BY <2>1, <2>3
<1> QED
  BY <1>1, TypeInit, TypeStep, OrderInit, OrderStep, PTL DEF Spec

-----------------------------------------------------------------------------
(* The version in the storage. *)

(* The ballot of this tab is on the chain, and not yet counted in the      *)
(* versions of the tab and the storage.                                    *)
Unsaved(t) ==
  \/ tab[t].pc = "verifying"
  \/ tab[t].pc = "voteWait" /\ txs[tab[t].tx].status = "mined"

OwnSlots == \A t, u \in Tabs : tab[t].tx # None /\ tab[t].tx = tab[u].tx => t = u

(* As long as a ballot is unsaved, nothing can become the next one: every  *)
(* tab, the storage and the transactions under way have smaller versions.  *)
Latest(t) ==
  /\ Len(ballots) = tab[t].version + 1
  /\ saved.version <= tab[t].version
  /\ \A u \in Tabs : tab[u].version <= tab[t].version /\ (Unsaved(u) => u = t)
  /\ \A s \in Slots : Pending(s) => txs[s].call.version <= tab[t].version

UnsavedInv == OwnSlots /\ \A t \in Tabs : Unsaved(t) => Latest(t)

(* A step that adds no ballot and no version. *)
LEMMA LatestKept ==
  ASSUME TypeInv, UnsavedInv, UNCHANGED ballots,
         \A u \in Tabs : /\ Unsaved(u)' => Unsaved(u) /\ tab'[u].version = tab[u].version
                         /\ tab'[u].version \in {tab[u].version, saved.version, 0},
         saved'.version \in {saved.version, 0},
         \A s \in Slots : Pending(s)' =>
           \/ Pending(s) /\ txs'[s] = txs[s]
           \/ \E u \in Tabs : txs'[s].call.version \in {0, tab[u].version},
         OwnSlots'
  PROVE  UnsavedInv'
<1> SUFFICES ASSUME NEW t \in Tabs, Unsaved(t)' PROVE Latest(t)'
  BY DEF UnsavedInv
<1>1. Latest(t) /\ tab'[t].version = tab[t].version /\ tab[t].version \in Nat
  BY DEF UnsavedInv, TypeInv, TypeOK, TabStates
<1>2. \A s \in Slots : Pending(s)' => txs'[s].call.version <= tab[t].version
  BY <1>1 DEF Latest
<1> QED
  BY <1>1, <1>2 DEF Latest

(* A step of tab t that leaves the transactions alone.                     *)
LEMMA LatestAlone ==
  ASSUME TypeInv, UnsavedInv, NEW t \in Tabs, OnlyTab(t), UNCHANGED <<ballots, txs>>,
         Unsaved(t)' => Unsaved(t) /\ tab'[t].version = tab[t].version,
         tab'[t].version \in {tab[t].version, saved.version, 0},
         saved'.version \in {saved.version, 0},
         tab'[t].tx \in {None, tab[t].tx}
  PROVE  UnsavedInv'
<1>1. OwnSlots'
  BY DEF OnlyTab, UnsavedInv, OwnSlots
<1>2. \A u \in Tabs : /\ Unsaved(u)' => Unsaved(u) /\ tab'[u].version = tab[u].version
                      /\ tab'[u].version \in {tab[u].version, saved.version, 0}
  BY DEF OnlyTab, Unsaved
<1>3. \A s \in Slots : Pending(s)' => Pending(s) /\ txs'[s] = txs[s]
  BY DEF Pending
<1> QED
  BY <1>1, <1>2, <1>3, LatestKept

LEMMA LatestSent ==
  ASSUME TypeInv, UnsavedInv, NEW t \in Tabs, NEW s \in Slots, NEW call \in Submitted,
         OnlyTab(t), SentIn(s, call), call.version \in {0, tab[t].version},
         tab'[t].version \in {tab[t].version, saved.version, 0},
         tab'[t].pc # "verifying", tab'[t].tx \in {None, s},
         tab'[t].pc = "voteWait" => tab'[t].tx = s
  PROVE  UnsavedInv'
<1>1. UNCHANGED <<ballots, saved>>
  BY DEF SentIn, chain, browser
<1>2. /\ \A r \in Slots \ {s} : txs'[r] = txs[r]
      /\ txs'[s].status = "pending" /\ txs'[s].call = call
  BY Sending DEF TypeInv
<1>3. \A u \in Tabs : tab[u].tx # s
  BY DEF SentIn, Reusable
<1>4. OwnSlots'
  BY <1>3 DEF OnlyTab, UnsavedInv, OwnSlots
<1>5. ASSUME NEW u \in Tabs
      PROVE  /\ Unsaved(u)' => Unsaved(u) /\ tab'[u].version = tab[u].version
             /\ tab'[u].version \in {tab[u].version, saved.version, 0}
  <2>1. CASE u = t
    BY <1>2, <2>1 DEF Unsaved
  <2>2. CASE u # t
    <3>1. tab'[u] = tab[u] /\ (tab[u].pc = "voteWait" => tab[u].tx \in Slots \ {s})
      BY <1>3, <2>2 DEF OnlyTab, TypeInv, TypeOK, TabStates, Waiting
    <3> QED
      BY <1>2, <3>1 DEF Unsaved
  <2> QED
    BY <2>1, <2>2
<1>6. \A r \in Slots : Pending(r)' =>
        \/ Pending(r) /\ txs'[r] = txs[r]
        \/ \E u \in Tabs : txs'[r].call.version \in {0, tab[u].version}
  BY <1>2 DEF Pending
<1> QED
  BY <1>1, <1>4, <1>5, <1>6, LatestKept

LEMMA LatestTab ==
  ASSUME TypeInv, BallotInv, UnsavedInv, NEW t \in Tabs, TabStep(t)
  PROVE  UnsavedInv'
<1>0. /\ TypeOK /\ tab[t].version \in Nat /\ saved.version \in Nat
      /\ tab[t].pc \in Busy => tab[t].id \in Identities /\ tab[t].version \in Versions
      /\ tab[t].pc \in Waiting <=> tab[t].tx # None
  BY DEF TypeInv, TypeOK, TabStates, Stored, BusyOK
<1>1. CASE Checking(t)
  <2>1. OnlyTab(t) /\ SameCall(t) /\ UNCHANGED <<ballots, txs, saved>>
    BY <1>0, <1>1, CheckingStep DEF chain, browser
  <2> QED
    BY <2>1, LatestAlone DEF SameCall, Unsaved
<1>2. CASE Leaves(t)
  <2>1. Left(t) /\ UNCHANGED <<ballots, txs, saved>>
    BY <1>0, <1>2, LeavingStep DEF chain, browser
  <2> QED
    BY <2>1, LatestAlone DEF Left, Unsaved
<1>3. CASE Starts(t)
  <2>1. StartedOn(t) /\ UNCHANGED <<ballots, txs>> /\ saved'.version = saved.version
    BY <1>0, <1>3, StartingStep DEF chain, TypeOK, Stored
  <2> QED
    BY <2>1, LatestAlone DEF StartedOn, Unsaved
<1>4. CASE SubmitJoin(t)
  <2>1. tab[t].pc = "joining" /\ Submit(t, Join(t), "joinWait")
    BY <1>4 DEF SubmitJoin, At
  <2>2. PICK s \in Slots : /\ SentIn(s, Join(t)) /\ Advanced(t, tab[t].pc, "joinWait")
                           /\ tab'[t].tx = s
    BY <1>0, <2>1, Submitting DEF Waiting
  <2> QED
    BY <1>0, <2>1, <2>2, JoinType, LatestSent DEF Advanced, Busy
<1>5. CASE SubmitVote(t)
  <2>1. tab[t].pc = "proving" /\ Submit(t, Vote(t), "voteWait")
    BY <1>5 DEF SubmitVote, At
  <2>2. PICK s \in Slots : /\ SentIn(s, Vote(t)) /\ Advanced(t, tab[t].pc, "voteWait")
                           /\ tab'[t].tx = s
    BY <1>0, <2>1, Submitting DEF Waiting
  <2> QED
    BY <1>0, <2>1, <2>2, VoteType, LatestSent DEF Advanced, Busy
<1>6. CASE AnswerLost(t)
  <2>1. ASSUME NEW call \in Submitted, call.version \in {0, tab[t].version},
               SubmitLost(t, call)
        PROVE  UnsavedInv'
    <3>1. PICK s \in Slots : SentIn(s, call)
      BY <1>0, <2>1, Losing
    <3>2. Left(t)
      BY <1>0, <2>1, Losing
    <3> QED
      BY <2>1, <3>1, <3>2, LatestSent DEF Left
  <2>2. CASE At(t, "joining") /\ SubmitLost(t, Join(t))
    BY <1>0, <2>1, <2>2, JoinType DEF At, Busy
  <2>3. CASE At(t, "proving") /\ SubmitLost(t, Vote(t))
    BY <1>0, <2>1, <2>3, VoteType DEF At, Busy
  <2> QED
    BY <1>6, <2>2, <2>3 DEF AnswerLost
<1>7. ASSUME NEW from, NEW to, Advanced(t, from, to), UNCHANGED <<chain, txs, browser>>,
             tab'[t].tx \in {None, tab[t].tx}, Unsaved(t)' => Unsaved(t)
      PROVE  UnsavedInv'
  BY <1>7, LatestAlone DEF Advanced, chain, browser
<1>8. CASE ConfirmJoin(t)
  <2>1. /\ Advanced(t, "joinWait", "fetching") /\ UNCHANGED <<chain, txs, browser>>
        /\ tab'[t].tx = None
    BY <1>0, <1>8, ConfirmingJoin DEF ConfirmJoin
  <2> QED
    BY <1>7, <2>1 DEF Advanced, Unsaved
<1>9. CASE FetchGroup(t)
  <2>1. /\ Advanced(t, "fetching", "proving") /\ UNCHANGED <<chain, txs, browser>>
        /\ tab'[t].tx = tab[t].tx
    BY <1>0, <1>9, Fetching DEF FetchGroup
  <2> QED
    BY <1>7, <2>1 DEF Advanced, Unsaved
<1>10. CASE ConfirmVote(t)
  <2>1. /\ Advanced(t, "voteWait", "verifying") /\ UNCHANGED <<chain, txs, browser>>
        /\ tab'[t].tx = None
    BY <1>0, <1>10, ConfirmingVote DEF ConfirmVote
  <2>2. Unsaved(t)
    BY <1>10 DEF ConfirmVote, Confirmed, At, Unsaved
  <2> QED
    BY <1>7, <2>1, <2>2
<1>11. CASE Save(t)
  <2>1. /\ OnlyTab(t) /\ UNCHANGED <<ballots, txs>>
        /\ tab[t].pc = "verifying" /\ tab'[t].pc = "done" /\ tab'[t].tx = tab[t].tx
    BY <1>0, <1>11, Saving DEF Save, chain
  <2>2. OwnSlots'
    BY <2>1 DEF OnlyTab, UnsavedInv, OwnSlots
  <2>3. ASSUME NEW u \in Tabs, Unsaved(u)' PROVE FALSE
    <3>1. u # t
      BY <2>1, <2>3 DEF Unsaved
    <3>2. Unsaved(u) /\ Unsaved(t)
      BY <2>1, <2>3, <3>1 DEF Unsaved, OnlyTab
    <3> QED
      BY <3>1, <3>2 DEF UnsavedInv, Latest
  <2> QED
    BY <2>2, <2>3 DEF UnsavedInv
<1> QED
  BY <1>1, <1>2, <1>3, <1>4, <1>5, <1>6, <1>8, <1>9, <1>10, <1>11 DEF TabStep

LEMMA LatestMined ==
  ASSUME TypeInv, BallotInv, UnsavedInv, NEW s \in Slots, Mine(s)
  PROVE  UnsavedInv'
<1> DEFINE x == txs[s].call
<1>0. /\ TypeOK /\ Pending(s) /\ UNCHANGED <<saved, tab>> /\ ballots \in Seq(Ballots)
      /\ x.version \in Nat /\ saved.version \in Nat
      /\ \A t \in Tabs : /\ tab[t].pc = "voteWait" => tab[t].tx \in Slots
                        /\ tab[t].version \in Nat
  BY ClientAssumption DEF TypeInv, TypeOK, Mine, browser, Pending, TxStates, TabStates,
     Submitted, Versions, Waiting, Stored
<1>1. PICK status \in {"mined", "reverted"} :
        Settle(s, status) /\ (status = "mined" => Valid(x))
  BY DEF Mine
<1>2. /\ \A r \in Slots \ {s} : txs'[r] = txs[r]
      /\ txs'[s].status \in {status, "settled"}
      /\ \A r \in Slots : Pending(r)' => Pending(r) /\ txs'[r] = txs[r]
  BY <1>0, <1>1, Settling DEF Pending
<1>3. OwnSlots'
  BY <1>0 DEF UnsavedInv, OwnSlots
<1>4. CASE Valid(x) /\ x.kind # "join"
  <2>1. x.version = Len(ballots) /\ Len(ballots') = Len(ballots) + 1 /\ Len(ballots) \in Nat
    BY <1>0, <1>4, NextIsMined DEF Mine
  <2>2. \A t \in Tabs : ~Unsaved(t)
    <3> SUFFICES ASSUME NEW t \in Tabs, Unsaved(t) PROVE FALSE
      OBVIOUS
    <3>1. x.version <= tab[t].version /\ Len(ballots) = tab[t].version + 1
      BY <1>0 DEF UnsavedInv, Latest
    <3> QED
      BY <1>0, <2>1, <3>1
  <2>3. ASSUME NEW t \in Tabs, Unsaved(t)' PROVE tab[t].pc = "voteWait" /\ tab[t].tx = s
    BY <1>0, <1>2, <2>2, <2>3 DEF Unsaved
  <2>4. ASSUME NEW t \in Tabs, Unsaved(t)' PROVE Latest(t)'
    <3>1. tab[t].version = Len(ballots)
      BY <1>0, <2>1, <2>3, <2>4 DEF BallotInv, Answered, Pending
    <3>2. \A u \in Tabs : Unsaved(u)' => u = t
      BY <2>3, <2>4, ClientAssumption DEF UnsavedInv, OwnSlots
    <3>3. /\ saved.version <= Len(ballots)
          /\ \A u \in Tabs : tab[u].version <= Len(ballots)
          /\ \A r \in Slots : Pending(r)' => txs'[r].call.version <= Len(ballots)
      BY <1>2 DEF BallotInv, InOrder
    <3> QED
      BY <1>0, <2>1, <3>1, <3>2, <3>3 DEF Latest
  <2> QED
    BY <1>3, <2>4 DEF UnsavedInv
<1>5. CASE ~(Valid(x) /\ x.kind # "join")
  <2>1. ballots' = ballots
    BY <1>5 DEF Mine
  <2>2. ASSUME NEW t \in Tabs, Unsaved(t)' PROVE Unsaved(t)
    <3>1. CASE tab[t].pc = "voteWait" /\ tab[t].tx = s
      <4>1. x.kind = "vote"
        BY <1>0, <3>1 DEF BallotInv, Answered, Pending
      <4>2. status = "reverted"
        BY <1>1, <1>5, <4>1
      <4> QED
        BY <1>0, <1>2, <2>2, <3>1, <4>2 DEF Unsaved
    <3>2. CASE ~(tab[t].pc = "voteWait" /\ tab[t].tx = s)
      BY <1>0, <1>2, <2>2, <3>2 DEF Unsaved
    <3> QED
      BY <3>1, <3>2
  <2> QED
    BY <1>0, <1>2, <1>3, <2>1, <2>2, LatestKept
<1> QED
  BY <1>4, <1>5

LEMMA LatestStep == TypeInv /\ BallotInv /\ UnsavedInv /\ [Next]_vars => UnsavedInv'
<1> SUFFICES ASSUME TypeInv, BallotInv, UnsavedInv, [Next]_vars PROVE UnsavedInv'
  OBVIOUS
<1>1. ASSUME NEW s \in Slots, Drop(s) PROVE UnsavedInv'
  <2>0. TypeOK /\ Pending(s) /\ UNCHANGED <<ballots, saved, tab>> /\ Settle(s, "dropped")
    BY <1>1 DEF TypeInv, Drop, chain, browser
  <2>1. /\ \A r \in Slots \ {s} : txs'[r] = txs[r]
        /\ txs'[s].status \in {"dropped", "settled"}
    BY <2>0, Settling
  <2>2. \A r \in Slots : Pending(r)' => Pending(r) /\ txs'[r] = txs[r]
    BY <2>1 DEF Pending
  <2>3. \A t \in Tabs : tab[t].pc = "voteWait" => tab[t].tx \in Slots
    BY <2>0 DEF TypeOK, TabStates, Waiting
  <2>4. \A t \in Tabs : Unsaved(t)' => Unsaved(t)
    BY <2>0, <2>1, <2>3 DEF Unsaved
  <2>5. OwnSlots'
    BY <2>0 DEF UnsavedInv, OwnSlots
  <2> QED
    BY <2>0, <2>2, <2>4, <2>5, LatestKept
<1>2. CASE OtherJoins \/ VotingCloses \/ Clear \/ UNCHANGED vars
  <2>1. UNCHANGED <<ballots, txs, tab>> /\ saved'.version \in {saved.version, 0}
    BY <1>2 DEF OtherJoins, VotingCloses, Clear, vars, chain, browser
  <2>2. OwnSlots' /\ \A t \in Tabs : Unsaved(t)' => Unsaved(t)
    BY <2>1 DEF UnsavedInv, OwnSlots, Unsaved
  <2>3. \A s \in Slots : Pending(s)' => Pending(s) /\ txs'[s] = txs[s]
    BY <2>1 DEF Pending
  <2> QED
    BY <2>1, <2>2, <2>3, LatestKept
<1> QED
  BY <1>1, <1>2, LatestTab, LatestMined, Steps

(* The version in the storage only grows, whichever tab saves and whenever *)
(* it does, unless the browser's data is cleared.                          *)
THEOREM SavedVersionForward == Spec => SavedVersionGrows
<1>1. Init => UnsavedInv
  BY DEF Init, Closed, UnsavedInv, OwnSlots, Unsaved
<1>2. TypeInv /\ UnsavedInv /\ [Next]_vars =>
        [saved'.version < saved.version => clears' # clears]_vars
  <2> SUFFICES ASSUME TypeInv, UnsavedInv, [Next]_vars, clears' = clears
               PROVE  ~(saved'.version < saved.version)
    OBVIOUS
  <2>0. TypeOK /\ saved.version \in Nat
    BY DEF TypeInv, TypeOK, Stored
  <2>1. ASSUME NEW t \in Tabs, TabStep(t), saved'.version # saved.version PROVE Save(t)
    <3>1. ~Starts(t)
      BY <2>0, <2>1, StartingStep DEF TypeOK, Stored
    <3> QED
      BY <2>0, <2>1, <3>1, CheckingStep, LeavingStep
      DEF TabStep, browser, SubmitJoin, SubmitVote, Submit, AnswerLost, SubmitLost,
          ConfirmJoin, FetchGroup, ConfirmVote
  <2>2. ASSUME NEW t \in Tabs, Save(t) PROVE ~(saved'.version < saved.version)
    <3>1. /\ tab[t].pc = "verifying" /\ tab[t].version \in Nat
          /\ saved'.version = tab[t].version + 1
      BY <2>0, <2>2, Saving
    <3>2. saved.version <= tab[t].version
      BY <3>1 DEF UnsavedInv, Unsaved, Latest
    <3> QED
      BY <2>0, <3>1, <3>2
  <2>3. ~Clear
    BY <2>0 DEF Clear, TypeOK
  <2>4. ASSUME (\E s \in Slots : Mine(s) \/ Drop(s)) \/ OtherJoins \/ VotingCloses
                 \/ UNCHANGED vars
        PROVE  saved' = saved
    BY <2>4 DEF Mine, Drop, OtherJoins, VotingCloses, vars, browser
  <2> QED
    BY <2>0, <2>1, <2>2, <2>3, <2>4, Steps
<1> QED
  BY <1>1, <1>2, TypeInit, TypeStep, OrderInit, OrderStep, LatestStep, PTL
  DEF Spec, SavedVersionGrows
=============================================================================
