---------------------------- MODULE VoterClient ----------------------------
(***************************************************************************)
(* One voter's election page during the voting phase,                      *)
(* apps/web-app/src/app/election/[address]/page.tsx, with lib/relayer.ts   *)
(* and the relay's anonJoin and castVote.                                  *)
(*                                                                         *)
(* The page may be open in several tabs.  A tab has React state of its own *)
(* and all tabs share the browser's storage.  handleJoinAndVote is         *)
(* asynchronous, and so is checkJoinStatus; each action is the code        *)
(* between two awaits.  A submitted transaction is mined, reverts or       *)
(* disappears, whether or not a tab still waits for it.                    *)
(*                                                                         *)
(* Abstractions: a proof is named by what it proves and the size of the    *)
(* group it was made against, since groups only grow; the contract is its  *)
(* guards for this voter's transactions (module SpectreVoting has all of   *)
(* it), other voters only join.  With a wallet the submission and the      *)
(* confirmation are the wallet's, with the relay they are its pre-checks,  *)
(* its broadcast and waitForRelayTx: the same outcomes are possible.  The  *)
(* browser keeps one account throughout: on a change of account the page   *)
(* loads the other account's identity and weight, but keeps the version it *)
(* has when the other has stored none (page.tsx, line 183).                *)
(*                                                                         *)
(* Definitions Slip_X are described in module SpectreVoting.               *)
(***************************************************************************)
EXTENDS Naturals, Sequences

CONSTANTS
  Tabs,           \* browser tabs
  Identities,     \* voting identities the page may create
  Choices,        \* options of the election
  Weights,        \* weights the signup may have answered
  MaxOverwrites,  \* MAX_OVERWRITES; the circuit accepts the versions up to it
  MaxOthers,      \* bound on the joins of other voters
  MaxClears,      \* bound on clearing the browser's data
  Slots,          \* transactions that can be under way at once
  None            \* no identity, or no transaction

ASSUME ClientAssumption ==
  /\ MaxOverwrites \in Nat /\ MaxOthers \in Nat /\ MaxClears \in Nat
  /\ Slots \subseteq Nat /\ None \notin Identities \cup Slots
  /\ Choices # {}
  /\ Weights \subseteq {1, 2}

VARIABLES
  votingOpen,  \* of the contract
  joinedAs,    \* the identity our voter's join registered, or None
  others,      \* how many other voters have joined
  ballots,     \* our voter's VoteCast events
  txs,         \* the transactions in each slot
  saved,       \* the browser's storage
  created,     \* voting identities created so far
  clears,      \* how often the storage was cleared
  tab          \* the React state of each tab

chain   == <<votingOpen, joinedAs, others, ballots>>
browser == <<saved, created, clears>>
vars    == <<chain, txs, browser, tab>>

Versions  == 0 .. MaxOverwrites
Submitted == [kind : {"join", "vote"}, id : Identities, version : Versions,
              choice : Choices, seen : Nat]
TxStates  == [status : {"settled", "mined", "reverted", "dropped"}]
               \cup [status : {"pending"}, call : Submitted]
Ballots   == [id : Identities, version : Versions, choice : Choices]
Waiting   == {"joinWait", "voteWait"}
Labels    == {"closed", "idle", "joining", "fetching", "proving", "verifying", "done"}
               \cup Waiting
Stored    == [onRoll : BOOLEAN, weight : {1, 2}, id : Identities \cup {None}, version : Nat]
Checks    == [step : {"due", "asked", "found", "missing"}, id : Identities \cup {None}]
TabStates == [pc : Labels, onRoll : BOOLEAN, weight : {1, 2}, version : Nat,
              join : {"unknown", "joined", "not-joined"},
              checks : SUBSET Checks,
              id : Identities \cup {None}, choice : Choices, seen : Nat,
              tx : Slots \cup {None}]

AnyChoice == CHOOSE choice \in Choices : TRUE
Closed == [pc |-> "closed", onRoll |-> FALSE, weight |-> 1, version |-> 0,
           join |-> "unknown", checks |-> {}, id |-> None,
           choice |-> AnyChoice, seen |-> 0, tx |-> None]
Free == [status |-> "settled"]

(* The voter has signed up; voting has begun. *)
Init ==
  /\ votingOpen = TRUE /\ joinedAs = None /\ others = 0 /\ ballots = <<>>
  /\ txs = [s \in Slots |-> Free]
  /\ saved \in {[onRoll |-> TRUE, weight |-> w, id |-> None, version |-> 0] : w \in Weights}
  /\ created = {} /\ clears = 0
  /\ tab = [t \in Tabs |-> Closed]

At(t, label) == tab[t].pc = label

(* The end of a call of handleJoinAndVote: its local variables are gone.   *)
Ended(t, label) == [tab EXCEPT ![t].pc = label, ![t].id = None, ![t].seen = 0,
                               ![t].choice = AnyChoice, ![t].tx = None]

-----------------------------------------------------------------------------
(* The contract and the transactions on their way to it. *)

GroupSize == others + (IF joinedAs = None THEN 0 ELSE 1)

(* The leaf of the voting group is the identity with weight 1. *)
InVotingGroup(t, id) == id # None /\ id = joinedAs /\ tab[t].weight = 1

Spent(version) == \E i \in DOMAIN ballots : ballots[i].version = version

Valid(x) ==
  /\ votingOpen
  /\ \/ x.kind = "join" /\ joinedAs = None
     \/ x.kind = "vote" /\ x.id = joinedAs /\ x.seen = GroupSize /\ ~Spent(x.version)

Pending(s) == txs[s].status = "pending"
Reusable(s) == ~Pending(s) /\ \A t \in Tabs : tab[t].tx # s

Broadcast(s, x) ==
  /\ Reusable(s) /\ \A r \in Slots : r < s => ~Reusable(r)
  /\ txs' = [txs EXCEPT ![s] = [status |-> "pending", call |-> x]]

Settle(s, status) ==
  txs' = [txs EXCEPT ![s] = IF \E t \in Tabs : tab[t].tx = s
                              THEN [status |-> status] ELSE Free]

Mine(s) ==
  /\ Pending(s)
  /\ LET x == txs[s].call IN
     IF Valid(x)
       THEN /\ Settle(s, "mined")
            /\ IF x.kind = "join"
                 THEN joinedAs' = x.id /\ UNCHANGED ballots
                 ELSE /\ ballots' = Append(ballots, [id |-> x.id, version |-> x.version,
                                                     choice |-> x.choice])
                      /\ UNCHANGED joinedAs
       ELSE Settle(s, "reverted") /\ UNCHANGED <<joinedAs, ballots>>
  /\ UNCHANGED <<votingOpen, others, browser, tab>>

Drop(s) == Pending(s) /\ Settle(s, "dropped") /\ UNCHANGED <<chain, browser, tab>>

OtherJoins ==
  /\ votingOpen /\ others < MaxOthers
  /\ others' = others + 1
  /\ UNCHANGED <<votingOpen, joinedAs, ballots, txs, browser, tab>>

VotingCloses ==
  /\ votingOpen /\ votingOpen' = FALSE
  /\ UNCHANGED <<joinedAs, others, ballots, txs, browser, tab>>

-----------------------------------------------------------------------------
(* A tab is opened, reloaded or closed, and asks whether its voter joined. *)

(* The effects of the page's first rendering: what the storage holds is    *)
(* loaded, and after that the join status is due.                          *)
Due == [step |-> "due", id |-> None]

Open(t) ==
  /\ votingOpen
  /\ tab' = [tab EXCEPT ![t] =
               [Closed EXCEPT !.pc = "idle", !.onRoll = saved.onRoll, !.weight = saved.weight,
                                 !.version = saved.version, !.checks = {Due}]]
  /\ UNCHANGED <<chain, txs, browser>>

(* Also a crash of the browser. *)
Close(t) ==
  /\ ~At(t, "closed")
  /\ tab' = [tab EXCEPT ![t] = Closed]
  /\ UNCHANGED <<chain, txs, browser>>

(* checkJoinStatus, once refresh has loaded the election: it looks for the *)
(* stored voting identity, and without one the answer is immediate.        *)
CheckStarts(t) ==
  /\ Due \in tab[t].checks
  /\ tab' = IF saved.id = None
              THEN [tab EXCEPT ![t].checks = @ \ {Due}, ![t].join = "not-joined"]
              ELSE [tab EXCEPT ![t].checks = (@ \ {Due}) \cup {[step |-> "asked", id |-> saved.id]},
                               ![t].join = "unknown"]
  /\ UNCHANGED <<chain, txs, browser>>

CheckReads(t) ==
  /\ \E check \in tab[t].checks :
       /\ check.step = "asked"
       /\ LET answer == IF InVotingGroup(t, check.id) THEN "found" ELSE "missing"
          IN tab' = [tab EXCEPT ![t].checks =
                       (@ \ {check}) \cup {[step |-> answer, id |-> None]}]
  /\ UNCHANGED <<chain, txs, browser>>

CheckAnswers(t) ==
  /\ \E check \in tab[t].checks :
       /\ check.step \in {"found", "missing"}
       /\ tab' = [tab EXCEPT ![t].checks = @ \ {check},
                             ![t].join = IF check.step = "found" THEN "joined" ELSE "not-joined"]
  /\ UNCHANGED <<chain, txs, browser>>

(* refresh fails, or the group cannot be read. *)
CheckFails(t) ==
  /\ \E check \in tab[t].checks :
       /\ check.step \in {"due", "asked"}
       /\ tab' = [tab EXCEPT ![t].checks = @ \ {check},
                             ![t].join = IF check = Due THEN @ ELSE "unknown"]
  /\ UNCHANGED <<chain, txs, browser>>

(* The voter clears the browser's data.  Her signup identity comes back    *)
(* from the wallet or the recovery code, or another one takes its place.   *)
Clear ==
  /\ clears < MaxClears
  /\ clears' = clears + 1
  /\ \E back \in BOOLEAN :
       saved' = [onRoll |-> saved.onRoll /\ back, weight |-> 1, id |-> None, version |-> 0]
  /\ UNCHANGED <<chain, txs, created, tab>>

-----------------------------------------------------------------------------
(* handleJoinAndVote. *)

CanOverwrite(t) == tab[t].version <= MaxOverwrites

MayClick(t) == tab[t].pc \in {"idle", "done"} /\ CanOverwrite(t)

Slip_NeedsJoin(t) == TRUE
NeedsJoin(t) == tab[t].join # "joined"

Slip_CreatesIdentity == TRUE
CreatesIdentity == saved.id = None

Started(t, id, choice, label) ==
  tab' = [tab EXCEPT ![t].pc = label, ![t].id = id, ![t].choice = choice]

ClickToJoin(t, choice) ==
  /\ MayClick(t) /\ NeedsJoin(t)
  /\ IF CreatesIdentity
       THEN \E id \in Identities \ created :
              /\ created' = created \cup {id}
              /\ saved' = [saved EXCEPT !.id = id]
              /\ Started(t, id, choice, "joining")
       ELSE Started(t, saved.id, choice, "joining") /\ UNCHANGED <<saved, created>>
  /\ UNCHANGED <<chain, txs, clears>>

ClickToVote(t, choice) ==
  /\ MayClick(t) /\ ~NeedsJoin(t)
  /\ IF saved.id = None THEN tab' = Ended(t, "idle")
                        ELSE Started(t, saved.id, choice, "fetching")
  /\ UNCHANGED <<chain, txs, browser>>

(* The leaf the page looks for in the signup group. *)
Registered(t) == tab[t].onRoll /\ tab[t].weight = 1

Join(t) == [kind |-> "join", id |-> tab[t].id, version |-> 0,
            choice |-> AnyChoice, seen |-> 0]
Vote(t) == [kind |-> "vote", id |-> tab[t].id, version |-> tab[t].version,
            choice |-> tab[t].choice, seen |-> tab[t].seen]

(* The call is estimated on the current state of the chain, then broadcast.*)
(* The relay's answer with the hash of the transaction may be lost.        *)
Submit(t, call, label) ==
  \E s \in Slots :
    /\ Valid(call)
    /\ Broadcast(s, call)
    /\ tab' = [tab EXCEPT ![t].pc = label, ![t].tx = s]
    /\ UNCHANGED <<chain, browser>>

SubmitLost(t, call) ==
  \E s \in Slots :
    /\ Valid(call)
    /\ Broadcast(s, call)
    /\ tab' = Ended(t, "idle")
    /\ UNCHANGED <<chain, browser>>

SubmitJoin(t) == At(t, "joining") /\ Registered(t) /\ Submit(t, Join(t), "joinWait")

(* After the confirmation the page waits some seconds with the relay and   *)
(* then fetches the voting group.                                          *)
ConfirmJoin(t) ==
  /\ At(t, "joinWait") /\ txs[tab[t].tx].status = "mined"
  /\ tab' = [tab EXCEPT ![t].pc = "fetching", ![t].join = "joined", ![t].tx = None]
  /\ UNCHANGED <<chain, txs, browser>>

FetchGroup(t) ==
  /\ At(t, "fetching") /\ InVotingGroup(t, tab[t].id)
  /\ tab' = [tab EXCEPT ![t].pc = "proving", ![t].seen = GroupSize]
  /\ UNCHANGED <<chain, txs, browser>>

SubmitVote(t) == At(t, "proving") /\ Submit(t, Vote(t), "voteWait")

Slip_ConfirmedEarly(t) == txs[tab[t].tx].status \in {"pending", "mined"}
Slip_ConfirmedUnchecked(t) == txs[tab[t].tx].status \in {"reverted", "mined"}
Confirmed(t) == txs[tab[t].tx].status = "mined"

ConfirmVote(t) ==
  /\ At(t, "voteWait") /\ Confirmed(t)
  /\ tab' = [tab EXCEPT ![t].pc = "verifying", ![t].tx = None]
  /\ UNCHANGED <<chain, txs, browser>>

(* The event has been looked up (or not found); the version is counted up, *)
(* stored, and the page refreshed.                                         *)
Slip_NextVersion(t) == MaxOverwrites - tab[t].version  \* the changes remaining
NextVersion(t) == tab[t].version + 1

Save(t) ==
  /\ At(t, "verifying")
  /\ saved' = [saved EXCEPT !.version = NextVersion(t)]
  /\ tab' = [tab EXCEPT ![t].pc = "done", ![t].id = None, ![t].seen = 0,
                        ![t].version = NextVersion(t), ![t].checks = @ \cup {Due}]
  /\ UNCHANGED <<chain, txs, created, clears>>

(* "Change your vote" brings the options back. *)
Again(t) ==
  /\ At(t, "done") /\ CanOverwrite(t)
  /\ tab' = Ended(t, "idle")
  /\ UNCHANGED <<chain, txs, browser>>

(* Anything that throws ends in an error message and "Try Again": a failed *)
(* reading or proof, a leaf that is not found, a refused submission, a     *)
(* revert, a timeout.                                                      *)
Fails(t) ==
  /\ tab[t].pc \in {"joining", "fetching", "proving"} \cup Waiting
  /\ tab' = Ended(t, "idle")
  /\ UNCHANGED <<chain, txs, browser>>

AnswerLost(t) ==
  \/ At(t, "joining") /\ Registered(t) /\ SubmitLost(t, Join(t))
  \/ At(t, "proving") /\ SubmitLost(t, Vote(t))

-----------------------------------------------------------------------------
HandleVote(t) ==
  \/ SubmitJoin(t) \/ ConfirmJoin(t) \/ FetchGroup(t)
  \/ SubmitVote(t) \/ ConfirmVote(t) \/ Save(t)

Next ==
  \/ \E t \in Tabs :
       \/ Open(t) \/ Close(t)
       \/ CheckStarts(t) \/ CheckReads(t) \/ CheckAnswers(t) \/ CheckFails(t)
       \/ \E choice \in Choices : ClickToJoin(t, choice) \/ ClickToVote(t, choice)
       \/ HandleVote(t) \/ Again(t) \/ Fails(t) \/ AnswerLost(t)
  \/ \E s \in Slots : Mine(s) \/ Drop(s)
  \/ OtherJoins \/ VotingCloses \/ Clear

Spec == Init /\ [][Next]_vars

(* The voter keeps trying: again and again she reloads the page, lets it   *)
(* find out whether she joined, and clicks; and no reading, submission or  *)
(* transaction that could succeed infinitely often fails every time.       *)
(* Nothing limits how often they fail before.                              *)
Persistence(t) ==
  /\ SF_vars(Open(t))
  /\ SF_vars(At(t, "idle") /\ CheckStarts(t))
  /\ SF_vars(At(t, "idle") /\ CheckReads(t))
  /\ SF_vars(At(t, "idle") /\ CheckAnswers(t) /\ tab'[t].join = "joined")
  /\ SF_vars(\E choice \in Choices : ClickToJoin(t, choice))
  /\ SF_vars(\E choice \in Choices : ClickToVote(t, choice))
  /\ SF_vars(SubmitJoin(t)) /\ SF_vars(FetchGroup(t)) /\ SF_vars(SubmitVote(t))

Fairness ==
  /\ \A t \in Tabs : Persistence(t)
  /\ \A s \in Slots : SF_vars(Mine(s))

FairSpec == Spec /\ Fairness

-----------------------------------------------------------------------------
(* Properties. *)

(* The chain, the storage and the tabs hold values of their types, calls   *)
(* have versions the circuit accepts, and a tab that waits for a           *)
(* transaction has one.                                                    *)
TypeOK ==
  /\ votingOpen \in BOOLEAN /\ joinedAs \in created \cup {None} /\ others \in 0 .. MaxOthers
  /\ ballots \in Seq(Ballots) /\ txs \in [Slots -> TxStates]
  /\ saved \in Stored /\ saved.id \in created \cup {None}
  /\ created \subseteq Identities /\ clears \in 0 .. MaxClears
  /\ tab \in [Tabs -> TabStates]
  /\ \A t \in Tabs : tab[t].pc \in Waiting <=> tab[t].tx # None

(* However tabs interleave, crash and time out, the voter's ballots reach  *)
(* the chain with the versions 0, 1, 2, ...: none is skipped, so none of   *)
(* her overwrites is wasted, and no tab and no stored version is ahead, as *)
(* long as her browser stays with one account.                             *)
VersionsInOrder ==
  /\ \A i \in DOMAIN ballots : ballots[i].version = i - 1
  /\ saved.version <= Len(ballots)
  /\ \A t \in Tabs : tab[t].version <= Len(ballots)

(* What a tab reports as submitted is on the chain: under its identity,    *)
(* with the choice the voter made in this tab.                             *)
DoneMeansCounted ==
  \A t \in Tabs : At(t, "done") =>
    [id |-> joinedAs, version |-> tab[t].version - 1, choice |-> tab[t].choice]
      \in {ballots[i] : i \in DOMAIN ballots}

(* The voting identity that joined is the only one this voter can vote     *)
(* with.  It is in the storage before it is on the chain and is never      *)
(* replaced: no tab, retry or crash loses it, only clearing the browser's  *)
(* data does.                                                              *)
JoinedIdentityKept ==
  joinedAs # None /\ clears = 0 => saved.id = joinedAs

(* The stored version never goes back, whichever tab saves last.           *)
SavedVersionGrows == [][saved'.version < saved.version => clears' # clears]_vars

(* A voter who is on the roll and keeps trying gets a ballot counted,      *)
(* whatever attempts timed out, reverted or were lost, as long as voting   *)
(* stays open and her browser keeps its data.                              *)
BallotEventuallyCast ==
  <>(\/ Len(ballots) > 0 \/ ~votingOpen \/ clears > 0
     \/ saved.weight # 1)

(* "You've already voted. You can change your vote ... changes remaining"  *)
(* (VotingSection.tsx:81-82): who reads this can still cast the ballot     *)
(* that her next version stands for.                                       *)
ChangesRemainingReal ==
  \A t \in Tabs :
    At(t, "idle") /\ tab[t].version > 0 /\ CanOverwrite(t) => ~Spent(tab[t].version)
=============================================================================
