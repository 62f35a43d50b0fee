-------------------------- MODULE ElectionCreation --------------------------
(***************************************************************************)
(* Creating and listing elections, apps/web-app/src/app/page.tsx: the page *)
(* of one creator, whose form is module ElectionForm, and the factory on   *)
(* chain, module SpectreVotingFactory.                                     *)
(*                                                                         *)
(* createElection awaits the fee, the wallet, the receipt, and for an      *)
(* election under a committee the wallet and the receipt again; it works   *)
(* on the form as it was at the click.  The page shows the New button all  *)
(* the time, and pressing it twice resets the form while a creation runs,  *)
(* so two can overlap.  The page may be closed or reloaded at any time:    *)
(* what is stored in the browser stays, and so do transactions under way.  *)
(*                                                                         *)
(* Abstractions: the wallet stays connected with one account; the key and  *)
(* the invite codes (or the allowlist) drawn by a creation are its number; *)
(* deadlines count from the click; the modals show a copy of the codes     *)
(* that are stored.                                                        *)
(*                                                                         *)
(* Definitions Slip_X are described in module SpectreVoting.               *)
(***************************************************************************)
EXTENDS ElectionForm, SpectreVotingFactory

CONSTANTS
  Creator,   \* the account of the page's wallet
  MaxFlows,  \* bound on the creations started on the page
  MaxOthers  \* bound on the elections others create

ASSUME CreatorAssumption == Creator \in Accounts /\ Members \subseteq Accounts
ASSUME FlowAssumption ==
  /\ {MaxFlows, MaxOthers, MaxElections} \subseteq Nat
  /\ MaxElections >= MaxFlows + MaxOthers
  /\ None \notin Nat

VARIABLES
  showCreate,  \* the wizard is shown
  flows,       \* the creations
  store        \* what the browser stores under an election's address

page == <<showCreate, flows, store>>
creationVars == <<formVars, factoryVars, page>>

Flows == 1..MaxFlows

FlowStates ==
  [pc : {"idle", "fee", "wallet", "pending", "reverted", "mined", "setup",
         "setupPending", "setupMined", "listing", "done"},
   running : BOOLEAN,               \* the handler of the page still waits
   offer : Offers \cup {None},
   value : Fees \cup {None},        \* what is attached: the fee read
   election : 0..MaxElections]

CreationInit ==
  /\ FormInit /\ FactoryInit
  /\ showCreate = FALSE
  /\ flows = [f \in Flows |-> [pc |-> "idle", running |-> FALSE, offer |-> None,
                              value |-> None, election |-> 0]]
  /\ store = [e \in 1..MaxElections |-> None]

At(f, label) == flows[f].pc = label
Awaits(f, label) == At(f, label) /\ flows[f].running
Goto(f, label) == flows' = [flows EXCEPT ![f].pc = label]

-----------------------------------------------------------------------------
(* The form on the page. *)

UseWizard ==
  /\ showCreate /\ Wizard
  /\ UNCHANGED <<factoryVars, page>>

TokenLookedUp == TokenAnswers /\ UNCHANGED <<factoryVars, page>>

(* handleNewClick *)
NewClick ==
  /\ IF showCreate THEN RESET ELSE UNCHANGED formVars
  /\ showCreate' = ~showCreate
  /\ UNCHANGED <<factoryVars, flows, store>>

-----------------------------------------------------------------------------
(* createElection *)

(* The deadline of the vote starts from that of the signup; 0 is none. *)
Deadlines(f) ==
  <<f.signupHours, IF f.votingHours > 0 THEN f.signupHours + f.votingHours ELSE 0>>

Listed(f) == f.gateType \in {"invite-codes", "allowlist"}

(* What creation n sends: a single key or a committee, and the metadata. *)
Offer(n, f) ==
  [key |-> IF f.encryptionMode = "single" THEN n ELSE None,
   numOptions |-> f.numOptions,
   signupDeadline |-> Deadlines(f)[1], votingDeadline |-> Deadlines(f)[2],
   selfSignup |-> selfSignup(f), gateType |-> f.gateType,
   gasless |-> effectiveGasless(f),
   codes |-> IF Listed(f) THEN n ELSE None,
   tokenAddress |-> f.tokenAddress, tokenInfo |-> f.tokenInfo,
   committee |-> IF f.encryptionMode = "single" THEN NoCommittee
                 ELSE [threshold |-> f.threshold, members |-> validCommitteeMembers(f)]]

(* Committees whose threshold their valid members cannot reach are refused,*)
(* and leave the form as it was.                                           *)
Slip_Reachable == TRUE
Reachable == InCommittee => form.threshold <= Len(validCommitteeMembers(form))

CreateClick(f) ==
  /\ showCreate /\ form.currentStep = 3 /\ canCreate /\ Reachable
  /\ At(f, "idle") /\ \A g \in 1 .. f - 1 : ~At(g, "idle")
  /\ form' = [form EXCEPT !.creating = TRUE]
  /\ flows' = [flows EXCEPT ![f].pc = "fee", ![f].running = TRUE,
                            ![f].offer = Offer(f, form)]
  /\ UNCHANGED <<lookups, edits, factoryVars, showCreate, store>>

ReadFee(f) ==
  /\ Awaits(f, "fee")
  /\ flows' = [flows EXCEPT ![f].pc = "wallet", ![f].value = creationFee]
  /\ UNCHANGED <<formVars, factoryVars, showCreate, store>>

Approve(f) ==
  /\ \/ Awaits(f, "wallet") /\ Goto(f, "pending")
     \/ Awaits(f, "setup") /\ Goto(f, "setupPending")
  /\ UNCHANGED <<formVars, factoryVars, showCreate, store>>

(* The chain does not care whether the page still waits. *)
Mine(f) ==
  /\ At(f, "pending")
  /\ IF Deployable(flows[f].value, flows[f].offer)
     THEN /\ createElection(Creator, flows[f].value, flows[f].offer)
          /\ flows' = [flows EXCEPT ![f].pc = "mined", ![f].election = Len(elections')]
     ELSE Goto(f, "reverted") /\ UNCHANGED factoryVars
  /\ UNCHANGED <<formVars, showCreate, store>>

(* The election's address, from the event in the receipt. *)
Slip_Deployed(f) == Len(elections)
Deployed(f) == flows[f].election

(* Metadata, codes and key are stored; an election with one key is now     *)
(* announced, the others need their committee.                             *)
Receipt(f) ==
  /\ Awaits(f, "mined")
  /\ store' = [store EXCEPT ![Deployed(f)] = flows[f].offer]
  /\ IF flows[f].offer.committee = NoCommittee
     THEN Goto(f, "listing") /\ showCreate' = FALSE
     ELSE Goto(f, "setup") /\ UNCHANGED showCreate
  /\ UNCHANGED <<formVars, factoryVars>>

(* setupCommittee of the contract, refused once the signup is over. *)
MineSetup(f) ==
  /\ At(f, "setupPending")
  /\ \/ /\ elections[flows[f].election].committee = NoCommittee
        /\ elections' = [elections EXCEPT ![flows[f].election].committee =
                                              flows[f].offer.committee]
        /\ Goto(f, "setupMined")
     \/ /\ flows[f].offer.signupDeadline # 0
        /\ Goto(f, "reverted") /\ UNCHANGED elections
  /\ UNCHANGED <<formVars, creationFee, balance, withdrawn, charged,
                 showCreate, store>>

Slip_Confirmed(f) == flows[f].pc \in {"setupPending", "setupMined"}
Confirmed(f) == At(f, "setupMined")

Announce(f) ==
  /\ flows[f].running /\ Confirmed(f)
  /\ Goto(f, "listing") /\ showCreate' = FALSE
  /\ UNCHANGED <<formVars, factoryVars, store>>

(* Any awaited call may fail, the wait for a receipt also when the         *)
(* transaction is still to be mined; the creation is over either way.      *)
Slip_Over == form
Over == [form EXCEPT !.creating = FALSE]

Fail(f) ==
  /\ flows[f].running
  /\ flows[f].pc \in {"fee", "wallet", "pending", "reverted", "setup", "setupPending"}
  /\ flows' = [flows EXCEPT ![f].running = FALSE]
  /\ form' = Over
  /\ UNCHANGED <<lookups, edits, factoryVars, showCreate, store>>

-----------------------------------------------------------------------------
(* loadElections: at the end of a creation, which then is over, and on     *)
(* arrival or demand, when it changes nothing but what is shown.           *)

EndLoad(f) ==
  /\ Awaits(f, "listing")
  /\ flows' = [flows EXCEPT ![f].pc = "done", ![f].running = FALSE]
  /\ form' = Over
  /\ UNCHANGED <<lookups, edits, factoryVars, showCreate, store>>

(* The metadata names every gate but the two that need no data of their    *)
(* own; the list then shows an empty one.                                  *)
GateWritten(offer) ==
  IF offer.gateType \in {"open", "admin-only"} THEN None ELSE offer.gateType

(* The metadata of an election: from its event, else from the browser. *)
GateShown(e, logsRead) ==
  CASE logsRead         -> GateWritten(elections[e].offer)
    [] store[e] # None  -> GateWritten(store[e])
    [] OTHER            -> None

Slip_PageRead(total) == getElections(IF total = 0 THEN 0 ELSE 1, total)
PageRead(total) == getElections(0, total)

(* What a load shows that has read the number of elections earlier: those  *)
(* that cannot be read are left out, the others come newest first.         *)
Shown(total, broken, logsRead) ==
  LET read == PageRead(total)
      addresses == Reverse(Subsequence(read, {i \in DOMAIN read : read[i] \notin broken}))
  IN [i \in DOMAIN addresses |->
        [election |-> addresses[i], gateType |-> GateShown(addresses[i], logsRead)]]

-----------------------------------------------------------------------------
(* The page is closed or reloaded; other users; the owner of the factory. *)

Reload ==
  /\ form' = initialState /\ lookups' = {} /\ showCreate' = FALSE
  /\ flows' = [f \in Flows |-> [flows[f] EXCEPT !.running = FALSE]]
  /\ UNCHANGED <<edits, factoryVars, store>>

OthersElections == {e \in DOMAIN elections : elections[e].admin # Creator}

OtherCreates ==
  /\ Cardinality(OthersElections) < MaxOthers
  /\ \E a \in Accounts \ {Creator} : createElection(a, creationFee, Offer(0, initialState))
  /\ UNCHANGED <<formVars, page>>

OwnerActs ==
  /\ \/ balance > 0 /\ withdraw(Owner)
     \/ \E fee \in Fees \ {creationFee} : setCreationFee(Owner, fee)
  /\ UNCHANGED <<formVars, page>>

PageStep(f) ==
  \/ ReadFee(f) \/ Approve(f) \/ Receipt(f) \/ Announce(f) \/ Fail(f)
  \/ EndLoad(f)

CreationNext ==
  \/ UseWizard \/ TokenLookedUp \/ NewClick
  \/ \E f \in Flows : CreateClick(f) \/ PageStep(f) \/ Mine(f) \/ MineSetup(f)
  \/ Reload \/ OtherCreates \/ OwnerActs

(* The wallet is answered, calls end, and the chain takes transactions in. *)
Fairness == \A f \in Flows :
  /\ WF_creationVars(PageStep(f))
  /\ WF_creationVars(Mine(f)) /\ WF_creationVars(MineSetup(f))

CreationSpec == CreationInit /\ [][CreationNext]_creationVars /\ Fairness

-----------------------------------------------------------------------------
(* The types of the state of the page, its form and the factory. *)
TypeOK ==
  /\ FormTypeOK /\ FactoryTypeOK
  /\ showCreate \in BOOLEAN
  /\ flows \in [Flows -> FlowStates]
  /\ store \in [1..MaxElections -> Offers \cup {None}]

(* What the browser stores under an election's address, its key, its codes *)
(* and its metadata, belongs to that election and to no other, however the *)
(* creations on the page overlap and others create elections in between.   *)
StoredUnderOwnElection == \A e \in DOMAIN store : store[e] # None =>
  /\ isElection(e) /\ elections[e].admin = Creator
  /\ store[e] = elections[e].offer

(* An election that the page announces as created is complete: registered  *)
(* with its creator as the admin, with its key and codes in the browser,   *)
(* or with the committee that its metadata names.                          *)
AnnouncedComplete == \A f \in Flows :
  flows[f].pc \in {"listing", "done"} =>
    LET e == flows[f].election
    IN /\ isElection(e) /\ elections[e].admin = Creator
       /\ store[e] = flows[f].offer
       /\ elections[e].committee = elections[e].offer.committee

(* The parts of an election's parameters agree, whatever was edited before *)
(* in the form and left there: it has a key or a committee, the threshold  *)
(* is between 2 and the number of the committee's slots, as setupCommittee *)
(* demands, voting ends after the signup, and relayed signup goes with the *)
(* gates that need it and not with a wallet's.  Slots are not people: form,*)
(* page and contract let two of them hold one address, and such a committee*)
(* is never finalized (SignupEventuallyCloses, module SpectreVoting).      *)
OffersConsistent == \A e \in DOMAIN elections :
  LET o == elections[e].offer
  IN /\ o.numOptions >= 2
     /\ (o.key = None) = (o.committee # NoCommittee)
     /\ o.committee = NoCommittee \/ o.committee.threshold \in 2 .. Len(o.committee.members)
     /\ elections[e].committee \in {NoCommittee, o.committee}
     /\ o.votingDeadline # 0 => o.votingDeadline > o.signupDeadline
     /\ o.gateType \in GaslessGates => o.gasless
     /\ o.gateType = "token-gate" => ~o.gasless /\ o.tokenAddress # None

(* Whenever the page asked for the number of elections, and however many  *)
(* were registered before it read them: a load in which no call fails      *)
(* shows each of those it counted once, newest first, with the gate that   *)
(* its own metadata names; without the logs, a gate it shows is still that *)
(* one.                                                                    *)
ListingComplete == \A total \in 0 .. Len(elections) :
  LET shown == Shown(total, {}, TRUE)
      unread == Shown(total, {}, FALSE)
  IN /\ Len(shown) = total /\ Len(unread) = total
     /\ \A i \in 1..total :
          /\ shown[i].election = total + 1 - i
          /\ shown[i].gateType = GateWritten(elections[total + 1 - i].offer)
          /\ unread[i].gateType \in {shown[i].gateType, None}

(* The form is released: no creation, however it ends, leaves it disabled. *)
CreatingEnds == form.creating ~> ~form.creating
=============================================================================
