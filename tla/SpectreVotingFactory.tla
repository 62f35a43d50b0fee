------------------------ MODULE SpectreVotingFactory ------------------------
(***************************************************************************)
(* The election factory,                                                   *)
(* apps/contracts/contracts/SpectreVotingFactory.sol: anyone deploys an    *)
(* election for a fee, and the factory keeps the registry.                 *)
(*                                                                         *)
(* One transaction is one action.  A caller attaches the fee it has read;  *)
(* the owner may have changed it by the time the transaction is mined.     *)
(*                                                                         *)
(* Abstractions: an election's address is its place in the registry, so    *)
(* isElection holds of the places in use; the election's constructor       *)
(* arguments and the metadata of its ElectionDeployed event are one record,*)
(* its "offer".  A caller whose refund fails has its transaction reverted, *)
(* like one that attaches too little.  An election's own state is in module*)
(* SpectreVoting, but for the committee, which the page that creates the   *)
(* election sets up.                                                       *)
(*                                                                         *)
(* Definitions Slip_X are described in module SpectreVoting.               *)
(***************************************************************************)
EXTENDS Integers, Sequences

CONSTANTS
  Accounts,      \* wallets
  Owner,         \* the account that deployed the factory
  DefaultFee,    \* the fee of a new factory
  Fees,          \* fees the owner may set, and amounts a caller may attach
  Offers,        \* constructor arguments and metadata of elections
  MaxElections   \* bound on the length of the registry

ASSUME OwnerAssumption == Owner \in Accounts
ASSUME FeeAssumption == Fees \subseteq Nat /\ DefaultFee \in Fees

VARIABLES
  creationFee,
  elections,  \* every election deployed, with its admin, offer and committee
  balance,    \* of the factory
  withdrawn,  \* history: what the owner has taken out
  charged     \* history: the sum of the fees in force at each deployment

factoryVars == <<creationFee, elections, balance, withdrawn, charged>>

FactoryInit ==
  /\ creationFee = DefaultFee
  /\ elections = <<>>
  /\ balance = 0 /\ withdrawn = 0 /\ charged = 0

isElection(e) == e \in DOMAIN elections

(* The committee of an election: none at first. *)
Committees == [threshold : Nat, members : Seq(Accounts)]
NoCommittee == [threshold |-> 0, members |-> <<>>]

-----------------------------------------------------------------------------
(* What a caller who attaches value gets back. *)
Slip_Refund(value) == 0
Refund(value) == IF value > creationFee THEN value - creationFee ELSE 0

Enough(value) == value >= creationFee

(* The constructor of the election refuses fewer than two options. *)
Deployable(value, offer) == Enough(value) /\ offer.numOptions >= 2

createElection(sender, value, offer) ==
  /\ Len(elections) < MaxElections
  /\ Deployable(value, offer)
  /\ elections' = Append(elections, [admin |-> sender, offer |-> offer, committee |-> NoCommittee])
  /\ balance' = balance + value - Refund(value)
  /\ charged' = charged + creationFee
  /\ UNCHANGED <<creationFee, withdrawn>>

withdraw(sender) ==
  /\ sender = Owner
  /\ withdrawn' = withdrawn + balance /\ balance' = 0
  /\ UNCHANGED <<creationFee, elections, charged>>

setCreationFee(sender, fee) ==
  /\ sender = Owner
  /\ creationFee' = fee
  /\ UNCHANGED <<elections, balance, withdrawn, charged>>

(* One page of the registry; addresses are places in it. *)
getElections(offset, limit) ==
  LET total == Len(elections)
      end == IF offset + limit > total THEN total ELSE offset + limit
  IN [i \in 1 .. (end - offset) |-> offset + i]

-----------------------------------------------------------------------------
CreateElection == \E s \in Accounts, v \in Fees, offer \in Offers : createElection(s, v, offer)
Withdraw       == \E s \in Accounts : withdraw(s)
SetCreationFee == \E s \in Accounts, fee \in Fees : setCreationFee(s, fee)

FactoryNext == CreateElection \/ Withdraw \/ SetCreationFee

FactorySpec == FactoryInit /\ [][FactoryNext]_factoryVars

-----------------------------------------------------------------------------
(* The types of the factory's state. *)
FactoryTypeOK ==
  /\ creationFee \in Fees
  /\ elections \in Seq([admin : Accounts, offer : Offers, committee : Committees])
  /\ {balance, withdrawn, charged} \subseteq Nat

(* The factory keeps exactly the fee that was in force for each election,  *)
(* whatever its callers had read before and attached: what it holds and    *)
(* what was withdrawn add up to those fees.                                *)
FeesExact == balance + withdrawn = charged
=============================================================================
