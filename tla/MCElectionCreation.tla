------------------------- MODULE MCElectionCreation -------------------------
(* Model-checking instance of the creation of elections. *)
EXTENDS ElectionCreation, TLC

CONSTANTS creator, other, t1, t2

MCAccounts == {creator, other}
MCGates == {"open", "admin-only", "invite-codes", "token-gate"}
MCTokens == {t1, t2}
MCMembers == {creator, other}
MCHours == {0, 24, 72}
MCFees == {1, 2}

MCOffers ==
  [key : 0..MaxFlows \cup {None}, numOptions : 2..MaxOptions,
   signupDeadline : MCHours, votingDeadline : Nat,
   selfSignup : BOOLEAN, gateType : Gates, gasless : BOOLEAN,
   codes : 1..MaxFlows \cup {None},
   tokenAddress : MCTokens \cup {None}, tokenInfo : MCTokens \cup {None},
   committee : Committees]

(* The form is edited on one step of the wizard beside the labels, longest *)
(* on the step that sets up a committee.                                   *)
Basics(f)   == <<f.numOptions, f.signupHours, f.votingHours>>
Access(f)   == <<f.gateType, f.filled, f.tokenAddress, f.gaslessMode>>
Security(f) == <<f.encryptionMode, f.committeeMembers, f.threshold>>
OneStep(f) ==
  LET d == initialState
  IN Cardinality({Basics(f) # Basics(d)} \cap {TRUE}) +
     Cardinality({Access(f) # Access(d)} \cap {TRUE}) +
     Cardinality({Security(f) # Security(d)} \cap {TRUE}) <= 1

(* A second creation follows one with the usual options, deadlines and     *)
(* committee and no token, and uses that one's form or an empty one.       *)
Details(f) == <<Basics(f), Access(f), Security(f)>>
Usual(offer) ==
  /\ <<offer.numOptions, offer.signupDeadline, offer.votingDeadline>> = <<2, 24, 96>>
  /\ offer.tokenAddress = None /\ (offer.gasless => offer.codes # None)
  /\ offer.committee.threshold \in {0, 2} /\ Len(offer.committee.members) \in {0, 2}
FirstForm == \/ At(1, "idle")
             \/ form' = initialState
             \/ /\ Details(form') = Details(form) /\ form'.currentStep >= form.currentStep
                /\ form.labelled => form'.labelled
Begins(f) == At(f, "idle") /\ flows'[f].pc # "idle"
SecondAfter == \A f \in Flows \ {1} : Begins(f) => Usual(flows[1].offer)

(* Others and the owner act during a first creation like that, between the *)
(* fee it read and its receipt.                                            *)
Exposed ==
  /\ At(2, "idle") /\ flows[1].pc \in {"wallet", "pending", "mined"}
  /\ Usual(flows[1].offer)

(* The second address is tried where a committee begins. *)
Seated == \A i \in DOMAIN form'.committeeMembers :
            form'.committeeMembers[i] = creator => i = 1

Focus ==
  /\ OneStep(form') /\ FirstForm /\ SecondAfter /\ Seated
  /\ edits' <= 2 \/ InCommittee' \/ form'.gateType = "token-gate"
  /\ factoryVars' # factoryVars => Exposed \/ \E f \in Flows : flows'[f] # flows[f]
  /\ form.creating /\ form' = initialState =>
       flows' # flows \/ Exposed \/ \A f \in Flows : ~flows[f].running
=============================================================================
