----------------------- MODULE ElectionCreationProofs -----------------------
(***************************************************************************)
(* The form, the factory's fees and the creations of module                *)
(* ElectionCreation, for any number of creations, elections, options,      *)
(* members, tokens and fees.                                               *)
(*                                                                         *)
(* The proof has three parts that hardly touch each other: the form alone  *)
(* (FormInv), the factory's money (MoneyInv), and what the creations, the  *)
(* registry and the browser know of each other (CreationInv).              *)
(***************************************************************************)
EXTENDS ElectionCreation, DataLemmas, SequenceTheorems

-----------------------------------------------------------------------------
(* The form. *)

FormInv == FormTypeOK /\ ThresholdInRange /\ TokenInfoFresh

CommitteeForms == Seq(Members \cup {Blank})

LEMMA RemoveAtType ==
  ASSUME NEW s \in CommitteeForms, NEW i \in 1 .. Len(s)
  PROVE  RemoveAt(s, i) \in CommitteeForms /\ Len(RemoveAt(s, i)) = Len(s) - 1
<1> DEFINE S == Members \cup {Blank}
           left == SubSeq(s, 1, i - 1)
           right == SubSeq(s, i + 1, Len(s))
<1>1. s \in Seq(S) /\ Len(s) \in Nat /\ i \in Nat
  BY DEF CommitteeForms
<1>2. left \in Seq(S) /\ Len(left) = i - 1
  <2>1. \A k \in 1 .. i - 1 : s[k] \in S
    BY <1>1
  <2> QED
    BY <1>1, <2>1, SubSeqProperties
<1>3. right \in Seq(S) /\ Len(right) = Len(s) - i
  <2>1. \A k \in i + 1 .. Len(s) : s[k] \in S
    BY <1>1
  <2> QED
    BY <1>1, <2>1, SubSeqProperties
<1>4. left \o right \in Seq(S) /\ Len(left \o right) = Len(left) + Len(right)
  BY <1>2, <1>3, ConcatProperties
<1>5. RemoveAt(s, i) = left \o right
  BY Zenon DEF RemoveAt
<1>6. Len(left) + Len(right) = Len(s) - 1
  <2>1. (i - 1) + (Len(s) - i) = Len(s) - 1
    BY <1>1
  <2> HIDE DEF left, right
  <2> QED
    BY <2>1, <1>2, <1>3, Zenon
<1> QED
  BY <1>4, <1>5, <1>6, Zenon DEF CommitteeForms

(* The records that a form is. *)
Forms ==
  [currentStep : 0..3, creating : BOOLEAN, labelled : BOOLEAN,
   numOptions : 2..MaxOptions, signupHours : Hours, votingHours : Hours,
   gateType : Gates, filled : BOOLEAN, tokenAddress : Tokens \cup {None},
   tokenInfo : Tokens \cup {None}, gaslessMode : BOOLEAN,
   encryptionMode : {"single", "threshold"},
   committeeMembers : CommitteeForms, threshold : Nat]

(* What the form invariant says of the form and of the look-ups.           *)
FormOK(f, pending) ==
  /\ f \in Forms /\ pending \subseteq Tokens
  /\ Len(f.committeeMembers) \in 2..MaxMembers
  /\ f.threshold \in 2 .. Len(f.committeeMembers)
  /\ f.tokenAddress \notin pending => f.tokenInfo \in {f.tokenAddress, None}

LEMMA FormInvMeans == FormInv <=> FormOK(form, lookups) /\ edits \in 0..MaxEdits
BY DEF FormInv, FormOK, FormTypeOK, ThresholdInRange, TokenInfoFresh, Size, Forms,
       CommitteeForms

LEMMA InitialForm ==
  /\ initialState.committeeMembers \in CommitteeForms
  /\ Len(initialState.committeeMembers) = 3
  /\ \A pending \in SUBSET Tokens : FormOK(initialState, pending)
<1> DEFINE blanks == <<Blank, Blank, Blank>>
<1>1. blanks \in CommitteeForms /\ Len(blanks) = 3
  BY DEF CommitteeForms
<1>2. initialState \in Forms
  BY <1>1, GateAssumption, SizeAssumption DEF initialState, Forms
<1>3. /\ initialState.committeeMembers = blanks /\ initialState.threshold = 2
      /\ initialState.tokenAddress = None /\ initialState.tokenInfo = None
  BY DEF initialState
<1> QED
  BY <1>1, <1>2, <1>3, SizeAssumption DEF FormOK

(* An edit that leaves the committee and the token alone. *)
LEMMA PlainEdit ==
  ASSUME FormInv, NEW new \in Forms, form' = new, lookups' = lookups,
         new.committeeMembers = form.committeeMembers, new.threshold = form.threshold,
         new.tokenAddress = form.tokenAddress, new.tokenInfo = form.tokenInfo
  PROVE  FormOK(form', lookups')
BY FormInvMeans DEF FormOK

(* An edit of the committee. *)
LEMMA CommitteeEdit ==
  ASSUME FormInv, NEW new \in Forms, form' = new, lookups' = lookups,
         Len(new.committeeMembers) \in 2..MaxMembers,
         new.threshold \in 2 .. Len(new.committeeMembers),
         new.tokenAddress = form.tokenAddress, new.tokenInfo = form.tokenInfo
  PROVE  FormOK(form', lookups')
BY FormInvMeans DEF FormOK

(* An edit of the gate or the token's address, with its effect. *)
LEMMA TokenEdit ==
  ASSUME FormInv, NEW new \in Forms, form' = Effect(new), lookups' = Looked(new),
         new.committeeMembers = form.committeeMembers, new.threshold = form.threshold,
         new.tokenInfo = form.tokenInfo
  PROVE  FormOK(form', lookups')
<1> DEFINE info == IF new.tokenAddress = None THEN None ELSE new.tokenInfo
           r == [new EXCEPT !.tokenInfo = info]
<1>1. form' = r
  BY DEF Effect
<1>2. /\ r \in Forms
      /\ r.tokenAddress = new.tokenAddress /\ r.tokenInfo = info
      /\ r.committeeMembers = new.committeeMembers /\ r.threshold = new.threshold
  <2>1. info \in Tokens \cup {None}
    BY DEF Forms
  <2> HIDE DEF info
  <2> QED
    BY <2>1 DEF Forms
<1>3. /\ lookups' \subseteq Tokens
      /\ new.tokenAddress # None => new.tokenAddress \in lookups'
  BY FormInvMeans DEF FormOK, Looked, Forms
<1> QED
  BY <1>1, <1>2, <1>3, FormInvMeans DEF FormOK

LEMMA WizardKeepsForm == FormInv /\ Wizard => FormInv'
<1> SUFFICES ASSUME FormInv, Wizard
             PROVE  FormOK(form', lookups') /\ edits' \in 0..MaxEdits
  BY FormInvMeans DEF FormInv, FormOK, FormTypeOK, ThresholdInRange, TokenInfoFresh, Size, Forms, CommitteeForms
<1> USE FormInvMeans
<1>1. form \in Forms /\ edits \in 0..MaxEdits /\ MaxEdits \in Nat
  BY SizeAssumption DEF FormOK
<1>2. edits' \in 0..MaxEdits
  <2>1. edits' = edits \/ (edits < MaxEdits /\ edits' = edits + 1)
    BY Zenon DEF Wizard, NEXT_STEP, GO_TO_STEP, Edit, SetLabels, ADD_OPTION, REMOVE_OPTION,
       SetHours, SET_GATE_TYPE, SetGateFields, SetGasless, SetTokenAddress,
       SET_ENCRYPTION_MODE, SetThreshold, ADD_COMMITTEE_MEMBER, REMOVE_COMMITTEE_MEMBER,
       UPDATE_COMMITTEE_MEMBER, Edited
  <2> QED
    BY <1>1, <2>1
<1>3. CASE NEXT_STEP
  BY <1>1, <1>3, PlainEdit DEF NEXT_STEP, Forms
<1>4. CASE GO_TO_STEP
  <2>1. PICK step \in 0 .. form.currentStep - 1 : form' = [form EXCEPT !.currentStep = step]
    BY <1>4 DEF GO_TO_STEP
  <2>2. step \in 0..3
    BY <1>1 DEF Forms
  <2> QED
    BY <1>1, <1>4, <2>1, <2>2, PlainEdit DEF GO_TO_STEP, Forms
<1>5. CASE SetLabels
  <2>1. PICK b \in BOOLEAN : form' = [form EXCEPT !.labelled = b]
    BY <1>5, Zenon DEF SetLabels
  <2> QED
    BY <1>1, <1>5, <2>1, PlainEdit DEF SetLabels, Forms
<1>6. CASE ADD_OPTION
  <2>1. form.numOptions + 1 \in 2..MaxOptions
    BY <1>1, <1>6, SizeAssumption DEF ADD_OPTION, Forms
  <2> QED
    BY <1>1, <1>6, <2>1, PlainEdit DEF ADD_OPTION, Edited, Forms
<1>7. CASE REMOVE_OPTION
  <2>1. form.numOptions - 1 \in 2..MaxOptions
    BY <1>1, <1>7, SizeAssumption DEF REMOVE_OPTION, Removable, Forms
  <2>2. PICK kept \in {form.labelled, FALSE} :
          form' = [form EXCEPT !.numOptions = @ - 1, !.labelled = kept]
    BY <1>7 DEF REMOVE_OPTION, Edited
  <2>3. kept \in BOOLEAN
    BY <1>1 DEF Forms
  <2> QED
    <3> DEFINE options == form.numOptions - 1
               new == [form EXCEPT !.numOptions = options, !.labelled = kept]
    <3>1. form' = new /\ lookups' = lookups
      BY <1>7, <2>2 DEF REMOVE_OPTION
    <3> HIDE DEF options
    <3>2. /\ new \in Forms /\ new.committeeMembers = form.committeeMembers
          /\ new.threshold = form.threshold
          /\ new.tokenAddress = form.tokenAddress /\ new.tokenInfo = form.tokenInfo
      <4>1. options \in 2..MaxOptions
        BY <2>1 DEF options
      <4> QED
        BY <1>1, <2>3, <4>1 DEF Forms
    <3> HIDE DEF new
    <3> QED
      BY <1>2, <3>1, <3>2, PlainEdit
<1>8. CASE SetHours
  BY <1>1, <1>8, PlainEdit DEF SetHours, Edited, Forms
<1>9. ASSUME NEW g \in Gates, SET_GATE_TYPE(g)
      PROVE  FormOK(form', lookups')
  <2> DEFINE filled == IF g = form.gateType THEN form.filled ELSE g = "invite-codes"
             token == IF g = "token-gate" THEN form.tokenAddress ELSE None
             new == [form EXCEPT !.gateType = g, !.filled = filled, !.tokenAddress = token]
  <2>1. form' = Effect(new) /\ lookups' = Looked(new)
    BY <1>9 DEF SET_GATE_TYPE, Edited
  <2>2. filled \in BOOLEAN /\ token \in Tokens \cup {None}
    BY <1>1 DEF Forms
  <2>3. /\ new \in Forms /\ new.committeeMembers = form.committeeMembers
        /\ new.threshold = form.threshold /\ new.tokenInfo = form.tokenInfo
    <3> HIDE DEF filled, token
    <3> QED
      BY <1>1, <2>2 DEF Forms
  <2> HIDE DEF new
  <2> QED
    BY <2>1, <2>3, TokenEdit
<1>10. CASE SetGateFields
  <2>1. PICK b \in BOOLEAN : form' = [form EXCEPT !.filled = b]
    BY <1>10, Zenon DEF SetGateFields, Edited
  <2> QED
    BY <1>1, <1>2, <1>10, <2>1, PlainEdit DEF SetGateFields, Forms
<1>11. CASE SetGasless
  <2>1. PICK b \in BOOLEAN : form' = [form EXCEPT !.gaslessMode = b]
    BY <1>11, Zenon DEF SetGasless, Edited
  <2> QED
    BY <1>1, <1>2, <1>11, <2>1, PlainEdit DEF SetGasless, Forms
<1>12. ASSUME NEW t \in Tokens \cup {None}, SetTokenAddress(t)
       PROVE  FormOK(form', lookups')
  <2> DEFINE new == [form EXCEPT !.tokenAddress = t]
  <2>1. form' = Effect(new) /\ lookups' = Looked(new)
    BY <1>12 DEF SetTokenAddress, Edited
  <2>2. /\ new \in Forms /\ new.committeeMembers = form.committeeMembers
        /\ new.threshold = form.threshold /\ new.tokenInfo = form.tokenInfo
    BY <1>1 DEF Forms
  <2> HIDE DEF new
  <2> QED
    BY <2>1, <2>2, TokenEdit
<1>13. ASSUME NEW m \in {"single", "threshold"}, SET_ENCRYPTION_MODE(m)
       PROVE  FormOK(form', lookups')
  <2>1. CASE m = "threshold"
    BY <1>1, <1>13, <2>1, PlainEdit DEF SET_ENCRYPTION_MODE, Edited, Forms
  <2>2. CASE m = "single"
    <3> DEFINE blanks == initialState.committeeMembers
               new == [form EXCEPT !.encryptionMode = m, !.threshold = 2,
                                   !.committeeMembers = blanks]
    <3>1. form' = new /\ lookups' = lookups
      BY <1>13, <2>2 DEF SET_ENCRYPTION_MODE, Edited
    <3>2. blanks \in CommitteeForms /\ Len(blanks) = 3
      BY InitialForm
    <3> HIDE DEF blanks
    <3>3. /\ new \in Forms /\ new.committeeMembers = blanks /\ new.threshold = 2
          /\ new.tokenAddress = form.tokenAddress /\ new.tokenInfo = form.tokenInfo
      BY <1>1, <2>2, <3>2 DEF Forms
    <3>4. 3 \in 2..MaxMembers
      BY SizeAssumption
    <3> HIDE DEF new
    <3>5. /\ Len(new.committeeMembers) \in 2..MaxMembers
          /\ new.threshold \in 2 .. Len(new.committeeMembers)
      <4>1. Len(new.committeeMembers) = 3 /\ new.threshold = 2
        BY <3>2, <3>3, Zenon
      <4> QED
        BY <3>4, <4>1
    <3> QED
      BY <3>1, <3>3, <3>5, CommitteeEdit
  <2> QED
    BY <2>1, <2>2
<1>14. CASE SetThreshold
  BY <1>1, <1>14, CommitteeEdit DEF SetThreshold, Edited, Forms, Size, FormOK
<1>15. CASE ADD_COMMITTEE_MEMBER
  <2> DEFINE members == Append(form.committeeMembers, Blank)
             new == [form EXCEPT !.committeeMembers = members]
  <2>1. form' = new /\ lookups' = lookups
    BY <1>15 DEF ADD_COMMITTEE_MEMBER, Edited
  <2>2. members \in CommitteeForms /\ Len(members) = Len(form.committeeMembers) + 1
    BY <1>1 DEF Forms, CommitteeForms
  <2>3. /\ Len(members) \in 2..MaxMembers /\ form.threshold \in 2 .. Len(members)
    BY <2>2, <1>15, SizeAssumption DEF ADD_COMMITTEE_MEMBER, Size, FormOK
  <2> HIDE DEF members
  <2>4. /\ new \in Forms /\ new.committeeMembers = members
        /\ new.threshold = form.threshold
        /\ new.tokenAddress = form.tokenAddress /\ new.tokenInfo = form.tokenInfo
    BY <1>1, <2>2 DEF Forms
  <2>5. /\ Len(new.committeeMembers) \in 2..MaxMembers
        /\ new.threshold \in 2 .. Len(new.committeeMembers)
    BY <2>3, <2>4
  <2> HIDE DEF new
  <2> QED
    BY <1>2, <2>1, <2>4, <2>5, CommitteeEdit
<1>16. ASSUME NEW i \in DOMAIN form.committeeMembers, REMOVE_COMMITTEE_MEMBER(i)
       PROVE  FormOK(form', lookups')
  <2> DEFINE members == RemoveAt(form.committeeMembers, i)
             n == Clamped(Size - 1)
             new == [form EXCEPT !.committeeMembers = members, !.threshold = n]
  <2>1. form' = new /\ lookups' = lookups
    BY <1>16 DEF REMOVE_COMMITTEE_MEMBER, Edited
  <2>2. /\ members \in CommitteeForms /\ Len(members) = Size - 1
    <3>1. form.committeeMembers \in CommitteeForms /\ i \in 1 .. Len(form.committeeMembers)
      BY <1>1 DEF Forms, CommitteeForms
    <3> QED
      BY <3>1, RemoveAtType DEF Size
  <2>3. /\ Size - 1 \in 2..MaxMembers /\ n \in 2 .. Size - 1
    BY <1>16, SizeAssumption DEF REMOVE_COMMITTEE_MEMBER, Size, FormOK, Clamped
  <2>4. n \in Nat
    BY <2>3
  <2> HIDE DEF members, n
  <2>5. /\ new \in Forms /\ new.committeeMembers = members /\ new.threshold = n
        /\ new.tokenAddress = form.tokenAddress /\ new.tokenInfo = form.tokenInfo
    BY <1>1, <2>2, <2>4 DEF Forms
  <2> HIDE DEF new
  <2> QED
    BY <2>1, <2>2, <2>3, <2>5, CommitteeEdit
<1>17. ASSUME NEW i \in DOMAIN form.committeeMembers, NEW m \in Members \cup {Blank},
              UPDATE_COMMITTEE_MEMBER(i, m)
       PROVE  FormOK(form', lookups')
  <2> DEFINE members == [form.committeeMembers EXCEPT ![i] = m]
             new == [form EXCEPT !.committeeMembers = members]
  <2>1. form' = new /\ lookups' = lookups
    BY <1>17 DEF UPDATE_COMMITTEE_MEMBER, Edited
  <2>2. members \in CommitteeForms /\ Len(members) = Len(form.committeeMembers)
    BY <1>1 DEF Forms, CommitteeForms
  <2> HIDE DEF members
  <2>3. /\ new \in Forms /\ new.committeeMembers = members
        /\ new.threshold = form.threshold
        /\ new.tokenAddress = form.tokenAddress /\ new.tokenInfo = form.tokenInfo
    BY <1>1, <2>2 DEF Forms
  <2> HIDE DEF new
  <2> QED
    BY <2>1, <2>2, <2>3, CommitteeEdit DEF FormOK
<1> QED
  BY <1>2, <1>3, <1>4, <1>5, <1>6, <1>7, <1>8, <1>9, <1>10, <1>11, <1>12, <1>13, <1>14,
     <1>15, <1>16, <1>17, Zenon DEF Wizard, Edit

LEMMA AnswersKeepForm == FormInv /\ TokenAnswers => FormInv'
<1> SUFFICES ASSUME FormInv, TokenAnswers
             PROVE  FormOK(form', lookups') /\ edits' \in 0..MaxEdits
  BY FormInvMeans DEF FormInv, FormOK, FormTypeOK, ThresholdInRange, TokenInfoFresh, Size, Forms, CommitteeForms
<1>1. PICK t \in Tokens : SET_TOKEN_INFO(t)
  BY DEF TokenAnswers
<1>2. form \in Forms /\ FormOK(form, lookups) /\ edits' \in 0..MaxEdits
  BY <1>1, FormInvMeans DEF FormOK, SET_TOKEN_INFO
<1>3. PICK info \in {t, None} :
        form' = IF Cancelled(t) THEN form ELSE [form EXCEPT !.tokenInfo = info]
  BY <1>1 DEF SET_TOKEN_INFO
<1>4. CASE Cancelled(t)
  BY <1>1, <1>2, <1>3, <1>4 DEF SET_TOKEN_INFO, FormOK, Cancelled
<1>5. CASE ~Cancelled(t)
  <2>1. /\ form' \in Forms /\ form'.tokenInfo = info
        /\ form'.tokenAddress = form.tokenAddress /\ form'.threshold = form.threshold
        /\ form'.committeeMembers = form.committeeMembers
    BY <1>2, <1>3, <1>5 DEF Forms
  <2> QED
    BY <1>1, <1>2, <1>5, <2>1 DEF FormOK, Cancelled, SET_TOKEN_INFO
<1> QED
  BY <1>2, <1>4, <1>5

(* What a step of the page does with the form.                             *)
LEMMA PageKeepsForm ==
  ASSUME FormInv, edits' = edits,
         \/ form' = form /\ lookups' = lookups
         \/ form' = Over /\ lookups' = lookups
         \/ form' = [form EXCEPT !.creating = TRUE] /\ lookups' = lookups
         \/ form' = initialState /\ lookups' \in {lookups, {}}
  PROVE  FormInv'
<1> SUFFICES FormOK(form', lookups')
  BY FormInvMeans DEF FormInv, FormOK, FormTypeOK, ThresholdInRange, TokenInfoFresh, Size, Forms, CommitteeForms
<1>1. form \in Forms /\ FormOK(form, lookups)
  BY FormInvMeans DEF FormOK
<1>2. CASE form' = form /\ lookups' = lookups
  BY <1>1, <1>2
<1>3. ASSUME NEW b \in BOOLEAN, form' = [form EXCEPT !.creating = b], lookups' = lookups
      PROVE  FormOK(form', lookups')
  BY <1>1, <1>3, PlainEdit DEF Forms
<1>4. CASE form' = initialState /\ lookups' \in {lookups, {}}
  BY <1>1, <1>4, InitialForm DEF FormOK
<1> QED
  BY <1>2, <1>3, <1>4 DEF Over

LEMMA FormStep == FormInv /\ [CreationNext]_creationVars => FormInv'
<1> SUFFICES ASSUME FormInv, [CreationNext]_creationVars
             PROVE  FormInv'
  OBVIOUS
<1>1. CASE UseWizard
  BY <1>1, WizardKeepsForm DEF UseWizard
<1>2. CASE TokenLookedUp
  BY <1>2, AnswersKeepForm DEF TokenLookedUp
<1>3. CASE NewClick
  BY <1>3, PageKeepsForm DEF NewClick, RESET, formVars
<1>4. ASSUME NEW f \in Flows, CreateClick(f) \/ PageStep(f) \/ Mine(f) \/ MineSetup(f)
      PROVE  FormInv'
  BY <1>4, PageKeepsForm DEF CreateClick, PageStep, ReadFee, Approve, Receipt, Announce, Fail,
     EndLoad, Mine, MineSetup, formVars
<1>5. CASE Reload
  BY <1>5, PageKeepsForm DEF Reload
<1>6. CASE OtherCreates \/ OwnerActs \/ UNCHANGED creationVars
  BY <1>6, PageKeepsForm DEF OtherCreates, OwnerActs, creationVars, formVars
<1> QED
  BY <1>1, <1>2, <1>3, <1>4, <1>5, <1>6 DEF CreationNext

LEMMA FormStart == CreationInit => FormInv
BY FormInvMeans, InitialForm, SizeAssumption DEF CreationInit, FormInit

(* Whatever order members are added and removed in: the committee of the   *)
(* form keeps a size on offer and a threshold that it can reach            *)
(* (useElectionForm.ts).                                                   *)
THEOREM ThresholdReachable == CreationSpec => []ThresholdInRange
<1>1. FormInv => ThresholdInRange
  BY DEF FormInv
<1> QED
  BY <1>1, FormStart, FormStep, PTL DEF CreationSpec

(* The form never shows what was looked up for another token, once its own *)
(* look-up has been answered (useElectionForm.ts).                         *)
THEOREM TokenInfoOfToken == CreationSpec => []TokenInfoFresh
<1>1. FormInv => TokenInfoFresh
  BY DEF FormInv
<1> QED
  BY <1>1, FormStart, FormStep, PTL DEF CreationSpec

-----------------------------------------------------------------------------
(* The factory's money.                                                    *)

MoneyInv ==
  /\ creationFee \in Fees
  /\ balance \in Nat /\ withdrawn \in Nat /\ charged \in Nat
  /\ FeesExact

LEMMA Deployment ==
  ASSUME MoneyInv, NEW value \in Fees, NEW sender, NEW offer,
         createElection(sender, value, offer)
  PROVE  MoneyInv'
<1>1. creationFee \in Nat /\ value \in Nat /\ value >= creationFee
  BY FeeAssumption DEF MoneyInv, createElection, Deployable, Enough
<1>2. value - Refund(value) = creationFee
  BY <1>1 DEF Refund
<1>3. Refund(value) \in Nat
  BY <1>1 DEF Refund
<1>4. balance' = balance + creationFee
  BY <1>1, <1>2, <1>3 DEF MoneyInv, createElection
<1> QED
  BY <1>1, <1>4 DEF MoneyInv, FeesExact, createElection

LEMMA Administration ==
  ASSUME MoneyInv, NEW sender,
         withdraw(sender) \/ \E fee \in Fees : setCreationFee(sender, fee)
  PROVE  MoneyInv'
BY DEF MoneyInv, FeesExact, withdraw, setCreationFee

(* The factory alone: its balance and what was withdrawn are the fees in   *)
(* force when elections were created (SpectreVotingFactory.sol).           *)
THEOREM FactoryFees == FactorySpec => []FeesExact
<1>1. FactoryInit => MoneyInv
  BY FeeAssumption DEF FactoryInit, MoneyInv, FeesExact
<1>2. MoneyInv /\ [FactoryNext]_factoryVars => MoneyInv'
  <2> SUFFICES ASSUME MoneyInv, [FactoryNext]_factoryVars
               PROVE  MoneyInv'
    OBVIOUS
  <2>1. CASE CreateElection
    BY <2>1, Deployment DEF CreateElection
  <2>2. CASE Withdraw \/ SetCreationFee
    BY <2>2, Administration DEF Withdraw, SetCreationFee
  <2>3. CASE UNCHANGED factoryVars
    BY <2>3 DEF factoryVars, MoneyInv, FeesExact
  <2> QED
    BY <2>1, <2>2, <2>3 DEF FactoryNext
<1>3. MoneyInv => FeesExact
  BY DEF MoneyInv
<1> QED
  BY <1>1, <1>2, <1>3, PTL DEF FactorySpec

-----------------------------------------------------------------------------
(* The creations, the registry and the browser.                            *)

Labels == {"idle", "fee", "wallet", "pending", "reverted", "mined", "setup",
           "setupPending", "setupMined", "listing", "done"}
Deployments == {"mined", "setup", "setupPending", "setupMined", "listing", "done"}
Kept == {"setup", "setupPending", "setupMined", "listing", "done"}
Complete == {"setupMined", "listing", "done"}

(* What an offer is does not matter here: O is any set that has them all.  *)
FlowRecs(O) == [pc : Labels, running : BOOLEAN, offer : O, value : Fees \cup {None},
                election : 0..MaxElections]
ElectionRecs(O) == [admin : Accounts, offer : O, committee : O]

FlowsOK    == \E O : flows \in [Flows -> FlowRecs(O)]
RegistryOK == \E O : elections \in Seq(ElectionRecs(O))
StoreOK    == \E O : store \in [1..MaxElections -> O]

(* What is known of a creation: its election, if it has one, is registered *)
(* as it was offered; then stored; then has its committee.                 *)
FlowInv(f) ==
  LET e == flows[f].election
  IN /\ At(f, "idle") => e = 0
     /\ flows[f].pc \in {"wallet", "pending"} => flows[f].value \in Fees
     /\ flows[f].pc \in Deployments => e # 0
     /\ e # 0 => /\ e \in DOMAIN elections
                 /\ elections[e].admin = Creator /\ elections[e].offer = flows[f].offer
     /\ flows[f].pc \in Kept => store[e] = flows[f].offer
     /\ flows[f].pc \in Complete => elections[e].committee = flows[f].offer.committee

CommitteesOK == \A e \in DOMAIN elections :
  elections[e].committee \in {NoCommittee, elections[e].offer.committee}

CreationInv ==
  /\ FlowsOK /\ RegistryOK /\ StoreOK
  /\ Len(elections) <= MaxElections
  /\ \A f \in Flows : FlowInv(f)
  /\ CommitteesOK
  /\ StoredUnderOwnElection

(* What may happen to the registry and to the browser: elections are only  *)
(* added, their committee is set once and as offered, and what is stored   *)
(* under the address of an election of the creator is its offer.           *)
RegistryGrows ==
  /\ DOMAIN elections \subseteq DOMAIN elections'
  /\ \A e \in DOMAIN elections :
       /\ elections'[e].admin = elections[e].admin
       /\ elections'[e].offer = elections[e].offer
       /\ \/ elections'[e].committee = elections[e].committee
          \/ /\ elections[e].committee = NoCommittee
             /\ elections'[e].committee = elections[e].offer.committee

StoreGrows ==
  \A e \in 1..MaxElections :
    \/ store'[e] = store[e]
    \/ e \in DOMAIN elections /\ elections[e].admin = Creator /\ store'[e] = elections[e].offer

SameFlow(g) ==
  /\ flows'[g].pc = flows[g].pc /\ flows'[g].offer = flows[g].offer
  /\ flows'[g].value = flows[g].value /\ flows'[g].election = flows[g].election

LEMMA SeqWidens ==
  ASSUME NEW S, NEW T, S \subseteq T, NEW s \in Seq(S)
  PROVE  s \in Seq(T)
OBVIOUS

LEMMA DomainOfRegistry ==
  ASSUME RegistryOK
  PROVE  /\ Len(elections) \in Nat /\ DOMAIN elections = 1 .. Len(elections)
BY DEF RegistryOK

(* A creation that does not move keeps what is known of it. *)
LEMMA Undisturbed ==
  ASSUME CreationInv, RegistryGrows, StoreGrows, NEW g \in Flows, SameFlow(g)
  PROVE  FlowInv(g)'
<1> DEFINE e == flows[g].election
<1>1. FlowInv(g)
  BY DEF CreationInv
<1>2. flows'[g].election = e
  BY DEF SameFlow
<1>3. e # 0 => /\ e \in DOMAIN elections /\ e \in DOMAIN elections'
               /\ elections'[e].admin = Creator /\ elections'[e].offer = flows[g].offer
  BY <1>1 DEF FlowInv, RegistryGrows
<1>4. e # 0 => e \in 1..MaxElections
  BY <1>3, DomainOfRegistry, FlowAssumption DEF CreationInv
<1>5. flows[g].pc \in Kept => store'[e] = flows[g].offer
  BY <1>1, <1>3, <1>4 DEF FlowInv, StoreGrows, Kept, Deployments
<1>6. flows[g].pc \in Complete => elections'[e].committee = flows[g].offer.committee
  BY <1>1, <1>3 DEF FlowInv, RegistryGrows, Complete, Deployments
<1> QED
  BY <1>1, <1>2, <1>3, <1>5, <1>6 DEF FlowInv, SameFlow, At

(* The part of the invariant that is about no creation. *)
LEMMA RegistryKept ==
  ASSUME CreationInv, RegistryGrows, StoreGrows, StoreOK',
         \A e \in DOMAIN elections' \ DOMAIN elections : elections'[e].committee = NoCommittee
  PROVE  CommitteesOK' /\ StoredUnderOwnElection'
<1>1. CommitteesOK'
  BY DEF CreationInv, CommitteesOK, RegistryGrows
<1>2. DOMAIN store = 1..MaxElections /\ DOMAIN store' = 1..MaxElections
  BY DEF CreationInv, StoreOK
<1>3. ASSUME NEW e \in 1..MaxElections, store'[e] # None
      PROVE  /\ e \in DOMAIN elections' /\ elections'[e].admin = Creator
             /\ store'[e] = elections'[e].offer
  BY <1>2, <1>3 DEF CreationInv, StoredUnderOwnElection, StoreGrows, RegistryGrows, isElection
<1> QED
  BY <1>1, <1>2, <1>3 DEF StoredUnderOwnElection, isElection

(* One creation moves; what it did to the chain and the browser is given.  *)
LEMMA Step ==
  ASSUME CreationInv, NEW f \in Flows, FlowsOK', RegistryOK', StoreOK',
         Len(elections') <= MaxElections, RegistryGrows, StoreGrows,
         \A e \in DOMAIN elections' \ DOMAIN elections : elections'[e].committee = NoCommittee,
         \A g \in Flows \ {f} : SameFlow(g), FlowInv(f)'
  PROVE  CreationInv'
<1>1. \A g \in Flows : FlowInv(g)'
  BY Undisturbed
<1> QED
  BY <1>1, RegistryKept DEF CreationInv

LEMMA Nothing ==
  ASSUME CreationInv, elections' = elections, store' = store
  PROVE  /\ RegistryOK' /\ StoreOK' /\ Len(elections') <= MaxElections
         /\ RegistryGrows /\ StoreGrows
         /\ DOMAIN elections' \ DOMAIN elections = {}
BY DEF CreationInv, RegistryOK, StoreOK, RegistryGrows, StoreGrows

LEMMA Update ==
  ASSUME FlowsOK, NEW f \in Flows, NEW P, NEW r \in FlowRecs(P), flows' = [flows EXCEPT ![f] = r]
  PROVE  FlowsOK' /\ flows'[f] = r /\ \A g \in Flows \ {f} : flows'[g] = flows[g]
<1>1. PICK O : flows \in [Flows -> FlowRecs(O)]
  BY DEF FlowsOK
<1>2. FlowRecs(O) \subseteq FlowRecs(O \cup P) /\ FlowRecs(P) \subseteq FlowRecs(O \cup P)
  BY DEF FlowRecs
<1>3. flows' \in [Flows -> FlowRecs(O \cup P)]
  BY <1>1, <1>2
<1> QED
  BY <1>1, <1>3 DEF FlowsOK

(* Goto changes the label alone. *)
LEMMA Moved ==
  ASSUME FlowsOK, NEW f \in Flows, NEW label \in Labels, Goto(f, label)
  PROVE  /\ FlowsOK' /\ \A g \in Flows \ {f} : SameFlow(g)
         /\ flows'[f].pc = label /\ flows'[f].offer = flows[f].offer
         /\ flows'[f].value = flows[f].value /\ flows'[f].election = flows[f].election
<1>1. PICK O : flows \in [Flows -> FlowRecs(O)]
  BY DEF FlowsOK
<1> DEFINE r == [flows[f] EXCEPT !.pc = label]
<1>2. flows' = [flows EXCEPT ![f] = r]
  BY DEF Goto
<1>3. /\ r \in FlowRecs(O) /\ r.pc = label /\ r.offer = flows[f].offer
      /\ r.value = flows[f].value /\ r.election = flows[f].election
  BY <1>1 DEF FlowRecs
<1> HIDE DEF r
<1>4. FlowsOK' /\ flows'[f] = r /\ \A g \in Flows \ {f} : flows'[g] = flows[g]
  BY <1>2, <1>3, Update
<1> QED
  BY <1>3, <1>4 DEF SameFlow

(* A step to a label about which nothing more is known. *)
LEMMA PlainMove ==
  ASSUME CreationInv, NEW f \in Flows, NEW label \in Labels, Goto(f, label),
         elections' = elections, store' = store,
         label # "idle",
         label \in {"wallet", "pending"} => flows[f].pc \in {"wallet", "pending"},
         label \in Deployments => flows[f].pc \in Deployments,
         label \in Kept => flows[f].pc \in Kept,
         label \in Complete => flows[f].pc \in Complete
  PROVE  CreationInv'
<1>1. FlowsOK /\ FlowInv(f)
  BY DEF CreationInv
<1>2. /\ FlowsOK' /\ \A g \in Flows \ {f} : SameFlow(g)
      /\ flows'[f].pc = label /\ flows'[f].offer = flows[f].offer
      /\ flows'[f].value = flows[f].value /\ flows'[f].election = flows[f].election
  BY <1>1, Moved
<1>3. FlowInv(f)'
  BY <1>1, <1>2 DEF FlowInv, At
<1> QED
  BY <1>2, <1>3, Nothing, Step

(* The election of f is deployed. *)
LEMMA Registers ==
  ASSUME CreationInv, NEW a \in Accounts, NEW value, NEW offer, createElection(a, value, offer)
  PROVE  /\ RegistryOK' /\ Len(elections') <= MaxElections /\ RegistryGrows
         /\ Len(elections') = Len(elections) + 1
         /\ DOMAIN elections' \ DOMAIN elections = {Len(elections')}
         /\ elections'[Len(elections')] =
              [admin |-> a, offer |-> offer, committee |-> NoCommittee]
<1> DEFINE new == [admin |-> a, offer |-> offer, committee |-> NoCommittee]
<1>1. PICK O : elections \in Seq(ElectionRecs(O))
  BY DEF CreationInv, RegistryOK
<1> DEFINE P == O \cup {offer, NoCommittee}
<1>2. ElectionRecs(O) \subseteq ElectionRecs(P) /\ new \in ElectionRecs(P)
  BY DEF ElectionRecs
<1>3. elections \in Seq(ElectionRecs(P))
  BY <1>1, <1>2, SeqWidens
<1>4. elections' = Append(elections, new)
  BY DEF createElection
<1> HIDE DEF P, new
<1>5. /\ elections' \in Seq(ElectionRecs(P)) /\ Len(elections') = Len(elections) + 1
      /\ DOMAIN elections' = 1 .. Len(elections) + 1
      /\ elections'[Len(elections) + 1] = new
      /\ \A e \in 1 .. Len(elections) : elections'[e] = elections[e]
  BY <1>2, <1>3, <1>4
<1>6. Len(elections) \in Nat /\ DOMAIN elections = 1 .. Len(elections)
  BY <1>1
<1>7. RegistryOK' /\ RegistryGrows
  BY <1>5, <1>6 DEF RegistryOK, RegistryGrows
<1>8. Len(elections) + 1 <= MaxElections
  BY <1>6, FlowAssumption DEF createElection
<1>9. DOMAIN elections' \ DOMAIN elections = {Len(elections) + 1}
  BY <1>5, <1>6
<1> QED
  BY <1>5, <1>7, <1>8, <1>9 DEF new

-----------------------------------------------------------------------------
(* The actions. *)

LEMMA FlowInvHolds == CreationInv => FlowsOK /\ \A f \in Flows : FlowInv(f)
BY DEF CreationInv

LEMMA ClickKeeps ==
  ASSUME CreationInv, NEW f \in Flows, CreateClick(f)
  PROVE  CreationInv'
<1>1. PICK O : flows \in [Flows -> FlowRecs(O)]
  BY FlowInvHolds DEF FlowsOK
<1> DEFINE offer == Offer(f, form)
           r == [flows[f] EXCEPT !.pc = "fee", !.running = TRUE, !.offer = offer]
<1>2. flows' = [flows EXCEPT ![f] = r] /\ elections' = elections /\ store' = store
  BY DEF CreateClick, factoryVars
<1>3. /\ r \in FlowRecs(O \cup {offer}) /\ r.pc = "fee" /\ r.election = flows[f].election
  <2> HIDE DEF offer
  <2> QED
    BY <1>1 DEF FlowRecs, Labels
<1> HIDE DEF r
<1>4. FlowsOK' /\ flows'[f] = r /\ \A g \in Flows \ {f} : flows'[g] = flows[g]
  BY <1>2, <1>3, FlowInvHolds, Update
<1>5. flows[f].election = 0
  BY FlowInvHolds DEF FlowInv, CreateClick
<1>6. FlowInv(f)'
  BY <1>3, <1>4, <1>5 DEF FlowInv, At, Deployments, Kept, Complete
<1>7. \A g \in Flows \ {f} : SameFlow(g)
  BY <1>4 DEF SameFlow
<1> QED
  BY <1>2, <1>4, <1>6, <1>7, Nothing, Step

LEMMA FeeKeeps ==
  ASSUME CreationInv, MoneyInv, NEW f \in Flows, ReadFee(f)
  PROVE  CreationInv'
<1>1. PICK O : flows \in [Flows -> FlowRecs(O)]
  BY FlowInvHolds DEF FlowsOK
<1> DEFINE r == [flows[f] EXCEPT !.pc = "wallet", !.value = creationFee]
<1>2. flows' = [flows EXCEPT ![f] = r] /\ elections' = elections /\ store' = store
  BY DEF ReadFee, factoryVars
<1>3. /\ r \in FlowRecs(O) /\ r.pc = "wallet" /\ r.election = flows[f].election
      /\ r.value \in Fees /\ r.offer = flows[f].offer
  BY <1>1 DEF FlowRecs, Labels, MoneyInv
<1> HIDE DEF r
<1>4. FlowsOK' /\ flows'[f] = r /\ \A g \in Flows \ {f} : flows'[g] = flows[g]
  BY <1>2, <1>3, FlowInvHolds, Update
<1>5. FlowInv(f)'
  BY <1>2, <1>3, <1>4, FlowInvHolds DEF FlowInv, At, Deployments, Kept, Complete
<1>6. \A g \in Flows \ {f} : SameFlow(g)
  BY <1>4 DEF SameFlow
<1> QED
  BY <1>2, <1>4, <1>5, <1>6, Nothing, Step

LEMMA ApproveKeeps ==
  ASSUME CreationInv, NEW f \in Flows, Approve(f)
  PROVE  CreationInv'
<1>1. elections' = elections /\ store' = store
  BY DEF Approve, factoryVars
<1>2. CASE At(f, "wallet") /\ Goto(f, "pending")
  BY <1>1, <1>2, PlainMove DEF At, Labels, Deployments, Kept, Complete
<1>3. CASE At(f, "setup") /\ Goto(f, "setupPending")
  BY <1>1, <1>3, PlainMove DEF At, Labels, Deployments, Kept, Complete
<1> QED
  BY <1>2, <1>3 DEF Approve, Awaits

(* The deployment is mined: the new place in the registry is f's.          *)
LEMMA MineKeeps ==
  ASSUME CreationInv, NEW f \in Flows, Mine(f)
  PROVE  CreationInv'
<1>1. CASE Deployable(flows[f].value, flows[f].offer)
  <2> DEFINE e == Len(elections')
             r == [flows[f] EXCEPT !.pc = "mined", !.election = e]
  <2>1. PICK O : flows \in [Flows -> FlowRecs(O)]
    BY FlowInvHolds DEF FlowsOK
  <2>2. /\ createElection(Creator, flows[f].value, flows[f].offer)
        /\ flows' = [flows EXCEPT ![f] = r] /\ store' = store
    BY <1>1 DEF Mine
  <2>3. /\ RegistryOK' /\ e <= MaxElections /\ RegistryGrows
        /\ e = Len(elections) + 1
        /\ DOMAIN elections' \ DOMAIN elections = {e}
        /\ elections'[e] =
             [admin |-> Creator, offer |-> flows[f].offer, committee |-> NoCommittee]
    BY <2>2, CreatorAssumption, Registers
  <2>4. e \in 1..MaxElections
    BY <2>3, DomainOfRegistry, FlowAssumption DEF CreationInv
  <2>5. StoreOK' /\ StoreGrows
    BY <2>2 DEF CreationInv, StoreOK, StoreGrows
  <2> HIDE DEF e
  <2>6. /\ r \in FlowRecs(O) /\ r.pc = "mined" /\ r.election = e /\ r.offer = flows[f].offer
    <3>1. flows[f] \in FlowRecs(O) /\ e \in 0..MaxElections
      BY <2>1, <2>4, FlowAssumption
    <3> QED
      BY <3>1 DEF FlowRecs, Labels
  <2> HIDE DEF r
  <2>7. FlowsOK' /\ flows'[f] = r /\ \A g \in Flows \ {f} : flows'[g] = flows[g]
    BY <2>2, <2>6, FlowInvHolds, Update
  <2>8. FlowInv(f)'
    BY <2>3, <2>4, <2>6, <2>7 DEF FlowInv, At, Deployments, Kept, Complete
  <2>9. /\ \A g \in Flows \ {f} : SameFlow(g)
        /\ \A d \in DOMAIN elections' \ DOMAIN elections :
             elections'[d].committee = NoCommittee
    BY <2>3, <2>7 DEF SameFlow
  <2> QED
    BY <2>3, <2>5, <2>7, <2>8, <2>9, Step DEF e
<1>2. CASE ~Deployable(flows[f].value, flows[f].offer)
  BY <1>2, PlainMove DEF Mine, factoryVars, Labels, Deployments, Kept, Complete
<1> QED
  BY <1>1, <1>2

(* The receipt: what is stored goes under the election of this creation.   *)
LEMMA ReceiptKeeps ==
  ASSUME CreationInv, NEW f \in Flows, Receipt(f)
  PROVE  CreationInv'
<1> DEFINE e == flows[f].election
<1>1. /\ FlowsOK /\ FlowInv(f) /\ flows[f].pc = "mined" /\ elections' = elections
      /\ store' = [store EXCEPT ![e] = flows[f].offer]
  BY FlowInvHolds DEF Receipt, Awaits, At, Deployed, factoryVars
<1>2. /\ e \in DOMAIN elections
      /\ elections[e].admin = Creator /\ elections[e].offer = flows[f].offer
  BY <1>1 DEF FlowInv, Deployments
<1>3. e \in 1..MaxElections
  BY <1>2, DomainOfRegistry, FlowAssumption DEF CreationInv
<1>4. PICK O : store \in [1..MaxElections -> O]
  BY DEF CreationInv, StoreOK
<1>5. store' \in [1..MaxElections -> O \cup {flows[f].offer}] /\ store'[e] = flows[f].offer
  BY <1>1, <1>3, <1>4
<1>6. StoreGrows
  BY <1>1, <1>2, <1>4 DEF StoreGrows
<1>7. StoreOK'
  BY <1>5 DEF StoreOK
<1>8. /\ RegistryOK' /\ Len(elections') <= MaxElections /\ RegistryGrows
      /\ DOMAIN elections' \ DOMAIN elections = {}
  BY <1>1 DEF CreationInv, RegistryOK, RegistryGrows
<1>9. PICK label \in {"listing", "setup"} :
        /\ Goto(f, label)
        /\ label = "listing" => flows[f].offer.committee = NoCommittee
  BY DEF Receipt
<1>10. /\ FlowsOK' /\ \A g \in Flows \ {f} : SameFlow(g)
       /\ flows'[f].pc = label /\ flows'[f].offer = flows[f].offer
       /\ flows'[f].value = flows[f].value /\ flows'[f].election = e
  BY <1>1, <1>9, Moved DEF Labels
<1>11. label = "listing" => elections[e].committee = flows[f].offer.committee
  BY <1>2, <1>9 DEF CreationInv, CommitteesOK
<1>12. e # 0
  BY <1>3
<1> HIDE DEF e
<1>13. FlowInv(f)'
  BY <1>1, <1>2, <1>5, <1>9, <1>10, <1>11, <1>12 DEF FlowInv, At, Complete
<1> QED
  BY <1>6, <1>7, <1>8, <1>10, <1>13, Step

(* The committee is set up, once and as offered; the contract refuses else. *)
LEMMA SetupKeeps ==
  ASSUME CreationInv, NEW f \in Flows, MineSetup(f)
  PROVE  CreationInv'
<1>1. store' = store
  BY DEF MineSetup
<1>2. CASE /\ elections[flows[f].election].committee = NoCommittee
           /\ elections' = [elections EXCEPT ![flows[f].election].committee =
                                                flows[f].offer.committee]
           /\ Goto(f, "setupMined")
  <2> DEFINE e == flows[f].election
             c == flows[f].offer.committee
             new == [elections[e] EXCEPT !.committee = c]
  <2>1. /\ FlowsOK /\ FlowInv(f) /\ flows[f].pc = "setupPending"
    BY FlowInvHolds DEF MineSetup, At
  <2>2. /\ e \in DOMAIN elections /\ store[e] = flows[f].offer
        /\ elections[e].admin = Creator /\ elections[e].offer = flows[f].offer
    BY <2>1 DEF FlowInv, Deployments, Kept
  <2>3. PICK O : elections \in Seq(ElectionRecs(O))
    BY DEF CreationInv, RegistryOK
  <2> DEFINE P == O \cup {c}
  <2>4. elections' = [elections EXCEPT ![e] = new]
    BY <1>2
  <2>5. e \in 1 .. Len(elections) /\ DOMAIN elections = 1 .. Len(elections)
    BY <2>2, <2>3
  <2>6. elections \in Seq(ElectionRecs(P))
    <3>1. ElectionRecs(O) \subseteq ElectionRecs(P)
      BY DEF ElectionRecs
    <3> QED
      BY <2>3, <3>1, SeqWidens
  <2>7. /\ new \in ElectionRecs(P) /\ new.admin = elections[e].admin
        /\ new.offer = elections[e].offer /\ new.committee = c
    <3>1. elections[e] \in ElectionRecs(O)
      BY <2>3, <2>5
    <3> HIDE DEF e, c
    <3> QED
      BY <3>1 DEF ElectionRecs
  <2> HIDE DEF P, new
  <2>8. /\ elections' \in Seq(ElectionRecs(P)) /\ Len(elections') = Len(elections)
        /\ DOMAIN elections' = DOMAIN elections /\ elections'[e] = new
        /\ \A d \in DOMAIN elections \ {e} : elections'[d] = elections[d]
    BY <2>4, <2>5, <2>6, <2>7
  <2>9. RegistryOK' /\ Len(elections') <= MaxElections
    BY <2>8 DEF CreationInv, RegistryOK
  <2>10. elections[e].committee = NoCommittee /\ c = elections[e].offer.committee
    BY <1>2, <2>2
  <2>11. RegistryGrows
    BY <2>7, <2>8, <2>10 DEF RegistryGrows
  <2>12. StoreOK' /\ StoreGrows
    BY <1>1 DEF CreationInv, StoreOK, StoreGrows
  <2>13. /\ FlowsOK' /\ \A g \in Flows \ {f} : SameFlow(g)
         /\ flows'[f].pc = "setupMined" /\ flows'[f].offer = flows[f].offer
         /\ flows'[f].value = flows[f].value /\ flows'[f].election = e
    BY <1>2, <2>1, Moved DEF Labels
  <2>14. e # 0
    BY <2>1 DEF FlowInv, Deployments
  <2>15. FlowInv(f)'
    <3> HIDE DEF e
    <3> QED
      BY <1>1, <2>2, <2>7, <2>8, <2>13, <2>14 DEF FlowInv, At
  <2> QED
    BY <2>8, <2>9, <2>11, <2>12, <2>13, <2>15, Step
<1>3. CASE Goto(f, "reverted") /\ UNCHANGED elections
  BY <1>1, <1>3, PlainMove DEF Labels, Deployments, Kept, Complete
<1> QED
  BY <1>2, <1>3 DEF MineSetup

LEMMA AnnounceKeeps ==
  ASSUME CreationInv, NEW f \in Flows, Announce(f)
  PROVE  CreationInv'
<1>1. flows[f].pc = "setupMined" /\ Goto(f, "listing")
  BY DEF Announce, Confirmed, At
<1>2. elections' = elections /\ store' = store
  BY DEF Announce, factoryVars
<1> QED
  BY <1>1, <1>2, PlainMove DEF Labels, Deployments, Kept, Complete

(* The handler ends; what it was at stays as it is.                        *)
LEMMA FailKeeps ==
  ASSUME CreationInv, NEW f \in Flows, Fail(f)
  PROVE  CreationInv'
<1>1. PICK O : flows \in [Flows -> FlowRecs(O)]
  BY FlowInvHolds DEF FlowsOK
<1> DEFINE r == [flows[f] EXCEPT !.running = FALSE]
<1>2. flows' = [flows EXCEPT ![f] = r] /\ elections' = elections /\ store' = store
  BY DEF Fail, factoryVars
<1>3. /\ r \in FlowRecs(O) /\ r.pc = flows[f].pc /\ r.offer = flows[f].offer
      /\ r.value = flows[f].value /\ r.election = flows[f].election
  BY <1>1 DEF FlowRecs
<1> HIDE DEF r
<1>4. FlowsOK' /\ flows'[f] = r /\ \A g \in Flows \ {f} : flows'[g] = flows[g]
  BY <1>2, <1>3, FlowInvHolds, Update
<1>5. \A g \in Flows : SameFlow(g)
  BY <1>3, <1>4 DEF SameFlow
<1>6. FlowInv(f)'
  BY <1>2, <1>5, Nothing, Undisturbed
<1> QED
  BY <1>2, <1>4, <1>5, <1>6, Nothing, Step

LEMMA EndKeeps ==
  ASSUME CreationInv, NEW f \in Flows, EndLoad(f)
  PROVE  CreationInv'
<1>1. PICK O : flows \in [Flows -> FlowRecs(O)]
  BY FlowInvHolds DEF FlowsOK
<1> DEFINE r == [flows[f] EXCEPT !.pc = "done", !.running = FALSE]
<1>2. /\ flows' = [flows EXCEPT ![f] = r] /\ elections' = elections /\ store' = store
      /\ flows[f].pc = "listing"
  BY DEF EndLoad, Awaits, At, factoryVars
<1>3. /\ r \in FlowRecs(O) /\ r.pc = "done" /\ r.offer = flows[f].offer
      /\ r.election = flows[f].election
  BY <1>1 DEF FlowRecs, Labels
<1> HIDE DEF r
<1>4. FlowsOK' /\ flows'[f] = r /\ \A g \in Flows \ {f} : flows'[g] = flows[g]
  BY <1>2, <1>3, FlowInvHolds, Update
<1>5. FlowInv(f)'
  BY <1>2, <1>3, <1>4, FlowInvHolds DEF FlowInv, At, Deployments, Kept, Complete
<1>6. \A g \in Flows \ {f} : SameFlow(g)
  BY <1>4 DEF SameFlow
<1> QED
  BY <1>2, <1>4, <1>5, <1>6, Nothing, Step

(* No creation moves: the page is left, others act, the form is edited.    *)
LEMMA Still ==
  ASSUME CreationInv, FlowsOK', RegistryOK', StoreOK', Len(elections') <= MaxElections,
         RegistryGrows, StoreGrows, \A g \in Flows : SameFlow(g),
         \A e \in DOMAIN elections' \ DOMAIN elections : elections'[e].committee = NoCommittee
  PROVE  CreationInv'
<1>1. \A g \in Flows : FlowInv(g)'
  BY Undisturbed
<1> QED
  BY <1>1, RegistryKept DEF CreationInv

LEMMA ReloadKeeps ==
  ASSUME CreationInv, Reload
  PROVE  CreationInv'
<1>1. PICK O : flows \in [Flows -> FlowRecs(O)]
  BY FlowInvHolds DEF FlowsOK
<1>2. elections' = elections /\ store' = store
  BY DEF Reload, factoryVars
<1>3. flows' = [f \in Flows |-> [flows[f] EXCEPT !.running = FALSE]]
  BY DEF Reload
<1>4. ASSUME NEW g \in Flows
      PROVE  flows'[g] \in FlowRecs(O) /\ SameFlow(g)
  <2> DEFINE r == [flows[g] EXCEPT !.running = FALSE]
  <2>1. flows'[g] = r
    BY <1>3
  <2>2. /\ r \in FlowRecs(O) /\ r.pc = flows[g].pc /\ r.offer = flows[g].offer
        /\ r.value = flows[g].value /\ r.election = flows[g].election
    BY <1>1 DEF FlowRecs
  <2> HIDE DEF r
  <2> QED
    BY <2>1, <2>2 DEF SameFlow
<1>5. FlowsOK'
  <2>1. flows' \in [Flows -> FlowRecs(O)]
    BY <1>3, <1>4
  <2> QED
    BY <2>1 DEF FlowsOK
<1> QED
  BY <1>2, <1>4, <1>5, Nothing, Still

LEMMA OthersKeep ==
  ASSUME CreationInv, OtherCreates
  PROVE  CreationInv'
<1>1. PICK a \in Accounts : createElection(a, creationFee, Offer(0, initialState))
  BY DEF OtherCreates
<1>2. flows' = flows /\ store' = store
  BY DEF OtherCreates, page
<1>3. FlowsOK' /\ StoreOK' /\ StoreGrows /\ \A g \in Flows : SameFlow(g)
  BY <1>2 DEF CreationInv, FlowsOK, StoreOK, StoreGrows, SameFlow
<1> DEFINE offer == Offer(0, initialState)
<1> HIDE DEF offer
<1>4. createElection(a, creationFee, offer)
  BY <1>1 DEF offer
<1>5. /\ RegistryOK' /\ Len(elections') <= MaxElections /\ RegistryGrows
      /\ DOMAIN elections' \ DOMAIN elections = {Len(elections')}
      /\ elections'[Len(elections')] =
           [admin |-> a, offer |-> offer, committee |-> NoCommittee]
  BY <1>4, Registers
<1>6. \A e \in DOMAIN elections' \ DOMAIN elections : elections'[e].committee = NoCommittee
  BY <1>5
<1> QED
  BY <1>3, <1>5, <1>6, Still

LEMMA RestKeeps ==
  ASSUME CreationInv, UNCHANGED <<elections, flows, store>>
  PROVE  CreationInv'
<1>1. FlowsOK' /\ \A g \in Flows : SameFlow(g)
  BY DEF CreationInv, FlowsOK, SameFlow
<1> QED
  BY <1>1, Nothing, Still

(* The money, under what this page and others do.                          *)
LEMMA MoneyKept ==
  ASSUME CreationInv, MoneyInv, CreationNext
  PROVE  MoneyInv'
<1>1. CASE \E f \in Flows : Mine(f)
  <2>1. PICK f \in Flows : Mine(f)
    BY <1>1
  <2>2. CASE Deployable(flows[f].value, flows[f].offer)
    <3>1. flows[f].value \in Fees
      BY <2>1, FlowInvHolds DEF FlowInv, Mine, At
    <3>2. createElection(Creator, flows[f].value, flows[f].offer)
      BY <2>1, <2>2 DEF Mine
    <3> QED
      BY <3>1, <3>2, Deployment
  <2>3. CASE ~Deployable(flows[f].value, flows[f].offer)
    BY <2>1, <2>3 DEF Mine, MoneyInv, FeesExact, factoryVars
  <2> QED
    BY <2>2, <2>3
<1>2. CASE OtherCreates
  <2>1. PICK a \in Accounts : createElection(a, creationFee, Offer(0, initialState))
    BY <1>2 DEF OtherCreates
  <2> DEFINE offer == Offer(0, initialState)
  <2> HIDE DEF offer
  <2>2. createElection(a, creationFee, offer)
    BY <2>1 DEF offer
  <2> QED
    BY <2>2, Deployment DEF MoneyInv
<1>3. CASE OwnerActs
  BY <1>3, Administration DEF OwnerActs
<1>4. CASE UNCHANGED <<creationFee, balance, withdrawn, charged>>
  BY <1>4 DEF MoneyInv, FeesExact
<1>5. \/ \E f \in Flows : Mine(f)
      \/ OtherCreates \/ OwnerActs \/ UNCHANGED <<creationFee, balance, withdrawn, charged>>
  <2>1. ASSUME NEW f \in Flows, CreateClick(f) \/ PageStep(f) \/ MineSetup(f)
        PROVE  UNCHANGED <<creationFee, balance, withdrawn, charged>>
    BY <2>1 DEF CreateClick, PageStep, ReadFee, Approve, Receipt, Announce, Fail, EndLoad,
                MineSetup, factoryVars
  <2>2. UseWizard \/ TokenLookedUp \/ NewClick \/ Reload
        => UNCHANGED <<creationFee, balance, withdrawn, charged>>
    BY DEF UseWizard, TokenLookedUp, NewClick, Reload, factoryVars
  <2> QED
    BY <2>1, <2>2 DEF CreationNext
<1> QED
  BY <1>1, <1>2, <1>3, <1>4, <1>5

LEMMA CreationKept ==
  ASSUME CreationInv, MoneyInv, CreationNext
  PROVE  CreationInv'
<1>1. ASSUME NEW f \in Flows, CreateClick(f) \/ PageStep(f) \/ Mine(f) \/ MineSetup(f)
      PROVE  CreationInv'
  <2>1. CASE CreateClick(f)
    BY <2>1, ClickKeeps
  <2>2. CASE ReadFee(f)
    BY <2>2, FeeKeeps
  <2>3. CASE Approve(f)
    BY <2>3, ApproveKeeps
  <2>4. CASE Receipt(f)
    BY <2>4, ReceiptKeeps
  <2>5. CASE Announce(f)
    BY <2>5, AnnounceKeeps
  <2>6. CASE Fail(f)
    BY <2>6, FailKeeps
  <2>7. CASE EndLoad(f)
    BY <2>7, EndKeeps
  <2>8. CASE Mine(f)
    BY <2>8, MineKeeps
  <2>9. CASE MineSetup(f)
    BY <2>9, SetupKeeps
  <2> QED
    BY <1>1, <2>1, <2>2, <2>3, <2>4, <2>5, <2>6, <2>7, <2>8, <2>9 DEF PageStep
<1>2. CASE UseWizard \/ TokenLookedUp \/ NewClick \/ OwnerActs
  <2>1. UNCHANGED <<elections, flows, store>>
    BY <1>2 DEF UseWizard, TokenLookedUp, NewClick, OwnerActs, page, factoryVars,
                withdraw, setCreationFee
  <2> QED
    BY <2>1, RestKeeps
<1> QED
  BY <1>1, <1>2, ReloadKeeps, OthersKeep DEF CreationNext

LEMMA CreationStart == CreationInit => MoneyInv /\ CreationInv
<1> SUFFICES ASSUME CreationInit PROVE MoneyInv /\ CreationInv
  OBVIOUS
<1>1. MoneyInv
  BY FeeAssumption DEF CreationInit, FactoryInit, MoneyInv, FeesExact
<1>2. elections = <<>> /\ store = [e \in 1..MaxElections |-> None]
  BY DEF CreationInit, FactoryInit
<1>3. FlowsOK /\ \A f \in Flows : FlowInv(f)
  <2> DEFINE r == [pc |-> "idle", running |-> FALSE, offer |-> None,
                   value |-> None, election |-> 0]
  <2>1. flows = [f \in Flows |-> r]
    BY DEF CreationInit
  <2>2. r \in FlowRecs({None})
    BY FlowAssumption DEF FlowRecs, Labels
  <2>3. flows \in [Flows -> FlowRecs({None})]
    <3> HIDE DEF r
    <3> QED
      BY <2>1, <2>2
  <2>4. FlowsOK
    BY <2>3 DEF FlowsOK
  <2>5. \A f \in Flows : FlowInv(f)
    BY <2>1 DEF FlowInv, At, Deployments, Kept, Complete
  <2> QED
    BY <2>4, <2>5
<1>4. RegistryOK /\ Len(elections) = 0 /\ DOMAIN elections = {}
  <2>1. elections \in Seq(ElectionRecs({})) /\ Len(elections) = 0
    BY <1>2
  <2> QED
    BY <2>1 DEF RegistryOK
<1>5. StoreOK
  <2>1. store \in [1..MaxElections -> {None}]
    BY <1>2
  <2> QED
    BY <2>1 DEF StoreOK
<1>6. CommitteesOK /\ StoredUnderOwnElection
  BY <1>2, <1>4 DEF CommitteesOK, StoredUnderOwnElection
<1> QED
  BY <1>1, <1>3, <1>4, <1>5, <1>6, FlowAssumption DEF CreationInv

(* The creations, the registry, the browser and the factory's money: the   *)
(* inductive invariant behind the theorems about them.                     *)
THEOREM CreationInvariant == CreationSpec => [](MoneyInv /\ CreationInv)
<1>1. MoneyInv /\ CreationInv /\ [CreationNext]_creationVars => (MoneyInv /\ CreationInv)'
  <2> SUFFICES ASSUME MoneyInv, CreationInv, [CreationNext]_creationVars
               PROVE  MoneyInv' /\ CreationInv'
    OBVIOUS
  <2>1. CASE CreationNext
    BY <2>1, MoneyKept, CreationKept
  <2>2. CASE UNCHANGED creationVars
    <3>1. UNCHANGED <<elections, flows, store, creationFee, balance, withdrawn, charged>>
      BY <2>2 DEF creationVars, factoryVars, page
    <3>2. MoneyInv'
      BY <3>1 DEF MoneyInv, FeesExact
    <3> QED
      BY <3>1, <3>2, RestKeeps
  <2> QED
    BY <2>1, <2>2
<1> QED
  BY <1>1, CreationStart, PTL DEF CreationSpec

(* The factory keeps the fees in force, whatever fee a creation had read   *)
(* before its wallet answered (SpectreVotingFactory.sol, app/page.tsx).    *)
THEOREM CreationFees == CreationSpec => []FeesExact
<1>1. MoneyInv => FeesExact
  BY DEF MoneyInv
<1> QED
  BY <1>1, CreationInvariant, PTL

(* The keys, codes and metadata of a creation are stored under the address *)
(* of its own election (app/page.tsx createElection), for any number of    *)
(* overlapping creations and of other users' elections.                    *)
THEOREM OwnElectionStored == CreationSpec => []StoredUnderOwnElection
<1>1. CreationInv => StoredUnderOwnElection
  BY DEF CreationInv
<1> QED
  BY <1>1, CreationInvariant, PTL

(* An election announced as created has its admin, its stored keys and its *)
(* committee (app/page.tsx createElection).                                *)
THEOREM CompleteWhenAnnounced == CreationSpec => []AnnouncedComplete
<1>1. CreationInv => AnnouncedComplete
  <2> SUFFICES ASSUME CreationInv, NEW f \in Flows, flows[f].pc \in {"listing", "done"}
               PROVE  LET e == flows[f].election
                      IN /\ isElection(e) /\ elections[e].admin = Creator
                         /\ store[e] = flows[f].offer
                         /\ elections[e].committee = elections[e].offer.committee
    BY DEF AnnouncedComplete
  <2> QED
    BY FlowInvHolds DEF FlowInv, Deployments, Kept, Complete, isElection
<1> QED
  BY <1>1, CreationInvariant, PTL


-----------------------------------------------------------------------------
(* What the creations send.                                                *)

(* The forms that the page creates an election from.                       *)
Submittable(f) ==
  /\ f \in Forms
  /\ f.threshold \in 2 .. Len(f.committeeMembers)
  /\ f.gateType = "token-gate" => f.tokenAddress # None
  /\ f.encryptionMode = "threshold" => f.threshold <= Len(validCommitteeMembers(f))

(* Everything that is ever sent: the offers of such forms, and what others *)
(* create.                                                                 *)
Sent ==
  {Offer(n, f) : n \in Flows, f \in {g \in Forms : Submittable(g)}}
    \cup {Offer(0, initialState)}

SentInv ==
  /\ \A f \in Flows : IF At(f, "idle") THEN flows[f].offer = None ELSE flows[f].offer \in Sent
  /\ \A e \in DOMAIN elections : elections[e].offer \in Sent

LEMMA ValidMembers ==
  ASSUME NEW f \in Forms
  PROVE  validCommitteeMembers(f) \in Seq(Members) /\ Len(validCommitteeMembers(f)) \in Nat
<1> DEFINE s == f.committeeMembers
           I == {i \in DOMAIN s : IsValid(s[i])}
<1>1. s \in Seq(Members \cup {Blank})
  BY DEF Forms, CommitteeForms
<1>2. I \in SUBSET (1 .. Len(s)) /\ \A i \in I : s[i] \in Members
  BY <1>1 DEF IsValid
<1>3. validCommitteeMembers(f) = Subsequence(s, I)
  BY DEF validCommitteeMembers
<1> HIDE DEF I, s
<1>4. Subsequence(s, I) \in Seq(Members)
  BY <1>1, <1>2, SubsequenceType
<1> QED
  BY <1>3, <1>4

LEMMA InitialSubmittable == Submittable(initialState)
<1>1. /\ initialState \in Forms
      /\ initialState.threshold \in 2 .. Len(initialState.committeeMembers)
  BY InitialForm DEF FormOK
<1>2. initialState.gateType = "open" /\ initialState.encryptionMode = "single"
  BY DEF initialState
<1> QED
  BY <1>1, <1>2 DEF Submittable

LEMMA SentFrom ==
  ASSUME NEW o \in Sent
  PROVE  \E n \in Nat, f \in Forms : Submittable(f) /\ o = Offer(n, f)
<1>1. CASE o = Offer(0, initialState)
  BY <1>1, InitialSubmittable DEF Submittable
<1>2. CASE \E n \in Flows, f \in Forms : Submittable(f) /\ o = Offer(n, f)
  BY <1>2 DEF Flows
<1> QED
  BY <1>1, <1>2 DEF Sent

(* The click sends the offer of a form that could be submitted. *)
LEMMA ClickSends ==
  ASSUME FormInv, NEW f \in Flows, CreateClick(f)
  PROVE  Offer(f, form) \in Sent
<1>1. form \in Forms /\ form.threshold \in 2 .. Len(form.committeeMembers)
  BY FormInvMeans DEF FormOK
<1>2. form.gateType = "token-gate" => form.tokenAddress # None
  BY DEF CreateClick, canCreate, CanProceed
<1>3. form.encryptionMode = "threshold" => form.threshold <= Len(validCommitteeMembers(form))
  BY DEF CreateClick, Reachable, InCommittee
<1>4. Submittable(form)
  BY <1>1, <1>2, <1>3, Zenon DEF Submittable
<1>5. form \in {g \in Forms : Submittable(g)}
  BY <1>1, <1>4
<1> QED
  BY <1>5 DEF Sent

(* A step in which no creation is started. *)
LEMMA OffersKept ==
  ASSUME SentInv, CreationInv,
         \A g \in Flows : flows'[g].offer = flows[g].offer /\ (At(g, "idle")' <=> At(g, "idle"))
  PROVE  \A g \in Flows :
           IF At(g, "idle")' THEN flows'[g].offer = None ELSE flows'[g].offer \in Sent
BY DEF SentInv

LEMMA SentStep == FormInv /\ CreationInv /\ SentInv /\ [CreationNext]_creationVars => SentInv'
<1> SUFFICES ASSUME FormInv, CreationInv, SentInv, [CreationNext]_creationVars
             PROVE  SentInv'
  OBVIOUS
<1>1. PICK O : flows \in [Flows -> FlowRecs(O)]
  BY FlowInvHolds DEF FlowsOK
<1>2. ASSUME \A g \in Flows :
               flows'[g].offer = flows[g].offer /\ (flows'[g].pc = "idle" <=> flows[g].pc = "idle"),
             \A e \in DOMAIN elections' :
               \/ e \in DOMAIN elections /\ elections'[e].offer = elections[e].offer
               \/ elections'[e].offer \in Sent
      PROVE  SentInv'
  BY <1>2 DEF SentInv, At
<1>3. ASSUME elections' = elections
      PROVE  \A e \in DOMAIN elections' :
               e \in DOMAIN elections /\ elections'[e].offer = elections[e].offer
  BY <1>3
<1>4. ASSUME flows' = flows
      PROVE  \A g \in Flows : flows'[g].offer = flows[g].offer
                              /\ (flows'[g].pc = "idle" <=> flows[g].pc = "idle")
  BY <1>4
<1>5. ASSUME NEW f \in Flows, NEW label, Goto(f, label), label # "idle", flows[f].pc # "idle"
      PROVE  \A g \in Flows : flows'[g].offer = flows[g].offer
                              /\ (flows'[g].pc = "idle" <=> flows[g].pc = "idle")
  BY <1>1, <1>5 DEF Goto, FlowRecs
<1>6. ASSUME NEW f \in Flows, CreateClick(f)
      PROVE  SentInv'
  <2> DEFINE offer == Offer(f, form)
  <2>1. offer \in Sent
    BY <1>6, ClickSends
  <2> HIDE DEF offer
  <2>2. /\ elections' = elections
        /\ flows' = [flows EXCEPT ![f].pc = "fee", ![f].running = TRUE, ![f].offer = offer]
    BY <1>6 DEF CreateClick, factoryVars, offer
  <2>3. flows'[f].pc = "fee" /\ flows'[f].offer = offer /\ \A g \in Flows \ {f} : flows'[g] = flows[g]
    BY <1>1, <2>2 DEF FlowRecs
  <2> QED
    BY <2>1, <2>2, <2>3 DEF SentInv, At
<1>7. ASSUME NEW f \in Flows, PageStep(f)
      PROVE  SentInv'
  <2>1. elections' = elections
    BY <1>7 DEF PageStep, ReadFee, Approve, Receipt, Announce, Fail, EndLoad, factoryVars
  <2>2. \A g \in Flows : flows'[g].offer = flows[g].offer
                         /\ (flows'[g].pc = "idle" <=> flows[g].pc = "idle")
    <3>1. CASE ReadFee(f)
      BY <1>1, <3>1 DEF ReadFee, Awaits, At, FlowRecs
    <3>2. CASE Approve(f)
      BY <1>5, <3>2 DEF Approve, Awaits, At
    <3>3. CASE Receipt(f)
      BY <1>5, <3>3 DEF Receipt, Awaits, At
    <3>4. CASE Announce(f)
      BY <1>5, <3>4 DEF Announce, Confirmed, At
    <3>5. CASE Fail(f)
      BY <1>1, <3>5 DEF Fail, FlowRecs
    <3>6. CASE EndLoad(f)
      BY <1>1, <3>6 DEF EndLoad, Awaits, At, FlowRecs
    <3> QED
      BY <1>7, <3>1, <3>2, <3>3, <3>4, <3>5, <3>6 DEF PageStep
  <2> QED
    BY <1>2, <1>3, <2>1, <2>2
<1>8. ASSUME NEW f \in Flows, Mine(f)
      PROVE  SentInv'
  <2>1. CASE Deployable(flows[f].value, flows[f].offer)
    <3>1. createElection(Creator, flows[f].value, flows[f].offer) /\ Creator \in Accounts
      BY <1>8, <2>1, CreatorAssumption DEF Mine
    <3>2. /\ RegistryOK' /\ Len(elections') <= MaxElections /\ RegistryGrows
          /\ Len(elections') = Len(elections) + 1
          /\ DOMAIN elections' \ DOMAIN elections = {Len(elections')}
          /\ elections'[Len(elections')] =
               [admin |-> Creator, offer |-> flows[f].offer, committee |-> NoCommittee]
      BY <3>1, Registers
    <3>3. flows[f].offer \in Sent /\ flows[f].pc = "pending"
      BY <1>8 DEF SentInv, Mine, At
    <3> DEFINE n == Len(elections')
    <3>4. flows' = [flows EXCEPT ![f].pc = "mined", ![f].election = n]
      BY <1>8, <2>1 DEF Mine
    <3> HIDE DEF n
    <3>5. \A g \in Flows : flows'[g].offer = flows[g].offer
                           /\ (flows'[g].pc = "idle" <=> flows[g].pc = "idle")
      BY <1>1, <3>3, <3>4 DEF FlowRecs
    <3>6. \A e \in DOMAIN elections' :
            \/ e \in DOMAIN elections /\ elections'[e].offer = elections[e].offer
            \/ elections'[e].offer \in Sent
      BY <3>2, <3>3 DEF RegistryGrows
    <3> QED
      BY <1>2, <3>5, <3>6
  <2>2. CASE ~Deployable(flows[f].value, flows[f].offer)
    <3>1. elections' = elections /\ Goto(f, "reverted") /\ flows[f].pc = "pending"
      BY <1>8, <2>2 DEF Mine, factoryVars, At
    <3> QED
      BY <1>2, <1>3, <1>5, <3>1
  <2> QED
    BY <2>1, <2>2
<1>9. ASSUME NEW f \in Flows, MineSetup(f)
      PROVE  SentInv'
  <2>1. \/ Goto(f, "setupMined") \/ Goto(f, "reverted")
    BY <1>9 DEF MineSetup
  <2>2. flows[f].pc = "setupPending"
    BY <1>9 DEF MineSetup, At
  <2>3. \A g \in Flows : flows'[g].offer = flows[g].offer
                         /\ (flows'[g].pc = "idle" <=> flows[g].pc = "idle")
    BY <1>5, <2>1, <2>2
  <2>4. PICK P : elections \in Seq(ElectionRecs(P))
    BY DEF CreationInv, RegistryOK
  <2> DEFINE n == flows[f].election
             c == flows[f].offer.committee
  <2>5. elections' = elections \/ elections' = [elections EXCEPT ![n].committee = c]
    BY <1>9 DEF MineSetup
  <2> HIDE DEF n, c
  <2>6. \A e \in DOMAIN elections' :
          e \in DOMAIN elections /\ elections'[e].offer = elections[e].offer
    <3>1. DOMAIN elections' = DOMAIN elections
      BY <2>5
    <3>2. ASSUME NEW e \in DOMAIN elections
          PROVE  elections'[e].offer = elections[e].offer
      <4> DEFINE old == elections[e]
      <4>1. old \in ElectionRecs(P)
        BY <2>4
      <4>2. elections'[e] \in {old, [old EXCEPT !.committee = c]}
        BY <2>5
      <4> HIDE DEF old
      <4>3. elections'[e].offer = old.offer
        BY <4>1, <4>2 DEF ElectionRecs
      <4> QED
        BY <4>3 DEF old
    <3> QED
      BY <3>1, <3>2
  <2> QED
    BY <1>2, <2>3, <2>6
<1>10. CASE Reload
  <2>1. elections' = elections /\ flows' = [f \in Flows |-> [flows[f] EXCEPT !.running = FALSE]]
    BY <1>10 DEF Reload, factoryVars
  <2>2. \A g \in Flows : flows'[g].offer = flows[g].offer
                         /\ (flows'[g].pc = "idle" <=> flows[g].pc = "idle")
    BY <1>1, <2>1 DEF FlowRecs
  <2> QED
    BY <1>2, <1>3, <2>1, <2>2
<1>11. CASE OtherCreates
  <2> DEFINE offer == Offer(0, initialState)
  <2>1. PICK a \in Accounts : createElection(a, creationFee, offer)
    BY <1>11 DEF OtherCreates
  <2>2. flows' = flows /\ offer \in Sent
    BY <1>11 DEF OtherCreates, page, Sent
  <2> HIDE DEF offer
  <2>3. /\ RegistryOK' /\ Len(elections') <= MaxElections /\ RegistryGrows
        /\ Len(elections') = Len(elections) + 1
        /\ DOMAIN elections' \ DOMAIN elections = {Len(elections')}
        /\ elections'[Len(elections')] =
             [admin |-> a, offer |-> offer, committee |-> NoCommittee]
    BY <2>1, Registers
  <2>4. \A e \in DOMAIN elections' :
          \/ e \in DOMAIN elections /\ elections'[e].offer = elections[e].offer
          \/ elections'[e].offer \in Sent
    BY <2>2, <2>3 DEF RegistryGrows
  <2> QED
    BY <1>2, <1>4, <2>2, <2>4
<1>12. CASE UseWizard \/ TokenLookedUp \/ NewClick \/ OwnerActs \/ UNCHANGED creationVars
  <2>1. elections' = elections /\ flows' = flows
    BY <1>12 DEF UseWizard, TokenLookedUp, NewClick, OwnerActs, page, factoryVars,
                 withdraw, setCreationFee, creationVars
  <2> QED
    BY <1>2, <1>3, <1>4, <2>1
<1> QED
  BY <1>6, <1>7, <1>8, <1>9, <1>10, <1>11, <1>12 DEF CreationNext

LEMMA SentStart == CreationInit => SentInv
<1> SUFFICES ASSUME CreationInit PROVE SentInv
  OBVIOUS
<1>1. \A f \in Flows : flows[f].pc = "idle" /\ flows[f].offer = None
  BY DEF CreationInit
<1>2. DOMAIN elections = {}
  BY DEF CreationInit, FactoryInit
<1> QED
  BY <1>1, <1>2 DEF SentInv, At


(* The form, the money, the registry and what was sent, together.          *)
CreationInd ==
  /\ FormInv /\ MoneyInv /\ CreationInv /\ SentInv
  /\ showCreate \in BOOLEAN

(* The same together with the form that offers come from: the whole        *)
(* inductive invariant.                                                    *)
THEOREM CreationInduction == CreationSpec => []CreationInd
<1>1. CreationInit => CreationInd
  BY FormStart, CreationStart, SentStart DEF CreationInd, CreationInit
<1>2. CreationInd /\ [CreationNext]_creationVars => CreationInd'
  <2> SUFFICES ASSUME CreationInd, [CreationNext]_creationVars
               PROVE  CreationInd'
    OBVIOUS
  <2>1. FormInv' /\ SentInv'
    BY FormStep, SentStep DEF CreationInd
  <2>2. MoneyInv' /\ CreationInv'
    <3>1. CASE CreationNext
      BY <3>1, MoneyKept, CreationKept DEF CreationInd
    <3>2. CASE UNCHANGED creationVars
      <4>1. UNCHANGED <<elections, flows, store, creationFee, balance, withdrawn, charged>>
        BY <3>2 DEF creationVars, factoryVars, page
      <4> QED
        BY <4>1, RestKeeps DEF CreationInd, MoneyInv, FeesExact
    <3> QED
      BY <3>1, <3>2
  <2>3. showCreate' \in BOOLEAN
    BY DEF CreationInd, CreationNext, UseWizard, TokenLookedUp, NewClick, CreateClick, PageStep,
           ReadFee, Approve, Receipt, Announce, Fail, EndLoad, Mine, MineSetup, Reload,
           OtherCreates, OwnerActs, creationVars, page
  <2> QED
    BY <2>1, <2>2, <2>3 DEF CreationInd
<1> QED
  BY <1>1, <1>2, PTL DEF CreationSpec

-----------------------------------------------------------------------------
(* The parameters of an election.                                          *)

Consistent(o) ==
  /\ o.numOptions >= 2
  /\ (o.key = None) = (o.committee # NoCommittee)
  /\ o.committee = NoCommittee \/ o.committee.threshold \in 2 .. Len(o.committee.members)
  /\ o.votingDeadline # 0 => o.votingDeadline > o.signupDeadline
  /\ o.gateType \in GaslessGates => o.gasless
  /\ o.gateType = "token-gate" => ~o.gasless /\ o.tokenAddress # None

LEMMA SentConsistent ==
  ASSUME NEW o \in Sent
  PROVE  Consistent(o) /\ o.committee \in Committees
<1>1. PICK n \in Nat, f \in Forms : Submittable(f) /\ o = Offer(n, f)
  BY SentFrom
<1> DEFINE valid == validCommitteeMembers(f)
           single == f.encryptionMode = "single"
<1>2. valid \in Seq(Members) /\ Len(valid) \in Nat
  BY ValidMembers
<1>3. valid \in Seq(Accounts)
  BY <1>2, CreatorAssumption, SeqWidens
<1> HIDE DEF valid
<1>4. /\ o.key = IF single THEN n ELSE None
      /\ o.committee = IF single THEN NoCommittee ELSE [threshold |-> f.threshold, members |-> valid]
      /\ o.numOptions = f.numOptions
      /\ o.signupDeadline = f.signupHours
      /\ o.votingDeadline = IF f.votingHours > 0 THEN f.signupHours + f.votingHours ELSE 0
      /\ o.gateType = f.gateType /\ o.gasless = effectiveGasless(f)
      /\ o.tokenAddress = f.tokenAddress
  BY <1>1 DEF Offer, Deadlines, valid
<1>5. /\ f.threshold \in Nat /\ f.threshold >= 2 /\ f.numOptions >= 2
      /\ f.signupHours \in Nat /\ f.votingHours \in Nat
      /\ ~single => f.threshold <= Len(valid)
      /\ f.gateType = "token-gate" => f.tokenAddress # None
  <2>1. f \in Forms /\ Submittable(f)
    BY <1>1
  <2>2. /\ f.threshold \in Nat /\ f.numOptions \in 2..MaxOptions
        /\ f.signupHours \in Nat /\ f.votingHours \in Nat
        /\ f.encryptionMode \in {"single", "threshold"}
    BY <2>1, SizeAssumption DEF Forms
  <2>3. /\ f.threshold \in 2 .. Len(f.committeeMembers)
        /\ f.gateType = "token-gate" => f.tokenAddress # None
        /\ f.encryptionMode = "threshold" => f.threshold <= Len(valid)
    BY <2>1, Zenon DEF Submittable, valid
  <2> QED
    BY <2>2, <2>3
<1>6. /\ o.gateType \in GaslessGates => o.gasless
      /\ o.gateType = "token-gate" => ~o.gasless /\ o.tokenAddress # None
      /\ o.numOptions >= 2
      /\ o.votingDeadline # 0 => o.votingDeadline > o.signupDeadline
  <2>1. f.gateType \in GaslessGates => effectiveGasless(f)
    BY DEF effectiveGasless, walletForced, gaslessForced, GaslessGates
  <2>2. f.gateType = "token-gate" => ~effectiveGasless(f)
    BY DEF effectiveGasless, walletForced
  <2>3. /\ o.gateType \in GaslessGates => o.gasless
        /\ o.gateType = "token-gate" => ~o.gasless
    BY <1>4, <2>1, <2>2, Zenon
  <2> QED
    BY <1>4, <1>5, <2>3
<1>7. CASE single
  <2>1. o.key = n /\ o.committee = NoCommittee /\ n # None
    BY <1>4, <1>7, FlowAssumption
  <2>2. NoCommittee \in Committees
    BY DEF Committees, NoCommittee
  <2> QED
    BY <1>6, <2>1, <2>2, Zenon DEF Consistent
<1>8. CASE ~single
  <2> DEFINE c == [threshold |-> f.threshold, members |-> valid]
  <2>1. /\ c.threshold = f.threshold /\ c.members = valid /\ c \in Committees
        /\ NoCommittee.threshold = 0
    BY <1>3, <1>5 DEF Committees, NoCommittee
  <2>2. o.key = None /\ o.committee = c
    BY <1>4, <1>8
  <2> HIDE DEF c
  <2>3. c # NoCommittee /\ c.threshold \in 2 .. Len(c.members)
    BY <1>2, <1>5, <1>8, <2>1
  <2> QED
    BY <1>6, <2>1, <2>2, <2>3, Zenon DEF Consistent
<1> QED
  BY <1>7, <1>8

(* Every election's parameters agree: a key or a committee with a          *)
(* threshold from 2 to the number of its slots, which may repeat an        *)
(* address, a vote that ends after the signup, relayed signup with the     *)
(* gates that need it (useElectionForm.ts, app/page.tsx), whatever had     *)
(* been edited and left in the form, for any number of creations.          *)
THEOREM ParametersAgree == CreationSpec => []OffersConsistent
<1>1. CreationInd => OffersConsistent
  <2> SUFFICES ASSUME CreationInd, NEW e \in DOMAIN elections
               PROVE  /\ Consistent(elections[e].offer)
                      /\ elections[e].committee \in {NoCommittee, elections[e].offer.committee}
    BY DEF OffersConsistent, Consistent
  <2> QED
    BY SentConsistent DEF CreationInd, SentInv, CreationInv, CommitteesOK
<1> QED
  BY <1>1, CreationInduction, PTL

(* The constant Offers has what is sent. *)
OffersSuffice == Sent \subseteq Offers

(* Whatever the page, the chain and others do, the state of the form, the  *)
(* factory, the creations and the browser has its types, if only Offers    *)
(* has the offers of the forms that can be submitted.                      *)
THEOREM CreationTypes == ASSUME OffersSuffice PROVE CreationSpec => []TypeOK
<1>1. CreationInd => TypeOK
  <2> SUFFICES ASSUME CreationInd PROVE TypeOK
    OBVIOUS
  <2>1. FormTypeOK /\ showCreate \in BOOLEAN
    BY DEF CreationInd, FormInv
  <2>2. FactoryTypeOK
    <3> DEFINE R == [admin : Accounts, offer : Offers, committee : Committees]
    <3>1. PICK O : elections \in Seq(ElectionRecs(O))
      BY DEF CreationInd, CreationInv, RegistryOK
    <3>2. ASSUME NEW e \in DOMAIN elections
          PROVE  elections[e] \in R
      <4> DEFINE r == elections[e]
      <4>1. r \in ElectionRecs(O)
        BY <3>1
      <4>2. r.offer \in Sent /\ r.committee \in {NoCommittee, r.offer.committee}
        BY DEF CreationInd, SentInv, CreationInv, CommitteesOK
      <4>3. r.offer \in Offers /\ r.committee \in Committees
        <5>1. NoCommittee \in Committees
          BY DEF NoCommittee, Committees
        <5> QED
          BY <4>2, <5>1, SentConsistent DEF OffersSuffice
      <4> HIDE DEF r
      <4>4. r \in R
        BY <4>1, <4>3 DEF ElectionRecs
      <4> QED
        BY <4>4 DEF r
    <3> HIDE DEF R
    <3>3. elections \in Seq(R)
      BY <3>1, <3>2
    <3> QED
      BY <3>3 DEF R, FactoryTypeOK, CreationInd, MoneyInv
  <2>3. flows \in [Flows -> FlowStates]
    <3>1. PICK O : flows \in [Flows -> FlowRecs(O)]
      BY FlowInvHolds DEF FlowsOK, CreationInd
    <3>2. ASSUME NEW f \in Flows
          PROVE  flows[f] \in FlowStates
      <4> DEFINE r == flows[f]
      <4>1. r \in FlowRecs(O)
        BY <3>1
      <4>2. r.offer \in Offers \cup {None}
        BY DEF CreationInd, SentInv, OffersSuffice
      <4> HIDE DEF r
      <4>3. r \in FlowStates
        BY <4>1, <4>2 DEF FlowRecs, FlowStates, Labels
      <4> QED
        BY <4>3 DEF r
    <3> QED
      BY <3>1, <3>2
  <2>4. store \in [1..MaxElections -> Offers \cup {None}]
    <3>1. DOMAIN store = 1..MaxElections /\ store = [e \in 1..MaxElections |-> store[e]]
      BY DEF CreationInd, CreationInv, StoreOK
    <3>2. \A e \in 1..MaxElections : store[e] \in Offers \cup {None}
      BY <3>1 DEF CreationInd, CreationInv, StoredUnderOwnElection, isElection, SentInv,
                  OffersSuffice
    <3> QED
      BY <3>1, <3>2
  <2> QED
    BY <2>1, <2>2, <2>3, <2>4 DEF TypeOK
<1> QED
  BY <1>1, CreationInduction, PTL

-----------------------------------------------------------------------------
(* The list of elections.                                                  *)

ListedInFull(total, logsRead) ==
  LET shown == Shown(total, {}, logsRead)
  IN /\ Len(shown) = total
     /\ \A i \in 1..total :
          /\ shown[i].election = total + 1 - i
          /\ shown[i].gateType = GateShown(total + 1 - i, logsRead)
          /\ GateShown(total + 1 - i, TRUE) = GateWritten(elections[total + 1 - i].offer)
          /\ GateShown(total + 1 - i, FALSE) \in {GateShown(total + 1 - i, TRUE), None}

(* Whenever the number of elections was asked for: a load in which no call *)
(* fails shows each of them once, newest first, with the gate its metadata *)
(* names, and without the logs no other gate (app/page.tsx loadElections), *)
(* for any number of elections, creations and other users.                 *)
THEOREM ListingShowsAll == CreationSpec => []ListingComplete
<1>1. CreationInd => ListingComplete
  <2> SUFFICES ASSUME CreationInd, NEW total \in 0 .. Len(elections)
               PROVE  ListedInFull(total, TRUE) /\ ListedInFull(total, FALSE)
    BY Zenon DEF ListingComplete, ListedInFull
  <2> SUFFICES ASSUME NEW logsRead \in BOOLEAN
               PROVE  ListedInFull(total, logsRead)
    OBVIOUS
  <2> DEFINE read == [i \in 1..total |-> i]
             kept == {i \in DOMAIN PageRead(total) : PageRead(total)[i] \notin {}}
             addresses == Reverse(Subsequence(PageRead(total), kept))
             shown == Shown(total, {}, logsRead)
  <2>1. Len(elections) \in Nat /\ DOMAIN elections = 1 .. Len(elections)
    BY DomainOfRegistry DEF CreationInd, CreationInv
  <2>2. PageRead(total) = read /\ total \in Nat
    <3> DEFINE all == Len(elections)
               end == IF 0 + total > all THEN all ELSE 0 + total
    <3>1. PageRead(total) = [i \in 1 .. (end - 0) |-> 0 + i]
      BY DEF PageRead, getElections
    <3>2. end - 0 = total /\ total \in Nat
      <4>1. all \in Nat /\ total \in 0..all
        BY <2>1
      <4> HIDE DEF all
      <4> QED
        BY <4>1
    <3> HIDE DEF end
    <3>3. PageRead(total) = [i \in 1..total |-> 0 + i]
      BY <3>1, <3>2
    <3>4. \A i \in 1..total : 0 + i = i
      OBVIOUS
    <3> QED
      BY <3>2, <3>3, <3>4
  <2>3. read \in Seq(Nat) /\ Len(read) = total
    BY <2>2
  <2>4. kept = 1 .. Len(read)
    BY <2>2, <2>3
  <2>5. Subsequence(PageRead(total), kept) = read
    BY <2>2, <2>3, <2>4, SubsequenceAll, Zenon
  <2>6. addresses = [i \in 1..total |-> total + 1 - i]
    <3>1. addresses = [i \in 1 .. Len(read) |-> read[(Len(read) - i) + 1]]
      BY <2>5 DEF Reverse
    <3>2. \A i \in 1..total : read[(total - i) + 1] = total + 1 - i
      BY <2>2
    <3> QED
      BY <2>3, <3>1, <3>2
  <2>7. shown = [i \in DOMAIN addresses |->
                  [election |-> addresses[i], gateType |-> GateShown(addresses[i], logsRead)]]
    BY DEF Shown
  <2> HIDE DEF addresses, shown
  <2>8. /\ shown \in [1..total -> {shown[i] : i \in 1..total}]
        /\ \A i \in 1..total : /\ shown[i].election = total + 1 - i
                               /\ shown[i].gateType = GateShown(total + 1 - i, logsRead)
    BY <2>6, <2>7
  <2>9. Len(shown) = total
    BY <2>2, <2>8
  <2>10. ASSUME NEW e \in DOMAIN elections
         PROVE  /\ GateShown(e, TRUE) = GateWritten(elections[e].offer)
                /\ GateShown(e, FALSE) \in {GateWritten(elections[e].offer), None}
    <3>1. e \in DOMAIN store
      BY <2>1, FlowAssumption DEF CreationInd, CreationInv, StoreOK
    <3> QED
      BY <3>1 DEF GateShown, CreationInd, CreationInv, StoredUnderOwnElection
  <2>11. \A i \in 1..total : total + 1 - i \in DOMAIN elections
    BY <2>1
  <2>12. \A i \in 1..total :
           /\ GateShown(total + 1 - i, TRUE) = GateWritten(elections[total + 1 - i].offer)
           /\ GateShown(total + 1 - i, FALSE) \in {GateShown(total + 1 - i, TRUE), None}
    BY <2>10, <2>11
  <2> QED
    BY <2>8, <2>9, <2>12, Zenon DEF ListedInFull, shown
<1> QED
  BY <1>1, CreationInduction, PTL
=============================================================================
