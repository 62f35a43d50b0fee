---------------------------- MODULE ElectionForm ----------------------------
(***************************************************************************)
(* The form in which an election is described before it is created,        *)
(* apps/web-app/src/hooks/useElectionForm.ts, with the wizard that shows   *)
(* it, components/CreateElectionWizard.tsx, components/wizard/ and         *)
(* components/GateSelector.tsx.                                            *)
(*                                                                         *)
(* An action is one dispatch to the form's reducer.  The look-up of a      *)
(* token's symbol and decimals is an effect: it starts when the address or *)
(* the gate changes, answers later, and looks up to two addresses at once  *)
(* may answer in any order.                                                *)
(*                                                                         *)
(* Abstractions: the title and the option labels are one flag, "two labels *)
(* and a title are given", beside the number of options; the fields of a   *)
(* gate are one flag, "they would let the wizard go on", beside the token  *)
(* address; a committee member is a wallet address, or Blank when the name *)
(* or the address is missing or invalid; a token's symbol and decimals are *)
(* named by the token they are of, None when they are not known.           *)
(*                                                                         *)
(* Definitions Slip_X are described in module SpectreVoting.               *)
(***************************************************************************)
EXTENDS Loops, SequencesExt

CONSTANTS
  Gates,       \* gate types on offer
  Tokens,      \* token contracts, by address
  Members,     \* wallet addresses of committee members
  Hours,       \* lengths of a phase; 0 stands for an empty field too
  MaxOptions,  \* options of an election
  MaxMembers,  \* members of a committee
  MaxEdits,    \* bound on the edits of the form, the labels aside
  Blank,       \* a committee member not filled in
  None         \* no token

GaslessGates == {"invite-codes", "allowlist", "email-domain", "github-org"}
AllGates == GaslessGates \cup {"open", "admin-only", "token-gate"}

ASSUME GateAssumption == Gates \subseteq AllGates /\ "open" \in Gates
ASSUME NameAssumption == None \notin Tokens /\ Blank \notin Members
ASSUME SizeAssumption ==
  /\ Hours \subseteq Nat /\ {24, 72} \subseteq Hours
  /\ {MaxOptions, MaxMembers, MaxEdits} \subseteq Nat
  /\ MaxOptions >= 2 /\ MaxMembers >= 3

VARIABLES
  form,     \* the reducer's state
  lookups,  \* tokens whose look-up has not been answered
  edits     \* how often a field other than the labels has been edited

formVars == <<form, lookups, edits>>

initialState ==
  [currentStep |-> 0, creating |-> FALSE,
   labelled |-> FALSE, numOptions |-> 2, signupHours |-> 24, votingHours |-> 72,
   gateType |-> "open", filled |-> FALSE, tokenAddress |-> None, tokenInfo |-> None,
   gaslessMode |-> FALSE,
   encryptionMode |-> "single", committeeMembers |-> <<Blank, Blank, Blank>>, threshold |-> 2]

FormInit == form = initialState /\ lookups = {} /\ edits = 0

-----------------------------------------------------------------------------
(* Derived values. *)
selfSignup(f) == f.gateType # "admin-only"
walletForced(f) == f.gateType = "token-gate"
gaslessForced(f) == f.gateType \in GaslessGates
effectiveGasless(f) ==
  IF walletForced(f) THEN FALSE ELSE gaslessForced(f) \/ f.gaslessMode

IsValid(member) == member # Blank
validCommitteeMembers(f) ==
  Subsequence(f.committeeMembers,
              {i \in DOMAIN f.committeeMembers : IsValid(f.committeeMembers[i])})

CanProceed(f, step) ==
  CASE step = 0 -> f.labelled
    [] step = 1 -> CASE f.gateType = "token-gate" -> f.tokenAddress # None
                     [] f.gateType \in {"open", "admin-only"} -> TRUE
                     [] OTHER -> f.filled
    [] step = 2 -> f.encryptionMode = "single" \/ Len(validCommitteeMembers(f)) >= 2
    [] OTHER    -> TRUE

canCreate == (\A step \in 0..3 : CanProceed(form, step)) /\ ~form.creating

-----------------------------------------------------------------------------
(* The wizard: a field is edited on its step, and not while an election is *)
(* being created.                                                          *)

Edited(step, new) ==
  /\ form.currentStep = step /\ ~form.creating
  /\ edits < MaxEdits /\ edits' = edits + 1
  /\ form' = new

NEXT_STEP ==
  /\ form.currentStep < 3 /\ ~form.creating
  /\ CanProceed(form, form.currentStep)
  /\ form' = [form EXCEPT !.currentStep = @ + 1]
  /\ UNCHANGED <<lookups, edits>>

GO_TO_STEP ==
  /\ ~form.creating
  /\ \E step \in 0 .. form.currentStep - 1 : form' = [form EXCEPT !.currentStep = step]
  /\ UNCHANGED <<lookups, edits>>

SetLabels ==
  /\ form.currentStep = 0 /\ ~form.creating
  /\ form' = [form EXCEPT !.labelled = ~@]
  /\ UNCHANGED <<lookups, edits>>

ADD_OPTION ==
  /\ form.numOptions < MaxOptions
  /\ Edited(0, [form EXCEPT !.numOptions = @ + 1])
  /\ UNCHANGED lookups

Slip_Removable == form.numOptions >= 2
Removable == form.numOptions > 2

(* The option taken away may be one of the two that have a label. *)
REMOVE_OPTION ==
  /\ Removable
  /\ \E kept \in {form.labelled, FALSE} :
       Edited(0, [form EXCEPT !.numOptions = @ - 1, !.labelled = kept])
  /\ UNCHANGED lookups

SetHours ==
  /\ \/ \E h \in Hours \ {form.signupHours} : Edited(0, [form EXCEPT !.signupHours = h])
     \/ \E h \in Hours \ {form.votingHours} : Edited(0, [form EXCEPT !.votingHours = h])
  /\ UNCHANGED lookups

-----------------------------------------------------------------------------
(* The access gate. *)

(* The effect on the gate and the token's address: without an address the  *)
(* token is forgotten, otherwise it is looked up; until the answer comes   *)
(* the form keeps what it knew.                                            *)
Effect(new) == [new EXCEPT !.tokenInfo = IF new.tokenAddress = None THEN None ELSE @]
Looked(new) == IF new.tokenAddress = None THEN lookups ELSE lookups \cup {new.tokenAddress}

SET_GATE_TYPE(g) ==
  LET new == [form EXCEPT
        !.gateType = g,
        !.filled = IF g = form.gateType THEN @ ELSE g = "invite-codes",
        !.tokenAddress = IF g = "token-gate" THEN @ ELSE None]
  IN /\ g # form.gateType
     /\ Edited(1, Effect(new))
     /\ lookups' = Looked(new)

SetGateFields ==
  /\ form.gateType \in GaslessGates
  /\ Edited(1, [form EXCEPT !.filled = ~@])
  /\ UNCHANGED lookups

SetTokenAddress(t) ==
  LET new == [form EXCEPT !.tokenAddress = t]
  IN /\ form.gateType = "token-gate" /\ t # form.tokenAddress
     /\ Edited(1, Effect(new))
     /\ lookups' = Looked(new)

(* A later effect has cancelled the look-ups of other addresses. *)
Slip_Cancelled(t) == FALSE
Cancelled(t) == t # form.tokenAddress

SET_TOKEN_INFO(t) ==
  /\ t \in lookups /\ lookups' = lookups \ {t}
  /\ \E info \in {t, None} :
       form' = IF Cancelled(t) THEN form ELSE [form EXCEPT !.tokenInfo = info]
  /\ UNCHANGED edits

SetGasless ==
  /\ ~walletForced(form) /\ ~gaslessForced(form)
  /\ Edited(1, [form EXCEPT !.gaslessMode = ~@])
  /\ UNCHANGED lookups

-----------------------------------------------------------------------------
(* The key of the results. *)

SET_ENCRYPTION_MODE(m) ==
  /\ m # form.encryptionMode
  /\ Edited(2, IF m = "threshold" THEN [form EXCEPT !.encryptionMode = m]
               ELSE [form EXCEPT !.encryptionMode = m, !.threshold = 2,
                                 !.committeeMembers = initialState.committeeMembers])
  /\ UNCHANGED lookups

InCommittee == form.encryptionMode = "threshold"
Size == Len(form.committeeMembers)

SetThreshold ==
  /\ InCommittee
  /\ \E n \in (2 .. Size) \ {form.threshold} : Edited(2, [form EXCEPT !.threshold = n])
  /\ UNCHANGED lookups

ADD_COMMITTEE_MEMBER ==
  /\ InCommittee /\ Size < MaxMembers
  /\ Edited(2, [form EXCEPT !.committeeMembers = Append(@, Blank)])
  /\ UNCHANGED lookups

(* The threshold follows a committee that becomes too small for it. *)
Clamped(n) == IF form.threshold > n THEN n ELSE form.threshold

REMOVE_COMMITTEE_MEMBER(i) ==
  /\ InCommittee /\ Size > 2
  /\ Edited(2, [form EXCEPT !.committeeMembers = RemoveAt(@, i),
                            !.threshold = Clamped(Size - 1)])
  /\ UNCHANGED lookups

UPDATE_COMMITTEE_MEMBER(i, m) ==
  /\ InCommittee /\ m # form.committeeMembers[i]
  /\ Edited(2, [form EXCEPT !.committeeMembers[i] = m])
  /\ UNCHANGED lookups

-----------------------------------------------------------------------------
(* RESET; the effect then forgets the token. *)
RESET == form' = initialState /\ UNCHANGED <<lookups, edits>>

Edit ==
  \/ SetLabels \/ ADD_OPTION \/ REMOVE_OPTION \/ SetHours
  \/ \E g \in Gates : SET_GATE_TYPE(g)
  \/ SetGateFields \/ SetGasless
  \/ \E t \in Tokens \cup {None} : SetTokenAddress(t)
  \/ \E m \in {"single", "threshold"} : SET_ENCRYPTION_MODE(m)
  \/ SetThreshold \/ ADD_COMMITTEE_MEMBER
  \/ \E i \in DOMAIN form.committeeMembers : REMOVE_COMMITTEE_MEMBER(i)
  \/ \E i \in DOMAIN form.committeeMembers, m \in Members \cup {Blank} :
       UPDATE_COMMITTEE_MEMBER(i, m)

Wizard == NEXT_STEP \/ GO_TO_STEP \/ Edit
TokenAnswers == \E t \in Tokens : SET_TOKEN_INFO(t)

FormNext == Wizard \/ TokenAnswers \/ RESET

FormSpec == FormInit /\ [][FormNext]_formVars

-----------------------------------------------------------------------------
(* The types of the form's fields. *)
FormTypeOK ==
  /\ form \in
       [currentStep : 0..3, creating : BOOLEAN, labelled : BOOLEAN,
        numOptions : 2..MaxOptions, signupHours : Hours, votingHours : Hours,
        gateType : Gates, filled : BOOLEAN, tokenAddress : Tokens \cup {None},
        tokenInfo : Tokens \cup {None}, gaslessMode : BOOLEAN,
        encryptionMode : {"single", "threshold"},
        committeeMembers : Seq(Members \cup {Blank}), threshold : Nat]
  /\ lookups \subseteq Tokens /\ edits \in 0..MaxEdits

(* Whatever order members are added and removed in, and the threshold and  *)
(* the mode are changed: the committee keeps between 2 and MaxMembers      *)
(* slots and a threshold between 2 and their number.                       *)
ThresholdInRange ==
  /\ Size \in 2..MaxMembers
  /\ form.threshold \in 2..Size

(* Once the token now in the form has been looked up, the form shows what  *)
(* is known of that token: no late answer about another address, and none  *)
(* that was given up by leaving the gate, remains in it.                   *)
TokenInfoFresh ==
  form.tokenAddress \notin lookups => form.tokenInfo \in {form.tokenAddress, None}
=============================================================================
