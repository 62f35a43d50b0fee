-------------------------- MODULE SignupPageProofs --------------------------
(***************************************************************************)
(* The signup page of module SignupPage with the GitHub sign-ins and the   *)
(* e-mail codes it relies on, for any number of tabs, gates, addresses,    *)
(* accounts, sign-ins, requests, attempts and restarts.                    *)
(*                                                                         *)
(* Every step of the page is a step of the GitHub routes or leaves them    *)
(* alone, and a step of the e-mail route or leaves it alone; so GithubInv, *)
(* and EmailInv, which ties each pending code to the requests that sent it *)
(* and tried it, are invariants of the routes by themselves.  PageInv is   *)
(* about the page, the roll and the transactions.                          *)
(***************************************************************************)
EXTENDS SignupPage, FiniteSetTheorems, SequenceTheorems, TLAPS

-----------------------------------------------------------------------------
(* The GitHub routes.                                                      *)

(* What a flow has gone through before it is where it is.                  *)
Signing == {"asking", "callback", "exchanging", "profile", "metadata", "member", "token"}
Granted == Signing \ {"asking"}
Back    == Granted \ {"callback"}

FlowKnown(f) ==
  /\ flow[f].pc \in Signing => flow[f].started \in Github!Times /\ flow[f].started <= now
  /\ flow[f].pc \in Granted => flow[f].account \in Accounts
  /\ flow[f].pc \in Back =>
       /\ flow[f].back \in Github!Times
       /\ flow[f].started <= flow[f].back /\ flow[f].back <= now
       /\ flow[f].back - flow[f].started <= StateTtl
  /\ flow[f].pc = "token" => \E m \in activeAt[flow[f].account] : m >= flow[f].back

GithubInv ==
  /\ Github!TypeOK
  /\ \A u \in Accounts : membership[u] = "active" => now \in activeAt[u]
  /\ \A f \in Flows : FlowKnown(f)

LEMMA GithubStart == Github!Init => GithubInv
<1> SUFFICES ASSUME Github!Init PROVE GithubInv
  OBVIOUS
<1>1. /\ gate \in Gates /\ now = 0 /\ githubCached = FALSE /\ changes = 0
      /\ membership \in [Accounts -> Github!Memberships]
  BY DEF Github!Init
<1>2. MaxTime \in Nat /\ MaxChanges \in Nat
  BY GithubAssumption DEF Github!BoundsAssumption
<1>3. activeAt = [u \in Accounts |-> IF membership[u] = "active" THEN {0} ELSE {}]
  BY DEF Github!Init
<1>4. activeAt \in [Accounts -> SUBSET Github!Times]
  BY <1>2, <1>3 DEF Github!Times
<1>5. \A f \in Flows : flow[f] = [pc |-> "idle", started |-> None, back |-> None,
                                  account |-> None]
  BY DEF Github!Init
<1>6. flow \in [Flows -> Github!FlowStates]
  <2>1. [pc |-> "idle", started |-> None, back |-> None, account |-> None]
          \in Github!FlowStates
    BY DEF Github!FlowStates
  <2> QED
    BY <2>1 DEF Github!Init
<1>7. \A f \in Flows : FlowKnown(f)
  BY <1>5 DEF FlowKnown, Signing, Granted, Back
<1>8. \A u \in Accounts : membership[u] = "active" => now \in activeAt[u]
  BY <1>1, <1>3
<1>9. now \in Github!Times /\ changes \in 0..MaxChanges
  BY <1>1, <1>2 DEF Github!Times
<1>10. Github!TypeOK
  BY <1>1, <1>4, <1>6, <1>9 DEF Github!TypeOK
<1> QED
  BY <1>7, <1>8, <1>10 DEF GithubInv

(* Nothing but one flow changes.                                           *)
LEMMA FlowMoves ==
  ASSUME GithubInv, NEW f \in Flows, NEW r \in Github!FlowStates,
         flow' = [flow EXCEPT ![f] = r],
         UNCHANGED <<gate, now, membership, changes, activeAt>>, githubCached' \in BOOLEAN,
         flow'[f] = r => FlowKnown(f)'
  PROVE  GithubInv'
<1>1. flow' \in [Flows -> Github!FlowStates] /\ flow'[f] = r
  BY DEF GithubInv, Github!TypeOK
<1>2. \A g \in Flows \ {f} : FlowKnown(g)'
  BY DEF GithubInv, Github!TypeOK, FlowKnown
<1>3. Github!TypeOK'
  BY <1>1 DEF GithubInv, Github!TypeOK
<1> QED
  BY <1>1, <1>2, <1>3 DEF GithubInv

LEMMA GithubTypes ==
  GithubInv => /\ flow \in [Flows -> Github!FlowStates] /\ now \in Github!Times
               /\ now \in Nat /\ githubCached \in BOOLEAN
               /\ \A f \in Flows : FlowKnown(f)
BY GithubAssumption DEF GithubInv, Github!TypeOK, Github!Times, Github!BoundsAssumption

LEMMA GithubMoves ==
  ASSUME GithubInv, NEW f \in Flows,
         \/ Github!Start(f) \/ Github!Deny(f) \/ Github!Callback(f)
         \/ \E u \in Accounts : Github!Grant(f, u)
  PROVE  GithubInv'
<1>1. UNCHANGED <<gate, now, membership, changes, activeAt>> /\ githubCached' \in BOOLEAN
  BY GithubTypes DEF Github!Start, Github!Deny, Github!Callback, Github!Grant, Github!Outside,
     Github!CheckState, Github!Exchange, Github!FetchProfile, Github!ReadMetadata,
     Github!CheckMembership, Github!GithubFails
<1>2. flow[f] \in Github!FlowStates /\ FlowKnown(f)
  BY GithubTypes
<1>3. CASE Github!Start(f)
  <2> DEFINE r == [flow[f] EXCEPT !.pc = "asking", !.started = now]
  <2>1. flow' = [flow EXCEPT ![f] = r]
    BY <1>3 DEF Github!Start
  <2>2. r \in Github!FlowStates /\ r.pc = "asking" /\ r.started = now
    BY <1>2, GithubTypes DEF Github!FlowStates
  <2> HIDE DEF r
  <2>3. flow'[f] = r => FlowKnown(f)'
    BY <1>1, <2>2, GithubTypes DEF FlowKnown, Signing, Granted, Back
  <2> QED
    BY <1>1, <2>1, <2>2, <2>3, FlowMoves
<1>4. CASE \E u \in Accounts : Github!Grant(f, u)
  <2>1. PICK u \in Accounts : Github!Grant(f, u)
    BY <1>4
  <2> DEFINE r == [flow[f] EXCEPT !.pc = "callback", !.account = u]
  <2>2. flow' = [flow EXCEPT ![f] = r] /\ flow[f].pc = "asking"
    BY <2>1 DEF Github!Grant, Github!At
  <2>3. /\ r \in Github!FlowStates /\ r.pc = "callback" /\ r.started = flow[f].started
        /\ r.account = u
    BY <1>2 DEF Github!FlowStates
  <2> HIDE DEF r
  <2>4. flow'[f] = r => FlowKnown(f)'
    BY <1>1, <1>2, <2>2, <2>3 DEF FlowKnown, Signing, Granted, Back
  <2> QED
    BY <1>1, <2>2, <2>3, <2>4, FlowMoves
<1>5. CASE Github!CheckState(f)
  <2> DEFINE label == IF Github!Fresh(f) THEN "exchanging" ELSE "error"
             r == [flow[f] EXCEPT !.pc = label, !.back = now]
  <2>1. flow' = [flow EXCEPT ![f] = r] /\ flow[f].pc = "callback"
    BY <1>5 DEF Github!CheckState, Github!At
  <2>2. (label = "exchanging" /\ now - flow[f].started <= StateTtl) \/ label = "error"
    BY DEF Github!Fresh
  <2> HIDE DEF label
  <2>3. /\ r \in Github!FlowStates /\ r.pc = label /\ r.started = flow[f].started
        /\ r.account = flow[f].account /\ r.back = now
    BY <1>2, <2>2, GithubTypes DEF Github!FlowStates
  <2> HIDE DEF r
  <2>4. flow'[f] = r => FlowKnown(f)'
    BY <1>1, <1>2, <2>1, <2>2, <2>3, GithubTypes DEF FlowKnown, Signing, Granted, Back
  <2> QED
    BY <1>1, <2>1, <2>3, <2>4, FlowMoves
<1>6. ASSUME NEW label \in {"exchanging", "profile", "metadata", "member", "token", "error", "stopped"},
             flow' = [flow EXCEPT ![f].pc = label],
             label \in Back => flow[f].pc \in Back,
             label = "token" => Github!IsMember(f)
      PROVE  GithubInv'
  <2> DEFINE r == [flow[f] EXCEPT !.pc = label]
  <2>1. flow' = [flow EXCEPT ![f] = r]
    BY <1>6
  <2>2. /\ r \in Github!FlowStates /\ r.pc = label /\ r.started = flow[f].started
        /\ r.account = flow[f].account /\ r.back = flow[f].back
    BY <1>2 DEF Github!FlowStates
  <2> HIDE DEF r
  <2>3. label = "token" =>
          /\ flow[f].account \in Accounts /\ now \in activeAt[flow[f].account]
          /\ now >= flow[f].back
    BY <1>2, <1>6, GithubTypes DEF GithubInv, FlowKnown, Signing, Granted, Back, Github!IsMember, Github!Times
  <2>4. flow'[f] = r => FlowKnown(f)'
    BY <1>1, <1>2, <1>6, <2>2, <2>3 DEF FlowKnown, Signing, Granted, Back
  <2> QED
    BY <1>1, <2>1, <2>2, <2>4, FlowMoves
<1>7. CASE Github!Deny(f)
  BY <1>6, <1>7 DEF Github!Deny, Github!Goto, Back, Granted, Signing
<1>8. CASE Github!Exchange(f)
  BY <1>6, <1>8 DEF Github!Exchange, Github!Goto, Github!At, Back, Granted, Signing
<1>9. CASE Github!FetchProfile(f)
  BY <1>6, <1>9 DEF Github!FetchProfile, Github!Goto, Github!At, Back, Granted, Signing
<1>10. CASE Github!ReadMetadata(f)
  <2>1. PICK label \in {"member", "error"} : flow' = [flow EXCEPT ![f].pc = label]
    BY <1>10 DEF Github!ReadMetadata, Github!Goto
  <2> QED
    BY <1>6, <1>10, <2>1 DEF Github!ReadMetadata, Github!At, Back, Granted, Signing
<1>11. CASE Github!CheckMembership(f)
  <2>1. PICK label \in {"token", "error"} :
          flow' = [flow EXCEPT ![f].pc = label] /\ (label = "token" => Github!IsMember(f))
    BY <1>11 DEF Github!CheckMembership, Github!Goto
  <2> QED
    BY <1>6, <1>11, <2>1 DEF Github!CheckMembership, Github!At, Back, Granted, Signing
<1>12. CASE Github!GithubFails(f)
  BY <1>6, <1>12 DEF Github!GithubFails, Github!Goto, Back, Granted, Signing
<1> QED
  BY <1>3, <1>4, <1>5, <1>7, <1>8, <1>9, <1>10, <1>11, <1>12 DEF Github!Callback

(* The routes' surroundings: memberships, the clock, a cold start.         *)
LEMMA MembershipMoves ==
  ASSUME GithubInv, NEW u \in Accounts, NEW m \in Github!Memberships,
         Github!SetMembership(u, m)
  PROVE  GithubInv'
<1>1. /\ UNCHANGED <<gate, now, githubCached, flow>>
      /\ changes < MaxChanges /\ changes' = changes + 1
      /\ membership' = [membership EXCEPT ![u] = m]
      /\ activeAt' = [activeAt EXCEPT ![u] = IF m = "active" THEN @ \cup {now} ELSE @]
  BY DEF Github!SetMembership
<1>2. /\ changes \in 0..MaxChanges /\ membership \in [Accounts -> Github!Memberships]
      /\ activeAt \in [Accounts -> SUBSET Github!Times] /\ now \in Github!Times
      /\ MaxChanges \in Nat
  BY GithubAssumption DEF GithubInv, Github!TypeOK, Github!BoundsAssumption
<1>3. changes' \in 0..MaxChanges /\ membership' \in [Accounts -> Github!Memberships]
  BY <1>1, <1>2
<1>4. activeAt' \in [Accounts -> SUBSET Github!Times]
  BY <1>1, <1>2
<1>5. \A v \in Accounts : activeAt[v] \subseteq activeAt'[v]
  BY <1>1, <1>2
<1>6. \A v \in Accounts : membership'[v] = "active" => now' \in activeAt'[v]
  BY <1>1, <1>2 DEF GithubInv
<1>7. ASSUME NEW f \in Flows
      PROVE  FlowKnown(f)'
  <2>1. FlowKnown(f)
    BY GithubTypes
  <2> QED
    BY <1>1, <1>5, <2>1 DEF FlowKnown, Granted, Signing
<1>8. Github!TypeOK'
  BY <1>1, <1>3, <1>4 DEF GithubInv, Github!TypeOK
<1> QED
  BY <1>6, <1>7, <1>8 DEF GithubInv

LEMMA ClockMoves ==
  ASSUME GithubInv, Github!Tick
  PROVE  GithubInv'
<1>1. /\ UNCHANGED <<gate, githubCached, membership, changes, flow>>
      /\ now < MaxTime /\ now' = now + 1
      /\ activeAt' = [u \in Accounts |->
            IF membership[u] = "active" THEN activeAt[u] \cup {now'} ELSE activeAt[u]]
  BY DEF Github!Tick
<1>2. /\ membership \in [Accounts -> Github!Memberships] /\ MaxTime \in Nat
      /\ activeAt \in [Accounts -> SUBSET Github!Times] /\ now \in Nat
  BY GithubTypes, GithubAssumption DEF GithubInv, Github!TypeOK, Github!BoundsAssumption
<1>3. now' \in Github!Times
  BY <1>1, <1>2 DEF Github!Times
<1>4. activeAt' \in [Accounts -> SUBSET Github!Times]
  BY <1>1, <1>2, <1>3
<1>5. \A v \in Accounts : activeAt[v] \subseteq activeAt'[v]
  BY <1>1, <1>2
<1>6. \A v \in Accounts : membership'[v] = "active" => now' \in activeAt'[v]
  BY <1>1, <1>2
<1>7. ASSUME NEW f \in Flows
      PROVE  FlowKnown(f)'
  <2>1. FlowKnown(f)
    BY GithubTypes
  <2>2. flow[f].pc \in Signing => flow[f].started <= now'
    BY <1>1, <1>2, <2>1 DEF FlowKnown, Github!Times
  <2>3. flow[f].pc \in Back => flow[f].back <= now'
    BY <1>1, <1>2, <2>1 DEF FlowKnown, Github!Times
  <2> QED
    BY <1>1, <1>5, <2>1, <2>2, <2>3 DEF FlowKnown, Granted, Signing
<1>8. Github!TypeOK'
  BY <1>1, <1>3, <1>4 DEF GithubInv, Github!TypeOK
<1> QED
  BY <1>6, <1>7, <1>8 DEF GithubInv

LEMMA RestartMoves ==
  ASSUME GithubInv, Github!Restart
  PROVE  GithubInv'
<1>1. /\ UNCHANGED <<gate, now, membership, changes, activeAt>> /\ githubCached' \in BOOLEAN
      /\ flow' = [f \in Flows |->
            IF flow[f].pc \in {"exchanging", "profile", "metadata", "member"}
            THEN [flow[f] EXCEPT !.pc = "stopped"] ELSE flow[f]]
  BY DEF Github!Restart, Github!Outside
<1>2. ASSUME NEW f \in Flows
      PROVE  flow'[f] \in Github!FlowStates /\ FlowKnown(f)'
  <2> DEFINE r == [flow[f] EXCEPT !.pc = "stopped"]
  <2>1. flow[f] \in Github!FlowStates /\ FlowKnown(f)
    BY GithubTypes
  <2>2. r \in Github!FlowStates /\ r.pc = "stopped"
    BY <2>1 DEF Github!FlowStates
  <2>3. flow'[f] = r \/ flow'[f] = flow[f]
    BY <1>1
  <2> HIDE DEF r
  <2> QED
    BY <1>1, <2>1, <2>2, <2>3 DEF FlowKnown, Signing, Granted, Back
<1>3. flow' \in [Flows -> Github!FlowStates]
  BY <1>1, <1>2
<1>4. Github!TypeOK'
  BY <1>1, <1>3 DEF GithubInv, Github!TypeOK
<1> QED
  BY <1>1, <1>2, <1>4 DEF GithubInv

LEMMA GithubKept == GithubInv /\ [Github!Next]_(Github!vars) => GithubInv'
<1> SUFFICES ASSUME GithubInv, [Github!Next]_(Github!vars) PROVE GithubInv'
  OBVIOUS
<1>1. CASE UNCHANGED Github!vars
  BY <1>1 DEF Github!vars, GithubInv, Github!TypeOK, FlowKnown
<1> QED
  BY <1>1, GithubMoves, MembershipMoves, ClockMoves, RestartMoves DEF Github!Next

(* A step of the page is a step of the routes, or none.                    *)
LEMMA TabOnGithub ==
  ASSUME NEW t \in Tabs, TabStep(t) \/ \E s \in Scopes : Mine(t, s)
  PROVE  [Github!Next]_(Github!vars)
<1>1. CASE \E f \in Flows : SignIn(t, f)
  BY <1>1 DEF SignIn, Github!Next
<1>2. CASE UNCHANGED <<gate, now, github>>
  BY <1>2 DEF github, Github!vars
<1>3. CASE \E c \in Email!Calls : \/ SendCode(t, c)
                                  \/ \E code \in Email!Typed : VerifyCode(t, c, code)
  <2>1. UNCHANGED <<gate, now, github>>
    BY <1>3 DEF SendCode, VerifyCode, Email!SendStored, Email!SendRefused, Email!SendLimited,
       Email!VerifyRight, Email!VerifyNothing, Email!VerifyExhausted, Email!VerifyWrong
  <2> QED
    BY <1>2, <2>1
<1>4. \/ UNCHANGED <<gate, now, github>>
      \/ \E f \in Flows : SignIn(t, f)
      \/ \E c \in Email!Calls : \/ SendCode(t, c)
                               \/ \E code \in Email!Typed : VerifyCode(t, c, code)
  BY DEF TabStep, Mine, LoadMetadata, Reload, StartCheck, SwitchAccount, EndCheck, Type, TypeEmail,
     SendCodeAnswered, VerifyCodeAnswered, Return, AskRelay, AskWallet, RelayAnswers, Wait,
     SignedUp, Refresh, Fail, Finish, fixed
<1> QED
  BY <1>1, <1>2, <1>3, <1>4

LEMMA StepOnGithub == [Next]_vars => [Github!Next]_(Github!vars)
<1> SUFFICES ASSUME [Next]_vars PROVE [Github!Next]_(Github!vars)
  OBVIOUS
<1>1. CASE GithubStep
  BY <1>1 DEF GithubStep, Github!Next
<1>2. CASE Tick
  BY <1>2 DEF Tick, Github!Next
<1>3. CASE MailService \/ EmailRestart
  BY <1>3 DEF MailService, EmailRestart, Email!SendAnswered, Email!SendFailed, Email!Restart,
     github, Github!vars
<1>4. CASE CloseSignup
  BY <1>4 DEF CloseSignup, fixed, github, Github!vars
<1>5. CASE UNCHANGED vars
  BY <1>5 DEF vars, fixed, github, Github!vars
<1> QED
  BY <1>1, <1>2, <1>3, <1>4, <1>5, TabOnGithub DEF Next

(* The page uses the GitHub routes as module GithubVerification has them.  *)
THEOREM PageUsesGithub == Spec => Github!Spec
<1>1. Init => Github!Init
  BY DEF Init
<1> QED
  BY <1>1, StepOnGithub, PTL DEF Spec, Github!Spec

(* The sign-ins with GitHub, whatever the pages do with them. *)
THEOREM GithubInvariant == Spec => []GithubInv
<1>1. Init => GithubInv
  BY GithubStart DEF Init
<1> QED
  BY <1>1, StepOnGithub, GithubKept, PTL DEF Spec

(* A token is for an account that was a member after it came back from     *)
(* GitHub, by a state no older than it may be (callback/route.ts).         *)
THEOREM MemberHasToken == Spec => []TokenForMember
<1>1. GithubInv => TokenForMember
  <2> SUFFICES ASSUME GithubInv, NEW f \in Flows, Github!At(f, "token")
               PROVE  /\ flow[f].back - flow[f].started \in 0..StateTtl
                      /\ \E t \in activeAt[flow[f].account] : t >= flow[f].back
    BY DEF TokenForMember, Github!TokenForMember
  <2>1. FlowKnown(f) /\ StateTtl \in Nat
    BY GithubTypes, GithubAssumption DEF Github!BoundsAssumption
  <2> QED
    BY <2>1 DEF FlowKnown, Github!At, Signing, Granted, Back, Github!Times
<1> QED
  BY <1>1, GithubInvariant, PTL

-----------------------------------------------------------------------------
(* The page.                                                               *)

(* What the fields about e-mail say of each other.                         *)
EmailFields(p) ==
  /\ p.sending # None => ~p.emailCodeSent
  /\ p.sending # None \/ p.emailCodeSent => p.voterEmail \in Addresses
  /\ p.verifying # None \/ p.emailToken # None => p.emailCodeSent
  /\ p.verifying \in {None, p.voterEmail} /\ p.emailToken \in {None, p.voterEmail}

(* The page and its awaited answers as far as the roll goes: as long as    *)
(* the page was not overtaken, all it awaits is about the identity it has. *)
Backed(t, p) ==
  /\ p.signup # "idle" => p.applicant \in Scopes
  /\ p.signup = "verifying" => <<t, p.applicant>> \in roll
  /\ ~p.overtaken =>
       /\ Current(p)
       /\ p.signupStatus = "signed-up" => <<t, p.scope>> \in roll

TxStates == [Tabs -> [Scopes -> {"none", "pending", "mined", "reverted"}]]

PageInv ==
  /\ page \in [Tabs -> Pages]
  /\ \A t \in Tabs : EmailFields(page[t]) /\ Backed(t, page[t])
  /\ tx \in TxStates
  /\ \A t \in Tabs, s \in Scopes : tx[t][s] = "mined" => <<t, s>> \in roll
  /\ gaslessEnabled \in BOOLEAN /\ signupOpen \in BOOLEAN
  /\ roll \subseteq Tabs \X Scopes /\ checked \subseteq Tabs

LEMMA PageOf ==
  ASSUME PageInv, NEW t \in Tabs
  PROVE  page[t] \in Pages /\ EmailFields(page[t]) /\ Backed(t, page[t])
BY DEF PageInv

(* No signup has been mined that was not mined before.                     *)
NoneMined == \A u \in Tabs, s \in Scopes : tx'[u][s] = "mined" => tx[u][s] = "mined"

LEMMA PageMoves ==
  ASSUME PageInv, NEW t \in Tabs, NEW p \in Pages, Becomes(t, p), EmailFields(p),
         Backed(t, p),
         UNCHANGED <<gaslessEnabled, roll, signupOpen>>, checked' \subseteq Tabs,
         tx' \in TxStates, NoneMined
  PROVE  PageInv'
<1>1. page' \in [Tabs -> Pages]
  BY DEF PageInv, Becomes
<1>2. ASSUME NEW u \in Tabs
      PROVE  EmailFields(page'[u]) /\ Backed(u, page'[u])
  <2>1. page'[u] = IF u = t THEN p ELSE page[u]
    BY DEF PageInv, Becomes
  <2> QED
    BY <2>1, PageOf
<1>3. \A u \in Tabs, s \in Scopes : tx'[u][s] = "mined" => <<u, s>> \in roll'
  BY DEF PageInv, NoneMined
<1> QED
  BY <1>1, <1>2, <1>3 DEF PageInv, EmailFields, Backed, Current, WillWrite

LEMMA QuietMove ==
  ASSUME PageInv, NEW t \in Tabs, NEW p \in Pages, Becomes(t, p), EmailFields(p),
         Backed(t, p), UNCHANGED <<fixed, chain>>
  PROVE  PageInv'
<1>1. UNCHANGED <<gaslessEnabled, roll, signupOpen, checked, tx>>
  BY DEF chain, fixed
<1>2. checked' \subseteq Tabs /\ tx' \in TxStates
  BY <1>1 DEF PageInv
<1>3. NoneMined
  BY <1>1 DEF NoneMined
<1> QED
  BY <1>1, <1>2, <1>3, PageMoves

LEMMA FreshPage ==
  ASSUME NEW t \in Tabs, NEW known \in BOOLEAN, NEW weights \in Stores,
         NEW s \in Scopes, NEW token \in Accounts \cup {None}
  PROVE  /\ Loaded(known, weights, s, token) \in Pages
         /\ EmailFields(Loaded(known, weights, s, token))
         /\ Backed(t, Loaded(known, weights, s, token))
<1>1. 1 \in Weights
  BY WeightAssumption DEF Weights
<1> QED
  BY <1>1 DEF Loaded, Pages, EmailFields, Backed, Current, WillWrite, Stores, Checks

LEMMA ForgottenType ==
  ASSUME PageInv, NEW t \in Tabs, Forgotten(t)
  PROVE  tx' \in TxStates /\ NoneMined
<1> DEFINE left == [s \in Scopes |-> IF tx[t][s] = "pending" THEN "pending" ELSE "none"]
<1>1. left \in [Scopes -> {"none", "pending", "mined", "reverted"}]
  OBVIOUS
<1>2. \A s \in Scopes : left[s] # "mined"
  OBVIOUS
<1>3. tx' = [tx EXCEPT ![t] = left]
  BY DEF Forgotten
<1> HIDE DEF left
<1> QED
  BY <1>1, <1>2, <1>3 DEF PageInv, TxStates, NoneMined

(* The changes of a page that several steps make.                          *)
LEMMA StatusTyped ==
  ASSUME NEW p \in Pages, NEW status \in {"checking", "signed-up", "not-signed-up"}
  PROVE  [p EXCEPT !.signupStatus = status] \in Pages
BY DEF Pages

LEMMA ChecksTyped ==
  ASSUME NEW p \in Pages, NEW c \in Checks,
         NEW status \in {"checking", "signed-up", "not-signed-up"}
  PROVE  [p EXCEPT !.checks = c, !.signupStatus = status] \in Pages
<1> DEFINE q == [p EXCEPT !.checks = c]
<1>1. q \in Pages
  BY DEF Pages
<1>2. [p EXCEPT !.checks = c, !.signupStatus = status] = [q EXCEPT !.signupStatus = status]
  OBVIOUS
<1> HIDE DEF q
<1> QED
  BY <1>1, <1>2, StatusTyped

LEMMA CheckingPage ==
  ASSUME NEW p \in Pages
  PROVE  /\ Checking(p) \in Pages
         /\ \A e \in {Checking(p)} :
              /\ e.sending = p.sending /\ e.emailCodeSent = p.emailCodeSent
              /\ e.voterEmail = p.voterEmail /\ e.verifying = p.verifying
              /\ e.emailToken = p.emailToken /\ e.ghToken = p.ghToken
              /\ e.signup = p.signup /\ e.applicant = p.applicant
              /\ e.scope = p.scope /\ e.overtaken = p.overtaken
              /\ e.checks = IF signupOpen THEN p.checks \cup {<<p.scope, p.voterWeight>>}
                                          ELSE p.checks
              /\ e.signupStatus = IF signupOpen THEN "checking" ELSE p.signupStatus
<1>1. CASE ~signupOpen
  BY <1>1 DEF Checking
<1>2. CASE signupOpen
  <2> DEFINE c == p.checks \cup {<<p.scope, p.voterWeight>>}
             e == [p EXCEPT !.checks = c, !.signupStatus = "checking"]
  <2>1. Checking(p) = e
    BY <1>2 DEF Checking, Pages
  <2>2. c \in Checks
    BY DEF Pages, Checks
  <2> HIDE DEF c
  <2>3. e \in Pages
    BY <2>2, ChecksTyped
  <2>4. /\ e.sending = p.sending /\ e.emailCodeSent = p.emailCodeSent
        /\ e.voterEmail = p.voterEmail /\ e.verifying = p.verifying
        /\ e.emailToken = p.emailToken /\ e.ghToken = p.ghToken
        /\ e.signup = p.signup /\ e.applicant = p.applicant
        /\ e.scope = p.scope /\ e.overtaken = p.overtaken
        /\ e.checks = c /\ e.signupStatus = "checking"
    BY DEF Pages
  <2> HIDE DEF e
  <2> QED
    BY <1>2, <2>1, <2>3, <2>4 DEF c
<1> QED
  BY <1>1, <1>2

LEMMA WeighedPage ==
  ASSUME NEW p \in Pages, p.applicant \in Scopes, NEW w \in Weights
  PROVE  /\ Weighed(p, w) \in Pages
         /\ \A e \in {Weighed(p, w)} :
              /\ e.sending = p.sending /\ e.emailCodeSent = p.emailCodeSent
              /\ e.voterEmail = p.voterEmail /\ e.verifying = p.verifying
              /\ e.emailToken = p.emailToken /\ e.ghToken = p.ghToken
              /\ e.signup = p.signup /\ e.applicant = p.applicant
              /\ e.scope = p.scope /\ e.overtaken = p.overtaken
              /\ e.checks = p.checks /\ e.signupStatus = p.signupStatus
<1> DEFINE ws == [p.weights EXCEPT ![p.applicant] = w]
           e == [p EXCEPT !.voterWeight = w, !.weights = ws]
<1>1. Weighed(p, w) = e
  BY DEF Weighed, Pages
<1>2. ws \in Stores
  BY DEF Pages, Stores
<1> HIDE DEF ws
<1>3. /\ e \in Pages
      /\ e.sending = p.sending /\ e.emailCodeSent = p.emailCodeSent
      /\ e.voterEmail = p.voterEmail /\ e.verifying = p.verifying
      /\ e.emailToken = p.emailToken /\ e.ghToken = p.ghToken
      /\ e.signup = p.signup /\ e.applicant = p.applicant
      /\ e.scope = p.scope /\ e.overtaken = p.overtaken
      /\ e.checks = p.checks /\ e.signupStatus = p.signupStatus
  BY <1>2 DEF Pages
<1> HIDE DEF e
<1> QED
  BY <1>1, <1>3

(* Loading and reloading the page, and coming back to it.                  *)
LEMMA LoadKeeps ==
  ASSUME PageInv, NEW t \in Tabs, LoadMetadata(t)
  PROVE  PageInv'
<1> DEFINE p == [page[t] EXCEPT !.known = TRUE, !.gasless = gaslessEnabled]
<1>1. page[t] \in Pages /\ EmailFields(page[t]) /\ Backed(t, page[t])
  BY PageOf
<1>2. gaslessEnabled \in BOOLEAN
  BY DEF PageInv
<1>3. p \in Pages
  BY <1>1, <1>2 DEF Pages
<1>4. EmailFields(p) /\ Backed(t, p)
  BY <1>1 DEF Pages, EmailFields, Backed, Current, WillWrite
<1>5. Becomes(t, p) /\ UNCHANGED <<fixed, chain>>
  BY DEF LoadMetadata
<1> HIDE DEF p
<1> QED
  BY <1>3, <1>4, <1>5, QuietMove

LEMMA ReloadKeeps ==
  ASSUME PageInv, NEW t \in Tabs, Reload(t)
  PROVE  PageInv'
<1> PICK s \in Scopes : Becomes(t, Loaded(page[t].known, page[t].weights, s, None))
  BY DEF Reload
<1> DEFINE p == Loaded(page[t].known, page[t].weights, s, None)
<1>1. page[t].known \in BOOLEAN /\ page[t].weights \in Stores
  BY PageOf DEF Pages
<1>2. p \in Pages /\ EmailFields(p) /\ Backed(t, p)
  BY <1>1, FreshPage
<1>3. Becomes(t, p) /\ UNCHANGED <<gaslessEnabled, signupOpen, roll, checked>>
  BY DEF Reload, fixed
<1>4. tx' \in TxStates /\ NoneMined
  BY ForgottenType DEF Reload
<1>5. checked' \subseteq Tabs
  BY <1>3 DEF PageInv
<1> HIDE DEF p
<1> QED
  BY <1>2, <1>3, <1>4, <1>5, PageMoves

LEMMA ReturnKeeps ==
  ASSUME PageInv, GithubInv, NEW t \in Tabs, Return(t)
  PROVE  PageInv'
<1> DEFINE f == page[t].away
           token == IF Github!At(f, "token") THEN flow[f].account ELSE None
<1> PICK s \in Scopes, known \in {page[t].known, FALSE} :
      Becomes(t, Loaded(known, page[t].weights, s, token))
  BY DEF Return
<1> DEFINE p == Loaded(known, page[t].weights, s, token)
<1>1. known \in BOOLEAN /\ page[t].weights \in Stores /\ f \in Flows
  BY PageOf DEF Pages, Return
<1>2. token \in Accounts \cup {None}
  BY <1>1, GithubTypes DEF FlowKnown, Github!At, Granted, Signing
<1>3. Becomes(t, p) /\ UNCHANGED <<fixed, chain>>
  BY DEF Return
<1> HIDE DEF token
<1>4. p \in Pages /\ EmailFields(p) /\ Backed(t, p)
  BY <1>1, <1>2, FreshPage
<1> HIDE DEF p
<1> QED
  BY <1>3, <1>4, QuietMove

(* Checks of the status, and changes of the account.                       *)
LEMMA StartKeeps ==
  ASSUME PageInv, NEW t \in Tabs, StartCheck(t)
  PROVE  PageInv'
<1> PICK p \in Pages : p = page[t]
  BY PageOf
<1>1. EmailFields(p) /\ Backed(t, p)
  BY PageOf
<1> PICK e : e = Checking(p)
  OBVIOUS
<1>2. /\ e \in Pages
      /\ e.sending = p.sending /\ e.emailCodeSent = p.emailCodeSent
      /\ e.voterEmail = p.voterEmail /\ e.verifying = p.verifying
      /\ e.emailToken = p.emailToken
      /\ e.signup = p.signup /\ e.applicant = p.applicant
      /\ e.scope = p.scope /\ e.overtaken = p.overtaken
      /\ e.checks = IF signupOpen THEN p.checks \cup {<<p.scope, p.voterWeight>>} ELSE p.checks
      /\ e.signupStatus = IF signupOpen THEN "checking" ELSE p.signupStatus
  BY CheckingPage
<1>3. EmailFields(e)
  BY <1>1, <1>2 DEF EmailFields
<1>4. Backed(t, e)
  BY <1>1, <1>2 DEF Backed, Current, WillWrite
<1>5. Becomes(t, e) /\ UNCHANGED <<fixed, chain>>
  BY DEF StartCheck
<1> QED
  BY <1>2, <1>3, <1>4, <1>5, QuietMove

LEMMA SwitchKeeps ==
  ASSUME PageInv, NEW t \in Tabs, NEW s \in Scopes, SwitchAccount(t, s)
  PROVE  PageInv'
<1> PICK q \in Pages : q = page[t]
  BY PageOf
<1>1. EmailFields(q) /\ Backed(t, q)
  BY PageOf
<1> DEFINE late == q.overtaken \/ Awaiting(q) \/ ~signupOpen
           w == q.weights[s]
           p == [q EXCEPT !.scope = s, !.voterWeight = w, !.overtaken = late]
<1>2. late \in BOOLEAN /\ w \in Weights
  BY DEF Pages, Stores
<1>3. Becomes(t, Checking(p)) /\ UNCHANGED <<fixed, chain>>
  BY DEF SwitchAccount
<1>4. ~late => signupOpen /\ q.checks = {} /\ q.signup \notin WillWrite
  BY DEF Awaiting
<1> HIDE DEF late, w
<1>5. /\ p \in Pages
      /\ p.sending = q.sending /\ p.emailCodeSent = q.emailCodeSent
      /\ p.voterEmail = q.voterEmail /\ p.verifying = q.verifying
      /\ p.emailToken = q.emailToken
      /\ p.signup = q.signup /\ p.applicant = q.applicant /\ p.checks = q.checks
      /\ p.scope = s /\ p.overtaken = late /\ p.signupStatus = q.signupStatus
  BY <1>2 DEF Pages
<1> HIDE DEF p
<1> PICK e : e = Checking(p)
  OBVIOUS
<1>6. /\ e \in Pages
      /\ e.sending = p.sending /\ e.emailCodeSent = p.emailCodeSent
      /\ e.voterEmail = p.voterEmail /\ e.verifying = p.verifying
      /\ e.emailToken = p.emailToken
      /\ e.signup = p.signup /\ e.applicant = p.applicant
      /\ e.scope = p.scope /\ e.overtaken = p.overtaken
      /\ e.checks = IF signupOpen THEN p.checks \cup {<<p.scope, p.voterWeight>>} ELSE p.checks
      /\ e.signupStatus = IF signupOpen THEN "checking" ELSE p.signupStatus
  BY <1>5, CheckingPage
<1>7. EmailFields(e)
  BY <1>1, <1>5, <1>6 DEF EmailFields
<1>8. Backed(t, e)
  <2>1. e.signup = q.signup /\ e.applicant = q.applicant /\ e.scope = s /\ e.overtaken = late
    BY <1>5, <1>6
  <2>2. ~late => e.checks = {<<s, p.voterWeight>>} /\ e.signupStatus = "checking"
    BY <1>4, <1>5, <1>6
  <2> QED
    BY <1>1, <1>4, <2>1, <2>2 DEF Backed, Current, WillWrite
<1>9. Becomes(t, e)
  BY <1>3
<1> QED
  BY <1>3, <1>6, <1>7, <1>8, <1>9, QuietMove

LEMMA EndKeeps ==
  ASSUME PageInv, NEW t \in Tabs, NEW s \in Scopes, NEW w \in Weights, EndCheck(t, s, w)
  PROVE  PageInv'
<1> PICK q \in Pages : q = page[t]
  BY PageOf
<1>1. EmailFields(q) /\ Backed(t, q) /\ <<s, w>> \in q.checks
  BY PageOf DEF EndCheck
<1>2. PICK found \in {Leaf(t, s, w), FALSE} :
        LET r == Ended(q, s, w, found)
        IN Becomes(t, [r EXCEPT !.overtaken = @ /\ ~(s = r.scope /\ Current(r))])
  BY DEF EndCheck
<1> DEFINE status == IF found THEN "signed-up" ELSE "not-signed-up"
           left == q.checks \ {<<s, w>>}
           r == [q EXCEPT !.checks = left, !.signupStatus = status]
           still == r.overtaken /\ ~(s = r.scope /\ Current(r))
           p == [r EXCEPT !.overtaken = still]
<1>3. /\ status \in {"signed-up", "not-signed-up"}
      /\ status = "signed-up" => <<t, s>> \in roll
  BY <1>2 DEF Leaf
<1>10. Ended(q, s, w, found) = r
  BY DEF Ended, Pages
<1>4. Becomes(t, p) /\ UNCHANGED <<fixed, chain>>
  BY <1>2, <1>10 DEF EndCheck
<1>5. left \in Checks /\ left \subseteq q.checks
  BY DEF Pages, Checks
<1> HIDE DEF status, left
<1>11. r \in Pages
  BY <1>3, <1>5, ChecksTyped
<1>12. /\ r.sending = q.sending /\ r.emailCodeSent = q.emailCodeSent
       /\ r.voterEmail = q.voterEmail /\ r.verifying = q.verifying
       /\ r.emailToken = q.emailToken
       /\ r.signup = q.signup /\ r.applicant = q.applicant
       /\ r.scope = q.scope /\ r.overtaken = q.overtaken
       /\ r.checks = left /\ r.signupStatus = status
  BY DEF Pages
<1> HIDE DEF r
<1>13. still \in BOOLEAN
  OBVIOUS
<1>14. ~still => ~q.overtaken \/ (s = q.scope /\ Current(r))
  <2>1. ~still => ~r.overtaken \/ (s = r.scope /\ Current(r))
    OBVIOUS
  <2> QED
    BY <1>12, <2>1
<1> HIDE DEF still
<1>6. /\ p \in Pages
      /\ p.sending = r.sending /\ p.emailCodeSent = r.emailCodeSent
      /\ p.voterEmail = r.voterEmail /\ p.verifying = r.verifying
      /\ p.emailToken = r.emailToken
      /\ p.signup = r.signup /\ p.applicant = r.applicant
      /\ p.scope = r.scope /\ p.overtaken = still
      /\ p.checks = r.checks /\ p.signupStatus = r.signupStatus
  BY <1>11, <1>13 DEF Pages
<1> HIDE DEF p
<1>7. EmailFields(p)
  BY <1>1, <1>6, <1>12 DEF EmailFields
<1>8. Backed(t, p)
  <2>1. ~q.overtaken => s = q.scope /\ Current(r)
    BY <1>1, <1>5, <1>12 DEF Backed, Current, WillWrite
  <2>2. ~p.overtaken => s = q.scope /\ Current(p)
    BY <1>6, <1>14, <2>1 DEF Current
  <2>3. p.signupStatus = "signed-up" => <<t, s>> \in roll
    BY <1>3, <1>6, <1>12
  <2> QED
    BY <1>1, <1>6, <1>12, <2>2, <2>3 DEF Backed, Current, WillWrite
<1> QED
  BY <1>4, <1>6, <1>7, <1>8, QuietMove

(* What is typed into the forms.                                           *)
LEMMA TypeKeeps ==
  ASSUME PageInv, NEW t \in Tabs, NEW what \in {"listed", "unlisted"}, Type(t, what)
  PROVE  PageInv'
<1> DEFINE p == [page[t] EXCEPT !.typed = what]
<1>1. page[t] \in Pages /\ EmailFields(page[t]) /\ Backed(t, page[t])
  BY PageOf
<1>2. p \in Pages
  BY <1>1 DEF Pages
<1>3. EmailFields(p) /\ Backed(t, p)
  BY <1>1 DEF Pages, EmailFields, Backed, Current, WillWrite
<1>4. Becomes(t, p) /\ UNCHANGED <<fixed, chain>>
  BY DEF Type
<1> HIDE DEF p
<1> QED
  BY <1>2, <1>3, <1>4, QuietMove

LEMMA AddressKeeps ==
  ASSUME PageInv, NEW t \in Tabs, NEW a \in Addresses, TypeEmail(t, a)
  PROVE  PageInv'
<1> DEFINE p == [page[t] EXCEPT !.voterEmail = a]
<1>1. page[t] \in Pages /\ EmailFields(page[t]) /\ Backed(t, page[t])
  BY PageOf
<1>2. p \in Pages
  BY <1>1 DEF Pages
<1>3. ~page[t].emailCodeSent
  BY DEF TypeEmail, AddressOpen
<1>4. EmailFields(p) /\ Backed(t, p)
  BY <1>1, <1>3 DEF Pages, EmailFields, Backed, Current, WillWrite
<1>5. Becomes(t, p) /\ UNCHANGED <<fixed, chain>>
  BY DEF TypeEmail
<1> HIDE DEF p
<1> QED
  BY <1>2, <1>4, <1>5, QuietMove

(* The two e-mail requests and their answers.                              *)
LEMMA SendKeeps ==
  ASSUME PageInv, NEW t \in Tabs, NEW c \in Email!Calls, SendCode(t, c)
  PROVE  PageInv'
<1>1. page[t] \in Pages /\ EmailFields(page[t]) /\ Backed(t, page[t])
  BY PageOf
<1>2. gaslessEnabled' = gaslessEnabled /\ UNCHANGED chain
  BY DEF SendCode
<1>3. CASE UNCHANGED page
  BY <1>2, <1>3 DEF PageInv, chain, EmailFields, Backed, Current, WillWrite
<1>4. CASE Becomes(t, [page[t] EXCEPT !.sending = c])
  <2> DEFINE p == [page[t] EXCEPT !.sending = c]
  <2>1. /\ ~page[t].emailCodeSent /\ page[t].voterEmail \in Addresses
    BY DEF SendCode, CanSend, Addresses, Email!Addresses
  <2>2. p \in Pages
    BY <1>1 DEF Pages
  <2>3. EmailFields(p) /\ Backed(t, p)
    BY <1>1, <2>1 DEF Pages, EmailFields, Backed, Current, WillWrite
  <2>4. /\ UNCHANGED <<gaslessEnabled, roll, signupOpen>>
        /\ checked' \subseteq Tabs /\ tx' \in TxStates /\ tx' = tx
    BY <1>2 DEF chain, PageInv
  <2>5. Becomes(t, p) /\ NoneMined
    BY <1>4, <2>4 DEF NoneMined
  <2> HIDE DEF p
  <2> QED
    BY <2>2, <2>3, <2>4, <2>5, PageMoves
<1> QED
  BY <1>3, <1>4 DEF SendCode

LEMMA SentKeeps ==
  ASSUME PageInv, NEW t \in Tabs, SendCodeAnswered(t)
  PROVE  PageInv'
<1>1. page[t] \in Pages /\ EmailFields(page[t]) /\ Backed(t, page[t])
  BY PageOf
<1>2. PICK heard \in BOOLEAN :
        Becomes(t, [page[t] EXCEPT !.sending = None,
                      !.emailCodeSent = heard /\ call[page[t].sending].pc = "ok"])
  BY DEF SendCodeAnswered
<1> DEFINE arrived == heard /\ call[page[t].sending].pc = "ok"
           p == [page[t] EXCEPT !.sending = None, !.emailCodeSent = arrived]
<1>3. arrived \in BOOLEAN
  OBVIOUS
<1>4. Becomes(t, p) /\ UNCHANGED <<fixed, chain>> /\ page[t].sending # None
  BY <1>2 DEF SendCodeAnswered
<1> HIDE DEF arrived
<1>5. p \in Pages
  BY <1>1, <1>3 DEF Pages
<1>6. EmailFields(p) /\ Backed(t, p)
  BY <1>1, <1>3, <1>4 DEF Pages, EmailFields, Backed, Current, WillWrite
<1> HIDE DEF p
<1> QED
  BY <1>4, <1>5, <1>6, QuietMove

LEMMA VerifyKeeps ==
  ASSUME PageInv, NEW t \in Tabs, NEW c, NEW code, VerifyCode(t, c, code)
  PROVE  PageInv'
<1>1. page[t] \in Pages /\ EmailFields(page[t]) /\ Backed(t, page[t])
  BY PageOf
<1>2. gaslessEnabled' = gaslessEnabled /\ UNCHANGED chain
  BY DEF VerifyCode
<1>3. CASE UNCHANGED page
  BY <1>2, <1>3 DEF PageInv, chain, EmailFields, Backed, Current, WillWrite
<1>4. CASE Becomes(t, [page[t] EXCEPT !.verifying = page[t].voterEmail])
  <2> DEFINE p == [page[t] EXCEPT !.verifying = page[t].voterEmail]
  <2>1. page[t].emailCodeSent
    BY DEF VerifyCode
  <2>2. p \in Pages
    BY <1>1 DEF Pages
  <2>3. EmailFields(p) /\ Backed(t, p)
    BY <1>1, <2>1 DEF Pages, EmailFields, Backed, Current, WillWrite
  <2>4. /\ UNCHANGED <<gaslessEnabled, roll, signupOpen>>
        /\ checked' \subseteq Tabs /\ tx' \in TxStates /\ tx' = tx
    BY <1>2 DEF chain, PageInv
  <2>5. Becomes(t, p) /\ NoneMined
    BY <1>4, <2>4 DEF NoneMined
  <2> HIDE DEF p
  <2> QED
    BY <2>2, <2>3, <2>4, <2>5, PageMoves
<1> QED
  BY <1>3, <1>4 DEF VerifyCode

LEMMA VerifiedKeeps ==
  ASSUME PageInv, NEW t \in Tabs, VerifyCodeAnswered(t)
  PROVE  PageInv'
<1>1. page[t] \in Pages /\ EmailFields(page[t]) /\ Backed(t, page[t])
  BY PageOf
<1>2. PICK token \in {page[t].verifying, None} :
        Becomes(t, [page[t] EXCEPT !.verifying = None, !.emailToken = token])
  BY DEF VerifyCodeAnswered
<1> DEFINE p == [page[t] EXCEPT !.verifying = None, !.emailToken = token]
<1>3. Becomes(t, p) /\ UNCHANGED <<fixed, chain>> /\ page[t].verifying # None
  BY <1>2 DEF VerifyCodeAnswered
<1>4. p \in Pages
  BY <1>1, <1>2 DEF Pages
<1>5. EmailFields(p) /\ Backed(t, p)
  BY <1>1, <1>2, <1>3 DEF Pages, EmailFields, Backed, Current, WillWrite
<1> HIDE DEF p
<1> QED
  BY <1>3, <1>4, <1>5, QuietMove

LEMMA SignInKeeps ==
  ASSUME PageInv, NEW t \in Tabs, NEW f \in Flows, SignIn(t, f)
  PROVE  PageInv'
<1> DEFINE p == [page[t] EXCEPT !.away = f]
<1>1. page[t] \in Pages /\ EmailFields(page[t]) /\ Backed(t, page[t])
  BY PageOf
<1>2. p \in Pages
  BY <1>1 DEF Pages
<1>3. EmailFields(p) /\ Backed(t, p)
  BY <1>1 DEF Pages, EmailFields, Backed, Current, WillWrite
<1>4. Becomes(t, p) /\ UNCHANGED <<fixed, chain>>
  BY DEF SignIn, fixed, Github!Start, Github!Outside
<1> HIDE DEF p
<1> QED
  BY <1>2, <1>3, <1>4, QuietMove

(* The signup itself.                                                      *)
LEMMA PendingType ==
  ASSUME PageInv, NEW t \in Tabs, NEW s \in Scopes, tx' = [tx EXCEPT ![t][s] = "pending"]
  PROVE  tx' \in TxStates /\ NoneMined
<1> DEFINE row == [tx[t] EXCEPT ![s] = "pending"]
<1>1. row \in [Scopes -> {"none", "pending", "mined", "reverted"}]
  BY DEF PageInv, TxStates
<1>2. \A r \in Scopes : row[r] = "mined" => tx[t][r] = "mined"
  BY DEF PageInv, TxStates
<1>3. tx' = [tx EXCEPT ![t] = row]
  BY DEF PageInv, TxStates
<1> HIDE DEF row
<1> QED
  BY <1>1, <1>2, <1>3 DEF PageInv, TxStates, NoneMined

LEMMA RelayKeeps ==
  ASSUME PageInv, NEW t \in Tabs, AskRelay(t)
  PROVE  PageInv'
<1>1. page[t] \in Pages /\ EmailFields(page[t]) /\ Backed(t, page[t])
  BY PageOf
<1>2. PICK known \in BOOLEAN, w \in Weights :
        /\ tx' = [tx EXCEPT ![t][page[t].scope] = "pending"]
        /\ checked' = IF known THEN checked \cup {t} ELSE checked \ {t}
        /\ Becomes(t, [page[t] EXCEPT !.signup = "relaying", !.answer = w,
                                      !.applicant = page[t].scope])
  BY DEF AskRelay
<1> DEFINE p == [page[t] EXCEPT !.signup = "relaying", !.answer = w, !.applicant = page[t].scope]
<1>3. Becomes(t, p) /\ UNCHANGED <<gaslessEnabled, signupOpen, roll>>
  BY <1>2 DEF AskRelay, fixed
<1>4. p \in Pages
  BY <1>1 DEF Pages
<1>5. EmailFields(p) /\ Backed(t, p)
  BY <1>1 DEF Pages, EmailFields, Backed, Current, WillWrite
<1>6. tx' \in TxStates /\ NoneMined
  BY <1>1, <1>2, PendingType DEF Pages
<1>7. checked' \subseteq Tabs
  BY <1>2 DEF PageInv
<1> HIDE DEF p
<1> QED
  BY <1>3, <1>4, <1>5, <1>6, <1>7, PageMoves

LEMMA WalletKeeps ==
  ASSUME PageInv, NEW t \in Tabs, AskWallet(t)
  PROVE  PageInv'
<1> DEFINE p == [page[t] EXCEPT !.signup = "wallet", !.applicant = page[t].scope]
<1>1. page[t] \in Pages /\ EmailFields(page[t]) /\ Backed(t, page[t])
  BY PageOf
<1>2. 1 \in Weights
  BY WeightAssumption DEF Weights
<1>3. Becomes(t, p) /\ UNCHANGED <<gaslessEnabled, signupOpen, roll>>
  BY DEF AskWallet, fixed
<1>4. p \in Pages
  BY <1>1, <1>2 DEF Pages
<1>5. EmailFields(p) /\ Backed(t, p)
  BY <1>1 DEF Pages, EmailFields, Backed, Current, WillWrite
<1>6. tx' \in TxStates /\ NoneMined
  BY <1>1, PendingType DEF Pages, AskWallet
<1>7. checked' \subseteq Tabs
  BY DEF PageInv, AskWallet
<1> HIDE DEF p
<1> QED
  BY <1>3, <1>4, <1>5, <1>6, <1>7, PageMoves

LEMMA AnswerKeeps ==
  ASSUME PageInv, NEW t \in Tabs, RelayAnswers(t)
  PROVE  PageInv'
<1> DEFINE p == [page[t] EXCEPT !.signup = "waiting"]
<1>1. page[t] \in Pages /\ EmailFields(page[t]) /\ Backed(t, page[t])
  BY PageOf
<1>2. p \in Pages
  BY <1>1 DEF Pages
<1>3. EmailFields(p) /\ Backed(t, p)
  <2>1. EmailFields(p)
    BY <1>1 DEF Pages, EmailFields
  <2>2. /\ p.signup = "waiting" /\ p.applicant = page[t].applicant
        /\ p.overtaken = page[t].overtaken /\ p.checks = page[t].checks
        /\ p.scope = page[t].scope /\ p.signupStatus = page[t].signupStatus
    BY <1>1 DEF Pages
  <2> HIDE DEF p
  <2>3. page[t].signup = "relaying"
    BY DEF RelayAnswers
  <2>4. Backed(t, p)
    BY <1>1, <2>2, <2>3 DEF Backed, Current, WillWrite
  <2> QED
    BY <2>1, <2>4
<1>4. Becomes(t, p) /\ UNCHANGED <<fixed, chain>>
  BY DEF RelayAnswers
<1> HIDE DEF p
<1> QED
  BY <1>2, <1>3, <1>4, QuietMove

(* A transaction that was mined has left its leaf.                         *)
LEMMA WaitKeeps ==
  ASSUME PageInv, NEW t \in Tabs, Wait(t)
  PROVE  PageInv'
<1> PICK q \in Pages : q = page[t]
  BY PageOf
<1>1. EmailFields(q) /\ Backed(t, q) /\ q.signup = "waiting" /\ q.applicant \in Scopes
  BY PageOf DEF Wait, Backed, Current, WillWrite
<1>2. <<t, q.applicant>> \in roll
  BY <1>1 DEF Wait, Confirmed, PageInv
<1> PICK e : e = Weighed(q, q.answer)
  OBVIOUS
<1>3. q.answer \in Weights
  BY DEF Pages
<1>4. /\ e \in Pages
      /\ e.sending = q.sending /\ e.emailCodeSent = q.emailCodeSent
      /\ e.voterEmail = q.voterEmail /\ e.verifying = q.verifying
      /\ e.emailToken = q.emailToken
      /\ e.signup = q.signup /\ e.applicant = q.applicant
      /\ e.scope = q.scope /\ e.overtaken = q.overtaken
      /\ e.checks = q.checks /\ e.signupStatus = q.signupStatus
  BY <1>1, <1>3, WeighedPage
<1> DEFINE p == [e EXCEPT !.signup = "verifying"]
<1>5. p \in Pages
  BY <1>4 DEF Pages
<1>6. EmailFields(p)
  BY <1>1, <1>4 DEF Pages, EmailFields
<1>7. Backed(t, p)
  BY <1>1, <1>2, <1>4 DEF Pages, Backed, Current, WillWrite
<1>8. Becomes(t, p) /\ UNCHANGED <<fixed, chain>>
  BY DEF Wait
<1> HIDE DEF p
<1> QED
  BY <1>5, <1>6, <1>7, <1>8, QuietMove

LEMMA SignedUpKeeps ==
  ASSUME PageInv, NEW t \in Tabs, SignedUp(t)
  PROVE  PageInv'
<1> PICK q \in Pages : q = page[t]
  BY PageOf
<1>1. /\ EmailFields(q) /\ Backed(t, q) /\ q.applicant \in Scopes
      /\ q.signup = "verifying" \/ q.signup = "wallet"
  BY PageOf DEF SignedUp, Backed, Current, WillWrite
<1>2. <<t, q.applicant>> \in roll
  BY <1>1 DEF SignedUp, Confirmed, PageInv, Backed, Current, WillWrite
<1>3. 1 \in Weights
  BY WeightAssumption DEF Weights
<1> PICK e : e = IF q.signup = "wallet" THEN Weighed(q, 1) ELSE q
  OBVIOUS
<1>4. /\ e \in Pages
      /\ e.sending = q.sending /\ e.emailCodeSent = q.emailCodeSent
      /\ e.voterEmail = q.voterEmail /\ e.verifying = q.verifying
      /\ e.emailToken = q.emailToken
      /\ e.signup = q.signup /\ e.applicant = q.applicant
      /\ e.scope = q.scope /\ e.overtaken = q.overtaken
      /\ e.checks = q.checks /\ e.signupStatus = q.signupStatus
  <2>1. CASE q.signup = "wallet"
    BY <1>1, <1>3, <2>1, WeighedPage
  <2>2. CASE q.signup # "wallet"
    BY <2>2
  <2> QED
    BY <2>1, <2>2
<1> DEFINE p == [e EXCEPT !.signup = "refreshing", !.signupStatus = "signed-up", !.answer = 1]
<1>5. p \in Pages
  <2> DEFINE x == [e EXCEPT !.signup = "refreshing"]
             y == [x EXCEPT !.answer = 1]
  <2>1. x \in Pages
    BY <1>4 DEF Pages
  <2>2. p = [y EXCEPT !.signupStatus = "signed-up"]
    OBVIOUS
  <2> HIDE DEF x
  <2>3. y \in Pages
    BY <1>3, <2>1 DEF Pages
  <2> HIDE DEF y
  <2> QED
    BY <2>2, <2>3, StatusTyped
<1>6. EmailFields(p)
  BY <1>1, <1>4 DEF Pages, EmailFields
<1>7. Backed(t, p)
  BY <1>1, <1>2, <1>4 DEF Pages, Backed, Current, WillWrite
<1>8. Becomes(t, p) /\ UNCHANGED <<fixed, chain>>
  BY DEF SignedUp
<1> HIDE DEF p
<1> QED
  BY <1>5, <1>6, <1>7, <1>8, QuietMove

LEMMA FinishKeeps ==
  ASSUME PageInv, NEW t \in Tabs, Finish(t)
  PROVE  PageInv'
<1> DEFINE p == [page[t] EXCEPT !.signup = "idle", !.answer = 1, !.applicant = None]
<1>1. page[t] \in Pages /\ EmailFields(page[t]) /\ Backed(t, page[t])
  BY PageOf
<1>2. 1 \in Weights
  BY WeightAssumption DEF Weights
<1>3. p \in Pages
  BY <1>1, <1>2 DEF Pages
<1>4. EmailFields(p) /\ Backed(t, p)
  BY <1>1 DEF Pages, EmailFields, Backed, Current, WillWrite
<1>5. Becomes(t, p) /\ UNCHANGED <<gaslessEnabled, signupOpen, roll, checked>>
  BY DEF Finish, fixed
<1>6. tx' \in TxStates /\ NoneMined
  BY ForgottenType DEF Finish
<1>7. checked' \subseteq Tabs
  BY <1>5 DEF PageInv
<1> HIDE DEF p
<1> QED
  BY <1>3, <1>4, <1>5, <1>6, <1>7, PageMoves

LEMMA MineKeeps ==
  ASSUME PageInv, NEW t \in Tabs, NEW s \in Scopes, Mine(t, s)
  PROVE  PageInv'
<1>1. UNCHANGED <<gaslessEnabled, signupOpen, checked, page>>
  BY DEF Mine, fixed
<1>2. roll \subseteq roll' /\ roll' \subseteq Tabs \X Scopes
  BY DEF Mine, PageInv
<1> DEFINE outcome == IF page[t].applicant # s THEN "none"
                      ELSE IF signupOpen THEN "mined" ELSE "reverted"
           row == [tx[t] EXCEPT ![s] = outcome]
<1>3. outcome \in {"none", "mined", "reverted"} /\ (outcome = "mined" => <<t, s>> \in roll')
  BY DEF Mine
<1>4. tx' = [tx EXCEPT ![t] = row]
  BY DEF Mine, PageInv, TxStates
<1> HIDE DEF outcome
<1>5. /\ row \in [Scopes -> {"none", "pending", "mined", "reverted"}]
      /\ \A r \in Scopes : row[r] = IF r = s THEN outcome ELSE tx[t][r]
  BY <1>3 DEF PageInv, TxStates
<1> HIDE DEF row
<1>6. tx' \in TxStates
  BY <1>4, <1>5 DEF PageInv, TxStates
<1>7. \A u \in Tabs, r \in Scopes : tx'[u][r] = "mined" => <<u, r>> \in roll'
  BY <1>2, <1>3, <1>4, <1>5 DEF PageInv, TxStates
<1> QED
  BY <1>1, <1>2, <1>6, <1>7 DEF PageInv, EmailFields, Backed, Current, WillWrite

LEMMA PageKept == PageInv /\ GithubInv /\ [Next]_vars => PageInv'
<1> SUFFICES ASSUME PageInv, GithubInv, [Next]_vars PROVE PageInv'
  OBVIOUS
<1>1. ASSUME NEW t \in Tabs, TabStep(t)
      PROVE  PageInv'
  <2>1. CASE LoadMetadata(t) \/ Reload(t) \/ Return(t)
    BY <2>1, LoadKeeps, ReloadKeeps, ReturnKeeps
  <2>2. CASE \/ StartCheck(t)
             \/ \E s \in Scopes : SwitchAccount(t, s) \/ \E w \in Weights : EndCheck(t, s, w)
    BY <2>2, StartKeeps, SwitchKeeps, EndKeeps
  <2>3. CASE \/ \E what \in {"listed", "unlisted"} : Type(t, what)
             \/ \E a \in Addresses : TypeEmail(t, a)
    BY <2>3, TypeKeeps, AddressKeeps
  <2>4. CASE \E c \in Email!Calls : SendCode(t, c) \/ \E code \in Email!Typed : VerifyCode(t, c, code)
    BY <2>4, SendKeeps, VerifyKeeps
  <2>5. CASE SendCodeAnswered(t) \/ VerifyCodeAnswered(t) \/ \E f \in Flows : SignIn(t, f)
    BY <2>5, SentKeeps, VerifiedKeeps, SignInKeeps
  <2>6. CASE AskRelay(t) \/ AskWallet(t) \/ RelayAnswers(t) \/ Wait(t) \/ SignedUp(t)
    BY <2>6, RelayKeeps, WalletKeeps, AnswerKeeps, WaitKeeps, SignedUpKeeps
  <2>7. CASE Refresh(t) \/ Fail(t)
    BY <2>7, FinishKeeps DEF Refresh, Fail
  <2> QED
    BY <1>1, <2>1, <2>2, <2>3, <2>4, <2>5, <2>6, <2>7 DEF TabStep
<1>2. CASE MailService \/ EmailRestart \/ GithubStep \/ Tick \/ UNCHANGED vars
  <2>1. UNCHANGED <<gaslessEnabled, chain, page>>
    BY <1>2 DEF MailService, EmailRestart, GithubStep, Tick, vars, fixed
  <2> QED
    BY <2>1 DEF chain, PageInv, EmailFields, Backed, Current, WillWrite
<1>3. CASE CloseSignup
  BY <1>3 DEF CloseSignup, fixed, PageInv, EmailFields, Backed, Current, WillWrite
<1> QED
  BY <1>1, <1>2, <1>3, MineKeeps DEF Next

LEMMA PageStart == Init => PageInv
<1> SUFFICES ASSUME Init PROVE PageInv
  OBVIOUS
<1> DEFINE ones == [s \in Scopes |-> 1]
           row == [s \in Scopes |-> "none"]
<1> PICK first \in [Tabs -> Scopes] :
      page = [t \in Tabs |-> Loaded(FALSE, ones, first[t], None)]
  BY DEF Init
<1>1. ones \in Stores
  BY WeightAssumption DEF Weights, Stores
<1> HIDE DEF ones
<1>2. \A t \in Tabs : page[t] \in Pages /\ EmailFields(page[t]) /\ Backed(t, page[t])
  <2> SUFFICES ASSUME NEW t \in Tabs
               PROVE  page[t] \in Pages /\ EmailFields(page[t]) /\ Backed(t, page[t])
    OBVIOUS
  <2>1. page[t] = Loaded(FALSE, ones, first[t], None) /\ first[t] \in Scopes
    OBVIOUS
  <2> QED
    BY <1>1, <2>1, FreshPage
<1>3. page \in [Tabs -> Pages]
  BY <1>2
<1>4. row \in [Scopes -> {"none", "pending", "mined", "reverted"}] /\ \A s \in Scopes : row[s] = "none"
  OBVIOUS
<1>5. /\ tx = [t \in Tabs |-> row] /\ gaslessEnabled \in BOOLEAN
      /\ signupOpen \in BOOLEAN /\ roll = {} /\ checked = {}
  BY DEF Init
<1> HIDE DEF row
<1>6. /\ tx \in TxStates /\ \A t \in Tabs, s \in Scopes : tx[t][s] # "mined"
  BY <1>4, <1>5 DEF TxStates
<1> QED
  BY <1>2, <1>3, <1>5, <1>6 DEF PageInv

(* The pages, the roll and the transactions: the inductive invariant behind*)
(* what the gates promise.                                                 *)
THEOREM PageInvariant == Spec => [](PageInv /\ GithubInv)
<1>1. Init => PageInv
  BY PageStart
<1> QED
  BY <1>1, PageKept, GithubInvariant, PTL DEF Spec

(* "Signed up" is only shown for an identity with a leaf on the roll,      *)
(* whatever checks, answers, receipts and changes of account overlap, but  *)
(* on a page that a change of account has overtaken (page.tsx checkSignup, *)
(* handleSignUp and the effect that loads the identity).                   *)
THEOREM LeafBehindStatus == Spec => []SignedUpHasLeaf
<1>1. PageInv => SignedUpHasLeaf
  BY DEF PageInv, Backed, Current, WillWrite, SignedUpHasLeaf
<1> QED
  BY <1>1, PageInvariant, PTL

(* The token of a page is for the address the page shows and sends along   *)
(* (page.tsx handleEmailVerifyCode, SignupSection.tsx).                    *)
THEOREM TokenOfShownAddress == Spec => []TokenMatchesAddress
<1>1. PageInv => TokenMatchesAddress
  BY DEF PageInv, EmailFields, TokenMatchesAddress
<1> QED
  BY <1>1, PageInvariant, PTL

-----------------------------------------------------------------------------
(* The steps of the page as steps of the route.                            *)

LEMMA TabOnEmail ==
  ASSUME PageInv, NEW t \in Tabs, TabStep(t) \/ \E s \in Scopes : Mine(t, s)
  PROVE  [Email!Next]_(Email!vars)
<1>1. page[t] \in Pages /\ EmailFields(page[t])
  BY PageOf
<1>2. CASE UNCHANGED <<gate, now, email>>
  BY <1>2 DEF email, Email!vars, Email!server, Email!history
<1>3. CASE \E c \in Email!Calls : SendCode(t, c)
  <2>1. PICK c \in Email!Calls : SendCode(t, c)
    BY <1>3
  <2>2. page[t].voterEmail \in Email!Addresses
    BY <2>1 DEF SendCode, CanSend, Email!Addresses
  <2> QED
    BY <2>1, <2>2 DEF SendCode, Email!Next
<1>4. CASE \E c \in Email!Calls : \E code \in Email!Typed : VerifyCode(t, c, code)
  <2>1. PICK c \in Email!Calls : \E code \in Email!Typed : VerifyCode(t, c, code)
    BY <1>4
  <2>2. PICK code \in Email!Typed : VerifyCode(t, c, code)
    BY <2>1
  <2>3. page[t].voterEmail \in Email!Addresses
    BY <1>1, <2>2 DEF VerifyCode, EmailFields, Addresses
  <2> QED
    BY <2>2, <2>3 DEF VerifyCode, Email!Next
<1>5. CASE \E f \in Flows : SignIn(t, f)
  BY <1>2, <1>5 DEF SignIn, Github!Start, Github!Outside
<1>6. \/ UNCHANGED <<gate, now, email>>
      \/ \E f \in Flows : SignIn(t, f)
      \/ \E c \in Email!Calls : SendCode(t, c)
      \/ \E c \in Email!Calls : \E code \in Email!Typed : VerifyCode(t, c, code)
  BY DEF TabStep, Mine, LoadMetadata, Reload, StartCheck, SwitchAccount, EndCheck, Type, TypeEmail,
     SendCodeAnswered, VerifyCodeAnswered, Return, AskRelay, AskWallet, RelayAnswers, Wait,
     SignedUp, Refresh, Fail, Finish, fixed
<1> QED
  BY <1>2, <1>3, <1>4, <1>5, <1>6

LEMMA StepOnEmail == PageInv /\ [Next]_vars => [Email!Next]_(Email!vars)
<1> SUFFICES ASSUME PageInv, [Next]_vars PROVE [Email!Next]_(Email!vars)
  OBVIOUS
<1>1. CASE MailService \/ EmailRestart \/ Tick
  BY <1>1 DEF MailService, EmailRestart, Tick, Email!Next
<1>2. CASE GithubStep \/ CloseSignup \/ UNCHANGED vars
  <2>1. UNCHANGED <<gate, now, email>>
    BY <1>2 DEF GithubStep, CloseSignup, vars, fixed, Github!Deny, Github!Callback,
       Github!Grant, Github!CheckState, Github!Exchange, Github!FetchProfile,
       Github!ReadMetadata, Github!CheckMembership, Github!GithubFails,
       Github!SetMembership, Github!Restart, Github!Outside
  <2> QED
    BY <2>1 DEF email, Email!vars, Email!server, Email!history
<1> QED
  BY <1>1, <1>2, TabOnEmail DEF Next

(* The page uses the e-mail route as module EmailVerification has it: it   *)
(* asks for no address that is not one.                                    *)
THEOREM PageUsesEmail == Spec => Email!Spec
<1>1. Init => Email!Init
  BY DEF Init
<1> QED
  BY <1>1, StepOnEmail, PageInvariant, PTL DEF Spec, Email!Spec

-----------------------------------------------------------------------------
(* What is known of a pending code and of the requests.                    *)

Tries(code) == {c \in Email!Calls : call[c].against = code}

Pending(a) ==
  verificationCodes[a] # None =>
    LET code == verificationCodes[a].code IN
    /\ a \in Allowed
    /\ sent[a] # <<>> /\ code = Email!Newest(a).code
    /\ verificationCodes[a].expires = Email!Newest(a).at + CodeTtl
    /\ call[code].pc # "idle" /\ call[code].email = a
    /\ Cardinality(Tries(code)) = verificationCodes[a].attempts
    /\ \A d \in Email!Calls : Email!Accepted(d) => call[d].code # code

Request(c) ==
  /\ call[c].pc = "idle" => call[c].against = None /\ Tries(c) = {}
  /\ call[c].pc = "delivering" => call[c].action = "send"
  /\ Email!Accepted(c) =>
       LET code == call[c].code IN
       /\ code \in Email!Calls /\ code \in inbox
       /\ call[code].pc # "idle" /\ call[code].email = call[c].email
       /\ call[c].email \in Allowed
  /\ Cardinality(Tries(c)) <= MaxAttempts

EmailInv ==
  /\ Email!TypeOK
  /\ \A a \in Addresses : Pending(a)
  /\ \A c \in Email!Calls : Request(c)

LEMMA CallsFinite ==
  /\ IsFiniteSet(Email!Calls) /\ None \notin Email!Calls
  /\ MaxAttempts \in Nat \ {0} /\ MaxSends \in Nat \ {0} /\ CodeTtl \in Nat
  /\ MaxTime \in Nat /\ MaxRestarts \in Nat
<1>1. MaxCalls \in Nat
  BY EmailAssumption DEF Email!TimeAssumption
<1>2. IsFiniteSet(Email!Calls)
  BY <1>1, FS_Interval DEF Email!Calls
<1> QED
  BY <1>2, EmailAssumption DEF Email!TimeAssumption, Email!AddressAssumption

(* The route counts as this module does. *)
LEMMA SameCardinality == \A S : Email!Cardinality(S) = Cardinality(S)
BY Zenon DEF Email!Cardinality, Cardinality

LEMMA EmailTypes ==
  EmailInv =>
    /\ gate \in Gates /\ now \in Nat /\ metadataCached \in BOOLEAN
    /\ restarts \in 0..MaxRestarts /\ now \in 0..MaxTime
    /\ verificationCodes \in [Addresses -> Email!StoredCodes \cup {None}]
    /\ call \in [Email!Calls -> Email!CallStates]
    /\ inbox \subseteq Email!Calls
    /\ sent \in [Addresses -> Seq([code : Email!Calls, at : Nat])]
    /\ cleared \in [Addresses -> Nat]
<1> SUFFICES ASSUME EmailInv
             PROVE  /\ gate \in Gates /\ now \in Nat /\ metadataCached \in BOOLEAN
                    /\ restarts \in 0..MaxRestarts /\ now \in 0..MaxTime
                    /\ verificationCodes \in [Addresses -> Email!StoredCodes \cup {None}]
                    /\ call \in [Email!Calls -> Email!CallStates]
                    /\ inbox \subseteq Email!Calls
                    /\ sent \in [Addresses -> Seq([code : Email!Calls, at : Nat])]
                    /\ cleared \in [Addresses -> Nat]
  OBVIOUS
<1>1. Email!TypeOK
  BY DEF EmailInv
<1>2. now \in 0..MaxTime /\ now \in Nat
  BY <1>1, CallsFinite DEF Email!TypeOK
<1> QED
  BY <1>1, <1>2, Zenon DEF Email!TypeOK, Addresses

(* Requests that only go on, and codes that are only removed.              *)
SameRequest(c) ==
  /\ call'[c].action = call[c].action /\ call'[c].email = call[c].email
  /\ call'[c].code = call[c].code /\ call'[c].against = call[c].against
  /\ call'[c].pc = "idle" <=> call[c].pc = "idle"
  /\ call'[c].pc = "delivering" => call[c].pc = "delivering"
  /\ call'[c].pc = "ok" => call[c].pc \in {"ok", "delivering"}

LEMMA NothingNew ==
  ASSUME EmailInv, Email!TypeOK', sent' = sent, inbox \subseteq inbox',
         \A c \in Email!Calls : SameRequest(c),
         \A a \in Addresses : verificationCodes'[a] \in {None, verificationCodes[a]}
  PROVE  EmailInv'
<1>1. \A code : Tries(code)' = Tries(code)
  BY DEF Tries, SameRequest
<1>2. \A c \in Email!Calls : Email!Accepted(c)' => Email!Accepted(c)
  BY DEF EmailInv, Request, SameRequest, Email!Accepted, Email!At
<1>3. ASSUME NEW c \in Email!Calls PROVE Request(c)'
  <2>1. Request(c) /\ SameRequest(c) /\ Tries(c)' = Tries(c)
    BY <1>1 DEF EmailInv
  <2>2. Email!Accepted(c)' => SameRequest(call[c].code)
    BY <1>2, <2>1 DEF Request
  <2> QED
    BY <1>2, <2>1, <2>2 DEF Request, SameRequest
<1>4. ASSUME NEW a \in Addresses PROVE Pending(a)'
  <2> SUFFICES ASSUME verificationCodes'[a] # None PROVE Pending(a)'
    BY DEF Pending
  <2> DEFINE code == verificationCodes[a].code
  <2>1. verificationCodes'[a] = verificationCodes[a] /\ verificationCodes[a] # None
    OBVIOUS
  <2>2. Pending(a) /\ code \in Email!Calls
    BY <2>1, EmailTypes DEF EmailInv, Email!StoredCodes
  <2>3. SameRequest(code) /\ Tries(code)' = Tries(code)
    BY <1>1, <2>2
  <2>4. Email!Newest(a)' = Email!Newest(a)
    BY DEF Email!Newest
  <2>5. \A d \in Email!Calls : Email!Accepted(d)' => call'[d].code # code
    BY <1>2, <2>1, <2>2 DEF Pending, SameRequest
  <2> QED
    BY <2>1, <2>2, <2>3, <2>4, <2>5 DEF Pending, SameRequest
<1> QED
  BY <1>3, <1>4 DEF EmailInv

LEMMA Cleaned ==
  ASSUME EmailInv
  PROVE  /\ Email!cleanExpired \in [Addresses -> Email!StoredCodes \cup {None}]
         /\ \A a \in Addresses :
              Email!cleanExpired[a] = IF Email!Live(a) THEN verificationCodes[a] ELSE None
<1>1. Email!cleanExpired = [a \in Addresses |->
                              IF Email!Live(a) THEN verificationCodes[a] ELSE None]
  BY Zenon DEF Email!cleanExpired, Email!Stored, Addresses
<1>2. \A a \in Addresses :
        (IF Email!Live(a) THEN verificationCodes[a] ELSE None) \in Email!StoredCodes \cup {None}
  BY EmailTypes
<1> QED
  BY <1>1, <1>2

(* The types of the state once some of it has changed. *)
LEMMA TypesKept ==
  ASSUME gate' \in Gates, now' \in 0..MaxTime, metadataCached' \in BOOLEAN,
         restarts' \in 0..MaxRestarts,
         verificationCodes' \in [Addresses -> Email!StoredCodes \cup {None}],
         call' \in [Email!Calls -> Email!CallStates],
         inbox' \subseteq Email!Calls,
         sent' \in [Addresses -> Seq([code : Email!Calls, at : Nat])],
         cleared' \in [Addresses -> Nat]
  PROVE  Email!TypeOK'
BY Zenon DEF Email!TypeOK, Addresses

LEMMA RefusedKeeps ==
  ASSUME EmailInv, NEW a \in Addresses,
         Email!SendRefused(a) \/ Email!SendLimited(a) \/ Email!VerifyNothing(a)
  PROVE  EmailInv'
<1>1. UNCHANGED <<gate, now, restarts, call, inbox, sent, cleared>>
  BY DEF Email!SendRefused, Email!SendLimited, Email!VerifyNothing, Email!history
<1>2. metadataCached' \in BOOLEAN
  BY EmailTypes DEF Email!SendRefused, Email!SendLimited, Email!VerifyNothing, Email!Accepts
<1>3. verificationCodes' \in {verificationCodes, Email!cleanExpired}
  BY DEF Email!SendRefused, Email!SendLimited, Email!VerifyNothing
<1>4. verificationCodes' \in [Addresses -> Email!StoredCodes \cup {None}]
  BY <1>3, Cleaned, EmailTypes
<1>5. Email!TypeOK'
  BY <1>1, <1>2, <1>4, EmailTypes, TypesKept
<1>6. \A b \in Addresses : verificationCodes'[b] \in {None, verificationCodes[b]}
  BY <1>3, Cleaned
<1>7. \A c \in Email!Calls : SameRequest(c)
  BY <1>1 DEF SameRequest
<1> QED
  BY <1>1, <1>5, <1>6, <1>7, NothingNew

LEMMA SentLength ==
  ASSUME EmailInv, NEW a \in Addresses
  PROVE  Len(sent[a]) \in Nat
BY EmailTypes

LEMMA ExhaustedKeeps ==
  ASSUME EmailInv, NEW a \in Addresses, Email!VerifyExhausted(a)
  PROVE  EmailInv'
<1>1. /\ UNCHANGED <<gate, now, metadataCached, restarts, call, inbox, sent>>
      /\ verificationCodes' = [Email!cleanExpired EXCEPT ![a] = None]
      /\ cleared' = [cleared EXCEPT ![a] = Len(sent[a])]
  BY DEF Email!VerifyExhausted
<1>2. verificationCodes' \in [Addresses -> Email!StoredCodes \cup {None}]
  BY <1>1, Cleaned
<1>3. cleared' \in [Addresses -> Nat]
  BY <1>1, EmailTypes, SentLength
<1>4. Email!TypeOK'
  BY <1>1, <1>2, <1>3, EmailTypes, TypesKept
<1>5. \A b \in Addresses : verificationCodes'[b] \in {None, verificationCodes[b]}
  BY <1>1, Cleaned
<1>6. \A c \in Email!Calls : SameRequest(c)
  BY <1>1 DEF SameRequest
<1> QED
  BY <1>1, <1>4, <1>5, <1>6, NothingNew

(* A request gets its answer. *)
LEMMA Answered ==
  ASSUME EmailInv, NEW c \in Email!Calls, call[c].pc = "delivering",
         NEW label \in {"ok", "no"}, call' = [call EXCEPT ![c].pc = label]
  PROVE  /\ call' \in [Email!Calls -> Email!CallStates]
         /\ \A d \in Email!Calls : SameRequest(d)
<1> DEFINE r == [call[c] EXCEPT !.pc = label]
<1>1. call[c] \in Email!CallStates /\ call \in [Email!Calls -> Email!CallStates]
  BY EmailTypes
<1>2. call' = [call EXCEPT ![c] = r]
  OBVIOUS
<1>3. /\ r \in Email!CallStates /\ r.pc = label /\ r.action = call[c].action
      /\ r.email = call[c].email /\ r.code = call[c].code /\ r.against = call[c].against
  BY <1>1 DEF Email!CallStates
<1> HIDE DEF r
<1>4. call' \in [Email!Calls -> Email!CallStates]
  BY <1>1, <1>2, <1>3
<1>5. ASSUME NEW d \in Email!Calls PROVE SameRequest(d)
  <2>1. call'[d] = IF d = c THEN r ELSE call[d]
    BY <1>1, <1>2
  <2> QED
    BY <1>3, <2>1 DEF SameRequest
<1> QED
  BY <1>4, <1>5

LEMMA DeliveryKeeps ==
  ASSUME EmailInv, NEW c \in Email!Calls, Email!SendAnswered(c) \/ Email!SendFailed(c)
  PROVE  EmailInv'
<1>1. /\ UNCHANGED <<gate, now, metadataCached, restarts, sent>>
      /\ inbox' \in {inbox, inbox \cup {c}} /\ call[c].pc = "delivering"
  BY DEF Email!SendAnswered, Email!SendFailed, Email!server, Email!history, Email!At
<1>2. PICK label \in {"ok", "no"} : call' = [call EXCEPT ![c].pc = label]
  BY DEF Email!SendAnswered, Email!SendFailed, Email!Answer
<1>3. /\ call' \in [Email!Calls -> Email!CallStates]
      /\ \A d \in Email!Calls : SameRequest(d)
  BY <1>1, <1>2, Answered
<1> DEFINE a == call[c].email
<1>4. \/ UNCHANGED <<verificationCodes, cleared>>
      \/ /\ verificationCodes' = [verificationCodes EXCEPT ![a] = None]
         /\ cleared' = [cleared EXCEPT ![a] = Len(sent[a])]
  BY DEF Email!SendAnswered, Email!SendFailed, Email!Remove, Email!Address, Email!server,
     Email!history
<1> HIDE DEF a
<1>5. /\ verificationCodes' \in [Addresses -> Email!StoredCodes \cup {None}]
      /\ \A b \in Addresses : verificationCodes'[b] \in {None, verificationCodes[b]}
  BY <1>4, EmailTypes
<1>6. cleared' \in [Addresses -> Nat]
  <2> DEFINE n == Len(sent[a])
  <2>1. a \in Addresses => n \in Nat
    BY SentLength
  <2>2. cleared' = cleared \/ cleared' = [cleared EXCEPT ![a] = n]
    BY <1>4
  <2> HIDE DEF n
  <2> QED
    BY <2>1, <2>2, EmailTypes
<1>7. inbox \subseteq inbox' /\ inbox' \subseteq Email!Calls
  BY <1>1, EmailTypes
<1>8. Email!TypeOK'
  BY <1>1, <1>3, <1>5, <1>6, <1>7, EmailTypes, TypesKept
<1> QED
  BY <1>1, <1>3, <1>5, <1>7, <1>8, NothingNew

LEMMA EmailRestartKeeps ==
  ASSUME EmailInv, Email!Restart
  PROVE  EmailInv'
<1>1. /\ UNCHANGED <<gate, now, inbox, sent>>
      /\ restarts < MaxRestarts /\ restarts' = restarts + 1 /\ metadataCached' = FALSE
      /\ verificationCodes' = [a \in Addresses |-> None]
      /\ cleared' = [a \in Addresses |-> Len(sent[a])]
      /\ call' = [c \in Email!Calls |-> IF call[c].pc = "delivering"
                                        THEN [call[c] EXCEPT !.pc = "no"] ELSE call[c]]
  BY Zenon DEF Email!Restart, Email!At, Addresses
<1>2. ASSUME NEW c \in Email!Calls
      PROVE  call'[c] \in Email!CallStates /\ SameRequest(c)
  <2> DEFINE r == [call[c] EXCEPT !.pc = "no"]
  <2>1. call[c] \in Email!CallStates
    BY EmailTypes
  <2>2. /\ r \in Email!CallStates /\ r.pc = "no" /\ r.action = call[c].action
        /\ r.email = call[c].email /\ r.code = call[c].code /\ r.against = call[c].against
    BY <2>1 DEF Email!CallStates
  <2>3. call'[c] = IF call[c].pc = "delivering" THEN r ELSE call[c]
    BY <1>1
  <2> HIDE DEF r
  <2> QED
    BY <2>1, <2>2, <2>3 DEF SameRequest
<1>3. call' \in [Email!Calls -> Email!CallStates]
  BY <1>1, <1>2
<1>4. restarts' \in 0..MaxRestarts
  BY <1>1, EmailTypes, CallsFinite
<1>5. cleared' \in [Addresses -> Nat]
  BY <1>1, SentLength
<1>6. /\ verificationCodes' \in [Addresses -> Email!StoredCodes \cup {None}]
      /\ \A b \in Addresses : verificationCodes'[b] \in {None, verificationCodes[b]}
  BY <1>1
<1>7. Email!TypeOK'
  BY <1>1, <1>3, <1>4, <1>5, <1>6, EmailTypes, TypesKept
<1> QED
  BY <1>1, <1>2, <1>6, <1>7, NothingNew

LEMMA EmailTickKeeps ==
  ASSUME EmailInv, Email!Tick
  PROVE  EmailInv'
<1>1. /\ UNCHANGED <<gate, verificationCodes, metadataCached, restarts, call, inbox, sent, cleared>>
      /\ now < MaxTime /\ now' = now + 1
  BY DEF Email!Tick, Email!server, Email!history
<1>2. now' \in 0..MaxTime
  BY <1>1, EmailTypes, CallsFinite
<1>3. Email!TypeOK'
  BY <1>1, <1>2, EmailTypes, TypesKept
<1>4. \A c \in Email!Calls : SameRequest(c)
  BY <1>1 DEF SameRequest
<1> QED
  BY <1>1, <1>3, <1>4, NothingNew

(* A new request c is compared with the code against, or with none.        *)
LEMMA Tried ==
  ASSUME EmailInv, NEW c \in Email!Calls, call[c].pc = "idle",
         NEW r, call' = [call EXCEPT ![c] = r]
  PROVE  /\ call'[c] = r /\ \A d \in Email!Calls \ {c} : call'[d] = call[d]
         /\ \A x : x # r.against => Tries(x)' = Tries(x) \ {c}
         /\ \A x \in Email!Calls : c \notin Tries(x)
         /\ \A x \in Email!Calls : r.against = x =>
              Cardinality(Tries(x)') = Cardinality(Tries(x)) + 1
<1>1. call \in [Email!Calls -> Email!CallStates]
  BY EmailTypes
<1>2. call'[c] = r /\ \A d \in Email!Calls \ {c} : call'[d] = call[d]
  BY <1>1
<1>3. call[c].against = None
  BY DEF EmailInv, Request
<1>4. \A x \in Email!Calls : c \notin Tries(x)
  BY <1>3, CallsFinite DEF Tries
<1>5. \A x : x # r.against => Tries(x)' = Tries(x) \ {c}
  BY <1>2 DEF Tries
<1>6. ASSUME NEW x \in Email!Calls, r.against = x
      PROVE  Cardinality(Tries(x)') = Cardinality(Tries(x)) + 1
  <2> DEFINE T == Tries(x)
  <2>1. Tries(x)' = T \cup {c}
    BY <1>2, <1>6 DEF Tries
  <2>2. c \notin T
    BY <1>4, <1>6
  <2>3. IsFiniteSet(T)
    <3>1. T \subseteq Email!Calls
      BY DEF Tries
    <3> QED
      BY <3>1, CallsFinite, FS_Subset
  <2> HIDE DEF T
  <2>4. Cardinality(T \cup {c}) = Cardinality(T) + 1
    BY <2>2, <2>3, FS_AddElement
  <2> QED
    BY <2>1, <2>4 DEF T
<1> QED
  BY <1>2, <1>4, <1>5, <1>6

(* What a new request leaves as it was. *)
LEMMA NewRequest ==
  ASSUME EmailInv, NEW c \in Email!Calls, call[c].pc = "idle",
         NEW r, call' = [call EXCEPT ![c] = r], r.pc # "idle", inbox' = inbox,
         r.pc = "delivering" => r.action = "send",
         r.against = None \/ /\ r.against \in Email!Calls /\ call[r.against].pc # "idle"
                             /\ Cardinality(Tries(r.against)) < MaxAttempts,
         r.action = "verify" /\ r.pc = "ok" =>
           /\ r.code \in inbox /\ r.code \in Email!Calls \ {c} /\ call[r.code].pc # "idle"
           /\ call[r.code].email = r.email /\ r.email \in Allowed
  PROVE  /\ \A d \in Email!Calls : Request(d)'
         /\ \A b \in Addresses :
              /\ verificationCodes'[b] = verificationCodes[b] /\ sent'[b] = sent[b]
              /\ verificationCodes[b] # None =>
                   /\ verificationCodes[b].code # r.against
                   /\ r.action = "verify" /\ r.pc = "ok" => r.code # verificationCodes[b].code
              => Pending(b)'
<1>1. /\ call'[c] = r /\ \A d \in Email!Calls \ {c} : call'[d] = call[d]
      /\ \A x : x # r.against => Tries(x)' = Tries(x) \ {c}
      /\ \A x \in Email!Calls : c \notin Tries(x)
      /\ \A x \in Email!Calls : r.against = x =>
           Cardinality(Tries(x)') = Cardinality(Tries(x)) + 1
  BY Tried
<1>2. ASSUME NEW x \in Email!Calls, x # r.against PROVE Tries(x)' = Tries(x)
  <2> DEFINE T == Tries(x)
  <2>1. Tries(x)' = T \ {c} /\ c \notin T
    BY <1>1, <1>2
  <2> HIDE DEF T
  <2>2. T \ {c} = T
    BY <2>1
  <2> QED
    BY <2>1, <2>2 DEF T
<1>3. ASSUME NEW x \in Email!Calls PROVE Cardinality(Tries(x)) \in Nat
  <2>1. Tries(x) \subseteq Email!Calls
    BY DEF Tries
  <2> QED
    BY <2>1, CallsFinite, FS_Subset, FS_CardinalityType
<1>4. \A x \in Email!Calls : Cardinality(Tries(x))' <= MaxAttempts
  <2>1. \A x \in Email!Calls \ {r.against} : Cardinality(Tries(x))' <= MaxAttempts
    BY <1>2 DEF EmailInv, Request
  <2>2. \A x \in Email!Calls : r.against = x => Cardinality(Tries(x))' <= MaxAttempts
    BY <1>1, <1>3, CallsFinite
  <2> QED
    BY <2>1, <2>2
<1>5. Request(c)'
  <2>1. Tries(c)' = Tries(c)
    BY <1>2, CallsFinite
  <2>2. Email!Accepted(c)' => r.action = "verify" /\ r.pc = "ok"
    BY <1>1 DEF Email!Accepted, Email!At
  <2>3. Email!Accepted(c)' => call'[r.code] = call[r.code]
    BY <1>1, <2>2
  <2> QED
    BY <1>1, <1>4, <2>2, <2>3 DEF Request
<1>6. ASSUME NEW d \in Email!Calls \ {c} PROVE Request(d)'
  <2>1. Request(d) /\ Request(c) /\ call'[d] = call[d]
    BY <1>1 DEF EmailInv
  <2>2. Email!Accepted(d)' <=> Email!Accepted(d)
    BY <2>1 DEF Email!Accepted, Email!At
  <2>3. Email!Accepted(d) => call'[call[d].code] = call[call[d].code]
    BY <1>1, <2>1 DEF Request
  <2>4. call[d].pc = "idle" => Tries(d)' = Tries(d)
    BY <1>2, CallsFinite
  <2> QED
    BY <1>4, <2>1, <2>2, <2>3, <2>4 DEF Request
<1>7. ASSUME NEW b \in Addresses,
             verificationCodes'[b] = verificationCodes[b], sent'[b] = sent[b],
             verificationCodes[b] # None,
             verificationCodes[b].code # r.against,
             r.action = "verify" /\ r.pc = "ok" => r.code # verificationCodes[b].code
      PROVE  Pending(b)'
  <2> DEFINE code == verificationCodes[b].code
  <2>1. Pending(b) /\ code \in Email!Calls
    BY <1>7, EmailTypes DEF EmailInv, Email!StoredCodes
  <2>2. call'[code] = call[code] /\ Tries(code)' = Tries(code)
    BY <1>1, <1>2, <1>7, <2>1 DEF Pending
  <2>3. Email!Newest(b)' = Email!Newest(b)
    BY <1>7 DEF Email!Newest
  <2>4. \A d \in Email!Calls : Email!Accepted(d)' => call'[d].code # code
    BY <1>1, <1>7, <2>1 DEF Pending, Email!Accepted, Email!At
  <2> QED
    BY <1>7, <2>1, <2>2, <2>3, <2>4 DEF Pending
<1>8. ASSUME NEW b \in Addresses, verificationCodes'[b] = verificationCodes[b],
             verificationCodes[b] = None
      PROVE  Pending(b)'
  BY <1>8 DEF Pending
<1> QED
  BY <1>5, <1>6, <1>7, <1>8

LEMMA NewCall ==
  ASSUME NEW c, NEW action, NEW a, NEW code, NEW against, NEW label,
         Email!Handled(c, action, a, code, against, label)
  PROVE  call' = [call EXCEPT ![c] = [pc |-> label, action |-> action, email |-> a,
                                      code |-> code, against |-> against]]
BY DEF Email!Handled

(* The record of a new code. *)
LEMMA RecordOfSend ==
  ASSUME EmailInv, NEW a \in Addresses, NEW c \in Email!Calls, ~Email!TooMany(a)
  PROVE  LET record == Email!NewRecord(a, c) IN
         /\ record \in Email!StoredCodes /\ record.code = c /\ record.expires = now + CodeTtl
         /\ record.attempts = 0
<1>1. Email!InWindow(a) => /\ verificationCodes[a] \in Email!StoredCodes
                           /\ verificationCodes[a].sendCount < MaxSends
  <2>1. Email!InWindow(a) => verificationCodes[a] \in Email!StoredCodes
    BY EmailTypes DEF Email!InWindow, Email!Live, Email!Stored
  <2>2. Email!InWindow(a) => ~(verificationCodes[a].sendCount >= MaxSends)
    BY DEF Email!TooMany, Email!Stored
  <2> QED
    BY <2>1, <2>2, CallsFinite DEF Email!StoredCodes
<1> DEFINE record == Email!NewRecord(a, c)
           count == IF Email!InWindow(a) THEN verificationCodes[a].sendCount + 1 ELSE 1
           since == IF Email!InWindow(a) THEN verificationCodes[a].firstSentAt ELSE now
<1>2. count \in 1..MaxSends /\ since \in Int
  BY <1>1, CallsFinite, EmailTypes DEF Email!StoredCodes
<1>3. record = [code |-> c, expires |-> now + CodeTtl, attempts |-> 0,
                sendCount |-> count, firstSentAt |-> since]
  BY DEF Email!NewRecord, Email!Stored
<1> HIDE DEF record, count, since
<1>4. /\ record \in Email!StoredCodes /\ record.code = c /\ record.expires = now + CodeTtl
      /\ record.attempts = 0
  BY <1>2, <1>3, CallsFinite, EmailTypes DEF Email!StoredCodes
<1> QED
  BY <1>4 DEF record

(* A code is sent: it is new, so nobody has tried it.                      *)
LEMMA StoredKeeps ==
  ASSUME EmailInv, NEW a \in Addresses, NEW c \in Email!Calls, Email!SendStored(c, a)
  PROVE  EmailInv'
<1> DEFINE r == [pc |-> "delivering", action |-> "send", email |-> a,
                 code |-> None, against |-> None]
           record == Email!NewRecord(a, c)
           entry == [code |-> c, at |-> now]
<1>1. /\ call[c].pc = "idle" /\ a \in Allowed /\ ~Email!TooMany(a)
      /\ metadataCached' = TRUE
      /\ UNCHANGED <<gate, now, restarts, inbox, cleared>>
  BY DEF Email!SendStored, Email!NextCall, Email!At, Email!Accepts
<1>2. call' = [call EXCEPT ![c] = r]
  BY NewCall DEF Email!SendStored
<1>3. verificationCodes' = [Email!cleanExpired EXCEPT ![a] = record]
  BY DEF Email!SendStored
<1>4. sent' = [sent EXCEPT ![a] = Append(sent[a], entry)]
  BY DEF Email!SendStored
<1>5. record \in Email!StoredCodes /\ record.code = c /\ record.expires = now + CodeTtl
      /\ record.attempts = 0
  BY <1>1, RecordOfSend
<1>6. r \in Email!CallStates
  BY DEF Email!CallStates, Addresses
<1>7. /\ r.pc = "delivering" /\ r.action = "send" /\ r.email = a /\ r.against = None
  OBVIOUS
<1> HIDE DEF r, record
<1>8. entry \in [code : Email!Calls, at : Nat] /\ entry.code = c /\ entry.at = now
  BY EmailTypes
<1> HIDE DEF entry
<1>9. /\ sent' \in [Addresses -> Seq([code : Email!Calls, at : Nat])]
      /\ sent'[a] # <<>> /\ Email!Newest(a)' = entry
      /\ \A b \in Addresses \ {a} : sent'[b] = sent[b]
  <2>1. sent[a] \in Seq([code : Email!Calls, at : Nat])
    BY EmailTypes
  <2> DEFINE s == Append(sent[a], entry)
  <2>2. s \in Seq([code : Email!Calls, at : Nat]) /\ s # <<>> /\ s[Len(s)] = entry
    BY <2>1, <1>8
  <2>3. sent' = [sent EXCEPT ![a] = s]
    BY <1>4
  <2> HIDE DEF s
  <2>4. sent'[a] = s
    BY <2>3, EmailTypes
  <2> QED
    BY <2>2, <2>3, <2>4, EmailTypes DEF Email!Newest
<1>10. /\ verificationCodes' \in [Addresses -> Email!StoredCodes \cup {None}]
       /\ verificationCodes'[a] = record
       /\ \A b \in Addresses \ {a} : verificationCodes'[b] \in {None, verificationCodes[b]}
  BY <1>3, <1>5, Cleaned
<1>11. call' \in [Email!Calls -> Email!CallStates] /\ call'[c] = r
       /\ \A d \in Email!Calls \ {c} : call'[d] = call[d]
  BY <1>2, <1>6, EmailTypes
<1>12. Email!TypeOK'
  <2>1. metadataCached' \in BOOLEAN
    BY <1>1
  <2> QED
    BY <1>1, <1>9, <1>10, <1>11, <2>1, EmailTypes, TypesKept
<1>13. /\ \A d \in Email!Calls : Request(d)'
       /\ \A b \in Addresses :
            /\ verificationCodes'[b] = verificationCodes[b] /\ sent'[b] = sent[b]
            /\ verificationCodes[b] # None => verificationCodes[b].code # None
            => Pending(b)'
  BY <1>1, <1>2, <1>7, NewRequest
<1>14. ASSUME NEW b \in Addresses \ {a} PROVE Pending(b)'
  <2>1. verificationCodes[b] # None => verificationCodes[b].code # None
    BY EmailTypes, CallsFinite DEF Email!StoredCodes
  <2>2. CASE verificationCodes'[b] = None
    BY <2>2 DEF Pending
  <2>3. CASE verificationCodes'[b] = verificationCodes[b]
    BY <1>9, <1>13, <2>1, <2>3
  <2> QED
    BY <1>10, <2>2, <2>3
<1>15. Pending(a)'
  <2>1. Request(c) /\ call[c].pc = "idle"
    BY <1>1 DEF EmailInv
  <2>2. Tries(c)' = {}
    <3>1. Tries(c) = {}
      BY <2>1 DEF Request
    <3>2. \A d \in Email!Calls : call'[d].against # c
      BY <1>7, <1>11, <3>1, CallsFinite DEF Tries
    <3> QED
      BY <3>2 DEF Tries
  <2>3. Cardinality(Tries(c))' = 0
    BY <2>2, FS_EmptySet
  <2>4. \A d \in Email!Calls : Email!Accepted(d)' => call'[d].code # c
    <3>1. \A d \in Email!Calls : Email!Accepted(d) => call[d].code # c
      BY <2>1 DEF EmailInv, Request
    <3> QED
      BY <1>7, <1>11, <3>1 DEF Email!Accepted, Email!At
  <2> QED
    BY <1>1, <1>5, <1>7, <1>8, <1>9, <1>10, <1>11, <2>3, <2>4 DEF Pending
<1> QED
  BY <1>12, <1>13, <1>14, <1>15 DEF EmailInv

(* What a verification finds.                                              *)
LEMMA LiveCode ==
  ASSUME EmailInv, NEW a \in Addresses, Email!Live(a), ~Email!Exhausted(a)
  PROVE  LET record == verificationCodes[a] IN
         /\ record # None /\ record \in Email!StoredCodes /\ record.code \in Email!Calls
         /\ call[record.code].pc # "idle" /\ call[record.code].email = a
         /\ a \in Allowed
         /\ Cardinality(Tries(record.code)) = record.attempts
         /\ record.attempts < MaxAttempts
         /\ now <= record.expires
<1>1. verificationCodes[a] # None /\ Pending(a)
  BY DEF Email!Live, Email!Stored, EmailInv
<1>2. verificationCodes[a] \in Email!StoredCodes
  BY <1>1, EmailTypes
<1>3. ~(verificationCodes[a].attempts >= MaxAttempts)
  BY DEF Email!Exhausted, Email!Stored
<1>4. ~(verificationCodes[a].expires < now)
  BY DEF Email!Live, Email!Stored, Email!Expired
<1>5. /\ verificationCodes[a].attempts \in Nat /\ verificationCodes[a].expires \in Int
      /\ verificationCodes[a].code \in Email!Calls
  BY <1>2, CallsFinite DEF Email!StoredCodes
<1> QED
  BY <1>1, <1>2, <1>3, <1>4, <1>5, EmailTypes, CallsFinite DEF Pending

LEMMA WrongKeeps ==
  ASSUME EmailInv, NEW a \in Addresses, NEW c \in Email!Calls, NEW code,
         Email!VerifyWrong(c, a, code)
  PROVE  EmailInv'
<1> PICK x : x = verificationCodes[a].code
  OBVIOUS
<1> DEFINE record == verificationCodes[a]
           r == [pc |-> "no", action |-> "verify", email |-> a,
                 code |-> None, against |-> x]
           counted == [record EXCEPT !.attempts = @ + 1]
<1>1. /\ call[c].pc = "idle" /\ Email!Live(a) /\ ~Email!Exhausted(a)
      /\ UNCHANGED <<gate, now, metadataCached, restarts, inbox, sent, cleared>>
  BY DEF Email!VerifyWrong, Email!NextCall, Email!At, Email!history
<1>2. /\ record \in Email!StoredCodes /\ record.code = x /\ x \in Email!Calls /\ record # None
      /\ call[x].pc # "idle" /\ Cardinality(Tries(x)) = record.attempts
      /\ record.attempts < MaxAttempts
  BY <1>1, LiveCode
<1>3. call' = [call EXCEPT ![c] = r]
  BY NewCall DEF Email!VerifyWrong, Email!Stored
<1>4. verificationCodes' = [Email!cleanExpired EXCEPT ![a] = counted]
  BY DEF Email!VerifyWrong, Email!Counted, Email!Stored
<1>5. r \in Email!CallStates
  BY <1>2 DEF Email!CallStates, Addresses
<1>6. r.pc = "no" /\ r.action = "verify" /\ r.against = x
  OBVIOUS
<1>7. /\ counted \in Email!StoredCodes /\ counted.code = x
      /\ counted.expires = record.expires /\ counted.attempts = record.attempts + 1
  <2> HIDE DEF record
  <2> QED
    BY <1>2, CallsFinite DEF Email!StoredCodes
<1> HIDE DEF r, counted
<1>8. call' \in [Email!Calls -> Email!CallStates] /\ call'[c] = r
      /\ \A d \in Email!Calls \ {c} : call'[d] = call[d]
  BY <1>3, <1>5, EmailTypes
<1>9. /\ verificationCodes' \in [Addresses -> Email!StoredCodes \cup {None}]
      /\ verificationCodes'[a] = counted
      /\ \A b \in Addresses \ {a} : verificationCodes'[b] \in {None, verificationCodes[b]}
  BY <1>4, <1>7, Cleaned
<1>10. Email!TypeOK'
  BY <1>1, <1>8, <1>9, EmailTypes, TypesKept
<1>11. /\ \A d \in Email!Calls : Request(d)'
       /\ \A b \in Addresses :
            /\ verificationCodes'[b] = verificationCodes[b] /\ sent'[b] = sent[b]
            /\ verificationCodes[b] # None => verificationCodes[b].code # x
            => Pending(b)'
  BY <1>1, <1>2, <1>3, <1>6, NewRequest
<1>12. Pending(a)
  BY DEF EmailInv
<1>13. ASSUME NEW b \in Addresses \ {a} PROVE Pending(b)'
  <2>1. verificationCodes[b] # None => verificationCodes[b].code # x
    <3>1. verificationCodes[b] # None => call[verificationCodes[b].code].email = b
      BY DEF EmailInv, Pending
    <3>2. call[x].email = a
      BY <1>2, <1>12 DEF Pending
    <3> QED
      BY <3>1, <3>2
  <2>2. CASE verificationCodes'[b] = None
    BY <2>2 DEF Pending
  <2>3. CASE verificationCodes'[b] = verificationCodes[b]
    BY <1>1, <1>11, <2>1, <2>3
  <2> QED
    BY <1>9, <2>2, <2>3
<1>14. Pending(a)'
  <2>1. Cardinality(Tries(x))' = counted.attempts
    BY <1>1, <1>2, <1>3, <1>6, <1>7, Tried
  <2>2. \A d \in Email!Calls : Email!Accepted(d)' => call'[d].code # x
    BY <1>2, <1>6, <1>8, <1>12 DEF Pending, Email!Accepted, Email!At
  <2>3. Email!Newest(a)' = Email!Newest(a)
    BY <1>1 DEF Email!Newest
  <2>4. call'[x] = call[x]
    BY <1>1, <1>2, <1>8
  <2> QED
    BY <1>1, <1>2, <1>7, <1>9, <1>12, <2>1, <2>2, <2>3, <2>4 DEF Pending
<1> QED
  BY <1>10, <1>11, <1>13, <1>14 DEF EmailInv

LEMMA RightKeeps ==
  ASSUME EmailInv, NEW a \in Addresses, NEW c \in Email!Calls, NEW code \in Email!Typed,
         Email!VerifyRight(c, a, code)
  PROVE  EmailInv'
<1> PICK x : x = verificationCodes[a].code
  OBVIOUS
<1> DEFINE record == verificationCodes[a]
           r == [pc |-> "ok", action |-> "verify", email |-> a,
                 code |-> x, against |-> x]
<1>1. /\ call[c].pc = "idle" /\ Email!Live(a) /\ ~Email!Exhausted(a) /\ code = x
      /\ UNCHANGED <<gate, now, metadataCached, restarts, inbox, sent>>
      /\ cleared' = [cleared EXCEPT ![a] = Len(sent[a])]
  BY DEF Email!VerifyRight, Email!NextCall, Email!At, Email!Matches, Email!Stored
<1>2. /\ record \in Email!StoredCodes /\ record.code = x /\ x \in Email!Calls /\ record # None
      /\ call[x].pc # "idle" /\ Cardinality(Tries(x)) = record.attempts
      /\ record.attempts < MaxAttempts /\ call[x].email = a /\ a \in Allowed
  BY <1>1, LiveCode
<1>3. call' = [call EXCEPT ![c] = r]
  BY <1>1, NewCall DEF Email!VerifyRight, Email!Stored
<1>4. verificationCodes' = [Email!cleanExpired EXCEPT ![a] = None]
  BY DEF Email!VerifyRight, Email!Spent
<1>5. r \in Email!CallStates
  BY <1>2 DEF Email!CallStates, Addresses
<1>6. r.pc = "ok" /\ r.action = "verify" /\ r.against = x /\ r.code = x /\ r.email = a
  OBVIOUS
<1>7. x \in inbox
  BY <1>1, <1>2, CallsFinite DEF Email!Typed
<1> HIDE DEF r
<1>8. call' \in [Email!Calls -> Email!CallStates]
  BY <1>3, <1>5, EmailTypes
<1>9. /\ verificationCodes' \in [Addresses -> Email!StoredCodes \cup {None}]
      /\ verificationCodes'[a] = None
      /\ \A b \in Addresses \ {a} : verificationCodes'[b] \in {None, verificationCodes[b]}
  BY <1>4, Cleaned
<1>10. Email!TypeOK'
  <2>1. cleared' \in [Addresses -> Nat]
    BY <1>1, EmailTypes, SentLength
  <2> QED
    BY <1>1, <1>8, <1>9, <2>1, EmailTypes, TypesKept
<1>11. /\ \A d \in Email!Calls : Request(d)'
       /\ \A b \in Addresses :
            /\ verificationCodes'[b] = verificationCodes[b] /\ sent'[b] = sent[b]
            /\ verificationCodes[b] # None => verificationCodes[b].code # x
            => Pending(b)'
  <2>1. x # c /\ r.pc # "idle" /\ r.pc # "delivering"
    BY <1>1, <1>2, <1>6
  <2>2. /\ r.against \in Email!Calls /\ call[r.against].pc # "idle"
        /\ Cardinality(Tries(r.against)) < MaxAttempts
        /\ r.code \in inbox /\ r.code \in Email!Calls \ {c} /\ call[r.code].pc # "idle"
        /\ call[r.code].email = r.email /\ r.email \in Allowed
    BY <1>2, <1>6, <1>7, <2>1
  <2> QED
    BY <1>1, <1>3, <1>6, <2>1, <2>2, NewRequest
<1>12. ASSUME NEW b \in Addresses PROVE Pending(b)'
  <2>1. b # a /\ verificationCodes[b] # None => verificationCodes[b].code # x
    <3>1. verificationCodes[b] # None => call[verificationCodes[b].code].email = b
      BY DEF EmailInv, Pending
    <3> QED
      BY <1>2, <3>1
  <2>2. CASE verificationCodes'[b] = None
    BY <2>2 DEF Pending
  <2>3. CASE b # a /\ verificationCodes'[b] = verificationCodes[b]
    BY <1>1, <1>11, <2>1, <2>3
  <2> QED
    BY <1>9, <2>2, <2>3
<1> QED
  BY <1>10, <1>11, <1>12 DEF EmailInv

LEMMA EmailKept == EmailInv /\ [Email!Next]_(Email!vars) => EmailInv'
<1> SUFFICES ASSUME EmailInv, [Email!Next]_(Email!vars) PROVE EmailInv'
  OBVIOUS
<1>1. CASE UNCHANGED Email!vars
  <2>1. UNCHANGED <<gate, now, metadataCached, restarts, verificationCodes, call, inbox, sent, cleared>>
    BY <1>1 DEF Email!vars, Email!server, Email!history
  <2>2. Email!TypeOK'
    BY <2>1, EmailTypes, TypesKept
  <2>3. \A c \in Email!Calls : SameRequest(c)
    BY <2>1 DEF SameRequest
  <2> QED
    BY <2>1, <2>2, <2>3, NothingNew
<1>2. CASE \E a \in Addresses :
             \/ Email!SendRefused(a) \/ Email!SendLimited(a) \/ Email!VerifyNothing(a)
             \/ Email!VerifyExhausted(a)
             \/ \E c \in Email!Calls :
                  \/ Email!SendStored(c, a)
                  \/ \E code \in Email!Typed : \/ Email!VerifyWrong(c, a, code)
                                               \/ Email!VerifyRight(c, a, code)
  BY <1>2, RefusedKeeps, ExhaustedKeeps, StoredKeeps, WrongKeeps, RightKeeps
<1>3. CASE \E c \in Email!Calls : Email!SendAnswered(c) \/ Email!SendFailed(c)
  BY <1>3, DeliveryKeeps
<1>4. CASE Email!Restart \/ Email!Tick
  BY <1>4, EmailRestartKeeps, EmailTickKeeps
<1> QED
  BY <1>1, <1>2, <1>3, <1>4 DEF Email!Next, Addresses

-----------------------------------------------------------------------------
(* What the route promises.                                                *)

LEMMA EmailStart == Email!Init => EmailInv
<1> SUFFICES ASSUME Email!Init PROVE EmailInv
  OBVIOUS
<1> DEFINE r == [pc |-> "idle", action |-> "send", email |-> None,
                 code |-> None, against |-> None]
<1>1. /\ gate \in Gates /\ now = 0 /\ metadataCached = FALSE /\ restarts = 0 /\ inbox = {}
      /\ verificationCodes = [a \in Addresses |-> None]
      /\ call = [c \in Email!Calls |-> r]
      /\ sent = [a \in Addresses |-> <<>>] /\ cleared = [a \in Addresses |-> 0]
  BY Zenon DEF Email!Init, Addresses
<1>2. r \in Email!CallStates /\ r.pc = "idle" /\ r.against = None
  BY DEF Email!CallStates
<1> HIDE DEF r
<1>3. \A c \in Email!Calls : call[c] = r
  BY <1>1
<1>4. Email!TypeOK
  <2>1. now \in 0..MaxTime /\ restarts \in 0..MaxRestarts
    BY <1>1, CallsFinite
  <2>2. call \in [Email!Calls -> Email!CallStates]
    BY <1>1, <1>2
  <2>3. /\ sent \in [Addresses -> Seq([code : Email!Calls, at : Nat])]
        /\ cleared \in [Addresses -> Nat]
        /\ verificationCodes \in [Addresses -> Email!StoredCodes \cup {None}]
    BY <1>1
  <2> QED
    BY <1>1, <2>1, <2>2, <2>3 DEF Email!TypeOK, Addresses
<1>5. ASSUME NEW c \in Email!Calls PROVE Request(c)
  <2>1. Tries(c) = {}
    BY <1>2, <1>3, CallsFinite DEF Tries
  <2>2. Cardinality(Tries(c)) <= MaxAttempts
    BY <2>1, FS_EmptySet, CallsFinite
  <2> QED
    BY <1>2, <1>3, <2>1, <2>2 DEF Request, Email!Accepted, Email!At
<1>6. \A a \in Addresses : Pending(a)
  BY <1>1 DEF Pending
<1> QED
  BY <1>4, <1>5, <1>6 DEF EmailInv

(* The codes sent by e-mail, whatever the pages do with them. *)
THEOREM EmailInvariant == Spec => [](EmailInv /\ PageInv /\ GithubInv)
<1>1. Init => EmailInv
  BY EmailStart DEF Init
<1> QED
  BY <1>1, EmailKept, StepOnEmail, PageInvariant, PTL DEF Spec

(* No code is tried more than MaxAttempts times (handleVerify).            *)
THEOREM AttemptsAreBounded == Spec => []AttemptsBounded
<1>1. EmailInv => AttemptsBounded
  <2> SUFFICES ASSUME EmailInv, NEW code \in Email!Calls
               PROVE  Cardinality({c \in Email!Calls : call[c].against = code}) <= MaxAttempts
    BY SameCardinality DEF AttemptsBounded, Email!AttemptsBounded
  <2>1. Cardinality(Tries(code)) <= MaxAttempts
    BY DEF EmailInv, Request
  <2> QED
    BY <2>1, Zenon DEF Tries
<1> QED
  BY <1>1, EmailInvariant, PTL

(* Only a right verification is accepted, and it stays so.                 *)
LEMMA AcceptedBy ==
  ASSUME EmailInv, [Email!Next]_(Email!vars), NEW c \in Email!Calls
  PROVE  /\ ~Email!Accepted(c) /\ Email!Accepted(c)' =>
              \E a \in Addresses : \E code \in Email!Typed : Email!VerifyRight(c, a, code)
         /\ Email!Accepted(c) => Email!Accepted(c)' /\ call'[c] = call[c]
<1>1. call \in [Email!Calls -> Email!CallStates] /\ Request(c)
  BY EmailTypes DEF EmailInv
<1>2. CASE UNCHANGED call
  BY <1>2 DEF Email!Accepted, Email!At
<1>3. ASSUME NEW d \in Email!Calls, Email!SendAnswered(d) \/ Email!SendFailed(d)
      PROVE  (Email!Accepted(c)' <=> Email!Accepted(c)) /\ (Email!Accepted(c) => call'[c] = call[c])
  <2>1. PICK label \in {"ok", "no"} : call' = [call EXCEPT ![d].pc = label]
    BY <1>3 DEF Email!SendAnswered, Email!SendFailed, Email!Answer
  <2>2. call[d].pc = "delivering" /\ call[d].action = "send"
    BY <1>3 DEF Email!SendAnswered, Email!SendFailed, Email!At, EmailInv, Request
  <2>3. c # d => call'[c] = call[c]
    BY <1>1, <2>1
  <2>4. c = d => SameRequest(c)
    BY <2>1, <2>2, Answered
  <2> QED
    BY <2>2, <2>3, <2>4 DEF Email!Accepted, Email!At, SameRequest
<1>4. CASE Email!Restart
  <2>1. call'[c] = IF call[c].pc = "delivering" THEN [call[c] EXCEPT !.pc = "no"] ELSE call[c]
    BY <1>4 DEF Email!Restart, Email!At
  <2>2. call[c].pc = "delivering" => [call[c] EXCEPT !.pc = "no"].pc = "no"
    BY <1>1 DEF Email!CallStates
  <2> QED
    BY <2>1, <2>2 DEF Email!Accepted, Email!At
<1>5. ASSUME NEW d \in Email!Calls, NEW r, call[d].pc = "idle", call' = [call EXCEPT ![d] = r]
      PROVE  /\ Email!Accepted(c) => Email!Accepted(c)' /\ call'[c] = call[c]
             /\ ~Email!Accepted(c) /\ Email!Accepted(c)' =>
                  c = d /\ r.action = "verify" /\ r.pc = "ok"
  BY <1>1, <1>5 DEF Email!Accepted, Email!At
<1>6. ASSUME NEW a \in Addresses, NEW d \in Email!Calls, Email!SendStored(d, a)
      PROVE  /\ Email!Accepted(c) => Email!Accepted(c)' /\ call'[c] = call[c]
             /\ Email!Accepted(c)' => Email!Accepted(c)
  <2> DEFINE r == [pc |-> "delivering", action |-> "send", email |-> a,
                   code |-> None, against |-> None]
  <2>1. call' = [call EXCEPT ![d] = r] /\ call[d].pc = "idle" /\ r.pc # "ok"
    BY <1>6, NewCall DEF Email!SendStored, Email!NextCall, Email!At
  <2> HIDE DEF r
  <2> QED
    BY <1>5, <2>1
<1>7. ASSUME NEW a \in Addresses, NEW d \in Email!Calls, NEW code \in Email!Typed,
             Email!VerifyWrong(d, a, code)
      PROVE  /\ Email!Accepted(c) => Email!Accepted(c)' /\ call'[c] = call[c]
             /\ Email!Accepted(c)' => Email!Accepted(c)
  <2> PICK x : x = verificationCodes[a].code
    OBVIOUS
  <2> DEFINE r == [pc |-> "no", action |-> "verify", email |-> a,
                   code |-> None, against |-> x]
  <2>1. call' = [call EXCEPT ![d] = r] /\ call[d].pc = "idle" /\ r.pc # "ok"
    BY <1>7, NewCall DEF Email!VerifyWrong, Email!NextCall, Email!At, Email!Stored
  <2> HIDE DEF r
  <2> QED
    BY <1>5, <2>1
<1>8. ASSUME NEW a \in Addresses, NEW d \in Email!Calls, NEW code \in Email!Typed,
             Email!VerifyRight(d, a, code)
      PROVE  /\ Email!Accepted(c) => Email!Accepted(c)' /\ call'[c] = call[c]
             /\ ~Email!Accepted(c) /\ Email!Accepted(c)' => Email!VerifyRight(c, a, code)
  <2> PICK x : x = verificationCodes[a].code
    OBVIOUS
  <2> DEFINE r == [pc |-> "ok", action |-> "verify", email |-> a,
                   code |-> code, against |-> x]
  <2>1. call' = [call EXCEPT ![d] = r] /\ call[d].pc = "idle"
    BY <1>8, NewCall DEF Email!VerifyRight, Email!NextCall, Email!At, Email!Stored
  <2> HIDE DEF r
  <2>2. ~Email!Accepted(c) /\ Email!Accepted(c)' => c = d
    BY <1>5, <2>1
  <2> QED
    BY <1>5, <1>8, <2>1, <2>2
<1>9. ASSUME NEW a \in Addresses,
             \/ Email!SendRefused(a) \/ Email!SendLimited(a) \/ Email!VerifyNothing(a)
             \/ Email!VerifyExhausted(a)
      PROVE  UNCHANGED call
  BY <1>9 DEF Email!SendRefused, Email!SendLimited, Email!VerifyNothing, Email!VerifyExhausted
<1>10. Email!Tick \/ UNCHANGED Email!vars => UNCHANGED call
  BY DEF Email!Tick, Email!vars
<1> QED
  BY <1>2, <1>3, <1>4, <1>6, <1>7, <1>8, <1>9, <1>10 DEF Email!Next, Addresses

(* A token is given for an address against the code sent to it last, while *)
(* that is valid, and once (handleVerify).                                 *)
THEOREM NewestCodeOnly == Spec => TokenForNewestCode
<1>1. EmailInv /\ [Email!Next]_(Email!vars) =>
        [\A c \in Email!Calls : ~Email!Accepted(c) /\ Email!Accepted(c)' =>
           LET a == call'[c].email  code == call'[c].code IN
           /\ sent[a] # <<>>
           /\ code = Email!Newest(a).code
           /\ now <= Email!Newest(a).at + CodeTtl
           /\ \A d \in Email!Calls : Email!Accepted(d) => call[d].code # code]_(Email!vars)
  <2> SUFFICES ASSUME EmailInv, [Email!Next]_(Email!vars), NEW c \in Email!Calls,
                      ~Email!Accepted(c) /\ Email!Accepted(c)'
               PROVE  LET a == call'[c].email  code == call'[c].code IN
                      /\ sent[a] # <<>>
                      /\ code = Email!Newest(a).code
                      /\ now <= Email!Newest(a).at + CodeTtl
                      /\ \A d \in Email!Calls : Email!Accepted(d) => call[d].code # code
    OBVIOUS
  <2>1. PICK a \in Addresses, code \in Email!Typed : Email!VerifyRight(c, a, code)
    BY AcceptedBy
  <2>2. /\ Email!Live(a) /\ ~Email!Exhausted(a) /\ code = verificationCodes[a].code
        /\ verificationCodes[a] # None
    BY <2>1 DEF Email!VerifyRight, Email!Matches, Email!Stored, Email!Live
  <2>3. call'[c].email = a /\ call'[c].code = code
    <3> PICK x : x = verificationCodes[a].code
      OBVIOUS
    <3> DEFINE r == [pc |-> "ok", action |-> "verify", email |-> a,
                     code |-> code, against |-> x]
    <3>1. call' = [call EXCEPT ![c] = r]
      BY <2>1, NewCall DEF Email!VerifyRight, Email!Stored
    <3>2. r.email = a /\ r.code = code
      OBVIOUS
    <3> HIDE DEF r
    <3> QED
      BY <3>1, <3>2, EmailTypes
  <2>4. now <= verificationCodes[a].expires
    BY <2>2, LiveCode
  <2>5. Pending(a)
    BY DEF EmailInv
  <2> QED
    BY <2>2, <2>3, <2>4, <2>5 DEF Pending
<1> QED
  BY <1>1, EmailInvariant, StepOnEmail, PTL DEF Spec, TokenForNewestCode, Email!TokenForNewestCode

(* A valid code is only lost as it should be (cleanExpired and the rest of *)
(* verify-email/route.ts).                                                 *)
LEMMA CodeKept ==
  ASSUME EmailInv, [Email!Next]_(Email!vars), NEW a \in Email!Addresses,
         Email!Stored(a) # None /\ now <= Email!Stored(a).expires
  PROVE  \/ Email!Stored(a)' # None /\ Email!Stored(a)'.code = Email!Stored(a).code
         \/ restarts' # restarts
         \/ Email!VerifyExhausted(a)
         \/ \E c \in Email!Calls :
              /\ call'[c] # call[c] /\ call'[c].email = a
              /\ \/ Email!At(c, "delivering")
                 \/ call'[c].pc \in {"delivering", "ok"}
<1> DEFINE kept == verificationCodes'[a] = verificationCodes[a]
           lost(c) == /\ call'[c] # call[c] /\ call'[c].email = a
                      /\ \/ call[c].pc = "delivering"
                         \/ call'[c].pc \in {"delivering", "ok"}
<1>1. /\ a \in Addresses /\ verificationCodes[a] # None
      /\ verificationCodes[a] \in Email!StoredCodes
      /\ ~(verificationCodes[a].expires < now)
  <2>1. a \in Addresses
    BY DEF Addresses
  <2>2. verificationCodes[a] # None /\ now <= verificationCodes[a].expires
    BY DEF Email!Stored
  <2>3. verificationCodes[a] \in Email!StoredCodes
    BY <2>1, <2>2, EmailTypes
  <2>4. verificationCodes[a].expires \in Int
    BY <2>3 DEF Email!StoredCodes
  <2> QED
    BY <2>1, <2>2, <2>3, <2>4, EmailTypes
<1>2. Email!cleanExpired[a] = verificationCodes[a]
  BY <1>1, Cleaned DEF Email!Live, Email!Stored, Email!Expired
<1>3. Email!cleanExpired \in [Addresses -> Email!StoredCodes \cup {None}]
  BY Cleaned
<1>4. call \in [Email!Calls -> Email!CallStates]
  BY EmailTypes
<1>5. ASSUME NEW b \in Addresses,
             \/ Email!SendRefused(b) \/ Email!SendLimited(b) \/ Email!VerifyNothing(b)
             \/ Email!VerifyExhausted(b)
      PROVE  kept \/ Email!VerifyExhausted(a)
  BY <1>1, <1>2, <1>3, <1>5 DEF Email!SendRefused, Email!SendLimited, Email!VerifyNothing,
     Email!VerifyExhausted
<1>6. ASSUME NEW b \in Addresses, NEW c \in Email!Calls, Email!SendStored(c, b)
      PROVE  kept \/ lost(c)
  <2> DEFINE r == [pc |-> "delivering", action |-> "send", email |-> b,
                   code |-> None, against |-> None]
  <2>1. /\ call' = [call EXCEPT ![c] = r] /\ call[c].pc = "idle"
        /\ r.pc = "delivering" /\ r.email = b
    BY <1>6, NewCall DEF Email!SendStored, Email!NextCall, Email!At
  <2> HIDE DEF r
  <2>2. a # b => kept
    BY <1>1, <1>2, <1>3, <1>6 DEF Email!SendStored
  <2> QED
    BY <1>4, <2>1, <2>2
<1>7. ASSUME NEW b \in Addresses, NEW c, NEW code, Email!VerifyWrong(c, b, code)
      PROVE  verificationCodes'[a] # None /\ verificationCodes'[a].code = verificationCodes[a].code
  <2> DEFINE counted == [verificationCodes[b] EXCEPT !.attempts = @ + 1]
  <2>1. verificationCodes' = [Email!cleanExpired EXCEPT ![b] = counted]
    BY <1>7 DEF Email!VerifyWrong, Email!Counted, Email!Stored
  <2>2. /\ Email!Live(b) /\ ~Email!Exhausted(b)
    BY <1>7 DEF Email!VerifyWrong
  <2>3. a = b => counted \in Email!StoredCodes /\ counted.code = verificationCodes[a].code
    <3>1. a = b => verificationCodes[b].attempts < MaxAttempts
      BY <1>1, <2>2, LiveCode
    <3> QED
      BY <1>1, <3>1, CallsFinite DEF Email!StoredCodes
  <2>4. None \notin Email!StoredCodes
    BY EmailAssumption DEF Email!RecordAssumption
  <2> HIDE DEF counted
  <2> QED
    BY <1>1, <1>2, <1>3, <2>1, <2>3, <2>4
<1>8. ASSUME NEW b \in Addresses, NEW c \in Email!Calls, NEW code, Email!VerifyRight(c, b, code)
      PROVE  kept \/ lost(c)
  <2> PICK x : x = verificationCodes[b].code
    OBVIOUS
  <2> DEFINE r == [pc |-> "ok", action |-> "verify", email |-> b,
                   code |-> code, against |-> x]
  <2>1. /\ call' = [call EXCEPT ![c] = r] /\ call[c].pc = "idle" /\ r.pc = "ok" /\ r.email = b
    BY <1>8, NewCall DEF Email!VerifyRight, Email!NextCall, Email!At, Email!Stored
  <2> HIDE DEF r
  <2>2. a # b => kept
    BY <1>1, <1>2, <1>3, <1>8 DEF Email!VerifyRight, Email!Spent
  <2> QED
    BY <1>4, <2>1, <2>2
<1>9. ASSUME NEW c \in Email!Calls, Email!SendAnswered(c) \/ Email!SendFailed(c)
      PROVE  kept \/ lost(c)
  <2>1. PICK label \in {"ok", "no"} : call' = [call EXCEPT ![c].pc = label]
    BY <1>9 DEF Email!SendAnswered, Email!SendFailed, Email!Answer
  <2>2. call[c].pc = "delivering"
    BY <1>9 DEF Email!SendAnswered, Email!SendFailed, Email!At
  <2>3. call'[c].pc = label /\ call'[c].email = call[c].email
    BY <1>4, <2>1 DEF Email!CallStates
  <2>4. call[c].email # a => kept
    BY <1>1, <1>9, EmailTypes DEF Email!SendAnswered, Email!SendFailed, Email!Remove,
       Email!Address, Email!server
  <2> QED
    BY <2>2, <2>3, <2>4
<1>10. Email!Restart => restarts' # restarts
  BY EmailTypes DEF Email!Restart
<1>11. Email!Tick \/ UNCHANGED Email!vars => kept
  BY DEF Email!Tick, Email!server, Email!vars
<1>12. \/ kept
       \/ verificationCodes'[a] # None /\ verificationCodes'[a].code = verificationCodes[a].code
       \/ restarts' # restarts \/ Email!VerifyExhausted(a) \/ \E c \in Email!Calls : lost(c)
  BY <1>5, <1>6, <1>7, <1>8, <1>9, <1>10, <1>11 DEF Email!Next, Addresses
<1> QED
  BY <1>1, <1>12 DEF Email!Stored, Email!At

(* A code that is neither used up nor expired is lost only by a restart, by*)
(* too many attempts, or by a mail that could not be sent.                 *)
THEOREM ValidCodesAreKept == Spec => ValidCodeKept
<1>1. EmailInv /\ [Email!Next]_(Email!vars) =>
        [\A a \in Email!Addresses : Email!Stored(a) # None /\ now <= Email!Stored(a).expires =>
           \/ Email!Stored(a)' # None /\ Email!Stored(a)'.code = Email!Stored(a).code
           \/ restarts' # restarts
           \/ Email!VerifyExhausted(a)
           \/ \E c \in Email!Calls :
                /\ call'[c] # call[c] /\ call'[c].email = a
                /\ \/ Email!At(c, "delivering")
                   \/ call'[c].pc \in {"delivering", "ok"}]_(Email!vars)
  BY CodeKept
<1> QED
  BY <1>1, EmailInvariant, StepOnEmail, PTL DEF Spec, ValidCodeKept, Email!ValidCodeKept

-----------------------------------------------------------------------------
(* What vouches for a signup.                                              *)

Given(a) == \E c \in Email!Calls : Email!Accepted(c) /\ call[c].email = a
Member   == \E f \in Flows : flow[f].pc = "token"

Vouching(t) ==
  /\ page[t].verifying # None => Given(page[t].verifying)
  /\ page[t].emailToken # None => Given(page[t].emailToken)
  /\ page[t].ghToken # None => Member
  /\ t \in checked => /\ gate = "email-domain" => \E a : Given(a)
                      /\ gate = "github-org" => Member

VouchInv == \A t \in Tabs : Vouching(t)

(* What was given stays given.                                             *)
LEMMA GivenStays ==
  ASSUME EmailInv, [Email!Next]_(Email!vars), NEW a, Given(a)
  PROVE  Given(a)'
<1>1. PICK c \in Email!Calls : Email!Accepted(c) /\ call[c].email = a
  BY DEF Given
<1>2. Email!Accepted(c)' /\ call'[c] = call[c]
  BY <1>1, AcceptedBy
<1> QED
  BY <1>1, <1>2 DEF Given

LEMMA MemberStays ==
  ASSUME GithubInv, [Github!Next]_(Github!vars), Member
  PROVE  Member'
<1>1. PICK f \in Flows : flow[f].pc = "token"
  BY DEF Member
<1>2. flow \in [Flows -> Github!FlowStates]
  BY GithubTypes
<1>3. ASSUME NEW g \in Flows, Github!Callback(g) \/ Github!Start(g) \/ Github!Deny(g)
                              \/ \E u \in Accounts : Github!Grant(g, u)
      PROVE  flow'[f] = flow[f]
  <2>1. g # f
    BY <1>1, <1>3 DEF Github!Callback, Github!Start, Github!Deny, Github!Grant, Github!At,
       Github!CheckState, Github!Exchange, Github!FetchProfile, Github!ReadMetadata,
       Github!CheckMembership, Github!GithubFails
  <2> QED
    BY <1>2, <1>3, <2>1 DEF Github!Callback, Github!Start, Github!Deny, Github!Grant,
       Github!CheckState, Github!Exchange, Github!FetchProfile, Github!ReadMetadata,
       Github!CheckMembership, Github!GithubFails, Github!Goto
<1>4. Github!Restart => flow'[f] = flow[f]
  BY <1>1 DEF Github!Restart
<1>5. \/ Github!Tick \/ UNCHANGED Github!vars
      \/ \E u \in Accounts, m \in Github!Memberships : Github!SetMembership(u, m)
      => flow'[f] = flow[f]
  BY DEF Github!Tick, Github!SetMembership, Github!vars
<1>6. flow'[f] = flow[f]
  BY <1>3, <1>4, <1>5 DEF Github!Next
<1> QED
  BY <1>1, <1>6 DEF Member

(* The gate never changes.                                                 *)
LEMMA GateStays == [Github!Next]_(Github!vars) => gate' = gate
BY DEF Github!Next, Github!vars, Github!Start, Github!Deny, Github!Callback, Github!Grant,
   Github!CheckState, Github!Exchange, Github!FetchProfile, Github!ReadMetadata,
   Github!CheckMembership, Github!GithubFails, Github!SetMembership, Github!Tick,
   Github!Restart, Github!Outside

(* The other steps leave the tokens, or lose them.                         *)
LessVouched(t) ==
  /\ page'[t].verifying \in {None, page[t].verifying}
  /\ page'[t].emailToken \in {None, page[t].emailToken}
  /\ page'[t].ghToken \in {None, page[t].ghToken}

LEMMA OtherTabs ==
  ASSUME PageInv, NEW t \in Tabs, NEW p, Becomes(t, p), NEW u \in Tabs, u # t
  PROVE  LessVouched(u)
BY DEF PageInv, Becomes, LessVouched

LEMMA StillVouched ==
  ASSUME EmailInv, GithubInv, [Email!Next]_(Email!vars), [Github!Next]_(Github!vars),
         NEW t \in Tabs, Vouching(t), LessVouched(t), t \in checked' => t \in checked
  PROVE  Vouching(t)'
<1>1. gate' = gate
  BY GateStays
<1>2. \A a : Given(a) => Given(a)'
  BY GivenStays
<1>3. Member => Member'
  BY MemberStays
<1> QED
  BY <1>1, <1>2, <1>3 DEF Vouching, LessVouched

LEMMA Replaced ==
  ASSUME PageInv, NEW t \in Tabs, NEW p, Becomes(t, p),
         p.verifying \in {None, page[t].verifying}, p.emailToken \in {None, page[t].emailToken},
         p.ghToken \in {None, page[t].ghToken}
  PROVE  LessVouched(t)
<1>1. page'[t] = p
  BY DEF PageInv, Becomes
<1> QED
  BY <1>1 DEF LessVouched

LEMMA LoadedTokens ==
  ASSUME NEW known, NEW weights, NEW s, NEW token
  PROVE  LET p == Loaded(known, weights, s, token) IN
         p.verifying = None /\ p.emailToken = None /\ p.ghToken = token
BY DEF Loaded

(* The steps that give the page no token and the relay no request.         *)
PlainStep(t) ==
  \/ LoadMetadata(t) \/ Reload(t) \/ StartCheck(t)
  \/ \E s \in Scopes : SwitchAccount(t, s) \/ \E w \in Weights : EndCheck(t, s, w)
  \/ \E what \in {"listed", "unlisted"} : Type(t, what)
  \/ \E a \in Addresses : TypeEmail(t, a)
  \/ \E c \in Email!Calls : SendCode(t, c)
  \/ SendCodeAnswered(t) \/ \E f \in Flows : SignIn(t, f)
  \/ AskWallet(t) \/ RelayAnswers(t) \/ Wait(t) \/ SignedUp(t) \/ Finish(t)

LEMMA PlainStepVouched ==
  ASSUME PageInv, NEW t \in Tabs, PlainStep(t)
  PROVE  LessVouched(t) /\ checked' \subseteq checked /\ \E p : Becomes(t, p) \/ page' = page
<1>1. page[t] \in Pages
  BY PageOf
<1>2. checked' \subseteq checked
  BY DEF PlainStep, LoadMetadata, Reload, StartCheck, SwitchAccount, EndCheck, Type, TypeEmail, SendCode,
     SendCodeAnswered, SignIn, AskWallet, RelayAnswers, Wait, SignedUp, Finish, chain
<1>3. CASE page' = page
  BY <1>2, <1>3 DEF LessVouched
<1>4. ASSUME NEW p, Becomes(t, p), p.verifying = page[t].verifying,
             p.emailToken = page[t].emailToken, p.ghToken = page[t].ghToken
      PROVE  LessVouched(t) /\ \E q : Becomes(t, q)
  BY <1>4, Replaced
<1>5. CASE LoadMetadata(t)
  <2> DEFINE p == [page[t] EXCEPT !.known = TRUE, !.gasless = gaslessEnabled]
  <2>1. p.verifying = page[t].verifying /\ p.emailToken = page[t].emailToken
        /\ p.ghToken = page[t].ghToken
    BY <1>1 DEF Pages
  <2>2. Becomes(t, p)
    BY <1>5 DEF LoadMetadata
  <2> QED
    BY <1>2, <1>4, <2>1, <2>2
<1>6. CASE Reload(t)
  <2> PICK s \in Scopes : Becomes(t, Loaded(page[t].known, page[t].weights, s, None))
    BY <1>6 DEF Reload
  <2> DEFINE p == Loaded(page[t].known, page[t].weights, s, None)
  <2>1. p.verifying = None /\ p.emailToken = None /\ p.ghToken = None
    BY LoadedTokens
  <2>2. Becomes(t, p)
    OBVIOUS
  <2> QED
    BY <1>2, <2>1, <2>2, Replaced
<1>7. CASE StartCheck(t)
  <2> PICK e : e = Checking(page[t])
    OBVIOUS
  <2>1. e.verifying = page[t].verifying /\ e.emailToken = page[t].emailToken
        /\ e.ghToken = page[t].ghToken
    BY <1>1, CheckingPage
  <2>2. Becomes(t, e)
    BY <1>7 DEF StartCheck
  <2> QED
    BY <1>2, <1>4, <2>1, <2>2
<1>8. CASE \E s \in Scopes, w \in Weights : EndCheck(t, s, w)
  <2> PICK s \in Scopes, w \in Weights : EndCheck(t, s, w)
    BY <1>8
  <2>1. PICK found \in {Leaf(t, s, w), FALSE} :
          LET e == Ended(page[t], s, w, found)
          IN Becomes(t, [e EXCEPT !.overtaken = @ /\ ~(s = e.scope /\ Current(e))])
    BY DEF EndCheck
  <2> DEFINE e == Ended(page[t], s, w, found)
             p == [e EXCEPT !.overtaken = @ /\ ~(s = e.scope /\ Current(e))]
  <2>3. e.verifying = page[t].verifying /\ e.emailToken = page[t].emailToken
        /\ e.ghToken = page[t].ghToken
    BY <1>1 DEF Ended, Pages
  <2>4. p.verifying = e.verifying /\ p.emailToken = e.emailToken /\ p.ghToken = e.ghToken
    BY <1>1 DEF Ended, Pages
  <2>2. p.verifying = page[t].verifying /\ p.emailToken = page[t].emailToken
        /\ p.ghToken = page[t].ghToken
    BY <2>3, <2>4
  <2>5. Becomes(t, p)
    BY <2>1
  <2> HIDE DEF p, e
  <2> QED
    BY <1>2, <1>4, <2>5, <2>2
<1>17. CASE \E s \in Scopes : SwitchAccount(t, s)
  <2> PICK s \in Scopes : SwitchAccount(t, s)
    BY <1>17
  <2> DEFINE late == page[t].overtaken \/ Awaiting(page[t]) \/ ~signupOpen
             w == page[t].weights[s]
             p == [page[t] EXCEPT !.scope = s, !.voterWeight = w, !.overtaken = late]
  <2>1. late \in BOOLEAN /\ w \in Weights
    BY <1>1 DEF Pages, Stores
  <2>2. Becomes(t, Checking(p))
    BY DEF SwitchAccount
  <2> HIDE DEF late, w
  <2>3. /\ p \in Pages /\ p.verifying = page[t].verifying
        /\ p.emailToken = page[t].emailToken /\ p.ghToken = page[t].ghToken
    BY <1>1, <2>1 DEF Pages
  <2> HIDE DEF p
  <2> PICK e : e = Checking(p)
    OBVIOUS
  <2>4. e.verifying = page[t].verifying /\ e.emailToken = page[t].emailToken
        /\ e.ghToken = page[t].ghToken
    BY <2>3, CheckingPage
  <2> QED
    BY <1>2, <1>4, <2>2, <2>4
<1>9. CASE \E what \in {"listed", "unlisted"} : Type(t, what)
  <2> PICK what \in {"listed", "unlisted"} : Type(t, what)
    BY <1>9
  <2> DEFINE p == [page[t] EXCEPT !.typed = what]
  <2>1. p.verifying = page[t].verifying /\ p.emailToken = page[t].emailToken
        /\ p.ghToken = page[t].ghToken
    BY <1>1 DEF Pages
  <2>2. Becomes(t, p)
    BY DEF Type
  <2> QED
    BY <1>2, <1>4, <2>1, <2>2
<1>10. CASE \E a \in Addresses : TypeEmail(t, a)
  <2> PICK a \in Addresses : TypeEmail(t, a)
    BY <1>10
  <2> DEFINE p == [page[t] EXCEPT !.voterEmail = a]
  <2>1. p.verifying = page[t].verifying /\ p.emailToken = page[t].emailToken
        /\ p.ghToken = page[t].ghToken
    BY <1>1 DEF Pages
  <2>2. Becomes(t, p)
    BY DEF TypeEmail
  <2> QED
    BY <1>2, <1>4, <2>1, <2>2
<1>11. CASE \E c \in Email!Calls : SendCode(t, c)
  <2> PICK c \in Email!Calls : SendCode(t, c)
    BY <1>11
  <2> DEFINE p == [page[t] EXCEPT !.sending = c]
  <2>1. p.verifying = page[t].verifying /\ p.emailToken = page[t].emailToken
        /\ p.ghToken = page[t].ghToken
    BY <1>1 DEF Pages
  <2>2. Becomes(t, p) \/ page' = page
    BY DEF SendCode
  <2> QED
    BY <1>2, <1>3, <1>4, <2>1, <2>2
<1>12. CASE SendCodeAnswered(t)
  <2>1. PICK arrived : Becomes(t, [page[t] EXCEPT !.sending = None, !.emailCodeSent = arrived])
    BY <1>12 DEF SendCodeAnswered
  <2> DEFINE p == [page[t] EXCEPT !.sending = None, !.emailCodeSent = arrived]
  <2>2. p.verifying = page[t].verifying /\ p.emailToken = page[t].emailToken
        /\ p.ghToken = page[t].ghToken
    BY <1>1 DEF Pages
  <2> QED
    BY <1>2, <1>4, <2>1, <2>2
<1>13. CASE \E f \in Flows : SignIn(t, f)
  <2> PICK f \in Flows : SignIn(t, f)
    BY <1>13
  <2> DEFINE p == [page[t] EXCEPT !.away = f]
  <2>1. p.verifying = page[t].verifying /\ p.emailToken = page[t].emailToken
        /\ p.ghToken = page[t].ghToken
    BY <1>1 DEF Pages
  <2>2. Becomes(t, p)
    BY DEF SignIn
  <2> QED
    BY <1>2, <1>4, <2>1, <2>2
<1>14. CASE AskWallet(t) \/ RelayAnswers(t) \/ Finish(t)
  <2>1. PICK label, answer, who :
          \/ Becomes(t, [page[t] EXCEPT !.signup = label, !.answer = answer, !.applicant = who])
          \/ Becomes(t, [page[t] EXCEPT !.signup = label, !.applicant = who])
          \/ Becomes(t, [page[t] EXCEPT !.signup = label])
    BY <1>14 DEF AskWallet, RelayAnswers, Finish
  <2> DEFINE p == [page[t] EXCEPT !.signup = label, !.answer = answer, !.applicant = who]
             q == [page[t] EXCEPT !.signup = label, !.applicant = who]
             r == [page[t] EXCEPT !.signup = label]
  <2>2. /\ p.verifying = page[t].verifying /\ p.emailToken = page[t].emailToken
        /\ p.ghToken = page[t].ghToken
        /\ q.verifying = page[t].verifying /\ q.emailToken = page[t].emailToken
        /\ q.ghToken = page[t].ghToken
        /\ r.verifying = page[t].verifying /\ r.emailToken = page[t].emailToken
        /\ r.ghToken = page[t].ghToken
    BY <1>1 DEF Pages
  <2>3. Becomes(t, p) \/ Becomes(t, q) \/ Becomes(t, r)
    BY <2>1
  <2> HIDE DEF p, q, r
  <2> QED
    BY <1>2, <1>4, <2>2, <2>3
<1>15. ASSUME NEW w \in Weights, page[t].signup # "idle"
       PROVE  \A e \in {Weighed(page[t], w)} :
                /\ e \in Pages /\ e.verifying = page[t].verifying
                /\ e.emailToken = page[t].emailToken /\ e.ghToken = page[t].ghToken
  BY <1>1, <1>15, PageOf, WeighedPage DEF Backed, Current, WillWrite
<1>16. CASE Wait(t)
  <2> PICK e : e = Weighed(page[t], page[t].answer)
    OBVIOUS
  <2>1. /\ e \in Pages /\ e.verifying = page[t].verifying
        /\ e.emailToken = page[t].emailToken /\ e.ghToken = page[t].ghToken
    BY <1>1, <1>15, <1>16 DEF Pages, Wait
  <2> DEFINE p == [e EXCEPT !.signup = "verifying"]
  <2>2. p.verifying = page[t].verifying /\ p.emailToken = page[t].emailToken
        /\ p.ghToken = page[t].ghToken
    BY <2>1 DEF Pages
  <2>3. Becomes(t, p)
    BY <1>16 DEF Wait
  <2> HIDE DEF p
  <2> QED
    BY <1>2, <1>4, <2>2, <2>3
<1>18. CASE SignedUp(t)
  <2> PICK e : e = IF page[t].signup = "wallet" THEN Weighed(page[t], 1) ELSE page[t]
    OBVIOUS
  <2>1. /\ e \in Pages /\ e.verifying = page[t].verifying
        /\ e.emailToken = page[t].emailToken /\ e.ghToken = page[t].ghToken
    <3>1. 1 \in Weights
      BY WeightAssumption DEF Weights
    <3>2. CASE page[t].signup = "wallet"
      BY <1>15, <3>1, <3>2
    <3> QED
      BY <1>1, <3>2
  <2> DEFINE p == [e EXCEPT !.signup = "refreshing", !.signupStatus = "signed-up", !.answer = 1]
  <2>2. p.verifying = page[t].verifying /\ p.emailToken = page[t].emailToken
        /\ p.ghToken = page[t].ghToken
    BY <2>1 DEF Pages
  <2>3. Becomes(t, p)
    BY <1>18 DEF SignedUp
  <2> HIDE DEF p
  <2> QED
    BY <1>2, <1>4, <2>2, <2>3
<1> QED
  BY <1>5, <1>6, <1>7, <1>8, <1>9, <1>10, <1>11, <1>12, <1>13, <1>14, <1>16, <1>17, <1>18
  DEF PlainStep

(* Everything that may happen, as the four invariants see it. *)
Both == /\ EmailInv /\ PageInv /\ GithubInv
        /\ [Email!Next]_(Email!vars) /\ [Github!Next]_(Github!vars)

LEMMA VerifyVouched ==
  ASSUME Both, VouchInv, NEW t \in Tabs, NEW c \in Email!Calls, NEW code \in Email!Typed,
         VerifyCode(t, c, code)
  PROVE  Vouching(t)'
<1>1. page[t] \in Pages /\ EmailInv /\ Vouching(t) /\ GithubInv
  BY PageOf DEF Both, VouchInv
<1>2. checked' = checked
  BY DEF VerifyCode, chain
<1>3. CASE page' = page
  BY <1>1, <1>2, <1>3, StillVouched DEF Both, LessVouched
<1>4. CASE /\ Email!VerifyRight(c, page[t].voterEmail, code)
           /\ Becomes(t, [page[t] EXCEPT !.verifying = page[t].voterEmail])
  <2> PICK a : a = page[t].voterEmail
    OBVIOUS
  <2> DEFINE p == [page[t] EXCEPT !.verifying = a]
  <2>1. page'[t] = p
    BY <1>4 DEF Becomes, Both, PageInv
  <2>2. /\ p.verifying = a /\ p.emailToken = page[t].emailToken
        /\ p.ghToken = page[t].ghToken
    BY <1>1 DEF Pages
  <2> HIDE DEF p
  <2>3. Given(a)'
    <3> PICK x : x = verificationCodes[a].code
      OBVIOUS
    <3> DEFINE r == [pc |-> "ok", action |-> "verify", email |-> a,
                     code |-> code, against |-> x]
    <3>1. call' = [call EXCEPT ![c] = r]
      BY <1>4, NewCall DEF Email!VerifyRight, Email!Stored
    <3>2. r.email = a /\ r.action = "verify" /\ r.pc = "ok"
      OBVIOUS
    <3> HIDE DEF r
    <3>3. call'[c] = r
      BY <1>1, <3>1, EmailTypes
    <3> QED
      BY <3>2, <3>3 DEF Given, Email!Accepted, Email!At
  <2>4. gate' = gate
    BY GateStays DEF Both
  <2>5. \A b : Given(b) => Given(b)'
    BY <1>1, GivenStays DEF Both
  <2>6. Member => Member'
    BY <1>1, MemberStays DEF Both
  <2> QED
    BY <1>1, <1>2, <2>1, <2>2, <2>3, <2>4, <2>5, <2>6 DEF Vouching
<1> QED
  BY <1>3, <1>4 DEF VerifyCode

LEMMA VerifiedVouched ==
  ASSUME Both, VouchInv, NEW t \in Tabs, VerifyCodeAnswered(t)
  PROVE  Vouching(t)'
<1>1. page[t] \in Pages /\ EmailInv /\ Vouching(t) /\ GithubInv
  BY PageOf DEF Both, VouchInv
<1>2. checked' = checked /\ page[t].verifying # None
  BY DEF VerifyCodeAnswered, chain
<1>3. PICK token : /\ token \in {page[t].verifying, None}
                   /\ Becomes(t, [page[t] EXCEPT !.verifying = None, !.emailToken = token])
  BY DEF VerifyCodeAnswered
<1> DEFINE p == [page[t] EXCEPT !.verifying = None, !.emailToken = token]
<1>4. page'[t] = p
  BY <1>3 DEF Becomes, Both, PageInv
<1>5. p.verifying = None /\ p.emailToken = token /\ p.ghToken = page[t].ghToken
  BY <1>1 DEF Pages
<1> HIDE DEF p
<1>6. token # None => Given(token)
  BY <1>1, <1>3 DEF Vouching
<1>7. gate' = gate
  BY GateStays DEF Both
<1>8. \A b : Given(b) => Given(b)'
  BY <1>1, GivenStays DEF Both
<1>9. Member => Member'
  BY <1>1, MemberStays DEF Both
<1> QED
  BY <1>1, <1>2, <1>4, <1>5, <1>6, <1>7, <1>8, <1>9 DEF Vouching

LEMMA ReturnVouched ==
  ASSUME Both, VouchInv, NEW t \in Tabs, Return(t)
  PROVE  Vouching(t)'
<1>1. page[t] \in Pages /\ EmailInv /\ Vouching(t) /\ GithubInv
  BY PageOf DEF Both, VouchInv
<1>2. checked' = checked /\ page[t].away \in Flows
  BY <1>1 DEF Return, chain, Pages
<1> DEFINE token == IF Github!At(page[t].away, "token") THEN flow[page[t].away].account ELSE None
<1> PICK s \in Scopes, known \in {page[t].known, FALSE} :
      Becomes(t, Loaded(known, page[t].weights, s, token))
  BY DEF Return
<1> DEFINE p == Loaded(known, page[t].weights, s, token)
<1>3. page'[t] = p
  BY DEF Return, Becomes, Both, PageInv
<1>4. token # None => Member
  BY <1>2 DEF Member, Github!At
<1> HIDE DEF token
<1>5. p.verifying = None /\ p.emailToken = None /\ p.ghToken = token
  BY LoadedTokens
<1> HIDE DEF p
<1>7. gate' = gate
  BY GateStays DEF Both
<1>8. \A b : Given(b) => Given(b)'
  BY <1>1, GivenStays DEF Both
<1>9. Member => Member'
  BY <1>1, MemberStays DEF Both
<1> QED
  BY <1>1, <1>2, <1>3, <1>4, <1>5, <1>7, <1>8, <1>9 DEF Vouching

(* The relay takes what its check lets through. *)
LEMMA RelayVouched ==
  ASSUME Both, VouchInv, NEW t \in Tabs, AskRelay(t)
  PROVE  /\ Vouching(t)' /\ \A u \in Tabs \ {t} : u \in checked' => u \in checked
<1>1. page[t] \in Pages /\ EmailInv /\ Vouching(t) /\ GithubInv
  BY PageOf DEF Both, VouchInv
<1>2. PICK known \in BOOLEAN, w \in Weights :
        /\ known => Vouched(t)
        /\ checked' = IF known THEN checked \cup {t} ELSE checked \ {t}
        /\ Becomes(t, [page[t] EXCEPT !.signup = "relaying", !.answer = w,
                                      !.applicant = page[t].scope])
  BY DEF AskRelay
<1> DEFINE p == [page[t] EXCEPT !.signup = "relaying", !.answer = w, !.applicant = page[t].scope]
<1>3. page'[t] = p
  BY <1>2 DEF Becomes, Both, PageInv
<1>4. /\ p.verifying = page[t].verifying /\ p.emailToken = page[t].emailToken
      /\ p.ghToken = page[t].ghToken
  BY <1>1 DEF Pages
<1> HIDE DEF p
<1>5. Vouched(t) => /\ gate = "email-domain" => \E a : Given(a)
                    /\ gate = "github-org" => Member
  BY <1>1 DEF Vouched, Vouching
<1>6. t \in checked' => /\ gate = "email-domain" => \E a : Given(a)
                        /\ gate = "github-org" => Member
  BY <1>2, <1>5
<1>7. gate' = gate
  BY GateStays DEF Both
<1>8. \A b : Given(b) => Given(b)'
  BY <1>1, GivenStays DEF Both
<1>9. Member => Member'
  BY <1>1, MemberStays DEF Both
<1> QED
  BY <1>1, <1>2, <1>3, <1>4, <1>6, <1>7, <1>8, <1>9 DEF Vouching

LEMMA VouchKept ==
  ASSUME EmailInv, PageInv, GithubInv, VouchInv, [Next]_vars
  PROVE  VouchInv'
<1>1. Both
  BY StepOnEmail, StepOnGithub DEF Both
<1>2. ASSUME NEW u \in Tabs, LessVouched(u), u \in checked' => u \in checked
      PROVE  Vouching(u)'
  BY <1>1, <1>2, StillVouched DEF Both, VouchInv
<1>3. ASSUME NEW t \in Tabs, TabStep(t), NEW u \in Tabs
      PROVE  Vouching(u)'
  <2>1. CASE PlainStep(t)
    <3>1. LessVouched(t) /\ checked' \subseteq checked /\ \E p : Becomes(t, p) \/ page' = page
      BY <2>1, PlainStepVouched
    <3>2. LessVouched(u)
      BY <3>1, OtherTabs DEF LessVouched
    <3> QED
      BY <1>2, <3>1, <3>2
  <2>2. ASSUME Vouching(t)', \A v \in Tabs \ {t} : v \in checked' => v \in checked,
               \E p : Becomes(t, p) \/ page' = page
        PROVE  Vouching(u)'
    <3>1. u # t => LessVouched(u)
      BY <2>2, OtherTabs DEF LessVouched
    <3> QED
      BY <1>2, <2>2, <3>1
  <2>3. CASE \E c \in Email!Calls : \E code \in Email!Typed : VerifyCode(t, c, code)
    <3> PICK c \in Email!Calls : \E code \in Email!Typed : VerifyCode(t, c, code)
      BY <2>3
    <3> PICK code \in Email!Typed : VerifyCode(t, c, code)
      OBVIOUS
    <3>1. checked' = checked /\ \E p : Becomes(t, p) \/ page' = page
      BY DEF VerifyCode, chain
    <3> QED
      BY <1>1, <2>2, <3>1, VerifyVouched
  <2>4. CASE VerifyCodeAnswered(t)
    <3>1. checked' = checked /\ \E p : Becomes(t, p) \/ page' = page
      BY <2>4 DEF VerifyCodeAnswered, chain
    <3> QED
      BY <1>1, <2>2, <2>4, <3>1, VerifiedVouched
  <2>5. CASE Return(t)
    <3>1. checked' = checked /\ \E p : Becomes(t, p) \/ page' = page
      BY <2>5 DEF Return, chain
    <3> QED
      BY <1>1, <2>2, <2>5, <3>1, ReturnVouched
  <2>6. CASE AskRelay(t)
    <3>1. \E p : Becomes(t, p) \/ page' = page
      BY <2>6 DEF AskRelay
    <3> QED
      BY <1>1, <2>2, <2>6, <3>1, RelayVouched
  <2> QED
    BY <1>3, <2>1, <2>3, <2>4, <2>5, <2>6 DEF TabStep, PlainStep, Refresh, Fail
<1>4. CASE \/ \E t \in Tabs, s \in Scopes : Mine(t, s)
           \/ MailService \/ EmailRestart \/ GithubStep \/ CloseSignup \/ Tick \/ UNCHANGED vars
  <2>1. checked' = checked /\ page' = page
    BY <1>4 DEF Mine, MailService, EmailRestart, GithubStep, CloseSignup, Tick, vars, chain
  <2> QED
    BY <1>2, <2>1 DEF VouchInv, LessVouched
<1> QED
  BY <1>3, <1>4 DEF VouchInv, Next

(* Whoever a page vouches for has been verified: the invariant behind what *)
(* the relay is given.                                                     *)
THEOREM SignupInvariant == Spec => [](VouchInv /\ EmailInv /\ PageInv /\ GithubInv)
<1>1. Init => VouchInv
  <2> SUFFICES ASSUME Init, NEW t \in Tabs PROVE Vouching(t)
    BY DEF VouchInv
  <2> DEFINE ones == [s \in Scopes |-> 1]
  <2>1. PICK first \in [Tabs -> Scopes] :
          page = [u \in Tabs |-> Loaded(FALSE, ones, first[u], None)]
    BY DEF Init
  <2> HIDE DEF ones
  <2>2. page[t] = Loaded(FALSE, ones, first[t], None)
    BY <2>1
  <2>4. page[t].verifying = None /\ page[t].emailToken = None /\ page[t].ghToken = None
    BY <2>2 DEF Loaded
  <2>3. t \notin checked
    BY DEF Init
  <2> QED
    BY <2>3, <2>4 DEF Vouching
<1>2. EmailInv /\ PageInv /\ GithubInv /\ VouchInv /\ [Next]_vars => VouchInv'
  BY VouchKept
<1> QED
  BY <1>1, <1>2, EmailInvariant, PTL DEF Spec

(* The types of the page and both routes. *)
THEOREM SignupTypes == Spec => []TypeOK
<1>1. EmailInv /\ PageInv /\ GithubInv => TypeOK
  BY DEF EmailInv, PageInv, GithubInv, TypeOK, TxStates
<1> QED
  BY <1>1, SignupInvariant, PTL

(* A signup that the relay checked has an accepted code for an allowed     *)
(* address, or a sign-in that ended with a token, behind it (relay, verify *)
(* and callback routes together with page.tsx).                            *)
THEOREM SignupsAreVouchedFor == Spec => []SignupVouchedFor
<1>1. EmailInv /\ PageInv /\ VouchInv => SignupVouchedFor
  <2> SUFFICES ASSUME EmailInv, PageInv, VouchInv, NEW t \in checked
               PROVE  /\ gate = "email-domain" => \E c \in Email!Calls :
                           /\ Email!Accepted(c) /\ call[c].email \in Allowed
                           /\ call[c].code \in inbox /\ call[call[c].code].email = call[c].email
                      /\ gate = "github-org" => \E f \in Flows : Github!At(f, "token")
    BY DEF SignupVouchedFor
  <2>1. Vouching(t) /\ t \in checked
    BY DEF VouchInv, PageInv
  <2>2. \A c \in Email!Calls : Request(c)
    BY DEF EmailInv
  <2> QED
    BY <2>1, <2>2 DEF Vouching, Given, Member, Request, Github!At
<1> QED
  BY <1>1, SignupInvariant, PTL

-----------------------------------------------------------------------------
(* The limit on sends.  As long as a code is pending the window in which   *)
(* its sends are counted has not passed, so the count goes back to one     *)
(* only after a record has expired or was removed before its time.         *)

Gap(s, k) == s[k+1].at > s[k].at + CodeTtl
Run(n) == (n - 1) * CodeTtl

Spacing(a) ==
  /\ cleared[a] <= Len(sent[a])
  /\ \A i \in cleared[a]+1 .. Len(sent[a]) - MaxSends :
       \E k \in i .. i + MaxSends - 1 : Gap(sent[a], k)
  /\ verificationCodes[a] = None /\ Len(sent[a]) > cleared[a] =>
       now > Email!Newest(a).at + CodeTtl
  /\ verificationCodes[a] # None =>
       LET n == verificationCodes[a].sendCount IN
       /\ n <= Len(sent[a]) - cleared[a]
       /\ n = Len(sent[a]) - cleared[a] \/ Gap(sent[a], Len(sent[a]) - n)
       /\ verificationCodes[a].firstSentAt + Run(n) >= Email!Newest(a).at

Entries == Seq([code : Email!Calls, at : Nat])

LEMMA EntryTimes ==
  ASSUME NEW s \in Entries, NEW k \in 1..Len(s)
  PROVE  s[k].at \in Nat
<1>1. s[k] \in [code : Email!Calls, at : Nat]
  BY ElementOfSeq DEF Entries
<1> QED
  BY <1>1

SpaceInv == \A a \in Addresses : Spacing(a)

LEMMA Runs ==
  ASSUME NEW n \in 1..MaxSends
  PROVE  /\ Run(n) \in Nat /\ Run(n + 1) = Run(n) + CodeTtl
         /\ Run(n) + CodeTtl < SendWindow
<1>1. CodeTtl \in Nat /\ MaxSends \in Nat /\ SendWindow \in Nat /\ MaxSends * CodeTtl < SendWindow
  BY EmailAssumption, CallsFinite DEF Email!TimeAssumption, Email!WindowAssumption
<1>2. (n - 1) * CodeTtl \in Nat /\ n * CodeTtl = (n - 1) * CodeTtl + CodeTtl
  BY <1>1
<1>3. n * CodeTtl <= MaxSends * CodeTtl
  BY <1>1
<1>4. n * CodeTtl \in Nat /\ MaxSends * CodeTtl \in Nat
  BY <1>1
<1> QED
  BY <1>1, <1>2, <1>3, <1>4 DEF Run

(* A code that is no longer pending, though nothing removed it, is too old. *)
LEMMA SpacingOver ==
  ASSUME EmailInv, NEW a \in Addresses, Spacing(a), ~Email!Live(a), Len(sent[a]) > cleared[a]
  PROVE  now > Email!Newest(a).at + CodeTtl
<1>1. CASE verificationCodes[a] = None
  BY <1>1 DEF Spacing
<1>2. CASE verificationCodes[a] # None
  <2>1. /\ verificationCodes[a] \in Email!StoredCodes
        /\ verificationCodes[a].expires = Email!Newest(a).at + CodeTtl
    BY <1>2, EmailTypes DEF EmailInv, Pending
  <2>2. verificationCodes[a].expires < now
    BY <1>2 DEF Email!Live, Email!Expired, Email!Stored
  <2> QED
    BY <2>1, <2>2
<1> QED
  BY <1>1, <1>2

(* Nothing is sent to an address, and no record of it goes before its time.*)
LEMMA SpacingStays ==
  ASSUME EmailInv, EmailInv', NEW a \in Addresses, Spacing(a),
         sent'[a] = sent[a], cleared'[a] = cleared[a], now' >= now,
         \/ verificationCodes'[a] = None /\ ~Email!Live(a)
         \/ verificationCodes'[a] = verificationCodes[a]
         \/ /\ verificationCodes[a] # None /\ verificationCodes'[a] # None
            /\ verificationCodes'[a].sendCount = verificationCodes[a].sendCount
            /\ verificationCodes'[a].firstSentAt = verificationCodes[a].firstSentAt
  PROVE  Spacing(a)'
<1>1. Email!Newest(a)' = Email!Newest(a)
  BY DEF Email!Newest
<1>2. Len(sent[a]) > cleared[a] /\ ~Email!Live(a) => now > Email!Newest(a).at + CodeTtl
  BY SpacingOver
<1>3. Len(sent[a]) > cleared[a] /\ verificationCodes'[a] = None
        => now' > Email!Newest(a).at + CodeTtl
  <2>1. Len(sent[a]) > cleared[a] => Email!Newest(a).at \in Nat
    <3>1. sent[a] \in Seq([code : Email!Calls, at : Nat]) /\ cleared[a] \in Nat
      BY EmailTypes
    <3>2. Len(sent[a]) > cleared[a] => Len(sent[a]) \in 1..Len(sent[a])
      BY <3>1, SentLength
    <3> QED
      BY <3>1, <3>2, EntryTimes DEF Email!Newest, Entries
  <2>2. Len(sent[a]) > cleared[a] /\ verificationCodes'[a] = None
          => now > Email!Newest(a).at + CodeTtl
    BY <1>2 DEF Spacing
  <2>3. now \in Nat /\ now' \in Nat
    BY EmailTypes, CallsFinite DEF EmailInv, Email!TypeOK
  <2> QED
    BY <2>1, <2>2, <2>3, CallsFinite
<1> QED
  BY <1>1, <1>3 DEF Spacing

LEMMA SpacingCleared ==
  ASSUME EmailInv, NEW a \in Addresses,
         sent'[a] = sent[a], cleared'[a] = Len(sent[a]), verificationCodes'[a] = None
  PROVE  Spacing(a)'
<1>1. Len(sent[a]) \in Nat
  BY SentLength
<1> QED
  BY <1>1, CallsFinite DEF Spacing

(* A code is sent to the address. *)
LEMMA SpacingSent ==
  ASSUME EmailInv, EmailInv', NEW a \in Addresses, NEW c \in Email!Calls, Spacing(a),
         Email!SendStored(c, a)
  PROVE  Spacing(a)'
<1> DEFINE L == Len(sent[a])
           entry == [code |-> c, at |-> now]
           record == Email!NewRecord(a, c)
<1>1. /\ sent' = [sent EXCEPT ![a] = Append(sent[a], entry)]
      /\ verificationCodes' = [Email!cleanExpired EXCEPT ![a] = record]
      /\ now' = now /\ cleared' = cleared /\ ~Email!TooMany(a)
  BY DEF Email!SendStored
<1>2. /\ L \in Nat /\ cleared[a] \in Nat /\ now \in Nat
      /\ MaxSends \in Nat /\ MaxSends > 0 /\ CodeTtl \in Nat
  BY EmailTypes, CallsFinite, SentLength
<1>3. sent[a] \in Entries /\ entry.at = now
  BY EmailTypes DEF Entries
<1>4. sent'[a] = Append(sent[a], entry)
  BY <1>1, EmailTypes
<1> HIDE DEF entry, L
<1>5. /\ Len(sent'[a]) = L + 1 /\ sent'[a][L+1] = entry
      /\ \A k \in 1..L : sent'[a][k] = sent[a][k]
      /\ \A k \in 1..L-1 : Gap(sent'[a], k) <=> Gap(sent[a], k)
  <2> PICK s : s = sent[a]
    OBVIOUS
  <2> PICK u : u = sent'[a]
    OBVIOUS
  <2>1. s \in Entries /\ u = Append(s, entry) /\ L = Len(s)
    BY <1>4, <1>3 DEF L
  <2> PICK e : e = entry
    OBVIOUS
  <2>2. s \in Entries /\ u = Append(s, e)
    BY <2>1
  <2>3. /\ Len(u) = Len(s) + 1 /\ u[Len(s) + 1] = e /\ \A k \in 1..Len(s) : u[k] = s[k]
    BY <2>2 DEF Entries
  <2>4. \A k \in 1..L-1 : k \in 1..L /\ k+1 \in 1..L
    BY <1>2
  <2>5. Len(u) = L + 1 /\ u[L+1] = e /\ \A k \in 1..L : u[k] = s[k]
    BY <2>1, <2>3, Zenon
  <2>6. \A k \in 1..L-1 : Gap(u, k) <=> Gap(s, k)
    BY <2>4, <2>5 DEF Gap
  <2> QED
    BY <2>5, <2>6, Zenon
<1>6. \A k \in 1..L : sent[a][k].at \in Nat
  BY <1>3, EntryTimes DEF L
<1>7. /\ cleared[a] <= L
      /\ \A i \in cleared[a]+1 .. L - MaxSends : \E k \in i .. i + MaxSends - 1 : Gap(sent[a], k)
  BY DEF Spacing, L
<1>8. /\ verificationCodes'[a] = record /\ record # None
      /\ record.sendCount = IF Email!InWindow(a) THEN verificationCodes[a].sendCount + 1 ELSE 1
      /\ record.firstSentAt = IF Email!InWindow(a) THEN verificationCodes[a].firstSentAt ELSE now
  <2>1. verificationCodes'[a] = record
    BY <1>1, Cleaned
  <2>2. record = [code |-> c, expires |-> now + CodeTtl, attempts |-> 0,
                  sendCount |-> IF Email!InWindow(a) THEN verificationCodes[a].sendCount + 1 ELSE 1,
                  firstSentAt |-> IF Email!InWindow(a) THEN verificationCodes[a].firstSentAt ELSE now]
    BY DEF Email!NewRecord, Email!Stored
  <2>3. record # None
    BY <1>1, RecordOfSend, EmailAssumption DEF Email!RecordAssumption
  <2> HIDE DEF record
  <2> QED
    BY <2>1, <2>2, <2>3
<1> HIDE DEF record
<1> DEFINE n == record.sendCount
<1>9. n \in 1..MaxSends
  BY <1>1, RecordOfSend DEF Email!StoredCodes, record
<1>10. Email!Newest(a)' = entry
  BY <1>2, <1>5 DEF Email!Newest
<1>11. /\ n <= L + 1 - cleared[a]
       /\ n = L + 1 - cleared[a] \/ Gap(sent'[a], L + 1 - n)
       /\ record.firstSentAt + Run(n) >= now
  <2>1. CASE Email!Live(a)
    <3> DEFINE old == verificationCodes[a]
               m == old.sendCount
    <3>1. old \in Email!StoredCodes /\ old # None /\ ~(old.expires < now)
      BY <2>1, EmailTypes DEF Email!Live, Email!Expired, Email!Stored
    <3>2. /\ m \in 1..MaxSends /\ old.firstSentAt \in Int /\ old.expires \in Int
      BY <3>1 DEF Email!StoredCodes
    <3>3. L # 0 /\ old.expires = sent[a][L].at + CodeTtl
      BY <1>2, <3>1 DEF EmailInv, Pending, Email!Newest, L
    <3>4. /\ m <= L - cleared[a] /\ (m = L - cleared[a] \/ Gap(sent[a], L - m))
          /\ old.firstSentAt + Run(m) >= sent[a][L].at
      BY <3>1 DEF Spacing, Email!Newest, L
    <3> HIDE DEF m
    <3>5. Run(m) \in Nat /\ Run(m + 1) = Run(m) + CodeTtl /\ Run(m) + CodeTtl < SendWindow
      BY <3>2, Runs
    <3> PICK since : since = old.firstSentAt
      OBVIOUS
    <3> PICK last : last = sent[a][L].at
      OBVIOUS
    <3>6. since \in Int /\ last \in Nat /\ since + Run(m) >= last /\ now <= last + CodeTtl
      BY <1>2, <1>6, <3>1, <3>2, <3>3, <3>4
    <3> HIDE DEF old
    <3>7. since + Run(m) + CodeTtl >= now
      BY <1>2, <3>5, <3>6
    <3>8. Email!InWindow(a)
      <4>1. SendWindow \in Nat
        BY EmailAssumption DEF Email!TimeAssumption
      <4>2. since > now - SendWindow
        BY <1>2, <3>7, <3>5, <3>6, <4>1
      <4> QED
        BY <2>1, <4>2 DEF Email!InWindow, Email!Stored, old
    <3>9. n = m + 1 /\ record.firstSentAt = since
      BY <1>8, <3>8 DEF m, old
    <3> HIDE DEF n
    <3>10. Run(n) = Run(m) + CodeTtl
      BY <3>9, <3>5
    <3>11. n = L + 1 - cleared[a] \/ Gap(sent'[a], L + 1 - n)
      <4>1. CASE m = L - cleared[a]
        BY <1>2, <3>2, <3>9, <4>1
      <4>2. CASE m # L - cleared[a]
        <5>1. L - m \in 1..L-1 /\ L + 1 - n = L - m
          BY <1>2, <3>2, <3>4, <3>9, <4>2
        <5>2. Gap(sent[a], L - m)
          BY <3>4, <4>2
        <5> QED
          BY <1>5, <5>1, <5>2
      <4> QED
        BY <4>1, <4>2
    <3>12. record.firstSentAt + Run(n) >= now
      BY <3>7, <3>9, <3>10, <3>5, <3>6, <1>2
    <3>13. n <= L + 1 - cleared[a]
      BY <1>2, <3>2, <3>4, <3>9
    <3> QED
      BY <3>11, <3>12, <3>13
  <2>2. CASE ~Email!Live(a)
    <3>1. n = 1 /\ record.firstSentAt = now
      BY <1>8, <2>2 DEF Email!InWindow
    <3>2. Run(1) = 0
      BY <1>2 DEF Run
    <3>3. L > cleared[a] => now > sent[a][L].at + CodeTtl
      BY <2>2, SpacingOver DEF Email!Newest, L
    <3>4. L > cleared[a] => Gap(sent'[a], L)
      BY <1>2, <1>5, <1>3, <3>3 DEF Gap
    <3> QED
      BY <1>2, <1>7, <3>1, <3>2, <3>4
  <2> QED
    BY <2>1, <2>2
<1> HIDE DEF n
<1>12. ASSUME NEW i \in cleared[a]+1 .. L + 1 - MaxSends
       PROVE  \E k \in i .. i + MaxSends - 1 : Gap(sent'[a], k)
  <2>1. CASE i <= L - MaxSends
    <3>1. PICK k \in i .. i + MaxSends - 1 : Gap(sent[a], k)
      BY <1>2, <1>7, <2>1
    <3>2. k \in 1..L-1
      BY <1>2, <2>1, <3>1
    <3> QED
      BY <1>5, <3>1, <3>2
  <2>2. CASE i = L + 1 - MaxSends
    <3>1. n # L + 1 - cleared[a]
      BY <1>2, <1>9, <2>2
    <3>2. Gap(sent'[a], L + 1 - n)
      BY <1>11, <3>1
    <3>3. L + 1 - n \in i .. i + MaxSends - 1
      BY <1>2, <1>9, <2>2
    <3> QED
      BY <3>2, <3>3
  <2> QED
    BY <1>2, <2>1, <2>2
<1>13. cleared'[a] = cleared[a] /\ Email!Newest(a)'.at = now /\ cleared[a] <= L + 1
  BY <1>1, <1>2, <1>7, <1>10, <1>3
<1>14. verificationCodes'[a].sendCount = n /\ verificationCodes'[a].firstSentAt = record.firstSentAt
  BY <1>8 DEF n
<1>15. cleared'[a] <= Len(sent'[a]) /\ Len(sent'[a]) = L + 1
  BY <1>5, <1>13
<1>16. \A i \in cleared'[a]+1 .. Len(sent'[a]) - MaxSends :
         \E k \in i .. i + MaxSends - 1 : Gap(sent'[a], k)
  <2> SUFFICES ASSUME NEW i \in cleared[a]+1 .. L + 1 - MaxSends
               PROVE  \E k \in i .. i + MaxSends - 1 : Gap(sent'[a], k)
    <3>1. cleared'[a] = cleared[a]
      BY <1>13
    <3>2. Len(sent'[a]) = L + 1
      BY <1>15
    <3>3. cleared'[a]+1 .. Len(sent'[a]) - MaxSends = cleared[a]+1 .. L + 1 - MaxSends
      BY <1>2, <3>1, <3>2
    <3> QED
      BY <3>3, Zenon
  <2> QED
    BY <1>12
<1>17. verificationCodes'[a] # None
  BY <1>8
<1>18. n <= Len(sent'[a]) - cleared'[a]
  BY <1>2, <1>9, <1>11, <1>13, <1>15
<1>19. Len(sent'[a]) - cleared'[a] = L + 1 - cleared[a] /\ Len(sent'[a]) - n = L + 1 - n
  BY <1>2, <1>9, <1>13, <1>15
<1>20. n = Len(sent'[a]) - cleared'[a] \/ Gap(sent'[a], Len(sent'[a]) - n)
  BY <1>11, <1>19, Zenon
<1>21. record.firstSentAt + Run(n) >= Email!Newest(a)'.at
  BY <1>11, <1>13, Zenon
<1>22. LET m == verificationCodes'[a].sendCount IN
       /\ m <= Len(sent'[a]) - cleared'[a]
       /\ m = Len(sent'[a]) - cleared'[a] \/ Gap(sent'[a], Len(sent'[a]) - m)
       /\ verificationCodes'[a].firstSentAt + Run(m) >= Email!Newest(a)'.at
  BY <1>14, <1>18, <1>20, <1>21, Zenon
<1> QED
  BY <1>15, <1>16, <1>17, <1>22 DEF Spacing

(* How a step of the route treats one address. *)
Untouched(a) ==
  /\ sent'[a] = sent[a] /\ cleared'[a] = cleared[a] /\ now' >= now
  /\ \/ verificationCodes'[a] = None /\ ~Email!Live(a)
     \/ verificationCodes'[a] = verificationCodes[a]
     \/ /\ verificationCodes[a] # None /\ verificationCodes'[a] # None
        /\ verificationCodes'[a].sendCount = verificationCodes[a].sendCount
        /\ verificationCodes'[a].firstSentAt = verificationCodes[a].firstSentAt

Emptied(a) ==
  sent'[a] = sent[a] /\ cleared'[a] = Len(sent[a]) /\ verificationCodes'[a] = None

LEMMA StepOnAddress ==
  ASSUME EmailInv, [Email!Next]_(Email!vars), NEW a \in Addresses
  PROVE  Untouched(a) \/ Emptied(a) \/ \E c \in Email!Calls : Email!SendStored(c, a)
<1>1. /\ verificationCodes \in [Addresses -> Email!StoredCodes \cup {None}]
      /\ sent \in [Addresses -> Seq([code : Email!Calls, at : Nat])]
      /\ cleared \in [Addresses -> Nat] /\ now \in Nat
  BY EmailTypes
<1> DEFINE cleaned == IF Email!Live(a) THEN verificationCodes[a] ELSE None
<1>2. (cleaned = None /\ ~Email!Live(a)) \/ cleaned = verificationCodes[a]
  OBVIOUS
<1>3. CASE UNCHANGED <<sent, cleared, verificationCodes>> /\ now' >= now
  BY <1>3 DEF Untouched
<1>4. ASSUME UNCHANGED <<sent, cleared, now>>, verificationCodes'[a] = cleaned
      PROVE  Untouched(a)
  BY <1>1, <1>2, <1>4 DEF Untouched
<1>5. CASE UNCHANGED Email!vars \/ Email!Tick
  BY <1>1, <1>3, <1>5 DEF Email!vars, Email!server, Email!history, Email!Tick
<1>6. CASE Email!Restart
  <2>1. /\ sent' = sent /\ verificationCodes' = [b \in Addresses |-> None]
        /\ cleared' = [b \in Addresses |-> Len(sent[b])]
    BY <1>6, Zenon DEF Email!Restart, Addresses
  <2> QED
    BY <2>1 DEF Emptied
<1>7. ASSUME NEW c \in Email!Calls, Email!SendAnswered(c) \/ Email!SendFailed(c)
      PROVE  Untouched(a) \/ Emptied(a)
  <2> DEFINE b == call[c].email
  <2>1. CASE Email!SendAnswered(c)
    <3>1. UNCHANGED <<sent, cleared, verificationCodes, now>>
      BY <2>1 DEF Email!SendAnswered, Email!server, Email!history
    <3> QED
      BY <1>1, <3>1 DEF Untouched
  <2>2. CASE Email!SendFailed(c)
    <3>1. /\ verificationCodes' = [verificationCodes EXCEPT ![b] = None]
          /\ cleared' = [cleared EXCEPT ![b] = Len(sent[b])]
          /\ sent' = sent /\ now' = now
      BY <2>2 DEF Email!SendFailed, Email!Remove, Email!Address
    <3> HIDE DEF b
    <3>2. a = b => Emptied(a)
      BY <1>1, <3>1 DEF Emptied
    <3>3. a # b => Untouched(a)
      BY <1>1, <3>1 DEF Untouched
    <3> QED
      BY <3>2, <3>3
  <2> QED
    BY <1>7, <2>1, <2>2
<1>8. ASSUME NEW b \in Addresses,
             Email!SendRefused(b) \/ Email!SendLimited(b) \/ Email!VerifyNothing(b)
      PROVE  Untouched(a)
  <2>1. UNCHANGED <<sent, cleared, now>> /\ verificationCodes' \in {verificationCodes, Email!cleanExpired}
    BY <1>8 DEF Email!SendRefused, Email!SendLimited, Email!VerifyNothing, Email!history
  <2>2. verificationCodes'[a] = verificationCodes[a] \/ verificationCodes'[a] = cleaned
    BY <2>1, Cleaned
  <2> QED
    BY <1>1, <1>4, <2>1, <2>2 DEF Untouched
<1>9. ASSUME NEW b \in Addresses, NEW r, now' = now, sent' = sent,
             verificationCodes' = [Email!cleanExpired EXCEPT ![b] = r]
      PROVE  /\ a # b => verificationCodes'[a] = cleaned
             /\ a = b => verificationCodes'[a] = r
  BY <1>9, Cleaned
<1>10. ASSUME NEW b \in Addresses, now' = now, sent' = sent,
              verificationCodes' = [Email!cleanExpired EXCEPT ![b] = None],
              cleared' = [cleared EXCEPT ![b] = Len(sent[b])]
       PROVE  Untouched(a) \/ Emptied(a)
  <2>1. a # b => cleared'[a] = cleared[a] /\ verificationCodes'[a] = cleaned
    BY <1>1, <1>9, <1>10
  <2>2. a = b => cleared'[a] = Len(sent[a]) /\ verificationCodes'[a] = None
    BY <1>1, <1>9, <1>10
  <2>3. a # b => Untouched(a)
    BY <1>1, <1>2, <1>10, <2>1 DEF Untouched
  <2> QED
    BY <1>10, <2>2, <2>3 DEF Emptied
<1>11. ASSUME NEW b \in Addresses, Email!VerifyExhausted(b)
       PROVE  Untouched(a) \/ Emptied(a)
  BY <1>10, <1>11 DEF Email!VerifyExhausted
<1>12. ASSUME NEW b \in Addresses, NEW c \in Email!Calls, NEW code, Email!VerifyRight(c, b, code)
       PROVE  Untouched(a) \/ Emptied(a)
  BY <1>10, <1>12 DEF Email!VerifyRight, Email!Spent
<1>13. ASSUME NEW b \in Addresses, NEW c \in Email!Calls, NEW code,
              Email!VerifyWrong(c, b, code)
       PROVE  Untouched(a)
  <2> DEFINE record == verificationCodes[b]
             counted == [record EXCEPT !.attempts = @ + 1]
  <2>1. /\ UNCHANGED <<sent, cleared, now>> /\ Email!Live(b)
        /\ verificationCodes' = [Email!cleanExpired EXCEPT ![b] = counted]
    BY <1>13 DEF Email!VerifyWrong, Email!Counted, Email!Stored, Email!history
  <2>2. record \in Email!StoredCodes /\ record # None /\ ~Email!Exhausted(b)
    BY <1>1, <1>13 DEF Email!VerifyWrong, Email!Live, Email!Stored
  <2>3. /\ counted.sendCount = record.sendCount /\ counted.firstSentAt = record.firstSentAt
        /\ counted \in Email!StoredCodes
    <3> HIDE DEF record
    <3> QED
      BY <1>13, <2>2, CallsFinite DEF Email!StoredCodes, Email!Exhausted, Email!Stored, record
  <2>4. counted # None
    BY <2>3, EmailAssumption DEF Email!RecordAssumption
  <2> HIDE DEF counted
  <2>5. a # b => verificationCodes'[a] = cleaned
    BY <1>9, <2>1
  <2>6. a = b => verificationCodes'[a] = counted
    BY <1>9, <2>1
  <2>7. a # b => Untouched(a)
    BY <1>4, <2>1, <2>5
  <2>8. a = b => Untouched(a)
    BY <1>1, <2>1, <2>2, <2>3, <2>4, <2>6 DEF Untouched
  <2> QED
    BY <2>7, <2>8
<1>14. ASSUME NEW b \in Addresses, NEW c \in Email!Calls, Email!SendStored(c, b), a # b
       PROVE  Untouched(a)
  <2> DEFINE r == Email!NewRecord(b, c)
             s == Append(sent[b], [code |-> c, at |-> now])
  <2>1. /\ verificationCodes' = [Email!cleanExpired EXCEPT ![b] = r]
        /\ sent' = [sent EXCEPT ![b] = s] /\ now' = now /\ cleared' = cleared
    BY <1>14 DEF Email!SendStored
  <2> HIDE DEF r, s
  <2>2. verificationCodes'[a] = cleaned /\ sent'[a] = sent[a]
    BY <1>1, <1>14, <2>1, Cleaned
  <2> QED
    BY <1>1, <1>2, <2>1, <2>2 DEF Untouched
<1>15. CASE \E b \in Addresses :
               \/ Email!SendRefused(b) \/ Email!SendLimited(b) \/ Email!VerifyNothing(b)
               \/ Email!VerifyExhausted(b)
  BY <1>8, <1>11, <1>15
<1>16. CASE \E b \in Addresses : \E c \in Email!Calls :
               \/ Email!SendStored(c, b)
               \/ \E code \in Email!Typed : Email!VerifyWrong(c, b, code) \/ Email!VerifyRight(c, b, code)
  BY <1>13, <1>14, <1>12, <1>16
<1> QED
  BY <1>5, <1>6, <1>7, <1>15, <1>16 DEF Email!Next, Addresses

(* The send limit, for every address and for any number of sends, failures *)
(* and restarts (handleSend).                                              *)
THEOREM SendsAreSpaced == Spec => []SendsSpaced
<1>1. Init => SpaceInv
  <2> SUFFICES ASSUME Init, NEW a \in Addresses PROVE Spacing(a)
    BY DEF SpaceInv
  <2>1. verificationCodes[a] = None /\ sent[a] = <<>> /\ cleared[a] = 0
    BY DEF Init, Email!Init, Addresses
  <2>2. Len(sent[a]) = 0
    BY <2>1
  <2> QED
    BY <2>1, <2>2, CallsFinite DEF Spacing
<1>2. EmailInv /\ EmailInv' /\ SpaceInv /\ [Email!Next]_(Email!vars) => SpaceInv'
  <2> SUFFICES ASSUME EmailInv, EmailInv', SpaceInv, [Email!Next]_(Email!vars),
                      NEW a \in Addresses
               PROVE  Spacing(a)'
    BY DEF SpaceInv
  <2>1. Spacing(a)
    BY DEF SpaceInv
  <2>2. Untouched(a) => Spacing(a)'
    BY <2>1, SpacingStays DEF Untouched
  <2>3. Emptied(a) => Spacing(a)'
    BY SpacingCleared DEF Emptied
  <2> QED
    BY <2>1, <2>2, <2>3, StepOnAddress, SpacingSent
<1>3. SpaceInv => SendsSpaced
  BY DEF SpaceInv, Spacing, Gap, SendsSpaced, Email!SendsSpaced, Addresses
<1> QED
  BY <1>1, <1>2, <1>3, EmailInvariant, StepOnEmail, PTL DEF Spec
=============================================================================
