---------------------------- MODULE SignupPage ----------------------------
(***************************************************************************)
(* Signing up on the election page: apps/web-app/src/app/election/         *)
(* [address]/page.tsx and components/election/SignupSection.tsx, together  *)
(* with the routes that verify an e-mail address or a GitHub account       *)
(* (modules EmailVerification and GithubVerification) and the relay        *)
(* (module RelaySignup, here no more than what it answers).                *)
(*                                                                         *)
(* Each tab is the browser of one voter.  A reload loses the state of the  *)
(* page, but not what the browser stores nor what the servers are doing.   *)
(*                                                                         *)
(* A page has one identity at a time, found in the browser's storage under *)
(* a scope: a wallet account or the anonymous session, and the spelling of *)
(* the election's address in the URL.  The scope changes on a living page  *)
(* when the voter connects a wallet or switches accounts, also while a     *)
(* status check or a signup is awaited (context/SpectreContext.tsx).       *)
(*                                                                         *)
(* Abstractions: one election; each scope has its identity already (one is *)
(* created or recovered only where there is none, SignupSection); an       *)
(* invite code, an allowlist identifier or a wallet is "listed" or         *)
(* "unlisted"; a click and the handling of its request are one step when   *)
(* the request waits for nothing before it takes effect, and the answer is *)
(* another one or is lost; an identity has at most one transaction         *)
(* pending.                                                                *)
(*                                                                         *)
(* Definitions Slip_X are described in module SpectreVoting.               *)
(***************************************************************************)
EXTENDS Integers, Sequences, FiniteSets

CONSTANTS
  Tabs,      \* voters, each with one page open
  Scopes,    \* storage scopes; <<tab, scope>> is an identity
  Gates,     \* gate types an election may be created with
  Wallets,   \* gate types whose voters have a wallet connected
  MaxWeight, \* highest weight the relay answers with
  Allowed, Foreign, MaxCalls, CodeTtl, SendWindow, MaxSends, MaxAttempts,
  Flows, Accounts, StateTtl, MaxChanges, MaxTime, MaxRestarts, None

Gasless == {"invite-codes", "allowlist", "email-domain", "github-org"}
ASSUME GatesAssumption == Gates \subseteq Gasless \cup {"token-gate", "open"}
ASSUME WeightAssumption == MaxWeight \in Nat \ {0} /\ None \notin Flows

VARIABLES
  gate, now,
  verificationCodes, metadataCached, restarts, call, inbox, sent, cleared,
  githubCached, membership, changes, flow, activeAt,
  gaslessEnabled,  \* metadata.gaslessEnabled, or implied by the gate
  signupOpen,      \* of the contract
  roll,            \* identities with a leaf, always of weight 1
  tx,              \* the signup transaction of every identity
  checked,         \* history: tabs whose credential the relay has checked
  page             \* the state of every tab

Email  == INSTANCE EmailVerification
Github == INSTANCE GithubVerification

ASSUME EmailAssumption ==
  /\ Email!AddressAssumption /\ Email!TimeAssumption
  /\ Email!WindowAssumption /\ Email!RecordAssumption
ASSUME GithubAssumption == Github!AccountAssumption /\ Github!BoundsAssumption

email  == <<verificationCodes, metadataCached, restarts, call, inbox, sent, cleared>>
github == <<githubCached, membership, changes, flow, activeAt>>
chain  == <<signupOpen, roll, tx, checked>>
fixed  == <<gate, gaslessEnabled>>
vars   == <<fixed, now, email, github, chain, page>>

Addresses == Email!Addresses
Weights == 1..MaxWeight
Stores == [Scopes -> Weights]
Checks == SUBSET (Scopes \X Weights)

Pages ==
  [known : BOOLEAN,                   \* the browser stores the metadata
   gasless : BOOLEAN,                 \* gaslessEnabled of the page
   typed : {None, "listed", "unlisted"},
   voterEmail : Addresses \cup {None},
   sending : Email!Calls \cup {None}, \* the send that is awaited
   emailCodeSent : BOOLEAN,
   verifying : Addresses \cup {None}, \* a token on its way to the page
   emailToken : Addresses \cup {None},
   away : Flows \cup {None},          \* at GitHub
   ghToken : Accounts \cup {None},
   scope : Scopes,                    \* whose identity the page has
   weights : Stores,                  \* the browser stores these
   voterWeight : Weights,
   applicant : Scopes \cup {None},    \* whose signup is awaited
   answer : Weights,                  \* the weight in the relay's answer
   checks : Checks,                   \* status checks under way
   overtaken : BOOLEAN,               \* history, see SwitchAccount
   signupStatus : {"checking", "signed-up", "not-signed-up"},  \* or unknown
   signup : {"idle", "relaying", "waiting", "verifying", "wallet", "refreshing"}]

(* A freshly loaded page, given what the browser stores. *)
Loaded(known, weights, s, token) ==
  [known |-> known, gasless |-> FALSE, typed |-> None, voterEmail |-> None,
   sending |-> None, emailCodeSent |-> FALSE, verifying |-> None, emailToken |-> None,
   away |-> None, ghToken |-> token, scope |-> s, weights |-> weights,
   voterWeight |-> weights[s], applicant |-> None, answer |-> 1, checks |-> {},
   overtaken |-> FALSE, signupStatus |-> "not-signed-up", signup |-> "idle"]

Init ==
  /\ Email!Init /\ Github!Init
  /\ gaslessEnabled \in BOOLEAN /\ (gate \in Gasless => gaslessEnabled)
  /\ signupOpen = TRUE /\ roll = {} /\ checked = {}
  /\ tx = [t \in Tabs |-> [s \in Scopes |-> "none"]]
  /\ \E first \in [Tabs -> Scopes] :
       page = [t \in Tabs |-> Loaded(FALSE, [s \in Scopes |-> 1], first[t], None)]

Becomes(t, p) == page' = [page EXCEPT ![t] = p]

-----------------------------------------------------------------------------
(* Loading the page. *)

(* fetchOnChainMetadata; when it fails the page goes on with what the      *)
(* browser stores.                                                         *)
LoadMetadata(t) ==
  /\ page[t].away = None
  /\ Becomes(t, [page[t] EXCEPT !.known = TRUE, !.gasless = gaslessEnabled])
  /\ UNCHANGED <<fixed, now, email, github, chain>>

(* The receipt of a signup that nobody waits for any more is forgotten. *)
Forgotten(t) ==
  tx' = [tx EXCEPT ![t] = [s \in Scopes |-> IF tx[t][s] = "pending" THEN "pending" ELSE "none"]]

(* The wallet may by then be on another account, or locked. *)
Reload(t) ==
  /\ page[t].away = None
  /\ \E s \in Scopes : Becomes(t, Loaded(page[t].known, page[t].weights, s, None))
  /\ Forgotten(t)
  /\ UNCHANGED <<fixed, now, email, github, signupOpen, roll, checked>>

(* The gate the page knows of: without metadata it shows the open form. *)
Gate(t) == IF page[t].known THEN gate ELSE "open"

-----------------------------------------------------------------------------
(* The status of the signup.  An effect starts a check whenever the        *)
(* identity, the state, the phase or the weight has changed; checks may    *)
(* overlap.                                                                *)

Slip_Checking(p) ==
  IF signupOpen THEN [p EXCEPT !.checks = @ \cup {<<p.scope, p.voterWeight>>}] ELSE p
Checking(p) ==
  IF signupOpen
  THEN [p EXCEPT !.signupStatus = "checking", !.checks = @ \cup {<<p.scope, p.voterWeight>>}]
  ELSE p

StartCheck(t) ==
  /\ page[t].away = None /\ signupOpen
  /\ Becomes(t, Checking(page[t]))
  /\ UNCHANGED <<fixed, now, email, github, chain>>

(* What is awaited, and will write the status for the identity that the    *)
(* page had when it began: for whichever, or for none but the present one. *)
WillWrite == {"relaying", "waiting", "verifying", "wallet"}
Awaiting(p) == p.checks # {} \/ p.signup \in WillWrite
Current(p) == /\ \A s \in Scopes, w \in Weights : <<s, w>> \in p.checks => s = p.scope
              /\ p.signup \in WillWrite => p.applicant = p.scope

(* The leaf looked for has the identity and the weight of the time when    *)
(* the check began; its answer is taken whatever the page shows by then,   *)
(* and a check that fails leaves the status unknown.                       *)
Leaf(t, s, w) == <<t, s>> \in roll /\ w = 1
Ended(p, s, w, found) ==
  [p EXCEPT !.checks = @ \ {<<s, w>>},
            !.signupStatus = IF found THEN "signed-up" ELSE "not-signed-up"]

EndCheck(t, s, w) ==
  /\ <<s, w>> \in page[t].checks
  /\ \E found \in {Leaf(t, s, w), FALSE} :
       LET p == Ended(page[t], s, w, found)
       IN Becomes(t, [p EXCEPT !.overtaken = @ /\ ~(s = p.scope /\ Current(p))])
  /\ UNCHANGED <<fixed, now, email, github, chain>>

(* accountsChanged, or the connection of a wallet: the identity and the    *)
(* weight of the new scope are loaded and its status is checked, but what  *)
(* is awaited for the old one goes on.  A page is overtaken when its       *)
(* account changed meanwhile, or after the signup, when no check follows,  *)
(* and until a check of its new identity is the last of these to end.      *)
SwitchAccount(t, s) ==
  /\ page[t].away = None /\ s # page[t].scope
  /\ Becomes(t, Checking([page[t] EXCEPT !.scope = s, !.voterWeight = page[t].weights[s],
                             !.overtaken = @ \/ Awaiting(page[t]) \/ ~signupOpen]))
  /\ UNCHANGED <<fixed, now, email, github, chain>>

(* The forms of SignupSection; a page that has not noticed the end of the  *)
(* phase is answered with a refusal and is left out.                       *)
FormShown(t) ==
  /\ page[t].away = None /\ signupOpen
  /\ page[t].signupStatus \notin {"checking", "signed-up"}
Form(t, g) == FormShown(t) /\ Gate(t) = g
Busy(t) == page[t].signup # "idle"

-----------------------------------------------------------------------------
(* Invite codes, allowlists and token balances.  The checks of the page    *)
(* run as effects, at once or, for a balance, when the chain has answered. *)

Type(t, what) ==
  /\ FormShown(t) /\ ~Busy(t)
  /\ Gate(t) \in {"invite-codes", "allowlist", "token-gate"}
  /\ Becomes(t, [page[t] EXCEPT !.typed = what])
  /\ UNCHANGED <<fixed, now, email, github, chain>>

-----------------------------------------------------------------------------
(* E-mail. *)

EmailForm(t) == Form(t, "email-domain") /\ page[t].emailToken = None

(* The input is closed once a code was sent, but not while one is sent. *)
Slip_AddressOpen(t) == EmailForm(t)
AddressOpen(t) == EmailForm(t) /\ ~page[t].emailCodeSent

TypeEmail(t, a) ==
  /\ AddressOpen(t) /\ ~Busy(t)
  /\ Becomes(t, [page[t] EXCEPT !.voterEmail = a])
  /\ UNCHANGED <<fixed, now, email, github, chain>>

CanSend(t) ==
  /\ EmailForm(t) /\ ~Busy(t)
  /\ ~page[t].emailCodeSent /\ page[t].sending = None
  /\ page[t].voterEmail \in Allowed       \* emailDomainMatch

SendCode(t, c) ==
  /\ CanSend(t)
  /\ \/ /\ Email!SendStored(c, page[t].voterEmail)
        /\ Becomes(t, [page[t] EXCEPT !.sending = c])
     \/ /\ \/ Email!SendRefused(page[t].voterEmail)
           \/ Email!SendLimited(page[t].voterEmail)
        /\ UNCHANGED page
  /\ UNCHANGED <<gaslessEnabled, github, chain>>

SendAnswerKnown(t) == call[page[t].sending].pc \in {"ok", "no"}
SendCodeAnswered(t) ==
  /\ page[t].sending # None /\ SendAnswerKnown(t)
  /\ \E heard \in BOOLEAN :
       Becomes(t, [page[t] EXCEPT !.sending = None,
                     !.emailCodeSent = heard /\ call[page[t].sending].pc = "ok"])
  /\ UNCHANGED <<fixed, now, email, github, chain>>

(* The address shown, which need not be the one a code was sent to, is     *)
(* verified with a code that arrived by mail or a wrong one.               *)
VerifyCode(t, c, code) ==
  LET a == page[t].voterEmail IN
  /\ EmailForm(t) /\ ~Busy(t) /\ page[t].emailCodeSent /\ page[t].verifying = None
  /\ \/ /\ Email!VerifyRight(c, a, code)
        /\ Becomes(t, [page[t] EXCEPT !.verifying = a])
     \/ /\ \/ Email!VerifyNothing(a) \/ Email!VerifyExhausted(a)
           \/ Email!VerifyWrong(c, a, code)
        /\ UNCHANGED page
  /\ UNCHANGED <<gaslessEnabled, github, chain>>

VerifyCodeAnswered(t) ==
  /\ page[t].verifying # None
  /\ \E heard \in BOOLEAN :
       Becomes(t, [page[t] EXCEPT !.verifying = None,
                                  !.emailToken = IF heard THEN page[t].verifying ELSE None])
  /\ UNCHANGED <<fixed, now, email, github, chain>>

MailService ==
  /\ \E c \in Email!Calls : Email!SendAnswered(c) \/ Email!SendFailed(c)
  /\ UNCHANGED <<gaslessEnabled, github, chain, page>>

EmailRestart ==
  /\ Email!Restart
  /\ UNCHANGED <<gaslessEnabled, github, chain, page>>

-----------------------------------------------------------------------------
(* GitHub: the page is left, and loaded again with the result in its URL.  *)

SignIn(t, f) ==
  /\ Form(t, "github-org") /\ ~Busy(t) /\ page[t].ghToken = None
  /\ Github!Start(f)
  /\ Becomes(t, [page[t] EXCEPT !.away = f])
  /\ UNCHANGED <<gaslessEnabled, email, chain>>

(* The redirect, or the user's way back from an error page or from GitHub. *)
(* The URL of the redirect spells the election's address in lower case     *)
(* only: if it was spelled otherwise the page looks under other keys, and  *)
(* finds neither the metadata nor the identity and weight it had stored.   *)
Return(t) ==
  /\ page[t].away # None
  /\ \E s \in Scopes, known \in {page[t].known, FALSE} :
       LET f == page[t].away IN
       Becomes(t, Loaded(known, page[t].weights, s,
                         IF Github!At(f, "token") THEN flow[f].account ELSE None))
  /\ UNCHANGED <<fixed, now, email, github, chain>>

GithubStep ==
  /\ \/ \E f \in Flows : \/ Github!Deny(f) \/ Github!Callback(f)
                         \/ \E u \in Accounts : Github!Grant(f, u)
     \/ \E u \in Accounts, m \in Github!Memberships : Github!SetMembership(u, m)
     \/ Github!Restart
  /\ gate = "github-org"
  /\ UNCHANGED <<gaslessEnabled, email, chain, page>>

-----------------------------------------------------------------------------
(* handleSignUp. *)

(* What the button and the handler demand before they call the relay. *)
MaySignUp(t) ==
  /\ FormShown(t) /\ ~Busy(t)
  /\ CASE Gate(t) = "email-domain" -> page[t].emailToken # None
       [] Gate(t) = "github-org"   -> page[t].ghToken # None
       [] Gate(t) = "open"         -> TRUE
       [] OTHER                    -> page[t].typed = "listed"
UsesRelay(t) == page[t].gasless \/ Gate(t) = "token-gate"

(* The relay's check of what the page sends with the request. *)
Vouched(t) ==
  CASE gate = "email-domain" -> page[t].emailToken # None /\ page[t].emailToken = page[t].voterEmail
    [] gate = "github-org"   -> page[t].ghToken # None
    [] gate = "open"         -> TRUE
    [] OTHER                 -> page[t].typed = "listed"

(* The relay broadcasts the signup if its check passes, or if it could not *)
(* read the metadata; only token gates are answered with a weight.         *)
AskRelay(t) ==
  /\ MaySignUp(t) /\ UsesRelay(t)
  /\ \E known \in BOOLEAN, w \in Weights :
       /\ known => Vouched(t)
       /\ w # 1 => known /\ gate = "token-gate"
       /\ tx' = [tx EXCEPT ![t][page[t].scope] = "pending"]
       /\ checked' = IF known THEN checked \cup {t} ELSE checked \ {t}
       /\ Becomes(t, [page[t] EXCEPT !.signup = "relaying", !.answer = w,
                                     !.applicant = page[t].scope])
  /\ UNCHANGED <<fixed, now, email, github, signupOpen, roll>>

(* Without the relay the voter's wallet, if there is one, calls the        *)
(* contract.                                                               *)
AskWallet(t) ==
  /\ MaySignUp(t) /\ ~UsesRelay(t) /\ gate \in Wallets
  /\ tx' = [tx EXCEPT ![t][page[t].scope] = "pending"]
  /\ checked' = checked \ {t}
  /\ Becomes(t, [page[t] EXCEPT !.signup = "wallet", !.applicant = page[t].scope])
  /\ UNCHANGED <<fixed, now, email, github, signupOpen, roll>>

(* The contract takes any signup while the phase is open. *)
Mine(t, s) ==
  /\ tx[t][s] = "pending"
  /\ tx' = [tx EXCEPT ![t][s] = IF page[t].applicant # s THEN "none"
                                ELSE IF signupOpen THEN "mined" ELSE "reverted"]
  /\ roll' = IF signupOpen THEN roll \cup {<<t, s>>} ELSE roll
  /\ UNCHANGED <<fixed, now, email, github, signupOpen, checked, page>>

CloseSignup ==
  /\ signupOpen /\ signupOpen' = FALSE
  /\ UNCHANGED <<fixed, now, email, github, roll, tx, checked, page>>

RelayAnswers(t) ==
  /\ page[t].signup = "relaying"
  /\ Becomes(t, [page[t] EXCEPT !.signup = "waiting"])
  /\ UNCHANGED <<fixed, now, email, github, chain>>

(* waitForRelayTx; then the weight takes effect on the page, and is stored *)
(* for the identity that has signed up.                                    *)
Confirmed(t) == tx[t][page[t].applicant] = "mined"
Weighed(p, w) == [p EXCEPT !.voterWeight = w, !.weights[p.applicant] = w]
Wait(t) ==
  /\ page[t].signup = "waiting" /\ Confirmed(t)
  /\ Becomes(t, [Weighed(page[t], page[t].answer) EXCEPT !.signup = "verifying"])
  /\ UNCHANGED <<fixed, now, email, github, chain>>

(* verifySignupOnChain only warns; the status is set whatever identity the *)
(* page has by now.                                                        *)
SignedUp(t) ==
  LET p == IF page[t].signup = "wallet" THEN Weighed(page[t], 1) ELSE page[t] IN
  /\ \/ page[t].signup = "verifying"
     \/ page[t].signup = "wallet" /\ Confirmed(t)
  /\ Becomes(t, [p EXCEPT !.signup = "refreshing", !.signupStatus = "signed-up",
                          !.answer = 1])
  /\ UNCHANGED <<fixed, now, email, github, chain>>

Finish(t) ==
  /\ Becomes(t, [page[t] EXCEPT !.signup = "idle", !.answer = 1, !.applicant = None])
  /\ Forgotten(t)
  /\ UNCHANGED <<fixed, now, email, github, signupOpen, roll, checked>>

Refresh(t) == page[t].signup = "refreshing" /\ Finish(t)

(* A lost answer, a reverted transaction, a failed poll, or two minutes    *)
(* without a receipt; in a wallet, a rejection.                            *)
Fail(t) == page[t].signup \in {"relaying", "waiting", "wallet"} /\ Finish(t)

-----------------------------------------------------------------------------
Tick ==
  /\ Email!Tick /\ Github!Tick
  /\ UNCHANGED <<gaslessEnabled, chain, page>>

TabStep(t) ==
  \/ LoadMetadata(t) \/ Reload(t)
  \/ StartCheck(t)
  \/ \E s \in Scopes : \/ SwitchAccount(t, s)
                        \/ \E w \in Weights : EndCheck(t, s, w)
  \/ \E what \in {"listed", "unlisted"} : Type(t, what)
  \/ \E a \in Addresses : TypeEmail(t, a)
  \/ \E c \in Email!Calls : \/ SendCode(t, c)
                            \/ \E code \in Email!Typed : VerifyCode(t, c, code)
  \/ SendCodeAnswered(t) \/ VerifyCodeAnswered(t)
  \/ Return(t) \/ \E f \in Flows : SignIn(t, f)
  \/ AskRelay(t) \/ AskWallet(t) \/ RelayAnswers(t) \/ Wait(t) \/ SignedUp(t)
  \/ Refresh(t) \/ Fail(t)

Next ==
  \/ \E t \in Tabs : TabStep(t) \/ \E s \in Scopes : Mine(t, s)
  \/ MailService \/ EmailRestart \/ GithubStep \/ CloseSignup \/ Tick

(* The page's handlers go on when they can, and the mail service answers   *)
(* or throws; no voter, member or miner has to do anything.                *)
Fairness ==
  /\ \A t \in Tabs :
       /\ WF_vars(SendCodeAnswered(t))
       /\ WF_vars(RelayAnswers(t) \/ Wait(t) \/ SignedUp(t) \/ Refresh(t) \/ Fail(t))
  /\ WF_vars(MailService)

Spec == Init /\ [][Next]_vars /\ Fairness

-----------------------------------------------------------------------------
(* Properties. *)

TypeOK ==
  /\ Email!TypeOK /\ Github!TypeOK
  /\ gaslessEnabled \in BOOLEAN /\ signupOpen \in BOOLEAN
  /\ roll \subseteq Tabs \X Scopes /\ checked \subseteq Tabs
  /\ tx \in [Tabs -> [Scopes -> {"none", "pending", "mined", "reverted"}]]
  /\ page \in [Tabs -> Pages]

(* What the routes promise, whatever the page does (stated and explained   *)
(* in their modules).                                                      *)
TokenForNewestCode == Email!TokenForNewestCode
AttemptsBounded    == Email!AttemptsBounded
SendsSpaced        == Email!SendsSpaced
ValidCodeKept      == Email!ValidCodeKept
TokenForMember     == Github!TokenForMember

(* A page that says "signed up" is right for the identity it has now: its  *)
(* leaf is on the roll, though status checks overlap with the handler,     *)
(* with each other, with changes of account and with transactions that     *)
(* revert.  The one exception is a page overtaken by a change of account:  *)
(* the answer awaited for the old identity is shown for the new one, until *)
(* a later check corrects it (handleSignUp, checkSignup, the identity      *)
(* effect).                                                                *)
SignedUpHasLeaf ==
  \A t \in Tabs : /\ page[t].signupStatus = "signed-up"
                  /\ ~page[t].overtaken
                  => <<t, page[t].scope>> \in roll

(* The e-mail token a page holds belongs to the address it shows and sends *)
(* along, although the address can be edited while a code is being sent    *)
(* (handleEmailSendCode, handleEmailVerifyCode, SignupSection).            *)
TokenMatchesAddress ==
  \A t \in Tabs : page[t].emailToken \in {None, page[t].voterEmail}

(* A signup that the relay took after reading the election's metadata was  *)
(* vouched for: in an e-mail election by a code that was mailed to an      *)
(* allowed address and accepted for it, in a GitHub election by a flow     *)
(* that ended with a token.                                                *)
SignupVouchedFor ==
  \A t \in checked :
    /\ gate = "email-domain" => \E c \in Email!Calls :
         /\ Email!Accepted(c) /\ call[c].email \in Allowed
         /\ call[c].code \in inbox /\ call[call[c].code].email = call[c].email
    /\ gate = "github-org" => \E f \in Flows : Github!At(f, "token")

=============================================================================
