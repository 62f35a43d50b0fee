------------------------ MODULE GithubVerification ------------------------
(***************************************************************************)
(* GitHub verification, apps/web-app/src/app/api/auth/github/route.ts and  *)
(* callback/route.ts.                                                      *)
(*                                                                         *)
(* A flow goes from the election page to GitHub with a signed state, comes *)
(* back to the callback with GitHub's code, and ends on the election page  *)
(* with a token or an error in the URL.  Between the awaits of the         *)
(* callback time passes and memberships change.                            *)
(*                                                                         *)
(* Abstractions: one election; its address in the state and the state's    *)
(* signature are left out (no one else can make one), so a state is the    *)
(* time at which the flow started; a token, an HMAC of the account and the *)
(* election, is the account; the metadata cache is that of module          *)
(* EmailVerification, for this route.  GitHub is external: it hands out    *)
(* codes, exchanges them, and answers for memberships.                     *)
(*                                                                         *)
(* Definitions Slip_X are described in module SpectreVoting.               *)
(***************************************************************************)
EXTENDS Integers

CONSTANTS
  Gates,       \* gate types an election may be created with
  Flows,       \* sign-ins with GitHub
  Accounts,    \* GitHub accounts
  StateTtl,    \* how long the signed state is accepted
  MaxTime,     \* bound on the clock
  MaxChanges,  \* bound on the changes of memberships
  None         \* no account, no time

(* What is assumed of the constants. *)
AccountAssumption == None \notin Accounts
BoundsAssumption == {StateTtl, MaxTime, MaxChanges} \subseteq Nat

VARIABLES
  gate,            \* metadata.gateType of the election
  now,             \* the clock
  githubCached,    \* metadataCache of the callback holds the election
  membership,      \* of the accounts in the organisation of the metadata
  changes,         \* how often a membership has changed
  flow,            \* the state of every flow
  activeAt         \* history: the times at which an account was an active member

vars == <<gate, now, githubCached, membership, changes, flow, activeAt>>

Memberships == {"none", "pending", "active"}
Times == 0..MaxTime
FlowStates ==
  [pc : {"idle", "asking", "callback", "exchanging", "profile", "metadata",
         "member", "token", "error", "stopped"},
   started : Times \cup {None},
   back : Times \cup {None},       \* history: when the callback was called
   account : Accounts \cup {None}]

Init ==
  /\ gate \in Gates
  /\ now = 0 /\ githubCached = FALSE /\ changes = 0
  /\ membership \in [Accounts -> Memberships]
  /\ flow = [f \in Flows |-> [pc |-> "idle", started |-> None, back |-> None,
                            account |-> None]]
  /\ activeAt = [u \in Accounts |-> IF membership[u] = "active" THEN {0} ELSE {}]

At(f, label) == flow[f].pc = label
Goto(f, label) == flow' = [flow EXCEPT ![f].pc = label]
Outside == <<gate, now, membership, changes, activeAt>>

-----------------------------------------------------------------------------
(* The start of the flow: the state is signed with the time. *)

Start(f) ==
  /\ At(f, "idle")
  /\ flow' = [flow EXCEPT ![f].pc = "asking", ![f].started = now]
  /\ UNCHANGED <<Outside, githubCached>>

(* GitHub asks the user, whoever is signed in there. *)
Grant(f, u) ==
  /\ At(f, "asking")
  /\ flow' = [flow EXCEPT ![f].pc = "callback", ![f].account = u]
  /\ UNCHANGED <<Outside, githubCached>>

(* A refusal is answered with an error page, not with a redirect. *)
Deny(f) ==
  /\ At(f, "asking") /\ Goto(f, "stopped")
  /\ UNCHANGED <<Outside, githubCached>>

-----------------------------------------------------------------------------
(* The callback. *)

Fresh(f) == now - flow[f].started <= StateTtl

CheckState(f) ==
  /\ At(f, "callback")
  /\ flow' = [flow EXCEPT ![f].pc = IF Fresh(f) THEN "exchanging" ELSE "error",
                          ![f].back = now]
  /\ UNCHANGED <<Outside, githubCached>>

Exchange(f) ==
  /\ At(f, "exchanging") /\ Goto(f, "profile")
  /\ UNCHANGED <<Outside, githubCached>>

FetchProfile(f) ==
  /\ At(f, "profile") /\ Goto(f, "metadata")
  /\ UNCHANGED <<Outside, githubCached>>

MetadataRead == IF githubCached THEN {gate} ELSE {gate, None}

ReadMetadata(f) ==
  /\ At(f, "metadata")
  /\ \E meta \in MetadataRead :
       /\ Goto(f, IF meta = "github-org" THEN "member" ELSE "error")
       /\ githubCached' = (githubCached \/ meta # None)
  /\ UNCHANGED Outside

(* Only an active membership is accepted; a pending one is an error. *)
Slip_IsMember(f) == membership[flow[f].account] # "none"
IsMember(f) == membership[flow[f].account] = "active"

CheckMembership(f) ==
  /\ At(f, "member")
  /\ Goto(f, IF IsMember(f) THEN "token" ELSE "error")
  /\ UNCHANGED <<Outside, githubCached>>

(* redirectWithError, when a call to GitHub fails, or the code was used    *)
(* before.                                                                 *)
GithubFails(f) ==
  /\ \E label \in {"exchanging", "profile", "member"} : At(f, label)
  /\ Goto(f, "error")
  /\ UNCHANGED <<Outside, githubCached>>

Callback(f) ==
  \/ CheckState(f) \/ Exchange(f) \/ FetchProfile(f) \/ ReadMetadata(f)
  \/ CheckMembership(f) \/ GithubFails(f)

-----------------------------------------------------------------------------
(* The environment of the routes. *)

SetMembership(u, m) ==
  /\ changes < MaxChanges /\ membership[u] # m
  /\ changes' = changes + 1
  /\ membership' = [membership EXCEPT ![u] = m]
  /\ activeAt' = [activeAt EXCEPT ![u] = IF m = "active" THEN @ \cup {now} ELSE @]
  /\ UNCHANGED <<gate, now, githubCached, flow>>

Tick ==
  /\ now < MaxTime
  /\ now' = now + 1
  /\ activeAt' = [u \in Accounts |->
                    IF membership[u] = "active" THEN activeAt[u] \cup {now'} ELSE activeAt[u]]
  /\ UNCHANGED <<gate, githubCached, membership, changes, flow>>

(* A cold start forgets the metadata, and the callbacks being served. *)
Restart ==
  /\ githubCached' = FALSE
  /\ flow' = [f \in Flows |->
                IF flow[f].pc \in {"exchanging", "profile", "metadata", "member"}
                THEN [flow[f] EXCEPT !.pc = "stopped"] ELSE flow[f]]
  /\ UNCHANGED Outside

Next ==
  \/ \E f \in Flows : \/ Start(f) \/ Deny(f) \/ Callback(f)
                      \/ \E u \in Accounts : Grant(f, u)
  \/ \E u \in Accounts, m \in Memberships : SetMembership(u, m)
  \/ Tick \/ Restart

Spec == Init /\ [][Next]_vars

-----------------------------------------------------------------------------
(* Properties. *)

TypeOK ==
  /\ gate \in Gates
  /\ now \in Times /\ githubCached \in BOOLEAN /\ changes \in 0..MaxChanges
  /\ membership \in [Accounts -> Memberships]
  /\ flow \in [Flows -> FlowStates]
  /\ activeAt \in [Accounts -> SUBSET Times]

(* A token names an account that was an active member of the organisation  *)
(* at some time after the user had come back from GitHub, and the user     *)
(* came back within StateTtl of the start: neither a membership that had   *)
(* ended by then nor an older state is enough, however long the calls of   *)
(* the callback take (callback/route.ts).                                  *)
TokenForMember ==
  \A f \in Flows : At(f, "token") =>
     /\ flow[f].back - flow[f].started \in 0..StateTtl
     /\ \E t \in activeAt[flow[f].account] : t >= flow[f].back
=============================================================================
