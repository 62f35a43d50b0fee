--------------------------- MODULE MCSignupPage ---------------------------
(* Model-checking instance of the signup page and its verification routes. *)
EXTENDS SignupPage, TLC

CONSTANTS voter, listed, alien, member, f1

MCTabs == {voter}
MCScopes == {"anonymous", "wallet"}
MCGates == {"invite-codes", "token-gate", "email-domain", "github-org", "open"}
MCWallets == {"invite-codes", "token-gate", "open"}
MCAllowed == {listed}
MCForeign == {alien}
MCFlows == {f1}
MCAccounts == {member}

(* Memberships only matter where the election has a GitHub gate; what the  *)
(* account is does not matter to the e-mail route.                         *)
MCInit ==
  /\ Init
  /\ gate # "github-org" => \A u \in Accounts : membership[u] = "none"
  /\ gate = "email-domain" => \A t \in Tabs : page[t].scope = "wallet"

(* What the account is changes at any time, but where the weights or the   *)
(* GitHub route make the instance large a wallet is only connected, in the *)
(* latter while the page is away.  The clock and the server only matter to *)
(* the routes.                                                             *)
MayLeave(p) == \/ gate \in {"invite-codes", "open"}
               \/ gate = "token-gate" /\ p.scope = "anonymous"
               \/ gate = "github-org" /\ p.scope = "anonymous" /\ p.away # None
MCNext ==
  /\ Next
  /\ \A t \in Tabs : page'[t].scope = page[t].scope \/ MayLeave(page[t])
  /\ gate \in {"email-domain", "github-org"} \/ UNCHANGED <<now, restarts>>
MCSpec == MCInit /\ [][MCNext]_vars /\ Fairness
=============================================================================
