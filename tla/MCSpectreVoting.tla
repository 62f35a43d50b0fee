-------------------------- MODULE MCSpectreVoting --------------------------
(* Small instances of the election contract for TLC. *)
EXTENDS SpectreVoting, TLC

CONSTANTS v1, v2, i1, i2, i3, b1, b2, admin, m1, m2, k1, k2

(* Nobody sets up a committee. *)
MCNoLists == {}

(* Lists a creator may type: proper ones, a single address, and one with an *)
(* address twice.                                                           *)
MCMemberLists == {<<m1, m2>>, <<m1, m1>>, <<m1>>, <<m2, m1, m1>>}

(* A tally of the right width and one of a wrong width. *)
MCTallies == {[optionCounts |-> <<1, 0>>], [optionCounts |-> <<1>>]}

(* Identities are told apart by EffectiveBallot, voters and ballots are not. *)
MCSymmetry == Permutations({v1, v2}) \cup Permutations({b1, b2})
=============================================================================
