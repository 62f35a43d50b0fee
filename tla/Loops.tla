------------------------------- MODULE Loops --------------------------------
(***************************************************************************)
(* Loops over 1..n and over sequences.  FoldLeft and SelectSeq are defined *)
(* by recursive operators or on an operator as their argument; these two   *)
(* are recursive functions of first-order arguments, so that the proofs of *)
(* this project can unfold them.                                           *)
(***************************************************************************)
EXTENDS Integers, Sequences, Functions

(* A loop over 1..n: round i takes what it starts from to step[i] of it.   *)
Loop(step, base, n) ==
  LET acc[i \in 0..n] == IF i = 0 THEN base ELSE step[i][acc[i - 1]]
  IN acc[n]

(* The elements of s at the places in I, in the order of s.                *)
Subsequence(s, I) ==
  LET Take == [i \in DOMAIN s |-> [kept \in Seq(Range(s)) |->
                 IF i \in I THEN Append(kept, s[i]) ELSE kept]]
  IN Loop(Take, <<>>, Len(s))
=============================================================================
