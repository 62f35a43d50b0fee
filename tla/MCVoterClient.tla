--------------------------- MODULE MCVoterClient ---------------------------
(* Small instances of the voter's page for TLC. *)
EXTENDS VoterClient, TLC

CONSTANTS t1, t2, i1, i2, c1, c2

MCSymmetry == Permutations({t1, t2}) \cup Permutations({i1, i2}) \cup Permutations({c1, c2})
=============================================================================
