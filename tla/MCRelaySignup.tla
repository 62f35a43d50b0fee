--------------------------- MODULE MCRelaySignup ---------------------------
(* Small instances of the relay's gated signup for TLC. *)
EXTENDS RelaySignup, TLC

CONSTANTS r1, r2, ip1, ip2, c1, c2, x1, v1, v2

MCAllGates == AllGates
MCFallback == Fallback

MCSymmetry == Permutations({r1, r2}) \cup Permutations({ip1, ip2})
                \cup Permutations({c1, c2})
                \cup Permutations({v1, v2})
=============================================================================
