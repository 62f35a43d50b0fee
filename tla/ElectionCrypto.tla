--------------------------- MODULE ElectionCrypto ---------------------------
(***************************************************************************)
(* The key of an election and its shares: apps/sdk/src/shamir.ts,          *)
(* dealer.ts and ecies.ts, and their copies for the browser in             *)
(* apps/web-app/src/lib/threshold.ts and ecies.ts.                         *)
(*                                                                         *)
(* Abstractions: the field of the curve's order is a small prime field; a  *)
(* private key is named by its scalar or by the draw it comes from, and    *)
(* its public key by the same name; a hash is the term of its inputs; an   *)
(* ECIES envelope is the public key it is for with what it contains.       *)
(* Opening an envelope with another key fails, by the tag of its cipher.   *)
(*                                                                         *)
(* Definitions Slip_X are described in module SpectreVoting.               *)
(***************************************************************************)
EXTENDS Loops, SequencesExt

CONSTANT ORDER  \* the order of the field

ASSUME OrderAssumption ==
  /\ ORDER \in Nat /\ ORDER >= 3
  /\ \A a, b \in 2 .. ORDER - 1 : a * b # ORDER

Scalars == 0 .. ORDER - 1
ShareSet == [x : Scalars, y : Scalars]

-----------------------------------------------------------------------------
(* Arithmetic.  The remainder of a bigint has the sign of the dividend.    *)

Remainder(a, m) == IF a >= 0 THEN a % m ELSE -((-a) % m)

Slip_mod(a, m) == Remainder(a, m)
mod(a, m) == Remainder(Remainder(a, m) + m, m)

(* The coefficient of the dividend in the extended Euclidean algorithm, at *)
(* the two remainders and the two coefficients of a round.                 *)
Euclid[v \in Int \X Nat \X Int \X Int] ==
  LET q == v[1] \div v[2]
  IN IF v[2] = 0 THEN v[3] ELSE Euclid[<<v[2], v[1] - q * v[2], v[4], v[3] - q * v[4]>>]

modInverse(a, m) == mod(Euclid[<<a, m, 1, 0>>], m)

-----------------------------------------------------------------------------
(* Shamir's scheme.  The coefficients after the secret are random.         *)

Evaluate(coeffs, x) ==
  LET Add == [i \in DOMAIN coeffs |-> [acc \in [y : Int, xPow : Int] |->
               [y    |-> mod(acc.y + mod(coeffs[i] * acc.xPow, ORDER), ORDER),
                xPow |-> mod(acc.xPow * x, ORDER)]]]
  IN Loop(Add, [y |-> 0, xPow |-> 1], Len(coeffs)).y

Slip_Point(i) == i - 1
Point(i) == i

Splittable(n, t) == t \in 2..n
split(secret, random, n) ==
  [i \in 1..n |-> [x |-> Point(i), y |-> Evaluate(<<secret>> \o random, Point(i))]]

(* The factors of share i's basis polynomial at 0, over the other shares.  *)
Lagrange(shares, i) ==
  LET Factor == [j \in DOMAIN shares |-> [acc \in [num : Int, den : Int] |->
        IF i = j THEN acc
        ELSE [num |-> mod(acc.num * (0 - shares[j].x), ORDER),
              den |-> mod(acc.den * (shares[i].x - shares[j].x), ORDER)]]]
      basis == Loop(Factor, [num |-> 1, den |-> 1], Len(shares))
  IN mod(basis.num * modInverse(basis.den, ORDER), ORDER)

(* Fewer than two shares are refused; every caller has the threshold.     *)
combine(shares) ==
  LET Add == [i \in DOMAIN shares |-> [secret \in Int |->
        mod(secret + mod(shares[i].y * Lagrange(shares, i), ORDER), ORDER)]]
  IN Loop(Add, 0, Len(shares))

-----------------------------------------------------------------------------
(* Envelopes. *)
eciesEncrypt(publicKey, content) == [to |-> publicKey, content |-> content]
Opens(privateKey, envelope) == privateKey = envelope.to
eciesDecrypt(privateKey, envelope) == envelope.content

-----------------------------------------------------------------------------
(* setupElection: each member of the committee, a sequence of records of   *)
(* id and public key, gets the share at its place; the key itself is gone. *)

setupElection(committee, secret, random) ==
  LET shares == split(secret, random, Len(committee))
  IN [electionPubKey |-> secret,
      encryptedShares |->
        [i \in DOMAIN committee |->
           [memberId |-> committee[i].id, shareIndex |-> shares[i].x,
            encryptedData |-> eciesEncrypt(committee[i].publicKey, shares[i])]]]

decryptShare(privateKey, envelope) == eciesDecrypt(privateKey, envelope)

(* The first entry of a member, whose address is its id. *)
MyShare(encryptedShares, m) ==
  LET Mine(entry) == entry.memberId = m
  IN encryptedShares[SelectInSeq(encryptedShares, Mine)]
=============================================================================
