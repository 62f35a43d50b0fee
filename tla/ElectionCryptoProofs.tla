------------------------ MODULE ElectionCryptoProofs ------------------------
(***************************************************************************)
(* The secret sharing of module ElectionCrypto, for every prime order of   *)
(* the field, every size of a committee and every threshold: enough shares *)
(* give the secret back, and fewer say nothing about it.                   *)
(*                                                                         *)
(* The argument: modInverse is right (the extended Euclidean algorithm, by *)
(* induction over its second remainder); the factors that combine computes *)
(* are the Lagrange weights at 0 of the points of the shares; a function   *)
(* that is built like a polynomial of k coefficients, up to congruence, is *)
(* given by any k of its points with these weights, as each point splits a *)
(* factor off it; and through any k points there is one. Polynomials are   *)
(* sets of functions (Poly), closed under sums, multiples and factors, so  *)
(* that no proof handles coefficients but those that tie Poly to evaluate. *)
(***************************************************************************)
EXTENDS ElectionCrypto, DataLemmas, FiniteSetTheorems

(* Congruence modulo the order of the field. *)
Cong(a, b) == \E k \in Int : a - b = k * ORDER

(* The order is a number to divide by. *)
LEMMA OrderPositive == ORDER \in Nat /\ ORDER >= 3
  BY OrderAssumption

(* Congruence is an equivalence that sums and products respect.            *)
LEMMA CongRefl == \A a \in Int : Cong(a, a)
<1> SUFFICES ASSUME NEW a \in Int PROVE Cong(a, a)
  OBVIOUS
<1>1. a - a = 0 * ORDER
  BY OrderPositive
<1> QED
  BY <1>1 DEF Cong

LEMMA CongSym == \A a, b \in Int : Cong(a, b) => Cong(b, a)
<1> SUFFICES ASSUME NEW a \in Int, NEW b \in Int, Cong(a, b) PROVE Cong(b, a)
  OBVIOUS
<1>1. PICK k \in Int : a - b = k * ORDER
  BY DEF Cong
<1>2. b - a = (-k) * ORDER
  BY <1>1, OrderPositive
<1> QED
  BY <1>2 DEF Cong

LEMMA CongTrans == \A a, b, c \in Int : Cong(a, b) /\ Cong(b, c) => Cong(a, c)
<1> SUFFICES ASSUME NEW a \in Int, NEW b \in Int, NEW c \in Int, Cong(a, b), Cong(b, c)
             PROVE  Cong(a, c)
  OBVIOUS
<1>1. PICK k \in Int : a - b = k * ORDER
  BY DEF Cong
<1>2. PICK l \in Int : b - c = l * ORDER
  BY DEF Cong
<1>3. a - c = (k + l) * ORDER
  BY <1>1, <1>2, OrderPositive
<1> QED
  BY <1>3 DEF Cong

LEMMA CongAdd ==
  \A a, b, c, d \in Int : Cong(a, b) /\ Cong(c, d) => Cong(a + c, b + d)
<1> SUFFICES ASSUME NEW a \in Int, NEW b \in Int, NEW c \in Int, NEW d \in Int,
                    Cong(a, b), Cong(c, d)
             PROVE  Cong(a + c, b + d)
  OBVIOUS
<1>1. PICK k \in Int : a - b = k * ORDER
  BY DEF Cong
<1>2. PICK l \in Int : c - d = l * ORDER
  BY DEF Cong
<1>3. (a + c) - (b + d) = (k + l) * ORDER
  BY <1>1, <1>2, OrderPositive
<1> QED
  BY <1>3 DEF Cong

LEMMA CongMul ==
  \A a, b, c, d \in Int : Cong(a, b) /\ Cong(c, d) => Cong(a * c, b * d)
<1> SUFFICES ASSUME NEW a \in Int, NEW b \in Int, NEW c \in Int, NEW d \in Int,
                    Cong(a, b), Cong(c, d)
             PROVE  Cong(a * c, b * d)
  OBVIOUS
<1>1. PICK k \in Int : a - b = k * ORDER
  BY DEF Cong
<1>2. PICK l \in Int : c - d = l * ORDER
  BY DEF Cong
<1>3. a * c - b * d = (k * c + b * l) * ORDER
  <2>1. a * c - b * d = (a - b) * c + b * (c - d)
    OBVIOUS
  <2>2. a * c - b * d = (k * ORDER) * c + b * (l * ORDER)
    BY <2>1, <1>1, <1>2
  <2> QED
    BY <2>2, OrderPositive
<1> QED
  BY <1>3 DEF Cong

(* Moving a difference to one side. *)
LEMMA CongDiff == \A a, b \in Int : Cong(a, b) <=> Cong(a - b, 0)
  BY DEF Cong

(* Division with remainder, and what the remainder of the code is.         *)
LEMMA DivMod ==
  ASSUME NEW a \in Int, NEW n \in Nat, n > 0
  PROVE  /\ a % n \in 0 .. n - 1 /\ a \div n \in Int
         /\ a = n * (a \div n) + (a % n)
  OBVIOUS

LEMMA RemainderCong ==
  ASSUME NEW a \in Int
  PROVE  /\ Remainder(a, ORDER) \in Int /\ Cong(Remainder(a, ORDER), a)
         /\ -ORDER < Remainder(a, ORDER) /\ Remainder(a, ORDER) < ORDER
<1>1. CASE a >= 0
  <2>1. /\ a % ORDER \in 0 .. ORDER - 1 /\ a \div ORDER \in Int
        /\ a = ORDER * (a \div ORDER) + (a % ORDER)
    BY OrderPositive, DivMod
  <2>2. (a % ORDER) - a = (-(a \div ORDER)) * ORDER
    BY <2>1, OrderPositive
  <2>3. Remainder(a, ORDER) = a % ORDER
    BY <1>1 DEF Remainder
  <2>4. Cong(a % ORDER, a)
    BY <2>1, <2>2 DEF Cong
  <2> QED
    BY <2>1, <2>3, <2>4, OrderPositive
<1>2. CASE a < 0
  <2>1. /\ (-a) % ORDER \in 0 .. ORDER - 1 /\ (-a) \div ORDER \in Int
        /\ -a = ORDER * ((-a) \div ORDER) + ((-a) % ORDER)
    BY OrderPositive, DivMod
  <2>2. -((-a) % ORDER) - a = ((-a) \div ORDER) * ORDER
    BY <2>1, OrderPositive
  <2>3. Remainder(a, ORDER) = -((-a) % ORDER)
    BY <1>2 DEF Remainder
  <2>4. Cong(-((-a) % ORDER), a)
    BY <2>1, <2>2 DEF Cong
  <2> QED
    BY <2>1, <2>3, <2>4, OrderPositive
<1> QED
  BY <1>1, <1>2

(* Adding the order changes nothing. *)
LEMMA CongOrder == ASSUME NEW a \in Int PROVE Cong(a + ORDER, a)
<1>1. (a + ORDER) - a = 1 * ORDER
  BY OrderPositive
<1> QED
  BY <1>1 DEF Cong

(* The remainder of the code is the member of its class among the scalars. *)
LEMMA ModCong ==
  \A a \in Int : mod(a, ORDER) \in Scalars /\ Cong(mod(a, ORDER), a)
<1> SUFFICES ASSUME NEW a \in Int
             PROVE  mod(a, ORDER) \in Scalars /\ Cong(mod(a, ORDER), a)
  OBVIOUS
<1> DEFINE r == Remainder(a, ORDER) + ORDER
<1>1. r \in Int /\ r > 0 /\ Cong(r, a)
  <2>1. Remainder(a, ORDER) \in Int /\ r > 0 /\ Cong(Remainder(a, ORDER), a)
    BY RemainderCong, OrderPositive
  <2>2. Cong(r, Remainder(a, ORDER))
    BY <2>1, CongOrder
  <2> QED
    BY <2>1, <2>2, CongTrans, OrderPositive
<1>2. mod(a, ORDER) = Remainder(r, ORDER)
  BY DEF mod
<1> HIDE DEF r
<1>3. Remainder(r, ORDER) \in 0 .. ORDER - 1
  BY <1>1, OrderPositive, DivMod DEF Remainder
<1>4. Cong(Remainder(r, ORDER), a)
  BY <1>1, <1>3, RemainderCong, CongTrans
<1> QED
  BY <1>2, <1>3, <1>4 DEF Scalars

(* Congruent scalars are equal. *)
LEMMA ScalarEqual == \A a, b \in Scalars : Cong(a, b) => a = b
<1> SUFFICES ASSUME NEW a \in Scalars, NEW b \in Scalars, Cong(a, b) PROVE a = b
  OBVIOUS
<1>1. PICK k \in Int : a - b = k * ORDER
  BY DEF Cong
<1>2. a \in Int /\ b \in Int /\ -ORDER < a - b /\ a - b < ORDER
  BY OrderPositive DEF Scalars
<1> DEFINE t == k * ORDER
<1>3. t \in Int /\ a - b = t
  BY <1>1, OrderPositive
<1>4. k >= 1 => t >= ORDER
  BY OrderPositive
<1>5. k <= -1 => t <= -ORDER
  BY OrderPositive
<1>6. k = 0 => t = 0
  BY OrderPositive
<1> HIDE DEF t
<1> QED
  BY <1>2, <1>3, <1>4, <1>5, <1>6, OrderPositive
-----------------------------------------------------------------------------
(* The extended Euclidean algorithm. *)

Rounds == Int \X Nat \X Int \X Int
Quotient(v) == v[1] \div v[2]
Round(v) == <<v[2], v[1] - Quotient(v) * v[2], v[4], v[3] - Quotient(v) * v[4]>>
EuclidBody(g, T) == [v \in T |-> IF v[2] = 0 THEN v[3] ELSE g[Round(v)]]
Below(k) == {v \in Rounds : v[2] <= k}

(* A round of the algorithm makes the second remainder smaller.            *)
LEMMA RoundType ==
  ASSUME NEW v \in Rounds, v[2] # 0
  PROVE  Round(v) \in Rounds /\ Round(v)[2] < v[2]
<1>1. v[1] \in Int /\ v[2] \in Nat /\ v[2] > 0 /\ v[3] \in Int /\ v[4] \in Int
  BY DEF Rounds
<1>2. /\ Quotient(v) \in Int /\ v[1] % v[2] \in 0 .. v[2] - 1
      /\ v[1] = v[2] * Quotient(v) + (v[1] % v[2])
  BY <1>1, DivMod DEF Quotient
<1>3. v[1] - Quotient(v) * v[2] = v[1] % v[2]
  BY <1>1, <1>2
<1>4. v[1] - Quotient(v) * v[2] \in 0 .. v[2] - 1
  BY <1>2, <1>3
<1>5. v[3] - Quotient(v) * v[4] \in Int
  BY <1>1, <1>2
<1> QED
  BY <1>1, <1>4, <1>5 DEF Round, Rounds

(* Two solutions agree where both are defined. *)
LEMMA EuclidUnique ==
  ASSUME NEW k \in Nat, NEW l \in Nat, NEW g, NEW h,
         g = EuclidBody(g, Below(k)), h = EuclidBody(h, Below(l))
  PROVE  \A v \in Below(k) \cap Below(l) : g[v] = h[v]
<1> DEFINE S == {m \in Nat : \A v \in Below(k) \cap Below(l) : v[2] <= m => g[v] = h[v]}
<1>1. \A v \in Below(k) \cap Below(l) :
        /\ v \in Rounds /\ v[2] \in Nat /\ v[2] <= k /\ v[2] <= l
        /\ g[v] = IF v[2] = 0 THEN v[3] ELSE g[Round(v)]
        /\ h[v] = IF v[2] = 0 THEN v[3] ELSE h[Round(v)]
  BY DEF EuclidBody, Below, Rounds
<1>2. 0 \in S
  BY <1>1
<1>3. ASSUME NEW m \in S
      PROVE  m + 1 \in S
  <2> SUFFICES ASSUME NEW v \in Below(k) \cap Below(l), v[2] <= m + 1, v[2] # 0
               PROVE  g[v] = h[v]
    BY <1>1, <1>3
  <2>1. Round(v) \in Rounds /\ Round(v)[2] < v[2] /\ Round(v)[2] \in Nat
    BY <1>1, RoundType DEF Rounds
  <2>2. Round(v) \in Below(k) \cap Below(l) /\ Round(v)[2] <= m
    BY <1>1, <1>3, <2>1 DEF Below
  <2>3. g[Round(v)] = h[Round(v)]
    BY <1>3, <2>2
  <2> QED
    BY <1>1, <2>3
<1>4. S = Nat
  <2> HIDE DEF S
  <2> S \in SUBSET Nat
    BY DEF S
  <2> QED
    BY <1>2, <1>3, Induction
<1> QED
  BY <1>1, <1>4

(* There is one below every bound on the second remainder, and hence for   *)
(* all of them.                                                            *)
LEMMA EuclidExistsBelow ==
  ASSUME NEW n \in Nat
  PROVE  \E g : g = EuclidBody(g, Below(n))
<1> DEFINE Solved(k) == \E g : g = EuclidBody(g, Below(k))
           S == {k \in Nat : Solved(k)}
<1>1. 0 \in S
  <2> DEFINE g == [v \in Below(0) |-> v[3]]
  <2>1. \A v \in Below(0) : v[2] = 0
    BY DEF Below, Rounds
  <2>2. g = EuclidBody(g, Below(0))
    BY <2>1 DEF EuclidBody
  <2>3. Solved(0)
    BY <2>2
  <2> QED
    BY <2>3
<1>2. ASSUME NEW k \in S
      PROVE  k + 1 \in S
  <2>1. PICK g : g = EuclidBody(g, Below(k))
    BY <1>2
  <2> DEFINE h == [v \in Below(k + 1) |-> IF v \in Below(k) THEN g[v] ELSE g[Round(v)]]
  <2>2. \A v \in Below(k) : g[v] = IF v[2] = 0 THEN v[3] ELSE g[Round(v)]
    BY <2>1 DEF EuclidBody
  <2>3. ASSUME NEW v \in Below(k + 1)
        PROVE  h[v] = IF v[2] = 0 THEN v[3] ELSE h[Round(v)]
    <3>1. v \in Rounds /\ v[2] \in Nat /\ v[2] <= k + 1
      BY DEF Below, Rounds
    <3>2. CASE v[2] = 0
      BY <2>2, <3>1, <3>2 DEF Below
    <3>3. CASE v[2] # 0
      <4>1. Round(v) \in Rounds /\ Round(v)[2] < v[2] /\ Round(v)[2] \in Nat
        BY <3>1, <3>3, RoundType DEF Rounds
      <4>2. Round(v) \in Below(k) /\ Round(v) \in Below(k + 1)
        BY <3>1, <4>1 DEF Below
      <4>3. h[Round(v)] = g[Round(v)]
        BY <4>2
      <4>4. h[v] = g[Round(v)]
        BY <2>2, <3>3
      <4> QED
        BY <3>3, <4>3, <4>4
    <3> QED
      BY <3>2, <3>3
  <2>4. h = EuclidBody(h, Below(k + 1))
    <3>1. EuclidBody(h, Below(k + 1)) =
            [v \in Below(k + 1) |-> IF v[2] = 0 THEN v[3] ELSE h[Round(v)]]
      BY DEF EuclidBody
    <3>2. h = [v \in Below(k + 1) |-> h[v]]
      OBVIOUS
    <3> HIDE DEF h
    <3> QED
      BY <2>3, <3>1, <3>2
  <2>5. Solved(k + 1)
    BY <2>4
  <2> QED
    BY <2>5
<1>3. S = Nat
  <2> HIDE DEF S
  <2> S \in SUBSET Nat
    BY DEF S
  <2> QED
    BY <1>1, <1>2, Induction
<1> QED
  BY <1>3

(* The algorithm, round by round. *)
LEMMA EuclidUnrolls ==
  \A v \in Rounds : Euclid[v] = IF v[2] = 0 THEN v[3] ELSE Euclid[Round(v)]
<1> DEFINE G(k) == CHOOSE g : g = EuclidBody(g, Below(k))
           E == [v \in Rounds |-> G(v[2])[v]]
<1>1. \A k \in Nat : G(k) = EuclidBody(G(k), Below(k))
  BY EuclidExistsBelow
<1> HIDE DEF G
<1>2. ASSUME NEW v \in Rounds
      PROVE  E[v] = IF v[2] = 0 THEN v[3] ELSE E[Round(v)]
  <2>1. v[2] \in Nat /\ v \in Below(v[2])
    BY DEF Rounds, Below
  <2>2. G(v[2])[v] = IF v[2] = 0 THEN v[3] ELSE G(v[2])[Round(v)]
    BY <1>1, <2>1 DEF EuclidBody
  <2>3. ASSUME v[2] # 0
        PROVE  G(v[2])[Round(v)] = E[Round(v)]
    <3> DEFINE w == Round(v)
    <3>1. w \in Rounds /\ w[2] \in Nat /\ w[2] < v[2]
      BY <2>3, RoundType DEF Rounds
    <3>2. w \in Below(v[2]) \cap Below(w[2])
      BY <2>1, <3>1 DEF Below
    <3>3. G(v[2])[w] = G(w[2])[w]
      BY <1>1, <2>1, <3>1, <3>2, EuclidUnique
    <3> QED
      BY <3>1, <3>3
  <2> QED
    BY <2>2, <2>3
<1>3. E = EuclidBody(E, Rounds)
  <2>1. EuclidBody(E, Rounds) = [v \in Rounds |-> IF v[2] = 0 THEN v[3] ELSE E[Round(v)]]
    BY DEF EuclidBody
  <2>2. E = [v \in Rounds |-> E[v]]
    OBVIOUS
  <2> HIDE DEF E
  <2> QED
    BY <1>2, <2>1, <2>2
<1>4. Euclid = CHOOSE g : g = EuclidBody(g, Rounds)
  BY DEF Euclid, EuclidBody, Rounds, Round, Quotient
<1>5. Euclid = EuclidBody(Euclid, Rounds)
  <2> HIDE DEF E
  <2> QED
    BY <1>3, <1>4
<1> QED
  BY <1>5 DEF EuclidBody
-----------------------------------------------------------------------------
(* Inverses.  A round keeps the common divisors of its two remainders, and *)
(* that each remainder is congruent to its coefficient times the dividend. *)

Divides(d, a) == \E k \in Int : a = k * d
Coprime(a, b) == \A d \in Nat : Divides(d, a) /\ Divides(d, b) => d = 1

(* A round keeps the common divisors. *)
LEMMA CoprimeRound ==
  ASSUME NEW a \in Int, NEW b \in Int, NEW q \in Int, Coprime(a, b)
  PROVE  Coprime(b, a - q * b)
<1> SUFFICES ASSUME NEW d \in Nat, Divides(d, b), Divides(d, a - q * b)
             PROVE  Divides(d, a)
  BY DEF Coprime
<1>1. PICK k \in Int : b = k * d
  BY DEF Divides
<1>2. PICK l \in Int : a - q * b = l * d
  BY DEF Divides
<1>3. a = (l + q * k) * d
  <2>1. a = l * d + q * b
    BY <1>2
  <2>2. a = l * d + q * (k * d)
    BY <2>1, <1>1
  <2> QED
    BY <2>2
<1>4. l + q * k \in Int
  OBVIOUS
<1> QED
  BY <1>3, <1>4 DEF Divides

Bezout(v, a) ==
  /\ v[1] >= 0 /\ Coprime(v[1], v[2])
  /\ Cong(v[1], v[3] * a) /\ Cong(v[2], v[4] * a)

(* A round keeps that the remainders are multiples of the dividend.        *)
LEMMA BezoutRound ==
  ASSUME NEW a \in Int, NEW v \in Rounds, v[2] # 0, Bezout(v, a)
  PROVE  Bezout(Round(v), a)
<1> DEFINE q == Quotient(v)
<1>1. v[1] \in Int /\ v[2] \in Nat /\ v[3] \in Int /\ v[4] \in Int /\ q \in Int
  BY DivMod DEF Rounds, Quotient
<1>2. /\ Round(v)[1] = v[2] /\ Round(v)[2] = v[1] - q * v[2]
      /\ Round(v)[3] = v[4] /\ Round(v)[4] = v[3] - q * v[4]
  BY DEF Round
<1> HIDE DEF q
<1>3. Coprime(v[2], v[1] - q * v[2])
  BY <1>1, CoprimeRound DEF Bezout
<1> DEFINE n == -q
           c == v[4] * a
           d == v[3] * a
<1>8. n \in Int /\ c \in Int /\ d \in Int /\ n * v[2] \in Int /\ n * c \in Int
  BY <1>1
<1>9. Cong(v[1], d) /\ Cong(v[2], c)
  BY DEF Bezout
<1> HIDE DEF n, c, d
<1>4. Cong(n * v[2], n * c)
  <2>1. Cong(n, n)
    BY <1>8, CongRefl
  <2>2. v[2] \in Int
    BY <1>1
  <2> QED
    BY <1>8, <1>9, <2>1, <2>2, CongMul
<1>5. Cong(v[1] + n * v[2], d + n * c)
  BY <1>1, <1>4, <1>8, <1>9, CongAdd
<1>6. v[1] + n * v[2] = v[1] - q * v[2]
  BY <1>1 DEF n
<1>7. d + n * c = (v[3] - q * v[4]) * a
  BY <1>1 DEF n, c, d
<1> QED
  BY <1>1, <1>2, <1>3, <1>5, <1>6, <1>7, <1>9 DEF Bezout, c

(* By induction over the second remainder: the coefficient at the end,     *)
(* times the dividend, is congruent to 1.                                  *)
LEMMA EuclidInverse ==
  ASSUME NEW a \in Int
  PROVE  \A v \in Rounds : Bezout(v, a) => Euclid[v] \in Int /\ Cong(Euclid[v] * a, 1)
<1> DEFINE Good(v) == Euclid[v] \in Int /\ Cong(Euclid[v] * a, 1)
           S == {m \in Nat : \A v \in Rounds : v[2] <= m /\ Bezout(v, a) => Good(v)}
<1>1. ASSUME NEW v \in Rounds, v[2] = 0, Bezout(v, a)
      PROVE  Good(v)
  <2>1. v[1] \in Nat /\ v[3] \in Int
    BY <1>1 DEF Rounds, Bezout
  <2>2. Divides(v[1], v[1]) /\ Divides(v[1], 0)
    <3>1. v[1] = 1 * v[1] /\ 0 = 0 * v[1]
      BY <2>1
    <3> QED
      BY <3>1 DEF Divides
  <2>3. v[1] = 1
    BY <1>1, <2>1, <2>2 DEF Bezout, Coprime
  <2>4. Cong(v[3] * a, 1)
    BY <1>1, <2>1, <2>3, CongSym DEF Bezout
  <2> QED
    BY <1>1, <2>1, <2>4, EuclidUnrolls
<1> HIDE DEF Good
<1>2. 0 \in S
  BY <1>1 DEF Rounds
<1>3. ASSUME NEW m \in S
      PROVE  m + 1 \in S
  <2> SUFFICES ASSUME NEW v \in Rounds, v[2] <= m + 1, Bezout(v, a), v[2] # 0
               PROVE  Good(v)
    BY <1>1
  <2>1. Round(v) \in Rounds /\ Round(v)[2] < v[2] /\ Bezout(Round(v), a)
    BY RoundType, BezoutRound
  <2>2. Round(v)[2] <= m
    BY <1>3, <2>1 DEF Rounds
  <2>3. Good(Round(v))
    BY <1>3, <2>1, <2>2
  <2>4. Euclid[v] = Euclid[Round(v)]
    BY EuclidUnrolls
  <2> QED
    BY <2>3, <2>4 DEF Good
<1>4. S = Nat
  <2> HIDE DEF S
  <2> S \in SUBSET Nat
    BY DEF S
  <2> QED
    BY <1>2, <1>3, Induction
<1> SUFFICES ASSUME NEW v \in Rounds, Bezout(v, a) PROVE Good(v)
  BY DEF Good
<1>5. v[2] \in S
  BY <1>4 DEF Rounds
<1> QED
  BY <1>5

(* A positive scalar has no divisor in common with the order.              *)
LEMMA CoprimeOrder ==
  ASSUME NEW a \in Scalars \ {0}
  PROVE  Coprime(a, ORDER)
<1> SUFFICES ASSUME NEW d \in Nat, Divides(d, a), Divides(d, ORDER), d # 1
             PROVE  FALSE
  BY DEF Coprime
<1>1. PICK k \in Int : a = k * d
  BY DEF Divides
<1>2. PICK l \in Int : ORDER = l * d
  BY DEF Divides
<1>3. a \in Nat /\ a > 0 /\ a < ORDER
  BY OrderPositive DEF Scalars
<1>4. d >= 2
  <2>1. d # 0
    BY <1>1, <1>3
  <2> QED
    BY <2>1
<1>5. d < ORDER
  <2>1. k >= 1
    BY <1>1, <1>3
  <2>2. k * d >= d
    BY <2>1
  <2> QED
    BY <1>1, <1>3, <2>2, OrderPositive
<1>6. l >= 2
  <2>1. l >= 1
    BY <1>2, OrderPositive
  <2>2. l # 1
    BY <1>2, <1>5
  <2> QED
    BY <2>1, <2>2
<1>7. l < ORDER
  <2>1. l * d >= l * 2
    BY <1>4, <1>6
  <2> QED
    BY <1>2, <1>6, <2>1, OrderPositive
<1>8. l \in 2 .. ORDER - 1 /\ d \in 2 .. ORDER - 1
  BY <1>4, <1>5, <1>6, <1>7, OrderPositive
<1> QED
  BY <1>2, <1>8, OrderAssumption

(* modInverse finds the inverse of every scalar but 0. *)
THEOREM InverseCorrect ==
  \A a \in Scalars \ {0} :
    /\ modInverse(a, ORDER) \in Scalars
    /\ Cong(a * modInverse(a, ORDER), 1)
<1> SUFFICES ASSUME NEW a \in Scalars \ {0}
             PROVE  /\ modInverse(a, ORDER) \in Scalars
                    /\ Cong(a * modInverse(a, ORDER), 1)
  OBVIOUS
<1> DEFINE v == <<a, ORDER, 1, 0>>
           e == Euclid[v]
<1>1. a \in Int /\ a >= 0
  BY OrderPositive DEF Scalars
<1>2. v \in Rounds
  BY <1>1, OrderPositive DEF Rounds
<1>3. Cong(a, 1 * a)
  BY <1>1, CongRefl
<1>4. Cong(ORDER, 0 * a)
  <2>1. ORDER - 0 * a = 1 * ORDER
    BY <1>1, OrderPositive
  <2> QED
    BY <2>1 DEF Cong
<1>5. Bezout(v, a)
  BY <1>1, <1>3, <1>4, CoprimeOrder DEF Bezout
<1>6. e \in Int /\ Cong(e * a, 1)
  BY <1>1, <1>2, <1>5, EuclidInverse
<1>7. modInverse(a, ORDER) = mod(e, ORDER)
  BY DEF modInverse
<1> HIDE DEF e
<1>8. mod(e, ORDER) \in Scalars /\ mod(e, ORDER) \in Int /\ Cong(mod(e, ORDER), e)
  BY <1>6, ModCong, OrderPositive DEF Scalars
<1>9. Cong(mod(e, ORDER) * a, e * a)
  BY <1>1, <1>6, <1>8, CongMul, CongRefl
<1>10. Cong(mod(e, ORDER) * a, 1)
  BY <1>1, <1>6, <1>8, <1>9, CongTrans
<1>11. mod(e, ORDER) * a = a * mod(e, ORDER)
  BY <1>1, <1>8
<1> QED
  BY <1>7, <1>8, <1>10, <1>11
(* The inverse is one up to congruence as well. *)
LEMMA CongInverse ==
  ASSUME NEW a \in Int, ~Cong(a, 0)
  PROVE  \E b \in Int : Cong(a * b, 1)
<1> DEFINE r == mod(a, ORDER)
           b == modInverse(r, ORDER)
<1>1. r \in Scalars /\ r \in Int /\ Cong(r, a)
  BY ModCong, OrderPositive DEF Scalars
<1> HIDE DEF r
<1>2. r # 0
  BY <1>1, CongSym
<1>3. b \in Scalars /\ b \in Int /\ Cong(r * b, 1)
  BY <1>1, <1>2, InverseCorrect, OrderPositive DEF Scalars
<1> HIDE DEF b
<1>4. Cong(a * b, r * b)
  <2>1. Cong(a, r) /\ Cong(b, b)
    BY <1>1, <1>3, CongSym, CongRefl
  <2> QED
    BY <1>1, <1>3, <2>1, CongMul
<1>5. a * b \in Int /\ r * b \in Int
  BY <1>1, <1>3
<1>6. Cong(a * b, r * b) /\ Cong(r * b, 1)
  BY <1>3, <1>4
<1> QED
  BY <1>3, <1>5, <1>6, CongTrans

(* A factor that is not 0 may be cancelled. *)
LEMMA CongCancel ==
  ASSUME NEW a \in Int, NEW b \in Int, NEW c \in Int, ~Cong(a, 0), Cong(a * b, a * c)
  PROVE  Cong(b, c)
<1>1. PICK i \in Int : Cong(a * i, 1)
  BY CongInverse
<1> DEFINE s == a * i
           t == a * b
           u == a * c
<1>2. s \in Int /\ t \in Int /\ u \in Int /\ i * t \in Int /\ i * u \in Int
      /\ s * b \in Int /\ s * c \in Int /\ i * t = s * b /\ i * u = s * c
  OBVIOUS
<1>3. Cong(t, u) /\ Cong(s, 1)
  BY <1>1
<1> HIDE DEF s, t, u
<1>4. Cong(i, i) /\ Cong(b, b) /\ Cong(c, c)
  BY CongRefl
<1>5. Cong(i * t, i * u)
  BY <1>2, <1>3, <1>4, CongMul
<1>6. Cong(s * b, 1 * b) /\ Cong(s * c, 1 * c)
  BY <1>2, <1>3, <1>4, CongMul
<1>7. Cong(s * b, s * c)
  BY <1>2, <1>5
<1>8. Cong(b, s * b) /\ Cong(s * c, c)
  BY <1>2, <1>6, CongSym
<1> QED
  BY <1>2, <1>7, <1>8, CongTrans

(* 1 is not 0, and neither is a scalar other than 0. *)
LEMMA CongOneZero == ~Cong(1, 0)
<1> SUFFICES ASSUME Cong(1, 0) PROVE FALSE
  OBVIOUS
<1>1. 1 \in Scalars /\ 0 \in Scalars
  BY OrderPositive DEF Scalars
<1> QED
  BY <1>1, ScalarEqual

LEMMA CongNonzero ==
  \A a, b \in Int : ~Cong(a, 0) /\ ~Cong(b, 0) => ~Cong(a * b, 0)
<1> SUFFICES ASSUME NEW a \in Int, NEW b \in Int, ~Cong(a, 0), Cong(a * b, 0)
             PROVE  Cong(b, 0)
  OBVIOUS
<1>1. a * 0 = 0
  OBVIOUS
<1>2. Cong(a * b, a * 0)
  BY <1>1
<1> QED
  BY <1>2, CongCancel

-----------------------------------------------------------------------------
(* Sums and products over 1..n. *)

Sum(F, n) == Loop([i \in 1..n |-> [a \in Int |-> a + F[i]]], 0, n)
Product(F, n) == Loop([i \in 1..n |-> [a \in Int |-> a * F[i]]], 1, n)

(* Sums and products are loops of rounds. *)
LEMMA SumUnrolls ==
  ASSUME NEW n \in Nat, NEW F \in [1..n -> Int]
  PROVE  \E s \in [0..n -> Int] : /\ s[0] = 0 /\ s[n] = Sum(F, n)
                                  /\ \A i \in 1..n : s[i] = s[i - 1] + F[i]
<1> DEFINE step == [i \in 1..n |-> [a \in Int |-> a + F[i]]]
<1>1. step \in [1..n -> [Int -> Int]]
  OBVIOUS
<1>2. \A i \in 1..n, a \in Int : step[i][a] = a + F[i]
  OBVIOUS
<1>3. Sum(F, n) = Loop(step, 0, n)
  BY DEF Sum
<1> HIDE DEF step
<1>4. PICK s : IsTrace(s, Int, step, 0, n)
  <2>1. IsLoop(Int, step, 0, n)
    BY <1>1 DEF IsLoop
  <2> QED
    BY <2>1, LoopUnrolls
<1>6. /\ s \in [0..n -> Int] /\ s[0] = 0 /\ s[n] = Loop(step, 0, n)
      /\ \A i \in 1..n : s[i] = step[i][s[i - 1]]
  BY <1>4 DEF IsTrace
<1>5. ASSUME NEW i \in 1..n
      PROVE  s[i] = s[i - 1] + F[i]
  <2>1. s[i - 1] \in Int
    BY <1>6
  <2> QED
    BY <1>2, <1>6, <2>1
<1> QED
  BY <1>3, <1>6, <1>5

LEMMA ProductUnrolls ==
  ASSUME NEW n \in Nat, NEW F \in [1..n -> Int]
  PROVE  \E s \in [0..n -> Int] : /\ s[0] = 1 /\ s[n] = Product(F, n)
                                  /\ \A i \in 1..n : s[i] = s[i - 1] * F[i]
<1> DEFINE step == [i \in 1..n |-> [a \in Int |-> a * F[i]]]
<1>1. step \in [1..n -> [Int -> Int]]
  OBVIOUS
<1>2. \A i \in 1..n, a \in Int : step[i][a] = a * F[i]
  OBVIOUS
<1>3. Product(F, n) = Loop(step, 1, n)
  BY DEF Product
<1> HIDE DEF step
<1>4. PICK s : IsTrace(s, Int, step, 1, n)
  <2>1. IsLoop(Int, step, 1, n)
    BY <1>1 DEF IsLoop
  <2> QED
    BY <2>1, LoopUnrolls
<1>6. /\ s \in [0..n -> Int] /\ s[0] = 1 /\ s[n] = Loop(step, 1, n)
      /\ \A i \in 1..n : s[i] = step[i][s[i - 1]]
  BY <1>4 DEF IsTrace
<1>5. ASSUME NEW i \in 1..n
      PROVE  s[i] = s[i - 1] * F[i]
  <2>1. s[i - 1] \in Int
    BY <1>6
  <2> QED
    BY <1>2, <1>6, <2>1
<1> QED
  BY <1>3, <1>6, <1>5

(* Sums that are congruent term by term are congruent. *)
LEMMA SumCong ==
  ASSUME NEW n \in Nat, NEW F \in [1..n -> Int], NEW G \in [1..n -> Int],
         \A i \in 1..n : Cong(F[i], G[i])
  PROVE  Sum(F, n) \in Int /\ Sum(G, n) \in Int /\ Cong(Sum(F, n), Sum(G, n))
<1>1. PICK s \in [0..n -> Int] : /\ s[0] = 0 /\ s[n] = Sum(F, n)
                                 /\ \A i \in 1..n : s[i] = s[i - 1] + F[i]
  BY SumUnrolls
<1>2. PICK t \in [0..n -> Int] : /\ t[0] = 0 /\ t[n] = Sum(G, n)
                                 /\ \A i \in 1..n : t[i] = t[i - 1] + G[i]
  BY SumUnrolls
<1> DEFINE S == {i \in 0..n : Cong(s[i], t[i])}
<1>3. 0 \in S
  BY <1>1, <1>2, CongRefl
<1>4. ASSUME NEW i \in 0 .. n - 1, i \in S
      PROVE  i + 1 \in S
  <2>1. s[i + 1] = s[i] + F[i + 1] /\ t[i + 1] = t[i] + G[i + 1]
    BY <1>1, <1>2
  <2>2. s[i] \in Int /\ t[i] \in Int /\ F[i + 1] \in Int /\ G[i + 1] \in Int
    OBVIOUS
  <2>3. Cong(s[i], t[i]) /\ Cong(F[i + 1], G[i + 1])
    BY <1>4
  <2>4. Cong(s[i] + F[i + 1], t[i] + G[i + 1])
    BY <2>2, <2>3, CongAdd
  <2> QED
    BY <2>1, <2>4
<1>5. n \in S
  <2> HIDE DEF S
  <2>1. 0..n \subseteq S
    BY <1>3, <1>4, BoundedInduction, Zenon
  <2> QED
    BY <2>1
<1>6. s[n] \in Int /\ t[n] \in Int
  OBVIOUS
<1> QED
  BY <1>1, <1>2, <1>5, <1>6

(* A sum of multiples is the multiple of the sum. *)
LEMMA SumLinear ==
  ASSUME NEW n \in Nat, NEW F \in [1..n -> Int], NEW G \in [1..n -> Int], NEW c \in Int
  PROVE  Sum([i \in 1..n |-> c * F[i] + G[i]], n) = c * Sum(F, n) + Sum(G, n)
<1> DEFINE H == [i \in 1..n |-> c * F[i] + G[i]]
<1>1. PICK s \in [0..n -> Int] : /\ s[0] = 0 /\ s[n] = Sum(F, n)
                                 /\ \A i \in 1..n : s[i] = s[i - 1] + F[i]
  BY SumUnrolls
<1>2. PICK t \in [0..n -> Int] : /\ t[0] = 0 /\ t[n] = Sum(G, n)
                                 /\ \A i \in 1..n : t[i] = t[i - 1] + G[i]
  BY SumUnrolls
<1>3. H \in [1..n -> Int] /\ \A i \in 1..n : H[i] = c * F[i] + G[i]
  OBVIOUS
<1> HIDE DEF H
<1>4. PICK u \in [0..n -> Int] : /\ u[0] = 0 /\ u[n] = Sum(H, n)
                                 /\ \A i \in 1..n : u[i] = u[i - 1] + H[i]
  BY <1>3, SumUnrolls
<1> DEFINE S == {i \in 0..n : u[i] = c * s[i] + t[i]}
<1>5. 0 \in S
  BY <1>1, <1>2, <1>4
<1>6. ASSUME NEW i \in 0 .. n - 1, i \in S
      PROVE  i + 1 \in S
  <2>1. /\ s[i + 1] = s[i] + F[i + 1] /\ t[i + 1] = t[i] + G[i + 1]
    BY <1>1, <1>2
  <2>5. u[i + 1] = u[i] + H[i + 1]
    BY <1>4
  <2>2. H[i + 1] = c * F[i + 1] + G[i + 1] /\ u[i] = c * s[i] + t[i]
    BY <1>3, <1>6
  <2>3. s[i] \in Int /\ t[i] \in Int /\ F[i + 1] \in Int /\ G[i + 1] \in Int
    OBVIOUS
  <2>4. u[i + 1] = c * (s[i] + F[i + 1]) + (t[i] + G[i + 1])
    <3> DEFINE x == s[i]
               y == F[i + 1]
               z == t[i]
               w == G[i + 1]
    <3>1. x \in Int /\ y \in Int /\ z \in Int /\ w \in Int
      BY <2>3
    <3>2. u[i + 1] = (c * x + z) + (c * y + w)
      BY <2>2, <2>5
    <3> HIDE DEF x, y, z, w
    <3>3. (c * x + z) + (c * y + w) = c * (x + y) + (z + w)
      BY <3>1
    <3> QED
      BY <3>2, <3>3 DEF x, y, z, w
  <2> QED
    BY <2>1, <2>4
<1>7. n \in S
  <2> HIDE DEF S
  <2>1. 0..n \subseteq S
    BY <1>5, <1>6, BoundedInduction, Zenon
  <2> QED
    BY <2>1
<1> QED
  BY <1>1, <1>2, <1>4, <1>7 DEF H
(* A sum with one term. *)
LEMMA SumSingle ==
  ASSUME NEW n \in Nat, NEW F \in [1..n -> Int], NEW m \in 1..n,
         \A i \in 1..n : i # m => F[i] = 0
  PROVE  Sum(F, n) = F[m]
<1>1. PICK s \in [0..n -> Int] : /\ s[0] = 0 /\ s[n] = Sum(F, n)
                                 /\ \A i \in 1..n : s[i] = s[i - 1] + F[i]
  BY SumUnrolls
<1> DEFINE S == {i \in 0..n : s[i] = IF i < m THEN 0 ELSE F[m]}
<1>2. 0 \in S
  BY <1>1
<1>3. ASSUME NEW i \in 0 .. n - 1, i \in S
      PROVE  i + 1 \in S
  <2>1. s[i + 1] = s[i] + F[i + 1] /\ F[i + 1] \in Int /\ F[m] \in Int
    BY <1>1
  <2>2. CASE i + 1 = m
    BY <1>3, <2>1, <2>2
  <2>3. CASE i + 1 # m
    <3>1. F[i + 1] = 0
      BY <2>3
    <3> QED
      BY <1>3, <2>1, <2>3, <3>1
  <2> QED
    BY <2>2, <2>3
<1>4. n \in S
  <2> HIDE DEF S
  <2>1. 0..n \subseteq S
    BY <1>2, <1>3, BoundedInduction, Zenon
  <2> QED
    BY <2>1
<1> QED
  BY <1>1, <1>4

(* A factor taken out of a product. *)
LEMMA ProductExtract ==
  ASSUME NEW n \in Nat, NEW F \in [1..n -> Int], NEW G \in [1..n -> Int], NEW m \in 1..n,
         G[m] = 1, \A i \in 1..n : i # m => F[i] = G[i]
  PROVE  /\ Product(F, n) \in Int /\ Product(G, n) \in Int
         /\ Product(F, n) = F[m] * Product(G, n)
<1>1. PICK s \in [0..n -> Int] : /\ s[0] = 1 /\ s[n] = Product(F, n)
                                 /\ \A i \in 1..n : s[i] = s[i - 1] * F[i]
  BY ProductUnrolls
<1>2. PICK t \in [0..n -> Int] : /\ t[0] = 1 /\ t[n] = Product(G, n)
                                 /\ \A i \in 1..n : t[i] = t[i - 1] * G[i]
  BY ProductUnrolls
<1> DEFINE S == {i \in 0..n : s[i] = IF i < m THEN t[i] ELSE F[m] * t[i]}
<1>3. 0 \in S
  BY <1>1, <1>2
<1>4. ASSUME NEW i \in 0 .. n - 1, i \in S
      PROVE  i + 1 \in S
  <2> DEFINE x == s[i]
             y == t[i]
             f == F[i + 1]
             g == G[i + 1]
             c == F[m]
  <2>1. x \in Int /\ y \in Int
    OBVIOUS
  <2>2. f \in Int /\ g \in Int /\ c \in Int
    OBVIOUS
  <2>3. x = IF i < m THEN y ELSE c * y
    BY <1>4
  <2>4. IF i + 1 = m THEN f = c /\ g = 1 ELSE f = g
    <3>1. i + 1 = m => f = c /\ g = 1
      OBVIOUS
    <3>2. i + 1 \in 1..n
      OBVIOUS
    <3>3. i + 1 # m => f = g
      BY <3>2
    <3> QED
      BY <3>1, <3>3
  <2>5. s[i + 1] = x * f
    BY <1>1
  <2>6. t[i + 1] = y * g
    BY <1>2
  <2> HIDE DEF x, y, f, g
  <2>7. s[i + 1] = IF i + 1 < m THEN t[i + 1] ELSE c * t[i + 1]
    <3> HIDE DEF c
    <3>1. CASE i + 1 = m
      <4>1. x = y /\ f = c /\ g = 1
        BY <2>3, <2>4, <3>1
      <4>2. s[i + 1] = y * c /\ t[i + 1] = y
        BY <2>1, <2>5, <2>6, <4>1
      <4> QED
        BY <2>1, <2>2, <3>1, <4>2
    <3>2. CASE i + 1 < m
      BY <2>1, <2>3, <2>4, <2>5, <2>6, <3>2
    <3>3. CASE i + 1 > m
      <4>1. x = c * y /\ f = g
        BY <2>3, <2>4, <3>3
      <4>2. (c * y) * g = c * (y * g)
        BY <2>1, <2>2
      <4> QED
        BY <2>5, <2>6, <3>3, <4>1, <4>2
    <3> QED
      BY <3>1, <3>2, <3>3
  <2> QED
    BY <2>7
<1>5. n \in S
  <2> HIDE DEF S
  <2>1. 0..n \subseteq S
    BY <1>3, <1>4, BoundedInduction, Zenon
  <2> QED
    BY <2>1
<1>6. s[n] \in Int /\ t[n] \in Int
  OBVIOUS
<1> QED
  BY <1>1, <1>2, <1>5, <1>6

(* A product of ones, and one of factors other than 0. *)
LEMMA ProductOne ==
  ASSUME NEW n \in Nat, NEW F \in [1..n -> Int], \A i \in 1..n : F[i] = 1
  PROVE  Product(F, n) = 1
<1>1. PICK s \in [0..n -> Int] : /\ s[0] = 1 /\ s[n] = Product(F, n)
                                 /\ \A i \in 1..n : s[i] = s[i - 1] * F[i]
  BY ProductUnrolls
<1> DEFINE S == {i \in 0..n : s[i] = 1}
<1>2. 0 \in S
  BY <1>1
<1>3. ASSUME NEW i \in 0 .. n - 1, i \in S
      PROVE  i + 1 \in S
  <2>1. s[i + 1] = s[i] * F[i + 1] /\ F[i + 1] = 1 /\ s[i] = 1
    BY <1>1, <1>3
  <2> QED
    BY <2>1
<1>4. n \in S
  <2> HIDE DEF S
  <2>1. 0..n \subseteq S
    BY <1>2, <1>3, BoundedInduction, Zenon
  <2> QED
    BY <2>1
<1> QED
  BY <1>1, <1>4

LEMMA ProductNonzero ==
  ASSUME NEW n \in Nat, NEW F \in [1..n -> Int], \A i \in 1..n : ~Cong(F[i], 0)
  PROVE  Product(F, n) \in Int /\ ~Cong(Product(F, n), 0)
<1>1. PICK s \in [0..n -> Int] : /\ s[0] = 1 /\ s[n] = Product(F, n)
                                 /\ \A i \in 1..n : s[i] = s[i - 1] * F[i]
  BY ProductUnrolls
<1> DEFINE S == {i \in 0..n : ~Cong(s[i], 0)}
<1>2. 0 \in S
  BY <1>1, CongOneZero
<1>3. ASSUME NEW i \in 0 .. n - 1, i \in S
      PROVE  i + 1 \in S
  <2>1. /\ s[i + 1] = s[i] * F[i + 1] /\ F[i + 1] \in Int /\ s[i] \in Int
        /\ ~Cong(F[i + 1], 0) /\ ~Cong(s[i], 0)
    BY <1>1, <1>3
  <2> QED
    BY <2>1, CongNonzero
<1>4. n \in S
  <2> HIDE DEF S
  <2>1. 0..n \subseteq S
    BY <1>2, <1>3, BoundedInduction, Zenon
  <2> QED
    BY <2>1
<1>5. s[n] \in Int
  OBVIOUS
<1> QED
  BY <1>1, <1>4, <1>5
-----------------------------------------------------------------------------
(* Lagrange weights at 0 of the points x[i], i in S.                       *)

Num(x, n, S, i) == Product([j \in 1..n |-> IF j \in S /\ j # i THEN -x[j] ELSE 1], n)
Den(x, n, S, i) == Product([j \in 1..n |-> IF j \in S /\ j # i THEN x[i] - x[j] ELSE 1], n)

IsWeights(w, x, n, S) ==
  w \in [1..n -> Int] /\ \A i \in S : Cong(w[i] * Den(x, n, S, i), Num(x, n, S, i))

Apart(x, S) == \A i, j \in S : i # j => ~Cong(x[i], x[j])

(* The denominator of a weight is invertible when the points are apart.    *)
LEMMA DenNonzero ==
  ASSUME NEW n \in Nat, NEW x \in [1..n -> Int], NEW S \in SUBSET (1..n), Apart(x, S),
         NEW i \in S
  PROVE  Den(x, n, S, i) \in Int /\ ~Cong(Den(x, n, S, i), 0) /\ Num(x, n, S, i) \in Int
<1> DEFINE F == [j \in 1..n |-> IF j \in S /\ j # i THEN x[i] - x[j] ELSE 1]
           G == [j \in 1..n |-> IF j \in S /\ j # i THEN -x[j] ELSE 1]
<1>1. F \in [1..n -> Int] /\ G \in [1..n -> Int]
  OBVIOUS
<1>2. ASSUME NEW j \in 1..n
      PROVE  ~Cong(F[j], 0)
  <2>1. CASE j \in S /\ j # i
    <3>1. ~Cong(x[i], x[j]) /\ x[i] \in Int /\ x[j] \in Int
      BY <2>1 DEF Apart
    <3>2. F[j] = x[i] - x[j]
      BY <2>1
    <3> QED
      BY <3>1, <3>2, CongDiff
  <2>2. CASE ~(j \in S /\ j # i)
    <3>1. F[j] = 1
      BY <2>2
    <3> QED
      BY <3>1, CongOneZero
  <2> QED
    BY <2>1, <2>2
<1>3. Den(x, n, S, i) = Product(F, n) /\ Num(x, n, S, i) = Product(G, n)
  BY DEF Den, Num
<1> HIDE DEF F, G
<1>4. PICK s \in [0..n -> Int] : /\ s[0] = 1 /\ s[n] = Product(G, n)
                                 /\ \A j \in 1..n : s[j] = s[j - 1] * G[j]
  BY <1>1, ProductUnrolls
<1>5. s[n] \in Int
  OBVIOUS
<1> QED
  BY <1>1, <1>2, <1>3, <1>4, <1>5, ProductNonzero

(* Points apart have weights. *)
LEMMA WeightsExist ==
  ASSUME NEW n \in Nat, NEW x \in [1..n -> Int], NEW S \in SUBSET (1..n), Apart(x, S)
  PROVE  \E w : IsWeights(w, x, n, S)
<1> DEFINE W(i, a) == a \in Int /\ Cong(a * Den(x, n, S, i), Num(x, n, S, i))
           w == [i \in 1..n |-> IF i \in S THEN CHOOSE a : W(i, a) ELSE 0]
<1>1. ASSUME NEW i \in S
      PROVE  \E a : W(i, a)
  <2> DEFINE d == Den(x, n, S, i)
             m == Num(x, n, S, i)
  <2>1. d \in Int /\ ~Cong(d, 0) /\ m \in Int
    BY DenNonzero
  <2> HIDE DEF d, m
  <2>2. PICK b \in Int : Cong(d * b, 1)
    BY <2>1, CongInverse
  <2>3. Cong((d * b) * m, 1 * m)
    <3>1. d * b \in Int /\ Cong(m, m)
      BY <2>1, CongRefl
    <3> QED
      BY <2>1, <2>2, <3>1, CongMul
  <2>4. (d * b) * m = (b * m) * d /\ 1 * m = m /\ b * m \in Int
    BY <2>1
  <2>5. W(i, b * m)
    BY <2>3, <2>4 DEF d, m
  <2> QED
    BY <2>5
<1>2. \A i \in S : W(i, w[i])
  BY <1>1
<1> HIDE DEF W
<1>3. w \in [1..n -> Int]
  <2>1. ASSUME NEW i \in 1..n
        PROVE  w[i] \in Int
    <3>1. CASE i \in S
      BY <1>2, <3>1 DEF W
    <3>2. CASE i \notin S
      BY <3>2
    <3> QED
      BY <3>1, <3>2
  <2>2. w = [i \in 1..n |-> w[i]]
    OBVIOUS
  <2> HIDE DEF w
  <2> QED
    BY <2>1, <2>2
<1>4. \A i \in S : Cong(w[i] * Den(x, n, S, i), Num(x, n, S, i))
  BY <1>2 DEF W
<1> HIDE DEF w
<1>5. IsWeights(w, x, n, S)
  BY <1>3, <1>4 DEF IsWeights
<1> QED
  BY <1>5

(* Without one of the points.                                              *)
LEMMA WeightsDrop ==
  ASSUME NEW n \in Nat, NEW x \in [1..n -> Int], NEW S \in SUBSET (1..n), Apart(x, S),
         NEW b \in S, NEW w, IsWeights(w, x, n, S), NEW v, IsWeights(v, x, n, S \ {b}),
         NEW i \in S \ {b}
  PROVE  Cong(w[i] * (x[i] - x[b]), (-x[b]) * v[i])
<1> DEFINE T == S \ {b}
           F == [j \in 1..n |-> IF j \in S /\ j # i THEN x[i] - x[j] ELSE 1]
           G == [j \in 1..n |-> IF j \in T /\ j # i THEN x[i] - x[j] ELSE 1]
           H == [j \in 1..n |-> IF j \in S /\ j # i THEN -x[j] ELSE 1]
           K == [j \in 1..n |-> IF j \in T /\ j # i THEN -x[j] ELSE 1]
<1>1. /\ F \in [1..n -> Int] /\ G \in [1..n -> Int]
      /\ H \in [1..n -> Int] /\ K \in [1..n -> Int]
  OBVIOUS
<1>2. b \in 1..n /\ G[b] = 1 /\ K[b] = 1 /\ F[b] = x[i] - x[b] /\ H[b] = -x[b]
  OBVIOUS
<1>3. \A j \in 1..n : j # b => F[j] = G[j] /\ H[j] = K[j]
  OBVIOUS
<1>4. /\ Den(x, n, S, i) = Product(F, n) /\ Den(x, n, T, i) = Product(G, n)
      /\ Num(x, n, S, i) = Product(H, n) /\ Num(x, n, T, i) = Product(K, n)
  BY DEF Den, Num
<1> HIDE DEF F, G, H, K
<1> DEFINE d == Den(x, n, T, i)
           m == Num(x, n, T, i)
           q == x[i] - x[b]
           z == -x[b]
<1>5. Den(x, n, S, i) = q * d /\ d \in Int
  <2>1. G[b] = 1 /\ \A j \in 1..n : j # b => F[j] = G[j]
    BY <1>2, <1>3
  <2>2. Product(F, n) = F[b] * Product(G, n) /\ Product(G, n) \in Int
    BY <1>1, <1>2, <2>1, ProductExtract
  <2> QED
    BY <1>2, <1>4, <2>2
<1>6. Num(x, n, S, i) = z * m /\ m \in Int
  <2>1. K[b] = 1 /\ \A j \in 1..n : j # b => H[j] = K[j]
    BY <1>2, <1>3
  <2>2. Product(H, n) = H[b] * Product(K, n) /\ Product(K, n) \in Int
    BY <1>1, <1>2, <2>1, ProductExtract
  <2> QED
    BY <1>2, <1>4, <2>2
<1>7. q \in Int /\ z \in Int /\ w[i] \in Int /\ v[i] \in Int
  BY DEF IsWeights
<1>8. ~Cong(d, 0)
  <2>1. Apart(x, T) /\ T \in SUBSET (1..n) /\ i \in T
    BY DEF Apart
  <2> HIDE DEF T
  <2> QED
    BY <2>1, DenNonzero
<1>9. Cong(w[i] * (q * d), z * m)
  BY <1>5, <1>6 DEF IsWeights
<1>10. Cong(v[i] * d, m)
  BY DEF IsWeights
<1> DEFINE a == w[i]
           c == v[i]
<1>11. a \in Int /\ c \in Int
  BY <1>7
<1> SUFFICES Cong(a * q, z * c)
  OBVIOUS
<1>12. Cong(a * (q * d), z * m) /\ Cong(c * d, m)
  BY <1>9, <1>10
<1> HIDE DEF a, c, d, m, q, z, T
<1>13. Cong(m, c * d)
  BY <1>5, <1>6, <1>11, <1>12, CongSym
<1>14. Cong(z * m, z * (c * d))
  <2>1. c * d \in Int /\ Cong(z, z)
    BY <1>5, <1>7, <1>11, CongRefl
  <2> QED
    BY <1>6, <1>7, <1>13, <2>1, CongMul
<1>15. Cong(a * (q * d), z * (c * d))
  <2>1. a * (q * d) \in Int /\ z * m \in Int /\ z * (c * d) \in Int
    BY <1>5, <1>6, <1>7, <1>11
  <2> QED
    BY <1>12, <1>14, <2>1, CongTrans
<1>16. a * (q * d) = d * (a * q) /\ z * (c * d) = d * (z * c) /\ a * q \in Int /\ z * c \in Int
  BY <1>5, <1>7, <1>11
<1> QED
  BY <1>5, <1>8, <1>15, <1>16, CongCancel
(* A sum of zeros; the type of a sum. *)
LEMMA SumZero ==
  ASSUME NEW n \in Nat, NEW F \in [1..n -> Int], \A i \in 1..n : F[i] = 0
  PROVE  Sum(F, n) = 0
<1>1. PICK s \in [0..n -> Int] : /\ s[0] = 0 /\ s[n] = Sum(F, n)
                                 /\ \A i \in 1..n : s[i] = s[i - 1] + F[i]
  BY SumUnrolls
<1> DEFINE S == {i \in 0..n : s[i] = 0}
<1>2. 0 \in S
  BY <1>1
<1>3. ASSUME NEW i \in 0 .. n - 1, i \in S
      PROVE  i + 1 \in S
  <2>1. s[i + 1] = s[i] + F[i + 1] /\ F[i + 1] = 0 /\ s[i] = 0
    BY <1>1, <1>3
  <2> QED
    BY <2>1
<1>4. n \in S
  <2> HIDE DEF S
  <2>1. 0..n \subseteq S
    BY <1>2, <1>3, BoundedInduction, Zenon
  <2> QED
    BY <2>1
<1> QED
  BY <1>1, <1>4

LEMMA SumType ==
  ASSUME NEW n \in Nat, NEW F \in [1..n -> Int]
  PROVE  Sum(F, n) \in Int
<1>1. PICK s \in [0..n -> Int] : s[n] = Sum(F, n)
  BY SumUnrolls
<1> QED
  BY <1>1

(* The sum of g over the points of S with their weights. *)
Terms(g, w, x, n, S) == [i \in 1..n |-> IF i \in S THEN g[x[i]] * w[i] ELSE 0]
Combination(g, w, x, n, S) == Sum(Terms(g, w, x, n, S), n)

(* Its terms are integers. *)
LEMMA TermsType ==
  ASSUME NEW n \in Nat, NEW x \in [1..n -> Int], NEW S \in SUBSET (1..n),
         NEW w \in [1..n -> Int], NEW g \in [Int -> Int]
  PROVE  /\ Terms(g, w, x, n, S) \in [1..n -> Int]
         /\ Combination(g, w, x, n, S) \in Int
<1>1. Terms(g, w, x, n, S) \in [1..n -> Int]
  <2>1. \A i \in 1..n : g[x[i]] \in Int /\ w[i] \in Int
    OBVIOUS
  <2>2. \A i \in 1..n : g[x[i]] * w[i] \in Int
    BY <2>1
  <2> QED
    BY <2>2 DEF Terms
<1> QED
  BY <1>1, SumType DEF Combination

(* A factor t - x[b] leaves out the point b. *)
LEMMA CombinationDrop ==
  ASSUME NEW n \in Nat, NEW x \in [1..n -> Int], NEW S \in SUBSET (1..n), Apart(x, S),
         NEW b \in S, NEW w, IsWeights(w, x, n, S), NEW v, IsWeights(v, x, n, S \ {b}),
         NEW g \in [Int -> Int], NEW h \in [Int -> Int],
         \A t \in Int : h[t] = (t - x[b]) * g[t]
  PROVE  Cong(Combination(h, w, x, n, S), (-x[b]) * Combination(g, v, x, n, S \ {b}))
<1> DEFINE T == S \ {b}
           F == Terms(h, w, x, n, S)
           G == Terms(g, v, x, n, T)
           Z == [i \in 1..n |-> 0]
           c == -x[b]
           H == [i \in 1..n |-> c * G[i] + Z[i]]
<1>1. w \in [1..n -> Int] /\ v \in [1..n -> Int] /\ T \in SUBSET (1..n)
  BY DEF IsWeights
<1>2. F \in [1..n -> Int] /\ G \in [1..n -> Int]
  <2> HIDE DEF T
  <2> QED
    BY <1>1, TermsType
<1>3. c \in Int /\ Z \in [1..n -> Int] /\ \A i \in 1..n : Z[i] = 0
  OBVIOUS
<1>4. ASSUME NEW i \in 1..n
      PROVE  Cong(F[i], c * G[i])
  <2> DEFINE q == x[i] - x[b]
             a == g[x[i]]
             y == w[i]
             z == v[i]
  <2> HIDE DEF T, F, G, Z, c
  <2>10. x[i] \in Int /\ x[b] \in Int
    OBVIOUS
  <2>11. q \in Int
    BY <2>10
  <2>15. a \in Int
    BY <2>10
  <2>12. y \in Int /\ z \in Int
    BY <1>1
  <2>1. q \in Int /\ a \in Int /\ y \in Int /\ z \in Int
    BY <2>11, <2>12, <2>15
  <2>2. h[x[i]] = q * a
    BY <2>10
  <2>3. F[i] = IF i \in S THEN (q * a) * y ELSE 0
    BY <2>2 DEF Terms, F
  <2>4. G[i] = IF i \in T THEN a * z ELSE 0
    BY DEF Terms, G
  <2>5. i \in T => Cong(y * q, c * z)
    BY WeightsDrop DEF T, c
  <2>13. i \in S <=> i \in T \/ i = b
    BY DEF T
  <2>14. b \notin T
    BY DEF T
  <2>6. i = b => q = 0
    OBVIOUS
  <2> HIDE DEF q, a, y, z
  <2>7. CASE i \in T
    <3>1. Cong(a * (y * q), a * (c * z))
      <4>1. y * q \in Int /\ c * z \in Int /\ Cong(a, a) /\ Cong(y * q, c * z)
        BY <1>3, <2>1, <2>5, <2>7, CongRefl
      <4> QED
        BY <2>1, <4>1, CongMul
    <3>2. a * (y * q) = (q * a) * y /\ a * (c * z) = c * (a * z)
      BY <1>3, <2>1
    <3> QED
      BY <2>3, <2>4, <2>7, <2>13, <3>1, <3>2
  <2>8. CASE i = b
    <3>1. F[i] = 0 /\ G[i] = 0
      BY <2>1, <2>3, <2>4, <2>6, <2>8, <2>14
    <3> QED
      BY <1>3, <3>1, CongRefl
  <2>9. CASE i \notin S
    <3>1. F[i] = 0 /\ G[i] = 0
      BY <2>3, <2>4, <2>9, <2>13
    <3> QED
      BY <1>3, <3>1, CongRefl
  <2> QED
    BY <2>7, <2>8, <2>9, <2>13
<1> HIDE DEF T, F, G, Z, c
<1>5. H \in [1..n -> Int] /\ \A i \in 1..n : H[i] = c * G[i]
  <2>1. \A i \in 1..n : c * G[i] \in Int
    BY <1>2, <1>3
  <2>2. ASSUME NEW i \in 1..n
        PROVE  c * G[i] + Z[i] = c * G[i]
    <3> DEFINE t == c * G[i]
    <3>1. t \in Int /\ Z[i] = 0
      BY <1>3, <2>1
    <3> HIDE DEF t
    <3>2. t + Z[i] = t
      BY <3>1
    <3> QED
      BY <3>2 DEF t
  <2>3. \A i \in 1..n : H[i] = c * G[i]
    BY <2>2
  <2> QED
    BY <2>1, <2>2, <2>3
<1>6. Cong(Sum(F, n), Sum(H, n))
  <2>1. \A i \in 1..n : Cong(F[i], H[i])
    BY <1>4, <1>5
  <2> HIDE DEF H
  <2> QED
    BY <1>2, <1>5, <2>1, SumCong
<1>7. Sum(H, n) = c * Sum(G, n) + Sum(Z, n)
  BY <1>2, <1>3, SumLinear
<1>8. Sum(Z, n) = 0 /\ Sum(G, n) \in Int
  BY <1>2, <1>3, SumZero, SumType
<1>9. Sum(H, n) = c * Sum(G, n)
  <2> HIDE DEF H
  <2> QED
    BY <1>3, <1>7, <1>8
<1> QED
  BY <1>6, <1>9 DEF Combination, F, G, c, T
IsLinear(h, c, f, g) == \A t \in Int : h[t] = c * f[t] + g[t]
IsLinearAt(a, c, b, d) == a = c * b + d

(* A combination is linear in what it combines. *)
LEMMA CombinationLinear ==
  ASSUME NEW n \in Nat, NEW x \in [1..n -> Int], NEW S \in SUBSET (1..n),
         NEW w \in [1..n -> Int], NEW f \in [Int -> Int], NEW g \in [Int -> Int],
         NEW h \in [Int -> Int], NEW c \in Int, IsLinear(h, c, f, g)
  PROVE  IsLinearAt(Combination(h, w, x, n, S), c,
                    Combination(f, w, x, n, S), Combination(g, w, x, n, S))
<1> DEFINE F == Terms(f, w, x, n, S)
           G == Terms(g, w, x, n, S)
           H == Terms(h, w, x, n, S)
<1>1. F \in [1..n -> Int] /\ G \in [1..n -> Int] /\ H \in [1..n -> Int]
  BY TermsType
<1>2. ASSUME NEW i \in 1..n
      PROVE  H[i] = c * F[i] + G[i]
  <2> DEFINE p == f[x[i]]
             q == g[x[i]]
             r == h[x[i]]
             y == w[i]
  <2>1. x[i] \in Int /\ y \in Int
    OBVIOUS
  <2>2. p \in Int /\ q \in Int /\ r = c * p + q
    BY <2>1 DEF IsLinear
  <2>3. F[i] = IF i \in S THEN p * y ELSE 0
    BY DEF Terms
  <2>4. G[i] = IF i \in S THEN q * y ELSE 0
    BY DEF Terms
  <2>5. H[i] = IF i \in S THEN r * y ELSE 0
    BY DEF Terms
  <2> HIDE DEF p, q, r, y, F, G, H
  <2>6. (c * p + q) * y = c * (p * y) + q * y
    BY <2>1, <2>2
  <2>7. c * 0 + 0 = 0
    OBVIOUS
  <2> QED
    BY <2>2, <2>3, <2>4, <2>5, <2>6, <2>7
<1> HIDE DEF F, G, H
<1>3. H = [i \in 1..n |-> c * F[i] + G[i]]
  BY <1>1, <1>2
<1>4. Sum(H, n) = c * Sum(F, n) + Sum(G, n)
  BY <1>1, <1>3, SumLinear
<1> QED
  BY <1>4 DEF Combination, F, G, H, IsLinearAt

One == [t \in Int |-> 1]

(* The combination of one point. *)
LEMMA CombinationSingle ==
  ASSUME NEW n \in Nat, NEW x \in [1..n -> Int], NEW b \in 1..n,
         NEW w, IsWeights(w, x, n, {b})
  PROVE  Cong(Combination(One, w, x, n, {b}), 1)
<1> DEFINE F == [j \in 1..n |-> IF j \in {b} /\ j # b THEN x[b] - x[j] ELSE 1]
           G == [j \in 1..n |-> IF j \in {b} /\ j # b THEN -x[j] ELSE 1]
           H == Terms(One, w, x, n, {b})
<1>1. w \in [1..n -> Int] /\ w[b] \in Int
  BY DEF IsWeights
<1>2. Den(x, n, {b}, b) = 1
  <2>1. F \in [1..n -> Int] /\ \A j \in 1..n : F[j] = 1
    OBVIOUS
  <2>2. Den(x, n, {b}, b) = Product(F, n)
    BY DEF Den
  <2> HIDE DEF F
  <2> QED
    BY <2>1, <2>2, ProductOne
<1>3. Num(x, n, {b}, b) = 1
  <2>1. G \in [1..n -> Int] /\ \A j \in 1..n : G[j] = 1
    OBVIOUS
  <2>2. Num(x, n, {b}, b) = Product(G, n)
    BY DEF Num
  <2> HIDE DEF G
  <2> QED
    BY <2>1, <2>2, ProductOne
<1>4. Cong(w[b], 1)
  <2>1. Cong(w[b] * 1, 1)
    BY <1>2, <1>3 DEF IsWeights
  <2> QED
    BY <1>1, <2>1
<1>5. H \in [1..n -> Int]
  <2>1. One \in [Int -> Int] /\ {b} \in SUBSET (1..n)
    BY DEF One
  <2> QED
    BY <1>1, <2>1, TermsType
<1>6. ASSUME NEW i \in 1..n
      PROVE  H[i] = IF i = b THEN w[b] ELSE 0
  <2>1. x[i] \in Int /\ One[x[i]] = 1
    BY DEF One
  <2>2. H[i] = IF i \in {b} THEN One[x[i]] * w[i] ELSE 0
    BY DEF Terms
  <2> HIDE DEF H
  <2> QED
    BY <1>1, <2>1, <2>2
<1> HIDE DEF H
<1>7. Sum(H, n) = H[b]
  BY <1>5, <1>6, SumSingle
<1> QED
  BY <1>4, <1>6, <1>7 DEF Combination, H

(* The weights of any points add up to 1. *)
LEMMA WeightsUnity ==
  ASSUME NEW n \in Nat, NEW x \in [1..n -> Int]
  PROVE  \A S \in SUBSET (1..n) : Apart(x, S) /\ S # {} =>
           \A w : IsWeights(w, x, n, S) => Cong(Combination(One, w, x, n, S), 1)
<1> DEFINE Unity(S) == \A w : IsWeights(w, x, n, S) => Cong(Combination(One, w, x, n, S), 1)
           K == {k \in Nat : \A S \in SUBSET (1..n) :
                    Apart(x, S) /\ Cardinality(S) = k + 1 => Unity(S)}
<1> One \in [Int -> Int] /\ \A t \in Int : One[t] = 1
  BY DEF One
<1>1. \A S \in SUBSET (1..n) : IsFiniteSet(S)
  <2>1. IsFiniteSet(1..n)
    BY FS_Interval, 1 \in Int, n \in Int
  <2> QED
    BY <2>1, FS_Subset
<1>2. 0 \in K
  <2> SUFFICES ASSUME NEW S \in SUBSET (1..n), Cardinality(S) = 1
               PROVE  Unity(S)
    OBVIOUS
  <2>1. PICK b : S = {b}
    BY <1>1, FS_Singleton
  <2> QED
    BY <2>1, CombinationSingle
<1>3. ASSUME NEW k \in K
      PROVE  k + 1 \in K
  <2> SUFFICES ASSUME NEW S \in SUBSET (1..n), Apart(x, S), Cardinality(S) = k + 2,
                      NEW w, IsWeights(w, x, n, S)
               PROVE  Cong(Combination(One, w, x, n, S), 1)
    OBVIOUS
  <2>1. PICK a \in S, b \in S : a # b
    <3>1. k \in Nat /\ IsFiniteSet(S) /\ Cardinality(S) # 0 /\ Cardinality(S) # 1
      BY <1>1
    <3> HIDE DEF K
    <3>2. S # {}
      BY <3>1, FS_EmptySet
    <3>3. PICK a \in S : TRUE
      BY <3>2
    <3>4. S # {a}
      BY <3>1, FS_Singleton
    <3>5. PICK b \in S : b # a
      BY <3>3, <3>4
    <3> QED
      BY <3>3, <3>5
  <2> HIDE DEF Unity
  <2>2. \A c \in S : Unity(S \ {c}) /\ Apart(x, S \ {c})
    <3> SUFFICES ASSUME NEW c \in S PROVE Unity(S \ {c}) /\ Apart(x, S \ {c})
      OBVIOUS
    <3>1. S \ {c} \in SUBSET (1..n) /\ Apart(x, S \ {c})
      BY DEF Apart
    <3>2. Cardinality(S \ {c}) = k + 1
      <4>1. IsFiniteSet(S) /\ k \in Nat
        BY <1>1
      <4> HIDE DEF K
      <4>2. Cardinality(S \ {c}) = Cardinality(S) - 1
        BY <4>1, FS_RemoveElement
      <4> QED
        BY <4>1, <4>2
    <3> QED
      BY <1>3, <3>1, <3>2
  <2>3. ASSUME NEW c \in S
        PROVE  Cong(Combination([t \in Int |-> t - x[c]], w, x, n, S), -x[c])
    <3> DEFINE h == [t \in Int |-> t - x[c]]
               T == S \ {c}
    <3>1. x[c] \in Int
      OBVIOUS
    <3>2. h \in [Int -> Int] /\ \A t \in Int : h[t] = (t - x[c]) * One[t]
      BY <3>1
    <3>3. PICK v : IsWeights(v, x, n, T)
      <4>1. T \in SUBSET (1..n) /\ Apart(x, T)
        BY <2>2
      <4> HIDE DEF T
      <4> QED
        BY <4>1, WeightsExist
    <3> DEFINE C == Combination(h, w, x, n, S)
               D == Combination(One, v, x, n, T)
    <3>4. Cong(C, (-x[c]) * D)
      <4> HIDE DEF h
      <4> QED
        BY <3>2, <3>3, CombinationDrop
    <3>5. Cong(D, 1)
      BY <2>2, <3>3 DEF Unity
    <3>6. C \in Int /\ D \in Int
      <4>1. w \in [1..n -> Int] /\ v \in [1..n -> Int] /\ T \in SUBSET (1..n)
        BY <3>3 DEF IsWeights
      <4> HIDE DEF h, T
      <4> QED
        BY <3>2, <4>1, TermsType
    <3> HIDE DEF C, D, h, T
    <3>7. Cong((-x[c]) * D, (-x[c]) * 1)
      <4>1. -x[c] \in Int /\ Cong(-x[c], -x[c])
        BY <3>1, CongRefl
      <4> QED
        BY <3>5, <3>6, <4>1, CongMul
    <3>8. (-x[c]) * 1 = -x[c] /\ -x[c] \in Int /\ (-x[c]) * D \in Int
      BY <3>1, <3>6
    <3>9. Cong(C, -x[c])
      BY <3>4, <3>6, <3>7, <3>8, CongTrans
    <3> QED
      BY <3>9 DEF C, h
  <2> DEFINE ha == [t \in Int |-> t - x[a]]
             hb == [t \in Int |-> t - x[b]]
             q == x[a] - x[b]
             U == Combination(One, w, x, n, S)
             A == Combination(ha, w, x, n, S)
             B == Combination(hb, w, x, n, S)
  <2>4. x[a] \in Int /\ x[b] \in Int /\ q \in Int /\ w \in [1..n -> Int]
    BY DEF IsWeights
  <2>5. ha \in [Int -> Int] /\ hb \in [Int -> Int]
    BY <2>4
  <2>6. IsLinear(hb, q, One, ha)
    BY <2>4 DEF IsLinear
  <2>7. Cong(A, -x[a]) /\ Cong(B, -x[b])
    BY <2>3
  <2> HIDE DEF ha, hb, q
  <2>8. B = q * U + A
    <3>1. One \in [Int -> Int] /\ S \in SUBSET (1..n)
      OBVIOUS
    <3> HIDE DEF K, U, A, B
    <3>2. IsLinearAt(B, q, U, A)
      BY <2>4, <2>5, <2>6, <3>1, CombinationLinear DEF U, A, B
    <3> QED
      BY <3>2 DEF IsLinearAt
  <2>9. U \in Int /\ A \in Int /\ B \in Int
    BY <2>4, <2>5, TermsType
  <2> HIDE DEF U, A, B
  <2>10. ~Cong(q, 0)
    BY <2>1, <2>4, CongDiff DEF Apart, q
  <2>11. Cong(q * U, q * 1)
    <3>1. Cong((-1) * A, (-1) * (-x[a]))
      <4>1. -x[a] \in Int /\ -1 \in Int /\ Cong(-1, -1)
        BY <2>4, CongRefl
      <4> QED
        BY <2>7, <2>9, <4>1, CongMul
    <3>2. (-1) * A = -A /\ (-1) * (-x[a]) = x[a] /\ -A \in Int /\ -x[b] \in Int
      BY <2>4, <2>9
    <3>3. Cong(B + (-A), (-x[b]) + x[a])
      BY <2>4, <2>7, <2>9, <3>1, <3>2, CongAdd
    <3>4. q * U \in Int
      BY <2>4, <2>9
    <3>5. B + (-A) = q * U
      BY <2>8, <2>9, <3>4
    <3>6. (-x[b]) + x[a] = q * 1
      BY <2>4 DEF q
    <3> QED
      BY <3>3, <3>5, <3>6
  <2>12. Cong(U, 1)
    BY <2>4, <2>9, <2>10, <2>11, CongCancel
  <2> QED
    BY <2>12 DEF U
<1>4. K = Nat
  <2> HIDE DEF K
  <2> K \in SUBSET Nat
    BY DEF K
  <2> QED
    BY <1>2, <1>3, Induction
<1> SUFFICES ASSUME NEW S \in SUBSET (1..n), Apart(x, S), S # {}
             PROVE  Unity(S)
  OBVIOUS
<1>5. Cardinality(S) \in Nat /\ Cardinality(S) # 0
  BY <1>1, FS_CardinalityType, FS_EmptySet
<1>6. Cardinality(S) - 1 \in K
  BY <1>4, <1>5
<1> HIDE DEF Unity
<1> QED
  BY <1>5, <1>6

(* f(t) is c + t * g(t). *)
IsHorner(f, c, g) == \A t \in Int : f[t] = c + t * g[t]
Zero == [t \in Int |-> 0]

(* h is a way to the function f of a polynomial of k coefficients.         *)
IsChain(h, f, k) ==
  /\ h \in [0..k -> [Int -> Int]] /\ h[0] = Zero /\ h[k] = f
  /\ \A i \in 1..k : \E c \in Int : IsHorner(h[i], c, h[i - 1])
Poly(k) == {f \in [Int -> Int] : \E h : IsChain(h, f, k)}

(* A polynomial without coefficients is 0. *)
LEMMA PolyZero == Poly(0) = {Zero}
<1>1. Zero \in [Int -> Int]
  BY DEF Zero
<1>2. Zero \in Poly(0)
  <2> DEFINE h == [i \in 0..0 |-> Zero]
  <2>1. IsChain(h, Zero, 0)
    BY <1>1 DEF IsChain
  <2> QED
    BY <1>1, <2>1 DEF Poly
<1>3. ASSUME NEW f \in Poly(0)
      PROVE  f = Zero
  BY DEF Poly, IsChain
<1> QED
  BY <1>2, <1>3

(* Up and down one coefficient. *)
LEMMA PolyUp ==
  ASSUME NEW k \in Nat, NEW g \in Poly(k), NEW f \in [Int -> Int], NEW c \in Int, IsHorner(f, c, g)
  PROVE  f \in Poly(k + 1)
<1>1. PICK h : IsChain(h, g, k)
  BY DEF Poly
<1> DEFINE e == [i \in 0 .. k + 1 |-> IF i = k + 1 THEN f ELSE h[i]]
<1>2. /\ h \in [0..k -> [Int -> Int]] /\ h[0] = Zero /\ h[k] = g
      /\ \A i \in 1..k : \E d \in Int : IsHorner(h[i], d, h[i - 1])
  BY <1>1 DEF IsChain
<1>3. /\ e \in [0 .. k + 1 -> [Int -> Int]] /\ e[0] = Zero /\ e[k + 1] = f
      /\ \A i \in 0..k : e[i] = h[i]
  <2>1. \A i \in 0 .. k + 1 : e[i] \in [Int -> Int]
    <3> SUFFICES ASSUME NEW i \in 0 .. k + 1 PROVE e[i] \in [Int -> Int]
      OBVIOUS
    <3>1. CASE i = k + 1
      BY <3>1
    <3>2. CASE i \in 0..k
      BY <1>2, <3>2
    <3> QED
      BY <3>1, <3>2
  <2>2. k + 1 \in 0 .. k + 1 /\ \A i \in 0..k : i \in 0 .. k + 1 /\ i # k + 1
    OBVIOUS
  <2>3. e[k + 1] = f /\ \A i \in 0..k : e[i] = h[i]
    BY <2>2
  <2>4. e[0] = Zero
    BY <1>2, <2>3, 0 \in 0..k
  <2>5. e \in [0 .. k + 1 -> [Int -> Int]]
    BY <2>1
  <2> QED
    BY <2>3, <2>4, <2>5
<1>4. ASSUME NEW i \in 1 .. k + 1
      PROVE  \E d \in Int : IsHorner(e[i], d, e[i - 1])
  <2>1. CASE i = k + 1
    <3>1. e[i] = f /\ e[i - 1] = g
      BY <1>2, <2>1
    <3> QED
      BY <3>1
  <2>2. CASE i # k + 1
    <3>1. i \in 1..k /\ i \in 0..k /\ i - 1 \in 0..k
      BY <2>2
    <3> HIDE DEF e
    <3> QED
      BY <1>2, <1>3, <3>1
  <2> QED
    BY <2>1, <2>2
<1> HIDE DEF e
<1>5. IsChain(e, f, k + 1)
  BY <1>3, <1>4 DEF IsChain
<1> QED
  BY <1>5 DEF Poly

LEMMA PolyDown ==
  ASSUME NEW k \in Nat, NEW f \in Poly(k + 1)
  PROVE  \E g \in Poly(k), c \in Int : IsHorner(f, c, g)
<1>1. PICK h : IsChain(h, f, k + 1)
  BY DEF Poly
<1> DEFINE e == [i \in 0..k |-> h[i]]
           g == h[k]
<1>2. /\ h \in [0 .. k + 1 -> [Int -> Int]] /\ h[0] = Zero /\ h[k + 1] = f
      /\ \A i \in 1 .. k + 1 : \E d \in Int : IsHorner(h[i], d, h[i - 1])
  BY <1>1 DEF IsChain
<1>3. e \in [0..k -> [Int -> Int]] /\ e[0] = Zero /\ e[k] = g /\ g \in [Int -> Int]
  <2>1. \A i \in 0..k : i \in 0 .. k + 1
    OBVIOUS
  <2>2. \A i \in 0 .. k + 1 : h[i] \in [Int -> Int]
    BY <1>2
  <2>3. \A i \in 0..k : e[i] \in [Int -> Int]
    BY <2>1, <2>2
  <2>4. e \in [0..k -> [Int -> Int]]
    BY <2>3
  <2>5. 0 \in 0..k /\ k \in 0..k
    OBVIOUS
  <2> QED
    BY <1>2, <2>1, <2>2, <2>4, <2>5
<1>4. ASSUME NEW i \in 1..k
      PROVE  \E d \in Int : IsHorner(e[i], d, e[i - 1])
  <2>1. i \in 1 .. k + 1 /\ e[i] = h[i] /\ e[i - 1] = h[i - 1]
    OBVIOUS
  <2> HIDE DEF e
  <2> QED
    BY <1>2, <2>1
<1> HIDE DEF e
<1>5. IsChain(e, g, k)
  BY <1>3, <1>4 DEF IsChain
<1>6. g \in Poly(k)
  BY <1>3, <1>5 DEF Poly
<1>7. \E d \in Int : IsHorner(f, d, g)
  <2>1. k + 1 \in 1 .. k + 1 /\ (k + 1) - 1 = k
    OBVIOUS
  <2> QED
    BY <1>2, <2>1
<1> QED
  BY <1>6, <1>7

(* A polynomial is a function on the integers. *)
LEMMA PolyType == ASSUME NEW k, NEW f \in Poly(k) PROVE f \in [Int -> Int]
BY DEF Poly

(* Sums and multiples. *)
LEMMA PolyLinear ==
  ASSUME NEW n \in Nat
  PROVE  \A f, g \in Poly(n), c \in Int, h \in [Int -> Int] : IsLinear(h, c, f, g) => h \in Poly(n)
<1> DEFINE Closed(k) == \A f, g \in Poly(k), c \in Int, h \in [Int -> Int] :
                          IsLinear(h, c, f, g) => h \in Poly(k)
           K == {k \in Nat : Closed(k)}
<1>1. 0 \in K
  <2> SUFFICES ASSUME NEW c \in Int, NEW h \in [Int -> Int], IsLinear(h, c, Zero, Zero)
               PROVE  h = Zero
    BY PolyZero
  <2>1. \A t \in Int : h[t] = 0
    BY DEF IsLinear, Zero
  <2> QED
    BY <2>1 DEF Zero
<1>2. ASSUME NEW k \in K
      PROVE  k + 1 \in K
  <2> SUFFICES ASSUME NEW f \in Poly(k + 1), NEW g \in Poly(k + 1), NEW c \in Int,
                      NEW h \in [Int -> Int], IsLinear(h, c, f, g)
               PROVE  h \in Poly(k + 1)
    OBVIOUS
  <2>1. k \in Nat /\ Closed(k)
    OBVIOUS
  <2> HIDE DEF K
  <2>2. PICK ff \in Poly(k), fc \in Int : IsHorner(f, fc, ff)
    BY <2>1, PolyDown
  <2>3. PICK gg \in Poly(k), gc \in Int : IsHorner(g, gc, gg)
    BY <2>1, PolyDown
  <2>4. ff \in [Int -> Int] /\ gg \in [Int -> Int] /\ f \in [Int -> Int] /\ g \in [Int -> Int]
    BY PolyType
  <2> DEFINE hh == [t \in Int |-> c * ff[t] + gg[t]]
             hc == c * fc + gc
  <2>5. hh \in [Int -> Int] /\ hc \in Int /\ IsLinear(hh, c, ff, gg)
    BY <2>4 DEF IsLinear
  <2> HIDE DEF hh, hc
  <2>6. hh \in Poly(k)
    BY <2>1, <2>5
  <2>7. IsHorner(h, hc, hh)
    <3> SUFFICES ASSUME NEW t \in Int
                 PROVE  h[t] = hc + t * hh[t]
      BY DEF IsHorner
    <3> DEFINE a == ff[t]
               b == gg[t]
    <3>1. a \in Int /\ b \in Int
      BY <2>4
    <3>2. f[t] = fc + t * a /\ g[t] = gc + t * b /\ hh[t] = c * a + b
      BY <2>2, <2>3, <2>5 DEF IsHorner, IsLinear
    <3>3. h[t] = c * f[t] + g[t]
      BY DEF IsLinear
    <3> HIDE DEF a, b
    <3>4. c * (fc + t * a) + (gc + t * b) = (c * fc + gc) + t * (c * a + b)
      BY <3>1
    <3> QED
      BY <3>2, <3>3, <3>4 DEF hc
  <2> QED
    BY <2>1, <2>5, <2>6, <2>7, PolyUp
<1>3. K = Nat
  <2> HIDE DEF K
  <2> K \in SUBSET Nat
    BY DEF K
  <2> QED
    BY <1>1, <1>2, Induction
<1> QED
  BY <1>3

(* A polynomial of k coefficients is one of k + 1. *)
LEMMA PolyGrows ==
  ASSUME NEW n \in Nat
  PROVE  Poly(n) \subseteq Poly(n + 1)
<1> DEFINE K == {k \in Nat : Poly(k) \subseteq Poly(k + 1)}
<1>1. 0 \in K
  <2>1. Zero \in [Int -> Int] /\ IsHorner(Zero, 0, Zero)
    BY DEF Zero, IsHorner
  <2>2. Zero \in Poly(0) /\ 0 \in Nat
    BY PolyZero
  <2>3. Zero \in Poly(0 + 1)
    BY <2>1, <2>2, PolyUp
  <2> QED
    BY <2>3, PolyZero
<1>2. ASSUME NEW k \in K
      PROVE  k + 1 \in K
  <2> SUFFICES ASSUME NEW f \in Poly(k + 1)
               PROVE  f \in Poly((k + 1) + 1)
    OBVIOUS
  <2>1. k \in Nat /\ k + 1 \in Nat /\ Poly(k) \subseteq Poly(k + 1)
    OBVIOUS
  <2> HIDE DEF K
  <2>2. PICK g \in Poly(k), c \in Int : IsHorner(f, c, g)
    BY <2>1, PolyDown
  <2>3. f \in [Int -> Int] /\ g \in Poly(k + 1)
    BY <2>1, PolyType
  <2> QED
    BY <2>1, <2>2, <2>3, PolyUp
<1>3. K = Nat
  <2> HIDE DEF K
  <2> K \in SUBSET Nat
    BY DEF K
  <2> QED
    BY <1>1, <1>2, Induction
<1> QED
  BY <1>3

(* f(t) is f(b) + (t - b) * g(t). *)
IsFactored(f, b, v, g) == \A t \in Int : f[t] = v + (t - b) * g[t]

LEMMA PolyFactor ==
  ASSUME NEW b \in Int, NEW n \in Nat
  PROVE  \A f \in Poly(n + 1) : \E g \in Poly(n) : IsFactored(f, b, f[b], g)
<1> DEFINE K == {k \in Nat : \A f \in Poly(k + 1) : \E g \in Poly(k) : IsFactored(f, b, f[b], g)}
<1>1. 0 \in K
  <2> SUFFICES ASSUME NEW f \in Poly(0 + 1)
               PROVE  IsFactored(f, b, f[b], Zero)
    BY PolyZero
  <2>1. PICK c \in Int : IsHorner(f, c, Zero)
    BY PolyDown, PolyZero, 0 \in Nat
  <2>2. \A t \in Int : f[t] = c /\ t * 0 = 0 /\ (t - b) * 0 = 0
    BY <2>1 DEF IsHorner, Zero
  <2> QED
    BY <2>2 DEF IsFactored, Zero
<1>2. ASSUME NEW k \in K
      PROVE  k + 1 \in K
  <2> SUFFICES ASSUME NEW f \in Poly((k + 1) + 1)
               PROVE  \E g \in Poly(k + 1) : IsFactored(f, b, f[b], g)
    OBVIOUS
  <2>1. k \in Nat /\ k + 1 \in Nat /\ \A e \in Poly(k + 1) : \E g \in Poly(k) : IsFactored(e, b, e[b], g)
    OBVIOUS
  <2> HIDE DEF K
  <2>2. PICK e \in Poly(k + 1), c \in Int : IsHorner(f, c, e)
    BY <2>1, PolyDown
  <2>3. PICK h \in Poly(k) : IsFactored(e, b, e[b], h)
    BY <2>1
  <2>4. h \in [Int -> Int] /\ e \in [Int -> Int] /\ e[b] \in Int /\ f \in [Int -> Int]
    BY PolyType
  <2> DEFINE v == e[b]
             g == [t \in Int |-> v + t * h[t]]
  <2>5. v \in Int /\ g \in [Int -> Int] /\ IsHorner(g, v, h)
    BY <2>4 DEF IsHorner
  <2> HIDE DEF v, g
  <2>6. g \in Poly(k + 1)
    BY <2>1, <2>5, PolyUp
  <2>7. IsFactored(f, b, f[b], g)
    <3> SUFFICES ASSUME NEW t \in Int
                 PROVE  f[t] = f[b] + (t - b) * g[t]
      BY DEF IsFactored
    <3> DEFINE a == h[t]
    <3>1. a \in Int
      BY <2>4
    <3>2. f[t] = c + t * e[t] /\ f[b] = c + b * v /\ e[t] = v + (t - b) * a /\ g[t] = v + t * a
      BY <2>2, <2>3, <2>5 DEF IsHorner, IsFactored, v
    <3> HIDE DEF a
    <3>3. c + t * (v + (t - b) * a) = (c + b * v) + (t - b) * (v + t * a)
      BY <2>5, <3>1
    <3> QED
      BY <3>2, <3>3
  <2> QED
    BY <2>6, <2>7
<1>3. K = Nat
  <2> HIDE DEF K
  <2> K \in SUBSET Nat
    BY DEF K
  <2> QED
    BY <1>1, <1>2, Induction
<1> QED
  BY <1>3

(* And back: c + (t - b) * g(t) is a polynomial. *)
LEMMA PolyUnfactor ==
  ASSUME NEW n \in Nat, NEW b \in Int, NEW v \in Int, NEW g \in Poly(n),
         NEW f \in [Int -> Int], IsFactored(f, b, v, g)
  PROVE  f \in Poly(n + 1)
<1> DEFINE h == [t \in Int |-> v + t * g[t]]
<1>1. g \in [Int -> Int] /\ g \in Poly(n + 1)
  BY PolyGrows, PolyType
<1>2. h \in [Int -> Int] /\ IsHorner(h, v, g)
  BY <1>1 DEF IsHorner
<1> HIDE DEF h
<1>3. h \in Poly(n + 1)
  BY <1>2, PolyUp
<1>4. -b \in Int /\ IsLinear(f, -b, g, h)
  <2> SUFFICES ASSUME NEW t \in Int
               PROVE  f[t] = (-b) * g[t] + h[t]
    BY DEF IsLinear
  <2> DEFINE a == g[t]
  <2>1. a \in Int /\ f[t] = v + (t - b) * a /\ h[t] = v + t * a
    BY <1>1, <1>2 DEF IsFactored, IsHorner
  <2> HIDE DEF a
  <2>2. v + (t - b) * a = (-b) * a + (v + t * a)
    BY <2>1
  <2> QED
    BY <2>1, <2>2 DEF a
<1> QED
  BY <1>1, <1>3, <1>4, PolyLinear
(* Any k points of a polynomial of k coefficients give its value at 0.     *)
LEMMA Interpolation ==
  ASSUME NEW n \in Nat, NEW x \in [1..n -> Int], NEW d \in Nat
  PROVE  \A f \in Poly(d), S \in SUBSET (1..n) : \A w :
           Apart(x, S) /\ Cardinality(S) >= d /\ IsWeights(w, x, n, S)
             => Cong(Combination(f, w, x, n, S), f[0])
<1> DEFINE Meets(k) ==
             \A f \in Poly(k), S \in SUBSET (1..n) : \A w :
               Apart(x, S) /\ Cardinality(S) >= k /\ IsWeights(w, x, n, S)
                 => Cong(Combination(f, w, x, n, S), f[0])
           K == {k \in Nat : Meets(k)}
<1>1. 0 \in K
  <2> SUFFICES ASSUME NEW S \in SUBSET (1..n), NEW w, IsWeights(w, x, n, S)
               PROVE  Cong(Combination(Zero, w, x, n, S), Zero[0])
    BY PolyZero
  <2>1. w \in [1..n -> Int] /\ Zero \in [Int -> Int] /\ \A t \in Int : Zero[t] = 0
    BY DEF IsWeights, Zero
  <2> DEFINE F == Terms(Zero, w, x, n, S)
  <2>2. F \in [1..n -> Int]
    BY <2>1, TermsType
  <2>3. ASSUME NEW i \in 1..n
        PROVE  F[i] = 0
    <3>1. x[i] \in Int /\ w[i] \in Int
      BY <2>1
    <3>2. F[i] = IF i \in S THEN Zero[x[i]] * w[i] ELSE 0
      BY DEF Terms
    <3>3. 0 * w[i] = 0
      BY <3>1
    <3> QED
      BY <2>1, <3>1, <3>2, <3>3
  <2> HIDE DEF F
  <2>4. Sum(F, n) = 0
    BY <2>2, <2>3, SumZero
  <2> QED
    BY <2>1, <2>4, CongRefl DEF Combination, F
<1>2. ASSUME NEW k \in K
      PROVE  k + 1 \in K
  <2> SUFFICES ASSUME NEW f \in Poly(k + 1), NEW S \in SUBSET (1..n), Apart(x, S),
                      Cardinality(S) >= k + 1, NEW w, IsWeights(w, x, n, S)
               PROVE  Cong(Combination(f, w, x, n, S), f[0])
    OBVIOUS
  <2>1. k \in Nat /\ Meets(k) /\ w \in [1..n -> Int]
    BY DEF IsWeights
  <2> HIDE DEF K
  <2>2. IsFiniteSet(S)
    <3>1. IsFiniteSet(1..n)
      BY FS_Interval, 1 \in Int, n \in Int
    <3> QED
      BY <3>1, FS_Subset
  <2>3. S # {}
    BY <2>1, <2>2, FS_EmptySet
  <2>4. PICK c \in S : TRUE
    BY <2>3
  <2> DEFINE b == x[c]
             T == S \ {c}
             v == f[b]
  <2>5. b \in Int /\ T \in SUBSET (1..n) /\ Apart(x, T) /\ f \in [Int -> Int] /\ v \in Int
    BY PolyType DEF Apart
  <2>6. Cardinality(T) >= k
    <3>1. Cardinality(T) = Cardinality(S) - 1 /\ Cardinality(S) \in Nat
      BY <2>2, FS_RemoveElement, FS_CardinalityType
    <3> QED
      BY <2>1, <3>1
  <2>7. PICK g \in Poly(k) : IsFactored(f, b, v, g)
    BY <2>1, <2>5, PolyFactor
  <2>8. PICK u : IsWeights(u, x, n, T)
    BY <2>5, WeightsExist
  <2>9. g \in [Int -> Int] /\ g[0] \in Int /\ f[0] \in Int
    <3>1. g \in [Int -> Int] /\ f \in [Int -> Int]
      BY PolyType
    <3> QED
      BY <3>1, 0 \in Int
  <2> DEFINE h == [t \in Int |-> (t - b) * g[t]]
             A == Combination(f, w, x, n, S)
             B == Combination(h, w, x, n, S)
             C == Combination(g, u, x, n, T)
             U == Combination(One, w, x, n, S)
  <2>10. h \in [Int -> Int] /\ \A t \in Int : h[t] = (t - b) * g[t]
    <3>1. ASSUME NEW t \in Int
          PROVE  (t - b) * g[t] \in Int
      <4> HIDE DEF b
      <4>1. g[t] \in Int
        BY <2>9
      <4>2. t - b \in Int
        BY <2>5
      <4> QED
        BY <4>1, <4>2
    <3> QED
      BY <3>1
  <2>11. One \in [Int -> Int] /\ \A t \in Int : One[t] = 1
    BY DEF One
  <2>12. IsLinear(f, v, One, h)
    <3> SUFFICES ASSUME NEW t \in Int
                 PROVE  f[t] = v * One[t] + h[t]
      BY DEF IsLinear
    <3>1. f[t] = v + (t - b) * g[t] /\ h[t] = (t - b) * g[t] /\ One[t] = 1
      BY <2>7, <2>10, <2>11 DEF IsFactored
    <3>2. v * 1 = v
      BY <2>5
    <3> QED
      BY <3>1, <3>2
  <2> HIDE DEF h, v, T
  <2>13. A \in Int /\ B \in Int /\ U \in Int /\ C \in Int
    <3>1. u \in [1..n -> Int]
      BY <2>8 DEF IsWeights
    <3> QED
      BY <2>1, <2>5, <2>9, <2>10, <2>11, <3>1, TermsType
  <2>14. IsLinearAt(A, v, U, B)
    BY <2>1, <2>5, <2>10, <2>11, <2>12, CombinationLinear
  <2>15. Cong(U, 1)
    BY <2>3, WeightsUnity
  <2>16. Cong(B, (-b) * C)
    BY <2>8, <2>9, <2>10, CombinationDrop DEF T
  <2>17. Cong(C, g[0])
    BY <2>1, <2>5, <2>6, <2>8
  <2> HIDE DEF A, B, C, U, b
  <2>18. Cong((-b) * C, (-b) * g[0])
    <3>1. -b \in Int /\ Cong(-b, -b)
      BY <2>5, CongRefl
    <3> QED
      BY <2>9, <2>13, <2>17, <3>1, CongMul
  <2>19. Cong(v * U, v * 1)
    <3>1. Cong(v, v) /\ 1 \in Int
      BY <2>5, CongRefl
    <3> QED
      BY <2>5, <2>13, <2>15, <3>1, CongMul
  <2>20. (-b) * C \in Int /\ (-b) * g[0] \in Int /\ v * U \in Int /\ v * 1 \in Int
    BY <2>5, <2>9, <2>13
  <2>21. Cong(B, (-b) * g[0])
    BY <2>13, <2>16, <2>18, <2>20, CongTrans
  <2>22. Cong(v * U + B, v * 1 + (-b) * g[0])
    BY <2>13, <2>19, <2>20, <2>21, CongAdd
  <2>23. f[0] = v * 1 + (-b) * g[0]
    <3>1. f[0] = v + (0 - b) * g[0]
      BY <2>7, 0 \in Int DEF IsFactored
    <3>2. 0 - b = -b /\ v * 1 = v
      BY <2>5
    <3> QED
      BY <3>1, <3>2
  <2> QED
    BY <2>14, <2>22, <2>23 DEF IsLinearAt, A
<1>3. K = Nat
  <2> HIDE DEF K
  <2> K \in SUBSET Nat
    BY DEF K
  <2> QED
    BY <1>1, <1>2, Induction
<1> QED
  BY <1>3

IsPowers(p, n) ==
  /\ p \in [0..n -> [Int -> Int]] /\ p[0] = One
  /\ \A i \in 1..n : \A t \in Int : p[i][t] = t * p[i - 1][t]

(* The powers of a point, as the loop of evaluate makes them. *)
LEMMA PowersExist ==
  ASSUME NEW n \in Nat
  PROVE  \E p : IsPowers(p, n)
<1> DEFINE step == [i \in 1..n |-> [f \in [Int -> Int] |-> [t \in Int |-> t * f[t]]]]
           A == [Int -> Int]
<1>1. IsLoop(A, step, One, n)
  <2>1. One \in A
    BY DEF One
  <2>2. ASSUME NEW f \in A
        PROVE  [t \in Int |-> t * f[t]] \in A
    <3>1. ASSUME NEW t \in Int
          PROVE  t * f[t] \in Int
      <4>1. f[t] \in Int
        OBVIOUS
      <4> QED
        BY <4>1
    <3> QED
      BY <3>1
  <2>3. step \in [1..n -> [A -> A]]
    BY <2>2
  <2> QED
    BY <2>1, <2>3 DEF IsLoop
<1>2. PICK p : IsTrace(p, A, step, One, n)
  BY <1>1, LoopUnrolls
<1>3. p \in [0..n -> A] /\ p[0] = One /\ \A i \in 1..n : p[i] = step[i][p[i - 1]]
  BY <1>2 DEF IsTrace
<1>4. ASSUME NEW i \in 1..n, NEW t \in Int
      PROVE  p[i][t] = t * p[i - 1][t]
  <2> DEFINE f == p[i - 1]
  <2>1. i - 1 \in 0..n
    OBVIOUS
  <2> HIDE DEF A, step
  <2>2. f \in A
    BY <1>3, <2>1
  <2> HIDE DEF f
  <2>3. step[i][f] = [q \in Int |-> q * f[q]]
    BY <2>2 DEF step, A
  <2>4. p[i] = [q \in Int |-> q * f[q]]
    BY <1>3, <2>3 DEF f
  <2> QED
    BY <2>4 DEF f
<1> HIDE DEF step
<1> QED
  BY <1>3, <1>4 DEF IsPowers

(* s[i] is the polynomial of the first i coefficients c.                   *)
IsPartial(s, c, p, n) ==
  /\ s \in [0..n -> [Int -> Int]] /\ s[0] = Zero
  /\ \A i \in 1..n : \A t \in Int : s[i][t] = s[i - 1][t] + c[i] * p[i - 1][t]

EvaluateStep(a, x) == [i \in DOMAIN a |-> [acc \in [y : Int, xPow : Int] |->
               [y    |-> mod(acc.y + mod(a[i] * acc.xPow, ORDER), ORDER),
                xPow |-> mod(acc.xPow * x, ORDER)]]]

(* What mod returns. *)
LEMMA ModScalar == \A a \in Int : mod(a, ORDER) \in Int /\ mod(a, ORDER) \in Scalars /\ Cong(mod(a, ORDER), a)
BY ModCong, OrderPositive DEF Scalars

(* The loop of evaluate, round by round. *)
LEMMA EvaluateUnrolls ==
  ASSUME NEW a \in Seq(Int), NEW x \in Int
  PROVE  \E acc \in [0 .. Len(a) -> [y : Int, xPow : Int]] :
           /\ acc[0] = [y |-> 0, xPow |-> 1]
           /\ acc[Len(a)].y = Evaluate(a, x)
           /\ \A i \in 1 .. Len(a) : acc[i] =
                [y    |-> mod(acc[i - 1].y + mod(a[i] * acc[i - 1].xPow, ORDER), ORDER),
                 xPow |-> mod(acc[i - 1].xPow * x, ORDER)]
<1> DEFINE A == [y : Int, xPow : Int]
           n == Len(a)
           step == EvaluateStep(a, x)
           base == [y |-> 0, xPow |-> 1]
           After(i, r) == [y    |-> mod(r.y + mod(a[i] * r.xPow, ORDER), ORDER),
                           xPow |-> mod(r.xPow * x, ORDER)]
<1>1. n \in Nat /\ DOMAIN a = 1..n /\ \A i \in 1..n : a[i] \in Int
  OBVIOUS
<1>2. step = [i \in 1..n |-> [acc \in A |-> After(i, acc)]]
  BY <1>1 DEF EvaluateStep
<1>3. ASSUME NEW i \in 1..n, NEW acc \in A
      PROVE  After(i, acc) \in A
  <2>1. a[i] \in Int /\ acc.y \in Int /\ acc.xPow \in Int
    BY <1>1
  <2>2. a[i] * acc.xPow \in Int /\ acc.xPow * x \in Int
    BY <2>1
  <2>3. mod(a[i] * acc.xPow, ORDER) \in Int /\ mod(acc.xPow * x, ORDER) \in Int
    BY <2>2, ModScalar
  <2>4. acc.y + mod(a[i] * acc.xPow, ORDER) \in Int
    BY <2>1, <2>3
  <2>5. mod(acc.y + mod(a[i] * acc.xPow, ORDER), ORDER) \in Int
    BY <2>4, ModScalar
  <2> QED
    BY <2>3, <2>5
<1>4. Evaluate(a, x) = Loop(step, base, n).y
  BY DEF Evaluate, EvaluateStep
<1> HIDE DEF After, n
<1>5. step \in [1..n -> [A -> A]] /\ \A i \in 1..n, acc \in A : step[i][acc] = After(i, acc)
  BY <1>2, <1>3
<1> HIDE DEF step
<1>6. PICK acc : IsTrace(acc, A, step, base, n)
  <2>1. IsLoop(A, step, base, n)
    BY <1>1, <1>5 DEF IsLoop
  <2> QED
    BY <2>1, LoopUnrolls
<1>7. /\ acc \in [0..n -> A] /\ acc[0] = base /\ acc[n] = Loop(step, base, n)
      /\ \A i \in 1..n : acc[i] = step[i][acc[i - 1]]
  BY <1>6 DEF IsTrace
<1>8. ASSUME NEW i \in 1..n
      PROVE  acc[i] = After(i, acc[i - 1])
  <2>1. acc[i - 1] \in A
    BY <1>1, <1>7
  <2> QED
    BY <1>5, <1>7, <2>1
<1> QED
  BY <1>4, <1>7, <1>8 DEF After, n

(* What the loop makes of integers are integers. *)
LEMMA EvaluateType ==
  ASSUME NEW a \in Seq(Int), NEW x \in Int
  PROVE  Evaluate(a, x) \in Scalars
<1> DEFINE n == Len(a)
<1>1. PICK acc \in [0..n -> [y : Int, xPow : Int]] :
           /\ acc[0] = [y |-> 0, xPow |-> 1]
           /\ acc[n].y = Evaluate(a, x)
           /\ \A i \in 1..n : acc[i] =
                [y    |-> mod(acc[i - 1].y + mod(a[i] * acc[i - 1].xPow, ORDER), ORDER),
                 xPow |-> mod(acc[i - 1].xPow * x, ORDER)]
  BY EvaluateUnrolls
<1>2. n \in Nat
  OBVIOUS
<1> HIDE DEF n
<1>3. CASE n = 0
  BY <1>1, <1>3, OrderPositive DEF Scalars
<1>4. CASE n # 0
  <2> DEFINE r == acc[n - 1]
  <2>1. n \in 1..n /\ n - 1 \in 0..n
    BY <1>2, <1>4
  <2>2. a[n] \in Int
    BY <2>1 DEF n
  <2>3. r \in [y : Int, xPow : Int]
    BY <1>1, <2>1
  <2>4. acc[n] = [y    |-> mod(acc[n - 1].y + mod(a[n] * acc[n - 1].xPow, ORDER), ORDER),
                  xPow |-> mod(acc[n - 1].xPow * x, ORDER)]
    BY <1>1, <2>1
  <2> DEFINE e == mod(a[n] * r.xPow, ORDER)
  <2>5. Evaluate(a, x) = mod(r.y + e, ORDER)
    BY <1>1, <2>4
  <2> HIDE DEF r
  <2>6. r.y \in Int /\ r.xPow \in Int
    BY <2>3
  <2>7. a[n] * r.xPow \in Int
    BY <2>2, <2>6
  <2>8. e \in Int
    BY <2>7, ModScalar
  <2> HIDE DEF e
  <2>9. r.y + e \in Int
    BY <2>6, <2>8
  <2> QED
    BY <2>5, <2>9, ModScalar
<1> QED
  BY <1>3, <1>4

(* It is congruent to the sum of the coefficients with their powers.       *)
LEMMA EvaluateCong ==
  ASSUME NEW a \in Seq(Int), NEW c \in [1 .. Len(a) -> Int],
         \A i \in 1 .. Len(a) : Cong(a[i], c[i]),
         NEW p, IsPowers(p, Len(a)), NEW s, IsPartial(s, c, p, Len(a)), NEW x \in Int
  PROVE  Cong(Evaluate(a, x), s[Len(a)][x])
<1> DEFINE n == Len(a)
<1>1. PICK acc \in [0..n -> [y : Int, xPow : Int]] :
           /\ acc[0] = [y |-> 0, xPow |-> 1]
           /\ acc[n].y = Evaluate(a, x)
           /\ \A i \in 1..n : acc[i] =
                [y    |-> mod(acc[i - 1].y + mod(a[i] * acc[i - 1].xPow, ORDER), ORDER),
                 xPow |-> mod(acc[i - 1].xPow * x, ORDER)]
  BY EvaluateUnrolls
<1>2. n \in Nat /\ \A i \in 1..n : a[i] \in Int /\ c[i] \in Int /\ Cong(a[i], c[i])
  OBVIOUS
<1>3. /\ p \in [0..n -> [Int -> Int]] /\ p[0] = One
      /\ \A i \in 1..n : \A t \in Int : p[i][t] = t * p[i - 1][t]
      /\ s \in [0..n -> [Int -> Int]] /\ s[0] = Zero
      /\ \A i \in 1..n : \A t \in Int : s[i][t] = s[i - 1][t] + c[i] * p[i - 1][t]
  BY DEF IsPowers, IsPartial
<1> HIDE DEF n
<1> DEFINE S == {i \in 0..n : Cong(acc[i].y, s[i][x]) /\ Cong(acc[i].xPow, p[i][x])}
<1>4. 0 \in S
  <2>1. s[0][x] = 0 /\ p[0][x] = 1
    BY <1>3 DEF One, Zero
  <2> QED
    BY <1>1, <1>2, <2>1, CongRefl
<1>5. ASSUME NEW i \in 0 .. n - 1, i \in S
      PROVE  i + 1 \in S
  <2> DEFINE j == i + 1
             y == acc[i].y
             q == acc[i].xPow
             sx == s[i][x]
             px == p[i][x]
             e == mod(a[j] * q, ORDER)
  <2>1. j \in 1..n /\ i \in 0..n /\ j - 1 = i /\ j \in 0..n
    BY <1>2
  <2>2. y \in Int /\ q \in Int /\ a[j] \in Int /\ c[j] \in Int /\ Cong(a[j], c[j])
    BY <1>1, <1>2, <2>1
  <2>3. sx \in Int /\ px \in Int /\ Cong(y, sx) /\ Cong(q, px)
    BY <1>3, <1>5, <2>1
  <2>4. acc[j] = [y |-> mod(y + e, ORDER), xPow |-> mod(q * x, ORDER)]
    BY <1>1, <2>1
  <2>5. s[j][x] = sx + c[j] * px /\ p[j][x] = x * px
    BY <1>3, <2>1
  <2> HIDE DEF y, q, sx, px, j
  <2>6. a[j] * q \in Int /\ c[j] * px \in Int /\ q * x \in Int /\ px * x \in Int
    BY <2>2, <2>3
  <2>7. Cong(a[j] * q, c[j] * px) /\ Cong(q * x, px * x)
    BY <2>2, <2>3, CongRefl, CongMul
  <2>8. e \in Int /\ Cong(e, a[j] * q) /\ mod(q * x, ORDER) \in Int
        /\ Cong(mod(q * x, ORDER), q * x)
    BY <2>6, ModScalar
  <2> HIDE DEF e
  <2>9. Cong(e, c[j] * px) /\ Cong(mod(q * x, ORDER), px * x)
    BY <2>6, <2>7, <2>8, CongTrans
  <2>10. Cong(y + e, sx + c[j] * px)
    BY <2>2, <2>3, <2>6, <2>8, <2>9, CongAdd
  <2>11. y + e \in Int /\ sx + c[j] * px \in Int
    BY <2>2, <2>3, <2>6, <2>8
  <2>12. mod(y + e, ORDER) \in Int /\ Cong(mod(y + e, ORDER), y + e)
    BY <2>11, ModScalar
  <2>13. Cong(mod(y + e, ORDER), sx + c[j] * px)
    BY <2>10, <2>11, <2>12, CongTrans
  <2>14. px * x = x * px
    BY <2>3
  <2>15. Cong(acc[j].y, s[j][x]) /\ Cong(acc[j].xPow, p[j][x])
    BY <2>4, <2>5, <2>9, <2>13, <2>14
  <2> QED
    BY <2>1, <2>15 DEF j
<1>6. n \in S
  <2> HIDE DEF S
  <2>1. 0..n \subseteq S
    BY <1>2, <1>4, <1>5, BoundedInduction, Zenon
  <2> QED
    BY <1>2, <2>1
<1> QED
  BY <1>1, <1>6 DEF n

(* The partial sums as functions of the point. *)
LEMMA PartialExists ==
  ASSUME NEW n \in Nat, NEW c \in [1..n -> Int], NEW p, IsPowers(p, n)
  PROVE  \E s : IsPartial(s, c, p, n)
<1> DEFINE A == [Int -> Int]
           More(i, f) == [t \in Int |-> f[t] + c[i] * p[i - 1][t]]
           step == [i \in 1..n |-> [f \in A |-> More(i, f)]]
<1>1. ASSUME NEW i \in 1..n, NEW f \in A
      PROVE  More(i, f) \in A
  <2> DEFINE q == p[i - 1]
             d == c[i]
  <2>1. q \in [Int -> Int] /\ d \in Int
    <3>1. i - 1 \in 0..n /\ d \in Int
      OBVIOUS
    <3>2. p \in [0..n -> [Int -> Int]]
      BY DEF IsPowers
    <3> QED
      BY <3>1, <3>2
  <2> HIDE DEF q, d
  <2>2. ASSUME NEW t \in Int
        PROVE  f[t] + d * q[t] \in Int
    <3>1. f[t] \in Int /\ q[t] \in Int
      BY <2>1
    <3>2. d * q[t] \in Int
      BY <2>1, <3>1
    <3> QED
      BY <3>1, <3>2
  <2>3. More(i, f) = [t \in Int |-> f[t] + d * q[t]]
    BY DEF q, d
  <2> HIDE DEF More
  <2> QED
    BY <2>2, <2>3
<1> HIDE DEF More
<1>2. step \in [1..n -> [A -> A]] /\ \A i \in 1..n, f \in A : step[i][f] = More(i, f)
  BY <1>1
<1>3. Zero \in A
  BY DEF Zero
<1> HIDE DEF step
<1>4. IsLoop(A, step, Zero, n)
  BY <1>2, <1>3 DEF IsLoop
<1>5. PICK s : IsTrace(s, A, step, Zero, n)
  BY <1>4, LoopUnrolls
<1>6. s \in [0..n -> A] /\ s[0] = Zero /\ \A i \in 1..n : s[i] = step[i][s[i - 1]]
  BY <1>5 DEF IsTrace
<1>7. ASSUME NEW i \in 1..n, NEW t \in Int
      PROVE  s[i][t] = s[i - 1][t] + c[i] * p[i - 1][t]
  <2>1. i - 1 \in 0..n
    OBVIOUS
  <2> DEFINE f == s[i - 1]
  <2> HIDE DEF A
  <2>2. f \in A
    BY <1>6, <2>1
  <2> HIDE DEF f
  <2>3. s[i] = More(i, f)
    BY <1>2, <1>6, <2>2 DEF f
  <2> QED
    BY <2>3 DEF More, f
<1> QED
  BY <1>6, <1>7 DEF IsPartial

(* A power with its coefficient is a polynomial. *)
LEMMA PowersPoly ==
  ASSUME NEW n \in Nat, NEW p, IsPowers(p, n)
  PROVE  \A i \in 0..n : p[i] \in Poly(i + 1) /\ p[i][0] = IF i = 0 THEN 1 ELSE 0
<1> DEFINE S == {i \in 0..n : p[i] \in Poly(i + 1) /\ p[i][0] = IF i = 0 THEN 1 ELSE 0}
<1>1. /\ p \in [0..n -> [Int -> Int]] /\ p[0] = One
      /\ \A i \in 1..n : \A t \in Int : p[i][t] = t * p[i - 1][t]
  BY DEF IsPowers
<1>2. 0 \in S
  <2>1. One \in [Int -> Int] /\ IsHorner(One, 1, Zero) /\ One[0] = 1
    BY DEF One, Zero, IsHorner
  <2>2. One \in Poly(0 + 1)
    <3>1. Zero \in Poly(0) /\ 0 \in Nat /\ 1 \in Int
      BY PolyZero
    <3> QED
      BY <2>1, <3>1, PolyUp
  <2> QED
    BY <1>1, <2>1, <2>2
<1>3. ASSUME NEW i \in 0 .. n - 1, i \in S
      PROVE  i + 1 \in S
  <2>1. i + 1 \in 1..n /\ i + 1 \in 0..n /\ (i + 1) - 1 = i /\ i + 1 \in Nat /\ i \in 0..n
    OBVIOUS
  <2> DEFINE f == p[i + 1]
             g == p[i]
  <2>2. f \in [Int -> Int] /\ g \in [Int -> Int] /\ \A t \in Int : f[t] = t * g[t]
    BY <1>1, <2>1
  <2>3. g \in Poly(i + 1)
    BY <1>3
  <2> HIDE DEF f, g
  <2>4. IsHorner(f, 0, g)
    BY <2>2 DEF IsHorner
  <2>5. f \in Poly((i + 1) + 1)
    BY <2>1, <2>2, <2>3, <2>4, PolyUp
  <2>6. f[0] = 0
    <3>1. g[0] \in Int /\ f[0] = 0 * g[0]
      BY <2>2, 0 \in Int
    <3> QED
      BY <3>1
  <2> QED
    BY <2>1, <2>5, <2>6 DEF f
<1>4. 0..n \subseteq S
  <2> HIDE DEF S
  <2> QED
    BY <1>2, <1>3, BoundedInduction, Zenon
<1> QED
  BY <1>4

(* The partial sums are polynomials. *)
LEMMA PartialPoly ==
  ASSUME NEW n \in Nat, NEW c \in [1..n -> Int], NEW p, IsPowers(p, n),
         NEW s, IsPartial(s, c, p, n)
  PROVE  \A i \in 0..n : s[i] \in Poly(i) /\ s[i][0] = IF i = 0 THEN 0 ELSE c[1]
<1> DEFINE S == {i \in 0..n : s[i] \in Poly(i) /\ s[i][0] = IF i = 0 THEN 0 ELSE c[1]}
<1>1. /\ s \in [0..n -> [Int -> Int]] /\ s[0] = Zero
      /\ \A i \in 1..n : \A t \in Int : s[i][t] = s[i - 1][t] + c[i] * p[i - 1][t]
  BY DEF IsPartial
<1>2. 0 \in S
  <2>1. Zero[0] = 0 /\ Zero \in Poly(0)
    BY PolyZero DEF Zero
  <2>2. s[0] \in Poly(0) /\ s[0][0] = 0
    BY <1>1, <2>1, Zenon
  <2>3. 0 \in 0..n
    OBVIOUS
  <2> QED
    BY <2>2, <2>3
<1>3. ASSUME NEW i \in 0 .. n - 1, i \in S
      PROVE  i + 1 \in S
  <2>1. i + 1 \in 1..n /\ i + 1 \in 0..n /\ (i + 1) - 1 = i /\ i \in Nat /\ i + 1 \in Nat /\ i \in 0..n
    OBVIOUS
  <2> DEFINE f == s[i + 1]
             g == s[i]
             q == p[i]
             d == c[i + 1]
  <2>2. f \in [Int -> Int] /\ g \in [Int -> Int] /\ \A t \in Int : f[t] = g[t] + d * q[t]
    <3> HIDE DEF S
    <3>1. f \in [Int -> Int] /\ g \in [Int -> Int]
      <4>1. \A j \in 0..n : s[j] \in [Int -> Int]
        BY <1>1
      <4> QED
        BY <2>1, <4>1
    <3> DEFINE j == i + 1
    <3>2. j \in 1..n /\ j - 1 = i
      BY <2>1
    <3> HIDE DEF j, f, g, q, d
    <3>3. \A t \in Int : s[j][t] = s[j - 1][t] + c[j] * p[j - 1][t]
      BY <1>1, <3>2
    <3> QED
      BY <3>1, <3>2, <3>3 DEF f, g, q, d, j
  <2>3. q \in Poly(i + 1) /\ q[0] = (IF i = 0 THEN 1 ELSE 0) /\ d \in Int
    BY <2>1, PowersPoly
  <2>4. g \in Poly(i + 1) /\ q \in [Int -> Int] /\ g[0] = IF i = 0 THEN 0 ELSE c[1]
    <3>1. g \in Poly(i) /\ g[0] = IF i = 0 THEN 0 ELSE c[1]
      BY <1>3
    <3> HIDE DEF g, q
    <3>2. q \in [Int -> Int] /\ g \in Poly(i + 1)
      BY <2>1, <2>3, <3>1, PolyType, PolyGrows
    <3> QED
      BY <3>1, <3>2
  <2> HIDE DEF f, g, q, S
  <2>5. IsLinear(f, d, q, g)
    <3> SUFFICES ASSUME NEW t \in Int
                 PROVE  f[t] = d * q[t] + g[t]
      BY DEF IsLinear
    <3>1. g[t] \in Int /\ q[t] \in Int
      BY <2>2, <2>4
    <3>2. f[t] = g[t] + d * q[t]
      BY <2>2
    <3>3. d * q[t] \in Int
      BY <2>3, <3>1
    <3> QED
      BY <3>1, <3>2, <3>3
  <2>6. f \in Poly(i + 1)
    BY <2>1, <2>2, <2>3, <2>4, <2>5, PolyLinear
  <2>7. f[0] = c[1]
    <3>1. f[0] = g[0] + d * q[0]
      BY <2>2, 0 \in Int
    <3>2. CASE i = 0
      <4>1. d * 1 = d /\ 0 + d = d
        BY <2>3
      <4> QED
        BY <2>3, <2>4, <3>1, <3>2, <4>1 DEF d
    <3>3. CASE i # 0
      <4>1. d * 0 = 0 /\ c[1] \in Int
        BY <2>1, <2>3
      <4>2. c[1] + 0 = c[1]
        BY <4>1
      <4> QED
        BY <2>3, <2>4, <3>1, <3>3, <4>1, <4>2
    <3> QED
      BY <3>2, <3>3
  <2> QED
    BY <2>1, <2>6, <2>7 DEF f, S
<1>4. 0..n \subseteq S
  <2> HIDE DEF S
  <2> QED
    BY <1>2, <1>3, BoundedInduction, Zenon
<1> QED
  BY <1>4

(* The coefficients of a polynomial. *)
LEMMA PolyPartial ==
  ASSUME NEW n \in Nat, NEW p, IsPowers(p, n)
  PROVE  \A k \in 0..n : \A f \in Poly(k) :
           \E c, s : c \in [1..k -> Int] /\ IsPartial(s, c, p, k) /\ s[k] = f
<1> DEFINE S == {k \in 0..n : \A f \in Poly(k) :
                    \E c, s : c \in [1..k -> Int] /\ IsPartial(s, c, p, k) /\ s[k] = f}
<1>1. /\ p \in [0..n -> [Int -> Int]] /\ p[0] = One
      /\ \A i \in 1..n : \A t \in Int : p[i][t] = t * p[i - 1][t]
  BY DEF IsPowers
<1>2. 0 \in S
  <2> SUFFICES ASSUME NEW f \in Poly(0)
               PROVE  \E c, s : c \in [1..0 -> Int] /\ IsPartial(s, c, p, 0) /\ s[0] = f
    OBVIOUS
  <2> f = Zero
    BY PolyZero
  <2> DEFINE c == [i \in 1..0 |-> 0]
             s == [i \in 0..0 |-> Zero]
  <2>1. c \in [1..0 -> Int]
    OBVIOUS
  <2>2. IsPartial(s, c, p, 0) /\ s[0] = f
    BY DEF IsPartial, Zero
  <2> QED
    BY <2>1, <2>2
<1>3. ASSUME NEW k \in 0 .. n - 1, k \in S
      PROVE  k + 1 \in S
  <2> SUFFICES ASSUME NEW f \in Poly(k + 1)
               PROVE  \E c, s : c \in [1 .. k + 1 -> Int] /\ IsPartial(s, c, p, k + 1) /\ s[k + 1] = f
    OBVIOUS
  <2>1. PICK g \in Poly(k), b \in Int : IsHorner(f, b, g)
    BY PolyDown
  <2>2. PICK d, r : d \in [1..k -> Int] /\ IsPartial(r, d, p, k) /\ r[k] = g
    BY <1>3
  <2> HIDE DEF S
  <2>3. /\ r \in [0..k -> [Int -> Int]] /\ r[0] = Zero
        /\ \A i \in 1..k : \A t \in Int : r[i][t] = r[i - 1][t] + d[i] * p[i - 1][t]
    BY <2>2 DEF IsPartial
  <2> d \in [1..k -> Int]
    BY <2>2
  <2> DEFINE c == [i \in 1 .. k + 1 |-> IF i = 1 THEN b ELSE d[i - 1]]
             Up(e) == [t \in Int |-> b + t * e[t]]
             s == [i \in 0 .. k + 1 |-> IF i = 0 THEN Zero ELSE Up(r[i - 1])]
  <2>4. c \in [1 .. k + 1 -> Int]
    <3> SUFFICES ASSUME NEW i \in 1 .. k + 1
                 PROVE  c[i] \in Int
      OBVIOUS
    <3>1. CASE i = 1
      BY <3>1
    <3>2. CASE i # 1
      <4>1. i - 1 \in 1..k
        BY <3>2
      <4> QED
        BY <3>2, <4>1
    <3> QED
      BY <3>1, <3>2
  <2>5. ASSUME NEW i \in 1 .. k + 1
        PROVE  /\ r[i - 1] \in [Int -> Int]
               /\ s[i] = Up(r[i - 1]) /\ s[i] \in [Int -> Int]
    <3> DEFINE e == r[i - 1]
    <3>1. e \in [Int -> Int]
      <4>1. i - 1 \in 0..k
        OBVIOUS
      <4> QED
        BY <2>3, <4>1
    <3>2. s[i] = Up(e)
      OBVIOUS
    <3> HIDE DEF e, s
    <3>3. ASSUME NEW t \in Int
          PROVE  b + t * e[t] \in Int
      <4>1. e[t] \in Int
        BY <3>1
      <4>2. t * e[t] \in Int
        BY <4>1
      <4> QED
        BY <4>2
    <3>4. Up(e) \in [Int -> Int]
      BY <3>3
    <3> QED
      BY <3>1, <3>2, <3>4 DEF e
  <2>6. s[0] = Zero /\ Zero \in [Int -> Int]
    BY DEF Zero
  <2>7. s \in [0 .. k + 1 -> [Int -> Int]]
    <3>1. \A i \in 0 .. k + 1 : s[i] \in [Int -> Int]
      <4> SUFFICES ASSUME NEW i \in 0 .. k + 1 PROVE s[i] \in [Int -> Int]
        OBVIOUS
      <4>1. i = 0 \/ i \in 1 .. k + 1
        OBVIOUS
      <4> HIDE DEF s, Up
      <4> QED
        BY <2>5, <2>6, <4>1
    <3> QED
      BY <3>1
  <2>8. ASSUME NEW i \in 1 .. k + 1, NEW t \in Int
        PROVE  s[i][t] = s[i - 1][t] + c[i] * p[i - 1][t]
    <3>1. CASE i = 1
      <4>1. s[1] = Up(Zero) /\ 1 \in 1 .. k + 1
        <5>1. 1 \in 1 .. k + 1 /\ 1 - 1 = 0
          OBVIOUS
        <5> HIDE DEF s, Up
        <5> QED
          BY <2>3, <2>5, <5>1
      <4> HIDE DEF s
      <4>2. Up(Zero)[t] = b + t * 0
        BY DEF Zero
      <4>3. s[0][t] = 0 /\ p[0][t] = 1 /\ c[1] = b
        BY <1>1, <2>6 DEF Zero, One
      <4>4. b + t * 0 = 0 + b * 1
        OBVIOUS
      <4> QED
        BY <3>1, <4>1, <4>2, <4>3, <4>4
    <3>2. CASE i # 1
      <4> DEFINE j == i - 1
                 u == r[j][t]
                 v == r[j - 1][t]
                 q == p[j - 1][t]
                 a == d[j]
      <4>1. j \in 1..k /\ j \in 1..n /\ j \in 1 .. k + 1 /\ j - 1 \in 0..k /\ j \in 0..k /\ j - 1 \in 0..n
        BY <3>2
      <4> HIDE DEF s, c
      <4>2. s[i][t] = b + t * u /\ s[j][t] = b + t * v
        BY <2>5, <4>1
      <4>3. c[i] = a /\ p[j][t] = t * q
        BY <1>1, <3>2, <4>1 DEF c
      <4>4. a \in Int /\ r[j - 1] \in [Int -> Int] /\ p[j - 1] \in [Int -> Int]
        BY <1>1, <2>3, <4>1
      <4>5. u = v + a * q /\ v \in Int /\ q \in Int
        BY <2>3, <4>1, <4>4
      <4> HIDE DEF u, v, q, a
      <4>6. b + t * (v + a * q) = (b + t * v) + a * (t * q)
        <5>1. t * (v + a * q) = t * v + t * (a * q) /\ t * (a * q) = a * (t * q)
          BY <4>4, <4>5
        <5>2. t * v \in Int /\ a * (t * q) \in Int
          BY <4>4, <4>5
        <5> QED
          BY <5>1, <5>2
      <4> QED
        BY <4>2, <4>3, <4>5, <4>6
    <3> QED
      BY <3>1, <3>2
  <2>9. s[k + 1] = f
    <3>1. k + 1 \in 1 .. k + 1 /\ (k + 1) - 1 = k
      OBVIOUS
    <3> HIDE DEF s, c, Up
    <3>2. s[k + 1] = Up(g)
      BY <2>2, <2>5, <3>1
    <3>3. f \in [Int -> Int] /\ \A t \in Int : f[t] = b + t * g[t]
      BY <2>1, PolyType DEF IsHorner
    <3> QED
      BY <3>2, <3>3 DEF Up
  <2> HIDE DEF s, c
  <2>10. IsPartial(s, c, p, k + 1)
    BY <2>6, <2>7, <2>8 DEF IsPartial
  <2> QED
    BY <2>4, <2>9, <2>10
<1>4. 0..n \subseteq S
  <2> HIDE DEF S
  <2> QED
    BY <1>2, <1>3, BoundedInduction, Zenon
<1> QED
  BY <1>4

Points == [x : Int, y : Int]

LagrangeStep(shares, i) ==
  [j \in DOMAIN shares |-> [acc \in [num : Int, den : Int] |->
        IF i = j THEN acc
        ELSE [num |-> mod(acc.num * (0 - shares[j].x), ORDER),
              den |-> mod(acc.den * (shares[i].x - shares[j].x), ORDER)]]]
LagrangeAfter(shares, i, j, acc) ==
  IF i = j THEN acc
  ELSE [num |-> mod(acc.num * (0 - shares[j].x), ORDER),
        den |-> mod(acc.den * (shares[i].x - shares[j].x), ORDER)]

(* Scalars are integers. *)
LEMMA ScalarInt == Scalars \subseteq Int /\ 0 \in Scalars /\ 1 \in Scalars
BY OrderPositive DEF Scalars

(* The loop of the Lagrange basis, round by round. *)
LEMMA LagrangeUnrolls ==
  ASSUME NEW shares \in Seq(Points), NEW i \in 1 .. Len(shares)
  PROVE  \E acc \in [0 .. Len(shares) -> [num : Int, den : Int]] :
           /\ acc[0] = [num |-> 1, den |-> 1]
           /\ Lagrange(shares, i) =
                mod(acc[Len(shares)].num * modInverse(acc[Len(shares)].den, ORDER), ORDER)
           /\ \A j \in 1 .. Len(shares) : acc[j] = LagrangeAfter(shares, i, j, acc[j - 1])
<1> DEFINE A == [num : Int, den : Int]
           n == Len(shares)
           step == LagrangeStep(shares, i)
           base == [num |-> 1, den |-> 1]
<1>1. n \in Nat /\ DOMAIN shares = 1..n /\ \A j \in 1..n : shares[j].x \in Int
  <2>1. n \in Nat /\ DOMAIN shares = 1..n /\ \A j \in 1..n : shares[j] \in Points
    OBVIOUS
  <2> QED
    BY <2>1 DEF Points
<1>2. step = [j \in 1..n |-> [acc \in A |-> LagrangeAfter(shares, i, j, acc)]]
  BY <1>1 DEF LagrangeStep, LagrangeAfter
<1>3. ASSUME NEW j \in 1..n, NEW acc \in A
      PROVE  LagrangeAfter(shares, i, j, acc) \in A
  <2> DEFINE a == shares[i].x
             b == shares[j].x
  <2>1. a \in Int /\ b \in Int /\ acc.num \in Int /\ acc.den \in Int
    BY <1>1
  <2>2. LagrangeAfter(shares, i, j, acc) =
          IF i = j THEN acc ELSE [num |-> mod(acc.num * (0 - b), ORDER),
                                  den |-> mod(acc.den * (a - b), ORDER)]
    BY DEF LagrangeAfter
  <2> HIDE DEF a, b
  <2>3. acc.num * (0 - b) \in Int /\ acc.den * (a - b) \in Int
    <3>1. 0 - b \in Int /\ a - b \in Int
      BY <2>1
    <3> QED
      BY <2>1, <3>1
  <2>4. mod(acc.num * (0 - b), ORDER) \in Int /\ mod(acc.den * (a - b), ORDER) \in Int
    BY <2>3, ModScalar
  <2> QED
    BY <2>2, <2>4
<1>4. Lagrange(shares, i) = mod(Loop(step, base, n).num * modInverse(Loop(step, base, n).den, ORDER), ORDER)
  BY DEF Lagrange, LagrangeStep
<1> HIDE DEF step, n
<1>5. /\ step \in [1..n -> [A -> A]]
      /\ \A j \in 1..n, acc \in A : step[j][acc] = LagrangeAfter(shares, i, j, acc)
  BY <1>2, <1>3
<1>6. PICK acc : IsTrace(acc, A, step, base, n)
  <2>1. IsLoop(A, step, base, n)
    BY <1>1, <1>5 DEF IsLoop
  <2> QED
    BY <2>1, LoopUnrolls
<1>7. /\ acc \in [0..n -> A] /\ acc[0] = base /\ acc[n] = Loop(step, base, n)
      /\ \A j \in 1..n : acc[j] = step[j][acc[j - 1]]
  BY <1>6 DEF IsTrace
<1>8. ASSUME NEW j \in 1..n
      PROVE  acc[j] = LagrangeAfter(shares, i, j, acc[j - 1])
  <2>1. acc[j - 1] \in A
    BY <1>1, <1>7
  <2> QED
    BY <1>5, <1>7, <2>1
<1> QED
  BY <1>4, <1>7, <1>8 DEF n

(* What the code computes for a share is its weight.                       *)
LEMMA LagrangeWeights ==
  ASSUME NEW shares \in Seq(Points), NEW x \in [1 .. Len(shares) -> Int],
         \A i \in 1 .. Len(shares) : x[i] = shares[i].x, Apart(x, 1 .. Len(shares))
  PROVE  IsWeights([i \in 1 .. Len(shares) |-> Lagrange(shares, i)], x, Len(shares), 1 .. Len(shares))
<1> DEFINE n == Len(shares)
           U == 1..n
<1>1. n \in Nat
  OBVIOUS
<1> SUFFICES ASSUME NEW i \in U
             PROVE  /\ Lagrange(shares, i) \in Int
                    /\ Cong(Lagrange(shares, i) * Den(x, n, U, i), Num(x, n, U, i))
  BY DEF IsWeights
<1> DEFINE F == [j \in 1..n |-> IF j \in U /\ j # i THEN x[i] - x[j] ELSE 1]
           G == [j \in 1..n |-> IF j \in U /\ j # i THEN -x[j] ELSE 1]
<1>2. F \in [1..n -> Int] /\ G \in [1..n -> Int]
  OBVIOUS
<1>3. ASSUME NEW j \in 1..n
      PROVE  /\ j = i => F[j] = 1 /\ G[j] = 1
             /\ j # i => F[j] = x[i] - x[j] /\ G[j] = 0 - x[j]
  OBVIOUS
<1>4. Den(x, n, U, i) = Product(F, n) /\ Num(x, n, U, i) = Product(G, n)
  BY DEF Den, Num
<1> HIDE DEF F, G
<1>5. PICK d \in [0..n -> Int] : /\ d[0] = 1 /\ d[n] = Product(F, n)
                                 /\ \A j \in 1..n : d[j] = d[j - 1] * F[j]
  BY <1>1, <1>2, ProductUnrolls
<1>6. PICK m \in [0..n -> Int] : /\ m[0] = 1 /\ m[n] = Product(G, n)
                                 /\ \A j \in 1..n : m[j] = m[j - 1] * G[j]
  BY <1>1, <1>2, ProductUnrolls
<1>7. PICK acc \in [0..n -> [num : Int, den : Int]] :
           /\ acc[0] = [num |-> 1, den |-> 1]
           /\ Lagrange(shares, i) = mod(acc[n].num * modInverse(acc[n].den, ORDER), ORDER)
           /\ \A j \in 1..n : acc[j] = LagrangeAfter(shares, i, j, acc[j - 1])
  BY LagrangeUnrolls
<1>8. \A j \in 1..n : shares[j].x = x[j] /\ x[j] \in Int
  OBVIOUS
<1> HIDE DEF n
<1> DEFINE S == {j \in 0..n : /\ acc[j].num \in Scalars /\ acc[j].den \in Scalars
                              /\ Cong(acc[j].num, m[j]) /\ Cong(acc[j].den, d[j])}
<1>9. 0 \in S
  <2>1. acc[0].num = 1 /\ acc[0].den = 1
    BY <1>7
  <2>2. 1 \in Scalars /\ Cong(1, 1) /\ 0 \in 0..n
    BY <1>1, ScalarInt, CongRefl
  <2> QED
    BY <1>5, <1>6, <2>1, <2>2
<1>10. ASSUME NEW k \in 0 .. n - 1, k \in S
       PROVE  k + 1 \in S
  <2> DEFINE j == k + 1
             a == acc[k].num
             b == acc[k].den
             mk == m[k]
             dk == d[k]
  <2>1. j \in 1..n /\ j \in 0..n /\ j - 1 = k /\ k \in 0..n
    BY <1>1
  <2> HIDE DEF j
  <2>2. a \in Int /\ b \in Int /\ mk \in Int /\ dk \in Int
    BY <1>5, <1>6, <1>10, <2>1, ScalarInt
  <2>3. Cong(a, mk) /\ Cong(b, dk) /\ a \in Scalars /\ b \in Scalars
    BY <1>10
  <2>4. d[j] = dk * F[j] /\ m[j] = mk * G[j] /\ acc[j] = LagrangeAfter(shares, i, j, acc[k])
    BY <1>5, <1>6, <1>7, <2>1
  <2>5. CASE j = i
    <3>1. acc[j] = acc[k]
      BY <2>4, <2>5 DEF LagrangeAfter
    <3>2. dk * 1 = dk /\ mk * 1 = mk
      BY <2>2
    <3>3. d[j] = dk /\ m[j] = mk
      BY <1>3, <2>1, <2>4, <2>5, <3>2
    <3>4. j \in S
      BY <2>1, <2>3, <3>1, <3>3
    <3> QED
      BY <3>4 DEF j
  <2>6. CASE j # i
    <3> DEFINE u == 0 - x[j]
               v == x[i] - x[j]
    <3>1. acc[j] = [num |-> mod(a * u, ORDER), den |-> mod(b * v, ORDER)]
      <4>1. shares[j].x = x[j] /\ shares[i].x = x[i]
        BY <1>8, <2>1
      <4> QED
        BY <2>4, <2>6, <4>1 DEF LagrangeAfter
    <3>2. u \in Int /\ v \in Int
      <4>1. x[i] \in Int /\ x[j] \in Int
        BY <1>8, <2>1
      <4> QED
        BY <4>1
    <3>3. d[j] = dk * v /\ m[j] = mk * u
      BY <1>3, <2>1, <2>4, <2>6
    <3> HIDE DEF u, v, a, b, mk, dk
    <3>4. a * u \in Int /\ b * v \in Int /\ mk * u \in Int /\ dk * v \in Int
      BY <2>2, <3>2
    <3>5. Cong(a * u, mk * u) /\ Cong(b * v, dk * v)
      BY <2>2, <2>3, <3>2, CongRefl, CongMul
    <3>6. /\ mod(a * u, ORDER) \in Scalars /\ mod(a * u, ORDER) \in Int /\ Cong(mod(a * u, ORDER), a * u)
          /\ mod(b * v, ORDER) \in Scalars /\ mod(b * v, ORDER) \in Int /\ Cong(mod(b * v, ORDER), b * v)
      BY <3>4, ModScalar
    <3>7. Cong(mod(a * u, ORDER), mk * u) /\ Cong(mod(b * v, ORDER), dk * v)
      BY <3>4, <3>5, <3>6, CongTrans
    <3>8. j \in S
      BY <2>1, <3>1, <3>3, <3>6, <3>7
    <3> QED
      BY <3>8 DEF j
  <2> QED
    BY <2>5, <2>6
<1>11. n \in S
  <2> HIDE DEF S
  <2>1. 0..n \subseteq S
    BY <1>1, <1>9, <1>10, BoundedInduction, Zenon
  <2> QED
    BY <1>1, <2>1
<1> DEFINE a == acc[n].num
           b == acc[n].den
           D == Den(x, n, U, i)
           N == Num(x, n, U, i)
           r == modInverse(b, ORDER)
           w == mod(a * r, ORDER)
<1>12. a \in Scalars /\ b \in Scalars /\ Cong(a, N) /\ Cong(b, D)
  BY <1>4, <1>5, <1>6, <1>11
<1>13. D \in Int /\ N \in Int /\ ~Cong(D, 0)
  <2>1. U \in SUBSET (1..n) /\ Apart(x, U) /\ x \in [1..n -> Int]
    BY DEF n
  <2> HIDE DEF U
  <2> QED
    BY <1>1, <2>1, DenNonzero
<1>14. Lagrange(shares, i) = w
  BY <1>7
<1> HIDE DEF a, b, D, N
<1>15. a \in Int /\ b \in Int /\ b # 0
  <2>1. a \in Int /\ b \in Int
    BY <1>12, ScalarInt
  <2>2. b # 0
    BY <1>12, <1>13, <2>1, CongSym
  <2> QED
    BY <2>1, <2>2
<1>16. r \in Scalars /\ r \in Int /\ Cong(b * r, 1)
  BY <1>12, <1>15, InverseCorrect, ScalarInt
<1> HIDE DEF r
<1>17. a * r \in Int /\ b * r \in Int
  BY <1>15, <1>16
<1>18. w \in Int /\ Cong(w, a * r)
  BY <1>17, ModScalar
<1> HIDE DEF w
<1>19. Cong(w * D, (a * r) * b)
  <2>1. Cong(D, b)
    BY <1>12, <1>13, <1>15, CongSym
  <2> QED
    BY <1>13, <1>15, <1>17, <1>18, <2>1, CongMul
<1>20. (a * r) * b = a * (b * r) /\ a * 1 = a /\ w * D \in Int /\ a * (b * r) \in Int
  <2>1. (a * r) * b = a * (b * r)
    BY <1>15, <1>16
  <2> QED
    BY <1>13, <1>15, <1>17, <1>18, <2>1
<1>21. Cong(a * (b * r), a * 1)
  <2>1. Cong(a, a) /\ 1 \in Int
    BY <1>15, CongRefl
  <2> QED
    BY <1>15, <1>16, <1>17, <2>1, CongMul
<1>22. Cong(w * D, a)
  BY <1>15, <1>19, <1>20, <1>21, CongTrans
<1>23. Cong(w * D, N)
  BY <1>12, <1>13, <1>15, <1>20, <1>22, CongTrans
<1> QED
  BY <1>14, <1>18, <1>23 DEF D, N

CombineAfter(shares, i, secret) ==
  mod(secret + mod(shares[i].y * Lagrange(shares, i), ORDER), ORDER)

(* The loop of combine, round by round. *)
LEMMA CombineUnrolls ==
  ASSUME NEW shares \in Seq(Points), \A i \in 1 .. Len(shares) : Lagrange(shares, i) \in Int
  PROVE  \E acc \in [0 .. Len(shares) -> Int] :
           /\ acc[0] = 0 /\ acc[Len(shares)] = combine(shares)
           /\ \A i \in 1 .. Len(shares) : acc[i] = CombineAfter(shares, i, acc[i - 1])
<1> DEFINE n == Len(shares)
           step == [i \in DOMAIN shares |-> [secret \in Int |->
                     mod(secret + mod(shares[i].y * Lagrange(shares, i), ORDER), ORDER)]]
<1>1. n \in Nat /\ DOMAIN shares = 1..n /\ \A i \in 1..n : shares[i].y \in Int
  <2>1. n \in Nat /\ DOMAIN shares = 1..n /\ \A j \in 1..n : shares[j] \in Points
    OBVIOUS
  <2> QED
    BY <2>1 DEF Points
<1>2. step = [i \in 1..n |-> [a \in Int |-> CombineAfter(shares, i, a)]]
  BY <1>1 DEF CombineAfter
<1>3. ASSUME NEW i \in 1..n, NEW a \in Int
      PROVE  CombineAfter(shares, i, a) \in Int
  <2> DEFINE y == shares[i].y
             w == Lagrange(shares, i)
             e == mod(y * w, ORDER)
  <2>1. y \in Int /\ w \in Int
    BY <1>1
  <2>2. CombineAfter(shares, i, a) = mod(a + e, ORDER)
    BY DEF CombineAfter
  <2> HIDE DEF y, w
  <2>3. y * w \in Int
    BY <2>1
  <2>4. e \in Int
    BY <2>3, ModScalar
  <2> HIDE DEF e
  <2>5. a + e \in Int
    BY <2>4
  <2> QED
    BY <2>2, <2>5, ModScalar
<1>4. combine(shares) = Loop(step, 0, n)
  BY DEF combine
<1> HIDE DEF step, n
<1>5. /\ step \in [1..n -> [Int -> Int]]
      /\ \A i \in 1..n, a \in Int : step[i][a] = CombineAfter(shares, i, a)
  BY <1>2, <1>3
<1>6. PICK acc : IsTrace(acc, Int, step, 0, n)
  <2>1. IsLoop(Int, step, 0, n)
    BY <1>1, <1>5 DEF IsLoop
  <2> QED
    BY <2>1, LoopUnrolls
<1>7. /\ acc \in [0..n -> Int] /\ acc[0] = 0 /\ acc[n] = Loop(step, 0, n)
      /\ \A i \in 1..n : acc[i] = step[i][acc[i - 1]]
  BY <1>6 DEF IsTrace
<1>8. ASSUME NEW i \in 1..n
      PROVE  acc[i] = CombineAfter(shares, i, acc[i - 1])
  <2>1. acc[i - 1] \in Int
    BY <1>1, <1>7
  <2> QED
    BY <1>5, <1>7, <2>1
<1> QED
  BY <1>4, <1>7, <1>8 DEF n

(* combine is the sum of the y's with their weights.                       *)
LEMMA CombineSum ==
  ASSUME NEW shares \in Seq(Points), NEW G \in [1 .. Len(shares) -> Int],
         \A i \in 1 .. Len(shares) :
           /\ Lagrange(shares, i) \in Int
           /\ Cong(shares[i].y * Lagrange(shares, i), G[i])
  PROVE  combine(shares) \in Scalars /\ Cong(combine(shares), Sum(G, Len(shares)))
<1> DEFINE n == Len(shares)
<1>1. PICK acc \in [0..n -> Int] :
           /\ acc[0] = 0 /\ acc[n] = combine(shares)
           /\ \A i \in 1..n : acc[i] = CombineAfter(shares, i, acc[i - 1])
  BY CombineUnrolls
<1>2. n \in Nat /\ \A i \in 1..n : shares[i].y \in Int
  <2>1. n \in Nat /\ \A j \in 1..n : shares[j] \in Points
    OBVIOUS
  <2> QED
    BY <2>1 DEF Points
<1>3. PICK s \in [0..n -> Int] : /\ s[0] = 0 /\ s[n] = Sum(G, n)
                                 /\ \A i \in 1..n : s[i] = s[i - 1] + G[i]
  BY <1>2, SumUnrolls
<1>4. \A i \in 1..n : /\ Lagrange(shares, i) \in Int
                      /\ Cong(shares[i].y * Lagrange(shares, i), G[i])
  OBVIOUS
<1>5. G \in [1..n -> Int]
  OBVIOUS
<1> HIDE DEF n
<1> DEFINE S == {i \in 0..n : acc[i] \in Scalars /\ Cong(acc[i], s[i])}
<1>6. 0 \in S
  <2>1. 0 \in Scalars /\ Cong(0, 0) /\ 0 \in 0..n
    BY <1>2, ScalarInt, CongRefl
  <2> QED
    BY <1>1, <1>3, <2>1
<1>7. ASSUME NEW k \in 0 .. n - 1, k \in S
      PROVE  k + 1 \in S
  <2> DEFINE j == k + 1
             a == acc[k]
             sk == s[k]
             g == G[j]
             y == shares[j].y
             w == Lagrange(shares, j)
             e == mod(y * w, ORDER)
  <2>1. j \in 1..n /\ j \in 0..n /\ j - 1 = k /\ k \in 0..n
    BY <1>2
  <2> HIDE DEF j
  <2>2. a \in Int /\ sk \in Int /\ Cong(a, sk)
    BY <1>1, <1>3, <1>7, <2>1
  <2>3. y \in Int /\ w \in Int /\ Cong(y * w, g)
    BY <1>2, <1>4, <2>1
  <2>4. g \in Int
    BY <1>5, <2>1
  <2>5. acc[j] = mod(a + e, ORDER) /\ s[j] = sk + g
    BY <1>1, <1>3, <2>1 DEF CombineAfter
  <2> HIDE DEF a, sk, g, y, w
  <2>6. y * w \in Int
    BY <2>3
  <2>7. e \in Int /\ Cong(e, y * w)
    BY <2>6, ModScalar
  <2> HIDE DEF e
  <2>8. Cong(e, g)
    BY <2>3, <2>4, <2>6, <2>7, CongTrans
  <2>9. Cong(a + e, sk + g)
    BY <2>2, <2>4, <2>7, <2>8, CongAdd
  <2>10. a + e \in Int /\ sk + g \in Int
    BY <2>2, <2>4, <2>7
  <2>11. acc[j] \in Scalars /\ acc[j] \in Int /\ Cong(acc[j], a + e)
    BY <2>5, <2>10, ModScalar
  <2>12. Cong(acc[j], s[j])
    BY <2>5, <2>9, <2>10, <2>11, CongTrans
  <2>13. j \in S
    BY <2>1, <2>11, <2>12
  <2> QED
    BY <2>13 DEF j
<1>8. n \in S
  <2> HIDE DEF S
  <2>1. 0..n \subseteq S
    BY <1>2, <1>6, <1>7, BoundedInduction, Zenon
  <2> QED
    BY <1>2, <2>1
<1> QED
  BY <1>1, <1>3, <1>8 DEF n

(* Enough points of one polynomial, at places apart, combine to its value  *)
(* at 0.                                                                   *)
LEMMA CombineValue ==
  ASSUME NEW shares \in Seq(Points), NEW d \in Nat, d <= Len(shares), NEW f \in Poly(d),
         \A i, j \in 1 .. Len(shares) : i # j => ~Cong(shares[i].x, shares[j].x),
         \A i \in 1 .. Len(shares) : Cong(shares[i].y, f[shares[i].x])
  PROVE  combine(shares) \in Scalars /\ Cong(combine(shares), f[0])
<1> DEFINE n == Len(shares)
           U == 1..n
           x == [i \in 1..n |-> shares[i].x]
           w == [i \in 1..n |-> Lagrange(shares, i)]
           G == Terms(f, w, x, n, U)
<1>1. n \in Nat /\ \A i \in 1..n : shares[i].x \in Int /\ shares[i].y \in Int
  <2>1. n \in Nat /\ \A j \in 1..n : shares[j] \in Points
    OBVIOUS
  <2> QED
    BY <2>1 DEF Points
<1>2. x \in [1..n -> Int] /\ \A i \in 1..n : x[i] = shares[i].x
  BY <1>1
<1>3. Apart(x, U)
  BY <1>2 DEF Apart
<1> HIDE DEF x
<1>4. IsWeights(w, x, n, U)
  BY <1>2, <1>3, LagrangeWeights
<1>5. w \in [1..n -> Int] /\ f \in [Int -> Int] /\ \A i \in 1..n : Lagrange(shares, i) = w[i]
  BY <1>4, PolyType DEF IsWeights
<1> HIDE DEF w
<1>6. G \in [1..n -> Int]
  BY <1>1, <1>2, <1>5, TermsType
<1>7. ASSUME NEW i \in 1..n
      PROVE  Lagrange(shares, i) \in Int /\ Cong(shares[i].y * Lagrange(shares, i), G[i])
  <2> DEFINE y == shares[i].y
             v == w[i]
             e == f[x[i]]
  <2>1. y \in Int /\ v \in Int /\ e \in Int /\ Lagrange(shares, i) = v /\ Cong(y, e)
    BY <1>1, <1>2, <1>5
  <2>2. G[i] = e * v
    BY DEF Terms
  <2> HIDE DEF y, v, e
  <2>3. Cong(y * v, e * v)
    BY <2>1, CongRefl, CongMul
  <2> QED
    BY <2>1, <2>2, <2>3 DEF y
<1>8. Combination(f, w, x, n, U) = Sum(G, n)
  BY DEF Combination
<1> HIDE DEF G
<1>9. combine(shares) \in Scalars /\ Cong(combine(shares), Sum(G, n))
  BY <1>6, <1>7, CombineSum
<1>10. Cong(Sum(G, n), f[0])
  <2>1. d <= n /\ n \in Nat
    BY <1>1
  <2> HIDE DEF n
  <2>2. Cardinality(U) = IF 1 > n THEN 0 ELSE n - 1 + 1
    BY <2>1, FS_Interval, 1 \in Int, n \in Int
  <2>3. U \in SUBSET (1..n) /\ Cardinality(U) >= d
    BY <2>1, <2>2
  <2> HIDE DEF U
  <2> QED
    BY <1>1, <1>2, <1>3, <1>4, <1>8, <2>3, Interpolation
<1>11. Sum(G, n) \in Int /\ f[0] \in Int /\ combine(shares) \in Int
  BY <1>1, <1>5, <1>6, <1>9, SumType, ScalarInt, 0 \in Int
<1> QED
  BY <1>9, <1>10, <1>11, CongTrans

(* The coefficients of a split: the secret, then the random ones.          *)
LEMMA CoefficientsType ==
  ASSUME NEW t \in Nat \ {0}, NEW secret \in Scalars, NEW random \in [1 .. t - 1 -> Scalars]
  PROVE  LET a == <<secret>> \o random
         IN /\ a \in Seq(Int) /\ Len(a) = t /\ a[1] = secret
            /\ \A i \in 2..t : a[i] = random[i - 1]
<1>1. random \in Seq(Scalars) /\ Len(random) = t - 1
  <2>1. random \in [1 .. t - 1 -> Scalars] /\ t - 1 \in Nat
    OBVIOUS
  <2> QED
    BY <2>1
<1>2. <<secret>> \in Seq(Scalars) /\ Len(<<secret>>) = 1
  OBVIOUS
<1> DEFINE a == <<secret>> \o random
<1>3. a \in Seq(Scalars) /\ Len(a) = t
  BY <1>1, <1>2
<1>4. a \in Seq(Int)
  <2> HIDE DEF a
  <2>1. \A i \in 1..t : a[i] \in Scalars
    BY <1>3
  <2>2. \A i \in 1..t : a[i] \in Int
    BY <2>1, ScalarInt
  <2>3. a \in [1..t -> Int] /\ t \in Nat
    BY <1>3, <2>2
  <2> QED
    BY <2>3
<1>5. a[1] = secret /\ \A i \in 2..t : a[i] = random[i - 1]
  BY <1>1, <1>2
<1> QED
  BY <1>3, <1>4, <1>5

(* The shares of a secret are on a polynomial of as many coefficients as   *)
(* the threshold.                                                          *)
LEMMA SplitPoly ==
  ASSUME NEW t \in Nat \ {0}, NEW secret \in Scalars, NEW random \in [1 .. t - 1 -> Scalars]
  PROVE  \E f \in Poly(t) : /\ f[0] = secret
                            /\ \A x \in Int : Cong(Evaluate(<<secret>> \o random, x), f[x])
<1> DEFINE a == <<secret>> \o random
           c == [i \in 1..t |-> a[i]]
<1>1. a \in Seq(Int) /\ Len(a) = t /\ a[1] = secret
  BY CoefficientsType
<1> HIDE DEF a
<1>2. \A i \in 1..t : a[i] \in Int
  BY <1>1
<1>3. c \in [1..t -> Int] /\ c[1] = secret /\ \A i \in 1..t : c[i] = a[i]
  BY <1>1, <1>2
<1> HIDE DEF c
<1>4. t \in Nat
  OBVIOUS
<1>5. PICK p : IsPowers(p, t)
  BY <1>4, PowersExist
<1>6. PICK s : IsPartial(s, c, p, t)
  BY <1>3, <1>4, <1>5, PartialExists
<1> DEFINE f == s[t]
<1>7. f \in Poly(t) /\ f[0] = secret
  <2>1. t \in 0..t /\ t # 0
    OBVIOUS
  <2> QED
    BY <1>3, <1>4, <1>5, <1>6, <2>1, PartialPoly
<1>8. \A i \in 1..t : Cong(a[i], c[i])
  BY <1>2, <1>3, CongRefl
<1>9. ASSUME NEW x \in Int
      PROVE  Cong(Evaluate(a, x), f[x])
  BY <1>1, <1>3, <1>5, <1>6, <1>8, EvaluateCong
<1> QED
  BY <1>7, <1>9 DEF a

(* Every polynomial of that many coefficients is one of a split.           *)
LEMMA PolySplit ==
  ASSUME NEW t \in Nat \ {0}, NEW secret \in Scalars, NEW f \in Poly(t), f[0] = secret
  PROVE  \E random \in [1 .. t - 1 -> Scalars] :
           \A x \in Int : Cong(Evaluate(<<secret>> \o random, x), f[x])
<1>1. t \in Nat /\ t \in 0..t /\ t # 0
  OBVIOUS
<1>2. PICK p : IsPowers(p, t)
  BY <1>1, PowersExist
<1>3. PICK c, s : c \in [1..t -> Int] /\ IsPartial(s, c, p, t) /\ s[t] = f
  BY <1>1, <1>2, PolyPartial
<1> c \in [1..t -> Int]
  BY <1>3
<1>4. c[1] = secret
  <2>1. s[t][0] = IF t = 0 THEN 0 ELSE c[1]
    BY <1>1, <1>2, <1>3, PartialPoly
  <2> QED
    BY <1>1, <1>3, <2>1
<1> DEFINE random == [i \in 1 .. t - 1 |-> mod(c[i + 1], ORDER)]
           a == <<secret>> \o random
<1>5. ASSUME NEW i \in 1 .. t - 1
      PROVE  random[i] \in Scalars /\ Cong(random[i], c[i + 1])
  <2>1. c[i + 1] \in Int
    BY <1>1
  <2> QED
    BY <2>1, ModScalar
<1>6. random \in [1 .. t - 1 -> Scalars]
  BY <1>5
<1> HIDE DEF random
<1>7. a \in Seq(Int) /\ Len(a) = t /\ a[1] = secret /\ \A i \in 2..t : a[i] = random[i - 1]
  BY <1>6, CoefficientsType
<1> HIDE DEF a
<1>8. ASSUME NEW i \in 1 .. Len(a)
      PROVE  Cong(a[i], c[i])
  <2>1. CASE i = 1
    <3>1. secret \in Int
      BY ScalarInt
    <3> QED
      BY <1>4, <1>7, <2>1, <3>1, CongRefl
  <2>2. CASE i # 1
    <3>1. i \in 2..t /\ i - 1 \in 1 .. t - 1 /\ (i - 1) + 1 = i
      BY <1>7, <2>2
    <3> QED
      BY <1>5, <1>7, <3>1
  <2> QED
    BY <2>1, <2>2
<1>9. ASSUME NEW x \in Int
      PROVE  Cong(Evaluate(a, x), f[x])
  BY <1>2, <1>3, <1>7, <1>8, EvaluateCong
<1> QED
  BY <1>6, <1>9 DEF a

(* A polynomial of k coefficients goes through the points of S.            *)
Fits(k, x, y, S) == \E f \in Poly(k) : \A i \in S : Cong(f[x[i]], y[i])

(* Through any points apart goes a polynomial of as many coefficients.     *)
LEMMA Fit ==
  ASSUME NEW n \in Nat, NEW x \in [1..n -> Int], NEW d \in Nat
  PROVE  \A S \in SUBSET (1..n), y \in [1..n -> Int] :
           Apart(x, S) /\ Cardinality(S) = d => Fits(d, x, y, S)
<1> DEFINE AllFit(k) ==
             \A S \in SUBSET (1..n), y \in [1..n -> Int] :
               Apart(x, S) /\ Cardinality(S) = k => Fits(k, x, y, S)
           K == {k \in Nat : AllFit(k)}
<1>0. \A S \in SUBSET (1..n) : IsFiniteSet(S)
  <2>1. IsFiniteSet(1..n)
    BY FS_Interval, 1 \in Int, n \in Int
  <2> QED
    BY <2>1, FS_Subset
<1>1. 0 \in K
  <2> SUFFICES ASSUME NEW S \in SUBSET (1..n), Cardinality(S) = 0, NEW y \in [1..n -> Int]
               PROVE  Fits(0, x, y, S)
    OBVIOUS
  <2>1. S = {}
    BY <1>0, FS_EmptySet
  <2>2. Zero \in Poly(0)
    BY PolyZero
  <2> QED
    BY <2>1, <2>2 DEF Fits
<1>2. ASSUME NEW k \in K
      PROVE  k + 1 \in K
  <2> SUFFICES ASSUME NEW S \in SUBSET (1..n), Apart(x, S), Cardinality(S) = k + 1,
                      NEW y \in [1..n -> Int]
               PROVE  Fits(k + 1, x, y, S)
    OBVIOUS
  <2>1. k \in Nat /\ AllFit(k)
    OBVIOUS
  <2> HIDE DEF K
  <2>2. IsFiniteSet(S) /\ S # {}
    <3>1. IsFiniteSet(S)
      BY <1>0
    <3> QED
      BY <2>1, <3>1, FS_EmptySet
  <2>3. PICK c \in S : TRUE
    BY <2>2
  <2> DEFINE b == x[c]
             T == S \ {c}
             v == y[c]
             W(i, a) == a \in Int /\ Cong((x[i] - b) * a, y[i] - v)
             z == [i \in 1..n |-> IF i \in T THEN CHOOSE a : W(i, a) ELSE 0]
  <2>4. b \in Int /\ T \in SUBSET (1..n) /\ Apart(x, T) /\ v \in Int
    BY DEF Apart
  <2>5. Cardinality(T) = k
    <3>1. Cardinality(T) = Cardinality(S) - 1
      BY <2>2, FS_RemoveElement
    <3> QED
      BY <2>1, <3>1
  <2>6. ASSUME NEW i \in T
        PROVE  \E a : W(i, a)
    <3> DEFINE q == x[i] - b
               e == y[i] - v
    <3>1. x[i] \in Int /\ y[i] \in Int /\ ~Cong(x[i], b)
      BY DEF Apart
    <3>2. q \in Int /\ e \in Int /\ ~Cong(q, 0)
      <4> HIDE DEF b, v
      <4>1. q \in Int /\ e \in Int
        BY <2>4, <3>1
      <4> QED
        BY <2>4, <3>1, <4>1, CongDiff
    <3> HIDE DEF q, e
    <3>3. PICK r \in Int : Cong(q * r, 1)
      BY <3>2, CongInverse
    <3>4. q * (r * e) = (q * r) * e /\ r * e \in Int /\ q * r \in Int /\ 1 * e = e
      BY <3>2
    <3>5. Cong((q * r) * e, 1 * e)
      <4>1. Cong(e, e) /\ 1 \in Int
        BY <3>2, CongRefl
      <4> QED
        BY <3>2, <3>3, <3>4, <4>1, CongMul
    <3>6. Cong(q * (r * e), e)
      BY <3>4, <3>5
    <3> QED
      BY <3>4, <3>6 DEF q, e
  <2>7. z \in [1..n -> Int] /\ \A i \in T : W(i, z[i])
    <3>1. \A i \in T : z[i] = CHOOSE a : W(i, a)
      BY <2>4
    <3>2. \A i \in T : W(i, CHOOSE a : W(i, a))
      <4> HIDE DEF W
      <4> QED
        BY <2>6
    <3>3. \A i \in 1..n : i \notin T => z[i] = 0
      OBVIOUS
    <3>4. \A i \in T : W(i, z[i])
      <4> HIDE DEF W, z
      <4> QED
        BY <3>1, <3>2
    <3>5. \A i \in 1..n : z[i] \in Int
      <4> HIDE DEF z, T
      <4> QED
        BY <3>3, <3>4
    <3> QED
      BY <3>4, <3>5
  <2> HIDE DEF z
  <2>8. PICK g \in Poly(k) : \A i \in T : Cong(g[x[i]], z[i])
    BY <2>1, <2>4, <2>5, <2>7 DEF Fits
  <2>9. g \in [Int -> Int]
    BY PolyType
  <2> DEFINE f == [t \in Int |-> v + (t - b) * g[t]]
  <2>10. f \in [Int -> Int] /\ IsFactored(f, b, v, g)
    <3> HIDE DEF b, v
    <3>1. ASSUME NEW t \in Int
          PROVE  v + (t - b) * g[t] \in Int
      <4>1. g[t] \in Int
        BY <2>9
      <4>2. t - b \in Int
        BY <2>4
      <4>3. (t - b) * g[t] \in Int
        BY <4>1, <4>2
      <4> QED
        BY <2>4, <4>3
    <3> QED
      BY <3>1 DEF IsFactored
  <2> HIDE DEF f
  <2>11. f \in Poly(k + 1)
    BY <2>1, <2>4, <2>10, PolyUnfactor
  <2>12. ASSUME NEW i \in S
         PROVE  Cong(f[x[i]], y[i])
    <3>1. x[i] \in Int /\ y[i] \in Int
      OBVIOUS
    <3> DEFINE t == x[i]
               q == t - b
               a == g[t]
               w == y[i]
               e == z[i]
    <3>2. a \in Int /\ f[t] = v + q * a
      BY <2>9, <2>10, <3>1 DEF IsFactored
    <3>3. CASE i = c
      <4>1. t = b /\ w = v
        BY <3>3
      <4> HIDE DEF b, v, a, t, w
      <4>2. q = 0
        BY <2>4, <4>1
      <4> HIDE DEF q
      <4>3. v + q * a = v
        BY <2>4, <3>2, <4>2
      <4> QED
        BY <2>4, <3>2, <4>1, <4>3, CongRefl DEF t, w
    <3>4. CASE i # c
      <4>1. Cong(a, e) /\ e \in Int /\ Cong(q * e, w - v)
        BY <2>7, <2>8, <3>4
      <4> HIDE DEF b, v, a, t, w, e
      <4>2. q \in Int /\ w \in Int /\ t \in Int
        BY <2>4, <3>1 DEF t, w
      <4> HIDE DEF q
      <4>3. Cong(q * a, q * e)
        BY <3>2, <4>1, <4>2, CongRefl, CongMul
      <4>4. q * a \in Int /\ q * e \in Int /\ w - v \in Int
        BY <2>4, <3>2, <4>1, <4>2
      <4>5. Cong(q * a, w - v)
        BY <4>1, <4>3, <4>4, CongTrans
      <4>6. Cong(v + q * a, v + (w - v))
        BY <2>4, <4>4, <4>5, CongRefl, CongAdd
      <4>7. v + (w - v) = w
        BY <2>4, <4>2
      <4> QED
        BY <3>2, <4>6, <4>7 DEF t, w
    <3> QED
      BY <3>3, <3>4
  <2> QED
    BY <2>11, <2>12 DEF Fits
<1>3. K = Nat
  <2> HIDE DEF K
  <2> K \in SUBSET Nat
    BY DEF K
  <2> QED
    BY <1>1, <1>2, Induction
<1> QED
  BY <1>3

(* The points of a split are apart and not 0. *)
LEMMA PointsApart ==
  ASSUME NEW n \in Nat, n < ORDER
  PROVE  /\ \A i \in 1..n : ~Cong(i, 0)
         /\ \A i, j \in 1..n : i # j => ~Cong(i, j)
<1>1. \A i \in 1..n : i \in Scalars /\ i # 0
  BY OrderPositive DEF Scalars
<1> QED
  BY <1>1, ScalarEqual, ScalarInt

(* The shares of a split, one by one. *)
LEMMA SplitShares ==
  ASSUME NEW n \in Nat, n < ORDER, NEW t \in Nat \ {0},
         NEW secret \in Scalars, NEW random \in [1 .. t - 1 -> Scalars]
  PROVE  /\ DOMAIN split(secret, random, n) = 1..n
         /\ \A i \in 1..n : /\ split(secret, random, n)[i] \in ShareSet
                            /\ split(secret, random, n)[i] =
                                 [x |-> i, y |-> Evaluate(<<secret>> \o random, i)]
<1> SUFFICES ASSUME NEW i \in 1..n
             PROVE  /\ split(secret, random, n)[i] \in ShareSet
                    /\ split(secret, random, n)[i] =
                                 [x |-> i, y |-> Evaluate(<<secret>> \o random, i)]
  BY DEF split
<1>1. split(secret, random, n)[i] = [x |-> i, y |-> Evaluate(<<secret>> \o random, i)]
  BY DEF split, Point
<1>2. <<secret>> \o random \in Seq(Int)
  BY CoefficientsType
<1>3. Evaluate(<<secret>> \o random, i) \in Scalars
  BY <1>2, EvaluateType, i \in Int
<1>4. i \in Scalars
  BY OrderPositive DEF Scalars
<1> QED
  BY <1>1, <1>3, <1>4 DEF ShareSet

(* As many shares of a secret as the threshold, whichever they are and in  *)
(* whichever order, combine to the secret.                                 *)
THEOREM SharesCombine ==
  ASSUME NEW n \in Nat, n < ORDER, NEW t \in Nat \ {0},
         NEW secret \in Scalars, NEW random \in [1 .. t - 1 -> Scalars],
         NEW chosen \in Seq(1..n), t <= Len(chosen),
         \A i, j \in 1 .. Len(chosen) : i # j => chosen[i] # chosen[j]
  PROVE  combine([i \in 1 .. Len(chosen) |-> split(secret, random, n)[chosen[i]]]) = secret
<1> DEFINE m == Len(chosen)
           shares == [i \in 1..m |-> split(secret, random, n)[chosen[i]]]
           E(x) == Evaluate(<<secret>> \o random, x)
<1>1. m \in Nat /\ \A i \in 1..m : chosen[i] \in 1..n
  OBVIOUS
<1>2. \A i, j \in 1..m : i # j => chosen[i] # chosen[j]
  OBVIOUS
<1>3. t <= m
  OBVIOUS
<1> HIDE DEF m
<1>4. ASSUME NEW i \in 1..m
      PROVE  shares[i] \in ShareSet /\ shares[i].x = chosen[i] /\ shares[i].y = E(chosen[i])
  <2> DEFINE k == chosen[i]
  <2>1. k \in 1..n
    BY <1>1
  <2> HIDE DEF k
  <2>2. split(secret, random, n)[k] \in ShareSet
        /\ split(secret, random, n)[k] = [x |-> k, y |-> E(k)]
    BY <2>1, SplitShares
  <2> QED
    BY <2>2 DEF k
<1>5. shares \in Seq(Points) /\ Len(shares) = m
  <2>1. ShareSet \subseteq Points
    BY ScalarInt DEF ShareSet, Points
  <2>2. \A i \in 1..m : shares[i] \in Points
    <3> HIDE DEF shares
    <3> QED
      BY <1>4, <2>1
  <2>3. shares \in [1..m -> Points]
    BY <2>2
  <2> HIDE DEF shares
  <2> QED
    BY <1>1, <2>3
<1> HIDE DEF shares
<1>6. PICK f \in Poly(t) : f[0] = secret /\ \A x \in Int : Cong(E(x), f[x])
  BY SplitPoly
<1> HIDE DEF E
<1>7. combine(shares) \in Scalars /\ Cong(combine(shares), f[0])
  <2>1. ASSUME NEW i \in 1..m, NEW j \in 1..m, i # j
        PROVE  ~Cong(shares[i].x, shares[j].x)
    BY <1>1, <1>2, <1>4, <2>1, PointsApart
  <2>2. ASSUME NEW i \in 1..m
        PROVE  Cong(shares[i].y, f[shares[i].x])
    <3>1. chosen[i] \in Int
      BY <1>1
    <3> QED
      BY <1>4, <1>6, <3>1
  <2>3. t \in Nat
    OBVIOUS
  <2> QED
    BY <1>3, <1>5, <2>1, <2>2, <2>3, CombineValue
<1>8. combine(shares) = secret
  BY <1>6, <1>7, ScalarEqual
<1> QED
  BY <1>8 DEF shares, m

(* The shares at the places in S have the values y.                        *)
Gives(shares, y, S) == \A i \in S : shares[i] = [x |-> i, y |-> y[i]]

(* One share less than the threshold says nothing: whatever the secret is, *)
(* a split of it has these shares.                                         *)
THEOREM SharesHide ==
  ASSUME NEW n \in Nat, n < ORDER, NEW t \in Nat \ {0}, NEW y \in [1..n -> Scalars],
         NEW S \in SUBSET (1..n), Cardinality(S) = t - 1, NEW secret \in Scalars
  PROVE  \E random \in [1 .. t - 1 -> Scalars] : Gives(split(secret, random, n), y, S)
<1> DEFINE x == [i \in 1..n |-> i]
           W(i, a) == a \in Int /\ Cong(i * a, y[i] - secret)
           z == [i \in 1..n |-> CHOOSE a : W(i, a)]
           d == t - 1
<1>1. x \in [1..n -> Int] /\ \A i \in 1..n : x[i] = i
  OBVIOUS
<1>2. Apart(x, S)
  BY PointsApart DEF Apart
<1>3. secret \in Int /\ \A i \in 1..n : y[i] \in Int /\ y[i] \in Scalars
  BY ScalarInt
<1>4. ASSUME NEW i \in 1..n
      PROVE  \E a : W(i, a)
  <2> DEFINE e == y[i] - secret
  <2>1. i \in Int /\ ~Cong(i, 0)
    BY PointsApart
  <2>2. e \in Int
    BY <1>3
  <2> HIDE DEF e
  <2>3. PICK r \in Int : Cong(i * r, 1)
    BY <2>1, CongInverse
  <2>4. i * (r * e) = (i * r) * e /\ r * e \in Int /\ i * r \in Int /\ 1 * e = e
    BY <2>1, <2>2
  <2>5. Cong((i * r) * e, 1 * e)
    <3>1. Cong(e, e) /\ 1 \in Int
      BY <2>2, CongRefl
    <3> QED
      BY <2>2, <2>3, <2>4, <3>1, CongMul
  <2>6. Cong(i * (r * e), e)
    BY <2>4, <2>5
  <2> QED
    BY <2>4, <2>6 DEF e
<1>5. z \in [1..n -> Int] /\ \A i \in 1..n : W(i, z[i])
  <2>1. \A i \in 1..n : z[i] = CHOOSE a : W(i, a)
    OBVIOUS
  <2>2. \A i \in 1..n : W(i, z[i])
    <3> HIDE DEF W, z
    <3> QED
      BY <1>4, <2>1
  <2> QED
    BY <2>2
<1> HIDE DEF z
<1>6. d \in Nat /\ d + 1 = t
  OBVIOUS
<1>7. PICK g \in Poly(d) : \A i \in S : Cong(g[x[i]], z[i])
  <2>1. Cardinality(S) = d
    OBVIOUS
  <2> HIDE DEF x, d
  <2>2. \A T \in SUBSET (1..n), v \in [1..n -> Int] :
          Apart(x, T) /\ Cardinality(T) = d
            => Fits(d, x, v, T)
    BY <1>1, <1>6, Fit
  <2> QED
    BY <1>2, <1>5, <2>1, <2>2 DEF Fits
<1>8. g \in [Int -> Int]
  BY PolyType
<1> DEFINE f == [s \in Int |-> secret + s * g[s]]
<1>9. f \in [Int -> Int] /\ IsHorner(f, secret, g)
  <2>1. ASSUME NEW s \in Int
        PROVE  secret + s * g[s] \in Int
    <3>1. g[s] \in Int
      BY <1>8
    <3>2. s * g[s] \in Int
      BY <3>1
    <3> QED
      BY <1>3, <3>2
  <2> QED
    BY <2>1 DEF IsHorner
<1> HIDE DEF f
<1>10. f \in Poly(t) /\ f[0] = secret
  <2>1. f \in Poly(d + 1)
    BY <1>3, <1>6, <1>9, PolyUp
  <2>2. f[0] = secret + 0 * g[0] /\ g[0] \in Int
    BY <1>8, <1>9, 0 \in Int DEF IsHorner
  <2>3. secret + 0 * g[0] = secret
    BY <1>3, <2>2
  <2> QED
    BY <1>6, <2>1, <2>2, <2>3
<1>11. PICK random \in [1 .. t - 1 -> Scalars] :
         \A s \in Int : Cong(Evaluate(<<secret>> \o random, s), f[s])
  BY <1>10, PolySplit
<1>12. ASSUME NEW i \in S
       PROVE  split(secret, random, n)[i] = [x |-> i, y |-> y[i]]
  <2> DEFINE E == Evaluate(<<secret>> \o random, i)
             a == g[i]
             e == z[i]
             w == y[i]
  <2>1. /\ i \in 1..n /\ i \in Int
        /\ split(secret, random, n)[i] = [x |-> i, y |-> E]
        /\ split(secret, random, n)[i] \in ShareSet
    BY SplitShares
  <2>2. E \in Scalars /\ E \in Int
    <3>1. <<secret>> \o random \in Seq(Int)
      BY CoefficientsType
    <3>2. E \in Scalars
      BY <2>1, <3>1, EvaluateType
    <3> QED
      BY <3>2, ScalarInt
  <2>3. Cong(E, f[i]) /\ f[i] = secret + i * a /\ a \in Int
    BY <1>8, <1>9, <1>11, <2>1 DEF IsHorner
  <2>4. Cong(a, e) /\ e \in Int /\ Cong(i * e, w - secret) /\ w \in Int /\ w \in Scalars
    BY <1>1, <1>3, <1>5, <1>7, <2>1
  <2> HIDE DEF E, a, e, w
  <2>5. i * a \in Int /\ i * e \in Int /\ w - secret \in Int
    BY <1>3, <2>1, <2>3, <2>4
  <2>6. Cong(i * a, i * e)
    BY <2>1, <2>3, <2>4, CongRefl, CongMul
  <2>7. Cong(i * a, w - secret)
    BY <2>4, <2>5, <2>6, CongTrans
  <2>8. Cong(secret + i * a, secret + (w - secret))
    BY <1>3, <2>5, <2>7, CongRefl, CongAdd
  <2>9. secret + (w - secret) = w /\ secret + i * a \in Int
    BY <1>3, <2>4, <2>5
  <2>10. Cong(E, w)
    BY <2>2, <2>3, <2>4, <2>8, <2>9, CongTrans
  <2>11. E = w
    BY <2>2, <2>4, <2>10, ScalarEqual
  <2> QED
    BY <2>1, <2>11 DEF w
<1> QED
  BY <1>12 DEF Gives

(* The algorithm's coefficient is an integer, whatever it starts from.     *)
LEMMA EuclidType == \A v \in Rounds : Euclid[v] \in Int
<1> DEFINE S == {k \in Nat : \A v \in Rounds : v[2] <= k => Euclid[v] \in Int}
<1>1. \A v \in Rounds : v[2] \in Nat /\ v[3] \in Int
  BY DEF Rounds
<1>2. 0 \in S
  <2>1. ASSUME NEW v \in Rounds, v[2] <= 0
        PROVE  Euclid[v] \in Int
    <3>1. v[2] = 0
      BY <1>1, <2>1
    <3> QED
      BY <1>1, <3>1, EuclidUnrolls
  <2> QED
    BY <2>1
<1>3. ASSUME NEW k \in S
      PROVE  k + 1 \in S
  <2>1. k \in Nat /\ \A v \in Rounds : v[2] <= k => Euclid[v] \in Int
    OBVIOUS
  <2>2. ASSUME NEW v \in Rounds, v[2] <= k + 1
        PROVE  Euclid[v] \in Int
    <3>1. CASE v[2] = 0
      BY <1>1, <3>1, EuclidUnrolls
    <3>2. CASE v[2] # 0
      <4>1. Round(v) \in Rounds /\ Round(v)[2] < v[2]
        BY <3>2, RoundType
      <4>2. Round(v)[2] <= k
        BY <1>1, <2>1, <2>2, <4>1
      <4>3. Euclid[v] = Euclid[Round(v)]
        BY <3>2, EuclidUnrolls
      <4> QED
        BY <2>1, <4>1, <4>2, <4>3
    <3> QED
      BY <3>1, <3>2
  <2>3. k + 1 \in Nat
    BY <2>1
  <2> QED
    BY <2>2, <2>3
<1>4. S = Nat
  <2> HIDE DEF S
  <2>1. S \in SUBSET Nat
    BY DEF S
  <2> QED
    BY <1>2, <1>3, <2>1, Induction
<1>5. ASSUME NEW v \in Rounds
      PROVE  Euclid[v] \in Int
  <2>1. v[2] \in S /\ v[2] <= v[2]
    BY <1>1, <1>4
  <2> QED
    BY <2>1
<1> QED
  BY <1>5

(* The factor of a share is a scalar. *)
LEMMA LagrangeType ==
  ASSUME NEW shares \in Seq(Points), NEW i \in 1 .. Len(shares)
  PROVE  Lagrange(shares, i) \in Int
<1>1. PICK acc \in [0 .. Len(shares) -> [num : Int, den : Int]] :
        Lagrange(shares, i) =
          mod(acc[Len(shares)].num * modInverse(acc[Len(shares)].den, ORDER), ORDER)
  BY LagrangeUnrolls
<1> DEFINE a == acc[Len(shares)].num
           b == acc[Len(shares)].den
           c == modInverse(b, ORDER)
<1>2. a \in Int /\ b \in Int
  <2>1. Len(shares) \in 0 .. Len(shares)
    OBVIOUS
  <2>2. acc[Len(shares)] \in [num : Int, den : Int]
    BY <2>1
  <2> QED
    BY <2>2
<1> HIDE DEF a, b
<1>3. c \in Int
  <2>1. <<b, ORDER, 1, 0>> \in Rounds
    BY <1>2, OrderPositive DEF Rounds
  <2>2. Euclid[<<b, ORDER, 1, 0>>] \in Int
    BY <2>1, EuclidType
  <2> QED
    BY <2>2, ModScalar DEF modInverse
<1> HIDE DEF c
<1>4. a * c \in Int
  BY <1>2, <1>3
<1>5. Lagrange(shares, i) = mod(a * c, ORDER)
  BY <1>1 DEF a, b, c
<1> QED
  BY <1>4, <1>5, ModScalar

(* Shares combine to a scalar, whatever they are.                          *)
LEMMA CombineType ==
  ASSUME NEW shares \in Seq(ShareSet)
  PROVE  combine(shares) \in Scalars
<1>1. shares \in Seq(Points)
  <2>1. ShareSet \subseteq Points
    BY ScalarInt DEF ShareSet, Points
  <2> QED
    BY <2>1
<1> DEFINE n == Len(shares)
           G == [i \in 1..n |-> shares[i].y * Lagrange(shares, i)]
<1>2. \A i \in 1..n : shares[i].y \in Int
  <2>1. \A i \in 1..n : shares[i] \in Points
    BY <1>1
  <2> QED
    BY <2>1 DEF Points
<1>3. \A i \in 1..n : Lagrange(shares, i) \in Int
  BY <1>1, LagrangeType
<1>4. \A i \in 1..n : shares[i].y * Lagrange(shares, i) \in Int
  BY <1>2, <1>3
<1>5. G \in [1..n -> Int]
  BY <1>4
<1>6. \A i \in 1..n : Cong(shares[i].y * Lagrange(shares, i), G[i])
  BY <1>4, CongRefl
<1> HIDE DEF G
<1> QED
  BY <1>1, <1>3, <1>5, <1>6, CombineSum
=============================================================================
