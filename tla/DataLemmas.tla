----------------------------- MODULE DataLemmas -----------------------------
(***************************************************************************)
(* Induction over the natural numbers, in the form that the proofs of this *)
(* project use: over a set.  A set of numbers that has 0 and with a number *)
(* its successor has them all; this follows from the well-foundedness of   *)
(* the order.  With it, what the loops of module Loops compute, and how    *)
(* sets of numbers are counted.                                            *)
(***************************************************************************)
EXTENDS Loops, WellFoundedInduction, FiniteSetTheorems, TLAPS

(* Every set of natural numbers but the empty one has a least element.     *)
LEMMA LeastNatural ==
  ASSUME NEW S \in SUBSET Nat, S # {}
  PROVE  \E m \in S : \A k \in S : m <= k
<1>1. IsWellFoundedOn(OpToRel(<, Nat), Nat)
  BY NatLessThanWellFounded
<1> DEFINE R == OpToRel(<, Nat)
<1>2. IsWellFoundedOn(R, Nat)
  BY <1>1
<1>3. \A x, y \in Nat : <<x, y>> \in R <=> x < y
  BY DEF OpToRel
<1> HIDE DEF R
<1>4. PICK m \in S : \A k \in S : ~(<<k, m>> \in R)
  BY <1>2, WFMin
<1>5. ASSUME NEW k \in S
      PROVE  m <= k
  <2>1. m \in Nat /\ k \in Nat /\ ~(<<k, m>> \in R)
    BY <1>4
  <2> QED
    BY <1>3, <2>1
<1> QED
  BY <1>5

(* Induction, as a statement about sets. *)
LEMMA Induction ==
  ASSUME NEW S \in SUBSET Nat, 0 \in S, \A n \in S : n + 1 \in S
  PROVE  S = Nat
<1> SUFFICES ASSUME S # Nat PROVE FALSE
  OBVIOUS
<1> DEFINE C == Nat \ S
<1>1. PICK m \in C : \A k \in C : m <= k
  BY LeastNatural
<1>2. m # 0 /\ m - 1 \in Nat /\ m - 1 \notin C
  BY <1>1
<1> QED
  BY <1>2

(* Induction up to a bound. *)
LEMMA BoundedInduction ==
  ASSUME NEW n \in Nat, NEW S, 0 \in S, \A i \in 0 .. n - 1 : i \in S => i + 1 \in S
  PROVE  0..n \subseteq S
<1> DEFINE T == {i \in Nat : i \in 0..n => i \in S}
<1>1. 0 \in T
  OBVIOUS
<1>2. \A i \in T : i + 1 \in T
  OBVIOUS
<1>3. T = Nat
  <2> HIDE DEF T
  <2> T \in SUBSET Nat
    BY DEF T
  <2> QED
    BY <1>1, <1>2, Induction
<1> QED
  BY <1>3

(* Loops: the values after every round. *)

IsLoop(A, step, base, n) ==
  n \in Nat /\ base \in A /\ step \in [1..n -> [A -> A]]

IsTrace(acc, A, step, base, n) ==
  /\ acc \in [0..n -> A]
  /\ acc[0] = base /\ acc[n] = Loop(step, base, n)
  /\ \A i \in 1..n : acc[i] = step[i][acc[i - 1]]

(* A loop has a value after every round, each made of the one before.      *)
LEMMA LoopUnrolls ==
  ASSUME NEW A, NEW step, NEW base, NEW n, IsLoop(A, step, base, n)
  PROVE  \E acc : IsTrace(acc, A, step, base, n)
<1> n \in Nat /\ base \in A /\ step \in [1..n -> [A -> A]]
  BY DEF IsLoop
<1> DEFINE Body(g, m) == [i \in 0..m |-> IF i = 0 THEN base ELSE step[i][g[i - 1]]]
           Good(m) == \E g \in [0..m -> A] : g = Body(g, m)
           S == {m \in 0..n : Good(m)}
<1>1. 0 \in S
  <2> DEFINE g == [i \in 0..0 |-> base]
  <2>1. g \in [0..0 -> A] /\ g = Body(g, 0)
    OBVIOUS
  <2>2. Good(0)
    BY <2>1
  <2> HIDE DEF Good
  <2> QED
    BY <2>2
<1>2. ASSUME NEW m \in 0 .. n - 1, m \in S
      PROVE  m + 1 \in S
  <2>1. PICK g \in [0..m -> A] : g = Body(g, m)
    BY <1>2
  <2> DEFINE h == [i \in 0 .. m + 1 |-> IF i = m + 1 THEN step[m + 1][g[m]] ELSE g[i]]
  <2>2. \A i \in 1..m : g[i] = step[i][g[i - 1]]
    BY <2>1
  <2>3. g[0] = base
    BY <2>1
  <2>4. h \in [0 .. m + 1 -> A]
    OBVIOUS
  <2>5. ASSUME NEW i \in 0 .. m + 1
        PROVE  h[i] = Body(h, m + 1)[i]
    <3>1. CASE i = 0
      BY <3>1, <2>3
    <3>2. CASE i = m + 1
      BY <3>2
    <3>3. CASE i \in 1..m
      BY <3>3, <2>2
    <3> QED
      BY <3>1, <3>2, <3>3
  <2>6. h = Body(h, m + 1)
    BY <2>4, <2>5
  <2> HIDE DEF h
  <2>7. Good(m + 1)
    BY <2>4, <2>6
  <2> HIDE DEF Good
  <2> QED
    BY <2>7
<1>3. n \in S
  <2> HIDE DEF S
  <2>1. 0..n \subseteq S
    BY <1>1, <1>2, BoundedInduction
  <2> QED
    BY <2>1
<1>4. PICK g \in [0..n -> A] : g = Body(g, n)
  BY <1>3
<1> DEFINE acc == CHOOSE acc : acc = Body(acc, n)
<1>5. acc = Body(acc, n)
  BY <1>4
<1>6. Loop(step, base, n) = acc[n]
  BY DEF Loop
<1> HIDE DEF acc
<1>7. DOMAIN acc = 0..n /\ acc[0] = base /\ \A i \in 1..n : acc[i] = step[i][acc[i - 1]]
  BY <1>5
<1> DEFINE U == {i \in 0..n : acc[i] \in A}
<1>8. 0..n \subseteq U
  <2>1. 0 \in U
    BY <1>7
  <2>2. \A i \in 0 .. n - 1 : i \in U => i + 1 \in U
    <3> SUFFICES ASSUME NEW i \in 0 .. n - 1, acc[i] \in A PROVE acc[i + 1] \in A
      OBVIOUS
    <3>1. acc[i + 1] = step[i + 1][acc[i]]
      BY <1>7
    <3> QED
      BY <3>1
  <2> HIDE DEF U
  <2> QED
    BY <2>1, <2>2, BoundedInduction
<1>9. acc \in [0..n -> A]
  BY <1>5, <1>8
<1> QED
  BY <1>6, <1>7, <1>9 DEF IsTrace

-----------------------------------------------------------------------------
(* Parts of a sequence. *)

(* The places I of s, from the first to the last. *)
IsSelection(at, s, I) ==
  /\ at \in Seq(I) /\ Len(at) = Cardinality(I)
  /\ \A j, k \in 1 .. Len(at) : j < k => at[j] < at[k]
  /\ \A i \in I : \E k \in 1 .. Len(at) : at[k] = i
  /\ Subsequence(s, I) = [k \in 1 .. Len(at) |-> s[at[k]]]

(* A selection as far as the first m places of s.                          *)
IsSelected(at, kept, s, J) ==
  /\ at \in Seq(J) /\ Len(at) = Cardinality(J)
  /\ \A j, k \in 1 .. Len(at) : j < k => at[j] < at[k]
  /\ \A i \in J : \E k \in 1 .. Len(at) : at[k] = i
  /\ kept = [k \in 1 .. Len(at) |-> s[at[k]]]

(* One more place that is selected. *)
LEMMA SelectedMore ==
  ASSUME NEW s, NEW m \in Nat, NEW J \in SUBSET (1..m), NEW at, NEW kept,
         IsSelected(at, kept, s, J), s[m + 1] \in Range(s), kept \in Seq(Range(s))
  PROVE  \E new : IsSelected(new, Append(kept, s[m + 1]), s, J \cup {m + 1})
<1> DEFINE i == m + 1
           new == Append(at, i)
           n == Len(at)
           T == J \cup {i}
<1>1. /\ at \in Seq(J) /\ n = Cardinality(J) /\ n \in Nat
      /\ \A j, k \in 1..n : j < k => at[j] < at[k]
      /\ \A e \in J : \E k \in 1..n : at[k] = e
      /\ kept = [k \in 1..n |-> s[at[k]]]
      /\ \A k \in 1..n : at[k] \in J
  BY DEF IsSelected
<1>2. IsFiniteSet(J) /\ i \notin J
  <2>1. IsFiniteSet(1..m)
    BY FS_Interval, 1 \in Int, m \in Int
  <2>2. IsFiniteSet(J)
    BY <2>1, FS_Subset
  <2> QED
    BY <2>2
<1>3. Cardinality(T) = n + 1
  <2>1. Cardinality(T) = Cardinality(J) + 1
    BY <1>2, FS_AddElement
  <2> QED
    BY <1>1, <2>1
<1>4. new \in Seq(T) /\ Len(new) = n + 1 /\ new[n + 1] = i /\ \A k \in 1..n : new[k] = at[k]
  <2>1. at \in Seq(T) /\ i \in T
    <3>1. J \subseteq T
      OBVIOUS
    <3>2. \A k \in 1..n : at[k] \in T
      BY <1>1, <3>1
    <3>3. at \in [1..n -> T]
      BY <1>1, <3>2
    <3> QED
      BY <1>1, <3>3
  <2> HIDE DEF T, i
  <2> QED
    BY <2>1
<1> HIDE DEF new, n
<1>5. \A k \in 1..n : at[k] < i
  <2>1. \A e \in J : e < i
    OBVIOUS
  <2> HIDE DEF i
  <2> QED
    BY <1>1, <2>1
<1>6. ASSUME NEW j \in 1 .. n + 1, NEW k \in 1 .. n + 1, j < k
      PROVE  new[j] < new[k]
  <2>1. CASE k = n + 1
    <3>1. j \in 1..n
      BY <1>1, <1>6, <2>1
    <3> QED
      BY <1>4, <1>5, <2>1, <3>1
  <2>2. CASE k # n + 1
    <3>1. j \in 1..n /\ k \in 1..n
      BY <1>1, <1>6, <2>2
    <3> QED
      BY <1>1, <1>4, <1>6, <3>1
  <2> QED
    BY <2>1, <2>2
<1>7. ASSUME NEW e \in T
      PROVE  \E k \in 1 .. n + 1 : new[k] = e
  <2>1. CASE e = i
    <3>1. n + 1 \in 1 .. n + 1
      BY <1>1
    <3> QED
      BY <1>4, <2>1, <3>1
  <2>2. CASE e \in J
    <3>1. PICK k \in 1..n : at[k] = e
      BY <1>1, <2>2
    <3>2. k \in 1 .. n + 1
      BY <1>1
    <3> QED
      BY <1>4, <3>1, <3>2
  <2> QED
    BY <2>1, <2>2
<1>8. Append(kept, s[i]) = [k \in 1 .. n + 1 |-> s[new[k]]]
  <2> DEFINE b == Append(kept, s[i])
             r == [k \in 1 .. n + 1 |-> s[new[k]]]
  <2>1. Len(kept) = n
    <3>1. DOMAIN kept = 1..n
      BY <1>1
    <3> QED
      BY <1>1, <3>1
  <2>2. b \in Seq(Range(s)) /\ Len(b) = n + 1 /\ b[n + 1] = s[i]
        /\ \A k \in 1..n : b[k] = kept[k]
    BY <2>1
  <2> HIDE DEF b
  <2>3. DOMAIN b = 1 .. n + 1
    BY <2>2
  <2>4. ASSUME NEW k \in 1 .. n + 1
        PROVE  b[k] = s[new[k]]
    <3>1. CASE k = n + 1
      BY <1>4, <2>2, <3>1
    <3>2. CASE k # n + 1
      <4>1. k \in 1..n
        BY <1>1, <3>2
      <4> QED
        BY <1>1, <1>4, <2>2, <4>1
    <3> QED
      BY <3>1, <3>2
  <2>5. b = [k \in DOMAIN b |-> b[k]]
    BY <2>2
  <2>6. b = [k \in 1 .. n + 1 |-> b[k]]
    BY <2>3, <2>5
  <2>7. b = [k \in 1 .. n + 1 |-> s[new[k]]]
    BY <2>4, <2>6
  <2> QED
    BY <2>7 DEF b
<1>9. IsSelected(new, Append(kept, s[i]), s, T)
  <2> HIDE DEF i, T
  <2> QED
    BY <1>3, <1>4, <1>6, <1>7, <1>8 DEF IsSelected
<1> QED
  BY <1>9

(* The subsequence at the places I is what they hold, in their order.      *)
LEMMA SubsequenceSelects ==
  ASSUME NEW A, NEW s \in Seq(A), NEW I \in SUBSET (1 .. Len(s))
  PROVE  \E at : IsSelection(at, s, I)
<1> DEFINE n == Len(s)
           B == Seq(Range(s))
           Next(i, kept) == IF i \in I THEN Append(kept, s[i]) ELSE kept
           step == [i \in DOMAIN s |-> [kept \in B |-> Next(i, kept)]]
<1>1. n \in Nat /\ DOMAIN s = 1..n /\ \A i \in 1..n : s[i] \in Range(s)
  BY DEF Range
<1>2. ASSUME NEW i \in 1..n, NEW kept \in B
      PROVE  Next(i, kept) \in B
  BY <1>1
<1>3. Subsequence(s, I) = Loop(step, <<>>, n)
  BY DEF Subsequence
<1>4. <<>> \in B
  OBVIOUS
<1> HIDE DEF Next
<1>5. /\ step \in [1..n -> [B -> B]]
      /\ \A i \in 1..n, kept \in B : step[i][kept] = Next(i, kept)
  BY <1>1, <1>2
<1> HIDE DEF step, n, B
<1>6. IsLoop(B, step, <<>>, n)
  BY <1>1, <1>4, <1>5 DEF IsLoop
<1>7. PICK acc : IsTrace(acc, B, step, <<>>, n)
  BY <1>6, LoopUnrolls
<1>8. /\ acc \in [0..n -> B] /\ acc[0] = <<>> /\ acc[n] = Subsequence(s, I)
      /\ \A i \in 1..n : acc[i] = step[i][acc[i - 1]]
  BY <1>3, <1>7 DEF IsTrace
<1> DEFINE Has(m) == \E at : IsSelected(at, acc[m], s, I \cap (1..m))
           S == {m \in 0..n : Has(m)}
<1>9. 0 \in S
  <2>1. I \cap (1..0) = {}
    OBVIOUS
  <2>2. Cardinality({}) = 0
    BY FS_EmptySet
  <2>3. IsSelected(<<>>, <<>>, s, {})
    <3>1. <<>> \in Seq({}) /\ Len(<<>>) = 0 /\ 1 .. Len(<<>>) = {}
      OBVIOUS
    <3>2. <<>> = [k \in 1 .. Len(<<>>) |-> s[<<>>[k]]]
      OBVIOUS
    <3> QED
      BY <2>2, <3>1, <3>2 DEF IsSelected
  <2>4. Has(0)
    BY <1>8, <2>1, <2>3
  <2> HIDE DEF Has
  <2> QED
    BY <1>1, <2>4
<1>10. ASSUME NEW m \in 0 .. n - 1, m \in S
       PROVE  m + 1 \in S
  <2> DEFINE i == m + 1
             J == I \cap (1..m)
  <2>1. i \in 1..n /\ i \in 0..n /\ m \in 0..n /\ i - 1 = m /\ m \in Nat
    BY <1>1
  <2>2. PICK at : IsSelected(at, acc[m], s, J)
    BY <1>10
  <2>3. acc[m] \in B /\ acc[i] = Next(i, acc[m])
    <3> HIDE DEF i
    <3>1. acc[m] \in B /\ acc[i] = step[i][acc[m]]
      BY <1>8, <2>1
    <3> QED
      BY <1>5, <2>1, <3>1
  <2>4. CASE i \in I
    <3>1. acc[i] = Append(acc[m], s[i]) /\ I \cap (1..i) = J \cup {i}
      BY <2>1, <2>3, <2>4 DEF Next
    <3>2. \E new : IsSelected(new, Append(acc[m], s[i]), s, J \cup {i})
      <4>1. J \in SUBSET (1..m) /\ s[i] \in Range(s) /\ acc[m] \in Seq(Range(s))
        BY <1>1, <2>1, <2>3 DEF B
      <4> HIDE DEF J
      <4> QED
        BY <2>1, <2>2, <4>1, SelectedMore
    <3>3. Has(i)
      BY <3>1, <3>2
    <3> HIDE DEF Has
    <3> QED
      BY <2>1, <3>3
  <2>5. CASE i \notin I
    <3>1. acc[i] = acc[m] /\ I \cap (1..i) = J
      BY <2>1, <2>3, <2>5 DEF Next
    <3>2. Has(i)
      BY <2>2, <3>1
    <3> HIDE DEF Has
    <3> QED
      BY <2>1, <3>2
  <2> QED
    BY <2>4, <2>5
<1>11. n \in S
  <2> HIDE DEF S
  <2>1. 0..n \subseteq S
    BY <1>1, <1>9, <1>10, BoundedInduction, Zenon
  <2> QED
    BY <1>1, <2>1
<1>12. I \cap (1..n) = I
  BY DEF n
<1>13. PICK at : IsSelected(at, Subsequence(s, I), s, I)
  BY <1>8, <1>11, <1>12
<1> QED
  BY <1>13 DEF IsSelected, IsSelection

(* Its type and its length. *)
LEMMA SubsequenceType ==
  ASSUME NEW A, NEW B, NEW s \in Seq(A), NEW I \in SUBSET (1 .. Len(s)), \A i \in I : s[i] \in B
  PROVE  Subsequence(s, I) \in Seq(B) /\ Len(Subsequence(s, I)) = Cardinality(I)
<1>1. PICK at : IsSelection(at, s, I)
  BY SubsequenceSelects
<1>2. /\ at \in Seq(I) /\ Len(at) = Cardinality(I) /\ Len(at) \in Nat
      /\ Subsequence(s, I) = [k \in 1 .. Len(at) |-> s[at[k]]]
  BY <1>1 DEF IsSelection
<1>3. \A k \in 1 .. Len(at) : at[k] \in I
  BY <1>2
<1>4. \A k \in 1 .. Len(at) : s[at[k]] \in B
  BY <1>3
<1> QED
  BY <1>2, <1>4


(* All the places of a sequence. *)
LEMMA SubsequenceAll ==
  ASSUME NEW A, NEW s \in Seq(A)
  PROVE  Subsequence(s, 1 .. Len(s)) = s
<1> DEFINE n == Len(s)
           B == Seq(Range(s))
           Next(i, kept) == IF i \in 1..n THEN Append(kept, s[i]) ELSE kept
           step == [i \in DOMAIN s |-> [kept \in B |-> Next(i, kept)]]
<1>1. n \in Nat /\ DOMAIN s = 1..n /\ \A i \in 1..n : s[i] \in Range(s)
  BY DEF Range
<1>2. ASSUME NEW i \in 1..n, NEW kept \in B
      PROVE  Next(i, kept) \in B
  BY <1>1
<1>3. Subsequence(s, 1..n) = Loop(step, <<>>, n)
  BY DEF Subsequence
<1>4. <<>> \in B
  OBVIOUS
<1> HIDE DEF Next
<1>5. /\ step \in [1..n -> [B -> B]]
      /\ \A i \in 1..n, kept \in B : step[i][kept] = Next(i, kept)
  BY <1>1, <1>2
<1> HIDE DEF step, n, B
<1>6. IsLoop(B, step, <<>>, n)
  BY <1>1, <1>4, <1>5 DEF IsLoop
<1>7. PICK acc : IsTrace(acc, B, step, <<>>, n)
  BY <1>6, LoopUnrolls
<1>8. /\ acc \in [0..n -> B] /\ acc[0] = <<>> /\ acc[n] = Subsequence(s, 1..n)
      /\ \A i \in 1..n : acc[i] = step[i][acc[i - 1]]
  BY <1>3, <1>7 DEF IsTrace
<1> DEFINE First(m) == [k \in 1..m |-> s[k]]
           S == {m \in 0..n : acc[m] = First(m)}
<1>9. 0 \in S
  BY <1>1, <1>8
<1>10. ASSUME NEW m \in 0 .. n - 1, m \in S
       PROVE  m + 1 \in S
  <2>1. m \in Nat /\ m \in 0..n /\ m + 1 \in 1..n /\ m + 1 \in 0..n /\ (m + 1) - 1 = m
    BY <1>1
  <2>2. acc[m] = First(m) /\ acc[m] \in B
    BY <1>8, <1>10, <2>1
  <2>3. acc[m + 1] = Append(acc[m], s[m + 1])
    <3>1. acc[m + 1] = step[m + 1][acc[m]]
      BY <1>8, <2>1
    <3> QED
      BY <1>5, <2>1, <2>2, <3>1 DEF Next
  <2>4. Len(acc[m]) = m /\ acc[m] \in Seq(Range(s)) /\ s[m + 1] \in Range(s)
    <3>1. DOMAIN acc[m] = 1..m
      BY <2>2
    <3> QED
      BY <1>1, <2>1, <2>2, <3>1 DEF B
  <2> DEFINE b == Append(acc[m], s[m + 1])
  <2>5. /\ b \in Seq(Range(s)) /\ Len(b) = m + 1 /\ b[m + 1] = s[m + 1]
        /\ \A k \in 1..m : b[k] = acc[m][k]
    BY <2>1, <2>4
  <2> HIDE DEF b
  <2>6. \A k \in 1 .. m + 1 : b[k] = s[k]
    <3> SUFFICES ASSUME NEW k \in 1 .. m + 1 PROVE b[k] = s[k]
      OBVIOUS
    <3>1. CASE k = m + 1
      BY <2>5, <3>1
    <3>2. CASE k # m + 1
      <4>1. k \in 1..m
        BY <2>1, <3>2
      <4> QED
        BY <2>2, <2>5, <4>1
    <3> QED
      BY <3>1, <3>2
  <2>7. b = [k \in 1 .. m + 1 |-> b[k]]
    BY <2>5
  <2>8. b = First(m + 1)
    BY <2>6, <2>7
  <2> QED
    BY <2>1, <2>3, <2>8 DEF b
<1>11. n \in S
  <2> HIDE DEF S
  <2>1. 0..n \subseteq S
    BY <1>1, <1>9, <1>10, BoundedInduction, Zenon
  <2> QED
    BY <1>1, <2>1
<1>12. First(n) = s
  BY <1>1
<1> QED
  BY <1>8, <1>11, <1>12 DEF n

-----------------------------------------------------------------------------
(* Counting, and subsequences place by place. *)

(* A set of natural numbers with a bound has a greatest element.           *)
LEMMA GreatestNatural ==
  ASSUME NEW n \in Nat, NEW S \in SUBSET (0..n), S # {}
  PROVE  \E m \in S : \A k \in S : k <= m
<1> DEFINE T == {i \in 0..n : n - i \in S}
<1>1. T \in SUBSET Nat /\ T # {}
  <2>1. PICK k \in S : TRUE
    OBVIOUS
  <2>2. n - k \in 0..n /\ n - (n - k) = k
    BY <2>1
  <2>3. n - k \in T
    BY <2>1, <2>2
  <2>4. T \subseteq 0..n
    OBVIOUS
  <2> HIDE DEF T
  <2> QED
    BY <2>3, <2>4
<1>2. \A i \in T : i \in 0..n /\ n - i \in S
  OBVIOUS
<1>3. \A k \in S : n - k \in T
  <2> SUFFICES ASSUME NEW k \in S PROVE n - k \in T
    OBVIOUS
  <2>1. n - k \in 0..n /\ n - (n - k) = k
    OBVIOUS
  <2> QED
    BY <2>1
<1> HIDE DEF T
<1>4. PICK i \in T : \A k \in T : i <= k
  BY <1>1, LeastNatural
<1>5. ASSUME NEW k \in S
      PROVE  k <= n - i
  <2>1. i <= n - k
    BY <1>3, <1>4
  <2> QED
    BY <1>2, <2>1
<1> QED
  BY <1>2, <1>5

(* Numbers counted as far as k. *)
LEMMA CountUpTo ==
  ASSUME NEW G \in SUBSET Nat, NEW k \in Nat
  PROVE  /\ IsFiniteSet(G \cap (1..k)) /\ Cardinality(G \cap (1..k)) \in Nat
         /\ Cardinality(G \cap (1 .. k + 1)) =
              Cardinality(G \cap (1..k)) + (IF k + 1 \in G THEN 1 ELSE 0)
<1> DEFINE K == G \cap (1..k)
<1>1. IsFiniteSet(K)
  <2>1. IsFiniteSet(1..k)
    BY FS_Interval, 1 \in Int, k \in Int
  <2> QED
    BY <2>1, FS_Subset
<1>2. Cardinality(K) \in Nat
  BY <1>1, FS_CardinalityType
<1>3. k + 1 \notin K
  OBVIOUS
<1>4. Cardinality(K \cup {k + 1}) = Cardinality(K) + 1
  BY <1>1, <1>3, FS_AddElement
<1>5. CASE k + 1 \in G
  <2>1. G \cap (1 .. k + 1) = K \cup {k + 1}
    BY <1>5
  <2> QED
    BY <1>1, <1>2, <1>4, <1>5, <2>1
<1>6. CASE k + 1 \notin G
  <2>1. G \cap (1 .. k + 1) = K
    BY <1>6
  <2> QED
    BY <1>1, <1>2, <1>6, <2>1
<1> QED
  BY <1>5, <1>6

(* Sets that correspond one to one have as many elements.                  *)
LEMMA CountAlong ==
  ASSUME NEW K, NEW L, IsFiniteSet(K), NEW f \in [K -> L],
         \A j, k \in K : f[j] = f[k] => j = k, \A l \in L : \E k \in K : f[k] = l
  PROVE  IsFiniteSet(L) /\ Cardinality(L) = Cardinality(K)
<1>1. f \in Bijection(K, L)
  BY DEF Bijection, Injection, Surjection, IsInjective
<1>2. ExistsBijection(K, L)
  BY <1>1 DEF ExistsBijection
<1> QED
  BY <1>2, FS_Bijection

(* What a subsequence is made of, place by place.                          *)
LEMMA SubsequenceTrace ==
  ASSUME NEW A, NEW s \in Seq(A), NEW I
  PROVE  \E acc \in [0 .. Len(s) -> Seq(Range(s))] :
           /\ acc[0] = <<>> /\ acc[Len(s)] = Subsequence(s, I)
           /\ \A i \in 1 .. Len(s) :
                acc[i] = IF i \in I THEN Append(acc[i - 1], s[i]) ELSE acc[i - 1]
<1> DEFINE n == Len(s)
           B == Seq(Range(s))
           Next(i, kept) == IF i \in I THEN Append(kept, s[i]) ELSE kept
           step == [i \in DOMAIN s |-> [kept \in B |-> Next(i, kept)]]
<1>1. n \in Nat /\ DOMAIN s = 1..n /\ \A i \in 1..n : s[i] \in Range(s)
  BY DEF Range
<1>2. ASSUME NEW i \in 1..n, NEW kept \in B
      PROVE  Next(i, kept) \in B
  BY <1>1
<1>3. Subsequence(s, I) = Loop(step, <<>>, n)
  BY DEF Subsequence
<1>4. <<>> \in B
  OBVIOUS
<1> HIDE DEF Next
<1>5. /\ step \in [1..n -> [B -> B]]
      /\ \A i \in 1..n, kept \in B : step[i][kept] = Next(i, kept)
  BY <1>1, <1>2
<1> HIDE DEF step, n, B
<1>6. IsLoop(B, step, <<>>, n)
  BY <1>1, <1>4, <1>5 DEF IsLoop
<1>7. PICK acc : IsTrace(acc, B, step, <<>>, n)
  BY <1>6, LoopUnrolls
<1>8. /\ acc \in [0..n -> B] /\ acc[0] = <<>> /\ acc[n] = Subsequence(s, I)
      /\ \A i \in 1..n : acc[i] = step[i][acc[i - 1]]
  BY <1>3, <1>7 DEF IsTrace
<1>9. ASSUME NEW i \in 1..n
      PROVE  acc[i] = IF i \in I THEN Append(acc[i - 1], s[i]) ELSE acc[i - 1]
  <2>1. i - 1 \in 0..n
    BY <1>1
  <2>2. acc[i - 1] \in B
    BY <1>8, <2>1
  <2>3. acc[i] = Next(i, acc[i - 1])
    BY <1>5, <1>8, <2>2
  <2> QED
    BY <2>3 DEF Next
<1> QED
  BY <1>8, <1>9 DEF n, B

(* One more element. *)
LEMMA SubsequenceAppend ==
  ASSUME NEW A, NEW s \in Seq(A), NEW e \in A, NEW I, NEW J,
         \A i \in 1 .. Len(s) : i \in I <=> i \in J
  PROVE  Subsequence(Append(s, e), I) =
           IF Len(s) + 1 \in I THEN Append(Subsequence(s, J), e) ELSE Subsequence(s, J)
<1> DEFINE t == Append(s, e)
           n == Len(s)
<1>1. /\ n \in Nat /\ t \in Seq(A) /\ Len(t) = n + 1 /\ t[n + 1] = e
      /\ \A i \in 1..n : t[i] = s[i]
  OBVIOUS
<1> HIDE DEF t
<1>2. PICK old \in [0..n -> Seq(Range(s))] :
        /\ old[0] = <<>> /\ old[n] = Subsequence(s, J)
        /\ \A i \in 1..n : old[i] = IF i \in J THEN Append(old[i - 1], s[i]) ELSE old[i - 1]
  BY SubsequenceTrace
<1>3. PICK new \in [0 .. n + 1 -> Seq(Range(t))] :
        /\ new[0] = <<>> /\ new[n + 1] = Subsequence(t, I)
        /\ \A i \in 1 .. n + 1 :
             new[i] = IF i \in I THEN Append(new[i - 1], t[i]) ELSE new[i - 1]
  <2>1. \E acc \in [0 .. Len(t) -> Seq(Range(t))] :
           /\ acc[0] = <<>> /\ acc[Len(t)] = Subsequence(t, I)
           /\ \A i \in 1 .. Len(t) :
                acc[i] = IF i \in I THEN Append(acc[i - 1], t[i]) ELSE acc[i - 1]
    BY <1>1, SubsequenceTrace
  <2> QED
    BY <1>1, <2>1
<1> HIDE DEF n
<1> DEFINE S == {i \in 0..n : new[i] = old[i]}
<1>4. 0 \in S
  BY <1>1, <1>2, <1>3
<1>5. ASSUME NEW i \in 0 .. n - 1, i \in S
      PROVE  i + 1 \in S
  <2>1. i + 1 \in 1..n /\ i + 1 \in 1 .. n + 1 /\ i + 1 - 1 = i
    BY <1>1
  <2>2. t[i + 1] = s[i + 1] /\ (i + 1 \in I <=> i + 1 \in J)
    BY <1>1, <2>1 DEF n
  <2>3. new[i + 1] = IF i + 1 \in I THEN Append(new[i], t[i + 1]) ELSE new[i]
    BY <1>3, <2>1
  <2>4. old[i + 1] = IF i + 1 \in J THEN Append(old[i], s[i + 1]) ELSE old[i]
    BY <1>2, <2>1
  <2> QED
    BY <1>5, <2>1, <2>2, <2>3, <2>4
<1>6. n \in S
  <2> HIDE DEF S
  <2>1. 0..n \subseteq S
    BY <1>1, <1>4, <1>5, BoundedInduction, Zenon
  <2> QED
    BY <1>1, <2>1
<1>7. \A i \in 1 .. n + 1 : i = n + 1 =>
        new[n + 1] = IF n + 1 \in I THEN Append(new[n], e) ELSE new[n]
  <2> SUFFICES ASSUME NEW i \in 1 .. n + 1, i = n + 1
               PROVE  new[i] = IF i \in I THEN Append(new[n], e) ELSE new[n]
    OBVIOUS
  <2>1. new[i] = IF i \in I THEN Append(new[i - 1], t[i]) ELSE new[i - 1]
    BY <1>3
  <2>2. t[i] = e
    BY <1>1 DEF n
  <2>3. i - 1 = n
    BY <1>1
  <2> QED
    BY <2>1, <2>2, <2>3
<1>8. new[n + 1] = IF n + 1 \in I THEN Append(new[n], e) ELSE new[n]
  BY <1>1, <1>7
<1> QED
  BY <1>2, <1>3, <1>6, <1>8 DEF t, n
=============================================================================
