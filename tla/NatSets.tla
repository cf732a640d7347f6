------------------------------ MODULE NatSets -------------------------------
(***************************************************************************)
(* Induction over the natural numbers for sets of them: the form in which  *)
(* it can be used with the provers at hand. A formula that is to be proved *)
(* for every number becomes the set of the numbers it holds for.           *)
(***************************************************************************)
EXTENDS Integers, TLAPS, WellFoundedInduction

(* Every set of natural numbers that is not empty has a least element.     *)
LEMMA LeastElement ==
  ASSUME NEW T, T \subseteq Nat, T # {}
  PROVE  \E x \in T : \A y \in T : x <= y
<1> DEFINE R == {ss \in Nat \X Nat : ss[1] < ss[2]}
<1>1. IsWellFoundedOn(R, Nat)
  BY NatLessThanWellFounded DEF OpToRel
<1> HIDE DEF R
<1>2. PICK x \in T : \A y \in T : ~(<<y, x>> \in R)
  BY <1>1, WFMin
<1>3. \A y \in T : ~(y < x)
  <2>1. \A y \in T : y < x => <<y, x>> \in R
    BY DEF R
  <2>. QED
    BY <1>2, <2>1
<1>. QED
  BY <1>3

(* A set that has 0, and with every number the next one, has them all.     *)
LEMMA SetInduction ==
  ASSUME NEW S, 0 \in S, \A n \in Nat : n \in S => n + 1 \in S
  PROVE  Nat \subseteq S
<1> DEFINE T == Nat \ S
<1> SUFFICES ASSUME T # {} PROVE FALSE
  OBVIOUS
<1>1. PICK x \in T : \A y \in T : x <= y
  BY LeastElement
<1>2. x \in Nat /\ x \notin S /\ x # 0
  OBVIOUS
<1>3. x - 1 \in Nat /\ (x - 1) + 1 = x
  BY <1>2
<1>4. x - 1 \in S
  BY <1>1, <1>3
<1>. QED
  BY <1>2, <1>3, <1>4

-----------------------------------------------------------------------------
(* Repeating a step from x: a function f exists whose k-th value is F[k]   *)
(* of the one before, as a recursive definition asks. It is put together   *)
(* from its beginnings.                                                    *)

Repeats(F, x, n, h) == h = [k \in 0 .. n |-> IF k = 0 THEN x ELSE F[k][h[k - 1]]]

RepeatsAlways(F, x, f) ==
  /\ f = [k \in Nat |-> f[k]]
  /\ \A k \in Nat : f[k] = IF k = 0 THEN x ELSE F[k][f[k - 1]]

(* There is a beginning of every length.                                   *)
LEMMA RepeatsExist ==
  ASSUME NEW F, NEW x, NEW n \in Nat
  PROVE  \E h : Repeats(F, x, n, h)
<1> DEFINE S == {m \in Nat : \E h : Repeats(F, x, m, h)}
<1>1. 0 \in S
  <2> DEFINE h == [k \in 0 .. 0 |-> x]
  <2>1. Repeats(F, x, 0, h)
    BY DEF Repeats
  <2>. QED
    BY <2>1
<1>2. ASSUME NEW m \in Nat, m \in S
      PROVE  m + 1 \in S
  <2>1. PICK h : Repeats(F, x, m, h)
    BY <1>2
  <2> DEFINE g == [k \in 0 .. m + 1 |-> IF k = m + 1 THEN F[k][h[m]] ELSE h[k]]
  <2>2. \A k \in 0 .. m : h[k] = IF k = 0 THEN x ELSE F[k][h[k - 1]]
    BY <2>1 DEF Repeats
  <2>3. \A k \in 0 .. m + 1 : g[k] = IF k = 0 THEN x ELSE F[k][g[k - 1]]
    <3> SUFFICES ASSUME NEW k \in 0 .. m + 1 PROVE g[k] = IF k = 0 THEN x ELSE F[k][g[k - 1]]
      OBVIOUS
    <3>1. CASE k = m + 1
      <4>1. k # 0 /\ k - 1 = m /\ m \in 0 .. m + 1 /\ m # m + 1
        BY <3>1
      <4>. QED
        BY <3>1, <4>1
    <3>2. CASE k # m + 1
      <4>1. k \in 0 .. m /\ (k # 0 => k - 1 \in 0 .. m + 1 /\ k - 1 # m + 1)
        BY <3>2
      <4>. QED
        BY <3>2, <4>1, <2>2
    <3>. QED
      BY <3>1, <3>2
  <2>4. g = [k \in 0 .. m + 1 |-> g[k]]
    OBVIOUS
  <2> HIDE DEF g
  <2>5. Repeats(F, x, m + 1, g)
    BY <2>3, <2>4 DEF Repeats
  <2>. QED
    BY <2>5
<1> HIDE DEF S
<1>3. Nat \subseteq S
  BY <1>1, <1>2, SetInduction
<1>. QED
  BY <1>3 DEF S

(* Two beginnings agree as far as both go.                                 *)
LEMMA RepeatsAgree ==
  ASSUME NEW F, NEW x, NEW n \in Nat, NEW m \in Nat, NEW g, NEW h,
         Repeats(F, x, n, g), Repeats(F, x, m, h), NEW k \in Nat, k <= n, k <= m
  PROVE  g[k] = h[k]
<1> DEFINE S == {j \in Nat : j <= n /\ j <= m => g[j] = h[j]}
<1>1. /\ \A j \in 0 .. n : g[j] = IF j = 0 THEN x ELSE F[j][g[j - 1]]
      /\ \A j \in 0 .. m : h[j] = IF j = 0 THEN x ELSE F[j][h[j - 1]]
  BY DEF Repeats
<1>2. 0 \in S
  <2>1. 0 \in 0 .. n /\ 0 \in 0 .. m
    OBVIOUS
  <2>. QED
    BY <1>1, <2>1
<1>3. ASSUME NEW j \in Nat, j \in S
      PROVE  j + 1 \in S
  <2> SUFFICES ASSUME j + 1 <= n, j + 1 <= m PROVE g[j + 1] = h[j + 1]
    OBVIOUS
  <2>1. j <= n /\ j <= m /\ j + 1 \in 0 .. n /\ j + 1 \in 0 .. m /\ j + 1 # 0 /\ (j + 1) - 1 = j
    OBVIOUS
  <2>2. g[j] = h[j]
    BY <1>3, <2>1
  <2>3. g[j + 1] = F[j + 1][g[j]] /\ h[j + 1] = F[j + 1][h[j]]
    BY <1>1, <2>1
  <2>. QED
    BY <2>2, <2>3
<1> HIDE DEF S
<1>4. Nat \subseteq S
  BY <1>2, <1>3, SetInduction
<1>. QED
  BY <1>4 DEF S

(* So the whole function exists.                                           *)
LEMMA Repetition ==
  ASSUME NEW F, NEW x
  PROVE  \E f : RepeatsAlways(F, x, f)
<1> DEFINE H(n) == CHOOSE h : Repeats(F, x, n, h)
           f    == [k \in Nat |-> H(k)[k]]
<1>1. \A n \in Nat : Repeats(F, x, n, H(n))
  BY RepeatsExist
<1>2. ASSUME NEW k \in Nat
      PROVE  f[k] = IF k = 0 THEN x ELSE F[k][f[k - 1]]
  <2>1. \A j \in 0 .. k : H(k)[j] = IF j = 0 THEN x ELSE F[j][H(k)[j - 1]]
    <3> HIDE DEF H
    <3>1. Repeats(F, x, k, H(k))
      BY <1>1
    <3>. QED
      BY <3>1 DEF Repeats
  <2>2. H(k)[k] = IF k = 0 THEN x ELSE F[k][H(k)[k - 1]]
    BY <2>1
  <2>3. ASSUME k # 0 PROVE k - 1 \in Nat /\ H(k)[k - 1] = H(k - 1)[k - 1]
    <3>1. k - 1 \in Nat /\ k - 1 <= k
      BY <2>3
    <3> HIDE DEF H
    <3>. QED
      BY <3>1, <1>1, RepeatsAgree
  <2> HIDE DEF H
  <2>. QED
    BY <2>2, <2>3
<1> HIDE DEF H
<1>3. f = [k \in Nat |-> f[k]]
  OBVIOUS
<1> HIDE DEF f
<1>4. RepeatsAlways(F, x, f)
  BY <1>2, <1>3 DEF RepeatsAlways
<1>. QED
  BY <1>4

==============================================================================
