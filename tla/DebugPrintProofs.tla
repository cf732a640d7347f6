-------------------------- MODULE DebugPrintProofs --------------------------
(***************************************************************************)
(* Proofs about DebugPrint, for every kernel image, every call and every   *)
(* width of a number: that the loop of debug_printf stays within the       *)
(* format it was called with, that nothing but bytes goes to the port,     *)
(* when the buffer of debug_puti is too short, and that every step is one  *)
(* of Console or a stutter.                                                *)
(*                                                                         *)
(* The image is one string after the other, so what has to be known is     *)
(* where in it the pieces of a format lie, which argument is whose, and    *)
(* how many digits a number has.                                           *)
(***************************************************************************)
EXTENDS DebugPrint, NatSets, SequenceTheorems, FiniteSetTheorems, TLAPS

(* A flattened sequence is put together from left to right.                *)
Parts(T, seqs, g) ==
  /\ g \in [0 .. Len(seqs) -> Seq(T)]
  /\ g[0] = <<>>
  /\ \A k \in 1 .. Len(seqs) : g[k] = g[k - 1] \o seqs[k]

(* The parts exist: FlattenSeq is defined by recursion.                    *)
LEMMA PartsExist ==
  ASSUME NEW T, NEW seqs \in Seq(Seq(T))
  PROVE  \E g : Parts(T, seqs, g)
<1> DEFINE n == Len(seqs)
           F == [k \in Nat |-> [s \in Seq(T) |-> IF k \in 1 .. n THEN s \o seqs[k] ELSE s]]
<1>1. n \in Nat /\ \A k \in 1 .. n : seqs[k] \in Seq(T)
  BY LenProperties, ElementOfSeq
<1> HIDE DEF n
<1>2. PICK f : /\ f = [k \in Nat |-> f[k]]
               /\ \A k \in Nat : f[k] = IF k = 0 THEN <<>> ELSE F[k][f[k - 1]]
  <2> HIDE DEF F
  <2>1. \E f : RepeatsAlways(F, <<>>, f)
    BY Repetition
  <2>. QED
    BY <2>1 DEF RepeatsAlways
<1>3. \A k \in Nat, s \in Seq(T) : k \in 1 .. n => F[k][s] = s \o seqs[k] /\ F[k][s] \in Seq(T)
  BY <1>1, ConcatProperties
<1>4. \A k \in Nat, s \in Seq(T) : F[k][s] \in Seq(T)
  <2> SUFFICES ASSUME NEW k \in Nat, NEW s \in Seq(T) PROVE F[k][s] \in Seq(T)
    OBVIOUS
  <2>1. CASE k \in 1 .. n
    <3> HIDE DEF F
    <3>. QED
      BY <2>1, <1>3
  <2>2. CASE k \notin 1 .. n
    BY <2>2
  <2>. QED
    BY <2>1, <2>2
<1> HIDE DEF F
<1>5. \A k \in Nat : f[k] \in Seq(T)
  <2> DEFINE S == {k \in Nat : f[k] \in Seq(T)}
  <2>1. 0 \in S
    BY <1>2, EmptySeq
  <2>2. ASSUME NEW k \in Nat, k \in S PROVE k + 1 \in S
    <3>1. k + 1 \in Nat /\ k + 1 # 0 /\ (k + 1) - 1 = k
      OBVIOUS
    <3>. QED
      BY <3>1, <2>2, <1>2, <1>4
  <2> HIDE DEF S
  <2>3. Nat \subseteq S
    BY <2>1, <2>2, SetInduction
  <2>. QED
    BY <2>3 DEF S
<1> DEFINE g == [k \in 0 .. n |-> f[k]]
<1>6. g \in [0 .. n -> Seq(T)] /\ g[0] = <<>>
  <2>1. 0 \in 0 .. n /\ \A k \in 0 .. n : k \in Nat
    BY <1>1
  <2>2. f[0] = <<>>
    BY <1>2
  <2>. QED
    BY <2>1, <2>2, <1>5
<1>7. ASSUME NEW k \in 1 .. n PROVE g[k] = g[k - 1] \o seqs[k]
  <2>1. k \in 0 .. n /\ k - 1 \in 0 .. n /\ k \in Nat /\ k - 1 \in Nat /\ k # 0
    BY <1>1
  <2>2. f[k] = F[k][f[k - 1]]
    BY <2>1, <1>2
  <2>. QED
    BY <2>1, <2>2, <1>3, <1>5
<1> HIDE DEF g
<1>8. Parts(T, seqs, g)
  BY <1>6, <1>7 DEF Parts, n
<1>. QED
  BY <1>8

(* There is one way only to put a sequence together from its parts, and    *)
(* FlattenSeq is what it ends in.                                          *)
LEMMA FlattenIs ==
  ASSUME NEW T, NEW seqs \in Seq(Seq(T)), NEW g, Parts(T, seqs, g)
  PROVE  FlattenSeq(seqs) = g[Len(seqs)]
<1> DEFINE n == Len(seqs)
           Cat(h) == [i \in 1 .. n |-> IF i = 1 THEN seqs[i] ELSE h[i - 1] \o seqs[i]]
<1>1. n \in Nat /\ \A k \in 1 .. n : seqs[k] \in Seq(T)
  BY LenProperties, ElementOfSeq
<1>2. CASE n = 0
  BY <1>2, EmptySeq DEF FlattenSeq, Parts
<1>3. CASE n # 0
  <2> DEFINE G == [i \in 1 .. n |-> g[i]]
             Flat == CHOOSE h : h = Cat(h)
  <2>1. /\ g[0] = <<>> /\ \A k \in 1 .. n : g[k] = g[k - 1] \o seqs[k]
    BY DEF Parts
  <2> HIDE DEF n
  <2>2. G = Cat(G)
    <3> SUFFICES ASSUME NEW i \in 1 .. n
                 PROVE  g[i] = IF i = 1 THEN seqs[i] ELSE G[i - 1] \o seqs[i]
      OBVIOUS
    <3>1. CASE i = 1
      <4>1. g[i] = g[i - 1] \o seqs[i] /\ seqs[i] \in Seq(T)
        BY <2>1, <1>1
      <4>2. i - 1 = 0
        BY <3>1
      <4>3. g[i] = <<>> \o seqs[i]
        BY <4>1, <4>2, <2>1
      <4>. QED
        BY <3>1, <4>1, <4>3, ConcatEmptySeq
    <3>2. CASE i # 1
      <4>1. i - 1 \in 1 .. n
        BY <3>2, <1>1
      <4>. QED
        BY <3>2, <4>1, <2>1
    <3>. QED
      BY <3>1, <3>2
  <2>3. Flat = Cat(Flat)
    <3>1. \E h : h = Cat(h)
      <4> HIDE DEF G, Cat
      <4>. QED
        BY <2>2
    <3> HIDE DEF Cat
    <3>. QED
      BY <3>1
  <2>4. FlattenSeq(seqs) = Flat[n]
    BY <1>3 DEF FlattenSeq, n
  <2> HIDE DEF Flat
  <2>5. \A i \in 1 .. n : Flat[i] = IF i = 1 THEN seqs[i] ELSE Flat[i - 1] \o seqs[i]
    BY <2>3
  <2> DEFINE S == {i \in Nat : i + 1 \in 1 .. n => Flat[i + 1] = g[i + 1]}
  <2>6. 0 \in S
    <3>1. 0 + 1 = 1 /\ 1 \in 1 .. n /\ 1 - 1 = 0
      BY <1>1, <1>3
    <3>2. Flat[1] = seqs[1]
      BY <2>5, <3>1
    <3>3. g[1] = seqs[1]
      <4>1. g[1] = g[1 - 1] \o seqs[1] /\ seqs[1] \in Seq(T)
        BY <3>1, <2>1, <1>1
      <4>2. g[1] = <<>> \o seqs[1]
        BY <4>1, <3>1, <2>1
      <4>. QED
        BY <4>1, <4>2, ConcatEmptySeq
    <3>. QED
      BY <3>1, <3>2, <3>3
  <2>7. ASSUME NEW i \in Nat, i \in S PROVE i + 1 \in S
    <3> SUFFICES ASSUME (i + 1) + 1 \in 1 .. n PROVE Flat[(i + 1) + 1] = g[(i + 1) + 1]
      OBVIOUS
    <3>1. i + 1 \in 1 .. n /\ (i + 1) + 1 # 1 /\ ((i + 1) + 1) - 1 = i + 1
      BY <1>1
    <3>2. Flat[i + 1] = g[i + 1]
      BY <2>7, <3>1
    <3> DEFINE j == (i + 1) + 1
    <3>3. j \in 1 .. n /\ j # 1 /\ j - 1 = i + 1
      BY <3>1
    <3> HIDE DEF j
    <3>4. Flat[j] = Flat[j - 1] \o seqs[j] /\ g[j] = g[j - 1] \o seqs[j]
      BY <3>3, <2>1, <2>5
    <3>5. Flat[j] = g[j]
      BY <3>2, <3>3, <3>4
    <3>. QED
      BY <3>5 DEF j
  <2> HIDE DEF S
  <2>8. n - 1 \in S
    <3>1. n - 1 \in Nat
      BY <1>1, <1>3
    <3>. QED
      BY <3>1, <2>6, <2>7, SetInduction
  <2>9. (n - 1) + 1 = n /\ n \in 1 .. n
    BY <1>1, <1>3
  <2>. QED
    BY <2>4, <2>8, <2>9 DEF S, n
<1>. QED
  BY <1>2, <1>3

(* What FlattenSeq makes of the first k sequences.                         *)
LEMMA FlattenFirst ==
  ASSUME NEW T, NEW seqs \in Seq(Seq(T)), NEW g, Parts(T, seqs, g),
         NEW j \in 0 .. Len(seqs)
  PROVE  FlattenSeq(SubSeq(seqs, 1, j)) = g[j]
<1> DEFINE n == Len(seqs)
           r == SubSeq(seqs, 1, j)
           h == [k \in 0 .. j |-> g[k]]
<1>1. n \in Nat /\ j \in 0 .. n /\ \A k \in 1 .. n : seqs[k] \in Seq(T)
  BY LenProperties, ElementOfSeq
<1>2. /\ g \in [0 .. n -> Seq(T)]
      /\ g[0] = <<>>
      /\ \A k \in 1 .. n : g[k] = g[k - 1] \o seqs[k]
  BY DEF Parts
<1> HIDE DEF n
<1>3. j \in Nat /\ (\A k \in 1 .. j : k \in 1 .. n) /\ (\A k \in 0 .. j : k \in 0 .. n)
  BY <1>1
<1>4. r \in Seq(Seq(T)) /\ Len(r) = j /\ \A k \in 1 .. j : r[k] = seqs[k]
  <2>1. /\ r \in Seq(Seq(T))
        /\ Len(r) = IF 1 <= j THEN j - 1 + 1 ELSE 0
        /\ \A k \in 1 .. j - 1 + 1 : r[k] = seqs[1 + k - 1]
    BY <1>1, <1>3, SubSeqProperties
  <2>2. \A k \in 1 .. j : k \in 1 .. j - 1 + 1 /\ 1 + k - 1 = k
    BY <1>3
  <2> HIDE DEF r
  <2>3. \A k \in 1 .. j : r[k] = seqs[k]
    BY <2>1, <2>2
  <2> DEFINE m == Len(r)
  <2>4. m = IF 1 <= j THEN j - 1 + 1 ELSE 0
    BY <2>1
  <2> HIDE DEF m
  <2>5. m = j
    BY <2>4, <1>3
  <2>. QED
    BY <2>1, <2>3, <2>5 DEF m
<1> HIDE DEF r
<1>5. h \in [0 .. j -> Seq(T)] /\ h[0] = <<>> /\ h[j] = g[j]
  <2>1. 0 \in 0 .. j /\ j \in 0 .. j
    BY <1>3
  <2>. QED
    BY <2>1, <1>2, <1>3
<1>6. \A k \in 1 .. j : h[k] = h[k - 1] \o r[k]
  <2>1. \A k \in 1 .. j : k \in 0 .. j /\ k - 1 \in 0 .. j
    BY <1>3
  <2>. QED
    BY <2>1, <1>2, <1>3, <1>4
<1> HIDE DEF h
<1>7. Parts(T, r, h)
  BY <1>4, <1>5, <1>6 DEF Parts
<1>8. FlattenSeq(r) = h[Len(r)]
  BY <1>4, <1>7, FlattenIs
<1>. QED
  BY <1>4, <1>5, <1>8 DEF r

(* FlattenSeq by the sequences it has taken so far.                        *)
LEMMA FlattenUpTo ==
  ASSUME NEW T, NEW seqs \in Seq(Seq(T))
  PROVE  /\ FlattenSeq(SubSeq(seqs, 1, 0)) = <<>>
         /\ FlattenSeq(SubSeq(seqs, 1, Len(seqs))) = FlattenSeq(seqs)
         /\ \A k \in 0 .. Len(seqs) : FlattenSeq(SubSeq(seqs, 1, k)) \in Seq(T)
         /\ \A k \in 1 .. Len(seqs) :
              FlattenSeq(SubSeq(seqs, 1, k)) = FlattenSeq(SubSeq(seqs, 1, k - 1)) \o seqs[k]
<1> DEFINE n == Len(seqs)
<1>1. PICK g : Parts(T, seqs, g)
  BY PartsExist
<1>2. \A j \in 0 .. n : FlattenSeq(SubSeq(seqs, 1, j)) = g[j]
  BY <1>1, FlattenFirst
<1>3. /\ g \in [0 .. n -> Seq(T)]
      /\ g[0] = <<>>
      /\ \A k \in 1 .. n : g[k] = g[k - 1] \o seqs[k]
  BY <1>1 DEF Parts
<1>4. n \in Nat
  BY LenProperties
<1>5. SubSeq(seqs, 1, n) = seqs
  BY SubSeqFull
<1> HIDE DEF n
<1>6. 0 \in 0 .. n /\ \A k \in 1 .. n : k \in 0 .. n /\ k - 1 \in 0 .. n
  BY <1>4
<1>. QED
  BY <1>2, <1>3, <1>5, <1>6 DEF n

(* How many elements the first k sequences have.                           *)
Before(seqs, k) == Len(FlattenSeq(SubSeq(seqs, 1, k)))

(* The lengths add up: each sequence begins where those before it end, and *)
(* none ends past the whole.                                               *)
LEMMA BeforeGrows ==
  ASSUME NEW T, NEW seqs \in Seq(Seq(T))
  PROVE  /\ Before(seqs, 0) = 0
         /\ \A k \in 0 .. Len(seqs) : /\ Before(seqs, k) \in Nat
                                      /\ Before(seqs, k) <= Len(FlattenSeq(seqs))
         /\ \A k \in 1 .. Len(seqs) : Before(seqs, k) = Before(seqs, k - 1) + Len(seqs[k])
         /\ Before(seqs, Len(seqs)) = Len(FlattenSeq(seqs))
<1> DEFINE n    == Len(seqs)
           B(k) == Before(seqs, k)
<1>1. n \in Nat /\ \A k \in 1 .. n : seqs[k] \in Seq(T) /\ Len(seqs[k]) \in Nat
  <2>1. \A k \in 1 .. n : seqs[k] \in Seq(T)
    BY ElementOfSeq
  <2>. QED
    BY <2>1, LenProperties
<1>2. \A k \in 0 .. n : FlattenSeq(SubSeq(seqs, 1, k)) \in Seq(T)
  BY FlattenUpTo
<1>3. \A k \in 0 .. n : B(k) \in Nat
  BY <1>2, LenProperties DEF Before
<1>4. B(0) = 0 /\ B(n) = Len(FlattenSeq(seqs))
  BY FlattenUpTo, EmptySeq DEF Before
<1>5. ASSUME NEW k \in 1 .. n PROVE B(k) = B(k - 1) + Len(seqs[k])
  <2>1. k - 1 \in 0 .. n
    <3> HIDE DEF n
    <3>. QED
      BY <1>1
  <2>2. FlattenSeq(SubSeq(seqs, 1, k)) = FlattenSeq(SubSeq(seqs, 1, k - 1)) \o seqs[k]
    BY FlattenUpTo
  <2>. QED
    BY <2>1, <2>2, <1>1, <1>2, ConcatProperties DEF Before
<1> HIDE DEF n, B
<1>6. ASSUME NEW k \in 0 .. n PROVE B(k) <= B(n)
  <2> DEFINE S == {m \in Nat : k + m <= n => B(k) <= B(k + m)}
  <2>1. 0 \in S
    <3>1. k + 0 = k /\ B(k) \in Nat
      BY <1>3
    <3>. QED
      BY <3>1
  <2>2. ASSUME NEW m \in Nat, m \in S PROVE m + 1 \in S
    <3> SUFFICES ASSUME k + (m + 1) <= n PROVE B(k) <= B(k + (m + 1))
      OBVIOUS
    <3> DEFINE j == k + (m + 1)
    <3>1. j \in 1 .. n /\ j - 1 = k + m /\ k + m <= n /\ j - 1 \in 0 .. n /\ j \in 0 .. n
      BY <1>1
    <3> HIDE DEF j
    <3>2. B(k) <= B(j - 1)
      BY <2>2, <3>1
    <3>3. B(j) = B(j - 1) + Len(seqs[j]) /\ Len(seqs[j]) \in Nat
      BY <3>1, <1>1, <1>5
    <3>4. B(k) \in Nat /\ B(j) \in Nat /\ B(j - 1) \in Nat
      BY <3>1, <1>3
    <3>5. B(k) <= B(j)
      BY <3>2, <3>3, <3>4
    <3>. QED
      BY <3>5 DEF j
  <2> HIDE DEF S
  <2>3. n - k \in S
    <3>1. n - k \in Nat
      BY <1>1
    <3>. QED
      BY <3>1, <2>1, <2>2, SetInduction
  <2>4. k + (n - k) = n /\ n <= n
    BY <1>1
  <2>. QED
    BY <2>3, <2>4 DEF S
<1>. QED
  BY <1>3, <1>4, <1>5, <1>6 DEF n, B

(* The i-th element of the k-th sequence comes after those of the          *)
(* sequences before it.                                                    *)
LEMMA FlattenAt ==
  ASSUME NEW T, NEW seqs \in Seq(Seq(T)), NEW k \in 1 .. Len(seqs),
         NEW i \in 1 .. Len(seqs[k])
  PROVE  FlattenSeq(seqs)[Before(seqs, k - 1) + i] = seqs[k][i]
<1> DEFINE n    == Len(seqs)
           B(j) == Before(seqs, j)
           R(j) == FlattenSeq(SubSeq(seqs, 1, j))
           p    == B(k - 1) + i
           len  == Len(seqs[k])
           S    == {m \in Nat : k + m <= n => p <= B(k + m) /\ R(k + m)[p] = seqs[k][i]}
<1>1. n \in Nat /\ k \in 1 .. n /\ \A j \in 1 .. n : seqs[j] \in Seq(T)
  BY LenProperties, ElementOfSeq
<1>2. /\ \A j \in 0 .. n : B(j) \in Nat
      /\ \A j \in 1 .. n : B(j) = B(j - 1) + Len(seqs[j])
  BY BeforeGrows
<1>3. /\ \A j \in 0 .. n : R(j) \in Seq(T) /\ Len(R(j)) = B(j)
      /\ \A j \in 1 .. n : R(j) = R(j - 1) \o seqs[j]
      /\ R(n) = FlattenSeq(seqs)
  BY FlattenUpTo DEF Before
<1>4. len \in Nat /\ i \in 1 .. len
  BY <1>1, LenProperties
<1> HIDE DEF n, B, R
<1>5. k - 1 \in 0 .. n /\ k \in 0 .. n /\ k \in Nat
  BY <1>1
<1>6. B(k - 1) \in Nat /\ B(k) = B(k - 1) + len
  BY <1>1, <1>2, <1>5
<1> HIDE DEF len
<1>7. p \in Nat /\ p >= 1 /\ p <= B(k) /\ p - B(k - 1) = i /\ ~(p <= B(k - 1))
  BY <1>4, <1>6
<1> HIDE DEF p
<1>8. R(k)[p] = seqs[k][i]
  <2>1. R(k) = R(k - 1) \o seqs[k] /\ R(k - 1) \in Seq(T) /\ seqs[k] \in Seq(T)
    BY <1>1, <1>3, <1>5
  <2>2. \A q \in 1 .. Len(R(k - 1)) + Len(seqs[k]) :
          R(k)[q] = IF q <= Len(R(k - 1)) THEN R(k - 1)[q] ELSE seqs[k][q - Len(R(k - 1))]
    BY <2>1, ConcatProperties
  <2>3. Len(R(k - 1)) = B(k - 1) /\ Len(seqs[k]) = len
    BY <1>3, <1>5 DEF len
  <2>4. p \in 1 .. B(k - 1) + len
    BY <1>6, <1>7
  <2>5. \A q \in 1 .. B(k - 1) + len :
          R(k)[q] = IF q <= B(k - 1) THEN R(k - 1)[q] ELSE seqs[k][q - B(k - 1)]
    BY <2>2, <2>3
  <2>. QED
    BY <2>4, <2>5, <1>7
<1>9. 0 \in S
  <2>1. k + 0 = k
    BY <1>5
  <2>. QED
    BY <2>1, <1>7, <1>8
<1>10. ASSUME NEW m \in Nat, m \in S PROVE m + 1 \in S
  <2> SUFFICES ASSUME k + (m + 1) <= n
               PROVE  p <= B(k + (m + 1)) /\ R(k + (m + 1))[p] = seqs[k][i]
    OBVIOUS
  <2> DEFINE j == k + (m + 1)
             l == Len(seqs[j])
  <2>1. j \in 1 .. n /\ j - 1 = k + m /\ k + m <= n /\ j - 1 \in 0 .. n
    BY <1>1, <1>5
  <2> HIDE DEF j
  <2>2. p <= B(j - 1) /\ R(j - 1)[p] = seqs[k][i]
    BY <1>10, <2>1
  <2>3. R(j) = R(j - 1) \o seqs[j] /\ R(j - 1) \in Seq(T) /\ seqs[j] \in Seq(T)
    BY <1>1, <1>3, <2>1
  <2>4. l \in Nat /\ B(j - 1) \in Nat /\ B(j) = B(j - 1) + l /\ Len(R(j - 1)) = B(j - 1)
    BY <1>2, <1>3, <2>1, <2>3, LenProperties
  <2>5. \A q \in 1 .. Len(R(j - 1)) + l :
          R(j)[q] = IF q <= Len(R(j - 1)) THEN R(j - 1)[q] ELSE seqs[j][q - Len(R(j - 1))]
    BY <2>3, ConcatProperties
  <2>6. \A q \in 1 .. B(j - 1) + l :
          R(j)[q] = IF q <= B(j - 1) THEN R(j - 1)[q] ELSE seqs[j][q - B(j - 1)]
    BY <2>4, <2>5
  <2> HIDE DEF l
  <2>7. p \in 1 .. B(j - 1) + l /\ p <= B(j)
    BY <2>2, <2>4, <1>7
  <2>8. R(j)[p] = seqs[k][i]
    BY <2>2, <2>6, <2>7
  <2>. QED
    BY <2>7, <2>8 DEF j
<1> HIDE DEF S
<1>11. n - k \in S
  <2>1. n - k \in Nat
    BY <1>1
  <2>. QED
    BY <2>1, <1>9, <1>10, SetInduction
<1>12. k + (n - k) = n /\ n <= n
  BY <1>1
<1>13. R(n)[p] = seqs[k][i]
  BY <1>11, <1>12 DEF S
<1>. QED
  BY <1>3, <1>13 DEF p, B

-----------------------------------------------------------------------------
(* The kernel image: every format, with its terminator, one after the      *)
(* other.                                                                  *)
Images == [f \in DOMAIN Formats |-> Image(Formats[f])]

(* What DebugAssumption says of the formats, spelled out for each of them  *)
(* and each piece.                                                         *)
LEMMA FormatsTyped ==
  /\ Len(Formats) \in Nat /\ DOMAIN Formats = 1 .. Len(Formats)
  /\ \A f \in DOMAIN Formats :
       /\ Formats[f] \in Seq(Seq(Byte)) /\ Len(Formats[f]) \in Nat
       /\ DOMAIN Formats[f] = 1 .. Len(Formats[f])
       /\ \A k \in DOMAIN Formats[f] : /\ Formats[f][k] \in Seq(Byte \ {NUL})
                                       /\ IsPiece(Formats[f], k)
<1>1. Formats \in Seq(Seq(Seq(Byte \ {NUL})))
  BY DebugAssumption
<1>2. Len(Formats) \in Nat /\ DOMAIN Formats = 1 .. Len(Formats)
  BY <1>1, LenProperties
<1>3. ASSUME NEW f \in DOMAIN Formats
      PROVE  /\ Formats[f] \in Seq(Seq(Byte)) /\ Len(Formats[f]) \in Nat
             /\ DOMAIN Formats[f] = 1 .. Len(Formats[f])
             /\ \A k \in DOMAIN Formats[f] : /\ Formats[f][k] \in Seq(Byte \ {NUL})
                                             /\ IsPiece(Formats[f], k)
  <2>1. Formats[f] \in Seq(Seq(Byte \ {NUL}))
    BY <1>1, <1>2, ElementOfSeq
  <2>2. Seq(Byte \ {NUL}) \subseteq Seq(Byte)
    BY SeqMonotonic
  <2>3. Formats[f] \in Seq(Seq(Byte))
    BY <2>1, <2>2, SeqMonotonic
  <2>4. Len(Formats[f]) \in Nat /\ DOMAIN Formats[f] = 1 .. Len(Formats[f])
    BY <2>1, LenProperties
  <2>5. \A k \in DOMAIN Formats[f] : Formats[f][k] \in Seq(Byte \ {NUL})
    BY <2>1, <2>4, ElementOfSeq
  <2>. QED
    BY <2>3, <2>4, <2>5, DebugAssumption
<1>. QED
  BY <1>2, <1>3

(* A string of the image: the characters of a format, then its terminator. *)
LEMMA ImageIs ==
  ASSUME NEW f \in DOMAIN Formats
  PROVE  LET text == FlattenSeq(Formats[f])
         IN  /\ text \in Seq(Byte) /\ Len(text) \in Nat
             /\ Image(Formats[f]) \in Seq(Byte)
             /\ Len(Image(Formats[f])) = Len(text) + 1
             /\ \A i \in 1 .. Len(text) : Image(Formats[f])[i] = text[i]
             /\ Image(Formats[f])[Len(text) + 1] = NUL
<1> DEFINE text == FlattenSeq(Formats[f])
<1>1. Formats[f] \in Seq(Seq(Byte)) /\ Len(Formats[f]) \in Nat
  BY FormatsTyped
<1>2. text \in Seq(Byte)
  <2>1. Len(Formats[f]) \in 0 .. Len(Formats[f])
    BY <1>1
  <2>. QED
    BY <1>1, <2>1, FlattenUpTo
<1>3. NUL \in Byte
  BY DEF NUL, Byte
<1>4. Image(Formats[f]) = Append(text, NUL)
  BY DEF Image
<1> HIDE DEF text
<1>5. Len(text) \in Nat
  BY <1>2, LenProperties
<1>6. /\ Append(text, NUL) \in Seq(Byte)
      /\ Len(Append(text, NUL)) = Len(text) + 1
      /\ \A i \in 1 .. Len(text) : Append(text, NUL)[i] = text[i]
      /\ Append(text, NUL)[Len(text) + 1] = NUL
  BY <1>2, <1>3, AppendProperties
<1>. QED
  BY <1>2, <1>4, <1>5, <1>6 DEF text

(* The images are as many as the formats, and made of bytes.               *)
LEMMA ImagesTyped == Images \in Seq(Seq(Byte)) /\ Len(Images) = Len(Formats)
<1> DEFINE n == Len(Formats)
<1>1. n \in Nat /\ DOMAIN Formats = 1 .. n
  BY FormatsTyped
<1>2. \A f \in DOMAIN Formats : Image(Formats[f]) \in Seq(Byte)
  BY ImageIs
<1> HIDE DEF n
<1>3. Images \in [1 .. n -> Seq(Byte)]
  BY <1>1, <1>2 DEF Images
<1>4. Images \in Seq(Seq(Byte))
  BY <1>1, <1>3
<1>5. Len(Images) = n
  BY <1>1, <1>3
<1>. QED
  BY <1>4, <1>5 DEF n

(* A format begins after all that lie before it.                           *)
LEMMA StartIs ==
  ASSUME NEW f \in DOMAIN Formats
  PROVE  Start(f) = Before(Images, f - 1) + 1 /\ Start(f) \in Nat
<1> DEFINE n == Len(Formats)
<1>1. n \in Nat /\ DOMAIN Formats = 1 .. n
  BY FormatsTyped
<1>2. Images \in Seq(Seq(Byte)) /\ Len(Images) = n
  BY ImagesTyped
<1> HIDE DEF n
<1>3. f - 1 \in 0 .. n /\ \A g \in 1 .. f - 1 : g \in DOMAIN Formats
  BY <1>1
<1>4. SubSeq(Images, 1, f - 1) = [g \in 1 .. f - 1 |-> Images[g]]
  BY <1>2, <1>3, SubSeqRestrict DEF Restrict
<1>5. [g \in 1 .. f - 1 |-> Images[g]] = [g \in 1 .. f - 1 |-> Image(Formats[g])]
  BY <1>3 DEF Images
<1>6. Start(f) = Before(Images, f - 1) + 1
  BY <1>4, <1>5 DEF Start, Before
<1>7. Before(Images, f - 1) \in Nat
  BY <1>2, <1>3, BeforeGrows
<1>. QED
  BY <1>6, <1>7

(* Where the pieces of a format and its terminator are in the image.       *)
LEMMA PieceAt ==
  ASSUME NEW f \in DOMAIN Formats
  PROVE  /\ \A k \in 1 .. Len(Formats[f]) : \A i \in 1 .. Len(Formats[f][k]) :
              rodata[Start(f) + Before(Formats[f], k - 1) + i - 1] = Formats[f][k][i]
         /\ rodata[Start(f) + Before(Formats[f], Len(Formats[f]))] = NUL
<1> DEFINE P     == Formats[f]
           text  == FlattenSeq(P)
           image == Image(P)
           base  == Before(Images, f - 1)
           len   == Len(text)
<1>1. /\ P \in Seq(Seq(Byte)) /\ Len(P) \in Nat /\ Len(Formats) \in Nat
      /\ f \in 1 .. Len(Formats)
      /\ \A k \in 1 .. Len(P) : P[k] \in Seq(Byte) /\ Len(P[k]) \in Nat
  <2>1. P \in Seq(Seq(Byte)) /\ Len(P) \in Nat /\ Len(Formats) \in Nat /\ f \in 1 .. Len(Formats)
    BY FormatsTyped
  <2>2. \A k \in 1 .. Len(P) : P[k] \in Seq(Byte)
    BY <2>1, ElementOfSeq
  <2>. QED
    BY <2>1, <2>2, LenProperties
<1>2. /\ text \in Seq(Byte) /\ len \in Nat /\ image \in Seq(Byte) /\ Len(image) = len + 1
      /\ \A i \in 1 .. len : image[i] = text[i]
      /\ image[len + 1] = NUL
  BY ImageIs
<1>3. /\ Images \in Seq(Seq(Byte)) /\ f \in 1 .. Len(Images) /\ Images[f] = image
  BY <1>1, ImagesTyped DEF Images
<1>4. Start(f) = base + 1 /\ base \in Nat
  <2>1. f - 1 \in 0 .. Len(Images)
    <3> DEFINE m == Len(Formats)
    <3>1. m = Len(Images) /\ m \in Nat /\ f \in 1 .. m
      BY <1>1, ImagesTyped
    <3> HIDE DEF m
    <3>. QED
      BY <3>1
  <2>. QED
    BY <1>3, <2>1, StartIs, BeforeGrows
<1>5. rodata = FlattenSeq(Images)
  BY DEF rodata, Images
<1>6. \A i \in 1 .. len + 1 : rodata[base + i] = image[i]
  <2>1. \A i \in 1 .. Len(Images[f]) : FlattenSeq(Images)[Before(Images, f - 1) + i] = Images[f][i]
    BY <1>3, FlattenAt
  <2>. QED
    BY <2>1, <1>2, <1>3, <1>5
<1> HIDE DEF image, base
<1>7. /\ \A k \in 0 .. Len(P) : Before(P, k) \in Nat /\ Before(P, k) <= len
      /\ \A k \in 1 .. Len(P) : Before(P, k) = Before(P, k - 1) + Len(P[k])
      /\ Before(P, Len(P)) = len
  BY <1>1, BeforeGrows
<1>8. ASSUME NEW k \in 1 .. Len(P), NEW i \in 1 .. Len(P[k])
      PROVE  rodata[Start(f) + Before(P, k - 1) + i - 1] = P[k][i]
  <2>1. text[Before(P, k - 1) + i] = P[k][i]
    BY <1>1, FlattenAt
  <2> DEFINE b == Before(P, k - 1)
             c == Before(P, k)
             l == Len(P[k])
             q == Len(P)
  <2>2. q \in Nat /\ k \in 1 .. q
    BY <1>1
  <2>3. k - 1 \in 0 .. q /\ k \in 0 .. q
    <3> HIDE DEF q
    <3>. QED
      BY <2>2
  <2>4. b \in Nat /\ c \in Nat /\ c <= len /\ c = b + l /\ l \in Nat /\ i \in 1 .. l /\ len \in Nat
    BY <1>1, <1>2, <1>7, <2>3
  <2> HIDE DEF b, c, l, q, len
  <2>5. b + i \in 1 .. len /\ b + i \in 1 .. len + 1 /\ (base + 1) + b + i - 1 = base + (b + i)
    BY <2>4, <1>4
  <2>6. rodata[base + (b + i)] = text[b + i]
    BY <2>5, <1>2, <1>6
  <2>. QED
    BY <2>1, <2>5, <2>6, <1>4 DEF b
<1>9. rodata[Start(f) + Before(P, Len(P))] = NUL
  <2> HIDE DEF len
  <2>1. len + 1 \in 1 .. len + 1 /\ (base + 1) + len = base + (len + 1)
    BY <1>2, <1>4
  <2>2. rodata[base + (len + 1)] = NUL
    BY <2>1, <1>2, <1>6
  <2>. QED
    BY <2>1, <2>2, <1>4, <1>7
<1>. QED
  BY <1>8, <1>9

-----------------------------------------------------------------------------
(* Numbers: the powers of a number are numbers, each the product of the    *)
(* number and the one before.                                              *)
LEMMA PowerIs ==
  ASSUME NEW b \in Nat
  PROVE  /\ Power(b, 0) = 1
         /\ \A k \in Nat : Power(b, k) \in Nat /\ Power(b, k + 1) = b * Power(b, k)
<1> DEFINE F == [k \in Nat |-> [v \in Nat |-> b * v]]
           Multiplies(p) == [j \in Nat |-> IF j = 0 THEN 1 ELSE b * p[j - 1]]
           P == CHOOSE p : p = Multiplies(p)
<1>1. PICK f : /\ f = [k \in Nat |-> f[k]]
               /\ \A k \in Nat : f[k] = IF k = 0 THEN 1 ELSE F[k][f[k - 1]]
  <2> HIDE DEF F
  <2>1. \E f : RepeatsAlways(F, 1, f)
    BY Repetition
  <2>. QED
    BY <2>1 DEF RepeatsAlways
<1>2. \A k, v \in Nat : F[k][v] = b * v /\ F[k][v] \in Nat
  OBVIOUS
<1> HIDE DEF F
<1>3. \A k \in Nat : f[k] \in Nat
  <2> DEFINE S == {k \in Nat : f[k] \in Nat}
  <2>1. 0 \in S
    BY <1>1
  <2>2. ASSUME NEW k \in Nat, k \in S PROVE k + 1 \in S
    <3>1. k + 1 \in Nat /\ k + 1 # 0 /\ (k + 1) - 1 = k
      OBVIOUS
    <3>2. f[k + 1] = F[k + 1][f[k]]
      BY <3>1, <1>1
    <3>. QED
      BY <3>1, <3>2, <2>2, <1>2
  <2> HIDE DEF S
  <2>3. Nat \subseteq S
    BY <2>1, <2>2, SetInduction
  <2>. QED
    BY <2>3 DEF S
<1>4. f = Multiplies(f)
  <2>1. \A j \in Nat : f[j] = IF j = 0 THEN 1 ELSE b * f[j - 1]
    <3>1. \A j \in Nat : j # 0 => j - 1 \in Nat
      OBVIOUS
    <3>. QED
      BY <3>1, <1>1, <1>2, <1>3
  <2>. QED
    BY <2>1, <1>1
<1>5. P = Multiplies(P)
  <2>1. \E p : p = Multiplies(p)
    <3> HIDE DEF Multiplies
    <3>. QED
      BY <1>4
  <2> HIDE DEF Multiplies
  <2>. QED
    BY <2>1
<1>6. \A k : Power(b, k) = P[k]
  BY DEF Power
<1> HIDE DEF P
<1>7. \A k \in Nat : P[k] = IF k = 0 THEN 1 ELSE b * P[k - 1]
  BY <1>5
<1>8. P[0] = 1 /\ \A k \in Nat : P[k + 1] = b * P[k]
  <2>1. \A k \in Nat : k + 1 \in Nat /\ k + 1 # 0 /\ (k + 1) - 1 = k
    OBVIOUS
  <2>. QED
    BY <2>1, <1>7
<1>9. \A k \in Nat : P[k] \in Nat
  <2> DEFINE S == {k \in Nat : P[k] \in Nat}
  <2>1. 0 \in S
    BY <1>8
  <2>2. ASSUME NEW k \in Nat, k \in S PROVE k + 1 \in S
    BY <2>2, <1>8
  <2> HIDE DEF S
  <2>3. Nat \subseteq S
    BY <2>1, <2>2, SetInduction
  <2>. QED
    BY <2>3 DEF S
<1>. QED
  BY <1>6, <1>8, <1>9

(* Powers of two double.                                                   *)
LEMMA PowerOfTwo ==
  /\ Power(2, 0) = 1
  /\ \A k \in Nat : Power(2, k) \in Nat /\ Power(2, k + 1) = 2 * Power(2, k)
BY PowerIs

(* The bases of debug_printf.                                              *)
LEMMA Bases ==
  /\ DOMAIN Base = {98, 100, 120}
  /\ Base[98] = 2 /\ Base[100] = 10 /\ Base[120] = 16
BY DEF Base

(* What repeated division leaves are numbers, each a quotient of the one   *)
(* before.                                                                 *)
LEMMA AfterIs ==
  ASSUME NEW n \in Nat, NEW base \in {2, 10, 16}
  PROVE  /\ After(n, base)[0] = n
         /\ \A k \in Nat : /\ After(n, base)[k] \in Nat
                           /\ After(n, base)[k + 1] = After(n, base)[k] \div base
<1> DEFINE F == [k \in Nat |-> [v \in Nat |-> v \div base]]
           Divides(a) == [k \in Nat |-> IF k = 0 THEN n ELSE a[k - 1] \div base]
           A == CHOOSE a : a = Divides(a)
<1>1. PICK f : /\ f = [k \in Nat |-> f[k]]
               /\ \A k \in Nat : f[k] = IF k = 0 THEN n ELSE F[k][f[k - 1]]
  <2> HIDE DEF F
  <2>1. \E f : RepeatsAlways(F, n, f)
    BY Repetition
  <2>. QED
    BY <2>1 DEF RepeatsAlways
<1>2. \A v \in Nat : v \div base \in Nat
  <2>1. CASE base = 2
    BY <2>1
  <2>2. CASE base = 10
    BY <2>2
  <2>3. CASE base = 16
    BY <2>3
  <2>. QED
    BY <2>1, <2>2, <2>3
<1>3. \A k, v \in Nat : F[k][v] = v \div base
  OBVIOUS
<1> HIDE DEF F
<1>4. \A k \in Nat : f[k] \in Nat
  <2> DEFINE S == {k \in Nat : f[k] \in Nat}
  <2>1. 0 \in S
    BY <1>1
  <2>2. ASSUME NEW k \in Nat, k \in S PROVE k + 1 \in S
    <3>1. k + 1 \in Nat /\ k + 1 # 0 /\ (k + 1) - 1 = k
      OBVIOUS
    <3>2. f[k + 1] = F[k + 1][f[k]]
      BY <3>1, <1>1
    <3>. QED
      BY <3>1, <3>2, <2>2, <1>2, <1>3
  <2> HIDE DEF S
  <2>3. Nat \subseteq S
    BY <2>1, <2>2, SetInduction
  <2>. QED
    BY <2>3 DEF S
<1>5. f = Divides(f)
  <2>1. \A j \in Nat : f[j] = IF j = 0 THEN n ELSE f[j - 1] \div base
    <3>1. \A j \in Nat : j # 0 => j - 1 \in Nat
      OBVIOUS
    <3>. QED
      BY <3>1, <1>1, <1>3, <1>4
  <2>. QED
    BY <2>1, <1>1
<1>6. A = Divides(A)
  <2>1. \E a : a = Divides(a)
    <3> HIDE DEF Divides
    <3>. QED
      BY <1>5
  <2> HIDE DEF Divides
  <2>. QED
    BY <2>1
<1>7. After(n, base) = A
  BY DEF After
<1> HIDE DEF A
<1>8. \A k \in Nat : A[k] = IF k = 0 THEN n ELSE A[k - 1] \div base
  BY <1>6
<1>9. A[0] = n /\ \A k \in Nat : A[k + 1] = A[k] \div base
  <2>1. \A k \in Nat : k + 1 \in Nat /\ k + 1 # 0 /\ (k + 1) - 1 = k
    OBVIOUS
  <2>2. ASSUME NEW k \in Nat PROVE A[k + 1] = A[k] \div base
    <3>1. A[k + 1] = A[(k + 1) - 1] \div base
      BY <2>1, <1>8
    <3>. QED
      BY <3>1, <2>1
  <2>. QED
    BY <2>2, <1>8
<1>10. \A k \in Nat : A[k] \in Nat
  <2> DEFINE S == {k \in Nat : A[k] \in Nat}
  <2>1. 0 \in S
    BY <1>9
  <2>2. ASSUME NEW k \in Nat, k \in S PROVE k + 1 \in S
    BY <2>2, <1>2, <1>9
  <2> HIDE DEF S
  <2>3. Nat \subseteq S
    BY <2>1, <2>2, SetInduction
  <2>. QED
    BY <2>3 DEF S
<1>. QED
  BY <1>7, <1>9, <1>10

(* A number below 2^m is gone after m divisions, in any base.              *)
LEMMA DividedAway ==
  ASSUME NEW n \in Nat, NEW base \in {2, 10, 16}, NEW i \in Nat, NEW m \in Nat,
         After(n, base)[i] < Power(2, m)
  PROVE  After(n, base)[i + m] = 0
<1> DEFINE A(k) == After(n, base)[k]
           Q(k) == Power(2, k)
           S    == {j \in Nat : j <= m => A(i + j) < Q(m - j)}
<1>1. \A k \in Nat : A(k) \in Nat /\ A(k + 1) = A(k) \div base
  <2>1. \A k \in Nat : /\ After(n, base)[k] \in Nat
                      /\ After(n, base)[k + 1] = After(n, base)[k] \div base
    BY AfterIs, ZenonT(30)
  <2>. QED
    BY <2>1, Zenon
<1>2. Q(0) = 1 /\ \A k \in Nat : Q(k) \in Nat /\ Q(k + 1) = 2 * Q(k)
  BY PowerOfTwo
<1>3. A(i) < Q(m)
  OBVIOUS
<1> HIDE DEF A, Q
<1>4. \A x, q \in Nat : x < 2 * q => x \div base < q
  <2>1. CASE base = 2
    BY <2>1
  <2>2. CASE base = 10
    BY <2>2
  <2>3. CASE base = 16
    BY <2>3
  <2>. QED
    BY <2>1, <2>2, <2>3
<1>5. 0 \in S
  <2>1. i + 0 = i /\ m - 0 = m
    OBVIOUS
  <2>. QED
    BY <2>1, <1>3
<1>6. ASSUME NEW j \in Nat, j \in S PROVE j + 1 \in S
  <2> SUFFICES ASSUME j + 1 <= m PROVE A(i + (j + 1)) < Q(m - (j + 1))
    OBVIOUS
  <2> DEFINE a == i + j
             q == m - (j + 1)
  <2>1. a \in Nat /\ q \in Nat /\ j <= m /\ i + (j + 1) = a + 1 /\ m - j = q + 1
    OBVIOUS
  <2>2. A(a) < Q(q + 1)
    BY <1>6, <2>1
  <2> HIDE DEF a, q
  <2>3. A(a) < 2 * Q(q) /\ A(a) \in Nat /\ Q(q) \in Nat
    BY <2>1, <2>2, <1>1, <1>2
  <2>4. A(a + 1) < Q(q)
    BY <2>1, <2>3, <1>1, <1>4
  <2>. QED
    BY <2>1, <2>4 DEF q
<1> HIDE DEF S
<1>7. m \in S
  BY <1>5, <1>6, SetInduction
<1>8. A(i + m) < Q(m - m)
  BY <1>7 DEF S
<1>9. m - m = 0 /\ i + m \in Nat
  OBVIOUS
<1>10. A(i + m) < 1 /\ A(i + m) \in Nat
  BY <1>1, <1>2, <1>8, <1>9
<1>11. A(i + m) = 0
  BY <1>10
<1>. QED
  BY <1>11 DEF A

(* A number has at most as many digits as bits, and as many only in base 2 *)
(* and with its top bit set: in the other bases the first division takes   *)
(* two bits at least.                                                      *)
LEMMA CountedIs ==
  ASSUME NEW n \in Number, NEW base \in {2, 10, 16}
  PROVE  /\ n \in Nat /\ Counted(n, base) \in 0 .. Width
         /\ After(n, base)[Counted(n, base)] = 0
         /\ Counted(n, base) = 0 \/ After(n, base)[Counted(n, base) - 1] # 0
         /\ Counted(n, base) >= Width => base = 2 /\ n >= Power(2, Width - 1)
<1> DEFINE A(k) == After(n, base)[k]
           Q(k) == Power(2, k)
           T    == {k \in Nat : A(k) = 0}
           c    == Counted(n, base)
           w    == Width - 1
<1>1. w \in Nat \ {0} /\ Width \in Nat /\ Width = w + 1 /\ w - 1 \in Nat /\ w = (w - 1) + 1
  BY DebugAssumption
<1>2. Q(0) = 1 /\ \A k \in Nat : Q(k) \in Nat /\ Q(k + 1) = 2 * Q(k)
  BY PowerOfTwo
<1>3. n \in Nat /\ n < Q(Width)
  BY <1>1, <1>2 DEF Number
<1>4. A(0) = n /\ \A k \in Nat : A(k) \in Nat /\ A(k + 1) = A(k) \div base
  BY <1>3, AfterIs
<1>5. \A i \in Nat, m \in Nat : A(i) < Q(m) => A(i + m) = 0
  BY <1>3, DividedAway
<1>6. c = CHOOSE k \in 0 .. Width : A(k) = 0 /\ (k = 0 \/ A(k - 1) # 0)
  BY DEF Counted
<1> HIDE DEF A, Q, c, w
<1>7. A(Width) = 0
  <2>1. 0 + Width = Width
    BY <1>1
  <2>. QED
    BY <2>1, <1>1, <1>3, <1>4, <1>5
<1>8. \E k \in 0 .. Width : A(k) = 0 /\ (k = 0 \/ A(k - 1) # 0)
  <2>1. Width \in T /\ T \subseteq Nat
    BY <1>1, <1>7
  <2> HIDE DEF T
  <2>2. PICK k \in T : \A y \in T : k <= y
    BY <2>1, LeastElement
  <2>3. k \in 0 .. Width /\ k \in Nat
    BY <2>1, <2>2, <1>1
  <2>4. A(k) = 0
    BY <2>2 DEF T
  <2>5. k = 0 \/ A(k - 1) # 0
    <3> SUFFICES ASSUME k # 0, A(k - 1) = 0 PROVE FALSE
      OBVIOUS
    <3>1. k - 1 \in Nat /\ ~(k <= k - 1)
      BY <2>3
    <3>2. k - 1 \in T
      BY <3>1 DEF T
    <3>. QED
      BY <3>1, <3>2, <2>2
  <2>. QED
    BY <2>3, <2>4, <2>5
<1>9. c \in 0 .. Width /\ A(c) = 0 /\ (c = 0 \/ A(c - 1) # 0)
  BY <1>6, <1>8
<1>10. ASSUME c >= Width PROVE base = 2 /\ n >= Q(w)
  <2>1. c = w + 1 /\ c # 0 /\ c - 1 = w
    BY <1>1, <1>9, <1>10
  <2>2. A(w) # 0
    BY <2>1, <1>9
  <2>3. n >= Q(w)
    <3> SUFFICES ASSUME n < Q(w) PROVE FALSE
      BY <1>1, <1>2, <1>3
    <3>1. 0 + w = w
      BY <1>1
    <3>. QED
      BY <3>1, <2>2, <1>1, <1>4, <1>5
  <2>4. base = 2
    <3> SUFFICES ASSUME base \in {10, 16} PROVE FALSE
      OBVIOUS
    <3> DEFINE q == Q(w - 1)
    <3>1. q \in Nat /\ Q(Width) = 4 * q
      <4>1. Q(w) = 2 * Q(w - 1) /\ Q(Width) = 2 * Q(w)
        BY <1>1, <1>2
      <4>. QED
        BY <4>1, <1>1, <1>2
    <3> HIDE DEF q
    <3>2. n \div base < q
      <4>1. CASE base = 10
        BY <4>1, <3>1, <1>3
      <4>2. CASE base = 16
        BY <4>2, <3>1, <1>3
      <4>. QED
        BY <4>1, <4>2
    <3>3. A(1) = n \div base
      <4>1. A(0 + 1) = A(0) \div base
        BY <1>4
      <4>2. 0 + 1 = 1
        OBVIOUS
      <4>. QED
        BY <4>1, <4>2, <1>4
    <3>4. 1 + (w - 1) = w
      BY <1>1
    <3>. QED
      BY <3>2, <3>3, <3>4, <2>2, <1>1, <1>5 DEF q
  <2>. QED
    BY <2>3, <2>4
<1>. QED
  BY <1>3, <1>9, <1>10 DEF c, Q, w, A

(* The text of a number is made of digits.                                 *)
LEMMA DigitsAreBytes ==
  ASSUME NEW n \in Number, NEW base \in {2, 10, 16}
  PROVE  puti(n, base) \in Seq(Byte)
<1> DEFINE c == Counted(n, base)
<1>1. n \in Nat /\ c \in 0 .. Width /\ Width \in Nat
  BY CountedIs, DebugAssumption
<1> HIDE DEF c
<1>2. c \in Nat
  BY <1>1
<1>3. \A v \in Nat : v % base \in 0 .. 15
  <2>1. CASE base = 2
    BY <2>1
  <2>2. CASE base = 10
    BY <2>2
  <2>3. CASE base = 16
    BY <2>3
  <2>. QED
    BY <2>1, <2>2, <2>3
<1>4. \A v \in 0 .. 15 : Digit(v) \in Byte
  BY DEF Digit, Byte
<1>5. ASSUME NEW i \in 1 .. c PROVE Digit(DigitStored(n, base, c - i)) \in Byte
  <2>1. c - i \in Nat
    BY <1>2
  <2>2. After(n, base)[c - i] \in Nat
    BY <2>1, <1>1, AfterIs
  <2>. QED
    BY <2>2, <1>3, <1>4 DEF DigitStored
<1>6. [i \in 1 .. c |-> Digit(DigitStored(n, base, c - i))] \in Seq(Byte)
  <2>1. [i \in 1 .. c |-> Digit(DigitStored(n, base, c - i))] \in [1 .. c -> Byte]
    BY <1>5
  <2>. QED
    BY <2>1, <1>2
<1>7. <<48>> \in Seq(Byte)
  BY DEF Byte
<1>. QED
  BY <1>6, <1>7 DEF puti, c

-----------------------------------------------------------------------------
(* The text of the k-th piece of format f ends here in the image, and that *)
(* of the next one begins.                                                 *)
At(f, k) == Start(f) + Before(Formats[f], k)

(* A format begins behind the terminator of the one before it.             *)
LEMMA NextStarts ==
  ASSUME NEW f \in DOMAIN Formats, f + 1 \in DOMAIN Formats
  PROVE  /\ At(f + 1, 0) = At(f, Len(Formats[f])) + 1
         /\ At(f, Len(Formats[f])) \in Nat
<1> DEFINE n == Len(Formats[f])
           b == Before(Formats[f], n)
           g == f + 1
<1>1. f \in Nat /\ f - 1 \in Nat /\ g - 1 = f /\ f \in 1 .. Len(Formats) /\ g \in DOMAIN Formats
  <2> DEFINE m == Len(Formats)
  <2>1. m \in Nat /\ f \in 1 .. m
    BY FormatsTyped
  <2> HIDE DEF m
  <2>. QED
    BY <2>1 DEF m
<1> HIDE DEF g
<1>2. /\ Start(f) = Before(Images, f - 1) + 1 /\ Start(f) \in Nat
      /\ Start(g) = Before(Images, g - 1) + 1 /\ Start(g) \in Nat
  BY <1>1, StartIs
<1>3. /\ Before(Images, f) = Before(Images, f - 1) + Len(Images[f])
      /\ Before(Images, f - 1) \in Nat
  <2> DEFINE m == Len(Images)
  <2>1. Images \in Seq(Seq(Byte)) /\ m = Len(Formats)
    BY ImagesTyped
  <2>2. f \in 1 .. m
    BY <2>1, <1>1
  <2>3. f - 1 \in 0 .. m
    <3>1. m \in Nat
      BY <2>1, FormatsTyped
    <3> HIDE DEF m
    <3>. QED
      BY <3>1, <2>2
  <2>. QED
    BY <2>1, <2>2, <2>3, BeforeGrows
<1>4. b \in Nat /\ Len(Images[f]) = b + 1
  <2>1. Len(Image(Formats[f])) = Len(FlattenSeq(Formats[f])) + 1 /\ Len(FlattenSeq(Formats[f])) \in Nat
    BY ImageIs
  <2>2. b = Len(FlattenSeq(Formats[f]))
    BY FormatsTyped, BeforeGrows
  <2>3. Images[f] = Image(Formats[f])
    BY DEF Images
  <2>. QED
    BY <2>1, <2>2, <2>3
<1>5. Before(Formats[g], 0) = 0
  BY <1>1, FormatsTyped, BeforeGrows
<1> HIDE DEF b
<1>6. Start(g) + 0 = Start(f) + b + 1
  BY <1>1, <1>2, <1>3, <1>4
<1>7. Start(f) + b \in Nat
  BY <1>2, <1>4
<1>. QED
  BY <1>5, <1>6, <1>7 DEF At, b, n, g

(* What the characters at msg tell of the piece they begin.                *)
PlainHere(f, k) ==
  /\ Len(Formats[f][k]) = 1
  /\ rodata[ptr] \notin {NUL, Percent} /\ ptr + 1 = At(f, k)

ConversionHere(f, k) ==
  /\ Len(Formats[f][k]) = 2
  /\ rodata[ptr] = Percent /\ rodata[ptr + 1] = Formats[f][k][2] /\ ptr + 2 = At(f, k)

LoneHere(f, k) ==
  /\ Len(Formats[f][k]) = 1 /\ k = Len(Formats[f]) /\ Lone(Last(Formats[f]))
  /\ rodata[ptr] = Percent /\ rodata[ptr + 1] = NUL
  /\ f + 1 \in DOMAIN Formats /\ ptr + 2 = At(f + 1, 0)

(* The character at msg is the terminator, a whole piece, or the % of a    *)
(* conversion. A lone % takes msg over the terminator into the next        *)
(* format.                                                                 *)
LEMMA NextPiece ==
  ASSUME NEW f \in DOMAIN Formats, NEW k \in 0 .. Len(Formats[f]), ptr = At(f, k)
  PROVE  /\ ptr \in Nat /\ rodata[ptr] \in Byte
         /\ \/ rodata[ptr] = NUL
            \/ /\ k + 1 \in 1 .. Len(Formats[f])
               /\ \/ PlainHere(f, k + 1)
                  \/ ConversionHere(f, k + 1)
                  \/ LoneHere(f, k + 1)
<1> DEFINE P == Formats[f]
           n == Len(P)
           B(i) == Before(P, i)
<1>2. /\ P \in Seq(Seq(Byte)) /\ n \in Nat
      /\ \A j \in 1 .. n : P[j] \in Seq(Byte \ {NUL}) /\ IsPiece(P, j)
  BY FormatsTyped
<1>3. Start(f) \in Nat
  BY StartIs
<1>4. /\ \A j \in 0 .. n : B(j) \in Nat
      /\ \A j \in 1 .. n : B(j) = B(j - 1) + Len(P[j])
  BY <1>2, BeforeGrows
<1>5. ptr = Start(f) + B(k)
  BY DEF At
<1>6. /\ \A j \in 1 .. n : \A i \in 1 .. Len(P[j]) : rodata[Start(f) + B(j - 1) + i - 1] = P[j][i]
      /\ rodata[Start(f) + B(n)] = NUL
  BY PieceAt
<1>7. \A j \in 0 .. n : At(f, j) = Start(f) + B(j)
  BY DEF At
<1> HIDE DEF n, B
<1>8. k \in Nat /\ B(k) \in Nat /\ k \in 0 .. n
  BY <1>2, <1>4 DEF n
<1>9. ptr \in Nat
  BY <1>3, <1>5, <1>8
<1>10. CASE k = n
  <2>1. rodata[ptr] = NUL
    BY <1>5, <1>6, <1>10
  <2>. QED
    BY <2>1, <1>9 DEF NUL, Byte
<1>11. CASE k # n
  <2> DEFINE j == k + 1
             p == P[j]
             l == Len(p)
  <2>1. j \in 1 .. n /\ j - 1 = k /\ j \in 0 .. n
    BY <1>2, <1>8, <1>11
  <2> HIDE DEF j
  <2>2. p \in Seq(Byte \ {NUL}) /\ IsPiece(P, j) /\ l \in {1, 2}
    BY <1>2, <2>1 DEF IsPiece
  <2>3. B(j) = B(k) + l /\ B(j) \in Nat /\ \A i \in 1 .. l : rodata[Start(f) + B(k) + i - 1] = p[i]
    BY <1>4, <1>6, <2>1
  <2>4. \A i \in 1 .. l : p[i] \in Byte \ {NUL}
    BY <2>2, ElementOfSeq
  <2> HIDE DEF p, l
  <2>5. 1 \in 1 .. l
    BY <2>2
  <2>6. rodata[ptr] = p[1]
    <3>1. rodata[Start(f) + B(k) + 1 - 1] = p[1]
      BY <2>3, <2>5
    <3>2. Start(f) + B(k) + 1 - 1 = ptr
      BY <1>3, <1>5, <1>8
    <3>. QED
      BY <3>1, <3>2
  <2>7. rodata[ptr] \in Byte \ {NUL}
    BY <2>4, <2>5, <2>6
  <2>8. ptr + l = At(f, j)
    <3>1. At(f, j) = Start(f) + (B(k) + l) /\ l \in Nat
      BY <1>7, <2>1, <2>2, <2>3
    <3>. QED
      BY <3>1, <1>3, <1>5, <1>8
  <2>9. CASE l = 1 /\ p[1] # Percent
    BY <2>1, <2>6, <2>7, <2>8, <2>9, <1>9 DEF PlainHere, l, p, j, n
  <2>10. CASE l = 2
    <3>1. p[1] = Percent
      BY <2>2, <2>10 DEF IsPiece, p, l
    <3>2. rodata[ptr + 1] = p[2]
      <4>1. 2 \in 1 .. l
        BY <2>10
      <4>2. rodata[Start(f) + B(k) + 2 - 1] = p[2]
        BY <4>1, <2>3
      <4>3. Start(f) + B(k) + 2 - 1 = ptr + 1
        BY <1>3, <1>5, <1>8
      <4>. QED
        BY <4>2, <4>3
    <3>. QED
      BY <3>1, <3>2, <2>1, <2>6, <2>7, <2>8, <2>10, <1>9 DEF ConversionHere, l, p, j, n
  <2>11. CASE l = 1 /\ p[1] = Percent
    <3>1. Lone(p)
      <4>1. p \in [1 .. 1 -> Byte \ {NUL}]
        BY <2>2, <2>11, LenProperties DEF l
      <4>2. p = [i \in 1 .. 1 |-> p[i]]
        BY <4>1
      <4>3. p = <<p[1]>>
        BY <4>2
      <4>. QED
        BY <4>3, <2>11 DEF Lone
    <3>2. j = n
      BY <2>2, <2>11, <3>1 DEF IsPiece, n, p, l
    <3>3. Lone(Last(P))
      BY <3>1, <3>2 DEF Last, n, p
    <3>4. f + 1 \in DOMAIN Formats
      <4>1. Last(Formats) = Formats[Len(Formats)]
        BY DEF Last
      <4>2. f # Len(Formats)
        BY <4>1, <3>3, DebugAssumption
      <4> DEFINE m == Len(Formats)
      <4>3. m \in Nat /\ f \in 1 .. m /\ f # m
        BY <4>2, FormatsTyped
      <4> HIDE DEF m
      <4>4. f + 1 \in 1 .. m
        BY <4>3
      <4>. QED
        BY <4>4, FormatsTyped DEF m
    <3>5. At(f + 1, 0) = At(f, n) + 1
      BY <3>4, NextStarts DEF n
    <3>6. At(f, n) = ptr + 1 /\ ptr + 2 = At(f + 1, 0)
      BY <3>2, <3>5, <2>8, <2>11, <1>9
    <3>7. rodata[ptr + 1] = NUL
      <4>1. At(f, n) = Start(f) + B(n)
        BY <1>2, <1>7
      <4>. QED
        BY <4>1, <3>6, <1>6
    <3>. QED
      BY <3>2, <3>3, <3>4, <3>6, <3>7, <2>1, <2>6, <2>7, <2>11, <1>9 DEF LoneHere, l, p, j, n
  <2>. QED
    BY <2>2, <2>9, <2>10, <2>11
<1>. QED
  BY <1>10, <1>11

-----------------------------------------------------------------------------
(* The arguments taken by the first k pieces of a format: a conversion     *)
(* takes one, and nothing else takes any.                                  *)
LEMMA ArgIndexIs ==
  ASSUME NEW f \in DOMAIN Formats
  PROVE  /\ ArgIndex(Formats[f], 0) = 0
         /\ \A k \in 0 .. Len(Formats[f]) : ArgIndex(Formats[f], k) \in Nat
         /\ \A k \in 1 .. Len(Formats[f]) :
              ArgIndex(Formats[f], k) =
                IF TakesArg(Formats[f][k]) THEN ArgIndex(Formats[f], k - 1) + 1
                ELSE ArgIndex(Formats[f], k - 1)
<1> DEFINE P    == Formats[f]
           n    == Len(P)
           C(k) == {j \in 1 .. k : TakesArg(P[j])}
<1>1. n \in Nat
  BY FormatsTyped
<1>2. \A k : ArgIndex(P, k) = Cardinality(C(k))
  BY DEF ArgIndex
<1> HIDE DEF n
<1>3. ASSUME NEW k \in 0 .. n PROVE IsFiniteSet(C(k)) /\ Cardinality(C(k)) \in Nat
  <2>1. k \in Int /\ 1 \in Int
    BY <1>1
  <2>2. IsFiniteSet(1 .. k)
    BY <2>1, FS_Interval
  <2>3. C(k) \in SUBSET (1 .. k)
    OBVIOUS
  <2> HIDE DEF C
  <2>. QED
    BY <2>2, <2>3, FS_Subset, FS_CardinalityType
<1>4. C(0) = {}
  OBVIOUS
<1>5. ASSUME NEW k \in 1 .. n
      PROVE  Cardinality(C(k)) = IF TakesArg(P[k]) THEN Cardinality(C(k - 1)) + 1
                                 ELSE Cardinality(C(k - 1))
  <2>1. k - 1 \in 0 .. n /\ 1 .. k = (1 .. k - 1) \cup {k} /\ k \notin 1 .. k - 1
    BY <1>1
  <2>2. CASE TakesArg(P[k])
    <3>1. C(k) = C(k - 1) \cup {k} /\ k \notin C(k - 1)
      BY <2>1, <2>2
    <3>2. IsFiniteSet(C(k - 1))
      BY <2>1, <1>3
    <3> HIDE DEF C
    <3>. QED
      BY <2>2, <3>1, <3>2, FS_AddElement
  <2>3. CASE ~TakesArg(P[k])
    <3>1. C(k) = C(k - 1)
      BY <2>1, <2>3
    <3>. QED
      BY <2>3, <3>1
  <2>. QED
    BY <2>2, <2>3
<1> HIDE DEF C
<1>6. ArgIndex(P, 0) = 0
  BY <1>2, <1>4, FS_EmptySet
<1>. QED
  BY <1>2, <1>3, <1>5, <1>6 DEF n

-----------------------------------------------------------------------------
(* Where a call is: msg is at a piece of its format, or at the end of it,  *)
(* and va_arg still has the arguments of the conversions from there on;    *)
(* or, when the format ends with a lone %, msg may be in a later one, with *)
(* no argument left.                                                       *)
Arguments == UNION {{call.args[k] : k \in 1 .. Len(call.args)} : call \in Calls}

Rest(list, m) ==
  \/ m + Len(args) = Len(list) /\ (\A i \in 1 .. Len(args) : args[i] = list[m + i])
  \/ args = <<>> /\ m >= Len(list)

Here(call, f, k) ==
  /\ ptr = At(f, k)
  /\ \/ f = call.format /\ Rest(call.args, ArgIndex(Formats[f], k))
     \/ f > call.format /\ EndsWithPercent(call) /\ args = <<>>

Within(call) ==
  \E f \in DOMAIN Formats : \E k \in 0 .. Len(Formats[f]) : Here(call, f, k)

ScanInv ==
  /\ history \in Seq(Calls) /\ args \in Seq(Arguments)
  /\ pc \in {"scan", "put"} => history # <<>> /\ Within(Last(history))

(* The call in progress is the last one, and what it was given.            *)
LEMMA LastCall ==
  ASSUME ScanInv, pc \in {"scan", "put"}
  PROVE  LET call == Last(history)
         IN  /\ call \in Calls /\ call.format \in DOMAIN Formats /\ call.format \in Nat
             /\ Passes(Formats[call.format], call.args) /\ Len(call.args) \in Nat
             /\ Within(call)
             /\ \E h \in DOMAIN history : history[h] = call
<1> DEFINE call == Last(history)
           m    == Len(history)
<1>1. history \in Seq(Calls) /\ history # <<>> /\ Within(call)
  BY DEF ScanInv
<1>2. m \in Nat \ {0}
  BY <1>1, EmptySeq
<1>3. DOMAIN history = 1 .. m /\ call = history[m]
  BY <1>1, LenProperties DEF Last
<1> HIDE DEF m
<1>4. m \in 1 .. m
  BY <1>2
<1>5. call \in Calls
  BY <1>1, <1>3, <1>4, ElementOfSeq DEF m
<1>6. call.format \in DOMAIN Formats /\ Passes(Formats[call.format], call.args)
  BY <1>5, DebugAssumption
<1>7. call.format \in Nat
  <2> DEFINE n == Len(Formats)
             g == call.format
  <2>1. n \in Nat /\ g \in 1 .. n
    BY <1>6, FormatsTyped
  <2> HIDE DEF n, g
  <2>2. g \in Nat
    BY <2>1
  <2>. QED
    BY <2>2 DEF g
<1>. QED
  BY <1>1, <1>3, <1>4, <1>5, <1>6, <1>7 DEF Passes

(* A step that leaves the place, the arguments and the calls, and begins   *)
(* no call.                                                                *)
LEMMA ScanStays ==
  ASSUME ScanInv, history' = history, ptr' = ptr, args' = args,
         pc' \in {"scan", "put"} => pc \in {"scan", "put"}
  PROVE  ScanInv'
  BY DEF ScanInv, Within, Here, Rest, EndsWithPercent

(* msg goes on to the place of another piece of the same call.             *)
LEMMA ScanMoves ==
  ASSUME ScanInv, pc = "scan", history' = history, args' \in Seq(Arguments),
         NEW f \in DOMAIN Formats, NEW k \in 0 .. Len(Formats[f]), Here(Last(history), f, k)'
  PROVE  ScanInv'
<1>1. Within(Last(history))'
  BY DEF Within
<1>2. history \in Seq(Calls) /\ history # <<>>
  BY DEF ScanInv
<1>. QED
  BY <1>1, <1>2 DEF ScanInv

(* A piece that takes no argument.                                         *)
LEMMA ScanOn ==
  ASSUME ScanInv, pc = "scan", history' = history, args' = args,
         \/ rodata[ptr] \notin {NUL, Percent} /\ ptr' = ptr + 1
         \/ /\ rodata[ptr] = Percent /\ ptr' = ptr + 2
            /\ rodata[ptr + 1] \notin DOMAIN Base \cup {Str, Chr}
  PROVE  ScanInv'
<1> DEFINE call == Last(history)
<1>1. /\ call.format \in Nat /\ Passes(Formats[call.format], call.args)
      /\ Len(call.args) \in Nat /\ Within(call)
  BY LastCall
<1>2. PICK f \in DOMAIN Formats : \E k \in 0 .. Len(Formats[f]) : Here(call, f, k)
  BY <1>1 DEF Within
<1>3. PICK k \in 0 .. Len(Formats[f]) : Here(call, f, k)
  BY <1>2
<1>4. args \in Seq(Arguments) /\ args' \in Seq(Arguments) /\ call' = call
  BY DEF ScanInv
<1> DEFINE n == Len(Formats[f])
           j == k + 1
           m == ArgIndex(Formats[f], k)
<1>5. n \in Nat /\ k \in 0 .. n /\ f \in Nat
  <2> DEFINE l == Len(Formats)
  <2>1. l \in Nat /\ f \in 1 .. l /\ n \in Nat
    BY FormatsTyped
  <2> HIDE DEF l
  <2>2. f \in Nat
    BY <2>1
  <2>. QED
    BY <2>1, <2>2
<1>6. NUL # Percent
  BY DEF NUL, Percent
<1>7. /\ j \in 1 .. n
      /\ PlainHere(f, j) \/ ConversionHere(f, j) \/ LoneHere(f, j)
  <2>1. rodata[ptr] # NUL /\ ptr = At(f, k)
    BY <1>3, <1>6 DEF Here
  <2>. QED
    BY <2>1, NextPiece
<1>8. /\ ptr = At(f, k)
      /\ \/ f = call.format /\ Rest(call.args, m)
         \/ f > call.format /\ EndsWithPercent(call) /\ args = <<>>
  BY <1>3 DEF Here
<1> HIDE DEF j, n
<1>9. j - 1 = k /\ j \in 0 .. n /\ 0 \in 0 .. n
  BY <1>5, <1>7 DEF j
<1>10. m \in Nat
  BY <1>5, ArgIndexIs DEF n
<1>11. ~TakesArg(Formats[f][j]) => ArgIndex(Formats[f], j) = m
  BY <1>7, <1>9, ArgIndexIs DEF n
<1>12. ASSUME ~TakesArg(Formats[f][j]), ptr' = At(f, j) PROVE ScanInv'
  <2>1. ASSUME f = call.format PROVE Here(call, f, j)'
    <3>1. Rest(call.args, ArgIndex(Formats[f], j))
      <4>1. f = call.format => Rest(call.args, m)
        BY <1>1, <1>5, <1>8
      <4>. QED
        BY <2>1, <4>1, <1>11, <1>12
    <3>. QED
      BY <3>1, <2>1, <1>4, <1>12 DEF Here, Rest
  <2>2. ASSUME f # call.format PROVE Here(call, f, j)'
    BY <2>2, <1>4, <1>8, <1>12 DEF Here, EndsWithPercent
  <2>3. Here(call, f, j)'
    BY <2>1, <2>2
  <2>. QED
    BY <2>3, <1>4, <1>9, ScanMoves DEF n
<1>13. CASE PlainHere(f, j)
  <2>1. ptr' = At(f, j) /\ Len(Formats[f][j]) = 1
    BY <1>13 DEF PlainHere
  <2>. QED
    BY <2>1, <1>12 DEF TakesArg
<1>14. CASE ConversionHere(f, j)
  <2>1. ptr' = At(f, j) /\ Formats[f][j][2] \notin DOMAIN Base \cup {Str, Chr}
    BY <1>14, <1>6 DEF ConversionHere
  <2>. QED
    BY <2>1, <1>12 DEF TakesArg
<1>15. CASE LoneHere(f, j)
  <2>1. /\ Len(Formats[f][j]) = 1 /\ j = n /\ Lone(Last(Formats[f]))
        /\ f + 1 \in DOMAIN Formats /\ ptr' = At(f + 1, 0)
    BY <1>15, <1>6 DEF LoneHere, n
  <2>2. ArgIndex(Formats[f], j) = m
    BY <2>1, <1>11 DEF TakesArg
  <2>3. EndsWithPercent(call) /\ f + 1 > call.format /\ args = <<>>
    <3>1. CASE f = call.format /\ Rest(call.args, m)
      <4>1. Len(call.args) <= m
        BY <3>1, <2>1, <2>2, <1>1 DEF Passes, n
      <4>2. args = <<>>
        <5> DEFINE a == Len(args)
        <5>1. a \in Nat
          BY <1>4, LenProperties
        <5>2. m + a = Len(call.args) \/ args = <<>>
          BY <3>1 DEF Rest
        <5> HIDE DEF a
        <5>3. a = 0 \/ args = <<>>
          BY <5>1, <5>2, <4>1, <1>1, <1>10
        <5>. QED
          BY <5>3, <1>4, EmptySeq DEF a
      <4>. QED
        BY <4>2, <3>1, <2>1, <1>5 DEF EndsWithPercent
    <3>2. CASE f > call.format /\ EndsWithPercent(call) /\ args = <<>>
      BY <3>2, <1>1, <1>5
    <3>. QED
      BY <3>1, <3>2, <1>8
  <2> DEFINE g == f + 1
  <2>4. g \in DOMAIN Formats /\ ptr' = At(g, 0) /\ g > call.format
    BY <2>1, <2>3
  <2> HIDE DEF g
  <2>5. Here(call, g, 0)'
    BY <2>3, <2>4, <1>4 DEF Here, EndsWithPercent
  <2>6. 0 \in 0 .. Len(Formats[g])
    <3> DEFINE l == Len(Formats[g])
    <3>1. l \in Nat
      BY <2>4, FormatsTyped
    <3> HIDE DEF l
    <3>2. 0 \in 0 .. l
      BY <3>1
    <3>. QED
      BY <3>2 DEF l
  <2>. QED
    BY <2>4, <2>5, <2>6, <1>4, ScanMoves
<1>. QED
  BY <1>7, <1>13, <1>14, <1>15

(* A conversion that takes an argument finds its own, of the type it asks  *)
(* for, or none when it was not passed; and the next conversion will find  *)
(* its own.                                                                *)
LEMMA ScanTakes ==
  ASSUME ScanInv, pc = "scan", rodata[ptr] = Percent,
         rodata[ptr + 1] \in DOMAIN Base \cup {Str, Chr}
  PROVE  LET call == Last(history)
         IN  /\ \E f \in DOMAIN Formats : \E k \in DOMAIN Formats[f] :
                  LET piece == Formats[f][k]
                      m     == ArgIndex(Formats[f], k)
                  IN  /\ Len(piece) = 2 /\ piece[2] = rodata[ptr + 1]
                      /\ IF args # <<>>
                         THEN /\ f = call.format /\ m <= Len(call.args)
                              /\ Head(args) = call.args[m] /\ Typed(piece, Head(args))
                         ELSE \/ f = call.format /\ m > Len(call.args)
                              \/ f > call.format /\ EndsWithPercent(call)
             /\ ptr' = ptr + 2 /\ TakeArg /\ history' = history => ScanInv'
<1> DEFINE call == Last(history)
<1>1. /\ call.format \in Nat /\ call.format \in DOMAIN Formats
      /\ Passes(Formats[call.format], call.args)
      /\ Len(call.args) \in Nat /\ Within(call)
  BY LastCall
<1>2. PICK f \in DOMAIN Formats : \E k \in 0 .. Len(Formats[f]) : Here(call, f, k)
  BY <1>1 DEF Within
<1>3. PICK k \in 0 .. Len(Formats[f]) : Here(call, f, k)
  BY <1>2
<1> DEFINE n == Len(Formats[f])
           j == k + 1
           m == ArgIndex(Formats[f], k)
           a == Len(args)
           l == Len(call.args)
           piece == Formats[f][j]
<1>4. n \in Nat /\ k \in 0 .. n /\ f \in Nat /\ DOMAIN Formats[f] = 1 .. n
  <2> DEFINE q == Len(Formats)
  <2>1. q \in Nat /\ f \in 1 .. q /\ n \in Nat /\ DOMAIN Formats[f] = 1 .. n
    BY FormatsTyped
  <2> HIDE DEF q
  <2>2. f \in Nat
    BY <2>1
  <2>. QED
    BY <2>1, <2>2
<1>5. NUL # Percent /\ NUL \notin DOMAIN Base \cup {Str, Chr}
  BY Bases DEF NUL, Percent, Str, Chr
<1>6. j \in 1 .. n /\ ConversionHere(f, j)
  <2>1. rodata[ptr] # NUL /\ ptr = At(f, k)
    BY <1>3, <1>5 DEF Here
  <2>2. /\ j \in 1 .. n
        /\ PlainHere(f, j) \/ ConversionHere(f, j) \/ LoneHere(f, j)
    BY <2>1, NextPiece
  <2>. QED
    BY <2>2, <1>5 DEF PlainHere, LoneHere
<1>7. /\ \/ f = call.format /\ Rest(call.args, m)
         \/ f > call.format /\ EndsWithPercent(call) /\ args = <<>>
  BY <1>3 DEF Here
<1>8. Len(piece) = 2 /\ piece[2] = rodata[ptr + 1] /\ TakesArg(piece) /\ ptr + 2 = At(f, j)
  BY <1>6 DEF ConversionHere, TakesArg
<1>9. args \in Seq(Arguments) /\ a \in Nat /\ (args = <<>> <=> a = 0) /\ l \in Nat
  BY <1>1, EmptySeq, LenProperties DEF ScanInv
<1> HIDE DEF j, n
<1>10. j - 1 = k /\ j \in 0 .. n
  BY <1>4, <1>6 DEF j
<1>11. m \in Nat /\ ArgIndex(Formats[f], j) = m + 1
  BY <1>4, <1>6, <1>8, <1>10, ArgIndexIs DEF n
<1> HIDE DEF m, piece, l, a
<1>12. ASSUME args # <<>>
       PROVE  /\ f = call.format /\ m + 1 <= l
              /\ Head(args) = call.args[m + 1] /\ Typed(piece, Head(args))
              /\ Tail(args) \in Seq(Arguments)
              /\ m + 1 + Len(Tail(args)) = l
              /\ \A i \in 1 .. Len(Tail(args)) : Tail(args)[i] = call.args[m + 1 + i]
  <2>1. f = call.format /\ m + a = l /\ a \in Nat \ {0} /\ \A i \in 1 .. a : args[i] = call.args[m + i]
    BY <1>7, <1>9, <1>12 DEF Rest, a, l
  <2>2. m + 1 <= l /\ 1 \in 1 .. a
    BY <2>1, <1>9, <1>11
  <2>3. Head(args) = args[1] /\ Tail(args) \in Seq(Arguments) /\ Len(Tail(args)) = a - 1
        /\ \A i \in 1 .. a - 1 : Tail(args)[i] = args[i + 1]
    BY <1>9, <1>12, HeadTailProperties DEF a
  <2>4. Head(args) = call.args[m + 1]
    BY <2>1, <2>2, <2>3
  <2>5. Typed(piece, Head(args))
    <3>1. j \in DOMAIN Formats[f]
      BY <1>4, <1>6
    <3>2. ArgIndex(Formats[f], j) <= Len(call.args)
      BY <2>2, <1>11 DEF l
    <3>3. Typed(Formats[f][j], call.args[ArgIndex(Formats[f], j)])
      BY <3>1, <3>2, <2>1, <1>1, <1>8 DEF Passes, piece
    <3>. QED
      BY <3>3, <2>4, <1>11 DEF piece
  <2>6. ASSUME NEW i \in 1 .. a - 1 PROVE Tail(args)[i] = call.args[m + 1 + i]
    <3>1. i + 1 \in 1 .. a /\ m + (i + 1) = m + 1 + i
      <4>1. m \in Nat /\ a \in Nat
        BY <2>1, <1>11
      <4>. QED
        BY ONLY <4>1, i \in 1 .. a - 1
    <3>. QED
      BY <3>1, <2>1, <2>3
  <2>7. m + 1 + Len(Tail(args)) = l
    <3>1. m + 1 + (a - 1) = l
      BY <2>1, <1>9, <1>11
    <3>. QED
      BY <3>1, <2>3
  <2>. QED
    BY <2>1, <2>2, <2>3, <2>4, <2>5, <2>6, <2>7
<1>13. ASSUME args = <<>>
       PROVE  \/ f = call.format /\ m + 1 > l
              \/ f > call.format /\ EndsWithPercent(call)
  <2>1. CASE f = call.format /\ Rest(call.args, m)
    <3>1. m + a = l \/ m >= l
      BY <2>1 DEF Rest, a, l
    <3>. QED
      BY <2>1, <3>1, <1>9, <1>11, <1>13
  <2>. QED
    BY <2>1, <1>7
<1>14. \E g \in DOMAIN Formats : \E i \in DOMAIN Formats[g] :
         /\ Len(Formats[g][i]) = 2 /\ Formats[g][i][2] = rodata[ptr + 1]
         /\ IF args # <<>>
            THEN /\ g = call.format /\ ArgIndex(Formats[g], i) <= Len(call.args)
                 /\ Head(args) = call.args[ArgIndex(Formats[g], i)]
                 /\ Typed(Formats[g][i], Head(args))
            ELSE \/ g = call.format /\ ArgIndex(Formats[g], i) > Len(call.args)
                 \/ g > call.format /\ EndsWithPercent(call)
  <2>1. j \in DOMAIN Formats[f]
    BY <1>4, <1>6
  <2>2. Len(Formats[f][j]) = 2 /\ Formats[f][j][2] = rodata[ptr + 1]
    BY <1>8 DEF piece
  <2>3. CASE args # <<>>
    BY <2>1, <2>2, <2>3, <1>11, <1>12 DEF piece, l
  <2>4. CASE args = <<>>
    BY <2>1, <2>2, <2>4, <1>11, <1>13 DEF l
  <2>. QED
    BY <2>3, <2>4
<1>15. ASSUME ptr' = ptr + 2, TakeArg, history' = history PROVE ScanInv'
  <2>1. ptr' = At(f, j) /\ call' = call
    BY <1>8, <1>15
  <2>2. CASE args # <<>>
    <3>1. args' = Tail(args)
      BY <2>2, <1>15 DEF TakeArg
    <3>2. /\ f = call.format /\ args' \in Seq(Arguments)
          /\ m + 1 + Len(args') = Len(call.args)
          /\ \A i \in 1 .. Len(args') : args'[i] = call.args[m + 1 + i]
      BY <2>2, <3>1, <1>12 DEF l
    <3>3. Rest(call.args, ArgIndex(Formats[f], j))'
      BY <3>2, <2>1, <1>11 DEF Rest
    <3>4. Here(call, f, j)'
      BY <3>2, <3>3, <2>1 DEF Here
    <3>. QED
      BY <3>2, <3>4, <1>10, <1>15, ScanMoves DEF n
  <2>3. CASE args = <<>>
    <3>1. args' = <<>> /\ args' \in Seq(Arguments)
      BY <2>3, <1>9, <1>15 DEF TakeArg
    <3>2. Here(call, f, j)'
      <4>1. CASE f = call.format /\ m + 1 > l
        <5>1. ArgIndex(Formats[f], j) >= Len(call.args)
          BY <4>1, <1>9, <1>11 DEF l
        <5>2. Rest(call.args, ArgIndex(Formats[f], j))'
          BY <5>1, <3>1, <2>1 DEF Rest
        <5>. QED
          BY <5>2, <4>1, <2>1 DEF Here
      <4>2. CASE f > call.format /\ EndsWithPercent(call)
        BY <4>2, <3>1, <2>1 DEF Here, EndsWithPercent
      <4>. QED
        BY <4>1, <4>2, <2>3, <1>13
    <3>. QED
      BY <3>1, <3>2, <1>10, <1>15, ScanMoves DEF n
  <2>. QED
    BY <2>2, <2>3
<1>. QED
  BY <1>14, <1>15

(* A new call begins at the first piece of its format, with all of its     *)
(* arguments.                                                              *)
LEMMA ScanBegins ==
  ASSUME ScanInv, NEW call \in Calls, Call(call)
  PROVE  ScanInv'
<1>1. history' \in Seq(Calls) /\ history' # <<>> /\ Last(history') = call
  <2>1. history \in Seq(Calls) /\ history' = Append(history, call)
    BY DEF ScanInv, Call
  <2>. QED
    BY <2>1, AppendProperties DEF Last
<1>2. ptr' = Start(call.format) /\ args' = call.args
  BY DEF Call
<1> DEFINE f == call.format
           n == Len(Formats[f])
           l == Len(call.args)
<1>3. f \in DOMAIN Formats /\ Passes(Formats[f], call.args)
  BY DebugAssumption
<1>4. Start(f) \in Nat /\ Before(Formats[f], 0) = 0 /\ n \in Nat /\ ArgIndex(Formats[f], 0) = 0
  BY <1>3, StartIs, FormatsTyped, BeforeGrows, ArgIndexIs
<1>5. l \in Nat /\ call.args = [k \in 1 .. l |-> call.args[k]]
  BY <1>3 DEF Passes
<1>6. args' \in Seq(Arguments)
  <2> DEFINE s == call.args
  <2>1. \A k \in 1 .. l : s[k] \in Arguments
    BY DEF Arguments
  <2> HIDE DEF s, l
  <2>2. s \in [1 .. l -> Arguments]
    BY <2>1, <1>5 DEF s
  <2>3. s \in Seq(Arguments)
    BY <2>2, <1>5
  <2>. QED
    BY <2>3, <1>2 DEF s
<1> HIDE DEF f, n, l
<1>7. 0 \in 0 .. n
  BY <1>4
<1>8. ptr' = At(f, 0)
  BY <1>2, <1>4 DEF At, f
<1>9. 0 + Len(args') = Len(call.args) /\ \A i \in 1 .. Len(args') : args'[i] = call.args[0 + i]
  <2>1. 0 + l = l /\ \A i \in 1 .. l : 0 + i = i
    BY <1>5
  <2>2. 0 + Len(call.args) = Len(call.args) /\ \A i \in 1 .. Len(call.args) : 0 + i = i
    BY <2>1 DEF l
  <2>. QED
    BY <2>2, <1>2
<1>10. ASSUME NEW q, q = call PROVE Here(q, f, 0)'
  <2>1. Rest(q.args, ArgIndex(Formats[f], 0))'
    BY <1>4, <1>9, <1>10 DEF Rest
  <2>. QED
    BY <2>1, <1>8, <1>10 DEF Here, f
<1>11. ASSUME NEW q, q = call PROVE Within(q)'
  BY <1>3, <1>7, <1>10, <1>11 DEF Within, n
<1>12. ASSUME NEW q, q = Last(history') PROVE Within(q)'
  BY <1>1, <1>11, <1>12
<1>. QED
  BY <1>1, <1>6, <1>12 DEF ScanInv

(* Before debug_init is done nothing is scanned.                           *)
LEMMA ScanInitInv == Init => ScanInv
  BY EmptySeq DEF Init, ScanInv

(* Every step of the kernel, and of the port, keeps ScanInv.               *)
LEMMA ScanStepInv == ScanInv /\ [Next]_vars => ScanInv'
<1> SUFFICES ASSUME ScanInv, [Next]_vars PROVE ScanInv'
  OBVIOUS
<1>1. CASE Send
  BY <1>1, ScanStays DEF Send, kernel
<1>2. CASE InitWrite
  BY <1>2, ScanStays DEF InitWrite
<1>3. CASE EndOfText
  BY <1>3, ScanStays DEF EndOfText
<1>4. CASE Plain
  BY <1>4, ScanOn DEF Plain, Give
<1>5. CASE NoArgument
  BY <1>5, ScanOn DEF NoArgument, AtPercent, Give, AfterConversion
<1>6. CASE NumberArgument
  <2>1. /\ pc = "scan" /\ rodata[ptr] = Percent /\ history' = history /\ TakeArg
        /\ rodata[ptr + 1] \in DOMAIN Base \cup {Str, Chr}
    BY <1>6 DEF NumberArgument, AtPercent
  <2>2. ptr' = ptr + 2 \/ (pc' = "wild" /\ ptr' = ptr)
    BY <1>6 DEF NumberArgument, Give, AfterConversion
  <2>3. CASE ptr' = ptr + 2
    BY <2>1, <2>3, ScanTakes
  <2>4. CASE pc' = "wild" /\ ptr' = ptr
    <3>1. args' \in Seq(Arguments)
      <4>1. args \in Seq(Arguments)
        BY DEF ScanInv
      <4>. QED
        BY <4>1, <2>1, HeadTailProperties DEF TakeArg
    <3>. QED
      BY <3>1, <2>1, <2>4 DEF ScanInv
  <2>. QED
    BY <2>2, <2>3, <2>4
<1>7. CASE StringArgument
  <2>1. /\ pc = "scan" /\ rodata[ptr] = Percent /\ rodata[ptr + 1] = Str
        /\ TakeArg /\ history' = history
        /\ ptr' = ptr + 2 \/ (pc' = "wild" /\ ptr' = ptr)
    BY <1>7 DEF StringArgument, AtPercent, Give, AfterConversion
  <2>2. CASE ptr' = ptr + 2
    BY <2>1, <2>2, ScanTakes
  <2>3. CASE pc' = "wild" /\ ptr' = ptr
    <3>1. args' \in Seq(Arguments)
      <4>1. args \in Seq(Arguments)
        BY DEF ScanInv
      <4>. QED
        BY <4>1, <2>1, HeadTailProperties DEF TakeArg
    <3>. QED
      BY <3>1, <2>1, <2>3 DEF ScanInv
  <2>. QED
    BY <2>1, <2>2, <2>3
<1>8. CASE CharArgument
  BY <1>8, ScanTakes DEF CharArgument, AtPercent, Give, AfterConversion
<1>9. CASE putc
  BY <1>9, ScanStays DEF putc
<1>10. ASSUME NEW call \in Calls, Call(call)
       PROVE  ScanInv'
  BY <1>10, ScanBegins
<1>11. CASE UNCHANGED vars
  BY <1>11, ScanStays DEF vars, kernel
<1>. QED
  BY <1>1, <1>2, <1>3, <1>4, <1>5, <1>6, <1>7, <1>8, <1>9, <1>10, <1>11 DEF Next, Step

(* The loop of debug_printf reads within the string it was called with,    *)
(* whatever is before and after it in the image, whatever the conversions  *)
(* and the arguments, unless the string ends with a lone %.                *)
THEOREM PrintfStaysInFormat == Spec => []StaysInFormat
<1>1. ScanInv => StaysInFormat
  <2> DEFINE call == Last(history)
             P    == Formats[call.format]
             len  == Len(FlattenSeq(P))
  <2> SUFFICES ASSUME ScanInv, pc \in {"scan", "put"}, ~ EndsWithPercent(call)
               PROVE  ptr \in Start(call.format) .. Start(call.format) + len
    BY DEF StaysInFormat
  <2>1. Within(call) /\ call.format \in DOMAIN Formats
    BY LastCall
  <2>2. P \in Seq(Seq(Byte)) /\ Start(call.format) \in Nat
    BY <2>1, FormatsTyped, StartIs
  <2>3. PICK k \in 0 .. Len(P) : ptr = Start(call.format) + Before(P, k)
    BY <2>1 DEF Within, Here, At
  <2>4. Before(P, k) \in Nat /\ Before(P, k) <= len
    BY <2>2, BeforeGrows
  <2>5. len \in Nat
    BY <2>1, ImageIs
  <2> HIDE DEF len
  <2>. QED
    BY <2>2, <2>3, <2>4, <2>5
<1>. QED
  BY <1>1, ScanInitInv, ScanStepInv, PTL DEF Spec

-----------------------------------------------------------------------------
(* Types. debug_putc is called with a character in hand, and debug_init    *)
(* has ten writes.                                                         *)
DebugInv ==
  /\ TypeOK
  /\ pc = "put" => out # <<>>
  /\ pc = "init" => step \in 0 .. 9

Uart == [dlab : BOOLEAN, loop : BOOLEAN, lo : Byte, hi : Byte, format : 0 .. 127, fifo : Seq(Byte)]

(* No write to a register of the port takes it out of its states, and a    *)
(* full FIFO takes no character more.                                      *)
LEMMA OutTyped ==
  ASSUME NEW u \in Uart, Len(u.fifo) <= FifoSize, NEW reg \in 0 .. 4, NEW v \in Byte
  PROVE  outb(u, reg, v) \in Uart /\ Len(outb(u, reg, v).fifo) <= FifoSize
<1>1. FifoSize \in Nat \ {0}
  BY DebugAssumption
<1>2. v \in Nat /\ v % 128 \in 0 .. 127 /\ (v >= 128) \in BOOLEAN /\ Loops(v) \in BOOLEAN
  BY DEF Byte, Loops
<1>3. CASE reg = 0 /\ u.dlab
  <2>1. outb(u, reg, v) = [u EXCEPT !.lo = v]
    BY <1>3 DEF outb
  <2>. QED
    BY <2>1 DEF Uart
<1>4. CASE reg = 0 /\ ~u.dlab
  <2>1. Append(u.fifo, v) \in Seq(Byte) /\ Len(Append(u.fifo, v)) = Len(u.fifo) + 1 /\ Len(u.fifo) \in Nat
    <3>1. u.fifo \in Seq(Byte)
      BY DEF Uart
    <3>. QED
      BY <3>1, AppendProperties, LenProperties
  <2>2. CASE Len(u.fifo) < FifoSize
    <3>1. outb(u, reg, v) = [u EXCEPT !.fifo = Append(@, v)]
      BY <1>4, <2>2 DEF outb
    <3>2. [u EXCEPT !.fifo = Append(@, v)].fifo = Append(u.fifo, v)
      BY DEF Uart
    <3>3. [u EXCEPT !.fifo = Append(@, v)] \in Uart
      BY <2>1 DEF Uart
    <3> DEFINE l == Len(u.fifo)
    <3>4. l \in Nat /\ l < FifoSize /\ Len(Append(u.fifo, v)) = l + 1
      BY <2>1, <2>2
    <3> HIDE DEF l
    <3>5. Len(Append(u.fifo, v)) <= FifoSize
      BY <3>4, <1>1
    <3>. QED
      BY <3>1, <3>2, <3>3, <3>5
  <2>3. CASE ~(Len(u.fifo) < FifoSize)
    BY <1>4, <2>3 DEF outb
  <2>. QED
    BY <2>2, <2>3
<1>5. CASE reg = 1
  <2>1. outb(u, reg, v) \in {[u EXCEPT !.hi = v], u}
    BY <1>5 DEF outb
  <2>. QED
    BY <2>1 DEF Uart
<1>6. CASE reg = 2
  <2>1. <<>> \in Seq(Byte) /\ Len(<<>>) <= FifoSize
    BY <1>1, EmptySeq
  <2>2. outb(u, reg, v) \in {[u EXCEPT !.fifo = <<>>], u}
    BY <1>6 DEF outb
  <2>3. [u EXCEPT !.fifo = <<>>] \in Uart /\ [u EXCEPT !.fifo = <<>>].fifo = <<>>
    BY <2>1 DEF Uart
  <2>. QED
    BY <2>1, <2>2, <2>3
<1>7. CASE reg = 3
  <2>1. outb(u, reg, v) = [u EXCEPT !.dlab = v >= 128, !.format = v % 128]
    BY <1>7 DEF outb
  <2> DEFINE b == v >= 128
             r == v % 128
  <2>2. b \in BOOLEAN /\ r \in 0 .. 127
    BY <1>2
  <2>3. outb(u, reg, v) = [u EXCEPT !.dlab = b, !.format = r]
    BY <2>1
  <2> HIDE DEF b, r
  <2>. QED
    BY <2>2, <2>3 DEF Uart
<1>8. CASE reg = 4
  <2>1. outb(u, reg, v) = [u EXCEPT !.loop = Loops(v)]
    BY <1>8 DEF outb
  <2>. QED
    BY <2>1, <1>2 DEF Uart
<1>. QED
  BY <1>3, <1>4, <1>5, <1>6, <1>7, <1>8

(* What debug_init writes.                                                 *)
LEMMA InitWritesTyped ==
  /\ Len(InitWrites) = 10
  /\ \A i \in 1 .. 10 : InitWrites[i][1] \in 0 .. 4 /\ InitWrites[i][2] \in Byte
<1>1. Len(InitWrites) = 10
  BY DEF InitWrites
<1>2. ASSUME NEW i \in 1 .. 10 PROVE InitWrites[i][1] \in 0 .. 4 /\ InitWrites[i][2] \in Byte
  <2>1. i \in {1, 2, 3, 4, 5, 6, 7, 8, 9, 10}
    OBVIOUS
  <2>2. CASE i \in {1, 4}
    BY <2>2 DEF InitWrites, Byte
  <2>3. CASE i \in {2, 5}
    BY <2>3 DEF InitWrites, Byte
  <2>4. CASE i \in {3, 9}
    BY <2>4 DEF InitWrites, Byte
  <2>5. CASE i \in {6, 7}
    BY <2>5 DEF InitWrites, Byte
  <2>6. CASE i \in {8, 10}
    BY <2>6 DEF InitWrites, Byte
  <2>. QED
    BY <2>1, <2>2, <2>3, <2>4, <2>5, <2>6
<1>. QED
  BY <1>1, <1>2

(* The characters that a piece gives, and the place it takes msg to.       *)
LEMMA GiveTyped ==
  ASSUME DebugInv, NEW text \in Seq(Byte), NEW next \in Nat, Give(text, next),
         UNCHANGED <<uart, line, step, history>>, overrun' \in BOOLEAN
  PROVE  DebugInv'
  BY DEF DebugInv, TypeOK, Give

(* A place with a character in it is one of the image.                     *)
LEMMA PlaceTyped ==
  ASSUME ScanInv, pc = "scan"
  PROVE  ptr \in Nat /\ rodata[ptr] \in Byte
<1>1. Within(Last(history))
  BY LastCall
<1>2. PICK f \in DOMAIN Formats : \E k \in 0 .. Len(Formats[f]) : Here(Last(history), f, k)
  BY <1>1 DEF Within
<1>3. PICK k \in 0 .. Len(Formats[f]) : ptr = At(f, k)
  BY <1>2 DEF Here
<1>. QED
  BY <1>3, NextPiece

(* The number of a %d, %x or %b, passed or not.                            *)
LEMMA NumberTaken ==
  ASSUME ScanInv, pc = "scan", rodata[ptr] = Percent, rodata[ptr + 1] \in DOMAIN Base,
         NEW n \in NextArg
  PROVE  n \in Number
<1>1. PICK f \in DOMAIN Formats : \E k \in DOMAIN Formats[f] :
         /\ Formats[f][k][2] = rodata[ptr + 1]
         /\ args # <<>> => Typed(Formats[f][k], Head(args))
  BY ScanTakes
<1>2. PICK k \in DOMAIN Formats[f] :
         /\ Formats[f][k][2] = rodata[ptr + 1]
         /\ args # <<>> => Typed(Formats[f][k], Head(args))
  BY <1>1
<1>3. rodata[ptr + 1] # Str /\ rodata[ptr + 1] # Chr
  BY Bases DEF Str, Chr
<1>4. CASE args # <<>>
  BY <1>2, <1>3, <1>4 DEF NextArg, Typed
<1>5. CASE args = <<>>
  BY <1>5, DebugAssumption DEF NextArg
<1>. QED
  BY <1>4, <1>5

(* The argument of a %s is a text, and that of a %c a number.              *)
LEMMA OthersTaken ==
  ASSUME ScanInv, pc = "scan", rodata[ptr] = Percent
  PROVE  /\ rodata[ptr + 1] = Str => \A text \in TextArg : text \in Seq(Byte)
         /\ rodata[ptr + 1] = Chr => \A n \in NextArg : n \in Nat
<1>1. Str # Chr
  BY DEF Str, Chr
<1>2. ASSUME rodata[ptr + 1] \in {Str, Chr}, args # <<>>
      PROVE  \E piece : piece[2] = rodata[ptr + 1] /\ Typed(piece, Head(args))
  <2>1. \E f \in DOMAIN Formats : \E k \in DOMAIN Formats[f] :
          Formats[f][k][2] = rodata[ptr + 1] /\ Typed(Formats[f][k], Head(args))
    BY <1>2, ScanTakes
  <2>. QED
    BY <2>1
<1>3. ASSUME rodata[ptr + 1] = Str, args # <<>> PROVE Head(args) \in Seq(Byte)
  BY <1>2, <1>3 DEF Typed
<1>4. ASSUME rodata[ptr + 1] = Chr, NEW n \in NextArg PROVE n \in Nat
  <2>1. CASE args # <<>>
    <3>1. PICK piece : piece[2] = Chr /\ Typed(piece, Head(args))
      BY <1>2, <1>4, <2>1
    <3>2. Head(args) \in Nat
      BY <3>1, <1>1 DEF Typed
    <3>. QED
      BY <3>2, <1>4, <2>1 DEF NextArg
  <2>2. CASE args = <<>>
    <3>1. n \in Number
      BY <1>4, <2>2, DebugAssumption DEF NextArg
    <3>2. Power(2, Width) \in Nat
      BY DebugAssumption, PowerOfTwo
    <3>. QED
      BY <3>1, <3>2 DEF Number
  <2>. QED
    BY <2>1, <2>2
<1>5. ASSUME rodata[ptr + 1] = Str, NEW text \in TextArg PROVE text \in Seq(Byte)
  <2>1. CASE args # <<>>
    BY <1>3, <1>5, <2>1 DEF TextArg
  <2>2. CASE args = <<>>
    BY <1>5, <2>2, DebugAssumption DEF TextArg
  <2>. QED
    BY <2>1, <2>2
<1>. QED
  BY <1>5, <1>4

(* The port starts with nothing to send.                                   *)
LEMMA DebugInit == Init => DebugInv
<1> SUFFICES ASSUME Init PROVE DebugInv
  OBVIOUS
<1>1. <<>> \in Seq(Byte) /\ <<>> \in Seq(0 .. Garbled) /\ <<>> \in Seq(Calls) /\ Len(<<>>) = 0
  BY EmptySeq
<1>2. 0 <= FifoSize /\ 0 <= MaxCalls
  BY DebugAssumption
<1>3. uart \in Uart /\ uart.fifo = <<>>
  <2>1. 0 \in Byte /\ 1 \in Byte /\ 0 \in 0 .. 127
    BY DEF Byte
  <2>2. PICK d \in BOOLEAN, l \in BOOLEAN :
          uart = [dlab |-> d, loop |-> l, lo |-> 1, hi |-> 0, format |-> 0, fifo |-> <<>>]
    BY DEF Init
  <2>. QED
    BY <1>1, <2>1, <2>2 DEF Uart
<1>4. /\ line = <<>> /\ pc = "init" /\ step = 0 /\ ptr = 0
      /\ args = <<>> /\ out = <<>> /\ overrun = FALSE /\ history = <<>>
  BY DEF Init
<1>5. TypeOK
  <2>1. uart \in [dlab : BOOLEAN, loop : BOOLEAN, lo : Byte, hi : Byte, format : 0 .. 127,
                 fifo : Seq(Byte)]
    BY <1>3 DEF Uart
  <2>2. Len(uart.fifo) <= FifoSize /\ Len(history) <= MaxCalls
    BY <1>1, <1>2, <1>3, <1>4
  <2>3. 0 \in 0 .. 10 /\ 0 \in Nat
    OBVIOUS
  <2>. QED
    BY <1>1, <1>4, <2>1, <2>2, <2>3 DEF TypeOK
<1>. QED
  BY <1>4, <1>5 DEF DebugInv

(* Every step keeps the types.                                             *)
LEMMA DebugNext == DebugInv /\ ScanInv /\ [Next]_vars => DebugInv'
<1> SUFFICES ASSUME DebugInv, ScanInv, [Next]_vars PROVE DebugInv'
  OBVIOUS
<1>1. /\ uart \in Uart /\ Len(uart.fifo) <= FifoSize /\ out \in Seq(Byte) /\ ptr \in Nat
      /\ line \in Seq(0 .. Garbled) /\ history \in Seq(Calls) /\ uart.fifo \in Seq(Byte)
      /\ overrun \in BOOLEAN
  BY DEF DebugInv, TypeOK, Uart
<1>2. CASE Send
  <2>1. /\ Head(uart.fifo) \in Byte /\ Tail(uart.fifo) \in Seq(Byte)
        /\ Len(Tail(uart.fifo)) <= FifoSize
    <3> DEFINE l == Len(uart.fifo)
               t == Len(Tail(uart.fifo))
    <3>1. /\ Head(uart.fifo) \in Byte /\ Tail(uart.fifo) \in Seq(Byte)
          /\ t = l - 1 /\ l \in Nat /\ l <= FifoSize
      BY <1>1, <1>2, HeadTailProperties, LenProperties DEF Send
    <3>2. FifoSize \in Nat
      BY DebugAssumption
    <3> HIDE DEF l, t
    <3>3. t <= FifoSize
      BY <3>1, <3>2
    <3>. QED
      BY <3>1, <3>3 DEF t
  <2>2. uart' = [uart EXCEPT !.fifo = Tail(@)]
    BY <1>2 DEF Send
  <2>3. uart' \in Uart /\ uart'.fifo = Tail(uart.fifo)
    BY <1>1, <2>1, <2>2 DEF Uart
  <2>4. line' \in Seq(0 .. Garbled)
    <3>1. Head(uart.fifo) \in 0 .. Garbled /\ Garbled \in 0 .. Garbled
      BY <2>1 DEF Byte, Garbled
    <3>2. \A c \in 0 .. Garbled : Append(line, c) \in Seq(0 .. Garbled)
      BY <1>1, AppendProperties
    <3>. QED
      BY <1>1, <1>2, <3>1, <3>2 DEF Send
  <2>. QED
    BY <1>2, <2>1, <2>3, <2>4 DEF Send, kernel, DebugInv, TypeOK, Uart
<1>3. CASE InitWrite
  <2>1. step \in 0 .. 9 /\ step' = step + 1 /\ step' \in 1 .. 10
    BY <1>3 DEF InitWrite, DebugInv
  <2>2. uart' = outb(uart, InitWrites[step'][1], InitWrites[step'][2])
    BY <1>3 DEF InitWrite
  <2>3. InitWrites[step'][1] \in 0 .. 4 /\ InitWrites[step'][2] \in Byte /\ Len(InitWrites) = 10
    BY <2>1, InitWritesTyped
  <2>4. uart' \in Uart /\ Len(uart'.fifo) <= FifoSize
    BY <1>1, <2>2, <2>3, OutTyped
  <2>5. step' \in 0 .. 10 /\ (pc' = "idle" \/ (pc' = "init" /\ step' \in 0 .. 9))
    BY <1>3, <2>1, <2>3 DEF InitWrite
  <2>. QED
    BY <1>3, <2>4, <2>5 DEF InitWrite, DebugInv, TypeOK, Uart
<1>4. CASE EndOfText
  BY <1>4 DEF EndOfText, DebugInv, TypeOK
<1>5. CASE Plain
  <2>1. <<rodata[ptr]>> \in Seq(Byte) /\ ptr + 1 \in Nat
    BY <1>1, <1>5, PlaceTyped DEF Plain
  <2>. QED
    BY <1>1, <1>5, <2>1, GiveTyped DEF Plain
<1>6. CASE NoArgument
  <2>1. <<Percent>> \in Seq(Byte) /\ <<>> \in Seq(Byte) /\ AfterConversion \in Nat
    BY <1>1, EmptySeq DEF Percent, Byte, AfterConversion
  <2> DEFINE text == IF rodata[ptr + 1] = Percent THEN <<Percent>> ELSE <<>>
  <2>2. text \in Seq(Byte)
    BY <2>1
  <2>3. Give(text, AfterConversion) /\ UNCHANGED <<uart, line, step, history>> /\ overrun' = overrun
    BY <1>6 DEF NoArgument
  <2> HIDE DEF text
  <2>. QED
    BY <1>1, <2>1, <2>2, <2>3, GiveTyped
<1>7. CASE NumberArgument
  <2> DEFINE base == Base[rodata[ptr + 1]]
             past(n) == n # 0 /\ Counted(n, base) >= Width
  <2>1. /\ pc = "scan" /\ rodata[ptr] = Percent /\ rodata[ptr + 1] \in DOMAIN Base
        /\ UNCHANGED <<uart, line, step, history>>
    BY <1>7 DEF NumberArgument, AtPercent
  <2>2. PICK n \in NextArg : /\ overrun' = (overrun \/ past(n))
                             /\ \/ Give(puti(n, base), AfterConversion)
                                \/ past(n) /\ pc' = "wild" /\ UNCHANGED <<out, ptr>>
    BY <1>7 DEF NumberArgument
  <2>3. n \in Number
    BY <2>1, NumberTaken
  <2>4. base \in {2, 10, 16}
    BY <2>1, Bases
  <2>5. overrun' \in BOOLEAN
    BY <2>2, <1>1
  <2>6. CASE Give(puti(n, base), AfterConversion)
    <3>1. puti(n, base) \in Seq(Byte)
      BY <2>3, <2>4, DigitsAreBytes
    <3>2. AfterConversion \in Nat
      BY <1>1 DEF AfterConversion
    <3>. QED
      BY <3>1, <3>2, <2>1, <2>5, <2>6, GiveTyped
  <2>7. CASE pc' = "wild" /\ UNCHANGED <<out, ptr>>
    BY <2>1, <2>5, <2>7 DEF DebugInv, TypeOK
  <2>. QED
    BY <2>2, <2>6, <2>7
<1>8. CASE StringArgument
  <2>1. /\ pc = "scan" /\ rodata[ptr] = Percent /\ rodata[ptr + 1] = Str
        /\ UNCHANGED <<uart, line, step, overrun, history>>
        /\ (\E text \in TextArg : Give(text, AfterConversion)) \/ (pc' = "wild" /\ UNCHANGED <<out, ptr>>)
    BY <1>8 DEF StringArgument, AtPercent
  <2>2. overrun' \in BOOLEAN
    BY <2>1 DEF DebugInv, TypeOK
  <2>3. CASE \E text \in TextArg : Give(text, AfterConversion)
    <3>1. PICK text \in TextArg : Give(text, AfterConversion)
      BY <2>3
    <3>2. text \in Seq(Byte)
      BY <1>1, <2>1, OthersTaken
    <3>3. AfterConversion \in Nat
      BY <1>1 DEF AfterConversion
    <3>. QED
      BY <3>1, <3>2, <3>3, <2>1, <2>2, GiveTyped
  <2>4. CASE pc' = "wild" /\ UNCHANGED <<out, ptr>>
    BY <2>1, <2>2, <2>4 DEF DebugInv, TypeOK
  <2>. QED
    BY <2>1, <2>3, <2>4
<1>9. CASE CharArgument
  <2>1. PICK n \in NextArg : Give(<<ToChar(n)>>, AfterConversion)
    BY <1>9 DEF CharArgument
  <2>2. n \in Nat /\ AfterConversion \in Nat
    BY <1>1, <1>9, OthersTaken DEF CharArgument, AtPercent, AfterConversion
  <2>3. ToChar(n) \in Byte
    BY <2>2 DEF ToChar, Byte
  <2>4. <<ToChar(n)>> \in Seq(Byte)
    BY <2>3
  <2>. QED
    BY <1>1, <1>9, <2>1, <2>2, <2>4, GiveTyped DEF CharArgument
<1>10. CASE putc
  <2>1. Head(out) \in Byte /\ Tail(out) \in Seq(Byte)
    BY <1>1, <1>10, HeadTailProperties DEF putc, DebugInv
  <2>2. uart' = outb(uart, 0, Head(out)) /\ 0 \in 0 .. 4
    BY <1>10 DEF putc
  <2>3. uart' \in Uart /\ Len(uart'.fifo) <= FifoSize
    BY <1>1, <2>1, <2>2, OutTyped
  <2>. QED
    BY <1>10, <2>1, <2>3 DEF putc, DebugInv, TypeOK, Uart
<1>11. ASSUME NEW call \in Calls, Call(call) PROVE DebugInv'
  <2>1. call.format \in DOMAIN Formats
    BY DebugAssumption
  <2>2. ptr' \in Nat
    BY <1>11, <2>1, StartIs DEF Call
  <2>3. history' \in Seq(Calls) /\ Len(history') <= MaxCalls
    <3> DEFINE l == Len(history)
               t == Len(history')
    <3>1. history' \in Seq(Calls) /\ t = l + 1 /\ l \in Nat /\ l < MaxCalls /\ MaxCalls \in Nat
      BY <1>1, <1>11, AppendProperties, LenProperties, DebugAssumption DEF Call
    <3> HIDE DEF l, t
    <3>2. t <= MaxCalls
      BY <3>1
    <3>. QED
      BY <3>1, <3>2 DEF t
  <2>. QED
    BY <1>11, <2>2, <2>3 DEF Call, DebugInv, TypeOK
<1>12. CASE UNCHANGED vars
  BY <1>12 DEF vars, kernel, DebugInv, TypeOK
<1>. QED
  BY <1>2, <1>3, <1>4, <1>5, <1>6, <1>7, <1>8, <1>9, <1>10, <1>11, <1>12 DEF Next, Step

(* TypeOK: every register, character and place keeps its type, for every   *)
(* image, every call that passes what it passes with the right types, and  *)
(* any number in the place of one that was not passed: no conversion gives *)
(* debug_putc anything but a byte.                                         *)
THEOREM DebugTypeCorrect == Spec => []TypeOK
<1>1. DebugInv => TypeOK
  BY DEF DebugInv
<1>. QED
  BY <1>1, DebugInit, DebugNext, ScanInitInv, ScanStepInv, PTL DEF Spec

-----------------------------------------------------------------------------
(* BufferKept: the buffer of debug_puti is as long as a number has bits,   *)
(* and its terminator has no room only behind a number with the top bit    *)
(* set in base 2, passed or not. It rests on how many digits a number has  *)
(* (CountedIs) and on whose argument a conversion takes (ScanTakes).       *)
THEOREM BufferHolds == Spec => []BufferKept
<1>1. Init => BufferKept
  BY DEF Init, BufferKept
<1>2. ScanInv /\ BufferKept /\ [Next]_vars => BufferKept'
  <2> SUFFICES ASSUME ScanInv, BufferKept, [Next]_vars PROVE BufferKept'
    OBVIOUS
  <2>1. ASSUME overrun' = overrun, history' = history PROVE BufferKept'
    BY <2>1 DEF BufferKept, FillsBuffer, LacksNumber, EndsWithPercent
  <2>2. ASSUME NEW call \in Calls, Call(call) PROVE BufferKept'
    <3>1. history \in Seq(Calls) /\ history' = Append(history, call) /\ overrun' = overrun
      BY <2>2 DEF ScanInv, Call
    <3>2. \A h \in DOMAIN history : h \in DOMAIN history' /\ history'[h] = history[h]
      <4> DEFINE l == Len(history)
      <4>1. DOMAIN history = 1 .. l /\ DOMAIN history' = 1 .. l + 1 /\ l \in Nat
            /\ \A h \in 1 .. l : history'[h] = history[h]
        BY <3>1, AppendProperties, LenProperties
      <4> HIDE DEF l
      <4>. QED
        BY <4>1
    <3>. QED
      BY <3>1, <3>2 DEF BufferKept, FillsBuffer, LacksNumber, EndsWithPercent
  <2>3. CASE NumberArgument
    <3> DEFINE call == Last(history)
               letter == rodata[ptr + 1]
               past(n) == n # 0 /\ Counted(n, Base[letter]) >= Width
    <3>1. /\ pc = "scan" /\ rodata[ptr] = Percent /\ letter \in DOMAIN Base /\ history' = history
      BY <2>3 DEF NumberArgument, AtPercent
    <3>2. PICK n \in NextArg : overrun' = (overrun \/ past(n))
      BY <2>3 DEF NumberArgument
    <3>3. CASE ~past(n)
      BY <3>1, <3>2, <3>3, <2>1 DEF BufferKept
    <3>4. CASE past(n)
      <4>1. n \in Number /\ Base[letter] \in {2, 10, 16}
        BY <3>1, NumberTaken, Bases
      <4>2. Base[letter] = 2 /\ n >= Power(2, Width - 1)
        BY <3>4, <4>1, CountedIs
      <4>3. letter = 98
        BY <3>1, <4>2, Bases
      <4>4. PICK f \in DOMAIN Formats : \E k \in DOMAIN Formats[f] :
              /\ Binary(Formats[f][k])
              /\ IF args # <<>>
                 THEN /\ f = call.format /\ ArgIndex(Formats[f], k) <= Len(call.args)
                      /\ Head(args) = call.args[ArgIndex(Formats[f], k)]
                 ELSE \/ f = call.format /\ ArgIndex(Formats[f], k) > Len(call.args)
                      \/ f > call.format /\ EndsWithPercent(call)
        BY <3>1, <4>3, ScanTakes DEF Binary
      <4>5. PICK k \in DOMAIN Formats[f] :
              /\ Binary(Formats[f][k])
              /\ IF args # <<>>
                 THEN /\ f = call.format /\ ArgIndex(Formats[f], k) <= Len(call.args)
                      /\ Head(args) = call.args[ArgIndex(Formats[f], k)]
                 ELSE \/ f = call.format /\ ArgIndex(Formats[f], k) > Len(call.args)
                      \/ f > call.format /\ EndsWithPercent(call)
        BY <4>4
      <4>6. FillsBuffer(call) \/ LacksNumber(call)
        <5>1. CASE args # <<>>
          BY <5>1, <4>2, <4>5 DEF FillsBuffer, NextArg
        <5>2. CASE args = <<>> /\ f = call.format
          <6>1. ArgIndex(Formats[f], k) > Len(call.args)
            <7>1. f > call.format => f # call.format
              <8> DEFINE l == Len(Formats)
              <8>1. l \in Nat /\ f \in 1 .. l
                BY FormatsTyped
              <8> HIDE DEF l
              <8>2. f \in Nat
                BY <8>1
              <8>. QED
                BY <5>2, <8>2
            <7>. QED
              BY <5>2, <4>5, <7>1
          <6>. QED
            BY <5>2, <6>1, <4>5 DEF LacksNumber
        <5>3. CASE args = <<>> /\ f # call.format
          <6>1. f > call.format /\ EndsWithPercent(call)
            BY <5>3, <4>5
          <6>2. f \in call.format + 1 .. Len(Formats)
            <7> DEFINE l == Len(Formats)
                       g == call.format
            <7>1. l \in Nat /\ f \in 1 .. l /\ g \in Nat /\ f > g
              BY <3>1, <6>1, FormatsTyped, LastCall
            <7> HIDE DEF l, g
            <7>2. f \in g + 1 .. l
              BY <7>1
            <7>. QED
              BY <7>2 DEF l, g
          <6>. QED
            BY <6>1, <6>2, <4>5 DEF LacksNumber
        <5>. QED
          BY <5>1, <5>2, <5>3
      <4>7. PICK h \in DOMAIN history : history[h] = call
        BY <3>1, LastCall
      <4>8. \E i \in DOMAIN history : FillsBuffer(history[i]) \/ LacksNumber(history[i])
        BY <4>6, <4>7
      <4>. QED
        BY <4>8, <3>1 DEF BufferKept, FillsBuffer, LacksNumber, EndsWithPercent
    <3>. QED
      BY <3>3, <3>4
  <2>. QED
    BY <2>1, <2>2, <2>3 DEF Next, Step, Send, kernel, vars, InitWrite, EndOfText, Plain,
       NoArgument, StringArgument, CharArgument, putc
<1>. QED
  BY <1>1, <1>2, ScanInitInv, ScanStepInv, PTL DEF Spec

-----------------------------------------------------------------------------
(* Numerals: what debug_puti stores, digit by digit, is the numeral of the *)
(* number.                                                                 *)

(* The quotient is the one number that leaves a remainder.                 *)
LEMMA QuotientIs ==
  ASSUME NEW n \in Nat, NEW d \in Nat \ {0}, NEW r \in Nat, NEW e \in Nat,
         n = d * r + e, e < d
  PROVE  n \div d = r
<1> DEFINE q == n \div d
           f == n % d
<1>1. q \in Nat /\ f \in Nat /\ n = d * q + f /\ f < d
  BY SMT
<1> HIDE DEF q, f
<1>2. ASSUME q < r PROVE FALSE
  <2>1. q + 1 <= r
    BY <1>1, <1>2
  <2>2. d * (q + 1) <= d * r
    BY <2>1, <1>1, SMT
  <2>3. d * (q + 1) = d * q + d
    BY <1>1, SMT
  <2>. QED
    BY <2>2, <2>3, <1>1, SMT
<1>3. ASSUME r < q PROVE FALSE
  <2>1. r + 1 <= q
    BY <1>1, <1>3
  <2>2. d * (r + 1) <= d * q
    BY <2>1, <1>1, SMT
  <2>3. d * (r + 1) = d * r + d
    BY SMT
  <2>. QED
    BY <2>2, <2>3, <1>1, SMT
<1>4. q = r
  BY <1>1, <1>2, <1>3
<1>. QED
  BY <1>4 DEF q

(* Dividing twice is dividing by the product.                              *)
LEMMA DividedTwice ==
  ASSUME NEW n \in Nat, NEW p \in Nat \ {0}, NEW b \in Nat \ {0}
  PROVE  /\ b * p \in Nat \ {0}
         /\ (n \div p) \div b = n \div (b * p)
<1> DEFINE q == n \div p
           t == n % p
           r == q \div b
           s == q % b
<1>1. q \in Nat /\ t \in Nat /\ n = p * q + t /\ t < p
  BY SMT
<1> HIDE DEF q, t
<1>2. r \in Nat /\ s \in Nat /\ q = b * r + s /\ s < b
  BY <1>1, SMT
<1> HIDE DEF r, s
<1>3. b * p \in Nat \ {0}
  BY SMT
<1>4. p * s \in Nat /\ p * s + t \in Nat
  BY <1>1, <1>2, SMT
<1>5. p * s + t < b * p
  <2>1. s + 1 <= b
    BY <1>2
  <2>2. p * (s + 1) <= p * b
    BY <2>1, <1>2, SMT
  <2>3. p * (s + 1) = p * s + p /\ p * b = b * p
    BY <1>2, SMT
  <2>. QED
    BY <2>2, <2>3, <1>1, <1>4, <1>3, SMT
<1>6. n = (b * p) * r + (p * s + t)
  <2>1. p * (b * r + s) = (b * p) * r + p * s
    BY <1>2, SMT
  <2>. QED
    BY <2>1, <1>1, <1>2, SMT
<1>7. n \div (b * p) = r
  BY <1>2, <1>3, <1>4, <1>5, <1>6, QuotientIs
<1>. QED
  BY <1>3, <1>7 DEF r, q

(* What k divisions leave is the quotient by the k-th power.               *)
LEMMA AfterDivides ==
  ASSUME NEW n \in Nat, NEW base \in {2, 10, 16}
  PROVE  \A k \in Nat : /\ Power(base, k) \in Nat \ {0}
                        /\ After(n, base)[k] = n \div Power(base, k)
<1> DEFINE A(k) == After(n, base)[k]
           Q(k) == Power(base, k)
           S    == {k \in Nat : Q(k) \in Nat \ {0} /\ A(k) = n \div Q(k)}
<1>1. A(0) = n /\ \A k \in Nat : A(k) \in Nat /\ A(k + 1) = A(k) \div base
  BY AfterIs
<1>2. base \in Nat \ {0}
  OBVIOUS
<1>3. Q(0) = 1 /\ \A k \in Nat : Q(k) \in Nat /\ Q(k + 1) = base * Q(k)
  BY <1>2, PowerIs
<1> HIDE DEF A, Q
<1>4. 0 \in S
  <2>1. n \div 1 = n
    OBVIOUS
  <2>. QED
    BY <2>1, <1>1, <1>3
<1>5. ASSUME NEW k \in Nat, k \in S PROVE k + 1 \in S
  <2>1. Q(k) \in Nat \ {0} /\ A(k) = n \div Q(k)
    BY <1>5
  <2> HIDE DEF S
  <2>2. /\ base * Q(k) \in Nat \ {0}
        /\ (n \div Q(k)) \div base = n \div (base * Q(k))
    BY <2>1, <1>2, DividedTwice
  <2>3. Q(k + 1) = base * Q(k) /\ A(k + 1) = A(k) \div base
    BY <1>1, <1>3
  <2>. QED
    BY <2>1, <2>2, <2>3 DEF S
<1> HIDE DEF S
<1>6. Nat \subseteq S
  BY <1>4, <1>5, SetInduction
<1>7. \A k \in Nat : Q(k) \in Nat \ {0} /\ A(k) = n \div Q(k)
  BY <1>6 DEF S
<1>. QED
  BY <1>7 DEF A, Q

(* The powers of a base grow.                                              *)
LEMMA PowersGrow ==
  ASSUME NEW base \in {2, 10, 16}, NEW i \in Nat, NEW j \in Nat, i <= j
  PROVE  Power(base, i) <= Power(base, j)
<1> DEFINE Q(k) == Power(base, k)
           S    == {d \in Nat : Q(i) <= Q(i + d)}
<1>1. Q(0) = 1 /\ \A k \in Nat : Q(k) \in Nat /\ Q(k + 1) = base * Q(k)
  <2>1. base \in Nat
    OBVIOUS
  <2>. QED
    BY <2>1, PowerIs
<1> HIDE DEF Q
<1>2. 0 \in S
  <2>1. i + 0 = i /\ Q(i) \in Nat
    BY <1>1
  <2>. QED
    BY <2>1
<1>3. ASSUME NEW d \in Nat, d \in S PROVE d + 1 \in S
  <2> DEFINE e == i + d
  <2>1. e \in Nat /\ i + (d + 1) = e + 1
    OBVIOUS
  <2>2. Q(i) <= Q(e)
    BY <1>3
  <2> HIDE DEF e
  <2>3. Q(e) <= Q(e + 1)
    <3>1. \A x \in Nat : x <= base * x
      <4>1. CASE base = 2
        BY <4>1
      <4>2. CASE base = 10
        BY <4>2
      <4>3. CASE base = 16
        BY <4>3
      <4>. QED
        BY <4>1, <4>2, <4>3
    <3>. QED
      BY <3>1, <2>1, <1>1
  <2>4. e + 1 \in Nat
    BY <2>1
  <2>5. Q(i) \in Nat /\ Q(e) \in Nat /\ Q(e + 1) \in Nat
    BY <2>1, <2>4, <1>1
  <2>6. Q(i) <= Q(e + 1)
    BY <2>2, <2>3, <2>5
  <2>. QED
    BY <2>1, <2>6
<1> HIDE DEF S
<1>4. Nat \subseteq S
  BY <1>2, <1>3, SetInduction
<1>5. j - i \in Nat /\ i + (j - i) = j
  OBVIOUS
<1>6. Q(i) <= Q(i + (j - i))
  BY <1>4, <1>5 DEF S
<1>. QED
  BY <1>5, <1>6 DEF Q

(* debug_puti gives the numeral: it counts as many digits as the number    *)
(* needs, and what it has divided away when it stores a digit is exactly   *)
(* the digits behind it.                                                   *)
LEMMA NumeralIs ==
  ASSUME NEW n \in Number, NEW base \in {2, 10, 16}
  PROVE  puti(n, base) = Numeral(n, base)
<1> DEFINE Q(k) == Power(base, k)
           A(k) == After(n, base)[k]
           c    == Counted(n, base)
           P(l) == n < Q(l) /\ (l = 1 \/ Q(l - 1) <= n)
           len  == CHOOSE l \in 1 .. Width : P(l)
           text == [k \in 1 .. len |-> Digit((n \div Q(len - k)) % base)]
<1>1. /\ n \in Nat /\ Width \in Nat \ {0, 1} /\ c \in 0 .. Width
      /\ A(c) = 0 /\ (c = 0 \/ A(c - 1) # 0)
  BY CountedIs, DebugAssumption
<1>2. Q(0) = 1
  <2>1. base \in Nat
    OBVIOUS
  <2>. QED
    BY <2>1, PowerIs
<1>3. \A k \in Nat : Q(k) \in Nat \ {0} /\ A(k) = n \div Q(k)
  BY ZenonT(30), <1>1, AfterDivides
<1>4. \A i, j \in Nat : i <= j => Q(i) <= Q(j)
  BY PowersGrow
<1>5. Numeral(n, base) = text
  BY DEF Numeral
<1>6. A(0) = n
  BY <1>1, AfterIs
<1> HIDE DEF Q, A, c
<1>7. \A k \in Nat : A(k) = 0 <=> n < Q(k)
  <2> SUFFICES ASSUME NEW k \in Nat PROVE A(k) = 0 <=> n < Q(k)
    OBVIOUS
  <2> DEFINE q == Q(k)
  <2>1. q \in Nat \ {0} /\ A(k) = n \div q
    BY <1>3
  <2> HIDE DEF q
  <2>2. n \div q = 0 <=> n < q
    BY <2>1, <1>1, SMT
  <2>. QED
    BY <2>1, <2>2 DEF q
<1>8. \A l, m \in 1 .. Width : P(l) /\ P(m) => l = m
  <2> SUFFICES ASSUME NEW l \in 1 .. Width, NEW m \in 1 .. Width, P(l), P(m), l < m PROVE FALSE
    BY <1>1
  <2>1. l \in Nat /\ m - 1 \in Nat /\ l <= m - 1 /\ m # 1
    BY <1>1
  <2>2. Q(l) <= Q(m - 1) /\ Q(l) \in Nat /\ Q(m - 1) \in Nat
    BY <2>1, <1>3, <1>4
  <2>3. n < Q(l) /\ Q(m - 1) <= n
    BY <2>1
  <2>. QED
    BY <2>2, <2>3, <1>1
<1>9. CASE n = 0
  <2>1. 1 \in 1 .. Width /\ P(1)
    <3>1. Q(1) \in Nat \ {0} /\ 1 \in 1 .. Width
      BY <1>1, <1>3
    <3>. QED
      BY <3>1, <1>9
  <2> HIDE DEF P
  <2>2. len = 1
    BY <2>1, <1>8
  <2> HIDE DEF len
  <2>3. text = <<Digit((n \div Q(0)) % base)>>
    <3>1. 1 - 1 = 0
      OBVIOUS
    <3>. QED
      BY <2>2, <3>1
  <2>4. (n \div Q(0)) % base = 0
    BY <1>2, <1>9
  <2>5. Digit(0) = 48
    BY DEF Digit
  <2>. QED
    BY <2>3, <2>4, <2>5, <1>5, <1>9 DEF puti
<1>10. CASE n # 0
  <2>1. c \in 1 .. Width /\ c - 1 \in Nat
    <3>1. c # 0
      BY <1>1, <1>6, <1>10
    <3>. QED
      BY <3>1, <1>1
  <2>2. P(c)
    <3>1. n < Q(c)
      BY <2>1, <1>1, <1>7
    <3>2. ~(n < Q(c - 1)) /\ Q(c - 1) \in Nat
      BY <2>1, <1>1, <1>3, <1>7
    <3>. QED
      BY <3>1, <3>2, <1>1
  <2> HIDE DEF P
  <2>3. len = c
    BY <2>1, <2>2, <1>8
  <2> HIDE DEF len
  <2>4. text = [k \in 1 .. c |-> Digit(A(c - k) % base)]
    <3>1. \A k \in 1 .. c : c - k \in Nat
      BY <2>1
    <3>. QED
      BY <2>3, <3>1, <1>3
  <2>5. puti(n, base) = [k \in 1 .. c |-> Digit(A(c - k) % base)]
    BY <1>10 DEF puti, DigitStored, A, c
  <2>. QED
    BY <2>4, <2>5, <1>5
<1>. QED
  BY <1>9, <1>10

-----------------------------------------------------------------------------
(* What a careful call asks for, piece by piece of its format.             *)

(* What a piece of a call's format gives.                                  *)
PieceTexts(call) ==
  LET format == Formats[call.format]
      arg(k) == call.args[ArgIndex(format, k)]
  IN  [k \in DOMAIN format |->
        IF TakesArg(format[k]) THEN PieceText(format[k], arg(k)) ELSE PieceText(format[k], NUL)]

(* What the first k pieces of a call's format give.                        *)
Given(call, k) == FlattenSeq(SubSeq(PieceTexts(call), 1, k))

(* A careful call passes every argument there is a conversion for.         *)
LEMMA CarefulCalls ==
  ASSUME NEW call \in Careful
  PROVE  LET format == Formats[call.format]
         IN  /\ call \in Calls /\ call.format \in DOMAIN Formats
             /\ format \in Seq(Seq(Byte)) /\ Len(format) \in Nat
             /\ DOMAIN format = 1 .. Len(format)
             /\ Len(call.args) \in Nat /\ Len(call.args) = ArgIndex(format, Len(format))
             /\ \A k \in 1 .. Len(format) : TakesArg(format[k]) =>
                  /\ ArgIndex(format, k) \in 1 .. Len(call.args)
                  /\ Typed(format[k], call.args[ArgIndex(format, k)])
<1> DEFINE format == Formats[call.format]
           n == Len(format)
           A(k) == ArgIndex(format, k)
<1>1. /\ call \in Calls /\ Len(call.args) = A(n)
      /\ call.format \in DOMAIN Formats /\ Passes(format, call.args)
  BY DebugAssumption DEF Careful, Complete
<1>2. format \in Seq(Seq(Byte)) /\ n \in Nat /\ DOMAIN format = 1 .. n
  BY <1>1, FormatsTyped
<1>3. /\ A(0) = 0 /\ \A k \in 0 .. n : A(k) \in Nat
      /\ \A k \in 1 .. n : A(k) = IF TakesArg(format[k]) THEN A(k - 1) + 1 ELSE A(k - 1)
  BY <1>1, ArgIndexIs
<1>4. \A k \in 0 .. n : A(k) <= A(n)
  <2> SUFFICES ASSUME NEW k \in 0 .. n PROVE A(k) <= A(n)
    OBVIOUS
  <2> DEFINE S(j) == {i \in 1 .. j : TakesArg(format[i])}
  <2>1. IsFiniteSet(S(n)) /\ S(k) \subseteq S(n)
    <3>1. IsFiniteSet(1 .. n)
      BY <1>2, FS_Interval
    <3>2. S(n) \subseteq 1 .. n
      OBVIOUS
    <3>3. S(k) \subseteq S(n)
      BY <1>2
    <3>. QED
      BY <3>1, <3>2, <3>3, FS_Subset
  <2>2. A(k) = Cardinality(S(k)) /\ A(n) = Cardinality(S(n))
    BY DEF ArgIndex
  <2> HIDE DEF S, A
  <2>. QED
    BY <2>1, <2>2, FS_Subset
<1> HIDE DEF A
<1>5. ASSUME NEW k \in 1 .. n, TakesArg(format[k])
      PROVE  A(k) \in 1 .. Len(call.args) /\ Typed(format[k], call.args[A(k)])
  <2>1. k \in 0 .. n /\ k - 1 \in 0 .. n /\ n \in 0 .. n
    BY <1>2
  <2>2. A(k) = A(k - 1) + 1 /\ A(k) \in Nat /\ A(k - 1) \in Nat /\ A(n) \in Nat /\ A(k) <= A(n)
    BY <2>1, <1>3, <1>4, <1>5
  <2>3. A(k) \in 1 .. Len(call.args) /\ A(k) <= Len(call.args)
    BY <2>2, <1>1
  <2>4. Typed(format[k], call.args[A(k)])
    BY <2>3, <1>1, <1>2, <1>5 DEF Passes, A
  <2>. QED
    BY <2>3, <2>4
<1>6. n \in 0 .. n
  BY <1>2
<1>. QED
  BY <1>1, <1>2, <1>3, <1>5, <1>6 DEF A

(* What a piece gives, by the character after its %.                       *)
LEMMA PieceTextIs ==
  ASSUME NEW piece, NEW arg
  PROVE  /\ Len(piece) = 1 => PieceText(piece, arg) = piece
         /\ Len(piece) = 2 /\ piece[2] \in DOMAIN Base =>
              PieceText(piece, arg) = Numeral(arg, Base[piece[2]])
         /\ Len(piece) = 2 /\ piece[2] = Str => PieceText(piece, arg) = arg
         /\ Len(piece) = 2 /\ piece[2] = Chr => PieceText(piece, arg) = <<arg % 256>>
         /\ Len(piece) = 2 /\ piece[2] \notin DOMAIN Base \cup {Str, Chr} =>
              PieceText(piece, arg) = IF piece[2] = Percent THEN <<Percent>> ELSE <<>>
<1> DEFINE letter == piece[2]
           len    == Len(piece)
           number == Numeral(arg, Base[letter])
           char   == <<arg % 256>>
           other  == <<Percent>>
<1>1. DOMAIN Base = {98, 100, 120}
  BY Bases
<1>2. PieceText(piece, arg) =
        IF len = 1 THEN piece
        ELSE CASE letter = Percent      -> other
               [] letter \in DOMAIN Base -> number
               [] letter = Str          -> arg
               [] letter = Chr          -> char
               [] OTHER                 -> <<>>
  BY DEF PieceText
<1> HIDE DEF letter, len, number, char, other
<1>3. /\ len = 1 => PieceText(piece, arg) = piece
      /\ len = 2 /\ letter \in DOMAIN Base => PieceText(piece, arg) = number
      /\ len = 2 /\ letter = Str => PieceText(piece, arg) = arg
      /\ len = 2 /\ letter = Chr => PieceText(piece, arg) = char
      /\ len = 2 /\ letter \notin DOMAIN Base \cup {Str, Chr} =>
           PieceText(piece, arg) = IF letter = Percent THEN other ELSE <<>>
  <2>1. CASE len = 1
    <3>1. PieceText(piece, arg) = piece
      BY <2>1, <1>2
    <3>. QED
      BY <2>1, <3>1
  <2>2. CASE len # 1 /\ letter = Percent
    BY <2>2, <1>1, <1>2 DEF Percent, Str, Chr
  <2>3. CASE len # 1 /\ letter \in DOMAIN Base
    BY <2>3, <1>1, <1>2 DEF Percent, Str, Chr
  <2>4. CASE len # 1 /\ letter = Str
    BY <2>4, <1>1, <1>2 DEF Percent, Str, Chr
  <2>5. CASE len # 1 /\ letter = Chr
    BY <2>5, <1>1, <1>2 DEF Percent, Str, Chr
  <2>6. CASE len # 1 /\ letter \notin DOMAIN Base \cup {Str, Chr, Percent}
    BY <2>6, <1>2
  <2>. QED
    BY <2>1, <2>2, <2>3, <2>4, <2>5, <2>6
<1>. QED
  BY <1>3 DEF letter, len, number, char, other

(* The text of a careful call is put together from what its pieces give.   *)
LEMMA TextIs ==
  ASSUME NEW call \in Careful
  PROVE  LET n == Len(Formats[call.format])
         IN  /\ PieceTexts(call) \in Seq(Seq(Byte)) /\ Len(PieceTexts(call)) = n
             /\ Texts[call] = FlattenSeq(PieceTexts(call))
<1> DEFINE format == Formats[call.format]
           n == Len(format)
           A(k) == ArgIndex(format, k)
<1>1. /\ call \in Calls /\ call.format \in DOMAIN Formats
      /\ format \in Seq(Seq(Byte)) /\ n \in Nat /\ DOMAIN format = 1 .. n
      /\ \A k \in 1 .. n : TakesArg(format[k]) => Typed(format[k], call.args[A(k)])
  BY CarefulCalls
<1>2. Texts[call] = FlattenSeq(PieceTexts(call))
  BY <1>1 DEF Texts, Text, PieceTexts
<1>3. ASSUME NEW k \in 1 .. n PROVE PieceTexts(call)[k] \in Seq(Byte)
  <2> DEFINE piece == format[k]
             arg   == IF TakesArg(piece) THEN call.args[A(k)] ELSE NUL
  <2>1. PieceTexts(call)[k] = PieceText(piece, arg)
    BY <1>1 DEF PieceTexts
  <2>2. piece \in Seq(Byte)
    BY <1>1, ElementOfSeq
  <2>3. Len(piece) = 1 \/ Len(piece) = 2
    BY <1>1, FormatsTyped DEF IsPiece
  <2>4. <<Percent>> \in Seq(Byte) /\ <<>> \in Seq(Byte)
    BY DEF Percent, Byte
  <2>5. CASE Len(piece) = 2 /\ piece[2] \in DOMAIN Base
    <3>1. TakesArg(piece) /\ arg \in Number
      BY <2>5, <1>1 DEF TakesArg, Typed
    <3>2. Base[piece[2]] \in {2, 10, 16}
      BY <2>5, Bases
    <3>. QED
      BY <3>1, <3>2, <2>1, <2>5, PieceTextIs, NumeralIs, DigitsAreBytes
  <2>6. CASE Len(piece) = 2 /\ piece[2] = Str
    <3>1. TakesArg(piece) /\ arg \in Seq(Byte)
      BY <2>6, <1>1 DEF TakesArg, Typed
    <3>. QED
      BY <3>1, <2>1, <2>6, PieceTextIs
  <2>7. CASE Len(piece) = 2 /\ piece[2] = Chr
    <3>1. TakesArg(piece) /\ arg \in Nat
      BY <2>7, <1>1 DEF TakesArg, Typed
    <3> HIDE DEF arg
    <3>2. arg % 256 \in Byte
      BY <3>1 DEF Byte
    <3>3. <<arg % 256>> \in Seq(Byte)
      BY <3>2
    <3> HIDE DEF piece
    <3>4. PieceText(piece, arg) = <<arg % 256>>
      BY <2>7, PieceTextIs
    <3>. QED
      BY <3>3, <3>4, <2>1
  <2>8. CASE Len(piece) = 1
    <3> HIDE DEF piece, arg
    <3>. QED
      BY <2>8, <2>1, <2>2, PieceTextIs
  <2>9. CASE Len(piece) = 2 /\ piece[2] \notin DOMAIN Base \cup {Str, Chr}
    <3> HIDE DEF piece, arg
    <3>. QED
      <4>1. PieceText(piece, arg) = IF piece[2] = Percent THEN <<Percent>> ELSE <<>>
        BY <2>9, PieceTextIs
      <4>2. PieceText(piece, arg) = <<Percent>> \/ PieceText(piece, arg) = <<>>
        BY <4>1
      <4>. QED
        BY <4>2, <2>1, <2>4
  <2>. QED
    BY <2>3, <2>5, <2>6, <2>7, <2>8, <2>9
<1>4. PieceTexts(call) = [k \in 1 .. n |-> PieceTexts(call)[k]]
  BY <1>1 DEF PieceTexts
<1>5. PieceTexts(call) \in [1 .. n -> Seq(Byte)]
  BY <1>3, <1>4
<1> HIDE DEF n
<1>6. PieceTexts(call) \in Seq(Seq(Byte)) /\ Len(PieceTexts(call)) = n
  BY <1>1, <1>5
<1>. QED
  BY <1>2, <1>6 DEF n

(* What is given so far: nothing, then a piece more, in the end the text.  *)
LEMMA GivenIs ==
  ASSUME NEW call \in Careful
  PROVE  LET n == Len(Formats[call.format])
         IN  /\ Given(call, 0) = <<>>
             /\ Given(call, n) = Texts[call]
             /\ \A k \in 0 .. n : Given(call, k) \in Seq(Byte)
             /\ \A k \in 1 .. n : Given(call, k) = Given(call, k - 1) \o PieceTexts(call)[k]
<1>1. /\ PieceTexts(call) \in Seq(Seq(Byte))
      /\ Len(PieceTexts(call)) = Len(Formats[call.format])
      /\ Texts[call] = FlattenSeq(PieceTexts(call))
  BY TextIs
<1>. QED
  BY <1>1, FlattenUpTo DEF Given

(* A careful call's text is its beginning and a rest.                      *)
LEMMA GivenBegins ==
  ASSUME NEW call \in Careful, NEW k \in 0 .. Len(Formats[call.format])
  PROVE  \E rest \in Seq(Byte) : Texts[call] = Given(call, k) \o rest
<1> DEFINE n == Len(Formats[call.format])
           G(j) == Given(call, j)
           S == {l \in Nat : l \in k .. n => \E rest \in Seq(Byte) : G(l) = G(k) \o rest}
<1>1. n \in Nat /\ k \in 0 .. n
  BY CarefulCalls
<1>2. \A j \in 1 .. n : PieceTexts(call)[j] \in Seq(Byte)
  BY TextIs, ElementOfSeq
<1>3. /\ G(n) = Texts[call] /\ \A j \in 0 .. n : G(j) \in Seq(Byte)
      /\ \A j \in 1 .. n : G(j) = G(j - 1) \o PieceTexts(call)[j]
  BY GivenIs
<1> HIDE DEF G, n
<1>4. \E rest \in Seq(Byte) : G(k) = G(k) \o rest
  <2>1. <<>> \in Seq(Byte) /\ G(k) = G(k) \o <<>>
    BY <1>1, <1>3, EmptySeq, ConcatEmptySeq
  <2>. QED
    BY <2>1
<1>5. 0 \in S
  BY <1>1, <1>4
<1>6. ASSUME NEW l \in Nat, l \in S PROVE l + 1 \in S
  <2>1. PICK m \in Nat : m = l + 1
    OBVIOUS
  <2>2. ASSUME m \in k .. n, m # k
        PROVE  \E rest \in Seq(Byte) : G(m) = G(k) \o rest
    <3>1. l \in k .. n /\ m \in 1 .. n /\ m - 1 = l /\ l \in 0 .. n /\ k \in 0 .. n
      BY <1>1, <2>1, <2>2
    <3>2. PICK rest \in Seq(Byte) : G(l) = G(k) \o rest
      BY <3>1, <1>6
    <3>3. PICK more \in Seq(Byte) : G(m) = G(l) \o more
      <4>1. G(m) = G(m - 1) \o PieceTexts(call)[m]
        BY <3>1, <1>3
      <4>. QED
        BY <4>1, <3>1, <1>2
    <3>4. (G(k) \o rest) \o more = G(k) \o (rest \o more) /\ rest \o more \in Seq(Byte)
      <4>1. G(k) \in Seq(Byte)
        BY <3>1, <1>3
      <4>. QED
        BY SMTT(30), <4>1, ConcatAssociative, ConcatProperties
    <3>. QED
      BY <3>2, <3>3, <3>4
  <2>3. m \in k .. n => \E rest \in Seq(Byte) : G(m) = G(k) \o rest
    BY <1>4, <2>2
  <2>. QED
    BY <2>1, <2>3
<1> HIDE DEF S
<1>7. n \in S /\ n \in k .. n
  BY <1>1, <1>5, <1>6, SetInduction
<1>8. \E rest \in Seq(Byte) : G(n) = G(k) \o rest
  BY <1>7 DEF S
<1>. QED
  BY <1>3, <1>8 DEF G

(* How many of the calls h there are before the first that has no meaning. *)
CarefulUpTo(h) ==
  LET careless == {k \in DOMAIN h : h[k] \notin Careful}
  IN  IF careless = {} THEN Len(h)
      ELSE (CHOOSE k \in careless : \A j \in careless : k <= j) - 1

TextsOf(h, n) == [k \in 1 .. n |-> Texts[h[k]]]

AllCareful(h) == \A k \in DOMAIN h : h[k] \in Careful

(* What is meant by the calls h: the texts of those.                       *)
MeantBy(h) == FlattenSeq(TextsOf(h, CarefulUpTo(h)))

(* That is what Meant says of the calls made.                              *)
LEMMA MeantIs == Meant = MeantBy(history) /\ Meant' = MeantBy(history')
<1>1. Meant = MeantBy(history)
  BY DEF Meant, MeantBy, TextsOf, CarefulUpTo
<1>2. Meant' = MeantBy(history')
  BY DEF Meant, MeantBy, TextsOf, CarefulUpTo
<1>. QED
  BY <1>1, <1>2

(* There is one such number.                                               *)
LEMMA UpToIs ==
  ASSUME NEW h \in Seq(Calls)
  PROVE  /\ CarefulUpTo(h) \in 0 .. Len(h) /\ Len(h) \in Nat /\ DOMAIN h = 1 .. Len(h)
         /\ \A k \in 1 .. CarefulUpTo(h) : h[k] \in Careful
         /\ AllCareful(h) => CarefulUpTo(h) = Len(h)
         /\ \A u \in 0 .. Len(h) - 1 :
              (\A k \in 1 .. u : h[k] \in Careful) /\ h[u + 1] \notin Careful => CarefulUpTo(h) = u
         /\ ~ AllCareful(h) => /\ CarefulUpTo(h) \in 0 .. Len(h) - 1
                               /\ h[CarefulUpTo(h) + 1] \notin Careful
<1> DEFINE n == Len(h)
           U == CarefulUpTo(h)
           C == {k \in 1 .. n : h[k] \notin Careful}
           least == CHOOSE k \in C : \A j \in C : k <= j
<1>1. n \in Nat /\ DOMAIN h = 1 .. n
  BY LenProperties
<1>2. U = IF C = {} THEN n ELSE least - 1
  BY <1>1 DEF CarefulUpTo
<1>3. AllCareful(h) <=> C = {}
  BY <1>1 DEF AllCareful
<1>4. ASSUME C # {} PROVE least \in C /\ \A j \in C : least <= j
  <2>1. C \subseteq Nat
    BY <1>1
  <2> HIDE DEF C
  <2>2. \E k \in C : \A j \in C : k <= j
    BY <2>1, <1>4, LeastElement
  <2>. QED
    BY <2>2
<1> HIDE DEF least, n, U
<1> DEFINE All == /\ U \in 0 .. n
                  /\ \A k \in 1 .. U : h[k] \in Careful
                  /\ AllCareful(h) => U = n
                  /\ \A u \in 0 .. n - 1 :
                       (\A k \in 1 .. u : h[k] \in Careful) /\ h[u + 1] \notin Careful => U = u
                  /\ ~ AllCareful(h) => U \in 0 .. n - 1 /\ h[U + 1] \notin Careful
<1>5. ASSUME C = {} PROVE All
  <2>1. U = n /\ AllCareful(h) /\ \A k \in 1 .. n : h[k] \in Careful
    BY <1>2, <1>3, <1>5
  <2>2. n \in 0 .. n /\ \A u \in 0 .. n - 1 : u + 1 \in 1 .. n
    BY <1>1
  <2>. QED
    BY <2>1, <2>2
<1>6. ASSUME C # {} PROVE All
  <2> DEFINE u == least - 1
  <2>1. least \in 1 .. n /\ h[least] \notin Careful /\ \A j \in 1 .. n : j < least => h[j] \in Careful
    BY <1>1, <1>4, <1>6
  <2>2. /\ u \in 0 .. n - 1 /\ u + 1 = least /\ u \in 0 .. n
        /\ \A k \in 1 .. u : k \in 1 .. n /\ k < least
    BY <2>1, <1>1
  <2>3. ASSUME NEW v \in 0 .. n - 1, \A k \in 1 .. v : h[k] \in Careful, h[v + 1] \notin Careful
        PROVE  u = v
    <3>1. v + 1 \in C
      BY <2>3, <1>1
    <3>2. least <= v + 1
      BY <3>1, <1>4
    <3>3. ~(least <= v)
      <4>1. least <= v => least \in 1 .. v
        BY <2>1, <1>1
      <4>. QED
        BY <4>1, <2>1, <2>3
    <3>. QED
      BY <3>2, <3>3, <2>1, <1>1
  <2>4. U = u /\ ~ AllCareful(h)
    BY <1>2, <1>3, <1>6
  <2> HIDE DEF u
  <2>5. \A k \in 1 .. u : h[k] \in Careful
    BY <2>1, <2>2
  <2>6. h[u + 1] \notin Careful
    BY <2>1, <2>2
  <2>. QED
    BY <2>2, <2>3, <2>4, <2>5, <2>6
<1>7. All
  BY <1>5, <1>6
<1>. QED
  BY <1>1, <1>7 DEF n, U

(* Texts of careful calls are made of bytes.                               *)
LEMMA TextsTyped ==
  ASSUME NEW h, NEW n \in Nat, \A k \in 1 .. n : h[k] \in Careful
  PROVE  /\ TextsOf(h, n) \in Seq(Seq(Byte)) /\ Len(TextsOf(h, n)) = n
         /\ FlattenSeq(TextsOf(h, n)) \in Seq(Byte)
<1>1. \A call \in Careful : Texts[call] \in Seq(Byte)
  <2> SUFFICES ASSUME NEW call \in Careful PROVE Texts[call] \in Seq(Byte)
    OBVIOUS
  <2>1. /\ Given(call, Len(Formats[call.format])) = Texts[call]
        /\ \A k \in 0 .. Len(Formats[call.format]) : Given(call, k) \in Seq(Byte)
    BY GivenIs
  <2> DEFINE m == Len(Formats[call.format])
  <2>2. m \in Nat
    BY CarefulCalls
  <2> HIDE DEF m
  <2>3. m \in 0 .. m
    BY <2>2
  <2>. QED
    BY <2>1, <2>3 DEF m
<1>2. TextsOf(h, n) \in [1 .. n -> Seq(Byte)]
  BY <1>1 DEF TextsOf
<1>3. TextsOf(h, n) \in Seq(Seq(Byte)) /\ Len(TextsOf(h, n)) = n
  BY <1>2
<1> DEFINE t == TextsOf(h, n)
<1> HIDE DEF t
<1>4. t \in Seq(Seq(Byte)) /\ Len(t) \in Nat
  BY <1>3, LenProperties DEF t
<1>5. FlattenSeq(SubSeq(t, 1, Len(t))) \in Seq(Byte)
      /\ FlattenSeq(SubSeq(t, 1, Len(t))) = FlattenSeq(t)
  <2> DEFINE m == Len(t)
  <2>1. m \in 0 .. m
    BY <1>4
  <2> HIDE DEF m
  <2>2. /\ \A k \in 0 .. m : FlattenSeq(SubSeq(t, 1, k)) \in Seq(Byte)
        /\ FlattenSeq(SubSeq(t, 1, m)) = FlattenSeq(t)
    BY <1>4, FlattenUpTo DEF m
  <2>. QED
    BY <2>1, <2>2 DEF m
<1>. QED
  BY <1>3, <1>5 DEF t

(* One text more.                                                          *)
LEMMA FlattenMore ==
  ASSUME NEW s \in Seq(Seq(Byte)), NEW t \in Seq(Byte)
  PROVE  FlattenSeq(Append(s, t)) = FlattenSeq(s) \o t
<1> DEFINE n == Len(s)
           r == Append(s, t)
<1>1. n \in Nat /\ r \in Seq(Seq(Byte)) /\ Len(r) = n + 1 /\ r[n + 1] = t
      /\ \A i \in 1 .. n : r[i] = s[i]
  BY LenProperties, AppendProperties
<1> HIDE DEF r
<1>2. SubSeq(r, 1, n) = s
  <2>1. \A i \in 1 .. n : r[i] \in Seq(Byte)
    BY <1>1, ElementOfSeq
  <2>2. /\ SubSeq(r, 1, n) \in Seq(Seq(Byte))
        /\ Len(SubSeq(r, 1, n)) = IF 1 <= n THEN n - 1 + 1 ELSE 0
        /\ \A i \in 1 .. n - 1 + 1 : SubSeq(r, 1, n)[i] = r[1 + i - 1]
    BY <2>1, <1>1, SubSeqProperties
  <2> DEFINE q == SubSeq(r, 1, n)
             m == Len(q)
  <2> HIDE DEF q
  <2>3. m = n
    <3>1. m = IF 1 <= n THEN n - 1 + 1 ELSE 0
      BY <2>2 DEF q
    <3> HIDE DEF m, n
    <3>. QED
      BY <3>1, <1>1 DEF n
  <2>4. \A i \in 1 .. n : q[i] = s[i]
    <3>1. \A i \in 1 .. n : i \in 1 .. n - 1 + 1 /\ 1 + i - 1 = i
      BY <1>1
    <3>. QED
      BY <3>1, <2>2, <1>1 DEF q
  <2>5. q \in Seq(Seq(Byte))
    BY <2>2 DEF q
  <2>6. q = s
    BY <2>3, <2>4, <2>5, SeqEqual
  <2>. QED
    BY <2>6 DEF q
<1>3. /\ FlattenSeq(SubSeq(r, 1, Len(r))) = FlattenSeq(r)
      /\ \A k \in 1 .. Len(r) :
           FlattenSeq(SubSeq(r, 1, k)) = FlattenSeq(SubSeq(r, 1, k - 1)) \o r[k]
  BY <1>1, FlattenUpTo
<1> DEFINE F(k) == FlattenSeq(SubSeq(r, 1, k))
<1>4. F(n + 1) = FlattenSeq(r) /\ \A k \in 1 .. n + 1 : F(k) = F(k - 1) \o r[k]
  BY <1>1, <1>3
<1>5. F(n) = FlattenSeq(s)
  BY <1>2
<1> HIDE DEF F, n
<1>6. n + 1 \in 1 .. n + 1 /\ n + 1 - 1 = n
  BY <1>1
<1>. QED
  <2>1. PICK m \in 1 .. n + 1 : m = n + 1 /\ m - 1 = n
    BY <1>1, <1>6
  <2>2. F(m) = F(m - 1) \o r[m]
    BY <2>1, <1>4
  <2>3. F(n + 1) = F(n) \o t
    BY <2>1, <2>2, <1>1
  <2>. QED
    BY <2>3, <1>4, <1>5 DEF r

(* A call more: what is meant grows by its text when all calls are         *)
(* careful, and not at all from the first on that is not.                  *)
LEMMA MeantGrows ==
  ASSUME NEW h \in Seq(Calls), NEW call \in Calls, NEW g, g = Append(h, call)
  PROVE  /\ AllCareful(g) <=> AllCareful(h) /\ call \in Careful
         /\ AllCareful(g) => MeantBy(g) = MeantBy(h) \o Texts[call]
         /\ ~ AllCareful(g) => MeantBy(g) = MeantBy(h)
<1> DEFINE n == Len(h)
           u == CarefulUpTo(h)
           v == CarefulUpTo(g)
<1>1. /\ g \in Seq(Calls) /\ Len(g) = n + 1 /\ n \in Nat /\ g[n + 1] = call
      /\ \A k \in 1 .. n : g[k] = h[k]
      /\ DOMAIN h = 1 .. n /\ DOMAIN g = 1 .. n + 1
  BY AppendProperties, LenProperties
<1>2. /\ u \in 0 .. n /\ \A k \in 1 .. u : h[k] \in Careful
      /\ AllCareful(h) => u = n
      /\ ~ AllCareful(h) => u \in 0 .. n - 1 /\ h[u + 1] \notin Careful
  BY UpToIs
<1>3. /\ \A k \in 1 .. v : g[k] \in Careful
      /\ AllCareful(g) => v = n + 1
      /\ \A m \in 0 .. n :
           (\A k \in 1 .. m : g[k] \in Careful) /\ g[m + 1] \notin Careful => v = m
  <2> DEFINE l == Len(g)
  <2>1. /\ \A k \in 1 .. v : g[k] \in Careful
        /\ AllCareful(g) => v = l
        /\ \A i \in 0 .. l - 1 :
             (\A k \in 1 .. i : g[k] \in Careful) /\ g[i + 1] \notin Careful => v = i
    BY <1>1, UpToIs
  <2>2. l = n + 1 /\ n \in Nat
    BY <1>1
  <2> HIDE DEF l, v, n
  <2>3. \A i \in 0 .. n : i \in 0 .. l - 1
    BY <2>2
  <2>. QED
    BY <2>1, <2>2, <2>3
<1>4. MeantBy(h) = FlattenSeq(TextsOf(h, u)) /\ MeantBy(g) = FlattenSeq(TextsOf(g, v))
  BY DEF MeantBy
<1> HIDE DEF n, u, v
<1>5. AllCareful(g) <=> AllCareful(h) /\ call \in Careful
  BY <1>1 DEF AllCareful
<1>6. ASSUME AllCareful(g) PROVE MeantBy(g) = MeantBy(h) \o Texts[call]
  <2>1. u = n /\ v = n + 1
    BY <1>2, <1>3, <1>5, <1>6
  <2>2. \A k \in 1 .. n + 1 : g[k] \in Careful
    BY <1>1, <1>6 DEF AllCareful
  <2> DEFINE s == TextsOf(h, n)
             t == Texts[call]
  <2>3. s \in Seq(Seq(Byte)) /\ Len(s) = n /\ TextsOf(g, n + 1) \in Seq(Seq(Byte))
        /\ Len(TextsOf(g, n + 1)) = n + 1
    <3>1. n \in Nat /\ n + 1 \in Nat /\ \A k \in 1 .. n : h[k] \in Careful
      BY <2>1, <1>1, <1>2
    <3>. QED
      BY <3>1, <2>2, TextsTyped
  <2>4. t \in Seq(Byte)
    <3>1. n + 1 \in 1 .. n + 1
      BY <1>1
    <3>2. TextsOf(g, n + 1)[n + 1] = t
      BY <3>1, <1>1 DEF TextsOf
    <3>. QED
      BY <3>1, <3>2, <2>3, ElementOfSeq
  <2>5. TextsOf(g, n + 1) = Append(s, t)
    <3>1. Append(s, t) \in Seq(Seq(Byte)) /\ Len(Append(s, t)) = n + 1
          /\ Append(s, t)[n + 1] = t /\ \A i \in 1 .. n : Append(s, t)[i] = s[i]
      BY <2>3, <2>4, AppendProperties
    <3>2. \A i \in 1 .. n + 1 : TextsOf(g, n + 1)[i] = Append(s, t)[i]
      <4>1. \A i \in 1 .. n : TextsOf(g, n + 1)[i] = s[i]
        BY <1>1 DEF TextsOf
      <4>2. TextsOf(g, n + 1)[n + 1] = t
        BY <1>1 DEF TextsOf
      <4>. QED
        BY <4>1, <4>2, <3>1, <1>1
    <3> HIDE DEF s, t
    <3>. QED
      BY <3>1, <3>2, <2>3, SeqEqual
  <2> HIDE DEF s, t
  <2>6. FlattenSeq(Append(s, t)) = FlattenSeq(s) \o t
    BY <2>3, <2>4, FlattenMore
  <2>. QED
    BY <2>1, <2>5, <2>6, <1>4 DEF s, t
<1>7. ASSUME ~ AllCareful(g) PROVE MeantBy(g) = MeantBy(h)
  <2>1. u \in 0 .. n /\ g[u + 1] \notin Careful /\ \A k \in 1 .. u : g[k] = h[k] /\ g[k] \in Careful
    <3>1. CASE AllCareful(h)
      <4>1. u = n /\ call \notin Careful
        BY <3>1, <1>2, <1>5, <1>7
      <4>. QED
        BY <4>1, <1>1, <1>2
    <3>2. CASE ~ AllCareful(h)
      BY <3>2, <1>1, <1>2
    <3>. QED
      BY <3>1, <3>2
  <2>3. v = u
    BY <2>1, <1>3
  <2>4. TextsOf(g, u) = TextsOf(h, u)
    BY <2>1 DEF TextsOf
  <2>. QED
    BY <2>3, <2>4, <1>4
<1>. QED
  BY <1>5, <1>6, <1>7

(* Nothing is meant before the first call.                                 *)
LEMMA MeantTyped ==
  ASSUME history \in Seq(Calls)
  PROVE  /\ Meant \in Seq(Byte)
         /\ history = <<>> => Meant = <<>> /\ AllCareful(history)
<1> DEFINE u == CarefulUpTo(history)
<1>1. /\ u \in 0 .. Len(history) /\ Len(history) \in Nat /\ DOMAIN history = 1 .. Len(history)
      /\ \A k \in 1 .. u : history[k] \in Careful
  BY UpToIs
<1>2. Meant = FlattenSeq(TextsOf(history, u))
  BY MeantIs DEF MeantBy
<1>3. u \in Nat
  BY <1>1
<1> HIDE DEF u
<1>4. /\ FlattenSeq(TextsOf(history, u)) \in Seq(Byte)
      /\ TextsOf(history, u) \in Seq(Seq(Byte)) /\ Len(TextsOf(history, u)) = u
  BY <1>1, <1>3, TextsTyped
<1>5. ASSUME history = <<>> PROVE Meant = <<>> /\ AllCareful(history)
  <2>1. Len(history) = 0 /\ u = 0
    BY <1>1, <1>5, EmptySeq
  <2>2. TextsOf(history, u) = <<>>
    BY <2>1, <1>4
  <2>3. FlattenSeq(<<>>) = <<>>
    BY DEF FlattenSeq
  <2>4. AllCareful(history)
    BY <2>1, <1>1 DEF AllCareful
  <2>. QED
    BY <2>2, <2>3, <2>4, <1>2
<1>. QED
  BY <1>2, <1>4, <1>5

(* What can be on the line.                                                *)
Char == 0 .. Garbled

(* The line without the test byte that may be first on it.                 *)
Untested(s) == IF s # <<>> /\ Head(s) = TestByte THEN Tail(s) ELSE s

(* What debug_putc has brought to the port, sent or not.                   *)
Body == Untested(line \o uart.fifo)

(* A character more on the line.                                           *)
LEMMA UntestedMore ==
  ASSUME NEW s \in Seq(Char), NEW c \in Char
  PROVE  /\ Untested(s) \in Seq(Char)
         /\ s = <<>> => Untested(s) = <<>>
         /\ s = <<>> /\ c = TestByte => Untested(Append(s, c)) = <<>>
         /\ s # <<>> \/ c # TestByte => Untested(Append(s, c)) = Append(Untested(s), c)
<1>1. Untested(s) \in Seq(Char)
  <2>1. s # <<>> => Tail(s) \in Seq(Char)
    BY HeadTailProperties
  <2>. QED
    BY <2>1 DEF Untested
<1>2. /\ Append(s, c) # <<>>
      /\ Head(Append(s, c)) = IF s = <<>> THEN c ELSE Head(s)
      /\ Tail(Append(s, c)) = IF s = <<>> THEN <<>> ELSE Append(Tail(s), c)
  BY AppendProperties, HeadTailAppend
<1>. QED
  BY <1>1, <1>2 DEF Untested

(* Characters behind the first one on the line.                            *)
LEMMA UntestedRest ==
  ASSUME NEW s \in Seq(Char), NEW t \in Seq(Char)
  PROVE  /\ s # <<>> => Untested(s \o t) = Untested(s) \o t
         /\ s = <<>> => Untested(s \o t) = Untested(t)
<1>1. CASE s = <<>>
  BY <1>1, ConcatEmptySeq
<1>2. CASE s # <<>>
  <2> DEFINE n == Len(s)
             m == Len(t)
             r == s \o t
             q == Tail(s) \o t
  <2>1. n \in Nat \ {0} /\ m \in Nat
    BY <1>2, EmptySeq, LenProperties
  <2>2. r \in Seq(Char) /\ Len(r) = n + m /\ \A i \in 1 .. n + m : r[i] = IF i <= n THEN s[i] ELSE t[i - n]
    BY ConcatProperties
  <2>3. /\ Tail(s) \in Seq(Char) /\ Len(Tail(s)) = n - 1
        /\ \A i \in 1 .. Len(Tail(s)) : Tail(s)[i] = s[i + 1]
    BY <1>2, HeadTailProperties
  <2>4. /\ q \in Seq(Char) /\ Len(q) = Len(Tail(s)) + m
        /\ \A i \in 1 .. Len(Tail(s)) + m :
             q[i] = IF i <= Len(Tail(s)) THEN Tail(s)[i] ELSE t[i - Len(Tail(s))]
    BY <2>3, ConcatProperties
  <2> HIDE DEF r, q, n, m
  <2>5. r # <<>>
    <3>1. Len(r) # 0
      BY <2>1, <2>2
    <3>. QED
      BY <3>1
  <2>6. /\ Tail(r) \in Seq(Char) /\ Len(Tail(r)) = Len(r) - 1
        /\ \A i \in 1 .. Len(Tail(r)) : Tail(r)[i] = r[i + 1]
    BY <2>2, <2>5, HeadTailProperties
  <2>7. Tail(r) = q
    <3> DEFINE p == Tail(r)
               l == Len(p)
               k == Len(Tail(s))
               e == Len(q)
    <3>1. k = n - 1 /\ l = n + m - 1 /\ e = k + m
      <4>1. k = n - 1
        BY ZenonT(20), <2>3
      <4> DEFINE g == Len(r)
      <4>2. l = g - 1 /\ g = n + m
        BY ZenonT(20), <2>2, <2>6
      <4>3. e = k + m
        BY ZenonT(20), <2>4
      <4> HIDE DEF g, k, l, e
      <4>. QED
        BY <4>1, <4>2, <4>3, <2>1
    <3>2. /\ \A i \in 1 .. l : p[i] = r[i + 1]
          /\ \A i \in 1 .. k : Tail(s)[i] = s[i + 1]
          /\ \A i \in 1 .. k + m : q[i] = IF i <= k THEN Tail(s)[i] ELSE t[i - k]
      <4>1. \A i \in 1 .. l : p[i] = r[i + 1]
        BY ZenonT(20), <2>6
      <4>2. \A i \in 1 .. k : Tail(s)[i] = s[i + 1]
        BY ZenonT(20), <2>3
      <4>3. \A i \in 1 .. k + m : q[i] = IF i <= k THEN Tail(s)[i] ELSE t[i - k]
        BY ZenonT(20), <2>4
      <4>. QED
        BY ZenonT(20), <4>1, <4>2, <4>3
    <3> HIDE DEF p, l, k, e
    <3>3. ASSUME NEW i \in 1 .. l PROVE p[i] = q[i]
      <4>1. i + 1 \in 1 .. n + m /\ i \in 1 .. k + m /\ (i + 1) - n = i - k
            /\ (i + 1 <= n <=> i <= k) /\ (i <= k => i \in 1 .. k)
        BY <3>1, <2>1
      <4>2. r[i + 1] = IF i + 1 <= n THEN s[i + 1] ELSE t[(i + 1) - n]
        BY <4>1, <2>2
      <4>3. q[i] = IF i <= k THEN Tail(s)[i] ELSE t[i - k]
        BY <4>1, <3>2
      <4>4. p[i] = r[i + 1]
        BY <3>2
      <4>5. i <= k => Tail(s)[i] = s[i + 1]
        BY <4>1, <3>2
      <4>6. t[(i + 1) - n] = t[i - k]
        BY <4>1
      <4>. QED
        BY <4>1, <4>2, <4>3, <4>4, <4>5, <4>6
    <3>4. l = e
      BY <3>1, <2>1
    <3>5. p = q
      <4>1. p \in Seq(Char) /\ q \in Seq(Char) /\ Len(p) = Len(q)
        BY <3>4, <2>4, <2>6 DEF p, l, e
      <4>2. \A i \in 1 .. Len(p) : p[i] = q[i]
        BY <3>3 DEF l
      <4>. QED
        BY <4>1, <4>2, SeqEqual
    <3>. QED
      BY <3>5 DEF p
  <2>8. Head(r) = Head(s)
    <3>1. Head(r) = r[1] /\ Head(s) = s[1]
      BY <2>2, <2>5, <1>2
    <3>2. 1 \in 1 .. n + m /\ 1 <= n
      BY <2>1
    <3>. QED
      BY <3>1, <3>2, <2>2
  <2>. QED
    BY <1>2, <2>5, <2>7, <2>8 DEF Untested, r, q
<1>. QED
  BY <1>1, <1>2

-----------------------------------------------------------------------------
(* The port: debug_init has set it up as agreed when the first call comes, *)
(* and the one character that it may have sent or not by then is the test  *)
(* byte.                                                                   *)
Tested(fifo) == fifo = <<>> \/ fifo = <<TestByte>>

(* What the writes of debug_init so far have made of the port.             *)
SetUp ==
  /\ line = <<>> /\ history = <<>>
  /\ step \in 2 .. 4 => uart.dlab = TRUE
  /\ step >= 3 => uart.lo = 3
  /\ step >= 4 => uart.hi = 0
  /\ step >= 5 => uart.format = 3 /\ uart.dlab = FALSE
  /\ step <= 8 => uart.fifo = <<>>
  /\ step >= 8 => uart.loop = TRUE
  /\ step = 9 => Tested(uart.fifo)

(* The port is never in loop-back or at another speed outside debug_init.  *)
PortInv ==
  /\ pc = "init" => SetUp
  /\ pc # "init" => AsAgreed(uart) /\ uart.dlab = FALSE /\ uart.loop = FALSE

(* What debug_init writes, one by one.                                     *)
LEMMA InitWritesAre ==
  /\ Len(InitWrites) = 10
  /\ InitWrites[1] = <<1, 0>> /\ InitWrites[2] = <<3, 128>> /\ InitWrites[3] = <<0, 3>>
  /\ InitWrites[4] = <<1, 0>> /\ InitWrites[5] = <<3, 3>> /\ InitWrites[6] = <<2, 199>>
  /\ InitWrites[7] = <<4, 11>> /\ InitWrites[8] = <<4, 30>> /\ InitWrites[9] = <<0, 174>>
  /\ InitWrites[10] = <<4, 15>>
BY DEF InitWrites

(* What a write to a register does.                                        *)
LEMMA OutIs ==
  ASSUME NEW u \in Uart, NEW v \in Byte
  PROVE  /\ u.dlab = TRUE => outb(u, 0, v) = [u EXCEPT !.lo = v]
         /\ u.dlab = FALSE /\ u.fifo = <<>> => outb(u, 0, v) = [u EXCEPT !.fifo = <<v>>]
         /\ outb(u, 1, v) = IF u.dlab THEN [u EXCEPT !.hi = v] ELSE u
         /\ outb(u, 2, v) = IF Clears(v) THEN [u EXCEPT !.fifo = <<>>] ELSE u
         /\ v = 128 => outb(u, 3, v) = [u EXCEPT !.dlab = TRUE, !.format = 0]
         /\ v = 3 => outb(u, 3, v) = [u EXCEPT !.dlab = FALSE, !.format = 3]
         /\ outb(u, 4, v) = [u EXCEPT !.loop = Loops(v)]
<1>1. FifoSize \in Nat \ {0}
  BY DebugAssumption
<1>2. u.dlab = TRUE => outb(u, 0, v) = [u EXCEPT !.lo = v]
  BY DEF outb
<1>3. ASSUME u.dlab = FALSE, u.fifo = <<>> PROVE outb(u, 0, v) = [u EXCEPT !.fifo = <<v>>]
  <2>1. outb(u, 0, v) = IF Len(u.fifo) < FifoSize THEN [u EXCEPT !.fifo = Append(u.fifo, v)] ELSE u
    BY <1>3 DEF outb
  <2>2. Len(u.fifo) < FifoSize /\ Append(u.fifo, v) = <<v>>
    BY <1>1, <1>3
  <2>. QED
    BY <2>1, <2>2
<1>4. outb(u, 1, v) = IF u.dlab THEN [u EXCEPT !.hi = v] ELSE u
  BY DEF outb
<1>5. outb(u, 2, v) = IF Clears(v) THEN [u EXCEPT !.fifo = <<>>] ELSE u
  BY DEF outb
<1>6. /\ v = 128 => outb(u, 3, v) = [u EXCEPT !.dlab = TRUE, !.format = 0]
      /\ v = 3 => outb(u, 3, v) = [u EXCEPT !.dlab = FALSE, !.format = 3]
  <2> DEFINE d == v >= 128
             e == v % 128
  <2>1. outb(u, 3, v) = [u EXCEPT !.dlab = d, !.format = e]
    BY DEF outb
  <2>2. (v = 128 => d = TRUE /\ e = 0) /\ (v = 3 => d = FALSE /\ e = 3)
    OBVIOUS
  <2> HIDE DEF d, e
  <2>. QED
    BY <2>1, <2>2
<1>7. outb(u, 4, v) = [u EXCEPT !.loop = Loops(v)]
  BY DEF outb
<1>. QED
  BY <1>2, <1>3, <1>4, <1>5, <1>6, <1>7

(* debug_init, write by write.                                             *)
LEMMA PortInit ==
  ASSUME DebugInv, PortInv, InitWrite
  PROVE  /\ PortInv'
         /\ pc' # "init" => line' = <<>> /\ history' = <<>> /\ Tested(uart'.fifo)
<1>1. /\ SetUp /\ uart \in Uart /\ step \in 0 .. 9
      /\ step' = step + 1 /\ uart' = outb(uart, InitWrites[step'][1], InitWrites[step'][2])
      /\ pc' = IF step' = 10 THEN "idle" ELSE "init"
      /\ line' = line /\ history' = history
  BY InitWritesAre DEF PortInv, InitWrite, DebugInv, TypeOK, Uart
<1>2. {0, 3, 11, 15, 30, 128, 174, 199} \subseteq Byte
  BY DEF Byte
<1>3. CASE step = 0
  <2>1. step' = 1 /\ uart' = outb(uart, 1, 0) /\ 0 \in Byte
    BY <1>1, <1>2, <1>3, InitWritesAre
  <2>2. uart' = IF uart.dlab THEN [uart EXCEPT !.hi = 0] ELSE uart
    BY <1>1, <2>1, OutIs
  <2>3. uart'.fifo = uart.fifo
    BY <2>2, <1>1 DEF Uart
  <2>. QED
    BY <2>1, <2>3, <1>1, <1>3 DEF SetUp, PortInv
<1>4. CASE step = 1
  <2>1. step' = 2 /\ uart' = outb(uart, 3, 128) /\ 128 \in Byte
    BY <1>1, <1>2, <1>4, InitWritesAre
  <2>2. uart' = [uart EXCEPT !.dlab = TRUE, !.format = 0]
    BY <1>1, <2>1, OutIs
  <2>3. uart'.fifo = uart.fifo /\ uart'.dlab = TRUE
    BY <2>2, <1>1 DEF Uart
  <2>. QED
    BY <2>1, <2>3, <1>1, <1>4 DEF SetUp, PortInv
<1>5. CASE step = 2
  <2>1. step' = 3 /\ uart' = outb(uart, 0, 3) /\ 3 \in Byte
    BY <1>1, <1>2, <1>5, InitWritesAre
  <2>2. uart.dlab = TRUE
    BY <1>1, <1>5 DEF SetUp
  <2>3. uart' = [uart EXCEPT !.lo = 3]
    BY <1>1, <2>1, <2>2, OutIs
  <2>4. uart'.fifo = uart.fifo /\ uart'.dlab = uart.dlab /\ uart'.lo = 3
    BY <2>3, <1>1 DEF Uart
  <2>. QED
    BY <2>1, <2>2, <2>4, <1>1, <1>5 DEF SetUp, PortInv
<1>6. CASE step = 3
  <2>1. step' = 4 /\ uart' = outb(uart, 1, 0) /\ 0 \in Byte
    BY <1>1, <1>2, <1>6, InitWritesAre
  <2>2. uart.dlab = TRUE
    BY <1>1, <1>6 DEF SetUp
  <2>3. uart' = [uart EXCEPT !.hi = 0]
    BY <1>1, <2>1, <2>2, OutIs
  <2>4. uart'.fifo = uart.fifo /\ uart'.dlab = uart.dlab /\ uart'.lo = uart.lo /\ uart'.hi = 0
    BY <2>3, <1>1 DEF Uart
  <2>. QED
    BY <2>1, <2>2, <2>4, <1>1, <1>6 DEF SetUp, PortInv
<1>7. CASE step = 4
  <2>1. step' = 5 /\ uart' = outb(uart, 3, 3) /\ 3 \in Byte
    BY <1>1, <1>2, <1>7, InitWritesAre
  <2>2. uart' = [uart EXCEPT !.dlab = FALSE, !.format = 3]
    BY <1>1, <2>1, OutIs
  <2>3. /\ uart'.fifo = uart.fifo /\ uart'.lo = uart.lo /\ uart'.hi = uart.hi
        /\ uart'.format = 3 /\ uart'.dlab = FALSE
    BY <2>2, <1>1 DEF Uart
  <2>. QED
    BY <2>1, <2>3, <1>1, <1>7 DEF SetUp, PortInv
<1>8. CASE step = 5
  <2>1. step' = 6 /\ uart' = outb(uart, 2, 199) /\ 199 \in Byte
    BY <1>1, <1>2, <1>8, InitWritesAre
  <2>2. uart' = uart \/ uart' = [uart EXCEPT !.fifo = <<>>]
    BY ZenonT(30), <1>1, <2>1, OutIs
  <2>3. uart.fifo = <<>>
    BY <1>1, <1>8 DEF SetUp
  <2>4. /\ uart'.fifo = <<>> /\ uart'.lo = uart.lo /\ uart'.hi = uart.hi
        /\ uart'.format = uart.format /\ uart'.dlab = uart.dlab
    BY <2>2, <2>3, <1>1 DEF Uart
  <2>. QED
    BY <2>1, <2>4, <1>1, <1>8 DEF SetUp, PortInv
<1>9. CASE step = 6
  <2>1. step' = 7 /\ uart' = outb(uart, 4, 11) /\ 11 \in Byte
    BY <1>1, <1>2, <1>9, InitWritesAre
  <2>2. uart' = [uart EXCEPT !.loop = Loops(11)]
    BY <1>1, <2>1, OutIs
  <2>3. /\ uart'.fifo = uart.fifo /\ uart'.lo = uart.lo /\ uart'.hi = uart.hi
        /\ uart'.format = uart.format /\ uart'.dlab = uart.dlab
    BY <2>2, <1>1 DEF Uart
  <2>. QED
    BY <2>1, <2>3, <1>1, <1>9 DEF SetUp, PortInv
<1>10. CASE step = 7
  <2>1. step' = 8 /\ uart' = outb(uart, 4, 30) /\ 30 \in Byte
    BY <1>1, <1>2, <1>10, InitWritesAre
  <2>2. uart' = [uart EXCEPT !.loop = TRUE]
    <3> DEFINE d == Loops(30)
    <3>1. uart' = [uart EXCEPT !.loop = d]
      BY ZenonT(30), <1>1, <2>1, OutIs
    <3>2. d = TRUE
      BY DEF Loops
    <3> HIDE DEF d
    <3>. QED
      BY <3>1, <3>2
  <2>3. /\ uart'.fifo = uart.fifo /\ uart'.lo = uart.lo /\ uart'.hi = uart.hi
        /\ uart'.format = uart.format /\ uart'.dlab = uart.dlab /\ uart'.loop = TRUE
    BY <2>2, <1>1 DEF Uart
  <2>. QED
    BY <2>1, <2>3, <1>1, <1>10 DEF SetUp, PortInv
<1>11. CASE step = 8
  <2>1. step' = 9 /\ uart' = outb(uart, 0, 174) /\ 174 \in Byte
    BY <1>1, <1>2, <1>11, InitWritesAre
  <2>2. uart.fifo = <<>> /\ uart.dlab = FALSE
    BY <1>1, <1>11 DEF SetUp
  <2>3. uart' = [uart EXCEPT !.fifo = <<TestByte>>]
    <3>1. uart' = [uart EXCEPT !.fifo = <<174>>]
      <4>1. \A v \in Byte : outb(uart, 0, v) = [uart EXCEPT !.fifo = <<v>>]
        BY <1>1, <2>2, OutIs
      <4>. QED
        BY <4>1, <2>1
    <3>. QED
      BY <3>1 DEF TestByte
  <2>4. /\ Tested(uart'.fifo) /\ uart'.lo = uart.lo /\ uart'.hi = uart.hi
        /\ uart'.format = uart.format /\ uart'.dlab = uart.dlab /\ uart'.loop = uart.loop
    BY <2>3, <1>1 DEF Uart, Tested
  <2>. QED
    BY <2>1, <2>4, <1>1, <1>11 DEF SetUp, PortInv
<1>12. CASE step = 9
  <2>1. step' = 10 /\ uart' = outb(uart, 4, 15) /\ 15 \in Byte
    BY <1>1, <1>2, <1>12, InitWritesAre
  <2>2. uart' = [uart EXCEPT !.loop = FALSE]
    <3> DEFINE d == Loops(15)
    <3>1. uart' = [uart EXCEPT !.loop = d]
      BY ZenonT(30), <1>1, <2>1, OutIs
    <3>2. d = FALSE
      BY DEF Loops
    <3> HIDE DEF d
    <3>. QED
      BY <3>1, <3>2
  <2>3. /\ uart'.fifo = uart.fifo /\ uart'.lo = uart.lo /\ uart'.hi = uart.hi
        /\ uart'.format = uart.format /\ uart'.dlab = uart.dlab /\ uart'.loop = FALSE
    BY <2>2, <1>1 DEF Uart
  <2>. QED
    BY <2>1, <2>3, <1>1, <1>12 DEF SetUp, PortInv, AsAgreed
<1>. QED
  BY <1>1, <1>3, <1>4, <1>5, <1>6, <1>7, <1>8, <1>9, <1>10, <1>11, <1>12

(* The port sends: nothing from the loop, and as agreed when it was left.  *)
LEMMA PortSends ==
  ASSUME DebugInv, PortInv, Send
  PROVE  /\ PortInv' /\ uart.fifo # <<>> /\ uart'.fifo = Tail(uart.fifo)
         /\ pc = "init" => line' = line
         /\ pc # "init" => line' = Append(line, Head(uart.fifo))
<1>1. /\ uart.fifo # <<>> /\ uart \in Uart /\ uart' = [uart EXCEPT !.fifo = Tail(uart.fifo)]
      /\ line' = IF uart.loop THEN line
                 ELSE Append(line, IF AsAgreed(uart) THEN Head(uart.fifo) ELSE Garbled)
      /\ pc' = pc /\ step' = step /\ history' = history
  BY DEF Send, DebugInv, TypeOK, Uart, kernel
<1>2. /\ uart'.fifo = Tail(uart.fifo) /\ uart'.dlab = uart.dlab /\ uart'.loop = uart.loop
      /\ uart'.lo = uart.lo /\ uart'.hi = uart.hi /\ uart'.format = uart.format
  BY <1>1 DEF Uart
<1>3. CASE pc = "init"
  <2>1. SetUp /\ step \in 0 .. 9
    BY <1>3 DEF PortInv, DebugInv
  <2>2. step = 9 /\ uart.loop = TRUE /\ uart.fifo = <<TestByte>>
    BY <2>1, <1>1 DEF SetUp, Tested
  <2>3. Tail(<<TestByte>>) = <<>> /\ Tested(<<>>)
    BY DEF Tested
  <2>. QED
    BY <1>1, <1>2, <1>3, <2>1, <2>2, <2>3 DEF SetUp, PortInv
<1>4. CASE pc # "init"
  BY <1>1, <1>2, <1>4 DEF PortInv, AsAgreed
<1>. QED
  BY <1>3, <1>4

(* Sending takes nothing from the stream of characters.                    *)
LEMMA BodySends ==
  ASSUME DebugInv, PortInv, Send, pc # "init"
  PROVE  Body' = Body
<1> DEFINE fifo == uart.fifo
           c == Head(fifo)
           t == Tail(fifo)
<1>1. line' = Append(line, c) /\ uart'.fifo = t /\ fifo # <<>>
  BY PortSends
<1>2. line \in Seq(Char) /\ fifo \in Seq(Byte)
  BY DEF DebugInv, TypeOK, Char
<1>3. fifo \in Seq(Char)
  <2>1. Byte \subseteq Char
    BY DEF Byte, Char, Garbled
  <2>. QED
    BY <2>1, <1>2, SeqMonotonic
<1> HIDE DEF fifo
<1>4. c \in Char /\ t \in Seq(Char)
  BY <1>1, <1>3, HeadTailProperties
<1>5. fifo = <<c>> \o t
  BY <1>1, <1>3
<1>6. Append(line, c) = line \o <<c>> /\ <<c>> \in Seq(Char)
  BY <1>2, <1>4, AppendIsConcat
<1> HIDE DEF c, t
<1>7. (line \o <<c>>) \o t = line \o (<<c>> \o t)
  BY <1>2, <1>4, <1>6, ConcatAssociative
<1>8. line' \o uart'.fifo = line \o fifo
  BY <1>1, <1>5, <1>6, <1>7
<1>. QED
  BY <1>8 DEF Body, Untested, fifo

(* debug_putc brings one character more, unless that is taken for the test *)
(* byte.                                                                   *)
LEMMA BodyTakes ==
  ASSUME DebugInv, PortInv, putc
  PROVE  /\ PortInv'
         /\ Head(out) \in Byte /\ Body \in Seq(Char)
         /\ Body = <<>> /\ Head(out) = TestByte => Body' = <<>> \/ Body' = Append(Body, Head(out))
         /\ Body # <<>> \/ Head(out) # TestByte => Body' = Append(Body, Head(out))
<1> DEFINE c == Head(out)
<1>1. /\ pc = "put" /\ uart.fifo = <<>> /\ uart \in Uart /\ line \in Seq(Char)
      /\ uart' = outb(uart, 0, c) /\ line' = line /\ out \in Seq(Byte) /\ out # <<>>
      /\ pc' # "init"
  BY DEF putc, Ready, DebugInv, TypeOK, Uart, Char
<1>2. c \in Byte
  BY <1>1, HeadTailProperties
<1>3. AsAgreed(uart) /\ uart.dlab = FALSE /\ uart.loop = FALSE
  BY <1>1 DEF PortInv
<1>4. uart' = [uart EXCEPT !.fifo = <<c>>]
  BY <1>1, <1>2, <1>3, OutIs
<1> HIDE DEF c
<1>5. PortInv' /\ uart'.fifo = <<c>>
  BY <1>1, <1>3, <1>4 DEF PortInv, AsAgreed, Uart
<1>6. c \in Char
  BY <1>2 DEF Byte, Char, Garbled
<1>7. Body = Untested(line) /\ Body' = Untested(Append(line, c))
  <2>1. line \o <<>> = line /\ line \o <<c>> = Append(line, c)
    BY <1>1, <1>6, ConcatEmptySeq, AppendIsConcat
  <2>. QED
    BY <2>1, <1>1, <1>5 DEF Body, Untested
<1>8. /\ Untested(line) \in Seq(Char)
      /\ line = <<>> => Untested(line) = <<>>
      /\ line = <<>> /\ c = TestByte => Untested(Append(line, c)) = <<>>
      /\ line # <<>> \/ c # TestByte => Untested(Append(line, c)) = Append(Untested(line), c)
  BY <1>1, <1>6, UntestedMore
<1>. QED
  BY <1>2, <1>5, <1>7, <1>8 DEF c

(* A piece begins where the one before it ends, and never with NUL.        *)
LEMMA PieceBegins ==
  ASSUME NEW f \in DOMAIN Formats, NEW k \in 1 .. Len(Formats[f])
  PROVE  LET piece == Formats[f][k]
         IN  /\ piece \in Seq(Byte) /\ Len(piece) \in {1, 2} /\ IsPiece(Formats[f], k)
             /\ rodata[At(f, k - 1)] = piece[1] /\ piece[1] # NUL
<1> DEFINE piece == Formats[f][k]
           l == Len(piece)
           b == Before(Formats[f], k - 1)
<1>1. piece \in Seq(Byte \ {NUL}) /\ IsPiece(Formats[f], k)
  BY FormatsTyped
<1>2. l \in {1, 2}
  BY <1>1 DEF IsPiece
<1>3. piece \in Seq(Byte)
  <2>1. Byte \ {NUL} \subseteq Byte
    OBVIOUS
  <2>. QED
    BY <2>1, <1>1, SeqMonotonic
<1> HIDE DEF l
<1>4. 1 \in 1 .. l
  BY <1>2
<1>5. piece[1] # NUL
  BY <1>1, <1>4, ElementOfSeq DEF l
<1>6. Start(f) + b + 1 - 1 = Start(f) + b
  <2>1. Start(f) \in Nat
    BY StartIs
  <2>2. b \in Nat
    <3> DEFINE n == Len(Formats[f])
    <3>1. n \in Nat /\ Formats[f] \in Seq(Seq(Byte)) /\ k \in 1 .. n
      BY FormatsTyped
    <3>2. k - 1 \in 0 .. n
      <4> HIDE DEF n
      <4>. QED
        BY <3>1
    <3>. QED
      BY <3>1, <3>2, BeforeGrows
  <2> HIDE DEF b
  <2>. QED
    BY <2>1, <2>2
<1>7. rodata[Start(f) + b + 1 - 1] = piece[1]
  BY <1>4, PieceAt DEF l
<1>8. rodata[At(f, k - 1)] = piece[1]
  BY <1>6, <1>7 DEF At
<1>. QED
  BY <1>1, <1>2, <1>3, <1>5, <1>8 DEF l

(* The terminator is behind the last piece.                                *)
LEMMA AtTheEnd ==
  ASSUME NEW f \in DOMAIN Formats, NEW k \in 0 .. Len(Formats[f]), rodata[At(f, k)] = NUL
  PROVE  k = Len(Formats[f])
<1> DEFINE n == Len(Formats[f])
<1>1. n \in Nat
  BY FormatsTyped
<1>2. ASSUME k # n PROVE FALSE
  <2>1. PICK m \in 1 .. n : m - 1 = k
    <3> HIDE DEF n
    <3>1. k + 1 \in 1 .. n /\ k + 1 - 1 = k
      BY <1>1, <1>2 DEF n
    <3>. QED
      BY <3>1
  <2>2. rodata[At(f, m - 1)] # NUL
    BY PieceBegins
  <2>. QED
    BY <2>1, <2>2
<1>. QED
  BY <1>2

-----------------------------------------------------------------------------
(* va_arg still has the arguments from the m-th on.                        *)
Left(list, m) ==
  /\ m + Len(args) = Len(list)
  /\ \A i \in 1 .. Len(args) : args[i] = list[m + i]

(* A careful call at its next piece: what it will give is what the piece   *)
(* means.                                                                  *)
LEMMA PieceOf ==
  ASSUME NEW call \in Careful, NEW k \in 1 .. Len(Formats[call.format]),
         ptr = At(call.format, k - 1), args \in Seq(Arguments),
         Left(call.args, ArgIndex(Formats[call.format], k - 1))
  PROVE  LET piece == Formats[call.format][k]
             m     == ArgIndex(Formats[call.format], k)
         IN  /\ rodata[ptr] = piece[1] /\ rodata[ptr] # NUL
             /\ \/ /\ rodata[ptr] # Percent /\ ptr + 1 = At(call.format, k)
                   /\ Len(piece) = 1
                \/ /\ rodata[ptr] = Percent /\ ptr + 2 = At(call.format, k)
                   /\ Len(piece) = 2 /\ piece[2] = rodata[ptr + 1]
             /\ ~ TakesArg(piece) => /\ Left(call.args, m)
                                     /\ PieceTexts(call)[k] = PieceText(piece, NUL)
             /\ TakesArg(piece) =>
                  /\ args # <<>> /\ Head(args) = call.args[m] /\ Typed(piece, Head(args))
                  /\ PieceTexts(call)[k] = PieceText(piece, Head(args))
                  /\ m \in 1 .. Len(call.args)
                  /\ m + Len(Tail(args)) = Len(call.args)
                  /\ \A i \in 1 .. Len(Tail(args)) : Tail(args)[i] = call.args[m + i]
<1> DEFINE f     == call.format
           n     == Len(Formats[f])
           piece == Formats[f][k]
           m     == ArgIndex(Formats[f], k)
           p     == ArgIndex(Formats[f], k - 1)
           l     == Len(call.args)
           a     == Len(args)
<1>1. /\ f \in DOMAIN Formats /\ n \in Nat /\ k \in 1 .. n /\ DOMAIN Formats[f] = 1 .. n
      /\ l \in Nat /\ ~ EndsWithPercent(call)
      /\ TakesArg(piece) => m \in 1 .. l /\ Typed(piece, call.args[m])
  BY CarefulCalls DEF Careful
<1>2. rodata[ptr] = piece[1] /\ rodata[ptr] # NUL
  BY <1>1, PieceBegins
<1>3. m \in Nat /\ p \in Nat /\ m = IF TakesArg(piece) THEN p + 1 ELSE p
  <2> HIDE DEF n
  <2>1. k \in 0 .. n /\ k - 1 \in 0 .. n
    BY <1>1
  <2>. QED
    BY <1>1, <2>1, ArgIndexIs DEF n
<1>4. PlainHere(f, k) \/ ConversionHere(f, k)
  <2>1. PICK j : j = k - 1 /\ j \in 0 .. n /\ j + 1 = k
    <3> HIDE DEF n
    <3>1. k - 1 \in 0 .. n /\ k - 1 + 1 = k
      BY <1>1
    <3>. QED
      BY <3>1
  <2>2. ptr = At(f, j)
    BY <2>1
  <2>3. PlainHere(f, j + 1) \/ ConversionHere(f, j + 1) \/ LoneHere(f, j + 1)
    BY <1>1, <1>2, <2>1, <2>2, NextPiece
  <2>4. ~ LoneHere(f, j + 1)
    BY <1>1 DEF LoneHere, EndsWithPercent
  <2>. QED
    BY <2>1, <2>3, <2>4
<1>5. \/ /\ rodata[ptr] # Percent /\ ptr + 1 = At(f, k) /\ Len(piece) = 1
      \/ /\ rodata[ptr] = Percent /\ ptr + 2 = At(f, k)
         /\ Len(piece) = 2 /\ piece[2] = rodata[ptr + 1]
  BY <1>4 DEF PlainHere, ConversionHere
<1>6. PieceTexts(call)[k] = IF TakesArg(piece) THEN PieceText(piece, call.args[m]) ELSE PieceText(piece, NUL)
  BY <1>1 DEF PieceTexts
<1>7. p + a = l /\ a \in Nat /\ \A i \in 1 .. a : args[i] = call.args[p + i]
  BY LenProperties DEF Left
<1> HIDE DEF f, n, piece, m, p
<1>8. ASSUME ~ TakesArg(piece)
      PROVE  Left(call.args, m) /\ PieceTexts(call)[k] = PieceText(piece, NUL)
  <2>1. m = p
    BY <1>3, <1>8
  <2>. QED
    BY <2>1, <1>6, <1>7, <1>8 DEF Left
<1>9. ASSUME TakesArg(piece)
      PROVE  /\ args # <<>> /\ Head(args) = call.args[m] /\ Typed(piece, Head(args))
             /\ PieceTexts(call)[k] = PieceText(piece, Head(args))
             /\ m \in 1 .. l
             /\ m + Len(Tail(args)) = l
             /\ \A i \in 1 .. Len(Tail(args)) : Tail(args)[i] = call.args[m + i]
  <2> HIDE DEF l, a
  <2>1. m = p + 1 /\ m \in 1 .. l
    BY <1>1, <1>3, <1>9
  <2>2. a \in Nat \ {0} /\ 1 \in 1 .. a
    BY <2>1, <1>1, <1>3, <1>7
  <2>3. args # <<>>
    BY <2>2, EmptySeq DEF a
  <2> DEFINE t == Tail(args)
             b == Len(t)
  <2>4. /\ Head(args) = args[1] /\ b = a - 1
        /\ \A i \in 1 .. b : t[i] = args[i + 1]
    <3>1. /\ Head(args) = args[1] /\ Len(Tail(args)) = Len(args) - 1
          /\ \A i \in 1 .. Len(Tail(args)) : Tail(args)[i] = args[i + 1]
      BY <2>3, HeadTailProperties
    <3>. QED
      BY ZenonT(20), <3>1 DEF a
  <2>5. Head(args) = call.args[m]
    BY <2>1, <2>2, <2>4, <1>7
  <2> HIDE DEF t, b
  <2>6. ASSUME NEW i \in 1 .. b PROVE t[i] = call.args[m + i]
    <3>1. PICK j \in 1 .. a : j = i + 1 /\ p + j = m + i
      <4>1. i + 1 \in 1 .. a /\ p + (i + 1) = m + i
        BY <2>1, <2>2, <2>4, <1>3
      <4>. QED
        BY <4>1
    <3>2. t[i] = args[j] /\ args[j] = call.args[p + j]
      BY <2>4, <3>1, <1>7
    <3>. QED
      BY <3>1, <3>2
  <2>7. m + b = l
    BY <2>1, <2>2, <2>4, <1>1, <1>3, <1>7
  <2>8. Typed(piece, Head(args)) /\ PieceTexts(call)[k] = PieceText(piece, Head(args))
    BY <2>5, <1>1, <1>6, <1>9
  <2>. QED
    BY <2>1, <2>3, <2>5, <2>6, <2>7, <2>8 DEF t, b
<1>. QED
  BY <1>2, <1>5, <1>8, <1>9 DEF f, n, piece, m, p, l

-----------------------------------------------------------------------------
(* What was asked for and what was brought to the port: the invariant that *)
(* the implementation of Console rests on.                                 *)

(* A sequence begins another one.                                          *)
Begins(s, t) == \E rest \in Seq(Char) : t = s \o rest

(* A careful call in progress: what its text so far gave has been brought  *)
(* to the port behind what was there before it, but for the characters     *)
(* that debug_putc is still to be called with.                             *)
Telling(call) ==
  \E k \in 0 .. Len(Formats[call.format]) : \E before \in Seq(Char) :
    /\ ptr = At(call.format, k)
    /\ Left(call.args, ArgIndex(Formats[call.format], k))
    /\ Meant = before \o Texts[call]
    /\ Body \o out = before \o Given(call, k)

(* The port was brought what the careful calls asked for: all of it        *)
(* between two calls, and what the pieces so far gave in one; after the    *)
(* first call without a meaning it is still there, with more behind it.    *)
ToldInv ==
  /\ pc # "put" => out = <<>>
  /\ Meant # <<>> => Head(Meant) # TestByte
  /\ pc # "init" /\ AllCareful(history) =>
       /\ pc # "wild"
       /\ pc = "idle" => Body = Meant
       /\ pc \in {"scan", "put"} => Telling(Last(history))
  /\ pc # "init" /\ ~ AllCareful(history) => Begins(Meant, Body)

(* Bytes are characters.                                                   *)
LEMMA BytesAreChars == Byte \subseteq Char /\ Seq(Byte) \subseteq Seq(Char)
<1>1. Byte \subseteq Char
  BY DEF Byte, Char, Garbled
<1>. QED
  BY <1>1, SeqMonotonic

(* What the port and the calls are made of, by the invariants.             *)
LEMMA StreamTyped ==
  ASSUME DebugInv, ScanInv
  PROVE  /\ Body \in Seq(Char) /\ Meant \in Seq(Char) /\ out \in Seq(Char)
         /\ line \in Seq(Char) /\ uart.fifo \in Seq(Char) /\ uart \in Uart
         /\ history \in Seq(Calls) /\ args \in Seq(Arguments)
<1>1. /\ line \in Seq(Char) /\ uart.fifo \in Seq(Byte) /\ out \in Seq(Byte) /\ uart \in Uart
      /\ history \in Seq(Calls) /\ args \in Seq(Arguments)
  BY DEF DebugInv, TypeOK, Uart, Char, ScanInv
<1>2. uart.fifo \in Seq(Char) /\ out \in Seq(Char)
  BY <1>1, BytesAreChars
<1>3. line \o uart.fifo \in Seq(Char)
  BY <1>1, <1>2, ConcatProperties
<1>4. Body \in Seq(Char)
  <2>1. 0 \in Char
    BY DEF Char, Garbled
  <2>. QED
    BY <2>1, <1>3, UntestedMore DEF Body
<1>5. Meant \in Seq(Char)
  BY <1>1, MeantTyped, BytesAreChars
<1>. QED
  BY <1>1, <1>2, <1>4, <1>5

(* The call in progress when all calls are careful.                        *)
LEMMA CarefulCall ==
  ASSUME ScanInv, pc \in {"scan", "put"}, AllCareful(history)
  PROVE  Last(history) \in Careful
BY LastCall DEF AllCareful

(* The port and the calls stay: so does what is meant and what the port    *)
(* was brought.                                                            *)
LEMMA StreamStays ==
  ASSUME history' = history
  PROVE  /\ Meant' = Meant /\ (AllCareful(history))' = AllCareful(history)
         /\ line' = line /\ uart' = uart => Body' = Body
<1>1. Meant' = Meant
  BY MeantIs
<1>2. (AllCareful(history))' = AllCareful(history)
  BY DEF AllCareful
<1>3. line' = line /\ uart' = uart => Body' = Body
  BY DEF Body
<1>. QED
  BY <1>1, <1>2, <1>3

(* A piece of a careful call gives what it means.                          *)
LEMMA ToldGives ==
  ASSUME ToldInv, DebugInv, ScanInv, pc = "scan", AllCareful(history),
         history' = history, line' = line, uart' = uart,
         NEW k \in 1 .. Len(Formats[Last(history).format]), NEW before \in Seq(Char),
         Meant = before \o Texts[Last(history)],
         Body \o out = before \o Given(Last(history), k - 1),
         Give(PieceTexts(Last(history))[k], At(Last(history).format, k)),
         Left(Last(history).args, ArgIndex(Formats[Last(history).format], k))'
  PROVE  ToldInv'
<1> DEFINE call == Last(history)
           text == PieceTexts(call)[k]
           G(j) == Given(call, j)
           n == Len(Formats[call.format])
<1>1. call \in Careful
  BY CarefulCall
<1>2. n \in Nat /\ k \in 1 .. n
  BY <1>1, CarefulCalls
<1>3. PieceTexts(call) \in Seq(Seq(Byte)) /\ Len(PieceTexts(call)) = n
  BY <1>1, TextIs
<1>4. /\ \A j \in 0 .. n : G(j) \in Seq(Byte)
      /\ \A j \in 1 .. n : G(j) = G(j - 1) \o PieceTexts(call)[j]
  BY <1>1, GivenIs
<1> HIDE DEF n, G
<1>5. text \in Seq(Char)
  BY <1>2, <1>3, ElementOfSeq, BytesAreChars
<1>6. G(k - 1) \in Seq(Char) /\ G(k) = G(k - 1) \o text
  <2>1. k - 1 \in 0 .. n
    BY <1>2
  <2>. QED
    BY <2>1, <1>2, <1>4, BytesAreChars
<1>7. out = <<>> /\ Body \in Seq(Char)
  BY StreamTyped DEF ToldInv
<1>8. Body = before \o G(k - 1)
  BY <1>7, ConcatEmptySeq DEF G
<1>9. Body \o text = before \o G(k)
  <2> DEFINE g == G(k - 1)
  <2> HIDE DEF text, g
  <2>1. (before \o g) \o text = before \o (g \o text)
    <3>1. g \in Seq(Char)
      BY <1>6 DEF g
    <3>. QED
      BY SMTT(30), <3>1, <1>5, ConcatAssociative
  <2>2. Body = before \o g /\ G(k) = g \o text
    BY <1>6, <1>8 DEF g
  <2>. QED
    BY <2>1, <2>2
<1>10. out' = text /\ ptr' = At(call.format, k) /\ pc' \in {"scan", "put"}
       /\ (pc' # "put" => out' = <<>>)
  BY DEF Give
<1>11. /\ Meant' = Meant /\ Body' = Body /\ (AllCareful(history))' = AllCareful(history)
  BY StreamStays
<1>12. k \in 0 .. Len(Formats[call.format])
  <2>1. k \in 0 .. n
    BY <1>2
  <2>. QED
    BY <2>1 DEF n
<1>13. (Telling(Last(history)))'
  <2> DEFINE AtPiece(j, b) == /\ ptr = At(call.format, j)
                           /\ Left(call.args, ArgIndex(Formats[call.format], j))
                           /\ Meant = b \o Texts[call]
                           /\ Body \o out = b \o Given(call, j)
  <2>1. Body' \o out' = before \o Given(call, k) /\ call' = call
    BY <1>9, <1>10, <1>11 DEF G
  <2>2. AtPiece(k, before)'
    BY <2>1, <1>10, <1>11
  <2>3. k \in 0 .. Len(Formats[call'.format])
    BY <2>1, <1>12
  <2>4. Telling(call)' <=> \E j \in 0 .. Len(Formats[call'.format]) : \E b \in Seq(Char) : AtPiece(j, b)'
    BY DEF Telling
  <2> HIDE DEF Here
  <2>. QED
    BY <2>2, <2>3, <2>4
<1>. QED
  BY <1>10, <1>11, <1>13 DEF ToldInv

(* The loop of debug_printf through the format of a careful call: every    *)
(* step gives what the piece at msg means, and it ends behind the last.    *)
LEMMA CarefulScans ==
  ASSUME ToldInv, DebugInv, ScanInv, pc = "scan", AllCareful(history),
         \/ EndOfText \/ Plain \/ NoArgument
         \/ NumberArgument \/ StringArgument \/ CharArgument
  PROVE  ToldInv'
<1> DEFINE call == Last(history)
           f    == call.format
           n    == Len(Formats[f])
           A(j) == ArgIndex(Formats[f], j)
<1>1. /\ call \in Careful /\ f \in DOMAIN Formats /\ n \in Nat /\ DOMAIN Formats[f] = 1 .. n
      /\ ~ FillsBuffer(call)
  <2>1. call \in Careful
    BY CarefulCall
  <2>. QED
    BY <2>1, CarefulCalls DEF Careful
<1>2. PICK j \in 0 .. n : \E before \in Seq(Char) :
        /\ ptr = At(f, j) /\ Left(call.args, A(j))
        /\ Meant = before \o Texts[call] /\ Body \o out = before \o Given(call, j)
  BY DEF ToldInv, Telling
<1>3. PICK before \in Seq(Char) :
        /\ ptr = At(f, j) /\ Left(call.args, A(j))
        /\ Meant = before \o Texts[call] /\ Body \o out = before \o Given(call, j)
  BY <1>2
<1>4. history' = history /\ line' = line /\ uart' = uart
  BY DEF EndOfText, Plain, NoArgument, NumberArgument, StringArgument, CharArgument
<1>5. Meant' = Meant /\ Body' = Body /\ (AllCareful(history))' = AllCareful(history)
  BY <1>4, StreamStays
<1>6. NUL # Percent
  BY DEF NUL, Percent
<1>7. CASE EndOfText
  <2>1. rodata[ptr] = NUL /\ pc' = "idle" /\ out' = out
    BY <1>7 DEF EndOfText
  <2>2. j = n
    BY <2>1, <1>1, <1>3, AtTheEnd
  <2>3. Given(call, n) = Texts[call]
    BY <1>1, GivenIs
  <2>4. out = <<>> /\ Body \o <<>> = Body
    BY StreamTyped, ConcatEmptySeq DEF ToldInv
  <2>5. Body' = Meant'
    BY <2>2, <2>3, <2>4, <1>3, <1>5
  <2>. QED
    BY <2>1, <2>4, <2>5, <1>5 DEF ToldInv
<1>8. CASE ~ EndOfText
  <2>1. rodata[ptr] # NUL
    BY <1>6, <1>8 DEF Plain, NoArgument, NumberArgument, StringArgument, CharArgument, AtPercent
  <2>2. j # n
    BY <2>1, <1>1, <1>3, PieceAt DEF At
  <2>3. PICK k \in 1 .. n : k - 1 = j
    <3> HIDE DEF n
    <3>1. j + 1 \in 1 .. n /\ j + 1 - 1 = j
      BY <2>2, <1>1
    <3>. QED
      BY <3>1
  <2> DEFINE piece  == Formats[f][k]
             m      == A(k)
             next   == At(f, k)
             letter == rodata[ptr + 1]
             text   == PieceTexts(call)[k]
  <2>4. args \in Seq(Arguments)
    BY StreamTyped
  <2>5. /\ rodata[ptr] = piece[1]
        /\ \/ rodata[ptr] # Percent /\ ptr + 1 = next /\ Len(piece) = 1
           \/ /\ rodata[ptr] = Percent /\ ptr + 2 = next
              /\ Len(piece) = 2 /\ piece[2] = letter
        /\ ~ TakesArg(piece) => Left(call.args, m) /\ text = PieceText(piece, NUL)
        /\ TakesArg(piece) =>
             /\ args # <<>> /\ Head(args) = call.args[m] /\ Typed(piece, Head(args))
             /\ text = PieceText(piece, Head(args))
             /\ m \in 1 .. Len(call.args)
             /\ m + Len(Tail(args)) = Len(call.args)
             /\ \A i \in 1 .. Len(Tail(args)) : Tail(args)[i] = call.args[m + i]
    BY <2>3, <2>4, <1>1, <1>3, PieceOf
  <2>6. ASSUME Give(text, next), Left(call.args, m)' PROVE ToldInv'
    BY <2>3, <2>6, <1>3, <1>4, ToldGives
  <2>7. ASSUME TakesArg(piece), TakeArg PROVE Left(call.args, m)'
    <3>1. args' = Tail(args) /\ call' = call
      BY <2>5, <2>7, <1>4 DEF TakeArg
    <3>. QED
      BY <3>1, <2>5, <2>7 DEF Left
  <2>8. ASSUME ~ TakesArg(piece), args' = args PROVE Left(call.args, m)'
    <3>1. call' = call
      BY <1>4
    <3>. QED
      BY <3>1, <2>5, <2>8 DEF Left
  <2> HIDE DEF piece, m, next, text
  <2>9. CASE Plain
    <3>1. rodata[ptr] # Percent /\ Give(<<rodata[ptr]>>, ptr + 1) /\ args' = args
      BY <2>9 DEF Plain
    <3>2. ~ TakesArg(piece)
      BY <3>1, <2>5 DEF TakesArg
    <3>3. text = <<rodata[ptr]>> /\ ptr + 1 = next
      <4>1. text = piece /\ Len(piece) = 1 /\ ptr + 1 = next
        BY <3>1, <3>2, <2>5, PieceTextIs
      <4>2. piece \in Seq(Byte)
        BY <1>1, PieceBegins DEF piece
      <4>. QED
        BY <4>1, <4>2, <2>5
    <3>. QED
      BY <3>1, <3>2, <3>3, <2>6, <2>8
  <2>10. CASE NoArgument
    <3> DEFINE given == IF letter = Percent THEN <<Percent>> ELSE <<>>
    <3>1. /\ rodata[ptr] = Percent /\ letter \notin DOMAIN Base \cup {Str, Chr}
          /\ Give(given, ptr + 2) /\ args' = args
      BY <2>10 DEF NoArgument, AtPercent, AfterConversion
    <3>2. Len(piece) = 2 /\ piece[2] = letter /\ ptr + 2 = next /\ ~ TakesArg(piece)
      BY <3>1, <2>5 DEF TakesArg
    <3>3. text = given
      BY <3>1, <3>2, <2>5, PieceTextIs
    <3>. QED
      BY <3>1, <3>2, <3>3, <2>6, <2>8
  <2>11. ASSUME rodata[ptr] = Percent, letter \in DOMAIN Base \cup {Str, Chr}
         PROVE  /\ Len(piece) = 2 /\ piece[2] = letter /\ ptr + 2 = next /\ TakesArg(piece)
                /\ NextArg = {Head(args)} /\ Typed(piece, Head(args))
                /\ text = PieceText(piece, Head(args))
    <3>1. Len(piece) = 2 /\ piece[2] = letter /\ ptr + 2 = next /\ TakesArg(piece)
      BY <2>5, <2>11 DEF TakesArg
    <3>. QED
      BY <3>1, <2>5 DEF NextArg
  <2>12. CASE NumberArgument
    <3> DEFINE base == Base[letter]
               past(v) == v # 0 /\ Counted(v, base) >= Width
    <3>1. rodata[ptr] = Percent /\ letter \in DOMAIN Base /\ TakeArg
      BY <2>12 DEF NumberArgument, AtPercent
    <3>2. PICK v \in NextArg : \/ Give(puti(v, base), ptr + 2)
                               \/ past(v) /\ pc' = "wild" /\ UNCHANGED <<out, ptr>>
      BY <2>12 DEF NumberArgument, AfterConversion
    <3>3. /\ Len(piece) = 2 /\ piece[2] = letter /\ ptr + 2 = next /\ TakesArg(piece)
          /\ v = Head(args) /\ Typed(piece, v) /\ text = PieceText(piece, v)
      BY <3>1, <3>2, <2>11
    <3>4. v \in Number /\ base \in {2, 10, 16}
      BY <3>1, <3>3, Bases DEF Typed
    <3>5. ~ past(v)
      <4>1. ASSUME past(v) PROVE FALSE
        <5>1. base = 2 /\ v >= Power(2, Width - 1)
          BY <3>4, <4>1, CountedIs
        <5>2. letter = 98
          BY <5>1, <3>1, Bases
        <5>3. Binary(piece) /\ k \in DOMAIN Formats[f] /\ v = call.args[m] /\ m \in 1 .. Len(call.args)
          BY <5>2, <3>3, <2>5, <1>1 DEF Binary
        <5>4. m <= Len(call.args)
          BY <5>3, <1>1, CarefulCalls
        <5>. QED
          BY <5>1, <5>3, <5>4, <1>1 DEF FillsBuffer, piece, m
      <4>. QED
        BY <4>1
    <3>6. text = puti(v, base)
      <4>1. text = Numeral(v, base)
        BY <3>1, <3>3, PieceTextIs
      <4>. QED
        BY <4>1, <3>4, NumeralIs
    <3>. QED
      BY <3>1, <3>2, <3>3, <3>5, <3>6, <2>6, <2>7
  <2>13. CASE StringArgument
    <3>1. rodata[ptr] = Percent /\ letter = Str /\ TakeArg
      BY <2>13 DEF StringArgument, AtPercent
    <3>2. /\ Len(piece) = 2 /\ piece[2] = Str /\ ptr + 2 = next /\ TakesArg(piece)
          /\ text = PieceText(piece, Head(args))
      BY <3>1, <2>11
    <3>4. Give(Head(args), ptr + 2)
      <4>1. args # <<>>
        BY <3>2, <2>5
      <4>. QED
        BY <4>1, <2>13 DEF StringArgument, TextArg, AfterConversion
    <3>3. text = Head(args)
      BY <3>2, PieceTextIs
    <3>. QED
      BY <3>1, <3>2, <3>3, <3>4, <2>6, <2>7
  <2>14. CASE CharArgument
    <3>1. rodata[ptr] = Percent /\ letter = Chr /\ TakeArg
      BY <2>14 DEF CharArgument, AtPercent
    <3>2. PICK v \in NextArg : Give(<<v % 256>>, ptr + 2)
      BY <2>14 DEF CharArgument, AfterConversion, ToChar
    <3>3. /\ Len(piece) = 2 /\ piece[2] = Chr /\ ptr + 2 = next /\ TakesArg(piece)
          /\ v = Head(args) /\ text = PieceText(piece, v)
      BY <3>1, <3>2, <2>11
    <3>4. text = <<v % 256>>
      BY <3>3, PieceTextIs
    <3>. QED
      BY <3>1, <3>2, <3>3, <3>4, <2>6, <2>7
  <2>. QED
    BY <1>8, <2>9, <2>10, <2>12, <2>13, <2>14
<1>. QED
  BY <1>7, <1>8

(* A character that goes over from one sequence to the one before it.      *)
LEMMA MovesOver ==
  ASSUME NEW s \in Seq(Char), NEW o \in Seq(Char), o # <<>>
  PROVE  /\ Head(o) \in Char /\ Tail(o) \in Seq(Char)
         /\ Append(s, Head(o)) \o Tail(o) = s \o o
<1> DEFINE c == Head(o)
           t == Tail(o)
<1>1. c \in Char /\ t \in Seq(Char)
  BY HeadTailProperties
<1>2. o = <<c>> \o t
  OBVIOUS
<1> HIDE DEF c, t
<1>3. Append(s, c) = s \o <<c>> /\ <<c>> \in Seq(Char)
  BY <1>1, AppendIsConcat
<1>4. (s \o <<c>>) \o t = s \o (<<c>> \o t)
  BY <1>1, <1>3, ConcatAssociative
<1>5. Append(s, c) \o t = s \o o
  BY <1>2, <1>3, <1>4
<1>. QED
  BY <1>1, <1>5 DEF c, t

(* The first of two sequences, unless it is empty, has the first character.*)
LEMMA HeadOf ==
  ASSUME NEW s \in Seq(Char), NEW t \in Seq(Char), s # <<>>
  PROVE  s \o t # <<>> /\ Head(s \o t) = Head(s)
<1> DEFINE n == Len(s)
           m == Len(t)
           r == s \o t
<1>1. n \in Nat \ {0} /\ m \in Nat
  BY EmptySeq, LenProperties
<1>2. r \in Seq(Char) /\ Len(r) = n + m /\ \A i \in 1 .. n + m : r[i] = IF i <= n THEN s[i] ELSE t[i - n]
  BY ConcatProperties
<1> HIDE DEF r, n, m
<1>3. r # <<>>
  <2>1. Len(r) # 0
    BY <1>1, <1>2
  <2>. QED
    BY <2>1
<1>4. Head(r) = r[1] /\ Head(s) = s[1]
  BY <1>2, <1>3
<1>5. 1 \in 1 .. n + m /\ 1 <= n
  BY <1>1
<1>6. Head(r) = Head(s)
  BY <1>2, <1>4, <1>5
<1>. QED
  BY <1>3, <1>6 DEF r

(* What begins a sequence begins it with a character more, too.            *)
LEMMA BeginsMore ==
  ASSUME NEW s \in Seq(Char), NEW t, Begins(s, t), NEW c \in Char
  PROVE  Begins(s, Append(t, c))
<1>1. PICK rest \in Seq(Char) : t = s \o rest
  BY DEF Begins
<1>2. t \in Seq(Char)
  BY <1>1, ConcatProperties
<1>3. Append(t, c) = t \o <<c>> /\ <<c>> \in Seq(Char)
  BY <1>2, AppendIsConcat
<1>4. (s \o rest) \o <<c>> = s \o (rest \o <<c>>) /\ rest \o <<c>> \in Seq(Char)
  BY <1>3, ConcatAssociative, ConcatProperties
<1>. QED
  BY <1>1, <1>3, <1>4 DEF Begins

(* After a call without a meaning the port may be brought anything more.   *)
LEMMA CarelessGoesOn ==
  ASSUME ToldInv, DebugInv, ScanInv, pc # "init", ~ AllCareful(history),
         history' = history, pc' # "init", pc' # "put" => out' = <<>>,
         Body' = Body \/ \E c \in Char : Body' = Append(Body, c)
  PROVE  ToldInv'
<1>1. Meant' = Meant /\ (AllCareful(history))' = AllCareful(history)
  BY StreamStays
<1>2. Meant \in Seq(Char) /\ Begins(Meant, Body)
  BY StreamTyped DEF ToldInv
<1>3. Begins(Meant, Body')
  BY <1>2, BeginsMore
<1>4. (Begins(Meant, Body))'
  BY <1>1, <1>3 DEF Begins
<1>. QED
  BY <1>1, <1>4 DEF ToldInv

(* The call in progress stays where it is.                                 *)
LEMMA ToldStays ==
  ASSUME ToldInv, history' = history, pc' = pc, ptr' = ptr, args' = args, out' = out,
         pc # "init" => Body' = Body
  PROVE  ToldInv'
<1>1. Meant' = Meant /\ (AllCareful(history))' = AllCareful(history)
  BY StreamStays
<1>2. ASSUME pc # "init" PROVE (Telling(Last(history)))' <=> Telling(Last(history))
  <2>1. \A list, m : Left(list, m)' <=> Left(list, m)
    BY DEF Left
  <2>. QED
    BY <2>1, <1>1, <1>2 DEF Telling
<1>3. ASSUME pc # "init" PROVE (Begins(Meant, Body))' <=> Begins(Meant, Body)
  BY <1>1, <1>3 DEF Begins
<1>. QED
  BY <1>1, <1>2, <1>3 DEF ToldInv

-----------------------------------------------------------------------------
(* debug_putc: the character goes from those in hand to the port.          *)
LEMMA ToldPutc ==
  ASSUME ToldInv, DebugInv, ScanInv, PortInv, putc
  PROVE  ToldInv'
<1> DEFINE c == Head(out)
<1>1. /\ pc = "put" /\ out # <<>> /\ out' = Tail(out) /\ history' = history
      /\ ptr' = ptr /\ args' = args /\ pc' \in {"scan", "put"} /\ (pc' # "put" => out' = <<>>)
  BY DEF putc, DebugInv
<1>2. Body \in Seq(Char) /\ Meant \in Seq(Char) /\ out \in Seq(Char)
  BY StreamTyped
<1>3. /\ c \in Char /\ Tail(out) \in Seq(Char)
      /\ Append(Body, c) \o Tail(out) = Body \o out
  BY <1>1, <1>2, MovesOver
<1>4. /\ Body = <<>> /\ c = TestByte => Body' = <<>> \/ Body' = Append(Body, c)
      /\ Body # <<>> \/ c # TestByte => Body' = Append(Body, c)
  BY BodyTakes
<1>5. Meant' = Meant /\ (AllCareful(history))' = AllCareful(history)
  BY <1>1, StreamStays
<1> HIDE DEF c
<1>6. CASE ~ AllCareful(history)
  <2>1. Body' = Body \/ Body' = Append(Body, c)
    BY <1>4
  <2>. QED
    BY <2>1, <1>1, <1>3, <1>6, CarelessGoesOn
<1>7. CASE AllCareful(history)
  <2> DEFINE call == Last(history)
             n == Len(Formats[call.format])
  <2>1. call \in Careful
    BY <1>1, <1>7, CarefulCall
  <2>2. PICK k \in 0 .. n : \E before \in Seq(Char) :
          /\ ptr = At(call.format, k) /\ Left(call.args, ArgIndex(Formats[call.format], k))
          /\ Meant = before \o Texts[call] /\ Body \o out = before \o Given(call, k)
    BY <1>1, <1>7 DEF ToldInv, Telling
  <2>3. PICK before \in Seq(Char) :
          /\ ptr = At(call.format, k) /\ Left(call.args, ArgIndex(Formats[call.format], k))
          /\ Meant = before \o Texts[call] /\ Body \o out = before \o Given(call, k)
    BY <2>2
  <2>4. Body # <<>> \/ c # TestByte
    <3>1. ASSUME Body = <<>> PROVE c # TestByte
      <4>1. PICK rest \in Seq(Byte) : Texts[call] = Given(call, k) \o rest
        BY <2>1, GivenBegins
      <4> DEFINE given == Given(call, k)
      <4>2. given \in Seq(Char) /\ rest \in Seq(Char)
        BY <2>1, GivenIs, BytesAreChars
      <4>3. Body \o out = out
        BY <3>1, <1>2, ConcatEmptySeq
      <4> HIDE DEF given
      <4>4. (before \o given) \o rest = before \o (given \o rest)
        BY <4>2, ConcatAssociative
      <4>5. Meant = out \o rest
        BY <2>3, <4>1, <4>3, <4>4 DEF given
      <4>6. Meant # <<>> /\ Head(Meant) = c
        BY <4>2, <4>5, <1>1, <1>2, HeadOf DEF c
      <4>. QED
        BY <4>6 DEF ToldInv
    <3>. QED
      BY <3>1
  <2>5. Body' = Append(Body, c)
    BY <2>4, <1>4
  <2>6. Body' \o out' = before \o Given(call, k) /\ call' = call
    BY <2>3, <2>5, <1>1, <1>3
  <2> DEFINE AtPiece(j, b) == /\ ptr = At(call.format, j)
                              /\ Left(call.args, ArgIndex(Formats[call.format], j))
                              /\ Meant = b \o Texts[call]
                              /\ Body \o out = b \o Given(call, j)
  <2>7. (Left(call.args, ArgIndex(Formats[call.format], k)))'
    BY <2>3, <2>6, <1>1 DEF Left
  <2>8. AtPiece(k, before)'
    BY <2>3, <2>6, <2>7, <1>1, <1>5
  <2>9. k \in 0 .. Len(Formats[call'.format])
    BY <2>6
  <2>10. Telling(call)' <=> \E j \in 0 .. Len(Formats[call'.format]) : \E b \in Seq(Char) : AtPiece(j, b)'
    BY DEF Telling
  <2> HIDE DEF AtPiece
  <2>11. Telling(call)'
    BY <2>8, <2>9, <2>10
  <2>. QED
    BY <2>11, <1>1, <1>5, <1>7 DEF ToldInv
<1>. QED
  BY <1>6, <1>7

(* No text begins with the byte that debug_init tests the port with.       *)
Distinct == \A call \in Careful : Texts[call] # <<>> => Head(Texts[call]) # TestByte

(* A call: nothing of its text has been brought to the port.               *)
LEMMA ToldCall ==
  ASSUME Distinct, ToldInv, DebugInv, ScanInv, NEW call \in Calls, Call(call)
  PROVE  /\ ToldInv' /\ Body' = Body /\ line' = line
         /\ Meant' = Meant \/ (Body = Meant /\ call \in Careful /\ Meant' = Meant \o Texts[call])
<1>1. /\ pc = "idle" /\ pc' = "scan" /\ ptr' = Start(call.format) /\ args' = call.args
      /\ history' = Append(history, call) /\ uart' = uart /\ line' = line /\ out' = out
  BY DEF Call
<1>2. Body \in Seq(Char) /\ Meant \in Seq(Char) /\ history \in Seq(Calls) /\ out = <<>>
  BY <1>1, StreamTyped DEF ToldInv
<1>3. Body' = Body
  BY <1>1 DEF Body
<1>4. /\ (AllCareful(history))' <=> AllCareful(history) /\ call \in Careful
      /\ (AllCareful(history))' => Meant' = Meant \o Texts[call]
      /\ ~ (AllCareful(history))' => Meant' = Meant
  <2> DEFINE g == history'
  <2>1. /\ AllCareful(g) <=> AllCareful(history) /\ call \in Careful
        /\ AllCareful(g) => MeantBy(g) = MeantBy(history) \o Texts[call]
        /\ ~ AllCareful(g) => MeantBy(g) = MeantBy(history)
    BY <1>1, <1>2, MeantGrows
  <2>. QED
    BY <2>1, MeantIs DEF AllCareful
<1>5. AllCareful(history) => Body = Meant
  BY <1>1 DEF ToldInv
<1>6. CASE ~ (AllCareful(history))'
  <2>1. Meant' = Meant
    BY <1>4, <1>6
  <2>2. Begins(Meant, Body)
    <3>1. CASE AllCareful(history)
      <4>1. Meant = Meant \o <<>> /\ <<>> \in Seq(Char)
        BY <1>2, ConcatEmptySeq, EmptySeq
      <4>2. Body = Meant \o <<>>
        BY <4>1, <3>1, <1>5
      <4>. QED
        BY <4>1, <4>2 DEF Begins
    <3>2. CASE ~ AllCareful(history)
      BY <3>2, <1>1 DEF ToldInv
    <3>. QED
      BY <3>1, <3>2
  <2>3. (Begins(Meant, Body))'
    BY <2>1, <2>2, <1>3 DEF Begins
  <2>4. ToldInv'
    BY <2>1, <2>3, <1>1, <1>2, <1>6 DEF ToldInv
  <2>. QED
    BY <2>1, <2>4, <1>1, <1>3
<1>7. CASE (AllCareful(history))'
  <2>1. /\ call \in Careful /\ AllCareful(history) /\ Body = Meant
        /\ Meant' = Meant \o Texts[call]
    BY <1>4, <1>5, <1>7
  <2> DEFINE f == call.format
             n == Len(Formats[f])
  <2>2. f \in DOMAIN Formats /\ n \in Nat
    BY <2>1, CarefulCalls
  <2>3. Last(history') = call
    BY <1>1, <1>2, AppendProperties DEF Last
  <2>4. /\ Start(f) \in Nat /\ Before(Formats[f], 0) = 0 /\ ArgIndex(Formats[f], 0) = 0
        /\ Given(call, 0) = <<>>
    <3>1. Formats[f] \in Seq(Seq(Byte))
      BY <2>2, FormatsTyped
    <3>. QED
      BY <3>1, <2>1, <2>2, StartIs, BeforeGrows, ArgIndexIs, GivenIs
  <2>5. ptr' = At(f, 0)
    BY <2>4, <1>1 DEF At
  <2>6. (Left(call.args, ArgIndex(Formats[f], 0)))'
    <3> DEFINE s == call.args
               l == Len(s)
    <3>1. l \in Nat
      BY <2>1, CarefulCalls
    <3> HIDE DEF l
    <3>2. 0 + l = l /\ \A i \in 1 .. l : 0 + i = i
      BY <3>1
    <3>3. 0 + Len(s) = Len(s) /\ \A i \in 1 .. Len(s) : s[i] = s[0 + i]
      BY <3>2 DEF l
    <3>. QED
      BY <3>3, <2>4, <1>1 DEF Left
  <2>7. Body' \o out' = Meant \o Given(call, 0)
    BY <2>1, <2>4, <1>1, <1>2, <1>3
  <2>8. PICK before \in Seq(Char) : before = Meant
    BY <1>2
  <2>9. ASSUME NEW q, q = Last(history') PROVE Telling(q)'
    <3>1. q = call
      BY <2>3, <2>9
    <3>2. /\ ptr' = At(q.format, 0) /\ (Left(q.args, ArgIndex(Formats[q.format], 0)))'
          /\ Meant' = before \o Texts[q] /\ Body' \o out' = before \o Given(q, 0)
      BY <3>1, <2>1, <2>5, <2>6, <2>7, <2>8
    <3>3. 0 \in 0 .. Len(Formats[q.format])
      <4> HIDE DEF n
      <4>1. 0 \in 0 .. n
        BY <2>2
      <4>. QED
        BY <4>1, <3>1 DEF n
    <3>. QED
      BY <3>2, <3>3 DEF Telling
  <2>10. (Telling(Last(history)))'
    BY <2>9
  <2>11. Meant' # <<>> => Head(Meant') # TestByte
    <3> DEFINE t == Texts[call]
    <3>1. t \in Seq(Char)
      <4>1. Given(call, n) \in Seq(Byte) /\ Given(call, n) = t
        <5> DEFINE G(k) == Given(call, k)
                   m == n
        <5>1. G(m) = t /\ \A k \in 0 .. m : G(k) \in Seq(Byte)
          BY <2>1, GivenIs
        <5> HIDE DEF G, m
        <5>2. m \in 0 .. m
          BY <2>2 DEF m
        <5>. QED
          BY <5>1, <5>2 DEF G, m
      <4>. QED
        BY <4>1, BytesAreChars
    <3>2. t # <<>> => Head(t) # TestByte
      BY <2>1 DEF Distinct
    <3> HIDE DEF t
    <3>3. CASE Meant = <<>>
      <4>1. Meant' = t
        BY <3>1, <3>3, <2>1, ConcatEmptySeq DEF t
      <4>. QED
        BY <4>1, <3>2
    <3>4. CASE Meant # <<>>
      <4>1. Head(Meant \o t) = Head(Meant) /\ Meant' = Meant \o t
        BY <3>1, <3>4, <2>1, <1>2, HeadOf DEF t
      <4>. QED
        BY <4>1, <3>4 DEF ToldInv
    <3>. QED
      BY <3>3, <3>4
  <2>12. ToldInv'
    BY <2>10, <2>11, <1>1, <1>2, <1>7 DEF ToldInv
  <2>. QED
    BY <2>1, <2>12, <1>1, <1>3
<1>. QED
  BY <1>6, <1>7

(* The last write of debug_init leaves the line as nobody has asked for    *)
(* anything, but for the test byte.                                        *)
LEMMA ToldInitWrite ==
  ASSUME ToldInv, DebugInv, ScanInv, PortInv, InitWrite
  PROVE  ToldInv' /\ Meant' = Meant /\ line' = line
<1>1. /\ pc = "init" /\ pc' \in {"init", "idle"} /\ out' = out /\ history' = history /\ line' = line
      /\ out = <<>>
  BY DEF InitWrite, ToldInv
<1>2. Meant' = Meant /\ (AllCareful(history))' = AllCareful(history)
  BY <1>1, StreamStays
<1>3. CASE pc' = "init"
  BY <1>1, <1>2, <1>3 DEF ToldInv
<1>4. CASE pc' = "idle"
  <2>1. line' = <<>> /\ history' = <<>> /\ Tested(uart'.fifo)
    BY <1>4, PortInit
  <2>2. history \in Seq(Calls) /\ history = <<>>
    BY <2>1, <1>1, StreamTyped
  <2>3. Meant = <<>> /\ AllCareful(history)
    BY <2>2, MeantTyped
  <2>4. Body' = <<>>
    <3>1. Body' = Untested(<<>> \o uart'.fifo)
      BY <2>1 DEF Body
    <3>2. Untested(<<>>) = <<>> /\ Untested(<<TestByte>>) = <<>>
      BY DEF Untested
    <3>3. <<>> \o <<>> = <<>> /\ <<>> \o <<TestByte>> = <<TestByte>>
      OBVIOUS
    <3>. QED
      BY <3>1, <3>2, <3>3, <2>1 DEF Tested
  <2>. QED
    BY <2>3, <2>4, <1>1, <1>2, <1>4 DEF ToldInv
<1>. QED
  BY <1>1, <1>2, <1>3, <1>4

(* Every step keeps the port as it was set up.                             *)
LEMMA PortNext ==
  ASSUME DebugInv, ScanInv, PortInv, [Next]_vars
  PROVE  PortInv'
<1>1. CASE InitWrite
  BY <1>1, PortInit
<1>2. CASE Send
  BY <1>2, PortSends
<1>3. CASE putc
  BY <1>3, BodyTakes
<1>4. ASSUME uart' = uart, pc # "init", pc' # "init" PROVE PortInv'
  BY <1>4 DEF PortInv, AsAgreed
<1>5. ASSUME NEW call \in Calls, Call(call) PROVE PortInv'
  BY <1>4, <1>5 DEF Call
<1>6. CASE EndOfText
  BY <1>4, <1>6 DEF EndOfText
<1>7. CASE Plain
  BY <1>4, <1>7 DEF Plain, Give
<1>8. CASE NoArgument
  BY <1>4, <1>8 DEF NoArgument, AtPercent, Give
<1>9. CASE NumberArgument
  BY <1>4, <1>9 DEF NumberArgument, AtPercent, Give
<1>10. CASE StringArgument
  BY <1>4, <1>10 DEF StringArgument, AtPercent, Give
<1>11. CASE CharArgument
  BY <1>4, <1>11 DEF CharArgument, AtPercent, Give
<1>12. CASE UNCHANGED vars
  BY <1>12 DEF vars, kernel, PortInv, SetUp, AsAgreed
<1>. QED
  BY <1>1, <1>2, <1>3, <1>5, <1>6, <1>7, <1>8, <1>9, <1>10, <1>11, <1>12 DEF Next, Step

(* Every step keeps what has been told.                                    *)
LEMMA ToldNext ==
  ASSUME Distinct, ToldInv, DebugInv, ScanInv, PortInv, [Next]_vars
  PROVE  ToldInv'
<1>1. CASE InitWrite
  BY <1>1, ToldInitWrite
<1>2. CASE Send
  <2>1. history' = history /\ pc' = pc /\ ptr' = ptr /\ args' = args /\ out' = out
    BY <1>2 DEF Send, kernel
  <2>2. pc # "init" => Body' = Body
    BY <1>2, BodySends
  <2>. QED
    BY <2>1, <2>2, ToldStays
<1>3. CASE putc
  BY <1>3, ToldPutc
<1>4. ASSUME NEW call \in Calls, Call(call) PROVE ToldInv'
  BY <1>4, ToldCall
<1>5. CASE EndOfText \/ Plain \/ NoArgument \/ NumberArgument \/ StringArgument \/ CharArgument
  <2>1. pc = "scan"
    BY <1>5 DEF EndOfText, Plain, NoArgument, NumberArgument, StringArgument, CharArgument, AtPercent
  <2>2. CASE AllCareful(history)
    BY <2>1, <2>2, <1>5, CarefulScans
  <2>3. CASE ~ AllCareful(history)
    <3>1. history' = history /\ line' = line /\ uart' = uart
      BY <1>5 DEF EndOfText, Plain, NoArgument, NumberArgument, StringArgument, CharArgument
    <3>2. \A text, next : Give(text, next) => pc' # "init" /\ (pc' # "put" => out' = <<>>)
      BY DEF Give
    <3>3. out = <<>>
      BY <2>1 DEF ToldInv
    <3>4. pc' # "init" /\ (pc' # "put" => out' = <<>>)
      <4>1. CASE EndOfText
        BY <4>1, <3>3 DEF EndOfText
      <4>2. CASE NumberArgument
        BY <4>2, <3>2, <3>3 DEF NumberArgument
      <4>3. CASE StringArgument
        BY <4>3, <3>2, <3>3 DEF StringArgument
      <4>4. CASE Plain \/ NoArgument \/ CharArgument
        BY <4>4, <3>2 DEF Plain, NoArgument, CharArgument
      <4>. QED
        BY <4>1, <4>2, <4>3, <4>4, <1>5
    <3>5. Body' = Body
      BY <3>1, StreamStays
    <3>. QED
      BY <3>1, <3>4, <3>5, <2>1, <2>3, CarelessGoesOn
  <2>. QED
    BY <2>2, <2>3
<1>6. CASE UNCHANGED vars
  <2>1. history' = history /\ pc' = pc /\ ptr' = ptr /\ args' = args /\ out' = out
    BY <1>6 DEF vars, kernel
  <2>2. Body' = Body
    BY <1>6 DEF vars, kernel, Body
  <2>. QED
    BY <2>1, <2>2, ToldStays
<1>. QED
  BY <1>1, <1>2, <1>3, <1>4, <1>5, <1>6 DEF Next, Step

(* Before debug_init nothing is asked for, and nothing on the line.        *)
LEMMA ToldBegins == Init => PortInv /\ ToldInv
<1> SUFFICES ASSUME Init PROVE PortInv /\ ToldInv
  OBVIOUS
<1>1. /\ line = <<>> /\ pc = "init" /\ step = 0 /\ out = <<>> /\ history = <<>> /\ uart.fifo = <<>>
  BY DEF Init
<1>2. PortInv
  BY <1>1 DEF PortInv, SetUp
<1>3. Meant = <<>>
  <2>1. <<>> \in Seq(Calls)
    BY EmptySeq
  <2>. QED
    BY <2>1, <1>1, MeantTyped
<1>4. ToldInv
  BY <1>1, <1>3 DEF ToldInv
<1>. QED
  BY <1>2, <1>4

(* A sequence up to the length of another.                                 *)
Cut(s, m) == SubSeq(s, 1, IF Len(s) < Len(m) THEN Len(s) ELSE Len(m))

(* What is heard is the line without the test byte, as far as something    *)
(* was meant.                                                              *)
LEMMA HeardIsCut == Heard = Cut(Untested(line), Meant) /\ Heard' = Cut(Untested(line'), Meant')
<1>1. Heard = Cut(Untested(line), Meant)
  BY DEF Heard, Cut, Untested
<1>2. Heard' = Cut(Untested(line'), Meant')
  BY DEF Heard, Cut, Untested
<1>. QED
  BY <1>1, <1>2

(* Cutting a sequence, and the same one with a character more.             *)
LEMMA CutIs ==
  ASSUME NEW s \in Seq(Char), NEW m \in Seq(Char)
  PROVE  /\ Len(s) <= Len(m) => Cut(s, m) = s
         /\ \A c \in Char : Len(m) <= Len(s) => Cut(Append(s, c), m) = Cut(s, m)
<1> DEFINE p == Len(s)
           q == Len(m)
<1>1. p \in Nat /\ q \in Nat
  BY LenProperties
<1>2. ASSUME p <= q PROVE Cut(s, m) = s
  <2>1. (IF p < q THEN p ELSE q) = p
    <3> HIDE DEF p, q
    <3>. QED
      BY <1>1, <1>2
  <2>2. SubSeq(s, 1, p) = s
    BY SubSeqFull
  <2>. QED
    BY <2>1, <2>2 DEF Cut
<1>3. ASSUME NEW c \in Char, q <= p PROVE Cut(Append(s, c), m) = Cut(s, m)
  <2> DEFINE r == Append(s, c)
             l == Len(r)
  <2>1. /\ r \in Seq(Char) /\ l = p + 1 /\ \A i \in 1 .. p : r[i] = s[i]
    BY AppendProperties
  <2>2. (IF p < q THEN p ELSE q) = q /\ (IF l < q THEN l ELSE q) = q
    <3> HIDE DEF p, q, l
    <3>. QED
      BY <1>1, <1>3, <2>1
  <2>3. Cut(s, m) = SubSeq(s, 1, q) /\ Cut(r, m) = SubSeq(r, 1, q)
    BY <2>2 DEF Cut
  <2>4. SubSeq(s, 1, q) = [i \in 1 .. q |-> s[i]] /\ SubSeq(r, 1, q) = [i \in 1 .. q |-> r[i]]
    <3>1. q \in 0 .. p /\ q \in 0 .. l
      <4> HIDE DEF p, q, l
      <4>. QED
        BY <1>1, <1>3, <2>1
    <3>2. SubSeq(s, 1, q) = Restrict(s, 1 .. q) /\ SubSeq(r, 1, q) = Restrict(r, 1 .. q)
      BY <3>1, <2>1, SubSeqRestrict
    <3>. QED
      BY <3>2 DEF Restrict
  <2> HIDE DEF r, l, p, q
  <2>5. \A i \in 1 .. q : r[i] = s[i]
    <3>1. \A i \in 1 .. q : i \in 1 .. p
      BY <1>1, <1>3
    <3>. QED
      BY <3>1, <2>1
  <2>. QED
    BY <2>3, <2>4, <2>5 DEF r
<1>. QED
  BY <1>2, <1>3

(* What begins another sequence is in its places.                          *)
LEMMA BeginsIs ==
  ASSUME NEW s \in Seq(Char), NEW t, Begins(s, t)
  PROVE  /\ t \in Seq(Char) /\ Len(s) <= Len(t) /\ Len(s) \in Nat /\ Len(t) \in Nat
         /\ \A i \in 1 .. Len(s) : t[i] = s[i]
<1>1. PICK rest \in Seq(Char) : t = s \o rest
  BY DEF Begins
<1> DEFINE p == Len(s)
           q == Len(rest)
           r == Len(t)
<1>2. /\ t \in Seq(Char) /\ r = p + q /\ p \in Nat /\ q \in Nat
      /\ \A i \in 1 .. p + q : t[i] = IF i <= p THEN s[i] ELSE rest[i - p]
  BY <1>1, ConcatProperties, LenProperties
<1> HIDE DEF p, q, r
<1>3. p <= r /\ r \in Nat
  BY <1>2
<1>4. \A i \in 1 .. p : t[i] = s[i]
  BY <1>2
<1>. QED
  BY <1>2, <1>3, <1>4 DEF p, r

(* While all calls are careful, nothing that was not meant is brought to   *)
(* the port.                                                               *)
LEMMA BodyBegins ==
  ASSUME ToldInv, DebugInv, ScanInv, pc # "init", AllCareful(history)
  PROVE  Begins(Body, Meant)
<1>1. Body \in Seq(Char) /\ Meant \in Seq(Char) /\ out \in Seq(Char)
  BY StreamTyped
<1>2. CASE pc = "idle"
  <2>1. Body = Meant
    BY <1>2 DEF ToldInv
  <2>2. <<>> \in Seq(Char) /\ Body = Body \o <<>>
    BY <1>1, EmptySeq, ConcatEmptySeq
  <2>. QED
    BY <2>1, <2>2 DEF Begins
<1>3. CASE pc # "idle"
  <2> DEFINE call == Last(history)
  <2>1. pc \in {"scan", "put"} /\ Telling(call)
    BY <1>3 DEF ToldInv, DebugInv, TypeOK
  <2>2. call \in Careful
    BY <2>1, CarefulCall
  <2>3. PICK k \in 0 .. Len(Formats[call.format]) : \E before \in Seq(Char) :
          Meant = before \o Texts[call] /\ Body \o out = before \o Given(call, k)
    BY <2>1 DEF Telling
  <2>4. PICK before \in Seq(Char) : Meant = before \o Texts[call] /\ Body \o out = before \o Given(call, k)
    BY <2>3
  <2> DEFINE given == Given(call, k)
             text == Texts[call]
  <2>5. PICK rest \in Seq(Byte) : text = given \o rest
    BY <2>2, GivenBegins
  <2>6. given \in Seq(Char) /\ rest \in Seq(Char)
    BY <2>2, GivenIs, BytesAreChars
  <2> HIDE DEF given, text
  <2>7. (before \o given) \o rest = before \o (given \o rest)
    BY <2>6, ConcatAssociative
  <2>8. (Body \o out) \o rest = Body \o (out \o rest) /\ out \o rest \in Seq(Char)
    BY SMTT(30), <2>6, <1>1, ConcatAssociative, ConcatProperties
  <2>9. Meant = Body \o (out \o rest)
    BY <2>4, <2>5, <2>7, <2>8 DEF given, text
  <2>. QED
    BY <2>8, <2>9 DEF Begins
<1>. QED
  BY <1>2, <1>3

(* The line carries the beginning of what the port was brought.            *)
LEMMA LineBegins ==
  ASSUME DebugInv, ScanInv
  PROVE  Untested(line) \in Seq(Char) /\ Begins(Untested(line), Body)
<1>1. line \in Seq(Char) /\ uart.fifo \in Seq(Char) /\ Body \in Seq(Char)
  BY StreamTyped
<1>2. Untested(line) \in Seq(Char) /\ (line = <<>> => Untested(line) = <<>>)
  <2>1. 0 \in Char
    BY DEF Char, Garbled
  <2>. QED
    BY <2>1, <1>1, UntestedMore
<1>3. CASE line # <<>>
  <2>1. Body = Untested(line) \o uart.fifo
    BY <1>1, <1>3, UntestedRest DEF Body
  <2>. QED
    BY <2>1, <1>1, <1>2 DEF Begins
<1>4. CASE line = <<>>
  <2>1. Body = <<>> \o Body
    BY <1>1, ConcatEmptySeq
  <2>. QED
    BY <2>1, <1>1, <1>2, <1>4 DEF Begins
<1>. QED
  BY <1>2, <1>3, <1>4

(* The port sends: the character that comes next of what was meant, or one *)
(* that nobody listens for: the test byte, or what is behind a call        *)
(* without a meaning.                                                      *)
LEMMA SendShows ==
  ASSUME ToldInv, DebugInv, ScanInv, PortInv, Send
  PROVE  /\ Meant' = Meant
         /\ \/ Heard' = Heard
            \/ Len(Heard) < Len(Meant) /\ Heard' = Append(Heard, Meant[Len(Heard) + 1])
<1> DEFINE s == Untested(line)
           c == Head(uart.fifo)
           t == Tail(uart.fifo)
<1>1. /\ history' = history /\ uart.fifo # <<>> /\ uart'.fifo = t
      /\ pc = "init" => line' = line
      /\ pc # "init" => line' = Append(line, c)
  BY PortSends DEF Send, kernel
<1>2. Meant' = Meant
  BY <1>1, StreamStays
<1>3. Heard = Cut(s, Meant) /\ Heard' = Cut(Untested(line'), Meant)
  BY <1>2, HeardIsCut
<1>4. CASE pc = "init"
  BY <1>1, <1>2, <1>3, <1>4
<1>5. CASE pc # "init"
  <2>1. /\ line \in Seq(Char) /\ uart.fifo \in Seq(Char) /\ Body \in Seq(Char) /\ Meant \in Seq(Char)
        /\ s \in Seq(Char)
    BY StreamTyped, LineBegins
  <2>2. c \in Char /\ t \in Seq(Char)
    BY <1>1, <2>1, HeadTailProperties
  <2> DEFINE p == Len(s)
             q == Len(Meant)
  <2>3. p \in Nat /\ q \in Nat
    BY <2>1, LenProperties
  <2>4. line' = Append(line, c) /\ line' \in Seq(Char) /\ line' # <<>>
    <3>1. line' = Append(line, c)
      BY <1>1, <1>5
    <3> HIDE DEF c
    <3>2. Append(line, c) \in Seq(Char) /\ Append(line, c) # <<>>
      BY <2>1, <2>2, AppendProperties
    <3>. QED
      BY <3>1, <3>2
  <2> HIDE DEF s, c, t
  <2>5. CASE line = <<>> /\ c = TestByte
    <3>1. Untested(line') = s
      BY <2>1, <2>2, <2>4, <2>5, UntestedMore DEF s
    <3>. QED
      BY <3>1, <1>2, <1>3
  <2>6. CASE ~ (line = <<>> /\ c = TestByte)
    <3>1. Untested(line') = Append(s, c)
      BY <2>1, <2>2, <2>4, <2>6, UntestedMore DEF s
    <3>2. CASE q <= p
      <4>1. Cut(Append(s, c), Meant) = Cut(s, Meant)
        BY <2>1, <2>2, <3>2, CutIs
      <4>. QED
        BY <4>1, <3>1, <1>2, <1>3
    <3>3. CASE p < q
      <4> DEFINE u == Append(s, c)
                 k == Len(u)
                 b == Len(Body)
      <4>1. u \in Seq(Char) /\ k = p + 1 /\ u[p + 1] = c
        BY <2>1, <2>2, AppendProperties
      <4>2. Body = u \o t
        <5>1. Body' = Body
          BY <1>5, BodySends
        <5>2. Body' = Untested(line' \o t)
          BY <1>1 DEF Body
        <5>3. Untested(line' \o t) = Untested(line') \o t
          BY <2>2, <2>4, UntestedRest
        <5>. QED
          BY <5>1, <5>2, <5>3, <3>1
      <4>3. Begins(u, Body)
        BY <4>2, <2>2 DEF Begins
      <4> HIDE DEF u, k, b, p, q
      <4>4. k <= b /\ b \in Nat /\ \A i \in 1 .. k : Body[i] = u[i]
        BY <4>1, <4>3, BeginsIs DEF k, b
      <4>5. p + 1 \in 1 .. k /\ p + 1 \in 1 .. b /\ p + 1 \in 1 .. q /\ p <= q /\ k <= q
        BY <4>1, <4>4, <2>3, <3>3
      <4>6. Meant[p + 1] = Body[p + 1]
        <5>1. CASE AllCareful(history)
          <6>1. Begins(Body, Meant)
            BY <5>1, <1>5, BodyBegins
          <6>2. \A i \in 1 .. b : Meant[i] = Body[i]
            BY <6>1, <2>1, BeginsIs DEF b
          <6>. QED
            BY <6>2, <4>5
        <5>2. CASE ~ AllCareful(history)
          <6>1. Begins(Meant, Body)
            BY <5>2, <1>5 DEF ToldInv
          <6>2. \A i \in 1 .. q : Body[i] = Meant[i]
            BY <6>1, <2>1, BeginsIs DEF q
          <6>. QED
            BY <6>2, <4>5
        <5>. QED
          BY <5>1, <5>2
      <4>7. c = Meant[p + 1]
        BY <4>1, <4>4, <4>5, <4>6
      <4>8. Cut(s, Meant) = s
        BY <2>1, <4>5, CutIs DEF p, q
      <4>9. Cut(u, Meant) = u
        BY <2>1, <4>1, <4>5, CutIs DEF k, q
      <4>10. Heard = s /\ Heard' = u
        BY <4>8, <4>9, <3>1, <1>3 DEF u
      <4>. QED
        BY <4>7, <4>10, <3>3, <1>2 DEF u, p, q
    <3>. QED
      BY <2>3, <3>2, <3>3
  <2>. QED
    BY <2>5, <2>6
<1>. QED
  BY <1>4, <1>5

(* A call asks for its text, and nothing of it is heard yet.               *)
LEMMA CallAsks ==
  ASSUME Distinct, ToldInv, DebugInv, ScanInv, NEW call \in Calls, Call(call)
  PROVE  /\ Heard' = Heard
         /\ Meant' = Meant \/ (call \in Careful /\ Meant' = Meant \o Texts[call])
<1>1. /\ line' = line
      /\ Meant' = Meant \/ (Body = Meant /\ call \in Careful /\ Meant' = Meant \o Texts[call])
  BY ToldCall
<1> DEFINE s == Untested(line)
<1>2. Heard = Cut(s, Meant) /\ Heard' = Cut(s, Meant')
  BY <1>1, HeardIsCut
<1>3. CASE Meant' = Meant
  BY <1>2, <1>3
<1>4. CASE Body = Meant /\ call \in Careful /\ Meant' = Meant \o Texts[call]
  <2>1. PICK asked \in Seq(Char) : asked = Meant'
    <3>1. history' \in Seq(Calls)
      BY ScanBegins DEF ScanInv
    <3>2. MeantBy(history') \in Seq(Char)
      <4> DEFINE u == CarefulUpTo(history')
      <4>1. u \in 0 .. Len(history') /\ Len(history') \in Nat /\ \A k \in 1 .. u : history'[k] \in Careful
        BY <3>1, UpToIs
      <4>2. u \in Nat
        BY <4>1
      <4>. QED
        BY <4>1, <4>2, TextsTyped, BytesAreChars DEF MeantBy
    <3>. QED
      BY <3>2, MeantIs
  <2> DEFINE text == Texts[call]
  <2>2. s \in Seq(Char) /\ Meant \in Seq(Char) /\ Begins(s, Meant)
    BY <1>4, LineBegins, StreamTyped
  <2>3. text \in Seq(Char)
    <3> DEFINE G(k) == Given(call, k)
               m == Len(Formats[call.format])
    <3>1. G(m) = text /\ \A k \in 0 .. m : G(k) \in Seq(Byte)
      BY <1>4, GivenIs
    <3>2. m \in Nat
      BY <1>4, CarefulCalls
    <3> HIDE DEF G, m, text
    <3>3. m \in 0 .. m
      BY <3>2
    <3>. QED
      BY <3>1, <3>3, BytesAreChars
  <2>4. Begins(Meant, asked)
    BY <2>1, <2>3, <1>4 DEF Begins
  <2> DEFINE p == Len(s)
             q == Len(Meant)
             r == Len(asked)
  <2>5. p <= q /\ q <= r /\ p \in Nat /\ q \in Nat /\ r \in Nat
    BY <2>2, <2>4, BeginsIs
  <2>6. p <= r
    <3> HIDE DEF p, q, r
    <3>. QED
      BY <2>5
  <2>7. Cut(s, Meant) = s /\ Cut(s, asked) = s
    BY <2>1, <2>2, <2>5, <2>6, CutIs
  <2>. QED
    BY <2>1, <2>7, <1>2, <1>4
<1>. QED
  BY <1>1, <1>3, <1>4

-----------------------------------------------------------------------------
(* debug_printf implements Console but for its fairness: what the port     *)
(* sends is, character by character, the texts that callers asked for, in  *)
(* the order of the calls: debug_putc loses no character to a port that is *)
(* not ready and doubles none, debug_init leaves the port at the agreed    *)
(* speed, and debug_puti gives numerals. The test byte that debug_init may *)
(* leave on the line can be told from a text only if no text begins with   *)
(* it (174, which is not ASCII: no string of the kernel has it).           *)
THEOREM EveryTextIsShown ==
  ASSUME Distinct
  PROVE  Spec => OnConsole!Init /\ [][OnConsole!Next]_(OnConsole!vars)
<1>1. Init => OnConsole!Init
  <2> SUFFICES ASSUME Init PROVE Meant = <<>> /\ Heard = <<>>
    BY DEF OnConsole!Init
  <2>1. line = <<>> /\ history = <<>> /\ <<>> \in Seq(Calls)
    BY EmptySeq DEF Init
  <2>2. Meant = <<>>
    BY <2>1, MeantTyped
  <2>3. Untested(<<>>) = <<>> /\ Cut(<<>>, <<>>) = <<>>
    <3>1. Untested(<<>>) = <<>>
      BY DEF Untested
    <3>2. SubSeq(<<>>, 1, 0) = <<>>
      BY SubSeqEmpty
    <3>. QED
      BY <3>1, <3>2, EmptySeq DEF Cut
  <2>. QED
    BY <2>1, <2>2, <2>3, HeardIsCut
<1>2. ToldInv /\ DebugInv /\ ScanInv /\ PortInv /\ [Next]_vars => [OnConsole!Next]_(OnConsole!vars)
  <2> SUFFICES ASSUME ToldInv, DebugInv, ScanInv, PortInv, [Next]_vars
               PROVE  [OnConsole!Next]_(OnConsole!vars)
    OBVIOUS
  <2>1. CASE Send
    <3>1. OnConsole!Show \/ UNCHANGED <<Meant, Heard>>
      BY <2>1, SendShows DEF OnConsole!Show
    <3>. QED
      BY <3>1 DEF OnConsole!Next, OnConsole!vars
  <2>2. ASSUME NEW call \in Calls, Call(call) PROVE [OnConsole!Next]_(OnConsole!vars)
    <3>1. OnConsole!Ask \/ UNCHANGED <<Meant, Heard>>
      BY <2>2, CallAsks DEF OnConsole!Ask
    <3>. QED
      BY <3>1 DEF OnConsole!Next, OnConsole!vars
  <2>3. CASE Step \/ UNCHANGED vars
    <3>1. history' = history /\ line' = line
      BY <2>3 DEF Step, vars, kernel, InitWrite, EndOfText, Plain, NoArgument, NumberArgument,
                  StringArgument, CharArgument, putc
    <3>2. Meant' = Meant /\ Heard' = Heard
      BY <3>1, StreamStays, HeardIsCut
    <3>. QED
      BY <3>2 DEF OnConsole!vars
  <2>. QED
    BY <2>1, <2>2, <2>3 DEF Next
<1>3. Distinct /\ ToldInv /\ DebugInv /\ ScanInv /\ PortInv /\ [Next]_vars => ToldInv' /\ PortInv'
  BY ToldNext, PortNext
<1>4. Distinct
  OBVIOUS
<1>. QED
  BY <1>1, <1>2, <1>3, <1>4, DebugInit, DebugNext, ScanInitInv, ScanStepInv, ToldBegins, PTL DEF Spec

-----------------------------------------------------------------------------
(* Every place of every format is a place of the kernel image.             *)
LEMMA PlacesInImage ==
  ASSUME NEW f \in DOMAIN Formats, NEW k \in 0 .. Len(Formats[f])
  PROVE  At(f, k) \in 1 .. Len(rodata)
<1> DEFINE l == Len(Formats)
           P == Formats[f]
           len == Len(FlattenSeq(P))
           b == Before(P, k)
           s == Before(Images, f - 1)
           e == Before(Images, f)
           all == Len(rodata)
<1>1. l \in Nat /\ f \in 1 .. l /\ P \in Seq(Seq(Byte))
  BY FormatsTyped
<1>2. b \in Nat /\ b <= len
  BY <1>1, BeforeGrows
<1>3. len \in Nat /\ Len(Image(P)) = len + 1
  BY ImageIs
<1>4. Images \in Seq(Seq(Byte)) /\ Len(Images) = l
  BY ImagesTyped
<1>5. rodata = FlattenSeq(Images)
  BY DEF rodata, Images
<1>6. f - 1 \in 0 .. l /\ f \in 0 .. l
  <2> HIDE DEF l
  <2>. QED
    BY <1>1
<1>7. s \in Nat /\ e \in Nat /\ e <= all /\ all \in Nat
  <2>1. /\ \A j \in 0 .. Len(Images) : /\ Before(Images, j) \in Nat
                                       /\ Before(Images, j) <= Len(FlattenSeq(Images))
        /\ Before(Images, Len(Images)) = Len(FlattenSeq(Images))
    BY <1>4, BeforeGrows
  <2>2. Len(Images) \in 0 .. Len(Images)
    <3> HIDE DEF l
    <3>. QED
      BY <1>1, <1>4
  <2>3. all = Len(FlattenSeq(Images)) /\ all \in Nat
    BY <1>5, <2>1, <2>2
  <2>. QED
    BY <1>4, <1>6, <2>1, <2>3
<1>8. e = s + Len(Images[f])
  BY <1>1, <1>4, BeforeGrows
<1>9. Images[f] = Image(P)
  BY DEF Images
<1>10. At(f, k) = (s + 1) + b
  BY StartIs DEF At
<1> DEFINE a == At(f, k)
<1>11. e = s + (len + 1) /\ a = (s + 1) + b
  BY <1>3, <1>8, <1>9, <1>10
<1> HIDE DEF len, b, s, e, all, a
<1>12. a \in 1 .. all
  BY <1>2, <1>3, <1>7, <1>11
<1>. QED
  BY <1>12 DEF a, all

(* As long as the call goes on, msg is in the image.                       *)
LEMMA StaysInImage == ScanInv /\ pc \in {"scan", "put"} => ptr \in 1 .. Len(rodata)
<1> SUFFICES ASSUME ScanInv, pc \in {"scan", "put"} PROVE ptr \in 1 .. Len(rodata)
  OBVIOUS
<1>1. PICK f \in DOMAIN Formats : \E k \in 0 .. Len(Formats[f]) : Here(Last(history), f, k)
  BY DEF ScanInv, Within
<1>. QED
  BY <1>1, PlacesInImage DEF Here

(* A step of debug_printf that looks at the format: msg goes on, or it is  *)
(* the last step.                                                          *)
LEMMA PrintfGoesOn ==
  ASSUME ScanInv, [Next]_vars, kernel' # kernel, pc = "scan"
  PROVE  pc' \in {"idle", "wild"} \/ (pc' \in {"scan", "put"} /\ ptr' \in {ptr + 1, ptr + 2})
<1>1. pc # "init" /\ pc # "idle" /\ pc # "put"
  OBVIOUS
<1>2. EndOfText \/ Plain \/ NoArgument \/ NumberArgument \/ StringArgument \/ CharArgument
  BY <1>1 DEF Next, Step, Send, vars, InitWrite, Call, putc, kernel
<1>. QED
  BY <1>2 DEF EndOfText, Plain, NoArgument, NumberArgument, StringArgument, CharArgument,
              Give, AfterConversion

(* Every step of debug_printf brings the call nearer to its end, for every *)
(* image, format and list of arguments, passed or not: it reads within its *)
(* string, and its steps go on in the image and stay in it, or leave fewer *)
(* characters to put.                                                      *)
THEOREM PrintfGoesForward == Spec => PrintfAdvances
<1> DEFINE A == kernel' # kernel /\ pc \in {"scan", "put"} =>
                  \/ pc' \in {"idle", "wild"}
                  \/ ptr' \in ptr + 1 .. Len(rodata)
                  \/ ptr' = ptr /\ Len(out') \in 0 .. Len(out) - 1
<1>1. ASSUME DebugInv, ScanInv, [Next]_vars PROVE A
  <2> SUFFICES ASSUME kernel' # kernel, pc \in {"scan", "put"}, pc' \notin {"idle", "wild"}
               PROVE  \/ ptr' \in ptr + 1 .. Len(rodata)
                      \/ ptr' = ptr /\ Len(out') \in 0 .. Len(out) - 1
    OBVIOUS
  <2>1. CASE pc = "scan"
    <3>1. pc' \in {"scan", "put"} /\ ptr' \in {ptr + 1, ptr + 2}
      BY <1>1, <2>1, PrintfGoesOn
    <3>2. ptr \in 1 .. Len(rodata)
      BY <1>1, StaysInImage
    <3>3. ptr' \in 1 .. Len(rodata)
      <4>1. ScanInv'
        BY <1>1, ScanStepInv
      <4>2. PICK f \in DOMAIN Formats : \E k \in 0 .. Len(Formats[f]) : ptr' = At(f, k)
        BY <3>1, <4>1 DEF ScanInv, Within, Here
      <4>. QED
        BY <4>2, PlacesInImage
    <3> DEFINE p == ptr
               q == ptr'
               all == Len(rodata)
    <3>4. p \in 1 .. all /\ q \in 1 .. all /\ q \in {p + 1, p + 2}
      BY <3>1, <3>2, <3>3
    <3> HIDE DEF p, q, all
    <3>5. q \in p + 1 .. all
      BY <3>4
    <3>. QED
      BY <3>5 DEF p, q, all
  <2>2. CASE pc = "put"
    <3>1. putc
      BY <1>1, <2>2 DEF Next, Step, Send, vars, kernel, InitWrite, Call, EndOfText, Plain,
                        NoArgument, NumberArgument, StringArgument, CharArgument, AtPercent
    <3>2. out \in Seq(Byte) /\ out # <<>>
      BY <1>1, <2>2 DEF DebugInv, TypeOK
    <3> DEFINE l == Len(out)
               t == Len(Tail(out))
    <3>3. t = l - 1 /\ l \in Nat /\ l > 0
      BY <3>2, HeadTailProperties, LenProperties, EmptySeq
    <3>4. ptr' = ptr /\ out' = Tail(out)
      BY <3>1 DEF putc
    <3> HIDE DEF l, t
    <3>5. t \in 0 .. l - 1
      BY <3>3
    <3>. QED
      BY <3>4, <3>5 DEF l, t
  <2>. QED
    BY <2>1, <2>2
<1>2. DebugInv /\ ScanInv /\ StaysInFormat' /\ [Next]_vars =>
        [/\ StaysInFormat'
         /\ kernel' # kernel /\ pc \in {"scan", "put"} =>
              \/ pc' \in {"idle", "wild"}
              \/ ptr' \in ptr + 1 .. Len(rodata)
              \/ ptr' = ptr /\ Len(out') \in 0 .. Len(out) - 1]_vars
  BY <1>1
<1>. QED
  BY <1>2, DebugInit, DebugNext, ScanInitInv, ScanStepInv, PrintfStaysInFormat, PTL
  DEF Spec, PrintfAdvances

=============================================================================
