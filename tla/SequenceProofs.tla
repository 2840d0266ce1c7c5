----------------------------- MODULE SequenceProofs -----------------------------
(***************************************************************************)
(* Facts about the recursive functions on sequences the models are built   *)
(* from.  Induction is over sets of numbers: the numbers a claim holds for *)
(* are a set that has 0 and, with each number, the next one.               *)
(***************************************************************************)
EXTENDS SequencesExt, SequenceTheorems, WellFoundedInduction, TLAPS

-------------------------------------------------------------------------------
(* Induction.                                                              *)

LEMMA Least ==
  ASSUME NEW U, U \subseteq Nat, U # {}
  PROVE  \E x \in U : \A y \in U : ~(y < x)
  <1> DEFINE R == OpToRel(<, Nat)
  <1>1. IsWellFoundedOn(R, Nat)
    BY NatLessThanWellFounded
  <1>2. \A x, y \in Nat : x < y => <<x, y>> \in R
    BY DEF OpToRel
  <1> HIDE DEF R
  <1>3. PICK x \in U : \A y \in U : ~(<<y, x>> \in R)
    BY <1>1, WFMin, Zenon
  <1> QED BY <1>2, <1>3

LEMMA SetInduction ==
  ASSUME NEW S, 0 \in S, \A n \in Nat : n \in S => n + 1 \in S
  PROVE  Nat \subseteq S
  <1> DEFINE T == Nat \ S
  <1>1. SUFFICES ASSUME T # {} PROVE FALSE
    OBVIOUS
  <1>2. PICK x \in T : \A y \in T : ~(y < x)
    BY <1>1, Least
  <1>3. x # 0
    OBVIOUS
  <1>4. x - 1 \in T
    BY <1>2, <1>3
  <1> QED BY <1>2, <1>4

(* A function that is given by its first value and by a step exists. *)
Follows(g, base, F, n) == g[1] = base /\ \A i \in 1..n : g[i + 1] = F[<<i, g[i]>>]

LEMMA Recursion ==
  ASSUME NEW X, NEW base \in X, NEW F \in [Nat \X X -> X], NEW N \in Nat
  PROVE  \E g \in [1..(N + 1) -> X] : Follows(g, base, F, N)
  <1> DEFINE S == {n \in Nat : \E g \in [1..(n + 1) -> X] : Follows(g, base, F, n)}
  <1>1. 0 \in S
    <2> DEFINE g == [i \in 1..1 |-> base]
    <2>1. g \in [1..(0 + 1) -> X] /\ Follows(g, base, F, 0)
      BY DEF Follows
    <2> QED BY <2>1
  <1>2. ASSUME NEW n \in Nat, n \in S PROVE n + 1 \in S
    <2>1. PICK g \in [1..(n + 1) -> X] : Follows(g, base, F, n)
      BY <1>2
    <2> DEFINE last == F[<<n + 1, g[n + 1]>>]
               h == [i \in 1..(n + 2) |-> IF i = n + 2 THEN last ELSE g[i]]
    <2>2. last \in X
      <3>1. <<n + 1, g[n + 1]>> \in Nat \X X
        OBVIOUS
      <3> QED BY <3>1
    <2> HIDE DEF last
    <2>3. h \in [1..((n + 1) + 1) -> X]
      <3>1. (n + 1) + 1 = n + 2
        OBVIOUS
      <3>2. \A i \in 1..(n + 2) : h[i] \in X
        BY <2>2
      <3> QED BY <3>1, <3>2
    <2>4. h[1] = base
      BY <2>1 DEF Follows
    <2>5. ASSUME NEW i \in 1..(n + 1) PROVE h[i + 1] = F[<<i, h[i]>>]
      <3>1. CASE i = n + 1
        <4>1. h[(n + 1) + 1] = last /\ h[n + 1] = g[n + 1]
          OBVIOUS
        <4> HIDE DEF h
        <4>2. h[(n + 1) + 1] = F[<<n + 1, h[n + 1]>>]
          BY <4>1 DEF last
        <4> QED BY <3>1, <4>2
      <3>2. CASE i # n + 1
        <4>1. i \in 1..n /\ h[i] = g[i] /\ h[i + 1] = g[i + 1]
          BY <3>2
        <4> QED BY <2>1, <4>1 DEF Follows
      <3> QED BY <3>1, <3>2
    <2> HIDE DEF h
    <2>6. Follows(h, base, F, n + 1)
      BY <2>4, <2>5 DEF Follows
    <2> QED BY <2>3, <2>6
  <1> HIDE DEF S
  <1>3. N \in S
    BY <1>1, <1>2, SetInduction
  <1> QED BY <1>3 DEF S

-------------------------------------------------------------------------------
(* Sequences one after the other.                                          *)

LEMMA Concatenated ==
  ASSUME NEW E, NEW a \in Seq(E), NEW b \in Seq(E)
  PROVE  /\ a \o b \in Seq(E) /\ Len(a \o b) = Len(a) + Len(b)
         /\ \A k \in 1..Len(a) : (a \o b)[k] = a[k]
         /\ \A k \in 1..Len(b) : (a \o b)[Len(a) + k] = b[k]
         /\ \A k \in 1..(Len(a) + Len(b)) : k \notin 1..Len(a) => k - Len(a) \in 1..Len(b)
  OBVIOUS

LEMMA ConcatenatedSet ==
  ASSUME NEW E, NEW a \in Seq(E), NEW b \in Seq(E)
  PROVE  ToSet(a \o b) = ToSet(a) \union ToSet(b)
  <1>1. ASSUME NEW x \in ToSet(a \o b) PROVE x \in ToSet(a) \union ToSet(b)
    <2>1. PICK k \in 1..(Len(a) + Len(b)) : x = (a \o b)[k]
      BY Concatenated DEF ToSet
    <2>2. CASE k \in 1..Len(a)
      BY <2>1, <2>2 DEF ToSet
    <2>3. CASE k \notin 1..Len(a)
      <3>1. k - Len(a) \in 1..Len(b) /\ x = b[k - Len(a)]
        BY <2>1, <2>3
      <3> QED BY <3>1 DEF ToSet
    <2> QED BY <2>2, <2>3
  <1>2. ASSUME NEW x \in ToSet(a) PROVE x \in ToSet(a \o b)
    <2>1. PICK k \in 1..Len(a) : x = a[k]
      BY DEF ToSet
    <2>2. k \in DOMAIN (a \o b) /\ x = (a \o b)[k]
      BY <2>1
    <2> QED BY <2>2 DEF ToSet
  <1>3. ASSUME NEW x \in ToSet(b) PROVE x \in ToSet(a \o b)
    <2>1. PICK k \in 1..Len(b) : x = b[k]
      BY DEF ToSet
    <2>2. Len(a) + k \in DOMAIN (a \o b) /\ x = (a \o b)[Len(a) + k]
      BY <2>1
    <2> QED BY <2>2 DEF ToSet
  <1> QED BY <1>1, <1>2, <1>3

(* FlattenSeq is given by what it is of each beginning of the sequence. *)
Flattens(g, seqs) ==
    g[1] = <<>> /\ \A n \in 1..Len(seqs) : g[n + 1] = g[n] \o seqs[n]

LEMMA FlattenIs ==
  ASSUME NEW E, NEW seqs \in Seq(Seq(E)), NEW g \in [1..(Len(seqs) + 1) -> Seq(E)],
         Len(seqs) # 0, Flattens(g, seqs)
  PROVE  FlattenSeq(seqs) = g[Len(seqs) + 1]
  <1> DEFINE N == Len(seqs)
             f == [n \in 1..N |-> g[n + 1]]
             Same(h) == h = [n \in 1..N |-> IF n = 1 THEN seqs[n] ELSE h[n - 1] \o seqs[n]]
  <1>1. Same(f)
    <2>1. ASSUME NEW n \in 1..N
          PROVE  f[n] = IF n = 1 THEN seqs[n] ELSE f[n - 1] \o seqs[n]
      <3>1. seqs[n] \in Seq(E)
        BY ElementOfSeq, Zenon
      <3>2. g[n + 1] = g[n] \o seqs[n]
        BY Zenon DEF Flattens
      <3>3. CASE n = 1
        <4>1. g[1] = <<>>
          BY DEF Flattens
        <4>2. g[n + 1] = seqs[n]
          BY <3>1, <3>2, <3>3, <4>1, ConcatEmptySeq
        <4> QED BY <3>3, <4>2
      <3>4. CASE n # 1
        <4>1. n - 1 \in 1..N /\ (n - 1) + 1 = n
          BY <3>4
        <4>2. f[n - 1] = g[n]
          BY <4>1
        <4> QED BY <3>2, <3>4, <4>2
      <3> QED BY <3>3, <3>4
    <2> QED BY <2>1
  <1>2. ASSUME NEW h, Same(h) PROVE h = f
    <2> DEFINE S == {n \in Nat : n \in 1..N => h[n] = f[n]}
    <2>1. \A n \in 1..N : h[n] = IF n = 1 THEN seqs[n] ELSE h[n - 1] \o seqs[n]
      BY <1>2
    <2>2. \A n \in 1..N : f[n] = IF n = 1 THEN seqs[n] ELSE f[n - 1] \o seqs[n]
      BY <1>1
    <2> HIDE DEF f
    <2>3. 0 \in S
      OBVIOUS
    <2>4. ASSUME NEW n \in Nat, n \in S PROVE n + 1 \in S
      <3>1. SUFFICES ASSUME n + 1 \in 1..N PROVE h[n + 1] = f[n + 1]
        OBVIOUS
      <3>2. CASE n = 0
        BY <2>1, <2>2, <3>1, <3>2
      <3>3. CASE n # 0
        <4>1. n \in 1..N /\ (n + 1) - 1 = n /\ n + 1 # 1 /\ h[n] = f[n]
          BY <2>4, <3>1, <3>3
        <4> QED BY <2>1, <2>2, <3>1, <4>1
      <3> QED BY <3>2, <3>3
    <2> HIDE DEF S
    <2>5. Nat \subseteq S
      BY <2>3, <2>4, SetInduction
    <2>6. \A n \in 1..N : h[n] = f[n]
      BY <2>5 DEF S
    <2>7. h = [n \in 1..N |-> h[n]] /\ f = [n \in 1..N |-> f[n]]
      BY <1>1, <1>2
    <2> QED BY <2>6, <2>7
  <1>3. FlattenSeq(seqs) = f[N]
    BY <1>1, <1>2 DEF FlattenSeq
  <1> QED BY <1>3

LEMMA FlattenSteps ==
  ASSUME NEW E, NEW seqs \in Seq(Seq(E))
  PROVE  \E g \in [1..(Len(seqs) + 1) -> Seq(E)] :
           Flattens(g, seqs) /\ FlattenSeq(seqs) = g[Len(seqs) + 1]
  <1> DEFINE N == Len(seqs)
  <1>0. PICK X : X = Seq(E)
    OBVIOUS
  <1> DEFINE F == [p \in Nat \X X |-> IF p[1] \in 1..N THEN p[2] \o seqs[p[1]] ELSE <<>>]
  <1>1. F \in [Nat \X X -> X]
    <2>1. ASSUME NEW n \in Nat, NEW s \in Seq(E)
          PROVE  (IF n \in 1..N THEN s \o seqs[n] ELSE <<>>) \in Seq(E)
      <3>1. n \in 1..N => seqs[n] \in Seq(E)
        BY ElementOfSeq
      <3>2. n \in 1..N => s \o seqs[n] \in Seq(E)
        BY <3>1, ConcatProperties
      <3>3. <<>> \in Seq(E)
        BY EmptySeq
      <3> QED BY <3>2, <3>3
    <2> QED BY <1>0, <2>1
  <1>2. ASSUME NEW n \in 1..N, NEW s \in X PROVE F[<<n, s>>] = s \o seqs[n]
    <2>1. <<n, s>> \in Nat \X X /\ <<n, s>>[1] = n /\ <<n, s>>[2] = s
      OBVIOUS
    <2> QED BY <2>1
  <1> HIDE DEF F
  <1>3. N \in Nat /\ <<>> \in X
    BY <1>0
  <1>4. PICK g \in [1..(N + 1) -> X] : Follows(g, <<>>, F, N)
    <2> HIDE DEF N
    <2> QED BY <1>1, <1>3, Recursion
  <1>5. ASSUME NEW n \in 1..N PROVE g[n + 1] = g[n] \o seqs[n]
    <2>1. g[n] \in X
      <3>1. n \in 1..(N + 1)
        OBVIOUS
      <3> HIDE DEF N
      <3> QED BY <3>1
    <2>2. g[n + 1] = F[<<n, g[n]>>]
      BY <1>4, Zenon DEF Follows
    <2>3. F[<<n, g[n]>>] = g[n] \o seqs[n]
      BY <1>2, <2>1, Zenon
    <2> QED BY <2>2, <2>3, Zenon
  <1>6. Flattens(g, seqs)
    BY <1>4, <1>5 DEF Flattens, Follows
  <1>7. FlattenSeq(seqs) = g[N + 1]
    <2>1. CASE N = 0
      <3>1. FlattenSeq(seqs) = seqs
        BY <2>1 DEF FlattenSeq
      <3>2. seqs = <<>>
        BY <2>1
      <3> QED BY <1>4, <2>1, <3>1, <3>2 DEF Follows
    <2>2. CASE N # 0
      BY <1>0, <1>6, <2>2, FlattenIs
    <2> QED BY <2>1, <2>2
  <1> QED BY <1>0, <1>6, <1>7

(* What flattening brings together: nothing is lost, nothing is added. *)
Gathered(seqs, n) == UNION {ToSet(seqs[i]) : i \in 1..n}

LEMMA GatheredSteps ==
  ASSUME NEW E, NEW seqs \in Seq(Seq(E)), NEW g \in [1..(Len(seqs) + 1) -> Seq(E)],
         Flattens(g, seqs)
  PROVE  ToSet(g[Len(seqs) + 1]) = Gathered(seqs, Len(seqs))
  <1> DEFINE N == Len(seqs)
  <1>2. ASSUME NEW n \in 1..N PROVE ToSet(g[n + 1]) = ToSet(g[n]) \union ToSet(seqs[n])
    <2>1. g[n] \in Seq(E)
      <3>1. n \in 1..(Len(seqs) + 1)
        OBVIOUS
      <3> QED BY <3>1, Zenon
    <2>2. seqs[n] \in Seq(E)
      BY ElementOfSeq, Zenon
    <2>3. ToSet(g[n] \o seqs[n]) = ToSet(g[n]) \union ToSet(seqs[n])
      BY <2>1, <2>2, ConcatenatedSet
    <2>4. g[n + 1] = g[n] \o seqs[n]
      BY Zenon DEF Flattens
    <2> QED BY <2>3, <2>4
  <1>3. ToSet(g[1]) = {}
    BY DEF ToSet, Flattens
  <1> DEFINE S == {n \in Nat : n \in 0..N => ToSet(g[n + 1]) = Gathered(seqs, n)}
  <1>4. 0 \in S
    BY <1>3 DEF Gathered
  <1>5. ASSUME NEW n \in Nat, n \in S PROVE n + 1 \in S
    <2>1. SUFFICES ASSUME n + 1 \in 0..N
                   PROVE  ToSet(g[(n + 1) + 1]) = Gathered(seqs, n + 1)
      OBVIOUS
    <2>2. ToSet(g[n + 1]) = Gathered(seqs, n)
      BY <1>5, <2>1
    <2>3. ToSet(g[(n + 1) + 1]) = ToSet(g[n + 1]) \union ToSet(seqs[n + 1])
      <3>1. n + 1 \in 1..N
        BY <2>1
      <3> QED BY <1>2, <3>1, Zenon
    <2>4. 1..(n + 1) = (1..n) \union {n + 1}
      OBVIOUS
    <2> QED BY <2>2, <2>3, <2>4 DEF Gathered
  <1> HIDE DEF S
  <1>6. Nat \subseteq S
    BY <1>4, <1>5, SetInduction
  <1> QED BY <1>6 DEF S

LEMMA FlattenedSet ==
  ASSUME NEW E, NEW seqs \in Seq(Seq(E))
  PROVE  FlattenSeq(seqs) \in Seq(E) /\ ToSet(FlattenSeq(seqs)) = Gathered(seqs, Len(seqs))
  <1>1. Len(seqs) + 1 \in 1..(Len(seqs) + 1)
    OBVIOUS
  <1>2. ASSUME NEW g \in [1..(Len(seqs) + 1) -> Seq(E)], Flattens(g, seqs),
               FlattenSeq(seqs) = g[Len(seqs) + 1]
        PROVE  FlattenSeq(seqs) \in Seq(E) /\ ToSet(FlattenSeq(seqs)) = Gathered(seqs, Len(seqs))
    <2>1. g[Len(seqs) + 1] \in Seq(E)
      BY <1>1, Zenon
    <2>2. ToSet(g[Len(seqs) + 1]) = Gathered(seqs, Len(seqs))
      BY <1>2, GatheredSteps, Zenon
    <2> QED BY <1>2, <2>1, <2>2, Zenon
  <1> QED BY <1>2, FlattenSteps, Zenon

LEMMA FlattenNone == FlattenSeq(<<>>) = <<>>
  <1>1. PICK E : E = {}
    OBVIOUS
  <1>2. <<>> \in Seq(Seq(E)) /\ Len(<<>>) = 0
    OBVIOUS
  <1>3. PICK g : Flattens(g, <<>>) /\ FlattenSeq(<<>>) = g[0 + 1]
    BY <1>2, FlattenSteps
  <1> QED BY <1>3 DEF Flattens

LEMMA FlattenOne ==
  ASSUME NEW E, NEW s \in Seq(E)
  PROVE  FlattenSeq(<<s>>) = s
  <1>1. <<s>> \in Seq(Seq(E)) /\ Len(<<s>>) = 1 /\ <<s>>[1] = s
    OBVIOUS
  <1>2. PICK g : Flattens(g, <<s>>) /\ FlattenSeq(<<s>>) = g[1 + 1]
    BY <1>1, FlattenSteps
  <1>3. g[1] = <<>> /\ g[1 + 1] = g[1] \o s
    <2>1. 1 \in 1..Len(<<s>>)
      BY <1>1
    <2>2. g[1] = <<>> /\ g[1 + 1] = g[1] \o <<s>>[1]
      BY <1>2, <2>1, Zenon DEF Flattens
    <2> QED BY <1>1, <2>2
  <1> QED BY <1>2, <1>3, ConcatEmptySeq

(* What comes of two sequences is what comes of one after the other.       *)
LEMMA FlattenJoined ==
  ASSUME NEW E, NEW a \in Seq(Seq(E)), NEW b \in Seq(Seq(E))
  PROVE  FlattenSeq(a \o b) = FlattenSeq(a) \o FlattenSeq(b)
  <1>1. PICK m, n : m = Len(a) /\ n = Len(b) /\ m \in Nat /\ n \in Nat
    BY LenProperties
  <1>2. PICK v : v = FlattenSeq(a) /\ v \in Seq(E)
    BY FlattenedSet
  <1>3. CASE n = 0
    <2>1. b = <<>>
      BY <1>1, <1>3, EmptySeq
    <2>2. a \o b = a
      BY <2>1, ConcatEmptySeq
    <2>3. FlattenSeq(b) = <<>>
      BY <2>1, FlattenNone
    <2> QED BY <1>2, <2>2, <2>3, ConcatEmptySeq
  <1>4. CASE n # 0
    <2>1. PICK g \in [1..(m + 1) -> Seq(E)] : Flattens(g, a) /\ v = g[m + 1]
      BY <1>1, <1>2, FlattenSteps
    <2>2. PICK h \in [1..(n + 1) -> Seq(E)] : Flattens(h, b) /\ FlattenSeq(b) = h[n + 1]
      BY <1>1, FlattenSteps
    <2>3. PICK s : s = a \o b
      OBVIOUS
    <2>4. /\ s \in Seq(Seq(E)) /\ Len(s) = m + n
          /\ \A k \in 1..m : s[k] = a[k]
          /\ \A k \in 1..n : s[m + k] = b[k]
      BY <1>1, <2>3, Concatenated
    <2>5. PICK f : f = [k \in 1..(m + n + 1) |-> IF k <= m + 1 THEN g[k] ELSE v \o h[k - m]]
      OBVIOUS
    <2>6. /\ \A k \in 1..(m + 1) : f[k] = g[k]
          /\ \A k \in 1..n : f[m + 1 + k] = v \o h[k + 1]
      <3>1. \A k \in 1..(m + 1) : k \in 1..(m + n + 1) /\ k <= m + 1
        BY <1>1
      <3>2. \A k \in 1..n : m + 1 + k \in 1..(m + n + 1) /\ ~(m + 1 + k <= m + 1) /\ (m + 1 + k) - m = k + 1
        BY <1>1
      <3> QED BY <2>5, <3>1, <3>2
    <2>7. f \in [1..(m + n + 1) -> Seq(E)]
      <3>1. ASSUME NEW k \in 1..(m + n + 1) PROVE (IF k <= m + 1 THEN g[k] ELSE v \o h[k - m]) \in Seq(E)
        <4>1. CASE k <= m + 1
          <5>1. k \in 1..(m + 1)
            BY <1>1, <4>1
          <5> QED BY <4>1, <5>1
        <4>2. CASE ~(k <= m + 1)
          <5>1. k - m \in 1..(n + 1)
            BY <1>1, <4>2
          <5>2. h[k - m] \in Seq(E)
            BY <5>1
          <5>3. v \o h[k - m] \in Seq(E)
            BY <1>2, <5>2, ConcatProperties
          <5> QED BY <4>2, <5>3
        <4> QED BY <4>1, <4>2
      <3> QED BY <2>5, <3>1
    <2>8. f[1] = <<>>
      <3>1. 1 \in 1..(m + 1) /\ g[1] = <<>>
        BY <1>1, <2>1 DEF Flattens
      <3> QED BY <2>6, <3>1
    <2>9. ASSUME NEW k \in 1..(m + n) PROVE f[k + 1] = f[k] \o s[k]
      <3>1. CASE k \in 1..m
        <4>1. k \in 1..(m + 1) /\ k + 1 \in 1..(m + 1)
          BY <1>1, <3>1
        <4>2. g[k + 1] = g[k] \o a[k]
          BY <1>1, <2>1, <3>1 DEF Flattens
        <4> QED BY <2>4, <2>6, <3>1, <4>1, <4>2
      <3>2. CASE ~(k \in 1..m)
        <4>1. PICK l : l = k - m /\ l \in 1..n /\ k = m + l /\ k + 1 = m + 1 + l
          BY <1>1, <3>2
        <4>2. f[k + 1] = v \o h[l + 1] /\ s[k] = b[l]
          BY <2>4, <2>6, <4>1
        <4>3. h[l + 1] = h[l] \o b[l]
          BY <1>1, <2>2, <4>1 DEF Flattens
        <4>4. h[l] \in Seq(E) /\ b[l] \in Seq(E)
          <5>1. l \in 1..(n + 1)
            BY <1>1, <4>1
          <5>2. b[l] \in Seq(E)
            BY <1>1, <4>1, ElementOfSeq
          <5> QED BY <5>1, <5>2
        <4>5. v \o (h[l] \o b[l]) = (v \o h[l]) \o b[l]
          <5>1. PICK x \in Seq(E), y \in Seq(E) : x = h[l] /\ y = b[l]
            BY <4>4
          <5>2. v \in Seq(E)
            BY <1>2
          <5>3. (v \o x) \o y = v \o (x \o y)
            BY <5>2, ConcatAssociative
          <5> QED BY <5>1, <5>3
        <4>6. f[k] = v \o h[l]
          <5>1. CASE l = 1
            <6>1. k = m + 1 /\ k \in 1..(m + 1)
              BY <1>1, <4>1, <5>1
            <6>2. f[k] = v
              BY <2>1, <2>6, <6>1
            <6>3. h[l] = <<>>
              BY <2>2, <5>1 DEF Flattens
            <6> QED BY <1>2, <6>2, <6>3, ConcatEmptySeq
          <5>2. CASE l # 1
            <6>1. l - 1 \in 1..n /\ m + 1 + (l - 1) = k /\ (l - 1) + 1 = l
              BY <1>1, <4>1, <5>2
            <6> QED BY <2>6, <6>1
          <5> QED BY <5>1, <5>2
        <4> QED BY <4>2, <4>3, <4>5, <4>6
      <3> QED BY <3>1, <3>2
    <2>10. FlattenSeq(s) = f[m + n + 1]
      <3>1. Flattens(f, s)
        BY <2>4, <2>8, <2>9 DEF Flattens
      <3>2. f \in [1..(Len(s) + 1) -> Seq(E)] /\ Len(s) # 0
        BY <1>1, <1>4, <2>4, <2>7
      <3> QED BY <2>4, <3>1, <3>2, FlattenIs
    <2>11. f[m + n + 1] = v \o h[n + 1]
      <3>1. n \in 1..n /\ m + 1 + n = m + n + 1
        BY <1>1, <1>4
      <3> QED BY <2>6, <3>1
    <2> QED BY <1>2, <2>2, <2>3, <2>10, <2>11
  <1> QED BY <1>3, <1>4

-------------------------------------------------------------------------------
(* Folds: the loops over a sequence that carry a state.                    *)

(* Max of a set of numbers that has a bound. *)
LEMMA MaxOf ==
  ASSUME NEW N \in Nat, NEW s, s \subseteq 1..N, s # {}
  PROVE  Max(s) \in s /\ \A y \in s : y <= Max(s)
  <1> DEFINE U == {N - y : y \in s}
  <1>0. PICK w \in s : TRUE
    OBVIOUS
  <1>1. U \subseteq Nat /\ N - w \in U
    OBVIOUS
  <1>2. PICK m \in U : \A y \in U : ~(y < m)
    BY <1>1, Least
  <1>3. PICK x \in s : m = N - x
    BY <1>2
  <1>4. \A y \in s : x >= y
    <2> SUFFICES ASSUME NEW y \in s PROVE x >= y
      OBVIOUS
    <2>1. N - y \in U /\ y \in 1..N /\ x \in 1..N
      OBVIOUS
    <2>2. ~(N - y < N - x)
      BY <1>2, <1>3, <2>1, Zenon
    <2> HIDE DEF U
    <2> QED BY <2>1, <2>2
  <1>5. \E z \in s : \A y \in s : z >= y
    BY <1>4
  <1>6. Max(s) \in s /\ \A y \in s : Max(s) >= y
    BY <1>5, Zenon DEF Max
  <1> QED BY <1>6

(* The indices up to k, and what is left of them without the last. *)
LEMMA UpTo ==
  ASSUME NEW N \in Nat, NEW k \in 1..N
  PROVE  /\ 1..k \in SUBSET (1..N) /\ 1..(k - 1) \in SUBSET (1..N)
         /\ 1..k # {} /\ Max(1..k) = k /\ (1..k) \ {k} = 1..(k - 1)
  <1>1. 1..k \subseteq 1..N /\ 1..(k - 1) \subseteq 1..N /\ k \in 1..k /\ (1..k) \ {k} = 1..(k - 1)
    OBVIOUS
  <1>2. Max(1..k) \in 1..k /\ k <= Max(1..k)
    BY <1>1, MaxOf
  <1> QED BY <1>1, <1>2

(* How the library folds: over the sets of indices that are left.          *)
Iterates(iter, base, F, n) ==
    iter = [s \in SUBSET (1..n) |->
              IF s = {} THEN base ELSE F[<<Max(s), iter[s \ {Max(s)}]>>]]

(* A fold with a step that stays in T is a function into T. *)
LEMMA FoldExists ==
  ASSUME NEW T, NEW base \in T, NEW N \in Nat, NEW F \in [(1..N) \X T -> T]
  PROVE  \E iter \in [SUBSET (1..N) -> T] : Iterates(iter, base, F, N)
  <1> DEFINE S == {n \in Nat : n <= N => \E iter \in [SUBSET (1..n) -> T] : Iterates(iter, base, F, n)}
  <1>1. 0 \in S
    <2> DEFINE iter == [s \in SUBSET (1..0) |-> base]
    <2>1. SUBSET (1..0) = {{}}
      OBVIOUS
    <2>2. iter \in [SUBSET (1..0) -> T] /\ Iterates(iter, base, F, 0)
      BY <2>1 DEF Iterates
    <2> QED BY <2>2
  <1>2. ASSUME NEW n \in Nat, n \in S PROVE n + 1 \in S
    <2>0. n + 1 \in Nat
      OBVIOUS
    <2>1. SUFFICES ASSUME n + 1 <= N
                   PROVE  \E iter \in [SUBSET (1..(n + 1)) -> T] : Iterates(iter, base, F, n + 1)
      BY <2>0, Zenon
    <2>9. n <= N
      BY <2>1
    <2>2. PICK it \in [SUBSET (1..n) -> T] : Iterates(it, base, F, n)
      BY <1>2, <2>9, Zenon
    <2> DEFINE m == n + 1
               D == SUBSET (1..m)
               Value(s) == IF m \in s THEN F[<<m, it[s \ {m}]>>] ELSE it[s]
               iter == [s \in D |-> Value(s)]
    <2>3. ASSUME NEW s \in D PROVE s \ {m} \in SUBSET (1..n) /\ (m \notin s => s \in SUBSET (1..n))
      OBVIOUS
    <2>4. ASSUME NEW s \in D PROVE Value(s) \in T
      <3>1. CASE m \in s
        <4>1. it[s \ {m}] \in T
          BY <2>3, Zenon
        <4>2. <<m, it[s \ {m}]>> \in (1..N) \X T
          BY <2>1, <4>1
        <4>3. F[<<m, it[s \ {m}]>>] \in T
          BY <4>2
        <4> QED BY <3>1, <4>3
      <3>2. CASE m \notin s
        <4>1. it[s] \in T
          BY <2>3, <3>2, Zenon
        <4> QED BY <3>2, <4>1
      <3> QED BY <3>1, <3>2
    <2>5. ASSUME NEW s \in D
          PROVE  Value(s) = IF s = {} THEN base ELSE F[<<Max(s), iter[s \ {Max(s)}]>>]
      <3>1. CASE m \in s
        <4>1. Max(s) \in s /\ m <= Max(s)
          <5>1. m \in Nat /\ s \subseteq 1..m /\ s # {}
            BY <3>1
          <5> HIDE DEF m
          <5> QED BY <3>1, <5>1, MaxOf
        <4>2. Max(s) = m
          <5>1. Max(s) \in 1..(n + 1)
            BY <4>1
          <5> QED BY <4>1, <5>1
        <4>3. s \ {m} \in D /\ m \notin s \ {m}
          OBVIOUS
        <4>4. iter[s \ {m}] = it[s \ {m}]
          BY <4>3
        <4> QED BY <3>1, <4>2, <4>4
      <3>2. CASE m \notin s /\ s = {}
        <4>1. {} \in SUBSET (1..n)
          OBVIOUS
        <4>2. it[{}] = base
          BY <2>2, <4>1 DEF Iterates
        <4> QED BY <3>2, <4>2
      <3>3. CASE m \notin s /\ s # {}
        <4>1. s \in SUBSET (1..n)
          BY <2>3, <3>3
        <4>2. it[s] = F[<<Max(s), it[s \ {Max(s)}]>>]
          BY <2>2, <3>3, <4>1 DEF Iterates
        <4>3. s \ {Max(s)} \in D /\ m \notin s \ {Max(s)}
          BY <3>3
        <4>4. iter[s \ {Max(s)}] = it[s \ {Max(s)}]
          BY <4>3
        <4> QED BY <3>3, <4>2, <4>4
      <3> QED BY <3>1, <3>2, <3>3
    <2>6. iter \in [SUBSET (1..(n + 1)) -> T]
      BY <2>4
    <2>7. Iterates(iter, base, F, n + 1)
      BY <2>5, Zenon DEF Iterates
    <2> QED BY <2>6, <2>7
  <1> HIDE DEF S
  <1>3. N \in S
    BY <1>1, <1>2, SetInduction
  <1>4. N <= N
    OBVIOUS
  <1> QED BY <1>3, <1>4, Zenon DEF S

(* What such a function does on the sets 1..k alone: the steps of a loop    *)
(* over the indices in order.                                              *)
Folding(it, base, F, N, T) ==
    /\ it[{}] = base
    /\ \A k \in 1..N : it[1..(k - 1)] \in T => it[1..k] = F[<<k, it[1..(k - 1)]>>]

(* v is what N steps F make of base. *)
FoldsTo(v, base, F, N, T) ==
    \E g \in [1..(N + 1) -> T] : Follows(g, base, F, N) /\ v = g[N + 1]

LEMMA FoldIs ==
  ASSUME NEW T, NEW base \in T, NEW N \in Nat, NEW F \in [(1..N) \X T -> T],
         NEW it, Folding(it, base, F, N, T)
  PROVE  FoldsTo(it[1..N], base, F, N, T)
  <1>0. /\ it[{}] = base
        /\ \A k \in 1..N : it[1..(k - 1)] \in T => it[1..k] = F[<<k, it[1..(k - 1)]>>]
    BY Zenon DEF Folding
  <1> DEFINE S == {n \in Nat : n <= N => it[1..n] \in T}
  <1>1. 0 \in S
    <2>1. 1..0 = {}
      OBVIOUS
    <2> QED BY <1>0, <2>1
  <1>2. ASSUME NEW n \in Nat, n \in S PROVE n + 1 \in S
    <2>1. SUFFICES ASSUME n + 1 <= N PROVE it[1..(n + 1)] \in T
      OBVIOUS
    <2>2. n + 1 \in 1..N /\ (n + 1) - 1 = n /\ it[1..n] \in T
      BY <1>2, <2>1
    <2>3. it[1..(n + 1)] = F[<<n + 1, it[1..n]>>]
      BY <1>0, <2>2
    <2>4. <<n + 1, it[1..n]>> \in (1..N) \X T
      BY <2>2
    <2> QED BY <2>3, <2>4
  <1> HIDE DEF S
  <1>3. Nat \subseteq S
    BY <1>1, <1>2, SetInduction
  <1>4. \A n \in 0..N : it[1..n] \in T
    BY <1>3 DEF S
  <1> DEFINE g == [k \in 1..(N + 1) |-> it[1..(k - 1)]]
  <1>5. g \in [1..(N + 1) -> T]
    <2>1. \A k \in 1..(N + 1) : k - 1 \in 0..N
      OBVIOUS
    <2> QED BY <1>4, <2>1
  <1>6. g[1] = base
    <2>1. 1..(1 - 1) = {}
      OBVIOUS
    <2> QED BY <1>0, <2>1
  <1>7. ASSUME NEW k \in 1..N PROVE g[k + 1] = F[<<k, g[k]>>]
    <2>1. k \in 1..(N + 1) /\ k + 1 \in 1..(N + 1) /\ (k + 1) - 1 = k /\ k - 1 \in 0..N
      OBVIOUS
    <2>2. g[k + 1] = it[1..k] /\ g[k] = it[1..(k - 1)]
      BY <2>1
    <2>3. it[1..(k - 1)] \in T
      BY <1>4, <2>1
    <2> QED BY <1>0, <2>2, <2>3
  <1>8. g[N + 1] = it[1..N]
    OBVIOUS
  <1> HIDE DEF g
  <1> QED BY <1>5, <1>6, <1>7, <1>8 DEF Follows, FoldsTo
===============================================================================
