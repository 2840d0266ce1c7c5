---------------------------- MODULE RangeSetProofs ----------------------------
(***************************************************************************)
(* The operations of RangeSet do what their names say, on range sets of    *)
(* any length.  The argument counts boundaries: a block is in a range set  *)
(* exactly when the number of boundaries not above it is odd (BlocksByCut).*)
(* RemovePairs drops boundaries two by two, which keeps that number's      *)
(* parity (RemovePairsAre); Walk merges two sequences of boundaries in     *)
(* order, so that what it has passed at a block is what each of the two    *)
(* has (MergeRises); and the edges Sweep keeps are those where the depth   *)
(* passes a level (SweptStep).  The folds over ranges that Size, Extend,   *)
(* First and MapWithin are go range by range, with the blocks of the first *)
(* ones (Upto) and the number of a block among all (Place).                *)
(***************************************************************************)
EXTENDS RangeSet, SequenceProofs, FiniteSetTheorems

(* c boundaries of r are not above x. *)
Cut(r, x, c) == c \in 0..Len(r) /\ \A i \in 1..Len(r) : r[i] <= x <=> i <= c

Climbs(r) == \A i, j \in 1..Len(r) : i <= j => r[i] <= r[j]

Ascends(r) == \A i, j \in 1..Len(r) : i < j => r[i] < r[j]

LEMMA CutExists ==
  ASSUME NEW r \in Seq(Int), Climbs(r), NEW x \in Int
  PROVE  \E c \in 0..Len(r) : Cut(r, x, c)
  <1> DEFINE L == Len(r)
             U == {i \in 1..L : r[i] <= x}
  <1>1. L \in Nat /\ \A i \in 1..L : r[i] \in Int
    OBVIOUS
  <1>2. CASE U = {}
    <2>1. 0 \in 0..L /\ \A i \in 1..L : ~(r[i] <= x) /\ ~(i <= 0)
      BY <1>1, <1>2
    <2>2. Cut(r, x, 0)
      BY <2>1 DEF Cut
    <2> QED BY <2>1, <2>2
  <1>3. CASE U # {}
    <2>1. PICK c \in U : \A i \in U : i <= c
      <3>1. U \subseteq 1..L
        OBVIOUS
      <3> HIDE DEF U, L
      <3> QED BY <1>1, <1>3, <3>1, MaxOf
    <2>2. ASSUME NEW i \in 1..L PROVE r[i] <= x <=> i <= c
      <3>1. CASE i \in U
        BY <2>1, <3>1
      <3>2. CASE i \notin U
        <4>1. ~(r[i] <= x)
          BY <3>2
        <4>2. ASSUME i <= c PROVE FALSE
          <5>1. r[i] <= r[c] /\ r[c] <= x /\ r[c] \in Int /\ r[i] \in Int
            BY <1>1, <2>1, <4>2 DEF Climbs
          <5> QED BY <4>1, <5>1
        <4> QED BY <4>1, <4>2
      <3> QED BY <3>1, <3>2
    <2> QED BY <2>1, <2>2 DEF Cut
  <1> QED BY <1>2, <1>3

(* It is enough to look at neighbours. *)
LEMMA Neighbours ==
  ASSUME NEW r \in Seq(Int)
  PROVE  (\A i \in 1..(Len(r) - 1) : r[i] < r[i + 1]) <=> Ascends(r)
  <1> DEFINE L == Len(r)
  <1>1. L \in Nat /\ \A i \in 1..L : r[i] \in Int
    OBVIOUS
  <1>2. ASSUME Ascends(r), NEW i \in 1..(L - 1) PROVE r[i] < r[i + 1]
    BY <1>1, <1>2 DEF Ascends
  <1>3. ASSUME \A i \in 1..(L - 1) : r[i] < r[i + 1], NEW i \in 1..L
        PROVE  \A j \in 1..L : i < j => r[i] < r[j]
    <2> DEFINE S == {n \in Nat : i + 1 + n <= L => r[i] < r[i + 1 + n]}
    <2>1. 0 \in S
      BY <1>1, <1>3
    <2>2. ASSUME NEW n \in Nat, n \in S PROVE n + 1 \in S
      <3>1. SUFFICES ASSUME i + 1 + (n + 1) <= L PROVE r[i] < r[i + 1 + (n + 1)]
        OBVIOUS
      <3>2. i + 1 + n \in 1..(L - 1) /\ i + 1 + (n + 1) = (i + 1 + n) + 1
        BY <1>1, <3>1
      <3>3. r[i] < r[i + 1 + n] /\ r[i + 1 + n] < r[(i + 1 + n) + 1]
        BY <1>3, <2>2, <3>2
      <3>4. r[i] \in Int /\ r[i + 1 + n] \in Int /\ r[(i + 1 + n) + 1] \in Int
        BY <1>1, <3>2
      <3> QED BY <3>2, <3>3, <3>4
    <2> HIDE DEF S
    <2>3. Nat \subseteq S
      BY <2>1, <2>2, SetInduction
    <2>4. ASSUME NEW j \in 1..L, i < j PROVE r[i] < r[j]
      <3>1. j - i - 1 \in Nat /\ i + 1 + (j - i - 1) = j
        BY <2>4
      <3>2. j - i - 1 \in S
        BY <2>3, <3>1
      <3> QED BY <3>1, <3>2 DEF S
    <2> QED BY <2>4
  <1> QED BY <1>2, <1>3 DEF Ascends

LEMMA NormalIs ==
  ASSUME NEW r \in Seq(Int)
  PROVE  Normal(r) <=> Len(r) % 2 = 0 /\ Ascends(r)
  BY Neighbours, Zenon DEF Normal

LEMMA AscendsClimbs ==
  ASSUME NEW r \in Seq(Int), Ascends(r)
  PROVE  Climbs(r)
  <1>1. ASSUME NEW i \in 1..Len(r), NEW j \in 1..Len(r), i <= j PROVE r[i] <= r[j]
    <2>1. r[i] \in Int /\ r[j] \in Int
      OBVIOUS
    <2>2. CASE i = j
      BY <2>1, <2>2
    <2>3. CASE i < j
      BY <2>1, <2>3 DEF Ascends
    <2> QED BY <1>1, <2>2, <2>3
  <1> QED BY <1>1 DEF Climbs

(* Blocks, as places between boundaries. *)
LEMMA BlocksAre ==
  ASSUME NEW r \in Seq(Int), NEW x
  PROVE  x \in Blocks(r) <=> x \in Int /\ \E i \in 1..(Len(r) \div 2) : r[2 * i - 1] <= x /\ x < r[2 * i]
  <1> DEFINE H == Len(r) \div 2
  <1>1. H \in Nat /\ \A i \in 1..H : 2 * i - 1 \in 1..Len(r) /\ 2 * i \in 1..Len(r)
    OBVIOUS
  <1>2. \A i \in 1..H : r[2 * i - 1] \in Int /\ r[2 * i] \in Int
    BY <1>1
  <1>3. /\ DOMAIN Pairs(r) = 1..H
        /\ \A i \in 1..H : Pairs(r)[i][1] = r[2 * i - 1] /\ Pairs(r)[i][2] = r[2 * i]
    BY DEF Pairs
  <1> HIDE DEF H
  <1>4. x \in Blocks(r) <=> \E i \in 1..H : x \in Pairs(r)[i][1]..(Pairs(r)[i][2] - 1)
    BY <1>3, Zenon DEF Blocks, ToSet
  <1>5. x \in Blocks(r) <=> \E i \in 1..H : x \in r[2 * i - 1]..(r[2 * i] - 1)
    BY <1>3, <1>4
  <1>6. \A i \in 1..H : x \in r[2 * i - 1]..(r[2 * i] - 1) <=> x \in Int /\ r[2 * i - 1] <= x /\ x < r[2 * i]
    BY <1>2
  <1> QED BY <1>5, <1>6 DEF H

(* A block of a range set has an odd number of boundaries behind it. *)
LEMMA BlocksByCut ==
  ASSUME NEW r \in Seq(Int), Normal(r), NEW x \in Int, NEW c, Cut(r, x, c)
  PROVE  x \in Blocks(r) <=> c % 2 = 1
  <1> DEFINE L == Len(r)
  <1>1. L \in Nat /\ L % 2 = 0 /\ c \in 0..L /\ \A i \in 1..L : r[i] \in Int /\ (r[i] <= x <=> i <= c)
    BY DEF Normal, Cut
  <1>2. ASSUME x \in Blocks(r) PROVE c % 2 = 1
    <2>1. PICK i \in 1..(L \div 2) : r[2 * i - 1] <= x /\ x < r[2 * i]
      BY <1>2, BlocksAre
    <2>2. 2 * i \in 1..L /\ 2 * i - 1 \in 1..L
      BY <1>1
    <2>3. 2 * i - 1 <= c /\ ~(2 * i <= c)
      BY <1>1, <2>1, <2>2
    <2>4. c = 2 * i - 1
      BY <1>1, <2>2, <2>3
    <2> QED BY <2>4
  <1>3. ASSUME c % 2 = 1 PROVE x \in Blocks(r)
    <2>1. PICK i \in 1..(L \div 2) : c = 2 * i - 1
      <3>1. (c + 1) \div 2 \in 1..(L \div 2) /\ c = 2 * ((c + 1) \div 2) - 1
        BY <1>1, <1>3
      <3> QED BY <3>1
    <2>2. 2 * i \in 1..L /\ 2 * i - 1 \in 1..L
      BY <1>1
    <2>3. r[2 * i - 1] <= x /\ x < r[2 * i]
      BY <1>1, <2>1, <2>2
    <2> QED BY <2>3, BlocksAre
  <1> QED BY <1>2, <1>3

-------------------------------------------------------------------------------
(* RemovePairs, boundary by boundary.                                      *)

Whole(acc) == IF acc.last = Nothing THEN acc.out ELSE Append(acc.out, acc.last)

LEMMA RemovePairsSteps ==
  ASSUME NEW s \in Seq(Nat)
  PROVE  \E g \in [1..(Len(s) + 1) -> [out : Seq(Nat), last : Nat \union {Nothing}]] :
           /\ g[1] = [out |-> <<>>, last |-> Nothing]
           /\ \A k \in 1..Len(s) :
                 g[k + 1] = IF s[k] = g[k].last THEN [g[k] EXCEPT !.last = Nothing]
                            ELSE [out |-> IF g[k].last = Nothing THEN g[k].out
                                          ELSE Append(g[k].out, g[k].last),
                                  last |-> s[k]]
           /\ RemovePairs(s) = Whole(g[Len(s) + 1])
  <1>0. PICK T : T = [out : Seq(Nat), last : Nat \union {Nothing}]
    OBVIOUS
  <1> DEFINE Step(acc, i) ==
               IF i = acc.last THEN [acc EXCEPT !.last = Nothing]
               ELSE [out |-> IF acc.last = Nothing THEN acc.out ELSE Append(acc.out, acc.last),
                     last |-> i]
             base == [out |-> Empty, last |-> Nothing]
             Same(iter) ==
               iter = [u \in SUBSET DOMAIN s |->
                         IF u = {} THEN base
                         ELSE LET x == Max(u) IN Step(iter[u \ {x}], s[x])]
  <1>1. RemovePairs(s) = Whole((CHOOSE iter : Same(iter))[DOMAIN s])
    BY DEF RemovePairs, FoldLeft, MapThenFoldSet, Whole
  <1>2. PICK N \in Nat : N = Len(s) /\ DOMAIN s = 1..N
    OBVIOUS
  <1>3. PICK F : /\ F \in [(1..N) \X T -> T]
                 /\ \A k \in 1..N, v \in T : F[<<k, v>>] = Step(v, s[k])
    <2> DEFINE F == [p \in (1..N) \X T |-> Step(p[2], s[p[1]])]
    <2>1. ASSUME NEW k \in 1..N, NEW v \in T PROVE Step(v, s[k]) \in T
      <3>1. s[k] \in Nat /\ v \in [out : Seq(Nat), last : Nat \union {Nothing}]
        BY <1>0, <1>2
      <3>2. v.last # Nothing => Append(v.out, v.last) \in Seq(Nat)
        BY <3>1
      <3> QED BY <1>0, <3>1, <3>2
    <2> HIDE DEF Step
    <2>2. F \in [(1..N) \X T -> T] /\ \A k \in 1..N, v \in T : F[<<k, v>>] = Step(v, s[k])
      BY <2>1
    <2> HIDE DEF F
    <2> QED BY <2>2
  <1>4. base \in T
    BY <1>0 DEF Empty
  <1> HIDE DEF Step
  <1>5. PICK e \in [SUBSET (1..N) -> T] : Iterates(e, base, F, N)
    BY <1>3, <1>4, FoldExists, Zenon
  <1> HIDE DEF base
  <1>6. Same(e)
    <2>1. ASSUME NEW u \in SUBSET (1..N), u # {}
          PROVE  F[<<Max(u), e[u \ {Max(u)}]>>] = Step(e[u \ {Max(u)}], s[Max(u)])
      BY <1>3, <2>1, MaxOf
    <2> QED BY <1>2, <1>5, <2>1 DEF Iterates
  <1>7. PICK it : Same(it) /\ RemovePairs(s) = Whole(it[DOMAIN s])
    <2> HIDE DEF Same
    <2> QED BY <1>1, <1>6, Zenon
  <1>8. it[{}] = base
    BY <1>7
  <1>9. ASSUME NEW k \in 1..N PROVE it[1..k] = Step(it[1..(k - 1)], s[k])
    <2>1. /\ 1..k \in SUBSET DOMAIN s /\ 1..k # {} /\ Max(1..k) = k
          /\ (1..k) \ {k} = 1..(k - 1)
      BY <1>2, UpTo
    <2> QED BY <1>7, <2>1
  <1>10. Folding(it, base, F, N, T)
    BY <1>3, <1>8, <1>9 DEF Folding
  <1>11. FoldsTo(it[1..N], base, F, N, T)
    BY <1>3, <1>4, <1>10, FoldIs, Zenon
  <1>12. PICK g \in [1..(N + 1) -> T] : Follows(g, base, F, N) /\ it[1..N] = g[N + 1]
    BY <1>11, Zenon DEF FoldsTo
  <1>13. ASSUME NEW k \in 1..N PROVE g[k + 1] = Step(g[k], s[k])
    <2>1. g[k] \in T /\ g[k + 1] = F[<<k, g[k]>>]
      BY <1>12 DEF Follows
    <2> QED BY <1>3, <2>1
  <1>14. g[1] = [out |-> <<>>, last |-> Nothing]
    BY <1>12 DEF Follows, base, Empty
  <1> QED BY <1>0, <1>2, <1>7, <1>12, <1>13, <1>14, Zenon DEF Step

LEMMA Appended ==
  ASSUME NEW E, NEW v \in Seq(E), NEW i \in E
  PROVE  /\ Append(v, i) \in Seq(E) /\ Len(Append(v, i)) = Len(v) + 1 /\ Len(v) \in Nat
         /\ Append(v, i)[Len(v) + 1] = i
         /\ \A j \in 1..Len(v) : Append(v, i)[j] = v[j] /\ v[j] \in E
         /\ \A j \in 1..(Len(v) + 1) : j \in 1..Len(v) \/ j = Len(v) + 1
  OBVIOUS

LEMMA Parity ==
  ASSUME NEW a \in Nat, NEW b \in Nat
  PROVE  /\ a % 2 \in {0, 1}
         /\ a % 2 = b % 2 <=> (a + 1) % 2 = (b + 1) % 2
         /\ a % 2 = (b + 1) % 2 <=> (a + 1) % 2 = b % 2
  OBVIOUS

LEMMA AppendCut ==
  ASSUME NEW v \in Seq(Nat), Ascends(v), NEW i \in Nat, \A j \in 1..Len(v) : v[j] < i
  PROVE  /\ Append(v, i) \in Seq(Nat) /\ Len(Append(v, i)) = Len(v) + 1 /\ Ascends(Append(v, i))
         /\ \A x \in Int : x < i => \A d : Cut(v, x, d) => Cut(Append(v, i), x, d)
         /\ \A x \in Int : i <= x => Cut(v, x, Len(v)) /\ Cut(Append(v, i), x, Len(v) + 1)
  <1> DEFINE w == Append(v, i)
             L == Len(v)
  <1>1. /\ L \in Nat /\ w \in Seq(Nat) /\ Len(w) = L + 1 /\ w[L + 1] = i
        /\ \A j \in 1..L : w[j] = v[j] /\ v[j] \in Nat /\ v[j] < i
    OBVIOUS
  <1>2. \A j \in 1..(L + 1) : j = L + 1 \/ j \in 1..L
    BY <1>1
  <1> HIDE DEF w, L
  <1>3. Ascends(w)
    <2>1. \A j, k \in 1..L : j < k => v[j] < v[k]
      BY DEF Ascends, L
    <2>2. ASSUME NEW j \in 1..(L + 1), NEW k \in 1..(L + 1), j < k PROVE w[j] < w[k]
      <3>1. j \in 1..L
        BY <1>1, <2>2
      <3>2. CASE k = L + 1
        BY <1>1, <3>1, <3>2
      <3>3. CASE k \in 1..L
        BY <1>1, <2>1, <2>2, <3>1, <3>3
      <3> QED BY <1>2, <3>2, <3>3
    <2> QED BY <1>1, <2>2 DEF Ascends
  <1>4. ASSUME NEW x \in Int, x < i, NEW d, Cut(v, x, d) PROVE Cut(w, x, d)
    <2>1. d \in 0..L /\ \A j \in 1..L : v[j] <= x <=> j <= d
      BY <1>4 DEF Cut, L
    <2> QED BY <1>1, <1>2, <1>4, <2>1 DEF Cut
  <1>5. ASSUME NEW x \in Int, i <= x PROVE Cut(v, x, L) /\ Cut(w, x, L + 1)
    <2>1. L \in 0..L /\ L + 1 \in 0..(L + 1) /\ \A j \in 1..L : v[j] <= x /\ j <= L
      BY <1>1, <1>5
    <2> QED BY <1>1, <1>2, <1>5, <2>1 DEF Cut, L
  <1> QED BY <1>1, <1>3, <1>4, <1>5 DEF w, L

LEMMA DropCut ==
  ASSUME NEW w \in Seq(Nat), NEW i \in Nat, Ascends(Append(w, i))
  PROVE  /\ Ascends(w) /\ Len(Append(w, i)) = Len(w) + 1 /\ \A j \in 1..Len(w) : w[j] < i
         /\ \A x \in Int : x < i => \A d : Cut(Append(w, i), x, d) => Cut(w, x, d)
         /\ \A x \in Int : i <= x => \A d : Cut(Append(w, i), x, d) => d = Len(w) + 1 /\ Cut(w, x, Len(w))
  <1> DEFINE v == Append(w, i)
             L == Len(w)
  <1>1. /\ L \in Nat /\ v \in Seq(Nat) /\ Len(v) = L + 1 /\ v[L + 1] = i
        /\ \A j \in 1..L : v[j] = w[j] /\ w[j] \in Nat /\ j \in 1..(L + 1) /\ j < L + 1
        /\ L + 1 \in 1..(L + 1)
    OBVIOUS
  <1> HIDE DEF v, L
  <1>2. Ascends(w) /\ \A j \in 1..L : w[j] < i
    <2>1. \A j, k \in 1..(L + 1) : j < k => v[j] < v[k]
      BY <1>1 DEF Ascends, v
    <2> QED BY <1>1, <2>1 DEF Ascends, L
  <1>3. ASSUME NEW x \in Int, x < i, NEW d, Cut(v, x, d) PROVE Cut(w, x, d)
    <2>1. d \in 0..(L + 1) /\ \A j \in 1..(L + 1) : v[j] <= x <=> j <= d
      BY <1>1, <1>3 DEF Cut
    <2>2. d \in 0..L
      BY <1>1, <1>3, <2>1
    <2> QED BY <1>1, <2>1, <2>2 DEF Cut, L
  <1>4. ASSUME NEW x \in Int, i <= x, NEW d, Cut(v, x, d) PROVE d = L + 1 /\ Cut(w, x, L)
    <2>1. d \in 0..(L + 1) /\ \A j \in 1..(L + 1) : v[j] <= x <=> j <= d
      BY <1>1, <1>4 DEF Cut
    <2>2. d = L + 1
      BY <1>1, <1>4, <2>1
    <2>3. L \in 0..L /\ \A j \in 1..L : w[j] <= x /\ j <= L
      BY <1>1, <1>2, <1>4
    <2> QED BY <1>1, <2>2, <2>3 DEF Cut, L
  <1> QED BY <1>1, <1>2, <1>3, <1>4 DEF v, L

(* s, in which boundaries may be repeated, stands for the blocks S. *)
Stands(s, S) == \A x \in Int, c \in Nat : Cut(s, x, c) => (c % 2 = 1 <=> x \in S)

(* After k boundaries of s. *)
PairsRemoved(acc, s, k) ==
    LET v == Whole(acc)
    IN  /\ v \in Seq(Nat) /\ Ascends(v) /\ Len(v) % 2 = k % 2
        /\ \A j \in 1..Len(v), i \in (k + 1)..Len(s) :
              v[j] <= s[i] /\ (acc.last = Nothing => v[j] < s[i])
        /\ \A x \in Int, c \in Nat :
              Cut(s, x, c) => \E d \in Nat : Cut(v, x, d) /\ d % 2 = (IF k <= c THEN k ELSE c) % 2

LEMMA PairRemoved ==
  ASSUME NEW s \in Seq(Nat), Climbs(s), NEW acc \in [out : Seq(Nat), last : Nat \union {Nothing}],
         NEW k \in 1..Len(s), PairsRemoved(acc, s, k - 1),
         NEW new,
         new = IF s[k] = acc.last THEN [acc EXCEPT !.last = Nothing]
               ELSE [out |-> IF acc.last = Nothing THEN acc.out ELSE Append(acc.out, acc.last),
                     last |-> s[k]]
  PROVE  PairsRemoved(new, s, k)
  <1> DEFINE v == Whole(acc)
             w == Whole(new)
             i == s[k]
  <1>0. i \in Nat /\ i # Nothing /\ k \in Nat /\ (k - 1) + 1 = k /\ k - 1 \in Nat
    BY DEF Nothing
  <1>1. /\ v \in Seq(Nat) /\ Ascends(v) /\ Len(v) % 2 = (k - 1) % 2
        /\ \A j \in 1..Len(v), n \in k..Len(s) : v[j] <= s[n] /\ (acc.last = Nothing => v[j] < s[n])
        /\ \A x \in Int, c \in Nat :
              Cut(s, x, c) => \E d \in Nat : Cut(v, x, d) /\ d % 2 = (IF k - 1 <= c THEN k - 1 ELSE c) % 2
    BY <1>0 DEF PairsRemoved
  <1>2. \A n \in 1..Len(s) : s[n] \in Nat /\ (k <= n => i <= s[n])
    BY DEF Climbs
  <1>3. ASSUME NEW x \in Int, NEW c \in Nat, Cut(s, x, c) PROVE i <= x <=> k <= c
    BY <1>3 DEF Cut
  <1>4. CASE i = acc.last
    <2>1. new.out = acc.out /\ new.last = Nothing /\ w = acc.out /\ v = Append(w, i) /\ w \in Seq(Nat)
      BY <1>0, <1>4 DEF Whole
    <2> HIDE DEF v, w, i
    <2>2. /\ Ascends(w) /\ Len(v) = Len(w) + 1 /\ \A j \in 1..Len(w) : w[j] < i
          /\ \A x \in Int : x < i => \A d : Cut(v, x, d) => Cut(w, x, d)
          /\ \A x \in Int : i <= x => \A d : Cut(v, x, d) => d = Len(w) + 1 /\ Cut(w, x, Len(w))
      BY <1>0, <1>1, <2>1, DropCut
    <2>3. Len(w) % 2 = k % 2
      <3>1. Len(w) \in Nat /\ (Len(w) + 1) % 2 = (k - 1) % 2
        BY <1>1, <2>1, <2>2
      <3>2. Len(w) % 2 = ((k - 1) + 1) % 2
        BY <1>0, <3>1, Parity, Zenon
      <3> QED BY <1>0, <3>2, Zenon
    <2>4. ASSUME NEW j \in 1..Len(w), NEW n \in (k + 1)..Len(s) PROVE w[j] <= s[n] /\ w[j] < s[n]
      <3>1. n \in 1..Len(s) /\ k <= n
        BY <1>0
      <3>2. s[n] \in Nat /\ i <= s[n] /\ w[j] \in Nat /\ w[j] < i
        BY <1>2, <2>1, <2>2, <3>1
      <3> QED BY <1>0, <3>2
    <2>5. ASSUME NEW x \in Int, NEW c \in Nat, Cut(s, x, c)
          PROVE  \E d \in Nat : Cut(w, x, d) /\ d % 2 = (IF k <= c THEN k ELSE c) % 2
      <3>1. PICK d \in Nat : Cut(v, x, d) /\ d % 2 = (IF k - 1 <= c THEN k - 1 ELSE c) % 2
        BY <1>1, <2>5
      <3>2. CASE i <= x
        <4>1. Cut(w, x, Len(w)) /\ k <= c /\ Len(w) \in Nat
          BY <1>3, <2>1, <2>2, <2>5, <3>1, <3>2
        <4> QED BY <2>3, <4>1
      <3>3. CASE x < i
        <4>1. Cut(w, x, d) /\ ~(k <= c)
          BY <1>0, <1>3, <2>2, <2>5, <3>1, <3>3
        <4>2. (IF k - 1 <= c THEN k - 1 ELSE c) = c
          BY <1>0, <4>1
        <4> QED BY <3>1, <4>1, <4>2
      <3> QED BY <1>0, <3>2, <3>3
    <2> QED BY <2>1, <2>2, <2>3, <2>4, <2>5 DEF PairsRemoved, w
  <1>5. CASE i # acc.last
    <2>1. new.last = i /\ new.out = v /\ w = Append(v, i)
      BY <1>0, <1>5 DEF Whole
    <2>2. \A j \in 1..Len(v) : v[j] < i
      <3>0. k \in k..Len(s)
        OBVIOUS
      <3>1. CASE acc.last = Nothing
        <4> HIDE DEF v
        <4> QED BY <1>1, <3>0, <3>1
      <3>2. CASE acc.last # Nothing
        <4>1. acc.last \in Nat /\ acc.out \in Seq(Nat) /\ v = Append(acc.out, acc.last)
          BY <3>2 DEF Whole
        <4>2. Len(v) \in 1..Len(v) /\ v[Len(v)] = acc.last
          BY <4>1
        <4> HIDE DEF v, i
        <4>3. acc.last < i
          <5>1. v[Len(v)] <= s[k]
            BY <1>1, <3>0, <4>2, Zenon
          <5> QED BY <1>0, <1>5, <4>1, <4>2, <5>1 DEF i
        <4>4. ASSUME NEW j \in 1..Len(v) PROVE v[j] < i
          <5>1. v[j] \in Nat /\ (j = Len(v) \/ j < Len(v))
            BY <1>1
          <5>2. j < Len(v) => v[j] < v[Len(v)]
            BY <1>1, <4>2 DEF Ascends
          <5> QED BY <1>0, <4>1, <4>2, <4>3, <5>1, <5>2
        <4> QED BY <4>4
      <3> QED BY <3>1, <3>2
    <2> HIDE DEF v, w, i
    <2>3. /\ w \in Seq(Nat) /\ Len(w) = Len(v) + 1 /\ Ascends(w)
          /\ \A x \in Int : x < i => \A d : Cut(v, x, d) => Cut(w, x, d)
          /\ \A x \in Int : i <= x => Cut(v, x, Len(v)) /\ Cut(w, x, Len(v) + 1)
      BY <1>0, <1>1, <2>1, <2>2, AppendCut
    <2>4. Len(w) % 2 = k % 2
      <3>1. Len(v) \in Nat
        BY <1>1
      <3>2. (Len(v) + 1) % 2 = ((k - 1) + 1) % 2
        BY <1>0, <1>1, <3>1, Parity, Zenon
      <3> QED BY <1>0, <2>3, <3>2, Zenon
    <2>5. \A j \in 1..Len(w), n \in (k + 1)..Len(s) : w[j] <= s[n] /\ new.last # Nothing
      <3>0. Len(v) \in Nat /\ w[Len(v) + 1] = i /\ \A j \in 1..Len(v) : w[j] = v[j] /\ v[j] \in Nat
        <4>1. Len(v) \in Nat
          BY <1>1
        <4>2. Append(v, i)[Len(v) + 1] = i /\ \A j \in 1..Len(v) : Append(v, i)[j] = v[j] /\ v[j] \in Nat
          <5>1. i \in Nat /\ v \in Seq(Nat)
            BY <1>0, <1>1
          <5> QED BY <5>1, Appended
        <4> QED BY <2>1, <4>1, <4>2
      <3>1. ASSUME NEW j \in 1..Len(w) PROVE w[j] <= i /\ w[j] \in Nat
        <4>1. j \in 1..Len(v) \/ j = Len(v) + 1
          BY <2>3, <3>0
        <4>2. CASE j \in 1..Len(v)
          <5>1. w[j] = v[j] /\ v[j] \in Nat /\ v[j] < i
            BY <2>2, <3>0, <4>2
          <5> QED BY <1>0, <5>1
        <4>3. CASE j = Len(v) + 1
          BY <1>0, <3>0, <4>3
        <4> QED BY <4>1, <4>2, <4>3
      <3>2. ASSUME NEW j \in 1..Len(w), NEW n \in (k + 1)..Len(s) PROVE w[j] <= s[n]
        <4>1. n \in 1..Len(s) /\ k <= n
          BY <1>0
        <4>2. s[n] \in Nat /\ i <= s[n]
          BY <1>2, <4>1
        <4> QED BY <1>0, <3>1, <4>2
      <3> QED BY <1>0, <2>1, <3>2
    <2>6. ASSUME NEW x \in Int, NEW c \in Nat, Cut(s, x, c)
          PROVE  \E d \in Nat : Cut(w, x, d) /\ d % 2 = (IF k <= c THEN k ELSE c) % 2
      <3>1. PICK d \in Nat : Cut(v, x, d) /\ d % 2 = (IF k - 1 <= c THEN k - 1 ELSE c) % 2
        BY <1>1, <2>6
      <3>2. CASE i <= x
        <4>1. Cut(w, x, Len(w)) /\ k <= c /\ Len(w) \in Nat
          BY <1>3, <2>3, <2>6, <3>2
        <4> QED BY <2>4, <4>1
      <3>3. CASE x < i
        <4>1. Cut(w, x, d) /\ ~(k <= c)
          BY <1>0, <1>3, <2>3, <2>6, <3>1, <3>3
        <4>2. (IF k - 1 <= c THEN k - 1 ELSE c) = c
          BY <1>0, <4>1
        <4> QED BY <3>1, <4>1, <4>2
      <3> QED BY <1>0, <3>2, <3>3
    <2> QED BY <2>3, <2>4, <2>5, <2>6 DEF PairsRemoved, w
  <1> QED BY <1>4, <1>5

LEMMA RemovePairsAre ==
  ASSUME NEW s \in Seq(Nat), Climbs(s), Len(s) % 2 = 0, NEW S, S \subseteq Int, Stands(s, S)
  PROVE  RemovePairs(s) \in Seq(Nat) /\ Normal(RemovePairs(s)) /\ Blocks(RemovePairs(s)) = S
  <1> DEFINE N == Len(s)
             R == RemovePairs(s)
  <1>1. PICK g \in [1..(N + 1) -> [out : Seq(Nat), last : Nat \union {Nothing}]] :
           /\ g[1] = [out |-> <<>>, last |-> Nothing]
           /\ \A k \in 1..N :
                 g[k + 1] = IF s[k] = g[k].last THEN [g[k] EXCEPT !.last = Nothing]
                            ELSE [out |-> IF g[k].last = Nothing THEN g[k].out
                                          ELSE Append(g[k].out, g[k].last),
                                  last |-> s[k]]
           /\ R = Whole(g[N + 1])
    BY RemovePairsSteps
  <1> HIDE DEF R
  <1> DEFINE T == {k \in Nat : k <= N => PairsRemoved(g[k + 1], s, k)}
  <1>2. 0 \in T
    <2>1. Whole(g[1]) = <<>>
      BY <1>1 DEF Whole
    <2>2. /\ <<>> \in Seq(Nat) /\ Ascends(<<>>) /\ Len(<<>>) % 2 = 0 % 2
          /\ \A j : j \notin 1..Len(<<>>)
      BY DEF Ascends
    <2>3. ASSUME NEW x \in Int, NEW c \in Nat PROVE Cut(<<>>, x, 0) /\ (IF 0 <= c THEN 0 ELSE c) = 0
      BY DEF Cut
    <2>4. PairsRemoved(g[1], s, 0)
      BY <2>1, <2>2, <2>3 DEF PairsRemoved
    <2> QED BY <2>4
  <1>3. ASSUME NEW k \in Nat, k \in T PROVE k + 1 \in T
    <2>1. SUFFICES ASSUME k + 1 <= N PROVE PairsRemoved(g[(k + 1) + 1], s, k + 1)
      OBVIOUS
    <2>2. /\ k + 1 \in 1..Len(s) /\ (k + 1) - 1 = k /\ PairsRemoved(g[k + 1], s, k)
          /\ g[k + 1] \in [out : Seq(Nat), last : Nat \union {Nothing}]
      BY <1>3, <2>1
    <2>3. g[(k + 1) + 1] =
            IF s[k + 1] = g[k + 1].last THEN [g[k + 1] EXCEPT !.last = Nothing]
            ELSE [out |-> IF g[k + 1].last = Nothing THEN g[k + 1].out
                          ELSE Append(g[k + 1].out, g[k + 1].last),
                  last |-> s[k + 1]]
      BY <1>1, <2>2
    <2> QED BY <2>2, <2>3, PairRemoved
  <1> HIDE DEF T
  <1>4. N \in T
    <2>1. Nat \subseteq T
      BY <1>2, <1>3, SetInduction
    <2>2. N \in Nat
      OBVIOUS
    <2> QED BY <2>1, <2>2
  <1>5. /\ R \in Seq(Nat) /\ Ascends(R) /\ Len(R) % 2 = N % 2
        /\ \A x \in Int, c \in Nat :
              Cut(s, x, c) => \E d \in Nat : Cut(R, x, d) /\ d % 2 = (IF N <= c THEN N ELSE c) % 2
    BY <1>1, <1>4 DEF T, PairsRemoved
  <1>6. Normal(R) /\ R \in Seq(Int)
    BY <1>5, NormalIs
  <1>7. ASSUME NEW x \in Int PROVE x \in Blocks(R) <=> x \in S
    <2>1. PICK c \in 0..N : Cut(s, x, c)
      BY CutExists
    <2>2. PICK d \in Nat : Cut(R, x, d) /\ d % 2 = c % 2
      <3>1. c \in Nat /\ (IF N <= c THEN N ELSE c) = c
        OBVIOUS
      <3>2. \E d \in Nat : Cut(R, x, d) /\ d % 2 = (IF N <= c THEN N ELSE c) % 2
        BY <1>5, <2>1, <3>1, Zenon
      <3> QED BY <3>1, <3>2
    <2>3. x \in Blocks(R) <=> d % 2 = 1
      BY <1>6, <2>2, BlocksByCut
    <2>4. c % 2 = 1 <=> x \in S
      BY <2>1 DEF Stands
    <2> QED BY <2>2, <2>3, <2>4
  <1>8. Blocks(R) \subseteq Int
    BY <1>6, BlocksAre
  <1> QED BY <1>5, <1>6, <1>7, <1>8 DEF R

-------------------------------------------------------------------------------
(* Walk, boundary by boundary.                                             *)

Boundary == Int \X Int

(* What the merge of a and b takes next, when i boundaries of a are taken. *)
FromA(a, b, k, i) == i < Len(a) /\ (k - i > Len(b) \/ ~Lower(b[k - i], a[i + 1]))

LEMMA WalkSteps ==
  ASSUME NEW a \in Seq(Boundary), NEW b \in Seq(Boundary)
  PROVE  \E X : \E g \in [1..(Len(a) + Len(b) + 1) -> [taken : Nat, out : Seq(X)]] :
           /\ Boundary \subseteq X
           /\ g[1] = [taken |-> 0, out |-> <<>>]
           /\ \A k \in 1..(Len(a) + Len(b)) :
                 g[k + 1] = IF FromA(a, b, k, g[k].taken)
                            THEN [taken |-> g[k].taken + 1, out |-> Append(g[k].out, a[g[k].taken + 1])]
                            ELSE [taken |-> g[k].taken, out |-> Append(g[k].out, b[k - g[k].taken])]
           /\ Walk(a, b) = g[Len(a) + Len(b) + 1].out
  <1> DEFINE M == Len(a) + Len(b)
             s == [k \in 1..M |-> k]
  <1>0. PICK X : X = Boundary \union {a[i] : i \in Int} \union {b[i] : i \in Int}
    OBVIOUS
  <1>00. PICK T : T = [taken : Nat, out : Seq(X)]
    OBVIOUS
  <1> DEFINE Step(acc, k) ==
               IF FromA(a, b, k, acc.taken)
               THEN [taken |-> acc.taken + 1, out |-> Append(acc.out, a[acc.taken + 1])]
               ELSE [taken |-> acc.taken, out |-> Append(acc.out, b[k - acc.taken])]
             base == [taken |-> 0, out |-> <<>>]
             Same(iter) ==
               iter = [u \in SUBSET DOMAIN s |->
                         IF u = {} THEN base
                         ELSE LET x == Max(u) IN Step(iter[u \ {x}], s[x])]
  <1>1. Walk(a, b) = (CHOOSE iter : Same(iter))[DOMAIN s].out
    BY DEF Walk, FoldLeft, MapThenFoldSet, FromA
  <1>2. PICK N \in Nat : N = M /\ DOMAIN s = 1..N /\ \A k \in 1..N : s[k] = k
    OBVIOUS
  <1> HIDE DEF M, s
  <1>3. PICK F : /\ F \in [(1..N) \X T -> T]
                 /\ \A k \in 1..N, v \in T : F[<<k, v>>] = Step(v, s[k])
    <2> DEFINE F == [p \in (1..N) \X T |-> Step(p[2], s[p[1]])]
    <2>1. ASSUME NEW k \in 1..N, NEW v \in T PROVE Step(v, s[k]) \in T
      <3>1. s[k] = k /\ v \in [taken : Nat, out : Seq(X)]
        BY <1>00, <1>2
      <3>2. v.taken \in Nat /\ v.taken + 1 \in Nat /\ k - v.taken \in Int
        BY <3>1
      <3>3. a[v.taken + 1] \in X /\ b[k - v.taken] \in X
        BY <1>0, <3>2
      <3>4. Append(v.out, a[v.taken + 1]) \in Seq(X) /\ Append(v.out, b[k - v.taken]) \in Seq(X)
        BY <3>1, <3>3
      <3> QED BY <1>00, <3>1, <3>2, <3>4
    <2> HIDE DEF Step
    <2>2. F \in [(1..N) \X T -> T] /\ \A k \in 1..N, v \in T : F[<<k, v>>] = Step(v, s[k])
      BY <2>1
    <2> HIDE DEF F
    <2> QED BY <2>2
  <1>4. base \in T
    BY <1>00
  <1> HIDE DEF Step
  <1>5. PICK e \in [SUBSET (1..N) -> T] : Iterates(e, base, F, N)
    BY <1>3, <1>4, FoldExists, Zenon
  <1> HIDE DEF base
  <1>6. Same(e)
    <2>1. ASSUME NEW u \in SUBSET (1..N), u # {}
          PROVE  F[<<Max(u), e[u \ {Max(u)}]>>] = Step(e[u \ {Max(u)}], s[Max(u)])
      BY <1>3, <2>1, MaxOf
    <2> QED BY <1>2, <1>5, <2>1 DEF Iterates
  <1>7. PICK it : Same(it) /\ Walk(a, b) = it[DOMAIN s].out
    <2> HIDE DEF Same
    <2> QED BY <1>1, <1>6, Zenon
  <1>8. it[{}] = base
    BY <1>7
  <1>9. ASSUME NEW k \in 1..N PROVE it[1..k] = Step(it[1..(k - 1)], s[k])
    <2>1. /\ 1..k \in SUBSET DOMAIN s /\ 1..k # {} /\ Max(1..k) = k
          /\ (1..k) \ {k} = 1..(k - 1)
      BY <1>2, UpTo
    <2> QED BY <1>7, <2>1
  <1>10. Folding(it, base, F, N, T)
    BY <1>3, <1>8, <1>9 DEF Folding
  <1>11. FoldsTo(it[1..N], base, F, N, T)
    BY <1>3, <1>4, <1>10, FoldIs, Zenon
  <1>12. PICK g \in [1..(N + 1) -> T] : Follows(g, base, F, N) /\ it[1..N] = g[N + 1]
    BY <1>11, Zenon DEF FoldsTo
  <1>13. ASSUME NEW k \in 1..N PROVE g[k + 1] = Step(g[k], k)
    <2>1. g[k] \in T /\ g[k + 1] = F[<<k, g[k]>>]
      BY <1>12 DEF Follows
    <2> QED BY <1>2, <1>3, <2>1
  <1>14. g[1] = [taken |-> 0, out |-> <<>>]
    BY <1>12 DEF Follows, base
  <1>15. Boundary \subseteq X /\ Walk(a, b) = g[N + 1].out
    BY <1>0, <1>2, <1>7, <1>12
  <1>16. \A k \in 1..N :
           g[k + 1] = IF FromA(a, b, k, g[k].taken)
                      THEN [taken |-> g[k].taken + 1, out |-> Append(g[k].out, a[g[k].taken + 1])]
                      ELSE [taken |-> g[k].taken, out |-> Append(g[k].out, b[k - g[k].taken])]
    BY <1>13, Zenon DEF Step
  <1> QED BY <1>00, <1>2, <1>12, <1>14, <1>15, <1>16, Zenon DEF M

(* w merges a and b; before its k-th boundary, t[k] boundaries of a are    *)
(* taken.                                                                  *)
Merges(w, a, b, t) ==
    /\ w \in Seq(Boundary) /\ Len(w) = Len(a) + Len(b)
    /\ t \in [1..(Len(w) + 1) -> Nat] /\ t[1] = 0
    /\ \A k \in 1..(Len(w) + 1) : t[k] \in 0..Len(a) /\ (k - 1) - t[k] \in 0..Len(b)
    /\ \A k \in 1..Len(w) :
          IF FromA(a, b, k, t[k]) THEN t[k + 1] = t[k] + 1 /\ w[k] = a[t[k] + 1]
                                  ELSE t[k + 1] = t[k] /\ w[k] = b[k - t[k]]

LEMMA WalkMerges ==
  ASSUME NEW a \in Seq(Boundary), NEW b \in Seq(Boundary)
  PROVE  \E t : Merges(Walk(a, b), a, b, t)
  <1> DEFINE M == Len(a) + Len(b)
  <1>0. Len(a) \in Nat /\ Len(b) \in Nat /\ M \in Nat
    OBVIOUS
  <1>1. PICK X : \E g \in [1..(M + 1) -> [taken : Nat, out : Seq(X)]] :
           /\ Boundary \subseteq X
           /\ g[1] = [taken |-> 0, out |-> <<>>]
           /\ \A k \in 1..M :
                 g[k + 1] = IF FromA(a, b, k, g[k].taken)
                            THEN [taken |-> g[k].taken + 1, out |-> Append(g[k].out, a[g[k].taken + 1])]
                            ELSE [taken |-> g[k].taken, out |-> Append(g[k].out, b[k - g[k].taken])]
           /\ Walk(a, b) = g[M + 1].out
    BY WalkSteps, Zenon
  <1>2. PICK g \in [1..(M + 1) -> [taken : Nat, out : Seq(X)]] :
           /\ Boundary \subseteq X
           /\ g[1] = [taken |-> 0, out |-> <<>>]
           /\ \A k \in 1..M :
                 g[k + 1] = IF FromA(a, b, k, g[k].taken)
                            THEN [taken |-> g[k].taken + 1, out |-> Append(g[k].out, a[g[k].taken + 1])]
                            ELSE [taken |-> g[k].taken, out |-> Append(g[k].out, b[k - g[k].taken])]
           /\ Walk(a, b) = g[M + 1].out
    BY <1>1, Zenon
  <1> DEFINE t == [k \in 1..(M + 1) |-> g[k].taken]
             next(k) == IF FromA(a, b, k, t[k]) THEN a[t[k] + 1] ELSE b[k - t[k]]
  <1>3. t \in [1..(M + 1) -> Nat] /\ t[1] = 0
    BY <1>0, <1>2
  <1>4. ASSUME NEW k \in 1..M
        PROVE  /\ t[k + 1] = IF FromA(a, b, k, t[k]) THEN t[k] + 1 ELSE t[k]
               /\ g[k + 1].out = Append(g[k].out, next(k))
    <2>1. k \in 1..(M + 1) /\ k + 1 \in 1..(M + 1)
      BY <1>0
    <2>2. t[k] = g[k].taken /\ t[k + 1] = g[k + 1].taken
      BY <2>1
    <2> HIDE DEF t
    <2>3. g[k + 1] = IF FromA(a, b, k, t[k])
                     THEN [taken |-> t[k] + 1, out |-> Append(g[k].out, a[t[k] + 1])]
                     ELSE [taken |-> t[k], out |-> Append(g[k].out, b[k - t[k]])]
      BY <1>2, <2>2
    <2>4. CASE FromA(a, b, k, t[k])
      BY <2>2, <2>3, <2>4
    <2>5. CASE ~FromA(a, b, k, t[k])
      BY <2>2, <2>3, <2>5
    <2> QED BY <2>4, <2>5
  <1> HIDE DEF t
  <1> DEFINE S == {n \in Nat : n <= M => /\ t[n + 1] \in 0..Len(a) /\ n - t[n + 1] \in 0..Len(b)
                                         /\ g[n + 1].out \in Seq(Boundary) /\ Len(g[n + 1].out) = n
                                         /\ \A k \in 1..n : g[n + 1].out[k] = next(k)}
  <1>5. 0 \in S
    <2>1. <<>> \in Seq(Boundary) /\ Len(<<>>) = 0 /\ \A k \in 1..0 : FALSE
      OBVIOUS
    <2>2. g[0 + 1].out = <<>> /\ t[0 + 1] = 0
      BY <1>2, <1>3
    <2> QED BY <1>0, <2>1, <2>2
  <1>6. ASSUME NEW n \in Nat, n \in S PROVE n + 1 \in S
    <2>1. SUFFICES ASSUME n + 1 <= M
                   PROVE  /\ t[(n + 1) + 1] \in 0..Len(a) /\ (n + 1) - t[(n + 1) + 1] \in 0..Len(b)
                          /\ g[(n + 1) + 1].out \in Seq(Boundary) /\ Len(g[(n + 1) + 1].out) = n + 1
                          /\ \A k \in 1..(n + 1) : g[(n + 1) + 1].out[k] = next(k)
      OBVIOUS
    <2>2. /\ t[n + 1] \in 0..Len(a) /\ n - t[n + 1] \in 0..Len(b)
          /\ g[n + 1].out \in Seq(Boundary) /\ Len(g[n + 1].out) = n
          /\ \A k \in 1..n : g[n + 1].out[k] = next(k)
      BY <1>0, <1>6, <2>1
    <2>3. /\ n + 1 \in 1..M
          /\ t[(n + 1) + 1] = IF FromA(a, b, n + 1, t[n + 1]) THEN t[n + 1] + 1 ELSE t[n + 1]
          /\ g[(n + 1) + 1].out = Append(g[n + 1].out, next(n + 1))
      <3>1. n + 1 \in 1..M
        BY <1>0, <2>1
      <3> QED BY <1>4, <3>1, Zenon
    <2>4. /\ t[(n + 1) + 1] \in 0..Len(a) /\ (n + 1) - t[(n + 1) + 1] \in 0..Len(b)
          /\ next(n + 1) \in Boundary
      <3>1. CASE FromA(a, b, n + 1, t[n + 1])
        <4>1. t[n + 1] + 1 \in 1..Len(a) /\ t[(n + 1) + 1] = t[n + 1] + 1
          BY <1>0, <2>2, <2>3, <3>1 DEF FromA
        <4>2. a[t[n + 1] + 1] \in Boundary
          BY <4>1
        <4> QED BY <1>0, <2>2, <3>1, <4>1, <4>2
      <3>2. CASE ~FromA(a, b, n + 1, t[n + 1])
        <4>1. (n + 1) - t[n + 1] \in 1..Len(b) /\ t[(n + 1) + 1] = t[n + 1]
          BY <1>0, <2>1, <2>2, <2>3, <3>2 DEF FromA
        <4>2. b[(n + 1) - t[n + 1]] \in Boundary
          BY <4>1
        <4> QED BY <1>0, <2>2, <3>2, <4>1, <4>2
      <3> QED BY <3>1, <3>2
    <2> HIDE DEF next
    <2>5. /\ g[(n + 1) + 1].out \in Seq(Boundary) /\ Len(g[(n + 1) + 1].out) = n + 1
          /\ g[(n + 1) + 1].out[n + 1] = next(n + 1)
          /\ \A k \in 1..n : g[(n + 1) + 1].out[k] = g[n + 1].out[k]
      BY <2>2, <2>3, <2>4, Appended
    <2>6. ASSUME NEW k \in 1..(n + 1) PROVE g[(n + 1) + 1].out[k] = next(k)
      <3>1. k \in 1..n \/ k = n + 1
        OBVIOUS
      <3> QED BY <2>2, <2>5, <3>1
    <2> QED BY <2>4, <2>5, <2>6
  <1> HIDE DEF S, next
  <1>7. Nat \subseteq S
    BY <1>5, <1>6, SetInduction
  <1>8. /\ \A n \in 0..M : t[n + 1] \in 0..Len(a) /\ n - t[n + 1] \in 0..Len(b)
        /\ Walk(a, b) \in Seq(Boundary) /\ Len(Walk(a, b)) = M
        /\ \A k \in 1..M : Walk(a, b)[k] = next(k)
    <2>1. \A n \in 0..M : n \in Nat /\ n <= M
      BY <1>0
    <2>2. \A n \in 0..M : /\ t[n + 1] \in 0..Len(a) /\ n - t[n + 1] \in 0..Len(b)
                          /\ g[n + 1].out \in Seq(Boundary) /\ Len(g[n + 1].out) = n
                          /\ \A k \in 1..n : g[n + 1].out[k] = next(k)
      BY <1>7, <2>1, Zenon DEF S
    <2>3. M \in 0..M
      BY <1>0
    <2> QED BY <1>2, <2>2, <2>3
  <1>9. \A k \in 1..(M + 1) : t[k] \in 0..Len(a) /\ (k - 1) - t[k] \in 0..Len(b)
    <2> TAKE k \in 1..(M + 1)
    <2>1. k - 1 \in 0..M /\ (k - 1) + 1 = k
      BY <1>0
    <2> QED BY <1>8, <2>1
  <1>10. Merges(Walk(a, b), a, b, t)
    BY <1>3, <1>4, <1>8, <1>9 DEF Merges, next
  <1> QED BY <1>10

LEMMA LowerOrder ==
  ASSUME NEW x \in Boundary, NEW y \in Boundary, NEW z \in Boundary
  PROVE  /\ ~Lower(y, x) /\ ~Lower(z, y) => ~Lower(z, x)
         /\ Lower(x, y) => ~Lower(y, x)
         /\ ~Lower(x, x)
         /\ ~Lower(y, x) => x[1] <= y[1]
  <1>1. x[1] \in Int /\ x[2] \in Int /\ y[1] \in Int /\ y[2] \in Int /\ z[1] \in Int /\ z[2] \in Int
    BY DEF Boundary
  <1> QED BY <1>1 DEF Lower

Rising(s) == \A i, j \in 1..Len(s) : i <= j => ~Lower(s[j], s[i])

(* Nothing that is left of a and b before the k-th boundary is lower than x. *)
NoneLower(a, b, t, k, x) ==
    /\ \A i \in (t[k] + 1)..Len(a) : ~Lower(a[i], x)
    /\ \A i \in (k - t[k])..Len(b) : ~Lower(b[i], x)

LEMMA MergeTakesLowest ==
  ASSUME NEW a \in Seq(Boundary), NEW b \in Seq(Boundary), Rising(a), Rising(b),
         NEW w, NEW t, Merges(w, a, b, t), NEW k \in 1..Len(w)
  PROVE  NoneLower(a, b, t, k, w[k])
  <1>1. /\ Len(a) \in Nat /\ Len(b) \in Nat /\ Len(w) = Len(a) + Len(b)
        /\ \A i \in 1..Len(a) : a[i] \in Boundary
        /\ \A i \in 1..Len(b) : b[i] \in Boundary
    BY DEF Merges
  <1>2. k \in 1..(Len(w) + 1) /\ t[k] \in 0..Len(a) /\ (k - 1) - t[k] \in 0..Len(b)
    BY <1>1 DEF Merges
  <1>3. CASE FromA(a, b, k, t[k])
    <2>1. w[k] = a[t[k] + 1] /\ t[k] + 1 \in 1..Len(a)
      <3>1. w[k] = a[t[k] + 1]
        BY <1>3 DEF Merges
      <3> QED BY <1>1, <1>2, <1>3, <3>1 DEF FromA
    <2>2. \A i \in (t[k] + 1)..Len(a) : ~Lower(a[i], w[k])
      BY <1>1, <1>2, <2>1 DEF Rising
    <2>3. ASSUME NEW i \in (k - t[k])..Len(b) PROVE ~Lower(b[i], w[k])
      <3>1. k - t[k] \in 1..Len(b) /\ i \in 1..Len(b) /\ k - t[k] <= i
        BY <1>1, <1>2, <2>3
      <3>2. ~Lower(b[k - t[k]], w[k])
        BY <1>1, <1>2, <1>3, <2>1, <3>1 DEF FromA
      <3>3. ~Lower(b[i], b[k - t[k]])
        BY <3>1 DEF Rising
      <3> QED BY <1>1, <2>1, <3>1, <3>2, <3>3, LowerOrder
    <2> QED BY <2>2, <2>3 DEF NoneLower
  <1>4. CASE ~FromA(a, b, k, t[k])
    <2>1. w[k] = b[k - t[k]] /\ k - t[k] \in 1..Len(b)
      BY <1>1, <1>2, <1>4 DEF Merges, FromA
    <2>2. \A i \in (k - t[k])..Len(b) : ~Lower(b[i], w[k])
      BY <1>1, <1>2, <2>1 DEF Rising
    <2>3. ASSUME NEW i \in (t[k] + 1)..Len(a) PROVE ~Lower(a[i], w[k])
      <3>1. t[k] + 1 \in 1..Len(a) /\ i \in 1..Len(a) /\ t[k] + 1 <= i
        BY <1>1, <1>2, <2>3
      <3>2. Lower(w[k], a[t[k] + 1])
        BY <1>1, <1>2, <1>4, <2>1, <3>1 DEF FromA
      <3>3. ~Lower(a[i], a[t[k] + 1])
        BY <3>1 DEF Rising
      <3> QED BY <1>1, <2>1, <3>1, <3>2, <3>3, LowerOrder
    <2> QED BY <2>2, <2>3 DEF NoneLower
  <1> QED BY <1>3, <1>4

(* Before the k-th boundary: what is taken of a and b is in w, and no      *)
(* higher than what is left.                                               *)
Ordered(w, a, b, t, k) ==
    /\ \A j \in 1..(k - 1) : NoneLower(a, b, t, k, w[j])
    /\ \A i \in 1..t[k] : \E j \in 1..(k - 1) : w[j] = a[i]
    /\ \A i \in 1..((k - 1) - t[k]) : \E j \in 1..(k - 1) : w[j] = b[i]

LEMMA MergeOrdered ==
  ASSUME NEW a \in Seq(Boundary), NEW b \in Seq(Boundary), Rising(a), Rising(b),
         NEW w, NEW t, Merges(w, a, b, t)
  PROVE  \A k \in 1..(Len(w) + 1) : Ordered(w, a, b, t, k)
  <1> DEFINE S == {n \in Nat : n <= Len(w) => Ordered(w, a, b, t, n + 1)}
  <1>1. Len(a) \in Nat /\ Len(b) \in Nat /\ Len(w) \in Nat /\ Len(w) = Len(a) + Len(b)
    BY DEF Merges
  <1>2. 0 \in S
    <2>1. t[0 + 1] = 0
      BY DEF Merges
    <2>2. 1..((0 + 1) - 1) = {} /\ 1..0 = {} /\ (0 + 1) - 1 - 0 = 0
      OBVIOUS
    <2> QED BY <2>1, <2>2 DEF Ordered
  <1>3. ASSUME NEW n \in Nat, n \in S PROVE n + 1 \in S
    <2>1. SUFFICES ASSUME n + 1 <= Len(w) PROVE Ordered(w, a, b, t, (n + 1) + 1)
      OBVIOUS
    <2>2. PICK k \in 1..Len(w) : k = n + 1 /\ Ordered(w, a, b, t, k)
      BY <1>1, <1>3, <2>1
    <2>3. NoneLower(a, b, t, k, w[k])
      BY MergeTakesLowest
    <2>4. /\ t[k] \in 0..Len(a) /\ (k - 1) - t[k] \in 0..Len(b) /\ t[k + 1] \in 0..Len(a)
          /\ IF FromA(a, b, k, t[k]) THEN t[k + 1] = t[k] + 1 /\ w[k] = a[t[k] + 1]
                                     ELSE t[k + 1] = t[k] /\ w[k] = b[k - t[k]]
      BY <1>1 DEF Merges
    <2>5. t[k + 1] = t[k] + 1 \/ t[k + 1] = t[k]
      BY <2>4
    <2>6. ASSUME NEW j \in 1..((k + 1) - 1) PROVE NoneLower(a, b, t, k + 1, w[j])
      <3>1. NoneLower(a, b, t, k, w[j])
        <4>1. j = k \/ j \in 1..(k - 1)
          OBVIOUS
        <4> QED BY <2>2, <2>3, <4>1 DEF Ordered
      <3>2. /\ \A i \in (t[k + 1] + 1)..Len(a) : i \in (t[k] + 1)..Len(a)
            /\ \A i \in ((k + 1) - t[k + 1])..Len(b) : i \in (k - t[k])..Len(b)
        BY <1>1, <2>4, <2>5
      <3> QED BY <3>1, <3>2 DEF NoneLower
    <2>7. \A j \in 1..(k - 1) : j \in 1..((k + 1) - 1) /\ k \in 1..((k + 1) - 1)
      OBVIOUS
    <2>8. ASSUME NEW i \in 1..t[k + 1] PROVE \E j \in 1..((k + 1) - 1) : w[j] = a[i]
      <3>1. CASE i \in 1..t[k]
        BY <2>2, <2>7, <3>1 DEF Ordered
      <3>2. CASE i \notin 1..t[k]
        <4>1. i = t[k] + 1 /\ t[k + 1] # t[k]
          BY <2>4, <2>5, <3>2
        <4>2. w[k] = a[i]
          BY <2>4, <4>1
        <4>3. k \in 1..((k + 1) - 1)
          OBVIOUS
        <4> QED BY <4>2, <4>3
      <3> QED BY <3>1, <3>2
    <2>9. ASSUME NEW i \in 1..(((k + 1) - 1) - t[k + 1]) PROVE \E j \in 1..((k + 1) - 1) : w[j] = b[i]
      <3>1. CASE i \in 1..((k - 1) - t[k])
        BY <2>2, <2>7, <3>1 DEF Ordered
      <3>2. CASE i \notin 1..((k - 1) - t[k])
        <4>1. i = k - t[k] /\ t[k + 1] = t[k]
          BY <2>4, <2>5, <3>2
        <4>2. t[k + 1] # t[k] + 1
          BY <2>4, <4>1
        <4>3. w[k] = b[i]
          BY <2>4, <4>1, <4>2
        <4>4. k \in 1..((k + 1) - 1)
          OBVIOUS
        <4> QED BY <4>3, <4>4
      <3> QED BY <3>1, <3>2
    <2> QED BY <2>2, <2>6, <2>8, <2>9 DEF Ordered
  <1> HIDE DEF S
  <1>4. Nat \subseteq S
    BY <1>2, <1>3, SetInduction
  <1>5. ASSUME NEW k \in 1..(Len(w) + 1) PROVE Ordered(w, a, b, t, k)
    <2>1. k - 1 \in Nat /\ (k - 1) + 1 = k /\ k - 1 <= Len(w)
      BY <1>1
    <2>2. k - 1 \in S
      BY <1>4, <2>1
    <2> QED BY <2>1, <2>2, Zenon DEF S
  <1> QED BY <1>5

(* c boundaries of w are not above block x.                                *)
Reaches(w, x, c) == c \in 0..Len(w) /\ \A k \in 1..Len(w) : w[k][1] <= x <=> k <= c

LEMMA MergeRises ==
  ASSUME NEW a \in Seq(Boundary), NEW b \in Seq(Boundary), Rising(a), Rising(b),
         NEW w, NEW t, Merges(w, a, b, t)
  PROVE  /\ \A j, k \in 1..Len(w) : j <= k => w[j][1] <= w[k][1]
         /\ \A x \in Int, c \in Nat :
               Reaches(w, x, c) => Reaches(a, x, t[c + 1]) /\ Reaches(b, x, c - t[c + 1])
  <1>1. /\ Len(a) \in Nat /\ Len(b) \in Nat /\ Len(w) \in Nat /\ Len(w) = Len(a) + Len(b)
        /\ \A i \in 1..Len(a) : a[i] \in Boundary
        /\ \A i \in 1..Len(b) : b[i] \in Boundary
        /\ \A i \in 1..Len(w) : w[i] \in Boundary
    BY DEF Merges
  <1>2. \A x \in Boundary : x[1] \in Int
    BY DEF Boundary
  <1>3. \A k \in 1..(Len(w) + 1) : /\ Ordered(w, a, b, t, k)
                                   /\ t[k] \in 0..Len(a) /\ (k - 1) - t[k] \in 0..Len(b)
    BY MergeOrdered DEF Merges
  <1>4. ASSUME NEW k \in 1..Len(w) PROVE NoneLower(a, b, t, k, w[k])
    BY MergeTakesLowest
  <1>5. ASSUME NEW j \in 1..Len(w), NEW k \in 1..Len(w), j <= k PROVE w[j][1] <= w[k][1]
    <2>1. CASE j = k
      BY <1>1, <1>2, <2>1
    <2>2. CASE j < k
      <3>1. k \in 1..(Len(w) + 1) /\ j \in 1..(k - 1)
        BY <1>1, <2>2
      <3>2. NoneLower(a, b, t, k, w[j])
        BY <1>3, <3>1 DEF Ordered
      <3>3. ~Lower(w[k], w[j])
        <4>1. IF FromA(a, b, k, t[k]) THEN w[k] = a[t[k] + 1] ELSE w[k] = b[k - t[k]]
          BY DEF Merges
        <4>2. t[k] \in 0..Len(a) /\ (k - 1) - t[k] \in 0..Len(b)
          BY <1>3, <3>1
        <4>3. CASE FromA(a, b, k, t[k])
          <5>1. t[k] + 1 \in (t[k] + 1)..Len(a)
            BY <1>1, <4>2, <4>3 DEF FromA
          <5> QED BY <3>2, <4>1, <4>3, <5>1 DEF NoneLower
        <4>4. CASE ~FromA(a, b, k, t[k])
          <5>1. k - t[k] \in (k - t[k])..Len(b)
            BY <1>1, <4>2, <4>4 DEF FromA
          <5> QED BY <3>2, <4>1, <4>4, <5>1 DEF NoneLower
        <4> QED BY <4>3, <4>4
      <3> QED BY <1>1, <3>3, LowerOrder
    <2> QED BY <1>5, <2>1, <2>2
  <1>6. ASSUME NEW x \in Int, NEW c \in Nat, Reaches(w, x, c)
        PROVE  Reaches(a, x, t[c + 1]) /\ Reaches(b, x, c - t[c + 1])
    <2>1. c \in 0..Len(w) /\ c + 1 \in 1..(Len(w) + 1) /\ (c + 1) - 1 = c
      BY <1>1, <1>6 DEF Reaches
    <2>2. /\ Ordered(w, a, b, t, c + 1)
          /\ t[c + 1] \in 0..Len(a) /\ c - t[c + 1] \in 0..Len(b)
      BY <1>3, <2>1
    <2>3. \A k \in 1..Len(w) : w[k][1] <= x <=> k <= c
      BY <1>6 DEF Reaches
    <2>4. ASSUME NEW i \in 1..t[c + 1] PROVE a[i][1] <= x
      <3>1. PICK j \in 1..c : w[j] = a[i]
        BY <2>1, <2>2 DEF Ordered
      <3> QED BY <1>1, <2>1, <2>3, <3>1
    <2>5. ASSUME NEW i \in 1..(c - t[c + 1]) PROVE b[i][1] <= x
      <3>1. PICK j \in 1..c : w[j] = b[i]
        BY <2>1, <2>2 DEF Ordered
      <3> QED BY <1>1, <2>1, <2>3, <3>1
    <2>6. CASE c = Len(w)
      <3>1. t[c + 1] = Len(a) /\ c - t[c + 1] = Len(b)
        BY <1>1, <2>2, <2>6
      <3> QED BY <1>1, <2>4, <2>5, <3>1 DEF Reaches
    <2>7. CASE c # Len(w)
      <3>1. c + 1 \in 1..Len(w) /\ ~(w[c + 1][1] <= x) /\ w[c + 1] \in Boundary
        BY <1>1, <2>1, <2>3, <2>7
      <3>2. NoneLower(a, b, t, c + 1, w[c + 1])
        BY <1>4, <3>1
      <3>3. ASSUME NEW i \in 1..Len(a), ~(i <= t[c + 1]) PROVE ~(a[i][1] <= x)
        <4>1. i \in (t[c + 1] + 1)..Len(a) /\ a[i] \in Boundary
          BY <1>1, <2>2, <3>3
        <4>2. w[c + 1][1] <= a[i][1]
          BY <3>1, <3>2, <4>1, LowerOrder DEF NoneLower
        <4> QED BY <1>2, <3>1, <4>1, <4>2
      <3>4. ASSUME NEW i \in 1..Len(b), ~(i <= c - t[c + 1]) PROVE ~(b[i][1] <= x)
        <4>1. i \in ((c + 1) - t[c + 1])..Len(b) /\ b[i] \in Boundary
          BY <1>1, <2>1, <2>2, <3>4
        <4>2. w[c + 1][1] <= b[i][1]
          BY <3>1, <3>2, <4>1, LowerOrder DEF NoneLower
        <4> QED BY <1>2, <3>1, <4>1, <4>2
      <3>5. \A i \in 1..Len(a) : i <= t[c + 1] => i \in 1..t[c + 1]
        BY <2>2
      <3>6. \A i \in 1..Len(b) : i <= c - t[c + 1] => i \in 1..(c - t[c + 1])
        BY <2>1, <2>2
      <3>7. Reaches(a, x, t[c + 1])
        BY <2>2, <2>4, <3>3, <3>5 DEF Reaches
      <3>8. Reaches(b, x, c - t[c + 1])
        BY <2>2, <2>5, <3>4, <3>6 DEF Reaches
      <3> QED BY <3>7, <3>8
    <2> QED BY <2>6, <2>7
  <1> QED BY <1>5, <1>6

-------------------------------------------------------------------------------
(* Sweep, boundary by boundary.                                            *)

SweepStep(acc, at, edges) ==
    [depth |-> acc.depth + at[2],
     out |-> IF <<acc.depth, at[2]>> \in edges THEN Append(acc.out, at[1]) ELSE acc.out]

Sweeps(g, w, edges) ==
    /\ g \in [1..(Len(w) + 1) -> [depth : Int, out : Seq(Nat)]]
    /\ g[1] = [depth |-> 0, out |-> <<>>]
    /\ \A k \in 1..Len(w) : g[k + 1] = SweepStep(g[k], w[k], edges)
    /\ Sweep(w, edges) = RemovePairs(g[Len(w) + 1].out)

LEMMA SweepSteps ==
  ASSUME NEW w \in Seq(Boundary), \A k \in 1..Len(w) : w[k][1] \in Nat, NEW edges
  PROVE  \E g : Sweeps(g, w, edges)
  <1>0. PICK T : T = [depth : Int, out : Seq(Nat)]
    OBVIOUS
  <1> DEFINE Step(acc, at) == SweepStep(acc, at, edges)
             base == [depth |-> 0, out |-> Empty]
             Same(iter) ==
               iter = [u \in SUBSET DOMAIN w |->
                         IF u = {} THEN base
                         ELSE LET x == Max(u) IN Step(iter[u \ {x}], w[x])]
  <1>1. Sweep(w, edges) = RemovePairs((CHOOSE iter : Same(iter))[DOMAIN w].out)
    BY DEF Sweep, FoldLeft, MapThenFoldSet, SweepStep
  <1>2. PICK N \in Nat : N = Len(w) /\ DOMAIN w = 1..N
    OBVIOUS
  <1>3. PICK F : /\ F \in [(1..N) \X T -> T]
                 /\ \A k \in 1..N, v \in T : F[<<k, v>>] = Step(v, w[k])
    <2> DEFINE F == [p \in (1..N) \X T |-> Step(p[2], w[p[1]])]
    <2>1. ASSUME NEW k \in 1..N, NEW v \in T PROVE Step(v, w[k]) \in T
      <3>1. w[k] \in Boundary /\ w[k][1] \in Nat /\ v \in [depth : Int, out : Seq(Nat)]
        BY <1>0, <1>2
      <3>2. w[k][2] \in Int
        BY <3>1 DEF Boundary
      <3>3. Append(v.out, w[k][1]) \in Seq(Nat) /\ v.depth + w[k][2] \in Int /\ v.out \in Seq(Nat)
        BY <3>1, <3>2
      <3> QED BY <1>0, <3>3 DEF SweepStep
    <2> HIDE DEF Step
    <2>2. F \in [(1..N) \X T -> T] /\ \A k \in 1..N, v \in T : F[<<k, v>>] = Step(v, w[k])
      BY <2>1
    <2> HIDE DEF F
    <2> QED BY <2>2
  <1>4. base \in T
    BY <1>0 DEF Empty
  <1> HIDE DEF Step
  <1>5. PICK e \in [SUBSET (1..N) -> T] : Iterates(e, base, F, N)
    BY <1>3, <1>4, FoldExists, Zenon
  <1> HIDE DEF base
  <1>6. Same(e)
    <2>1. ASSUME NEW u \in SUBSET (1..N), u # {}
          PROVE  F[<<Max(u), e[u \ {Max(u)}]>>] = Step(e[u \ {Max(u)}], w[Max(u)])
      BY <1>3, <2>1, MaxOf
    <2> QED BY <1>2, <1>5, <2>1 DEF Iterates
  <1>7. PICK it : Same(it) /\ Sweep(w, edges) = RemovePairs(it[DOMAIN w].out)
    <2> HIDE DEF Same
    <2> QED BY <1>1, <1>6, Zenon
  <1>8. it[{}] = base
    BY <1>7
  <1>9. ASSUME NEW k \in 1..N PROVE it[1..k] = Step(it[1..(k - 1)], w[k])
    <2>1. /\ 1..k \in SUBSET DOMAIN w /\ 1..k # {} /\ Max(1..k) = k
          /\ (1..k) \ {k} = 1..(k - 1)
      BY <1>2, UpTo
    <2> QED BY <1>7, <2>1
  <1>10. Folding(it, base, F, N, T)
    BY <1>3, <1>8, <1>9 DEF Folding
  <1>11. FoldsTo(it[1..N], base, F, N, T)
    BY <1>3, <1>4, <1>10, FoldIs, Zenon
  <1>12. PICK g \in [1..(N + 1) -> T] : Follows(g, base, F, N) /\ it[1..N] = g[N + 1]
    BY <1>11, Zenon DEF FoldsTo
  <1>13. ASSUME NEW k \in 1..N PROVE g[k + 1] = Step(g[k], w[k])
    <2>1. g[k] \in T /\ g[k + 1] = F[<<k, g[k]>>]
      BY <1>12 DEF Follows
    <2> QED BY <1>3, <2>1
  <1>14. g[1] = [depth |-> 0, out |-> <<>>]
    BY <1>12 DEF Follows, base, Empty
  <1> QED BY <1>0, <1>2, <1>7, <1>12, <1>13, <1>14, Zenon DEF Step, Sweeps

LEMMA BoundariesAre ==
  ASSUME NEW r \in Seq(Int), Ascends(r), NEW start \in Int, NEW end \in Int
  PROVE  LET a == Boundaries(r, start, end)
         IN  /\ a \in Seq(Boundary) /\ Len(a) = Len(r) /\ Rising(a)
             /\ \A i \in 1..Len(r) : a[i][1] = r[i] /\ a[i][2] = IF i % 2 = 1 THEN start ELSE end
             /\ \A x, c : Reaches(a, x, c) <=> Cut(r, x, c)
  <1> DEFINE a == Boundaries(r, start, end)
  <1>1. /\ Len(r) \in Nat /\ DOMAIN r = 1..Len(r)
        /\ \A i \in 1..Len(r) : r[i] \in Int
    OBVIOUS
  <1>2. ASSUME NEW i \in 1..Len(r) PROVE <<r[i], IF i % 2 = 1 THEN start ELSE end>> \in Boundary
    BY <1>1 DEF Boundary
  <1>3. a \in Seq(Boundary) /\ Len(a) = Len(r) /\ DOMAIN a = 1..Len(r)
        /\ \A i \in 1..Len(r) : a[i] = <<r[i], IF i % 2 = 1 THEN start ELSE end>>
    BY <1>1, <1>2 DEF Boundaries
  <1> HIDE DEF a
  <1>4. \A i \in 1..Len(r) : a[i][1] = r[i] /\ a[i][2] = IF i % 2 = 1 THEN start ELSE end
    BY <1>3
  <1>5. Rising(a)
    <2>1. ASSUME NEW i \in 1..Len(r), NEW j \in 1..Len(r), i <= j PROVE ~Lower(a[j], a[i])
      <3>1. CASE i = j
        BY <1>3, <3>1, LowerOrder
      <3>2. CASE i < j
        <4>1. r[i] < r[j] /\ r[i] \in Int /\ r[j] \in Int
          BY <1>1, <3>2 DEF Ascends
        <4>2. ~(r[j] < r[i]) /\ r[j] # r[i]
          BY <4>1
        <4> QED BY <1>4, <4>2 DEF Lower
      <3> QED BY <2>1, <3>1, <3>2
    <2> QED BY <1>3, <2>1 DEF Rising
  <1>6. \A x, c : Reaches(a, x, c) <=> Cut(r, x, c)
    BY <1>3, <1>4 DEF Reaches, Cut
  <1> QED BY <1>3, <1>4, <1>5, <1>6 DEF a

LEMMA CutUnique ==
  ASSUME NEW r, NEW x, NEW c, NEW d, Cut(r, x, c), Cut(r, x, d), Len(r) \in Nat
  PROVE  c = d
  <1>1. c \in 0..Len(r) /\ d \in 0..Len(r) /\ \A i \in 1..Len(r) : i <= c <=> i <= d
    BY DEF Cut
  <1>2. CASE c < d
    <2>1. d \in 1..Len(r) /\ ~(d <= c) /\ d <= d
      BY <1>1, <1>2
    <2> QED BY <1>1, <2>1
  <1>3. CASE d < c
    <2>1. c \in 1..Len(r) /\ ~(c <= d) /\ c <= c
      BY <1>1, <1>3
    <2> QED BY <1>1, <2>1
  <1> QED BY <1>1, <1>2, <1>3

(* The steps of a walk, the depths its edges are at, and the edges.        *)
Steps == {1, -1}

Levels == {1, 2}

EdgesAt(h) == {<<h - 1, 1>>, <<h, -1>>}

(* What n boundaries add to the depth. *)
Deep(step, n) == IF n % 2 = 1 THEN step ELSE 0

LEMMA Deeper ==
  ASSUME NEW n \in Nat, NEW step \in Steps
  PROVE  /\ Deep(step, n + 1) = Deep(step, n) + (IF (n + 1) % 2 = 1 THEN step ELSE 0 - step)
         /\ Deep(step, n) \in Int
  BY DEF Deep, Steps

(* The edges not above x are those found before the walk passes x.         *)
LEMMA SweptCut ==
  ASSUME NEW w \in Seq(Boundary), \A k \in 1..Len(w) : w[k][1] \in Nat, NEW edges,
         NEW g, Sweeps(g, w, edges), NEW x \in Int, NEW c \in Nat, Reaches(w, x, c)
  PROVE  Cut(g[Len(w) + 1].out, x, Len(g[c + 1].out))
  <1> DEFINE N == Len(w)
             O(n) == g[n + 1].out
             Found(n, m) == /\ Len(O(m)) <= Len(O(n))
                            /\ \A j \in 1..Len(O(n)) : O(n)[j] <= x <=> j <= Len(O(m))
             S == {n \in Nat : n <= N => Found(n, IF n <= c THEN n ELSE c)}
  <1>1. N \in Nat /\ c \in 0..N /\ \A k \in 1..N : w[k][1] \in Nat /\ (w[k][1] <= x <=> k <= c)
    BY DEF Reaches
  <1>2. ASSUME NEW n \in 0..N PROVE O(n) \in Seq(Nat) /\ Len(O(n)) \in Nat
    <2>1. n + 1 \in 1..(N + 1)
      BY <1>1
    <2>2. g[n + 1] \in [depth : Int, out : Seq(Nat)]
      BY <2>1 DEF Sweeps
    <2> QED BY <2>2
  <1>3. ASSUME NEW n \in Nat, n + 1 <= N
        PROVE  /\ w[n + 1][1] \in Nat /\ n + 1 \in 1..N /\ n \in 0..N /\ n + 1 \in 0..N
               /\ O(n + 1) = Append(O(n), w[n + 1][1]) \/ O(n + 1) = O(n)
    <2>1. n + 1 \in 1..N /\ n \in 0..N /\ n + 1 \in 0..N
      BY <1>1, <1>3
    <2>2. g[(n + 1) + 1] = SweepStep(g[n + 1], w[n + 1], edges)
      BY <2>1 DEF Sweeps
    <2> QED BY <1>1, <2>1, <2>2 DEF SweepStep
  <1> HIDE DEF O
  <1>4. 0 \in S
    <2>1. O(0) = <<>>
      BY DEF O, Sweeps
    <2>2. Found(0, 0)
      BY <2>1
    <2>3. (IF 0 <= c THEN 0 ELSE c) = 0
      OBVIOUS
    <2> HIDE DEF Found
    <2> QED BY <2>2, <2>3
  <1>5. ASSUME NEW n \in Nat, n \in S PROVE n + 1 \in S
    <2>1. SUFFICES ASSUME n + 1 <= N PROVE Found(n + 1, IF n + 1 <= c THEN n + 1 ELSE c)
      OBVIOUS
    <2>2. /\ n + 1 \in 1..N /\ n \in 0..N /\ n + 1 \in 0..N /\ w[n + 1][1] \in Nat
          /\ O(n + 1) = Append(O(n), w[n + 1][1]) \/ O(n + 1) = O(n)
      BY <1>3, <2>1
    <2>3. /\ O(n) \in Seq(Nat) /\ Len(O(n)) \in Nat /\ O(n + 1) \in Seq(Nat) /\ Len(O(n + 1)) \in Nat
          /\ Len(O(c)) \in Nat
      BY <1>1, <1>2, <2>2
    <2>4. Found(n, IF n <= c THEN n ELSE c)
      BY <1>1, <1>5, <2>2
    <2>5. /\ Len(O(n)) <= Len(O(n + 1))
          /\ \A j \in 1..Len(O(n)) : O(n + 1)[j] = O(n)[j]
          /\ \A j \in 1..Len(O(n + 1)) : j \in 1..Len(O(n)) \/ (j > Len(O(n)) /\ O(n + 1)[j] = w[n + 1][1])
      <3>1. CASE O(n + 1) = O(n)
        BY <2>3, <3>1
      <3>2. CASE O(n + 1) = Append(O(n), w[n + 1][1])
        <4>1. /\ Len(O(n + 1)) = Len(O(n)) + 1 /\ O(n + 1)[Len(O(n)) + 1] = w[n + 1][1]
              /\ \A j \in 1..Len(O(n)) : O(n + 1)[j] = O(n)[j]
              /\ \A j \in 1..(Len(O(n)) + 1) : j \in 1..Len(O(n)) \/ j = Len(O(n)) + 1
          <5>1. O(n) \in Seq(Nat) /\ w[n + 1][1] \in Nat
            BY <2>2, <2>3
          <5>2. LET A == Append(O(n), w[n + 1][1])
                IN  /\ Len(A) = Len(O(n)) + 1 /\ A[Len(O(n)) + 1] = w[n + 1][1]
                    /\ \A j \in 1..Len(O(n)) : A[j] = O(n)[j]
                    /\ \A j \in 1..(Len(O(n)) + 1) : j \in 1..Len(O(n)) \/ j = Len(O(n)) + 1
            BY <5>1, Appended
          <5> QED BY <3>2, <5>2, Zenon
        <4> QED BY <2>3, <4>1
      <3> QED BY <2>2, <3>1, <3>2
    <2>6. CASE n + 1 <= c
      <3>1. Found(n, n) /\ w[n + 1][1] <= x
        BY <1>1, <2>2, <2>4, <2>6
      <3>2. \A j \in 1..Len(O(n)) : O(n)[j] <= x /\ j <= Len(O(n + 1))
        BY <2>3, <2>5, <3>1
      <3>3. \A j \in 1..Len(O(n + 1)) : O(n + 1)[j] <= x /\ j <= Len(O(n + 1))
        BY <2>3, <2>5, <3>1, <3>2
      <3> QED BY <2>3, <2>6, <3>3
    <2>7. CASE ~(n + 1 <= c)
      <3>1. (IF n <= c THEN n ELSE c) = c
        BY <1>1, <2>2, <2>7
      <3>2. Found(n, c) /\ ~(w[n + 1][1] <= x)
        BY <1>1, <2>2, <2>4, <2>7, <3>1
      <3>3. ASSUME NEW j \in 1..Len(O(n + 1)) PROVE O(n + 1)[j] <= x <=> j <= Len(O(c))
        <4>1. CASE j \in 1..Len(O(n))
          BY <2>5, <3>2, <4>1
        <4>2. CASE j \notin 1..Len(O(n))
          BY <2>3, <2>5, <3>2, <4>2
        <4> QED BY <4>1, <4>2
      <3>4. Len(O(c)) <= Len(O(n + 1))
        BY <2>3, <2>5, <3>2
      <3> QED BY <2>7, <3>3, <3>4
    <2> QED BY <2>6, <2>7
  <1> HIDE DEF S, Found
  <1>6. N \in S
    <2>1. Nat \subseteq S
      BY <1>4, <1>5, SetInduction
    <2> QED BY <1>1, <2>1
  <1>7. (IF N <= c THEN N ELSE c) = c
    BY <1>1
  <1>8. Found(N, c)
    BY <1>6, <1>7 DEF S
  <1>9. Len(O(c)) \in Nat
    BY <1>1, <1>2
  <1> QED BY <1>8, <1>9 DEF Found, O, Cut

(* After n boundaries of the walk. *)
Swept(acc, sp, sq, h, i, j) ==
    /\ acc.depth = Deep(sp, i) + Deep(sq, j)
    /\ Len(acc.out) % 2 = IF acc.depth >= h THEN 1 ELSE 0

(* at is the next boundary of one of them. *)
Turn(at, i, j, u, v, sp, sq) ==
    \/ u = i + 1 /\ v = j /\ at[2] = IF u % 2 = 1 THEN sp ELSE 0 - sp
    \/ u = i /\ v = j + 1 /\ at[2] = IF v % 2 = 1 THEN sq ELSE 0 - sq

LEMMA Flip ==
  ASSUME NEW n \in Nat
  PROVE  (n % 2 = 0 => (n + 1) % 2 = 1) /\ (n % 2 = 1 => (n + 1) % 2 = 0)
  OBVIOUS

LEMMA SweptStep ==
  ASSUME NEW acc \in [depth : Int, out : Seq(Nat)], NEW new, NEW at \in Boundary, at[1] \in Nat,
         NEW sp \in Steps, NEW sq \in Steps, NEW h \in Levels, NEW i \in Nat, NEW j \in Nat,
         NEW u \in Nat, NEW v \in Nat,
         Turn(at, i, j, u, v, sp, sq), Swept(acc, sp, sq, h, i, j),
         new = SweepStep(acc, at, EdgesAt(h))
  PROVE  Swept(new, sp, sq, h, u, v)
  <1>0. sp \in {1, -1} /\ sq \in {1, -1} /\ h \in {1, 2}
    BY DEF Steps, Levels
  <1>1. new.depth = Deep(sp, u) + Deep(sq, v) /\ at[2] \in {1, -1} /\ acc.depth \in Int
    <2>1. /\ Deep(sp, i + 1) = Deep(sp, i) + (IF (i + 1) % 2 = 1 THEN sp ELSE 0 - sp)
          /\ Deep(sq, j + 1) = Deep(sq, j) + (IF (j + 1) % 2 = 1 THEN sq ELSE 0 - sq)
          /\ Deep(sp, i) \in Int /\ Deep(sq, j) \in Int
      BY Deeper
    <2>2. acc.depth = Deep(sp, i) + Deep(sq, j) /\ new.depth = acc.depth + at[2]
      BY DEF Swept, SweepStep
    <2>3. at[2] \in {1, -1}
      BY <1>0 DEF Turn
    <2>4. CASE u = i + 1 /\ v = j /\ at[2] = IF u % 2 = 1 THEN sp ELSE 0 - sp
      BY <1>0, <2>1, <2>2, <2>3, <2>4
    <2>5. CASE u = i /\ v = j + 1 /\ at[2] = IF v % 2 = 1 THEN sq ELSE 0 - sq
      BY <1>0, <2>1, <2>2, <2>3, <2>5
    <2> QED BY <2>4, <2>5 DEF Turn
  <1>2. /\ Len(acc.out) \in Nat /\ Len(Append(acc.out, at[1])) = Len(acc.out) + 1
        /\ new.depth = acc.depth + at[2]
        /\ new.out = IF <<acc.depth, at[2]>> \in {<<h - 1, 1>>, <<h, -1>>}
                      THEN Append(acc.out, at[1]) ELSE acc.out
    BY DEF SweepStep, EdgesAt
  <1>3. Len(acc.out) % 2 = IF acc.depth >= h THEN 1 ELSE 0
    BY DEF Swept
  <1>4. CASE <<acc.depth, at[2]>> \in {<<h - 1, 1>>, <<h, -1>>}
    <2>1. Len(new.out) = Len(acc.out) + 1
      BY <1>2, <1>4
    <2>2. acc.depth >= h <=> ~(new.depth >= h)
      BY <1>0, <1>1, <1>2, <1>4
    <2>3. Len(new.out) % 2 = IF new.depth >= h THEN 1 ELSE 0
      <3>1. /\ Len(acc.out) % 2 = 0 => (Len(acc.out) + 1) % 2 = 1
            /\ Len(acc.out) % 2 = 1 => (Len(acc.out) + 1) % 2 = 0
        BY <1>2, Flip
      <3> QED BY <1>3, <2>1, <2>2, <3>1
    <2> QED BY <1>1, <2>3 DEF Swept
  <1>5. CASE <<acc.depth, at[2]>> \notin {<<h - 1, 1>>, <<h, -1>>}
    <2>1. new.out = acc.out
      BY <1>2, <1>5
    <2>2. acc.depth >= h <=> new.depth >= h
      BY <1>0, <1>1, <1>2, <1>5
    <2> QED BY <1>1, <1>3, <2>1, <2>2 DEF Swept
  <1> QED BY <1>4, <1>5

(* R is the blocks that p, counting sp, and q, counting sq, cover h deep. *)
Opposite(s, e) == e = 0 - s

Covers(R, p, q, sp, sq, h) ==
    /\ R \in Seq(Nat) /\ Normal(R)
    /\ Blocks(R) = {x \in Int : (IF x \in Blocks(p) THEN sp ELSE 0)
                                + (IF x \in Blocks(q) THEN sq ELSE 0) >= h}

LEMMA SweepAre ==
  ASSUME NEW p \in Seq(Nat), NEW q \in Seq(Nat), Normal(p), Normal(q),
         NEW sp \in Steps, NEW sq \in Steps, NEW ep, Opposite(sp, ep), NEW eq, Opposite(sq, eq),
         NEW h \in Levels, NEW edges, edges = EdgesAt(h),
         NEW R, R = Sweep(Walk(Boundaries(p, sp, ep), Boundaries(q, sq, eq)), edges)
  PROVE  Covers(R, p, q, sp, sq, h)
  <1>0. ep = 0 - sp /\ eq = 0 - sq
    BY DEF Opposite
  <1> DEFINE a == Boundaries(p, sp, ep)
             b == Boundaries(q, sq, eq)
             w == Walk(a, b)
             N == Len(w)
             S == {x \in Int : (IF x \in Blocks(p) THEN sp ELSE 0)
                                + (IF x \in Blocks(q) THEN sq ELSE 0) >= h}
  <1>1. /\ p \in Seq(Int) /\ q \in Seq(Int) /\ Ascends(p) /\ Ascends(q)
        /\ Len(p) % 2 = 0 /\ Len(q) % 2 = 0 /\ sp \in Int /\ sq \in Int /\ ep \in Int /\ eq \in Int
    <2>1. p \in Seq(Int) /\ q \in Seq(Int)
      OBVIOUS
    <2>2. sp \in {1, -1} /\ sq \in {1, -1}
      BY DEF Steps
    <2> QED BY <1>0, <2>1, <2>2, NormalIs
  <1>2. /\ a \in Seq(Boundary) /\ Len(a) = Len(p) /\ Rising(a)
        /\ \A i \in 1..Len(p) : a[i][1] = p[i] /\ a[i][2] = IF i % 2 = 1 THEN sp ELSE ep
        /\ \A x, c : Reaches(a, x, c) <=> Cut(p, x, c)
    BY <1>0, <1>1, BoundariesAre
  <1>3. /\ b \in Seq(Boundary) /\ Len(b) = Len(q) /\ Rising(b)
        /\ \A i \in 1..Len(q) : b[i][1] = q[i] /\ b[i][2] = IF i % 2 = 1 THEN sq ELSE eq
        /\ \A x, c : Reaches(b, x, c) <=> Cut(q, x, c)
    BY <1>0, <1>1, BoundariesAre
  <1>4. PICK t : Merges(w, a, b, t)
    BY <1>2, <1>3, WalkMerges
  <1> HIDE DEF a, b
  <1>5. R = Sweep(w, edges)
    BY DEF a, b
  <1> HIDE DEF w
  <1>6. /\ w \in Seq(Boundary) /\ N \in Nat /\ N = Len(p) + Len(q)
        /\ \A k \in 1..(N + 1) : t[k] \in 0..Len(p) /\ (k - 1) - t[k] \in 0..Len(q)
        /\ t[1] = 0
    BY <1>2, <1>3, <1>4 DEF Merges
  <1>7. ASSUME NEW k \in 1..N
        PROVE  /\ w[k] \in Boundary /\ w[k][1] \in Nat
               /\ \/ /\ t[k + 1] = t[k] + 1 /\ (k + 1) - 1 - t[k + 1] = k - 1 - t[k]
                     /\ w[k][2] = IF t[k + 1] % 2 = 1 THEN sp ELSE ep
                  \/ /\ t[k + 1] = t[k] /\ (k + 1) - 1 - t[k + 1] = (k - 1 - t[k]) + 1
                     /\ w[k][2] = IF ((k + 1) - 1 - t[k + 1]) % 2 = 1 THEN sq ELSE eq
    <2>1. /\ t[k] \in 0..Len(p) /\ (k - 1) - t[k] \in 0..Len(q)
          /\ t[k + 1] \in 0..Len(p) /\ ((k + 1) - 1) - t[k + 1] \in 0..Len(q)
      BY <1>6
    <2>2. IF FromA(a, b, k, t[k]) THEN t[k + 1] = t[k] + 1 /\ w[k] = a[t[k] + 1]
                                 ELSE t[k + 1] = t[k] /\ w[k] = b[k - t[k]]
      BY <1>4 DEF Merges
    <2>3. w[k] \in Boundary
      BY <1>6
    <2>4. CASE FromA(a, b, k, t[k])
      <3>0. t[k] < Len(a)
        BY <2>4 DEF FromA
      <3>1. t[k] + 1 \in 1..Len(p) /\ p[t[k] + 1] \in Nat
        <4>1. Len(p) \in Nat /\ t[k] < Len(p)
          BY <1>2, <3>0
        <4>2. t[k] + 1 \in 1..Len(p)
          <5>1. t[k] \in 0..Len(p)
            BY <2>1
          <5> QED BY <4>1, <5>1
        <4> QED BY <4>2
      <3>2. w[k][1] \in Nat /\ w[k][2] = IF (t[k] + 1) % 2 = 1 THEN sp ELSE ep
        BY <1>2, <2>2, <2>4, <3>1
      <3>3. t[k + 1] = t[k] + 1 /\ t[k] \in Int /\ k \in Int
        BY <2>1, <2>2, <2>4
      <3>4. (k + 1) - 1 - t[k + 1] = k - 1 - t[k]
        BY <3>3
      <3> QED BY <2>3, <3>2, <3>3, <3>4
    <2>5. CASE ~FromA(a, b, k, t[k])
      <3>1. t[k + 1] = t[k] /\ k - t[k] \in 1..Len(q) /\ q[k - t[k]] \in Nat
        <4>1. t[k + 1] = t[k]
          BY <2>2, <2>5
        <4>2. ((k + 1) - 1) - t[k] \in 0..Len(q) /\ (k - 1) - t[k] \in 0..Len(q) /\ t[k] \in 0..Len(p)
          BY <2>1, <4>1
        <4>3. k - t[k] \in 1..Len(q)
          BY <4>2
        <4> QED BY <4>1, <4>3
      <3>2. w[k][1] \in Nat /\ w[k][2] = IF (k - t[k]) % 2 = 1 THEN sq ELSE eq
        BY <1>3, <2>2, <2>5, <3>1
      <3>3. (k + 1) - 1 - t[k + 1] = k - t[k] /\ (k + 1) - 1 - t[k + 1] = (k - 1 - t[k]) + 1
        BY <2>1, <3>1
      <3> QED BY <2>3, <3>1, <3>2, <3>3
    <2> QED BY <2>4, <2>5
  <1>8. PICK g : Sweeps(g, w, edges)
    <2>1. \A k \in 1..Len(w) : w[k][1] \in Nat
      BY <1>7
    <2> QED BY <1>6, <2>1, SweepSteps, Zenon
  <1>88. /\ g \in [1..(N + 1) -> [depth : Int, out : Seq(Nat)]]
         /\ g[1] = [depth |-> 0, out |-> <<>>]
         /\ \A k \in 1..N : g[k + 1] = SweepStep(g[k], w[k], edges)
         /\ R = RemovePairs(g[N + 1].out)
    BY <1>5, <1>8 DEF Sweeps
  <1> DEFINE O(n) == g[n + 1].out
             U == {n \in Nat : n <= N => Swept(g[n + 1], sp, sq, h, t[n + 1], n - t[n + 1])}
  <1>9. 0 \in U
    <2>1. g[0 + 1].depth = 0 /\ g[0 + 1].out = <<>> /\ t[0 + 1] = 0 /\ 0 - t[0 + 1] = 0
      BY <1>6, <1>88
    <2>2. Len(<<>>) % 2 = 0 /\ ~(0 >= h) /\ Deep(sp, 0) = 0 /\ Deep(sq, 0) = 0
      BY DEF Deep, Levels
    <2>3. Swept(g[0 + 1], sp, sq, h, t[0 + 1], 0 - t[0 + 1])
      BY <2>1, <2>2 DEF Swept
    <2> QED BY <2>3
  <1>10. ASSUME NEW n \in Nat, n \in U PROVE n + 1 \in U
    <2>1. SUFFICES ASSUME n + 1 <= N
                   PROVE  Swept(g[(n + 1) + 1], sp, sq, h, t[(n + 1) + 1], (n + 1) - t[(n + 1) + 1])
      OBVIOUS
    <2>2. PICK k \in 1..N : k = n + 1
      BY <1>6, <2>1
    <2>3. /\ Swept(g[k], sp, sq, h, t[k], (k - 1) - t[k])
          /\ g[k] \in [depth : Int, out : Seq(Nat)]
          /\ t[k] \in Nat /\ (k - 1) - t[k] \in Nat /\ t[k + 1] \in Nat /\ (k + 1) - 1 - t[k + 1] \in Nat
      <3>1. n <= N /\ (k - 1) - t[k] = n - t[n + 1] /\ k \in 1..(N + 1) /\ k + 1 \in 1..(N + 1)
        BY <1>6, <2>2
      <3>2. Swept(g[n + 1], sp, sq, h, t[n + 1], n - t[n + 1])
        BY <1>10, <3>1
      <3>3. t[k] \in 0..Len(p) /\ (k - 1) - t[k] \in 0..Len(q) /\ t[k + 1] \in 0..Len(p) /\ (k + 1) - 1 - t[k + 1] \in 0..Len(q)
        BY <1>6, <3>1
      <3>4. g[k] \in [depth : Int, out : Seq(Nat)]
        BY <1>88, <3>1
      <3>5. Swept(g[k], sp, sq, h, t[k], (k - 1) - t[k])
        BY <2>2, <3>1, <3>2
      <3>6. t[k] \in Nat /\ (k - 1) - t[k] \in Nat /\ t[k + 1] \in Nat /\ (k + 1) - 1 - t[k + 1] \in Nat
        BY <3>3
      <3> QED BY <3>4, <3>5, <3>6
    <2>4. g[k + 1] = SweepStep(g[k], w[k], EdgesAt(h))
      BY <1>88
    <2>5. Swept(g[k + 1], sp, sq, h, t[k + 1], (k + 1) - 1 - t[k + 1])
      <3>1. w[k] \in Boundary /\ w[k][1] \in Nat
        BY <1>7
      <3>2. Turn(w[k], t[k], (k - 1) - t[k], t[k + 1], (k + 1) - 1 - t[k + 1], sp, sq)
        BY <1>0, <1>7 DEF Turn
      <3> QED BY <2>3, <2>4, <3>1, <3>2, SweptStep
    <2> QED BY <2>2, <2>5
  <1>11. \A n \in 0..N : Swept(g[n + 1], sp, sq, h, t[n + 1], n - t[n + 1])
    <2> HIDE DEF U
    <2>1. Nat \subseteq U
      BY <1>9, <1>10, SetInduction
    <2> QED BY <1>6, <2>1 DEF U
  <1> HIDE DEF U
  <1>12. ASSUME NEW n \in 0..N PROVE O(n) \in Seq(Nat) /\ Len(O(n)) \in Nat
    <2>1. n + 1 \in 1..(N + 1)
      BY <1>6
    <2>2. g[n + 1] \in [depth : Int, out : Seq(Nat)]
      BY <1>88, <2>1
    <2> QED BY <2>2
  <1>13. /\ \A k \in 1..Len(w) : w[k][1] \in Nat
         /\ \A k, l \in 1..Len(w) : k <= l => w[k][1] <= w[l][1]
         /\ \A x \in Int, c \in Nat :
               Reaches(w, x, c) => Cut(p, x, t[c + 1]) /\ Cut(q, x, c - t[c + 1])
    <2>1. /\ \A k, l \in 1..Len(w) : k <= l => w[k][1] <= w[l][1]
          /\ \A x \in Int, c \in Nat :
                Reaches(w, x, c) => Reaches(a, x, t[c + 1]) /\ Reaches(b, x, c - t[c + 1])
      BY <1>2, <1>3, <1>4, MergeRises
    <2> QED BY <1>2, <1>3, <1>7, <2>1
  <1>14. ASSUME NEW x \in Int PROVE \E c \in 0..N : Reaches(w, x, c)
    <2> DEFINE r == [k \in 1..N |-> w[k][1]]
    <2>1. r \in Seq(Int) /\ Len(r) = N /\ \A k \in 1..N : r[k] = w[k][1]
      BY <1>6, <1>13
    <2> HIDE DEF r
    <2>2. Climbs(r)
      BY <1>13, <2>1 DEF Climbs
    <2>3. PICK c \in 0..Len(r) : Cut(r, x, c)
      BY <2>1, <2>2, CutExists
    <2>4. Reaches(w, x, c)
      BY <2>1, <2>3 DEF Cut, Reaches
    <2> QED BY <2>1, <2>3, <2>4
  <1>15. ASSUME NEW x \in Int
         PROVE  \E d \in Nat : Cut(O(N), x, d) /\ (d % 2 = 1 <=> x \in S)
    <2>1. PICK c \in 0..N : Reaches(w, x, c)
      BY <1>14
    <2>2. c \in Nat /\ Cut(O(N), x, Len(O(c)))
      <3>1. c \in Nat
        BY <1>6
      <3>2. Cut(g[Len(w) + 1].out, x, Len(g[c + 1].out))
        BY <1>6, <1>8, <1>13, <2>1, <3>1, SweptCut, Zenon
      <3> QED BY <3>1, <3>2
    <2>3. Cut(p, x, t[c + 1]) /\ Cut(q, x, c - t[c + 1])
      BY <1>13, <2>1, <2>2
    <2>4. (x \in Blocks(p) <=> t[c + 1] % 2 = 1) /\ (x \in Blocks(q) <=> (c - t[c + 1]) % 2 = 1)
      BY <1>1, <2>3, BlocksByCut
    <2>5. Swept(g[c + 1], sp, sq, h, t[c + 1], c - t[c + 1])
      BY <1>11
    <2>6. Len(O(c)) % 2 = IF Deep(sp, t[c + 1]) + Deep(sq, c - t[c + 1]) >= h THEN 1 ELSE 0
      BY <2>5 DEF Swept
    <2>7. x \in S <=> Deep(sp, t[c + 1]) + Deep(sq, c - t[c + 1]) >= h
      BY <2>4 DEF Deep
    <2>8. Len(O(c)) \in Nat
      BY <1>12
    <2> HIDE DEF S, O
    <2>9. Len(O(c)) % 2 = 1 <=> x \in S
      BY <2>6, <2>7
    <2> QED BY <2>2, <2>8, <2>9
  <1> HIDE DEF S
  <1>16. O(N) \in Seq(Nat) /\ O(N) \in Seq(Int) /\ Len(O(N)) \in Nat
    <2>1. N \in 0..N
      BY <1>6
    <2>2. O(N) \in Seq(Nat)
      BY <1>12, <2>1
    <2> HIDE DEF O
    <2> QED BY <2>2
  <1>17. Stands(O(N), S)
    <2> HIDE DEF O
    <2> QED BY <1>15, <1>16, CutUnique DEF Stands
  <1>18. Climbs(O(N))
    <2> HIDE DEF O
    <2>1. ASSUME NEW i \in 1..Len(O(N)), NEW j \in 1..Len(O(N)), i <= j PROVE O(N)[i] <= O(N)[j]
      <3>1. O(N)[j] \in Int
        BY <1>16
      <3>2. PICK d \in Nat : Cut(O(N), O(N)[j], d)
        BY <1>15, <3>1
      <3>3. j <= d
        BY <3>1, <3>2 DEF Cut
      <3>4. i <= d
        BY <2>1, <3>3
      <3> QED BY <3>2, <3>4 DEF Cut
    <2> QED BY <2>1 DEF Climbs
  <1>19. Len(O(N)) % 2 = 0
    <2>1. N \in 0..N /\ t[N + 1] = Len(p) /\ N - t[N + 1] = Len(q)
      <3>1. N \in 0..N /\ N + 1 \in 1..(N + 1) /\ (N + 1) - 1 = N
        BY <1>6
      <3>2. t[N + 1] \in 0..Len(p) /\ N - t[N + 1] \in 0..Len(q)
        BY <1>6, <3>1
      <3> QED BY <1>6, <3>1, <3>2
    <2>2. Swept(g[N + 1], sp, sq, h, Len(p), Len(q))
      BY <1>11, <2>1
    <2>3. g[N + 1].depth = 0
      BY <1>1, <2>2 DEF Swept, Deep
    <2>4. ~(0 >= h)
      BY DEF Levels
    <2>5. Len(g[N + 1].out) % 2 = 0
      BY <2>2, <2>3, <2>4 DEF Swept
    <2> QED BY <2>5
  <1>20. S \subseteq Int /\ R = RemovePairs(O(N))
    BY <1>88 DEF S
  <1>21. R \in Seq(Nat) /\ Normal(R) /\ Blocks(R) = S
    <2> HIDE DEF O
    <2> QED BY <1>16, <1>17, <1>18, <1>19, <1>20, RemovePairsAre
  <1> QED BY <1>21 DEF S, Covers

-------------------------------------------------------------------------------
(* The operations are those on the sets.                                   *)

(* A range set as rangelib keeps it. *)
RangeSets == {r \in Seq(Nat) : Normal(r)}

LEMMA BlocksAreNumbers ==
  ASSUME NEW r \in Seq(Nat)
  PROVE  Blocks(r) \subseteq Nat /\ r \in Seq(Int)
  <1>1. r \in Seq(Int)
    OBVIOUS
  <1>2. ASSUME NEW x \in Blocks(r) PROVE x \in Nat
    <2>1. PICK i \in 1..(Len(r) \div 2) : x \in Int /\ r[2 * i - 1] <= x
      BY <1>1, BlocksAre
    <2>2. 2 * i - 1 \in 1..Len(r)
      OBVIOUS
    <2>3. r[2 * i - 1] \in Nat
      BY <2>2
    <2> QED BY <2>1, <2>3
  <1> QED BY <1>1, <1>2

LEMMA UnionIs ==
  ASSUME NEW a \in RangeSets, NEW b \in RangeSets
  PROVE  Union(a, b) \in RangeSets /\ Blocks(Union(a, b)) = Blocks(a) \union Blocks(b)
  <1>1. a \in Seq(Nat) /\ b \in Seq(Nat) /\ Normal(a) /\ Normal(b)
    BY DEF RangeSets
  <1>2. 1 \in Steps /\ 1 \in Levels /\ Opposite(1, -1) /\ OutermostEdge = EdgesAt(1)
    BY DEF Steps, Levels, OutermostEdge, EdgesAt, Opposite
  <1>3. /\ Union(a, b) \in Seq(Nat) /\ Normal(Union(a, b))
        /\ Blocks(Union(a, b)) = {x \in Int : (IF x \in Blocks(a) THEN 1 ELSE 0)
                                              + (IF x \in Blocks(b) THEN 1 ELSE 0) >= 1}
    BY <1>1, <1>2, SweepAre DEF Union, Covers
  <1>4. Blocks(a) \subseteq Int /\ Blocks(b) \subseteq Int
    BY <1>1, BlocksAreNumbers
  <1>5. Blocks(Union(a, b)) = Blocks(a) \union Blocks(b)
    BY <1>3, <1>4
  <1> QED BY <1>3, <1>5 DEF RangeSets

LEMMA IntersectIs ==
  ASSUME NEW a \in RangeSets, NEW b \in RangeSets
  PROVE  Intersect(a, b) \in RangeSets /\ Blocks(Intersect(a, b)) = Blocks(a) \intersect Blocks(b)
  <1>1. a \in Seq(Nat) /\ b \in Seq(Nat) /\ Normal(a) /\ Normal(b)
    BY DEF RangeSets
  <1>2. 1 \in Steps /\ 2 \in Levels /\ Opposite(1, -1) /\ InnermostEdge = EdgesAt(2)
    BY DEF Steps, Levels, InnermostEdge, EdgesAt, Opposite
  <1>3. /\ Intersect(a, b) \in Seq(Nat) /\ Normal(Intersect(a, b))
        /\ Blocks(Intersect(a, b)) = {x \in Int : (IF x \in Blocks(a) THEN 1 ELSE 0)
                                                  + (IF x \in Blocks(b) THEN 1 ELSE 0) >= 2}
    BY <1>1, <1>2, SweepAre DEF Intersect, Covers
  <1>4. Blocks(a) \subseteq Int /\ Blocks(b) \subseteq Int
    BY <1>1, BlocksAreNumbers
  <1>5. Blocks(Intersect(a, b)) = Blocks(a) \intersect Blocks(b)
    BY <1>3, <1>4
  <1> QED BY <1>3, <1>5 DEF RangeSets

LEMMA SubtractIs ==
  ASSUME NEW a \in RangeSets, NEW b \in RangeSets
  PROVE  Subtract(a, b) \in RangeSets /\ Blocks(Subtract(a, b)) = Blocks(a) \ Blocks(b)
  <1>1. a \in Seq(Nat) /\ b \in Seq(Nat) /\ Normal(a) /\ Normal(b)
    BY DEF RangeSets
  <1>2. PICK s \in Steps, m \in Steps, h \in Levels :
          s = 1 /\ m = -1 /\ h = 1 /\ Opposite(s, m) /\ Opposite(m, s) /\ OutermostEdge = EdgesAt(h)
    <2>1. 1 \in Steps /\ -1 \in Steps /\ 1 \in Levels /\ OutermostEdge = EdgesAt(1)
      BY DEF Steps, Levels, OutermostEdge, EdgesAt
    <2>2. Opposite(1, -1) /\ Opposite(-1, 1)
      BY DEF Opposite
    <2> QED BY <2>1, <2>2
  <1>3. Covers(Subtract(a, b), a, b, s, m, h)
    <2>1. Subtract(a, b) = Sweep(Walk(Boundaries(a, s, m), Boundaries(b, m, s)), OutermostEdge)
      BY <1>2 DEF Subtract
    <2>2. Covers(Sweep(Walk(Boundaries(a, s, m), Boundaries(b, m, s)), OutermostEdge), a, b, s, m, h)
      <3>1. Opposite(s, m) /\ Opposite(m, s) /\ OutermostEdge = EdgesAt(h)
        BY <1>2
      <3> QED BY <1>1, <3>1, SweepAre, Zenon
    <2> QED BY <2>1, <2>2
  <1>4. Blocks(a) \subseteq Int /\ Blocks(b) \subseteq Int
    BY <1>1, BlocksAreNumbers
  <1>5. Blocks(Subtract(a, b)) = Blocks(a) \ Blocks(b)
    BY <1>2, <1>3, <1>4 DEF Covers
  <1> QED BY <1>3, <1>5 DEF RangeSets, Covers

LEMMA EmptyIs ==
  ASSUME NEW r \in RangeSets
  PROVE  Empty \in RangeSets /\ Blocks(Empty) = {} /\ (r = Empty <=> Blocks(r) = {})
  <1>1. r \in Seq(Nat) /\ r \in Seq(Int) /\ Len(r) \in Nat /\ Len(r) % 2 = 0 /\ Ascends(r)
    BY NormalIs DEF RangeSets
  <1>2. Empty \in Seq(Nat) /\ Empty \in Seq(Int) /\ Len(Empty) = 0 /\ Normal(Empty)
    BY DEF Empty, Normal
  <1>3. Blocks(Empty) = {}
    <2>1. 1..(Len(Empty) \div 2) = {}
      BY <1>2
    <2> QED BY <1>2, <2>1, BlocksAre
  <1>4. ASSUME r # Empty PROVE Blocks(r) # {}
    <2>1. Len(r) # 0
      BY <1>1, <1>4 DEF Empty
    <2>2. 1 \in 1..(Len(r) \div 2) /\ 1 \in 1..Len(r) /\ 2 \in 1..Len(r)
      BY <1>1, <2>1
    <2>3. r[1] \in Int /\ r[1] <= r[1] /\ r[1] < r[2] /\ 2 * 1 - 1 = 1 /\ 2 * 1 = 2
      BY <1>1, <2>2 DEF Ascends
    <2>4. r[1] \in Blocks(r)
      BY <1>1, <2>2, <2>3, BlocksAre
    <2> QED BY <2>4
  <1> QED BY <1>2, <1>3, <1>4 DEF RangeSets

LEMMA OverlapsIs ==
  ASSUME NEW a \in RangeSets, NEW b \in RangeSets
  PROVE  Overlaps(a, b) <=> Blocks(a) \intersect Blocks(b) # {}
  BY IntersectIs, EmptyIs DEF Overlaps

(* The blocks of the first n ranges. *)
Upto(r, n) == {x \in Int : \E i \in 1..n : r[2 * i - 1] <= x /\ x < r[2 * i]}

LEMMA UptoSteps ==
  ASSUME NEW r \in RangeSets
  PROVE  LET H == Len(r) \div 2
         IN  /\ H \in Nat /\ Upto(r, 0) = {} /\ Upto(r, H) = Blocks(r)
             /\ \A i \in 1..H : /\ 2 * i - 1 \in 1..Len(r) /\ 2 * i \in 1..Len(r)
                               /\ r[2 * i - 1] \in Nat /\ r[2 * i] \in Nat /\ r[2 * i - 1] < r[2 * i]
                               /\ Upto(r, i) = Upto(r, i - 1) \union r[2 * i - 1]..(r[2 * i] - 1)
                               /\ \A x \in Upto(r, i - 1) : x < r[2 * i - 1]
             /\ \A i, j \in 1..H : i < j => r[2 * i] < r[2 * j - 1]
  <1> DEFINE H == Len(r) \div 2
  <1>1. r \in Seq(Nat) /\ r \in Seq(Int) /\ Len(r) \in Nat /\ Len(r) % 2 = 0 /\ Ascends(r)
    BY NormalIs DEF RangeSets
  <1>2. H \in Nat /\ \A i \in 1..H : 2 * i - 1 \in 1..Len(r) /\ 2 * i \in 1..Len(r)
    BY <1>1
  <1> HIDE DEF H
  <1>3. Upto(r, 0) = {} /\ Upto(r, H) = Blocks(r)
    <2>1. Upto(r, 0) = {}
      BY DEF Upto
    <2>2. \A x : x \in Blocks(r) <=> x \in Int /\ \E i \in 1..H : r[2 * i - 1] <= x /\ x < r[2 * i]
      BY <1>1, BlocksAre DEF H
    <2> QED BY <2>1, <2>2 DEF Upto
  <1>4. \A i, j \in 1..H : i < j => r[2 * i] < r[2 * j - 1]
    BY <1>2, <1>1 DEF Ascends
  <1>5. ASSUME NEW i \in 1..H
        PROVE  r[2 * i - 1] \in Nat /\ r[2 * i] \in Nat /\ r[2 * i - 1] < r[2 * i]
    BY <1>1, <1>2 DEF Ascends
  <1>6. ASSUME NEW i \in 1..H
        PROVE  /\ Upto(r, i) = Upto(r, i - 1) \union r[2 * i - 1]..(r[2 * i] - 1)
               /\ \A x \in Upto(r, i - 1) : x < r[2 * i - 1]
    <2>1. \A k \in 1..i : k \in 1..(i - 1) \/ k = i
      BY <1>2
    <2>2. i \in 1..i /\ \A k \in 1..(i - 1) : k \in 1..i /\ k \in 1..H /\ k < i
      BY <1>2
    <2>3. ASSUME NEW x \in Int PROVE x \in Upto(r, i) <=> x \in Upto(r, i - 1) \/ (r[2 * i - 1] <= x /\ x < r[2 * i])
      BY <2>1, <2>2 DEF Upto
    <2>4. \A x : x \in r[2 * i - 1]..(r[2 * i] - 1) <=> x \in Int /\ r[2 * i - 1] <= x /\ x < r[2 * i]
      BY <1>5
    <2>5. Upto(r, i) = Upto(r, i - 1) \union r[2 * i - 1]..(r[2 * i] - 1)
      <3>1. Upto(r, i) \subseteq Int /\ Upto(r, i - 1) \subseteq Int
        BY DEF Upto
      <3> QED BY <2>3, <2>4, <3>1
    <2>6. ASSUME NEW x \in Upto(r, i - 1) PROVE x < r[2 * i - 1]
      <3>1. PICK k \in 1..(i - 1) : x \in Int /\ x < r[2 * k]
        BY DEF Upto
      <3>2. r[2 * k] < r[2 * i - 1] /\ r[2 * k] \in Nat /\ r[2 * i - 1] \in Nat
        BY <1>4, <1>5, <2>2
      <3> QED BY <3>1, <3>2
    <2> QED BY <2>5, <2>6
  <1>7. \A i \in 1..H : 2 * i - 1 \in 1..Len(r) /\ 2 * i \in 1..Len(r)
    BY <1>2
  <1> QED BY <1>2, <1>3, <1>4, <1>5, <1>6, <1>7 DEF H

(* How many blocks the first n ranges have. *)
LEMMA UptoSize ==
  ASSUME NEW r \in RangeSets
  PROVE  LET H == Len(r) \div 2
         IN  /\ \A n \in 0..H : IsFiniteSet(Upto(r, n)) /\ Cardinality(Upto(r, n)) \in Nat
             /\ Cardinality(Upto(r, 0)) = 0
             /\ \A i \in 1..H : Cardinality(Upto(r, i)) = Cardinality(Upto(r, i - 1)) + r[2 * i] - r[2 * i - 1]
  <1> DEFINE H == Len(r) \div 2
             S == {n \in Nat : n <= H => IsFiniteSet(Upto(r, n))}
  <1>1. /\ H \in Nat /\ Upto(r, 0) = {}
        /\ \A i \in 1..H : /\ r[2 * i - 1] \in Nat /\ r[2 * i] \in Nat /\ r[2 * i - 1] < r[2 * i]
                          /\ Upto(r, i) = Upto(r, i - 1) \union r[2 * i - 1]..(r[2 * i] - 1)
                          /\ \A x \in Upto(r, i - 1) : x < r[2 * i - 1]
    BY UptoSteps
  <1> HIDE DEF H
  <1>2. ASSUME NEW i \in 1..H, IsFiniteSet(Upto(r, i - 1))
        PROVE  /\ IsFiniteSet(Upto(r, i))
               /\ Cardinality(Upto(r, i)) = Cardinality(Upto(r, i - 1)) + r[2 * i] - r[2 * i - 1]
    <2> DEFINE I == r[2 * i - 1]..(r[2 * i] - 1)
    <2>1. PICK p \in Nat, q \in Nat : p = r[2 * i - 1] /\ q = r[2 * i] /\ p < q
      BY <1>1
    <2>2. IsFiniteSet(I) /\ Cardinality(I) = r[2 * i] - r[2 * i - 1]
      <3>1. p \in Int /\ q - 1 \in Int /\ ~(p > q - 1)
        BY <2>1
      <3>2. /\ IsFiniteSet(p..(q - 1))
            /\ Cardinality(p..(q - 1)) = IF p > q - 1 THEN 0 ELSE (q - 1) - p + 1
        BY <3>1, FS_Interval
      <3>3. Cardinality(p..(q - 1)) = q - p
        BY <3>1, <3>2
      <3> QED BY <2>1, <3>2, <3>3
    <2>3. Upto(r, i - 1) \intersect I = {}
      <3>1. \A x \in Upto(r, i - 1) : x \in Int /\ x < p
        BY <1>1, <2>1 DEF Upto
      <3> QED BY <2>1, <3>1
    <2> HIDE DEF I
    <2>4. /\ IsFiniteSet(Upto(r, i - 1) \union I)
          /\ Cardinality(Upto(r, i - 1) \union I) = Cardinality(Upto(r, i - 1)) + Cardinality(I) - Cardinality({})
      BY <1>2, <2>2, <2>3, FS_Union
    <2>5. Cardinality({}) = 0 /\ Cardinality(Upto(r, i - 1)) \in Nat /\ Upto(r, i) = Upto(r, i - 1) \union I
      BY <1>1, <1>2, FS_EmptySet, FS_CardinalityType DEF I
    <2> QED BY <1>1, <2>2, <2>4, <2>5
  <1>3. 0 \in S
    BY <1>1, FS_EmptySet
  <1>4. ASSUME NEW n \in Nat, n \in S PROVE n + 1 \in S
    <2>1. SUFFICES ASSUME n + 1 <= H PROVE IsFiniteSet(Upto(r, n + 1))
      OBVIOUS
    <2>2. n + 1 \in 1..H /\ (n + 1) - 1 = n /\ IsFiniteSet(Upto(r, n))
      BY <1>1, <1>4, <2>1
    <2> QED BY <1>2, <2>2
  <1> HIDE DEF S
  <1>5. \A n \in 0..H : IsFiniteSet(Upto(r, n))
    <2>1. Nat \subseteq S
      BY <1>3, <1>4, SetInduction
    <2> QED BY <1>1, <2>1 DEF S
  <1>6. \A n \in 0..H : Cardinality(Upto(r, n)) \in Nat
    BY <1>5, FS_CardinalityType
  <1>7. Cardinality(Upto(r, 0)) = 0
    BY <1>1, FS_EmptySet
  <1>8. \A i \in 1..H : i - 1 \in 0..H
    BY <1>1
  <1> QED BY <1>2, <1>5, <1>6, <1>7, <1>8 DEF H

LEMMA SizeSteps ==
  ASSUME NEW r \in Seq(Int)
  PROVE  \E g \in [1..(Len(Pairs(r)) + 1) -> Int] :
           /\ g[1] = 0
           /\ \A k \in 1..Len(Pairs(r)) : g[k + 1] = g[k] + Pairs(r)[k][2] - Pairs(r)[k][1]
           /\ Size(r) = g[Len(Pairs(r)) + 1]
  <1> DEFINE P == Pairs(r)
             Same(iter) ==
               iter = [s \in SUBSET DOMAIN P |->
                         IF s = {} THEN 0
                         ELSE LET x == Max(s) IN iter[s \ {x}] + P[x][2] - P[x][1]]
  <1>0. Size(r) = (CHOOSE iter : Same(iter))[DOMAIN P]
    BY Zenon DEF Size, FoldLeft, MapThenFoldSet
  <1>1. P \in Seq(Int \X Int)
    BY DEF Pairs
  <1> HIDE DEF P
  <1>2. PICK N \in Nat : N = Len(P) /\ DOMAIN P = 1..N
    BY <1>1
  <1>3. PICK F : /\ F \in [(1..N) \X Int -> Int]
                 /\ \A k \in 1..N, v \in Int : F[<<k, v>>] = v + P[k][2] - P[k][1]
    <2> DEFINE F == [p \in (1..N) \X Int |-> p[2] + P[p[1]][2] - P[p[1]][1]]
    <2>0. \A k \in 1..N : P[k][1] \in Int /\ P[k][2] \in Int
      BY <1>1, <1>2
    <2>1. F \in [(1..N) \X Int -> Int] /\ \A k \in 1..N, v \in Int : F[<<k, v>>] = v + P[k][2] - P[k][1]
      BY <2>0
    <2> HIDE DEF F
    <2> QED BY <2>1
  <1>4. 0 \in Int
    OBVIOUS
  <1>5. PICK e \in [SUBSET (1..N) -> Int] : Iterates(e, 0, F, N)
    BY <1>3, <1>4, FoldExists, Zenon
  <1>6. Same(e)
    <2>1. ASSUME NEW s \in SUBSET (1..N), s # {}
          PROVE  F[<<Max(s), e[s \ {Max(s)}]>>] = e[s \ {Max(s)}] + P[Max(s)][2] - P[Max(s)][1]
      BY <1>3, <2>1, MaxOf
    <2> QED BY <1>2, <1>5, <2>1 DEF Iterates
  <1>7. PICK it : Same(it) /\ Size(r) = it[DOMAIN P]
    <2> HIDE DEF Same
    <2> QED BY <1>0, <1>6, Zenon
  <1>8. it[{}] = 0
    BY <1>7
  <1>9. ASSUME NEW k \in 1..N PROVE it[1..k] = it[1..(k - 1)] + P[k][2] - P[k][1]
    BY <1>2, <1>7, UpTo
  <1>10. \A k \in 1..N : it[1..(k - 1)] \in Int => it[1..k] = F[<<k, it[1..(k - 1)]>>]
    BY <1>3, <1>9
  <1>11. PICK g \in [1..(N + 1) -> Int] : Follows(g, 0, F, N) /\ it[1..N] = g[N + 1]
    <2>1. Folding(it, 0, F, N, Int)
      BY <1>8, <1>10, Zenon DEF Folding
    <2>2. FoldsTo(it[1..N], 0, F, N, Int)
      BY <1>3, <1>4, <2>1, FoldIs, Zenon
    <2> QED BY <2>2, Zenon DEF FoldsTo
  <1>12. ASSUME NEW k \in 1..N PROVE g[k + 1] = g[k] + P[k][2] - P[k][1]
    <2>1. g[k] \in Int /\ g[k + 1] = F[<<k, g[k]>>]
      BY <1>11 DEF Follows
    <2> QED BY <1>3, <2>1
  <1> QED BY <1>2, <1>7, <1>11, <1>12 DEF Follows, P

(* Size is the number of blocks. *)
LEMMA SizeIs ==
  ASSUME NEW r \in RangeSets
  PROVE  IsFiniteSet(Blocks(r)) /\ Cardinality(Blocks(r)) \in Nat /\ Size(r) = Cardinality(Blocks(r))
  <1> DEFINE H == Len(r) \div 2
             P == Pairs(r)
  <1>1. /\ H \in Nat /\ Upto(r, H) = Blocks(r)
        /\ \A i \in 1..H : r[2 * i - 1] \in Nat /\ r[2 * i] \in Nat
    BY UptoSteps
  <1>2. /\ \A n \in 0..H : IsFiniteSet(Upto(r, n)) /\ Cardinality(Upto(r, n)) \in Nat
        /\ Cardinality(Upto(r, 0)) = 0
        /\ \A i \in 1..H : Cardinality(Upto(r, i)) = Cardinality(Upto(r, i - 1)) + r[2 * i] - r[2 * i - 1]
    BY UptoSize
  <1> HIDE DEF H
  <1>3. Len(P) = H /\ \A i \in 1..H : P[i][1] = r[2 * i - 1] /\ P[i][2] = r[2 * i]
    BY <1>1 DEF Pairs, H
  <1>4. r \in Seq(Int)
    BY DEF RangeSets
  <1>5. PICK g \in [1..(Len(P) + 1) -> Int] :
           /\ g[1] = 0
           /\ \A k \in 1..Len(P) : g[k + 1] = g[k] + P[k][2] - P[k][1]
           /\ Size(r) = g[Len(P) + 1]
    BY <1>4, SizeSteps
  <1> DEFINE S == {n \in Nat : n <= H => g[n + 1] = Cardinality(Upto(r, n))}
  <1> HIDE DEF P
  <1>6. 0 \in S
    BY <1>2, <1>5
  <1>7. ASSUME NEW n \in Nat, n \in S PROVE n + 1 \in S
    <2> SUFFICES ASSUME n + 1 <= H PROVE g[(n + 1) + 1] = Cardinality(Upto(r, n + 1))
      OBVIOUS
    <2> DEFINE k == n + 1
    <2>1. k \in 1..H /\ k - 1 = n /\ n <= H /\ k \in 1..(Len(P) + 1)
      BY <1>1, <1>3
    <2>2. g[k] = Cardinality(Upto(r, n)) /\ g[k] \in Int
      BY <1>7, <2>1
    <2>3. g[k + 1] = g[k] + r[2 * k] - r[2 * k - 1]
      BY <1>3, <1>5, <2>1
    <2>4. Cardinality(Upto(r, k)) = Cardinality(Upto(r, n)) + r[2 * k] - r[2 * k - 1]
      BY <1>2, <2>1
    <2> QED BY <2>2, <2>3, <2>4
  <1> HIDE DEF S
  <1>8. H \in S
    BY <1>1, <1>6, <1>7, SetInduction
  <1>9. Size(r) = Cardinality(Upto(r, H))
    BY <1>1, <1>3, <1>5, <1>8 DEF S
  <1>10. H \in 0..H
    BY <1>1
  <1> QED BY <1>1, <1>2, <1>9, <1>10

Below(A, x) == {y \in A : y < x}

(* The number of a block among those of its range set. *)
LEMMA RankIn ==
  ASSUME NEW r \in RangeSets, NEW i \in 1..(Len(r) \div 2), NEW x \in Int,
         r[2 * i - 1] <= x, x < r[2 * i]
  PROVE  Cardinality(Below(Blocks(r), x)) = Cardinality(Upto(r, i - 1)) + x - r[2 * i - 1]
  <1> DEFINE H == Len(r) \div 2
  <1>1. /\ H \in Nat /\ Upto(r, H) = Blocks(r) /\ i \in 1..H
        /\ \A j \in 1..H : /\ r[2 * j - 1] \in Nat /\ r[2 * j] \in Nat /\ r[2 * j - 1] < r[2 * j]
                          /\ \A y \in Upto(r, j - 1) : y < r[2 * j - 1]
        /\ \A j, k \in 1..H : j < k => r[2 * j] < r[2 * k - 1]
    BY UptoSteps
  <1>2. /\ \A n \in 0..H : IsFiniteSet(Upto(r, n)) /\ Cardinality(Upto(r, n)) \in Nat
    BY UptoSize
  <1> HIDE DEF H
  <1> DEFINE I == r[2 * i - 1]..(x - 1)
             U == Upto(r, i - 1)
  <1>3. r[2 * i - 1] \in Nat /\ r[2 * i] \in Nat /\ \A y \in U : y < r[2 * i - 1] /\ y \in Int
    BY <1>1 DEF Upto
  <1>4. Below(Blocks(r), x) = U \union I
    <2>1. ASSUME NEW y \in Below(Blocks(r), x) PROVE y \in U \union I
      <3>1. y \in Upto(r, H) /\ y < x
        BY <1>1 DEF Below
      <3>2. PICK j \in 1..H : y \in Int /\ r[2 * j - 1] <= y /\ y < r[2 * j]
        BY <3>1 DEF Upto
      <3>3. CASE j < i
        <4>1. j \in 1..(i - 1)
          BY <1>1, <3>3
        <4> QED BY <3>2, <4>1 DEF Upto
      <3>4. CASE j = i
        BY <1>3, <3>1, <3>2, <3>4
      <3>5. CASE i < j
        <4>1. r[2 * i] < r[2 * j - 1] /\ r[2 * j - 1] \in Nat
          BY <1>1, <3>5
        <4> QED BY <1>3, <3>1, <3>2, <4>1
      <3>6. j \in Int /\ i \in Int
        BY <1>1
      <3> QED BY <3>3, <3>4, <3>5, <3>6
    <2>2. ASSUME NEW y \in U PROVE y \in Below(Blocks(r), x)
      <3>1. PICK j \in 1..(i - 1) : y \in Int /\ r[2 * j - 1] <= y /\ y < r[2 * j]
        BY DEF Upto
      <3>2. j \in 1..H
        BY <1>1
      <3>3. y \in Blocks(r)
        BY <1>1, <3>1, <3>2 DEF Upto
      <3> QED BY <1>3, <3>1, <3>3 DEF Below
    <2>3. ASSUME NEW y \in I PROVE y \in Below(Blocks(r), x)
      <3>1. y \in Int /\ r[2 * i - 1] <= y /\ y < r[2 * i] /\ y < x
        BY <1>3
      <3>2. y \in Blocks(r)
        BY <1>1, <3>1 DEF Upto
      <3> QED BY <3>1, <3>2 DEF Below
    <2> HIDE DEF U, I
    <2> QED BY <2>1, <2>2, <2>3
  <1>5. IsFiniteSet(U) /\ Cardinality(U) \in Nat
    <2>1. i - 1 \in 0..H
      BY <1>1
    <2> QED BY <1>2, <2>1
  <1>6. IsFiniteSet(I) /\ Cardinality(I) = x - r[2 * i - 1]
    <2>1. PICK p \in Nat : p = r[2 * i - 1] /\ p <= x
      BY <1>3
    <2>2. p \in Int /\ x - 1 \in Int
      BY <2>1
    <2>3. /\ IsFiniteSet(p..(x - 1))
          /\ Cardinality(p..(x - 1)) = IF p > x - 1 THEN 0 ELSE (x - 1) - p + 1
      BY <2>2, FS_Interval
    <2>4. Cardinality(p..(x - 1)) = x - p
      BY <2>1, <2>3
    <2> QED BY <2>1, <2>3, <2>4
  <1>7. U \intersect I = {}
    BY <1>3
  <1> HIDE DEF U, I
  <1>8. Cardinality(U \union I) = Cardinality(U) + Cardinality(I) - Cardinality({})
    BY <1>5, <1>6, <1>7, FS_Union
  <1>9. Cardinality({}) = 0
    BY FS_EmptySet
  <1>10. r[2 * i - 1] \in Nat
    BY <1>3
  <1> QED BY <1>4, <1>5, <1>6, <1>8, <1>9, <1>10 DEF U

(* Boundaries in order that stand for S, as they are before two equal ones *)
(* are removed.                                                            *)
Plain(s, S) == s \in Seq(Nat) /\ Climbs(s) /\ Len(s) % 2 = 0 /\ S \subseteq Int /\ Stands(s, S)

LEMMA PlainRemoved ==
  ASSUME NEW s, NEW S, Plain(s, S)
  PROVE  RemovePairs(s) \in RangeSets /\ Blocks(RemovePairs(s)) = S
  BY RemovePairsAre DEF Plain, RangeSets

LEMMA PlainEmpty == Plain(<<>>, {})
  <1>1. <<>> \in Seq(Nat) /\ Len(<<>>) = 0 /\ Climbs(<<>>)
    BY DEF Climbs
  <1>2. \A x, c : Cut(<<>>, x, c) => c = 0
    BY <1>1 DEF Cut
  <1> QED BY <1>1, <1>2 DEF Plain, Stands

LEMMA PlainNormal ==
  ASSUME NEW r \in RangeSets
  PROVE  Plain(r, Blocks(r))
  <1>1. r \in Seq(Nat) /\ r \in Seq(Int) /\ Normal(r) /\ Len(r) % 2 = 0 /\ Ascends(r)
    BY NormalIs DEF RangeSets
  <1>2. Climbs(r) /\ Blocks(r) \subseteq Int
    BY <1>1, AscendsClimbs, BlocksAre
  <1>3. Stands(r, Blocks(r))
    BY <1>1, BlocksByCut DEF Stands
  <1> QED BY <1>1, <1>2, <1>3 DEF Plain

(* One more range behind the others. *)
LEMMA PlainMore ==
  ASSUME NEW s, NEW S, Plain(s, S), NEW p \in Nat, NEW q \in Nat, p <= q,
         \A i \in 1..Len(s) : s[i] <= p
  PROVE  /\ Plain(s \o <<p, q>>, S \union p..(q - 1))
         /\ \A i \in 1..Len(s \o <<p, q>>) : (s \o <<p, q>>)[i] <= q
  <1> DEFINE v == s \o <<p, q>>
             L == Len(s)
  <1>1. s \in Seq(Nat) /\ Climbs(s) /\ L % 2 = 0 /\ S \subseteq Int /\ Stands(s, S) /\ L \in Nat
    BY DEF Plain
  <1>2. /\ v \in Seq(Nat) /\ Len(v) = L + 2 /\ v[L + 1] = p /\ v[L + 2] = q
        /\ \A i \in 1..L : v[i] = s[i] /\ s[i] \in Nat
    BY <1>1
  <1> HIDE DEF v, L
  <1>3. \A i \in 1..Len(v) : i \in 1..L \/ i = L + 1 \/ i = L + 2
    BY <1>1, <1>2
  <1>4. \A i \in 1..L : v[i] <= p
    BY <1>2 DEF L
  <1>5. \A i \in 1..Len(v) : v[i] <= q /\ v[i] \in Nat
    BY <1>2, <1>3, <1>4
  <1>6. Climbs(v)
    <2>1. ASSUME NEW i \in 1..Len(v), NEW j \in 1..Len(v), i <= j PROVE v[i] <= v[j]
      <3>1. CASE i \in 1..L /\ j \in 1..L
        BY <1>1, <1>2, <2>1, <3>1 DEF Climbs, L
      <3>2. CASE i \in 1..L /\ j = L + 1
        BY <1>2, <1>4, <3>2
      <3>3. CASE j = L + 2
        BY <1>2, <1>5, <3>3
      <3>4. CASE i = L + 1 /\ j = L + 1
        BY <1>2, <3>4
      <3>5. (i = L + 1 => j = L + 1 \/ j = L + 2) /\ (i = L + 2 => j = L + 2)
        BY <1>1, <1>2, <2>1
      <3> QED BY <1>3, <3>1, <3>2, <3>3, <3>4, <3>5
    <2> QED BY <2>1 DEF Climbs
  <1>7. Len(v) % 2 = 0
    BY <1>1, <1>2
  <1>8. ASSUME NEW x \in Int, NEW c \in Nat, Cut(v, x, c)
        PROVE  c % 2 = 1 <=> x \in S \union p..(q - 1)
    <2>1. c \in 0..(L + 2) /\ \A i \in 1..(L + 2) : v[i] <= x <=> i <= c
      BY <1>2, <1>8 DEF Cut
    <2>2. L + 1 \in 1..(L + 2) /\ L + 2 \in 1..(L + 2) /\ \A i \in 1..L : i \in 1..(L + 2)
      BY <1>1
    <2>3. (p <= x <=> L + 1 <= c) /\ (q <= x <=> L + 2 <= c)
      BY <1>2, <2>1, <2>2
    <2>4. CASE ~(p <= x)
      <3>1. c \in 0..L
        BY <1>1, <2>1, <2>3, <2>4
      <3>2. Cut(s, x, c)
        BY <1>2, <2>1, <2>2, <3>1 DEF Cut, L
      <3>3. x \notin p..(q - 1)
        BY <2>4
      <3> QED BY <1>1, <3>2, <3>3 DEF Stands
    <2>5. CASE p <= x
      <3>1. \A i \in 1..L : s[i] <= x
        BY <1>2, <1>4, <2>5
      <3>2. Cut(s, x, L)
        BY <1>1, <3>1 DEF Cut, L
      <3>3. x \notin S
        BY <1>1, <3>2 DEF Stands
      <3>4. x \in p..(q - 1) <=> ~(q <= x)
        BY <2>5
      <3>5. c = L + 1 \/ c = L + 2
        BY <1>1, <2>1, <2>3, <2>5
      <3>6. (L + 1) % 2 = 1 /\ (L + 2) % 2 = 0
        BY <1>1
      <3>7. c % 2 = 1 <=> c = L + 1
        BY <3>5, <3>6
      <3>8. c = L + 1 <=> ~(q <= x)
        BY <1>1, <2>3, <3>5
      <3> QED BY <3>3, <3>4, <3>7, <3>8
    <2> QED BY <2>4, <2>5
  <1>9. S \union p..(q - 1) \subseteq Int
    BY <1>1
  <1>10. Plain(v, S \union p..(q - 1))
    BY <1>2, <1>6, <1>7, <1>8, <1>9 DEF Plain, Stands
  <1> QED BY <1>5, <1>10 DEF v

LEMMA BelowIs ==
  ASSUME NEW A, A \subseteq Int, IsFiniteSet(A), NEW x \in Int
  PROVE  /\ IsFiniteSet(Below(A, x)) /\ Cardinality(Below(A, x)) \in Nat
         /\ Cardinality(Below(A, x)) <= Cardinality(A) /\ Cardinality(A) \in Nat
         /\ x \in A => Cardinality(Below(A, x)) < Cardinality(A)
         /\ \A y \in A : y < x => Cardinality(Below(A, y)) < Cardinality(Below(A, x))
  <1>1. ASSUME NEW B, IsFiniteSet(B), B \subseteq Int, NEW y \in Int, y \in B,
               NEW C \in SUBSET B, y \notin C
        PROVE  Cardinality(C) < Cardinality(B)
    <2>1. Cardinality(C) <= Cardinality(B) /\ (Cardinality(B) = Cardinality(C) => B = C) /\ IsFiniteSet(C)
      BY <1>1, FS_Subset
    <2>2. Cardinality(B) # Cardinality(C)
      BY <1>1, <2>1
    <2>3. Cardinality(B) \in Nat /\ Cardinality(C) \in Nat
      BY <1>1, <2>1, FS_CardinalityType
    <2> QED BY <2>1, <2>2, <2>3
  <1>2. Below(A, x) \in SUBSET A /\ x \notin Below(A, x) /\ Below(A, x) \subseteq Int
    <2>1. \A y : y \in Below(A, x) <=> y \in A /\ y < x
      BY DEF Below
    <2> HIDE DEF Below
    <2>2. Below(A, x) \subseteq A /\ ~(x < x)
      BY <2>1
    <2> QED BY <2>1, <2>2
  <1>3. IsFiniteSet(Below(A, x)) /\ Cardinality(Below(A, x)) <= Cardinality(A)
    BY <1>2, FS_Subset
  <1>4. Cardinality(Below(A, x)) \in Nat /\ Cardinality(A) \in Nat
    BY <1>3, FS_CardinalityType
  <1>5. x \in A => Cardinality(Below(A, x)) < Cardinality(A)
    BY <1>1, <1>2
  <1>6. ASSUME NEW y \in A, y < x PROVE Cardinality(Below(A, y)) < Cardinality(Below(A, x))
    <2>1. \A z : (z \in Below(A, x) <=> z \in A /\ z < x) /\ (z \in Below(A, y) <=> z \in A /\ z < y)
      BY DEF Below
    <2>2. y \in Int /\ \A z \in A : z \in Int
      OBVIOUS
    <2> HIDE DEF Below
    <2>3. y \in Below(A, x) /\ y \notin Below(A, y)
      BY <1>6, <2>1, <2>2
    <2>4. ASSUME NEW z \in Below(A, y) PROVE z \in Below(A, x)
      <3>1. z \in A /\ z \in Int /\ z < y
        BY <2>1, <2>2
      <3>2. z < x
        BY <1>6, <2>2, <3>1
      <3> QED BY <2>1, <3>1, <3>2
    <2> QED BY <1>1, <1>2, <1>3, <2>2, <2>3, <2>4
  <1> QED BY <1>3, <1>4, <1>5, <1>6

(* Every number below the size is the number of a member. *)
LEMMA Numbering ==
  ASSUME NEW A, A \subseteq Nat, IsFiniteSet(A)
  PROVE  \A k \in Nat : k < Cardinality(A) => \E x \in A : Cardinality(Below(A, x)) = k
  <1> DEFINE n == Cardinality(A)
             S == {k \in Nat : k < n => \E x \in A : Cardinality(Below(A, x)) = k}
  <1>1. n \in Nat /\ A \subseteq Int
    BY FS_CardinalityType
  <1>2. 0 \in S
    <2> SUFFICES ASSUME 0 < n PROVE \E x \in A : Cardinality(Below(A, x)) = 0
      OBVIOUS
    <2>1. A # {}
      BY FS_EmptySet
    <2>2. PICK x \in A : \A y \in A : ~(y < x)
      BY <2>1, Least
    <2>3. Below(A, x) = {}
      BY <2>2 DEF Below
    <2> QED BY <2>3, FS_EmptySet
  <1>3. ASSUME NEW k \in Nat, k \in S PROVE k + 1 \in S
    <2> SUFFICES ASSUME k + 1 < n PROVE \E x \in A : Cardinality(Below(A, x)) = k + 1
      OBVIOUS
    <2>1. PICK x \in A : Cardinality(Below(A, x)) = k
      BY <1>1, <1>3
    <2> DEFINE U == {y \in A : x < y}
               T == Below(A, x) \union {x}
    <2>2. x \in Nat /\ IsFiniteSet(Below(A, x)) /\ x \notin Below(A, x)
      <3>1. x \in Int /\ x \in Nat /\ ~(x < x)
        BY <1>1
      <3>2. IsFiniteSet(Below(A, x))
        BY <1>1, <3>1, BelowIs
      <3> QED BY <3>1, <3>2 DEF Below
    <2>3. IsFiniteSet(T) /\ Cardinality(T) = k + 1
      BY <2>1, <2>2, FS_AddElement
    <2>4. U # {}
      <3> SUFFICES ASSUME U = {} PROVE FALSE
        OBVIOUS
      <3>1. \A y \in A : y \in Nat /\ ~(x < y)
        OBVIOUS
      <3>2. \A y \in A : y < x \/ y = x
        BY <2>2, <3>1
      <3>3. A = T
        <4>1. \A y : y \in Below(A, x) <=> y \in A /\ y < x
          BY DEF Below
        <4> HIDE DEF Below
        <4> QED BY <2>2, <3>2, <4>1
      <3> HIDE DEF T
      <3>4. n = k + 1
        BY <2>3, <3>3
      <3> QED BY <1>1, <3>4
    <2>5. PICK z \in U : \A y \in U : ~(y < z)
      <3>1. U \subseteq Nat
        OBVIOUS
      <3> QED BY <2>4, <3>1, Least
    <2>6. Below(A, z) = T
      <3>1. ASSUME NEW y \in A PROVE y < z <=> y < x \/ y = x
        BY <2>2, <2>5
      <3> QED BY <2>2, <3>1 DEF Below
    <2> QED BY <2>3, <2>5, <2>6
  <1> HIDE DEF S
  <1>4. Nat \subseteq S
    BY <1>2, <1>3, SetInduction
  <1> QED BY <1>4 DEF S

LEMMA AscendingIs ==
  ASSUME NEW A, A \subseteq Nat, IsFiniteSet(A)
  PROVE  /\ Ascending(A) \in Seq(Nat) /\ Len(Ascending(A)) = Cardinality(A)
         /\ Ascends(Ascending(A)) /\ ToSet(Ascending(A)) = A
         /\ \A i \in 1..Len(Ascending(A)) : Cardinality(Below(A, Ascending(A)[i])) = i - 1
  <1> DEFINE n == Cardinality(A)
             v == Ascending(A)
  <1>1. n \in Nat /\ A \subseteq Int
    BY FS_CardinalityType
  <1>2. \A i \in 1..n : v[i] \in A /\ Cardinality(Below(A, v[i])) = i - 1
    <2> SUFFICES ASSUME NEW i \in 1..n PROVE v[i] \in A /\ Cardinality(Below(A, v[i])) = i - 1
      OBVIOUS
    <2>1. i - 1 \in Nat /\ i - 1 < n
      BY <1>1
    <2>2. \E x \in A : Cardinality({y \in A : y < x}) = i - 1
      BY <2>1, Numbering DEF Below
    <2>3. v[i] = CHOOSE x \in A : Cardinality({y \in A : y < x}) = i - 1
      BY DEF Ascending
    <2> QED BY <2>2, <2>3, Zenon DEF Below
  <1>3. DOMAIN v = 1..n
    BY DEF Ascending
  <1>4. v \in Seq(Nat) /\ Len(v) = n
    <2>1. PICK w : w = v
      OBVIOUS
    <2>2. DOMAIN w = 1..n /\ \A i \in 1..n : w[i] \in Nat
      BY <1>2, <1>3, <2>1
    <2>3. w = [i \in 1..n |-> w[i]]
      <3>1. w = [i \in 1..n |-> CHOOSE x \in A : Cardinality({y \in A : y < x}) = i - 1]
        BY <2>1 DEF Ascending
      <3> QED BY <3>1
    <2>4. w \in Seq(Nat) /\ Len(w) = n
      BY <1>1, <2>2, <2>3
    <2> QED BY <2>1, <2>4
  <1> HIDE DEF v
  <1>5. Ascends(v)
    <2>1. ASSUME NEW i \in 1..n, NEW j \in 1..n, i < j PROVE v[i] < v[j]
      <3>1. v[i] \in Int /\ v[j] \in Int /\ v[i] \in A /\ v[j] \in A
        BY <1>1, <1>2
      <3>2. ~(v[j] < v[i])
        <4> SUFFICES ASSUME v[j] < v[i] PROVE FALSE
          OBVIOUS
        <4>1. Cardinality(Below(A, v[j])) < Cardinality(Below(A, v[i]))
          BY <1>1, <3>1, BelowIs
        <4> QED BY <1>2, <2>1, <4>1
      <3>3. v[i] # v[j]
        BY <1>2, <2>1
      <3> QED BY <3>1, <3>2, <3>3
    <2> QED BY <1>4, <2>1 DEF Ascends
  <1>6. ToSet(v) = A
    <2>1. ASSUME NEW x \in A PROVE x \in ToSet(v)
      <3>1. x \in Int
        BY <1>1
      <3> DEFINE k == Cardinality(Below(A, x))
      <3>2. k \in Nat /\ k < n
        BY <1>1, <3>1, BelowIs
      <3>3. k + 1 \in 1..n /\ (k + 1) - 1 = k
        BY <1>1, <3>2
      <3>4. v[k + 1] \in A /\ v[k + 1] \in Int /\ Cardinality(Below(A, v[k + 1])) = k
        BY <1>1, <1>2, <3>3
      <3>5. v[k + 1] = x
        <4>1. ~(v[k + 1] < x) /\ ~(x < v[k + 1])
          <5>1. v[k + 1] < x => Cardinality(Below(A, v[k + 1])) < k
            BY <1>1, <3>1, <3>4, BelowIs
          <5>2. x < v[k + 1] => k < Cardinality(Below(A, v[k + 1]))
            BY <1>1, <3>1, <3>4, BelowIs
          <5> QED BY <3>2, <3>4, <5>1, <5>2
        <4> QED BY <3>1, <3>4, <4>1
      <3> QED BY <1>3, <3>3, <3>5 DEF ToSet
    <2>2. ASSUME NEW x \in ToSet(v) PROVE x \in A
      BY <1>2, <1>3 DEF ToSet
    <2> QED BY <2>1, <2>2
  <1> QED BY <1>2, <1>4, <1>5, <1>6 DEF v

(* A range set made of blocks in ascending order. *)
LEMMA OfBlocksIs ==
  ASSUME NEW v \in Seq(Nat), Ascends(v)
  PROVE  OfBlocks(v) \in RangeSets /\ Blocks(OfBlocks(v)) = ToSet(v)
  <1> DEFINE N == Len(v)
             seqs == [i \in DOMAIN v |-> <<v[i], v[i] + 1>>]
             Upto2(n) == {v[i] : i \in 1..n}
  <1>1. N \in Nat /\ DOMAIN v = 1..N /\ \A i \in 1..N : v[i] \in Nat
    OBVIOUS
  <1>2. seqs \in Seq(Seq(Nat)) /\ Len(seqs) = N /\ \A i \in 1..N : seqs[i] = <<v[i], v[i] + 1>>
    BY <1>1
  <1>3. OfBlocks(v) = RemovePairs(FlattenSeq(seqs))
    BY DEF OfBlocks
  <1> HIDE DEF seqs, N
  <1>4. PICK g \in [1..(N + 1) -> Seq(Nat)] : Flattens(g, seqs) /\ FlattenSeq(seqs) = g[N + 1]
    BY <1>2, FlattenSteps, Zenon
  <1>5. g[1] = <<>> /\ \A i \in 1..N : g[i + 1] = g[i] \o seqs[i]
    BY <1>2, <1>4 DEF Flattens
  <1> DEFINE S == {n \in Nat : n <= N =>
                     /\ Plain(g[n + 1], Upto2(n))
                     /\ \A k \in (n + 1)..N : \A i \in 1..Len(g[n + 1]) : g[n + 1][i] <= v[k]}
  <1>6. 0 \in S
    <2>1. Upto2(0) = {} /\ g[0 + 1] = <<>> /\ Len(<<>>) = 0
      BY <1>5
    <2>2. \A i \in 1..Len(g[0 + 1]) : FALSE
      BY <2>1
    <2>3. Plain(g[0 + 1], Upto2(0))
      BY <2>1, PlainEmpty
    <2> HIDE DEF Upto2
    <2> QED BY <2>2, <2>3
  <1>7. ASSUME NEW n \in Nat, n \in S PROVE n + 1 \in S
    <2> DEFINE k == n + 1
    <2> SUFFICES ASSUME k <= N
                 PROVE  /\ Plain(g[k + 1], Upto2(k))
                        /\ \A j \in (k + 1)..N : \A i \in 1..Len(g[k + 1]) : g[k + 1][i] <= v[j]
      OBVIOUS
    <2>1. k \in 1..N /\ k \in (n + 1)..N /\ n <= N /\ k \in Nat /\ v[k] \in Nat
      BY <1>1 DEF N
    <2>2. Plain(g[k], Upto2(n)) /\ \A i \in 1..Len(g[k]) : g[k][i] <= v[k]
      BY <1>7, <2>1
    <2>3. g[k + 1] = g[k] \o <<v[k], v[k] + 1>>
      BY <1>2, <1>5, <2>1
    <2>4. Upto2(k) = Upto2(n) \union v[k]..((v[k] + 1) - 1)
      <3>1. v[k]..((v[k] + 1) - 1) = {v[k]}
        BY <2>1
      <3>2. \A i : i \in 1..k <=> i \in 1..n \/ i = k
        BY <2>1
      <3>3. \A x : x \in Upto2(k) <=> x \in Upto2(n) \/ x = v[k]
        BY <3>2
      <3> HIDE DEF Upto2
      <3> QED BY <3>1, <3>3
    <2> HIDE DEF Upto2, S
    <2>5. /\ Plain(g[k + 1], Upto2(k))
          /\ \A i \in 1..Len(g[k + 1]) : g[k + 1][i] <= v[k] + 1
      <3>1. v[k] + 1 \in Nat /\ v[k] <= v[k] + 1
        BY <2>1
      <3>21. PICK s, w : s = g[k] /\ w = g[k + 1]
        OBVIOUS
      <3>22. PICK p, U : p = v[k] /\ U = Upto2(n)
        OBVIOUS
      <3>2. s = g[k] /\ w = g[k + 1] /\ p = v[k] /\ U = Upto2(n) /\ p \in Nat
        BY <2>1, <3>21, <3>22
      <3>3. Plain(s, U) /\ p + 1 \in Nat /\ p <= p + 1 /\ \A i \in 1..Len(s) : s[i] <= p
        BY <2>2, <3>1, <3>2
      <3>4. /\ Plain(s \o <<p, p + 1>>, U \union p..((p + 1) - 1))
            /\ \A i \in 1..Len(s \o <<p, p + 1>>) : (s \o <<p, p + 1>>)[i] <= p + 1
        <4>1. PICK q \in Nat : q = p + 1 /\ p <= q
          BY <3>3
        <4>2. PICK W : W = s \o <<p, q>>
          OBVIOUS
        <4>3. /\ Plain(s \o <<p, q>>, U \union p..(q - 1))
              /\ \A i \in 1..Len(s \o <<p, q>>) : (s \o <<p, q>>)[i] <= q
          BY <3>2, <3>3, <4>1, PlainMore
        <4> QED BY <4>1, <4>3
      <3>5. w = s \o <<p, p + 1>> /\ Upto2(k) = U \union p..((p + 1) - 1)
        BY <2>3, <2>4, <3>2
      <3> HIDE DEF k
      <3> QED BY <3>2, <3>4, <3>5
    <2>6. ASSUME NEW j \in (k + 1)..N, NEW i \in 1..Len(g[k + 1]) PROVE g[k + 1][i] <= v[j]
      <3>1. j \in 1..N /\ k < j
        BY <2>1
      <3>2. v[k] < v[j] /\ v[j] \in Nat
        BY <1>1, <2>1, <3>1 DEF Ascends, N
      <3>3. g[k + 1][i] \in Nat
        BY <2>5 DEF Plain
      <3> QED BY <2>1, <2>5, <3>2, <3>3
    <2> QED BY <2>5, <2>6
  <1> HIDE DEF S
  <1>8. N \in S /\ N <= N
    <2>1. Nat \subseteq S
      BY <1>6, <1>7, SetInduction
    <2> QED BY <1>1, <2>1 DEF N
  <1>9. Plain(FlattenSeq(seqs), Upto2(N))
    BY <1>4, <1>8 DEF S
  <1>10. Upto2(N) = ToSet(v)
    BY <1>1 DEF ToSet
  <1> QED BY <1>3, <1>9, <1>10, PlainRemoved

(* Range k of r with n blocks more at both ends. *)
LowEnd(r, k, n) == Max({0, r[2 * k - 1] - n})

Wider(r, k, n) == <<LowEnd(r, k, n), r[2 * k] + n>>

LEMMA MaxTwo ==
  ASSUME NEW x \in Int
  PROVE  Max({0, x}) = IF x <= 0 THEN 0 ELSE x
  <1> DEFINE m == IF x <= 0 THEN 0 ELSE x
  <1>1. m \in {0, x} /\ \A y \in {0, x} : m >= y
    OBVIOUS
  <1>2. \A z \in {0, x} : (\A y \in {0, x} : z >= y) => z = m
    OBVIOUS
  <1> HIDE DEF m
  <1>3. Max({0, x}) = CHOOSE z \in {0, x} : \A y \in {0, x} : z >= y
    BY DEF Max
  <1>4. Max({0, x}) \in {0, x} /\ \A y \in {0, x} : Max({0, x}) >= y
    BY <1>1, <1>3, Zenon
  <1> QED BY <1>2, <1>4, Zenon DEF m

LEMMA PairIs ==
  ASSUME NEW p \in Nat, NEW q \in Nat, p < q
  PROVE  <<p, q>> \in RangeSets /\ Blocks(<<p, q>>) = p..(q - 1)
  <1> DEFINE s == <<p, q>>
  <1>1. s \in Seq(Nat) /\ s \in Seq(Int) /\ Len(s) = 2 /\ s[1] = p /\ s[2] = q
    OBVIOUS
  <1> HIDE DEF s
  <1>2. Normal(s)
    <2>1. \A i \in 1..(Len(s) - 1) : i = 1
      BY <1>1
    <2> QED BY <1>1, <2>1 DEF Normal
  <1>3. \A x : x \in Blocks(s) <=> x \in Int /\ p <= x /\ x < q
    <2>1. Len(s) \div 2 = 1 /\ 2 * 1 - 1 = 1 /\ 2 * 1 = 2
      BY <1>1
    <2>2. \A i \in 1..(Len(s) \div 2) : i = 1
      BY <2>1
    <2>3. 1 \in 1..(Len(s) \div 2)
      BY <2>1
    <2> QED BY <1>1, <2>1, <2>2, <2>3, BlocksAre
  <1>4. Blocks(s) = p..(q - 1)
    <2>1. \A x : x \in p..(q - 1) <=> x \in Int /\ p <= x /\ x < q
      OBVIOUS
    <2> QED BY <1>3, <2>1
  <1> QED BY <1>1, <1>2, <1>4 DEF RangeSets, s

LEMMA WiderIs ==
  ASSUME NEW r \in RangeSets, NEW n \in Nat, NEW k \in 1..(Len(r) \div 2)
  PROVE  /\ Wider(r, k, n) \in RangeSets
         /\ Blocks(Wider(r, k, n)) = {x \in Nat : r[2 * k - 1] - n <= x /\ x < r[2 * k] + n}
  <1>1. r[2 * k - 1] \in Nat /\ r[2 * k] \in Nat /\ r[2 * k - 1] < r[2 * k]
    BY UptoSteps
  <1>2. PICK p \in Nat, q \in Nat : p = r[2 * k - 1] /\ q = r[2 * k] /\ p < q
    BY <1>1
  <1>3. LowEnd(r, k, n) = IF p - n <= 0 THEN 0 ELSE p - n
    <2>1. p - n \in Int
      OBVIOUS
    <2> QED BY <1>2, <2>1, MaxTwo DEF LowEnd
  <1>4. PICK l \in Nat, u \in Nat : l = LowEnd(r, k, n) /\ u = q + n /\ l < u
    BY <1>2, <1>3
  <1>5. Wider(r, k, n) = <<l, u>>
    BY <1>2, <1>4 DEF Wider
  <1>6. <<l, u>> \in RangeSets /\ Blocks(<<l, u>>) = l..(u - 1)
    BY <1>4, PairIs
  <1>7. l..(u - 1) = {x \in Nat : p - n <= x /\ x < q + n}
    <2>1. \A x : x \in l..(u - 1) <=> x \in Nat /\ p - n <= x /\ x < q + n
      BY <1>3, <1>4
    <2> QED BY <2>1
  <1> QED BY <1>2, <1>5, <1>6, <1>7

LEMMA ExtendSteps ==
  ASSUME NEW r \in RangeSets, NEW n \in Nat
  PROVE  \E g \in [1..(Len(r) \div 2 + 1) -> RangeSets] :
           /\ g[1] = r
           /\ \A k \in 1..(Len(r) \div 2) : g[k + 1] = Union(g[k], Wider(r, k, n))
           /\ Extend(r, n) = g[Len(r) \div 2 + 1]
  <1> DEFINE P == Pairs(r)
             H == Len(r) \div 2
             Same(iter) ==
               iter = [s \in SUBSET DOMAIN P |->
                         IF s = {} THEN r
                         ELSE LET x == Max(s)
                              IN  Union(iter[s \ {x}], <<Max({0, P[x][1] - n}), P[x][2] + n>>)]
  <1>0. Extend(r, n) = (CHOOSE iter : Same(iter))[DOMAIN P]
    BY Zenon DEF Extend, FoldLeft, MapThenFoldSet
  <1>1. H \in Nat /\ DOMAIN P = 1..H /\ \A k \in 1..H : P[k][1] = r[2 * k - 1] /\ P[k][2] = r[2 * k]
    BY UptoSteps DEF Pairs
  <1> HIDE DEF P
  <1>2. ASSUME NEW k \in 1..H PROVE Wider(r, k, n) = <<Max({0, P[k][1] - n}), P[k][2] + n>>
    BY <1>1 DEF Wider, LowEnd
  <1>22. ASSUME NEW k \in 1..H PROVE Wider(r, k, n) \in RangeSets
    BY WiderIs
  <1> HIDE DEF H
  <1>3. PICK F : /\ F \in [(1..H) \X RangeSets -> RangeSets]
                 /\ \A k \in 1..H, v \in RangeSets : F[<<k, v>>] = Union(v, Wider(r, k, n))
    <2> DEFINE F == [p \in (1..H) \X RangeSets |-> Union(p[2], Wider(r, p[1], n))]
    <2>0. \A k \in 1..H, v \in RangeSets : Union(v, Wider(r, k, n)) \in RangeSets
      BY <1>22, UnionIs
    <2>1. F \in [(1..H) \X RangeSets -> RangeSets]
      BY <2>0
    <2>2. \A k \in 1..H, v \in RangeSets : F[<<k, v>>] = Union(v, Wider(r, k, n))
      OBVIOUS
    <2> HIDE DEF F
    <2> QED BY <2>1, <2>2
  <1>5. PICK e \in [SUBSET (1..H) -> RangeSets] : Iterates(e, r, F, H)
    BY <1>1, <1>3, FoldExists, Zenon
  <1>6. Same(e)
    <2>1. ASSUME NEW s \in SUBSET (1..H), s # {}
          PROVE  F[<<Max(s), e[s \ {Max(s)}]>>]
                   = Union(e[s \ {Max(s)}], <<Max({0, P[Max(s)][1] - n}), P[Max(s)][2] + n>>)
      <3>1. Max(s) \in 1..H /\ s \ {Max(s)} \in SUBSET (1..H)
        BY <1>1, <2>1, MaxOf
      <3> QED BY <1>2, <1>3, <3>1
    <2> QED BY <1>1, <1>5, <2>1 DEF Iterates
  <1>7. PICK it : Same(it) /\ Extend(r, n) = it[DOMAIN P]
    <2> HIDE DEF Same
    <2> QED BY <1>0, <1>6, Zenon
  <1>8. it[{}] = r
    BY <1>7
  <1>9. ASSUME NEW k \in 1..H PROVE it[1..k] = Union(it[1..(k - 1)], Wider(r, k, n))
    BY <1>1, <1>2, <1>7, UpTo
  <1>10. \A k \in 1..H : it[1..(k - 1)] \in RangeSets => it[1..k] = F[<<k, it[1..(k - 1)]>>]
    BY <1>3, <1>9
  <1>11. PICK g \in [1..(H + 1) -> RangeSets] : Follows(g, r, F, H) /\ it[1..H] = g[H + 1]
    <2>1. Folding(it, r, F, H, RangeSets)
      BY <1>8, <1>10, Zenon DEF Folding
    <2>2. FoldsTo(it[1..H], r, F, H, RangeSets)
      BY <1>1, <1>3, <2>1, FoldIs, Zenon
    <2> QED BY <2>2, Zenon DEF FoldsTo
  <1>12. ASSUME NEW k \in 1..H PROVE g[k + 1] = Union(g[k], Wider(r, k, n))
    <2>1. g[k] \in RangeSets /\ g[k + 1] = F[<<k, g[k]>>]
      BY <1>1, <1>11 DEF Follows
    <2> QED BY <1>3, <2>1
  <1> QED BY <1>1, <1>7, <1>11, <1>12 DEF Follows, H

LEMMA ExtendIs ==
  ASSUME NEW r \in RangeSets, NEW n \in Nat
  PROVE  /\ Extend(r, n) \in RangeSets
         /\ Blocks(Extend(r, n)) = (UNION {(x - n)..(x + n) : x \in Blocks(r)}) \intersect Nat
  <1> DEFINE H == Len(r) \div 2
             A == Blocks(r)
             W(k) == {x \in Nat : \E j \in 1..k : r[2 * j - 1] - n <= x /\ x < r[2 * j] + n}
  <1>1. /\ H \in Nat /\ Upto(r, H) = A
        /\ \A k \in 1..H : r[2 * k - 1] \in Nat /\ r[2 * k] \in Nat /\ r[2 * k - 1] < r[2 * k]
    BY UptoSteps
  <1>2. PICK g \in [1..(H + 1) -> RangeSets] :
           /\ g[1] = r
           /\ \A k \in 1..H : g[k + 1] = Union(g[k], Wider(r, k, n))
           /\ Extend(r, n) = g[H + 1]
    BY ExtendSteps
  <1>3. \A k \in 1..H : /\ Wider(r, k, n) \in RangeSets
                       /\ Blocks(Wider(r, k, n)) = {x \in Nat : r[2 * k - 1] - n <= x /\ x < r[2 * k] + n}
    BY WiderIs
  <1> HIDE DEF H
  <1>4. A \subseteq Nat
    <2>1. ASSUME NEW x \in A PROVE x \in Nat
      <3>1. PICK j \in 1..H : x \in Int /\ r[2 * j - 1] <= x
        BY <1>1 DEF Upto
      <3> QED BY <1>1, <3>1
    <2> QED BY <2>1
  <1> DEFINE S == {k \in Nat : k <= H => Blocks(g[k + 1]) = A \union W(k)}
  <1>5. 0 \in S
    <2>1. W(0) = {}
      OBVIOUS
    <2> QED BY <1>2, <2>1
  <1>6. ASSUME NEW k \in Nat, k \in S PROVE k + 1 \in S
    <2> SUFFICES ASSUME k + 1 <= H PROVE Blocks(g[(k + 1) + 1]) = A \union W(k + 1)
      OBVIOUS
    <2>1. k + 1 \in 1..H /\ k + 1 \in 1..(H + 1) /\ k <= H
      BY <1>1
    <2>2. Blocks(g[k + 1]) = A \union W(k) /\ g[k + 1] \in RangeSets
      BY <1>6, <2>1
    <2>3. Blocks(g[(k + 1) + 1]) = Blocks(g[k + 1]) \union Blocks(Wider(r, k + 1, n))
      BY <1>2, <1>3, <2>1, <2>2, UnionIs
    <2>4. W(k + 1) = W(k) \union Blocks(Wider(r, k + 1, n))
      <3>1. \A j : j \in 1..(k + 1) <=> j \in 1..k \/ j = k + 1
        OBVIOUS
      <3>2. ASSUME NEW x
            PROVE  x \in W(k + 1) <=> x \in W(k) \/ (x \in Nat /\ r[2 * (k + 1) - 1] - n <= x /\ x < r[2 * (k + 1)] + n)
        BY <3>1
      <3> HIDE DEF W
      <3> QED BY <1>3, <2>1, <3>2
    <2> HIDE DEF W
    <2> QED BY <2>2, <2>3, <2>4
  <1> HIDE DEF S
  <1>7. Nat \subseteq S
    BY <1>5, <1>6, SetInduction
  <1>8. Extend(r, n) \in RangeSets /\ Blocks(Extend(r, n)) = A \union W(H)
    <2>1. H \in S /\ H <= H /\ H + 1 \in 1..(H + 1)
      BY <1>1, <1>7
    <2> HIDE DEF W
    <2> QED BY <1>2, <2>1 DEF S
  <1> DEFINE Near(x) == (x - n)..(x + n)
             E == UNION {Near(x) : x \in A}
  <1>9. \A y : y \in E <=> y \in Int /\ \E x \in A : x - n <= y /\ y <= x + n
    <2>1. \A x \in A : x - n \in Int /\ x + n \in Int
      BY <1>4
    <2>2. \A y, x : x \in A => (y \in Near(x) <=> y \in Int /\ x - n <= y /\ y <= x + n)
      BY <2>1
    <2> HIDE DEF Near
    <2>3. \A y : y \in E <=> \E x \in A : y \in Near(x)
      OBVIOUS
    <2> HIDE DEF E
    <2> QED BY <2>2, <2>3
  <1> HIDE DEF E
  <1>10. ASSUME NEW y \in A \union W(H) PROVE y \in E /\ y \in Nat
    <2>1. CASE y \in A
      <3>1. y \in Nat /\ y - n <= y /\ y <= y + n
        BY <1>4, <2>1
      <3> QED BY <1>9, <2>1, <3>1
    <2>2. CASE y \in W(H) /\ y \notin A
      <3>1. PICK j \in 1..H : y \in Nat /\ r[2 * j - 1] - n <= y /\ y < r[2 * j] + n
        BY <2>2
      <3>2. PICK p \in Nat, q \in Nat : p = r[2 * j - 1] /\ q = r[2 * j] /\ p < q
        BY <1>1
      <3>3. \A x \in Int : p <= x /\ x < q => x \in A
        BY <1>1, <3>2 DEF Upto
      <3>4. CASE y < p
        <4>1. p \in A /\ p - n <= y /\ y <= p + n
          BY <3>1, <3>2, <3>3, <3>4
        <4> QED BY <1>9, <3>1, <4>1
      <3>5. CASE ~(y < p)
        <4>1. ~(y < q)
          BY <2>2, <3>1, <3>3, <3>5
        <4>2. q - 1 \in A
          BY <3>2, <3>3
        <4>3. (q - 1) - n <= y /\ y <= (q - 1) + n
          BY <3>1, <3>2, <4>1
        <4> QED BY <1>9, <3>1, <4>2, <4>3
      <3> QED BY <3>4, <3>5
    <2> HIDE DEF W
    <2> QED BY <2>1, <2>2
  <1>11. ASSUME NEW y \in E, y \in Nat PROVE y \in A \union W(H)
    <2>1. PICK x \in A : x - n <= y /\ y <= x + n
      BY <1>9
    <2>2. PICK j \in 1..H : x \in Int /\ r[2 * j - 1] <= x /\ x < r[2 * j]
      BY <1>1 DEF Upto
    <2>3. r[2 * j - 1] \in Nat /\ r[2 * j] \in Nat
      BY <1>1
    <2>4. r[2 * j - 1] - n <= y /\ y < r[2 * j] + n
      BY <1>11, <2>1, <2>2, <2>3
    <2> QED BY <1>11, <2>4
  <1> HIDE DEF W
  <1>12. E \intersect Nat = A \union W(H)
    BY <1>10, <1>11
  <1> QED BY <1>8, <1>12 DEF E

LEMMA MinTwo ==
  ASSUME NEW x \in Int, NEW y \in Int
  PROVE  Min({x, y}) = IF x <= y THEN x ELSE y
  <1> DEFINE m == IF x <= y THEN x ELSE y
  <1>1. m \in {x, y} /\ \A z \in {x, y} : m <= z
    OBVIOUS
  <1>2. \A z \in {x, y} : (\A u \in {x, y} : z <= u) => z = m
    OBVIOUS
  <1> HIDE DEF m
  <1>3. Min({x, y}) = CHOOSE z \in {x, y} : \A u \in {x, y} : z <= u
    BY DEF Min
  <1>4. Min({x, y}) \in {x, y} /\ \A u \in {x, y} : Min({x, y}) <= u
    BY <1>1, <1>3, Zenon
  <1> QED BY <1>2, <1>4, Zenon DEF m

(* What is taken of the range p..q-1. *)
FirstStep(acc, p, q) ==
    IF acc.left = 0 THEN acc
    ELSE LET taken == Min({acc.left, q - p})
         IN  [out |-> acc.out \o <<p, p + taken>>, left |-> acc.left - taken]

LEMMA FirstStepType ==
  ASSUME NEW acc \in [out : Seq(Nat), left : Nat], NEW p \in Nat, NEW q \in Nat, p < q
  PROVE  FirstStep(acc, p, q) \in [out : Seq(Nat), left : Nat]
  <1>1. acc.left \in Nat /\ acc.out \in Seq(Nat) /\ q - p \in Nat
    OBVIOUS
  <1>2. PICK t : t = Min({acc.left, q - p})
    OBVIOUS
  <1>3. t \in Nat /\ t <= acc.left
    BY <1>1, <1>2, MinTwo
  <1>4. FirstStep(acc, p, q) = IF acc.left = 0 THEN acc
                               ELSE [out |-> acc.out \o <<p, p + t>>, left |-> acc.left - t]
    BY <1>2 DEF FirstStep
  <1>5. p + t \in Nat /\ acc.left - t \in Nat
    BY <1>1, <1>3
  <1>6. <<p, p + t>> \in Seq(Nat)
    BY <1>5
  <1>7. acc.out \o <<p, p + t>> \in Seq(Nat)
    BY <1>1, <1>6
  <1> QED BY <1>4, <1>5, <1>7

LEMMA FirstSteps ==
  ASSUME NEW r \in RangeSets, NEW n \in Nat, ~(Size(r) <= n)
  PROVE  \E g \in [1..(Len(r) \div 2 + 1) -> [out : Seq(Nat), left : Nat]] :
           /\ g[1] = [out |-> <<>>, left |-> n]
           /\ \A k \in 1..(Len(r) \div 2) : g[k + 1] = FirstStep(g[k], r[2 * k - 1], r[2 * k])
           /\ First(r, n) = RemovePairs(g[Len(r) \div 2 + 1].out)
  <1> DEFINE P == Pairs(r)
             H == Len(r) \div 2
             T == [out : Seq(Nat), left : Nat]
             base == [out |-> <<>>, left |-> n]
             Step(acc, p) ==
               IF acc.left = 0 THEN acc
               ELSE LET taken == Min({acc.left, p[2] - p[1]})
                    IN  [out |-> acc.out \o <<p[1], p[1] + taken>>, left |-> acc.left - taken]
             Same(iter) ==
               iter = [s \in SUBSET DOMAIN P |->
                         IF s = {} THEN base
                         ELSE LET x == Max(s) IN Step(iter[s \ {x}], P[x])]
  <1>0. First(r, n) = RemovePairs((CHOOSE iter : Same(iter))[DOMAIN P].out)
    BY Zenon DEF First, FoldLeft, MapThenFoldSet, Empty
  <1>1. /\ H \in Nat /\ DOMAIN P = 1..H
        /\ \A k \in 1..H : P[k][1] = r[2 * k - 1] /\ P[k][2] = r[2 * k]
        /\ \A k \in 1..H : r[2 * k - 1] \in Nat /\ r[2 * k] \in Nat /\ r[2 * k - 1] < r[2 * k]
    BY UptoSteps DEF Pairs
  <1> HIDE DEF P, H
  <1>2. ASSUME NEW k \in 1..H, NEW v PROVE Step(v, P[k]) = FirstStep(v, r[2 * k - 1], r[2 * k])
    BY <1>1 DEF FirstStep
  <1> HIDE DEF Step
  <1>22. ASSUME NEW k \in 1..H, NEW v \in T PROVE FirstStep(v, r[2 * k - 1], r[2 * k]) \in T
    <2>1. PICK p \in Nat, q \in Nat : p = r[2 * k - 1] /\ q = r[2 * k] /\ p < q
      BY <1>1
    <2> QED BY <2>1, FirstStepType
  <1>23. base \in T
    OBVIOUS
  <1> HIDE DEF base
  <1>24. PICK X : X = T
    OBVIOUS
  <1>3. PICK F : /\ F \in [(1..H) \X X -> X]
                 /\ \A k \in 1..H, v \in X : F[<<k, v>>] = FirstStep(v, r[2 * k - 1], r[2 * k])
    <2> DEFINE F == [p \in (1..H) \X X |-> FirstStep(p[2], r[2 * p[1] - 1], r[2 * p[1]])]
    <2>0. \A k \in 1..H, v \in X : FirstStep(v, r[2 * k - 1], r[2 * k]) \in X
      BY <1>22, <1>24
    <2> HIDE DEF T
    <2>1. F \in [(1..H) \X X -> X]
      BY <2>0
    <2>2. \A k \in 1..H, v \in X : F[<<k, v>>] = FirstStep(v, r[2 * k - 1], r[2 * k])
      OBVIOUS
    <2> HIDE DEF F
    <2> QED BY <2>1, <2>2
  <1>4. base \in X
    BY <1>23, <1>24
  <1> HIDE DEF T
  <1>5. PICK e \in [SUBSET (1..H) -> X] : Iterates(e, base, F, H)
    BY <1>1, <1>3, <1>4, FoldExists, Zenon
  <1>6. Same(e)
    <2>1. ASSUME NEW s \in SUBSET (1..H), s # {}
          PROVE  F[<<Max(s), e[s \ {Max(s)}]>>] = Step(e[s \ {Max(s)}], P[Max(s)])
      <3>1. Max(s) \in 1..H /\ s \ {Max(s)} \in SUBSET (1..H)
        BY <1>1, <2>1, MaxOf
      <3> QED BY <1>2, <1>3, <3>1
    <2> QED BY <1>1, <1>5, <2>1 DEF Iterates
  <1>7. PICK it : Same(it) /\ First(r, n) = RemovePairs(it[DOMAIN P].out)
    <2> HIDE DEF Same
    <2> QED BY <1>0, <1>6, Zenon
  <1>8. it[{}] = base
    BY <1>7
  <1>9. ASSUME NEW k \in 1..H PROVE it[1..k] = FirstStep(it[1..(k - 1)], r[2 * k - 1], r[2 * k])
    <2>1. /\ 1..k \in SUBSET (1..H) /\ 1..k # {} /\ Max(1..k) = k /\ (1..k) \ {k} = 1..(k - 1)
      BY <1>1, UpTo
    <2>2. it[1..k] = Step(it[(1..k) \ {Max(1..k)}], P[Max(1..k)])
      BY <1>1, <1>7, <2>1
    <2> QED BY <1>2, <2>1, <2>2
  <1>10. \A k \in 1..H : it[1..(k - 1)] \in X => it[1..k] = F[<<k, it[1..(k - 1)]>>]
    BY <1>3, <1>9
  <1>11. PICK g \in [1..(H + 1) -> X] : Follows(g, base, F, H) /\ it[1..H] = g[H + 1]
    <2>1. Folding(it, base, F, H, X)
      BY <1>8, <1>10, Zenon DEF Folding
    <2>2. FoldsTo(it[1..H], base, F, H, X)
      BY <1>1, <1>3, <1>4, <2>1, FoldIs, Zenon
    <2> QED BY <2>2, Zenon DEF FoldsTo
  <1>12. ASSUME NEW k \in 1..H PROVE g[k + 1] = FirstStep(g[k], r[2 * k - 1], r[2 * k])
    <2>1. g[k] \in X /\ g[k + 1] = F[<<k, g[k]>>]
      BY <1>1, <1>11 DEF Follows
    <2> QED BY <1>3, <2>1
  <1> QED BY <1>1, <1>7, <1>11, <1>12, <1>24 DEF Follows, H, T, base

(* The blocks of the first k ranges that are among the first n. *)
Firsts(r, n, k) == {x \in Upto(r, k) : Cardinality(Below(Blocks(r), x)) < n}

(* After k ranges. *)
FirstDone(acc, r, n, k) ==
    /\ Plain(acc.out, Firsts(r, n, k))
    /\ \A j \in (k + 1)..(Len(r) \div 2), i \in 1..Len(acc.out) : acc.out[i] <= r[2 * j - 1]
    /\ acc.left = IF Cardinality(Upto(r, k)) <= n THEN n - Cardinality(Upto(r, k)) ELSE 0

LEMMA FirstDoneStep ==
  ASSUME NEW r \in RangeSets, NEW n \in Nat, NEW k \in 1..(Len(r) \div 2),
         NEW acc \in [out : Seq(Nat), left : Nat], FirstDone(acc, r, n, k - 1),
         NEW new, new = FirstStep(acc, r[2 * k - 1], r[2 * k])
  PROVE  FirstDone(new, r, n, k)
  <1> DEFINE H == Len(r) \div 2
             A == Blocks(r)
             c == Cardinality(Upto(r, k - 1))
             C == Cardinality(Upto(r, k))
             Old == Firsts(r, n, k - 1)
             New == Firsts(r, n, k)
  <1>1. PICK p \in Nat, q \in Nat : p = r[2 * k - 1] /\ q = r[2 * k] /\ p < q
    BY UptoSteps
  <1>2. /\ H \in Nat /\ k \in 1..H
        /\ Upto(r, k) = Upto(r, k - 1) \union p..(q - 1)
        /\ \A j \in (k + 1)..H : q <= r[2 * j - 1] /\ r[2 * j - 1] \in Nat
    <2>1. /\ H \in Nat
          /\ \A i \in 1..H : r[2 * i - 1] \in Nat /\ r[2 * i] \in Nat
                             /\ Upto(r, i) = Upto(r, i - 1) \union r[2 * i - 1]..(r[2 * i] - 1)
          /\ \A i, j \in 1..H : i < j => r[2 * i] < r[2 * j - 1]
      BY UptoSteps
    <2> HIDE DEF H
    <2>2. k \in 1..H
      BY DEF H
    <2>3. ASSUME NEW j \in (k + 1)..H PROVE q <= r[2 * j - 1] /\ r[2 * j - 1] \in Nat
      <3>1. j \in 1..H /\ k < j
        BY <2>1, <2>2
      <3>2. q < r[2 * j - 1] /\ r[2 * j - 1] \in Nat
        BY <1>1, <2>1, <2>2, <3>1
      <3> QED BY <3>2
    <2> QED BY <1>1, <2>1, <2>2, <2>3
  <1>3. c \in Nat /\ C = c + q - p
    <2>1. /\ \A i \in 0..H : Cardinality(Upto(r, i)) \in Nat
          /\ \A i \in 1..H : Cardinality(Upto(r, i)) = Cardinality(Upto(r, i - 1)) + r[2 * i] - r[2 * i - 1]
      BY UptoSize
    <2>2. k - 1 \in 0..H
      BY <1>2
    <2> QED BY <1>1, <1>2, <2>1, <2>2
  <1>4. \A x \in p..(q - 1) : x \in Int /\ Cardinality(Below(A, x)) = c + x - p
    <2> SUFFICES ASSUME NEW x \in p..(q - 1) PROVE x \in Int /\ Cardinality(Below(A, x)) = c + x - p
      OBVIOUS
    <2>1. x \in Int /\ r[2 * k - 1] <= x /\ x < r[2 * k]
      BY <1>1
    <2>2. Cardinality(Below(A, x)) = c + x - r[2 * k - 1]
      BY <2>1, RankIn
    <2> QED BY <1>1, <2>1, <2>2
  <1>5. /\ Plain(acc.out, Old) /\ acc.out \in Seq(Nat)
        /\ \A j \in k..H, i \in 1..Len(acc.out) : acc.out[i] <= r[2 * j - 1]
        /\ acc.left = IF c <= n THEN n - c ELSE 0
    <2>1. (k - 1) + 1 = k
      BY <1>2
    <2> QED BY <2>1 DEF FirstDone
  <1>6. new = IF acc.left = 0 THEN acc
              ELSE [out |-> acc.out \o <<p, p + Min({acc.left, q - p})>>,
                    left |-> acc.left - Min({acc.left, q - p})]
    BY <1>1 DEF FirstStep
  <1> HIDE DEF H, A, c, C
  <1>7. \A x : x \in New <=> x \in Old \/ (x \in p..(q - 1) /\ c + x - p < n)
    BY <1>2, <1>4 DEF Firsts, A
  <1> HIDE DEF Old, New
  <1>8. CASE acc.left = 0
    <2>1. n <= c
      BY <1>3, <1>5, <1>8
    <2>2. \A x \in p..(q - 1) : ~(c + x - p < n)
      BY <1>1, <1>3, <2>1
    <2>3. New = Old
      BY <1>7, <2>2
    <2>4. acc.left = IF C <= n THEN n - C ELSE 0
      BY <1>1, <1>3, <1>8, <2>1
    <2>5. \A j \in (k + 1)..H : j \in k..H
      BY <1>2
    <2> QED BY <1>5, <1>6, <1>8, <2>3, <2>4, <2>5 DEF FirstDone, New, C, H
  <1>9. CASE acc.left # 0
    <2> DEFINE l == acc.left
    <2>1. l \in Nat /\ l # 0 /\ c < n /\ l = n - c
      BY <1>3, <1>5, <1>9
    <2> HIDE DEF l
    <2>2. PICK t \in Nat : t = Min({l, q - p}) /\ t = (IF l <= q - p THEN l ELSE q - p) /\ t <= q - p
      <3>1. l \in Int /\ q - p \in Int /\ q - p \in Nat
        BY <1>1, <2>1
      <3>2. Min({l, q - p}) = IF l <= q - p THEN l ELSE q - p
        BY <3>1, MinTwo
      <3> QED BY <2>1, <3>1, <3>2
    <2>3. new = [out |-> acc.out \o <<p, p + t>>, left |-> l - t]
      BY <1>6, <1>9, <2>2 DEF l
    <2>13. l \in Nat /\ n \in Nat /\ c \in Nat /\ p < q /\ l = n - c /\ C = c + q - p /\ t <= q - p
           /\ (l <= q - p => t = l) /\ (~(l <= q - p) => t = q - p) /\ t <= l
      BY <1>1, <1>3, <2>1, <2>2
    <2>14. ASSUME NEW x \in Int PROVE (p <= x /\ x < q) /\ c + x - p < n <=> p <= x /\ x < p + t
      BY <2>13
    <2>15. \A x : x \in p..(q - 1) <=> x \in Int /\ p <= x /\ x < q
      OBVIOUS
    <2>16. \A x : x \in p..((p + t) - 1) <=> x \in Int /\ p <= x /\ x < p + t
      OBVIOUS
    <2>4. \A x : x \in p..(q - 1) /\ c + x - p < n <=> x \in p..((p + t) - 1)
      BY <2>14, <2>15, <2>16
    <2>5. New = Old \union p..((p + t) - 1)
      BY <1>7, <2>4
    <2>6. PICK u \in Nat : u = p + t /\ p <= u /\ u <= q
      BY <2>13
    <2>7. \A i \in 1..Len(acc.out) : acc.out[i] <= p
      BY <1>1, <1>2, <1>5
    <2>8. /\ Plain(acc.out \o <<p, u>>, Old \union p..(u - 1))
          /\ \A i \in 1..Len(acc.out \o <<p, u>>) : (acc.out \o <<p, u>>)[i] <= u
      BY <1>5, <2>6, <2>7, PlainMore
    <2>9. new.out = acc.out \o <<p, u>> /\ new.left = l - t
      BY <2>3, <2>6
    <2>10. Plain(new.out, New) /\ \A i \in 1..Len(new.out) : new.out[i] <= u /\ new.out[i] \in Nat
      <3>1. Plain(new.out, New) /\ \A i \in 1..Len(new.out) : new.out[i] <= u
        BY <2>5, <2>6, <2>8, <2>9
      <3>2. \A i \in 1..Len(new.out) : new.out[i] \in Nat
        <4>1. new.out \in Seq(Nat)
          BY <3>1 DEF Plain
        <4> QED BY <4>1
      <3> QED BY <3>1, <3>2
    <2>11. new.left = IF C <= n THEN n - C ELSE 0
      <3>1. new.left = l - t
        BY <2>9
      <3>2. l - t = IF C <= n THEN n - C ELSE 0
        BY <2>13
      <3> QED BY <3>1, <3>2
    <2>12. ASSUME NEW j \in (k + 1)..H, NEW i \in 1..Len(new.out) PROVE new.out[i] <= r[2 * j - 1]
      <3>1. new.out[i] <= u /\ new.out[i] \in Nat /\ u <= q /\ q <= r[2 * j - 1] /\ r[2 * j - 1] \in Nat
        BY <1>2, <2>6, <2>10
      <3> QED BY <2>6, <3>1
    <2> QED BY <2>10, <2>11, <2>12 DEF FirstDone, New, C, H
  <1> QED BY <1>8, <1>9

(* First is the lowest n blocks. *)
LEMMA FirstIs ==
  ASSUME NEW r \in RangeSets, NEW n \in Nat
  PROVE  /\ First(r, n) \in RangeSets
         /\ Blocks(First(r, n)) = {x \in Blocks(r) : Cardinality(Below(Blocks(r), x)) < n}
  <1> DEFINE H == Len(r) \div 2
             A == Blocks(r)
  <1>1. /\ H \in Nat /\ Upto(r, H) = A /\ Upto(r, 0) = {}
        /\ A \subseteq Int /\ IsFiniteSet(A) /\ Cardinality(A) \in Nat /\ Size(r) = Cardinality(A)
    <2>1. A \subseteq Int
      BY PlainNormal DEF Plain
    <2> QED BY <2>1, UptoSteps, SizeIs
  <1>2. CASE Size(r) <= n
    <2>1. First(r, n) = r
      BY <1>2 DEF First
    <2>2. ASSUME NEW x \in A PROVE Cardinality(Below(A, x)) < n
      <3>1. x \in Int
        BY <1>1
      <3>2. Cardinality(Below(A, x)) < Cardinality(A) /\ Cardinality(Below(A, x)) \in Nat
        BY <1>1, <3>1, BelowIs
      <3> QED BY <1>1, <1>2, <3>2
    <2> QED BY <2>1, <2>2
  <1>3. CASE ~(Size(r) <= n)
    <2>1. PICK g \in [1..(H + 1) -> [out : Seq(Nat), left : Nat]] :
            /\ g[1] = [out |-> <<>>, left |-> n]
            /\ \A k \in 1..H : g[k + 1] = FirstStep(g[k], r[2 * k - 1], r[2 * k])
            /\ First(r, n) = RemovePairs(g[H + 1].out)
      BY <1>3, FirstSteps
    <2> DEFINE S == {k \in Nat : k <= H => FirstDone(g[k + 1], r, n, k)}
    <2>2. 0 \in S
      <3>1. Firsts(r, n, 0) = {} /\ Cardinality(Upto(r, 0)) = 0
        BY <1>1, FS_EmptySet DEF Firsts
      <3>2. g[0 + 1].out = <<>> /\ g[0 + 1].left = n /\ Len(<<>>) = 0
        BY <2>1
      <3>4. Plain(g[0 + 1].out, Firsts(r, n, 0))
        BY <3>1, <3>2, PlainEmpty
      <3>5. \A i \in 1..Len(g[0 + 1].out) : FALSE
        BY <3>2
      <3>6. g[0 + 1].left = IF Cardinality(Upto(r, 0)) <= n THEN n - Cardinality(Upto(r, 0)) ELSE 0
        BY <3>1, <3>2
      <3>3. FirstDone(g[0 + 1], r, n, 0)
        BY <3>4, <3>5, <3>6 DEF FirstDone
      <3> QED BY <3>3
    <2>3. ASSUME NEW k \in Nat, k \in S PROVE k + 1 \in S
      <3> SUFFICES ASSUME k + 1 <= H PROVE FirstDone(g[(k + 1) + 1], r, n, k + 1)
        OBVIOUS
      <3>1. k + 1 \in 1..H /\ (k + 1) - 1 = k /\ k + 1 \in 1..(H + 1) /\ k <= H
        BY <1>1
      <3>2. FirstDone(g[k + 1], r, n, (k + 1) - 1) /\ g[k + 1] \in [out : Seq(Nat), left : Nat]
        BY <2>1, <2>3, <3>1
      <3>3. g[(k + 1) + 1] = FirstStep(g[k + 1], r[2 * (k + 1) - 1], r[2 * (k + 1)])
        BY <2>1, <3>1
      <3> QED BY <3>1, <3>2, <3>3, FirstDoneStep
    <2> HIDE DEF S
    <2>4. Nat \subseteq S
      BY <2>2, <2>3, SetInduction
    <2>5. FirstDone(g[H + 1], r, n, H)
      <3>1. H \in S /\ H <= H
        BY <1>1, <2>4
      <3> QED BY <3>1 DEF S
    <2>6. Plain(g[H + 1].out, Firsts(r, n, H))
      BY <2>5 DEF FirstDone
    <2>7. Firsts(r, n, H) = {x \in A : Cardinality(Below(A, x)) < n}
      BY <1>1 DEF Firsts
    <2> QED BY <2>1, <2>6, <2>7, PlainRemoved
  <1> QED BY <1>2, <1>3

MapState == [offset : Int, start : Int, out : Seq(Int)]

MapStep(acc, at) ==
    CASE at[2] = -5 -> [acc EXCEPT !.start = at[1]]
      [] at[2] = 5 -> [acc EXCEPT !.offset = @ + at[1] - acc.start]
      [] OTHER -> [acc EXCEPT !.out = Append(@, acc.offset + at[1] - acc.start)]

LEMMA MapStepIs ==
  ASSUME NEW acc \in MapState, NEW at \in Boundary
  PROVE  /\ MapStep(acc, at) \in MapState
         /\ at[2] = -5 => MapStep(acc, at) = [offset |-> acc.offset, start |-> at[1], out |-> acc.out]
         /\ at[2] = 5 => MapStep(acc, at) = [offset |-> acc.offset + at[1] - acc.start,
                                             start |-> acc.start, out |-> acc.out]
         /\ at[2] \in Steps =>
              MapStep(acc, at) = [offset |-> acc.offset, start |-> acc.start,
                                  out |-> Append(acc.out, acc.offset + at[1] - acc.start)]
  <1>1. acc.offset \in Int /\ acc.start \in Int /\ acc.out \in Seq(Int) /\ at[1] \in Int /\ at[2] \in Int
    BY DEF MapState, Boundary
  <1>2. acc = [offset |-> acc.offset, start |-> acc.start, out |-> acc.out]
    BY DEF MapState
  <1>3. PICK x : x = acc.offset + at[1] - acc.start
    OBVIOUS
  <1>4. x \in Int /\ Append(acc.out, x) \in Seq(Int)
    BY <1>1, <1>3
  <1>5. CASE at[2] = -5
    <2>1. MapStep(acc, at) = [acc EXCEPT !.start = at[1]]
      BY <1>5 DEF MapStep
    <2>2. MapStep(acc, at) = [offset |-> acc.offset, start |-> at[1], out |-> acc.out]
      BY <1>2, <2>1
    <2> QED BY <1>1, <1>5, <2>2 DEF MapState, Steps
  <1>6. CASE at[2] = 5
    <2>1. MapStep(acc, at) = [acc EXCEPT !.offset = acc.offset + at[1] - acc.start]
      BY <1>6 DEF MapStep
    <2>2. MapStep(acc, at) = [offset |-> x, start |-> acc.start, out |-> acc.out]
      BY <1>2, <1>3, <2>1
    <2> QED BY <1>1, <1>3, <1>4, <1>6, <2>2 DEF MapState, Steps
  <1>7. CASE at[2] # -5 /\ at[2] # 5
    <2>1. MapStep(acc, at) = [acc EXCEPT !.out = Append(acc.out, acc.offset + at[1] - acc.start)]
      BY <1>7 DEF MapStep
    <2>2. MapStep(acc, at) = [offset |-> acc.offset, start |-> acc.start, out |-> Append(acc.out, x)]
      BY <1>2, <1>3, <2>1
    <2> QED BY <1>1, <1>3, <1>4, <1>7, <2>2 DEF MapState, Steps
  <1> QED BY <1>5, <1>6, <1>7

Maps(g, w) ==
    /\ g \in [1..(Len(w) + 1) -> MapState]
    /\ g[1] = [offset |-> 0, start |-> 0, out |-> <<>>]
    /\ \A k \in 1..Len(w) : g[k + 1] = MapStep(g[k], w[k])

LEMMA MapSteps ==
  ASSUME NEW r, NEW o, NEW w \in Seq(Boundary), w = Walk(Boundaries(r, -5, 5), Boundaries(o, -1, 1))
  PROVE  \E g : Maps(g, w) /\ MapWithin(r, o) = RemovePairs(g[Len(w) + 1].out)
  <1>0. PICK T : T = MapState
    OBVIOUS
  <1> DEFINE base == [offset |-> 0, start |-> 0, out |-> Empty]
             Same(iter) ==
               iter = [u \in SUBSET DOMAIN w |->
                         IF u = {} THEN base
                         ELSE LET x == Max(u) IN MapStep(iter[u \ {x}], w[x])]
  <1>1. MapWithin(r, o) = RemovePairs((CHOOSE iter : Same(iter))[DOMAIN w].out)
    BY DEF MapWithin, FoldLeft, MapThenFoldSet, MapStep
  <1>2. PICK N \in Nat : N = Len(w) /\ DOMAIN w = 1..N
    OBVIOUS
  <1>3. PICK F : /\ F \in [(1..N) \X T -> T]
                 /\ \A k \in 1..N, v \in T : F[<<k, v>>] = MapStep(v, w[k])
    <2> DEFINE F == [p \in (1..N) \X T |-> MapStep(p[2], w[p[1]])]
    <2>1. ASSUME NEW k \in 1..N, NEW v \in T PROVE MapStep(v, w[k]) \in T
      <3>1. w[k] \in Boundary /\ v \in MapState
        BY <1>0, <1>2
      <3> QED BY <1>0, <3>1, MapStepIs
    <2>2. F \in [(1..N) \X T -> T] /\ \A k \in 1..N, v \in T : F[<<k, v>>] = MapStep(v, w[k])
      BY <2>1
    <2> HIDE DEF F
    <2> QED BY <2>2
  <1>4. base \in T
    BY <1>0 DEF Empty, MapState
  <1>5. PICK e \in [SUBSET (1..N) -> T] : Iterates(e, base, F, N)
    BY <1>3, <1>4, FoldExists, Zenon
  <1> HIDE DEF base
  <1>6. Same(e)
    <2>1. ASSUME NEW u \in SUBSET (1..N), u # {}
          PROVE  F[<<Max(u), e[u \ {Max(u)}]>>] = MapStep(e[u \ {Max(u)}], w[Max(u)])
      BY <1>3, <2>1, MaxOf
    <2> QED BY <1>2, <1>5, <2>1 DEF Iterates
  <1>7. PICK it : Same(it) /\ MapWithin(r, o) = RemovePairs(it[DOMAIN w].out)
    <2> HIDE DEF Same
    <2> QED BY <1>1, <1>6, Zenon
  <1>8. it[{}] = base
    BY <1>7
  <1>9. ASSUME NEW k \in 1..N PROVE it[1..k] = MapStep(it[1..(k - 1)], w[k])
    <2>1. /\ 1..k \in SUBSET DOMAIN w /\ 1..k # {} /\ Max(1..k) = k
          /\ (1..k) \ {k} = 1..(k - 1)
      BY <1>2, UpTo
    <2> QED BY <1>7, <2>1
  <1>10. Folding(it, base, F, N, T)
    BY <1>3, <1>8, <1>9 DEF Folding
  <1>11. FoldsTo(it[1..N], base, F, N, T)
    BY <1>3, <1>4, <1>10, FoldIs, Zenon
  <1>12. PICK g \in [1..(N + 1) -> T] : Follows(g, base, F, N) /\ it[1..N] = g[N + 1]
    BY <1>11, Zenon DEF FoldsTo
  <1>13. ASSUME NEW k \in 1..N PROVE g[k + 1] = MapStep(g[k], w[k])
    <2>1. g[k] \in T /\ g[k + 1] = F[<<k, g[k]>>]
      BY <1>12 DEF Follows
    <2> QED BY <1>3, <2>1
  <1>14. g[1] = [offset |-> 0, start |-> 0, out |-> <<>>]
    BY <1>12 DEF Follows, base, Empty
  <1> QED BY <1>0, <1>2, <1>7, <1>12, <1>13, <1>14, Zenon DEF Maps

(* Range e of r holds the blocks up to boundary j of o, a part of r.       *)
Holds(r, o, j, e) ==
    /\ e \in 1..(Len(r) \div 2) /\ r[2 * e - 1] <= o[j] /\ o[j] <= r[2 * e]
    /\ j % 2 = 0 => r[2 * e - 1] < o[j]
    /\ j % 2 = 1 => o[j] < r[2 * e]

LEMMA HeldIn ==
  ASSUME NEW r \in RangeSets, NEW o \in RangeSets, Blocks(o) \subseteq Blocks(r),
         NEW m \in 1..(Len(o) \div 2)
  PROVE  \E e : Holds(r, o, 2 * m - 1, e) /\ Holds(r, o, 2 * m, e)
  <1> DEFINE H == Len(r) \div 2
             G == Len(o) \div 2
  <1>1. /\ H \in Nat /\ Upto(r, H) = Blocks(r)
        /\ \A e \in 1..H : r[2 * e - 1] \in Nat /\ r[2 * e] \in Nat /\ r[2 * e - 1] < r[2 * e]
        /\ \A e, f \in 1..H : e < f => r[2 * e] < r[2 * f - 1]
    BY UptoSteps
  <1>2. /\ G \in Nat /\ Upto(o, G) = Blocks(o) /\ m \in 1..G
        /\ o[2 * m - 1] \in Nat /\ o[2 * m] \in Nat /\ o[2 * m - 1] < o[2 * m]
    BY UptoSteps
  <1> HIDE DEF G
  <1>3. PICK p \in Nat, q \in Nat : p = o[2 * m - 1] /\ q = o[2 * m] /\ p < q
    BY <1>2
  <1>4. \A x \in Int : p <= x /\ x < q => x \in Upto(r, H)
    <2> SUFFICES ASSUME NEW x \in Int, p <= x, x < q PROVE x \in Upto(r, H)
      OBVIOUS
    <2>1. x \in Upto(o, G)
      BY <1>2, <1>3 DEF Upto
    <2> QED BY <1>1, <1>2, <2>1
  <1> HIDE DEF H
  <1>5. PICK e \in 1..H : r[2 * e - 1] <= p /\ p < r[2 * e]
    <2>1. p \in Upto(r, H)
      BY <1>3, <1>4
    <2> QED BY <2>1 DEF Upto
  <1>6. r[2 * e - 1] \in Nat /\ r[2 * e] \in Nat
    BY <1>1
  <1>7. q <= r[2 * e]
    <2> SUFFICES ASSUME r[2 * e] < q PROVE FALSE
      BY <1>6
    <2>1. r[2 * e] \in Upto(r, H)
      BY <1>4, <1>5, <1>6
    <2>2. PICK f \in 1..H : r[2 * f - 1] <= r[2 * e] /\ r[2 * e] < r[2 * f]
      BY <2>1 DEF Upto
    <2>3. CASE e < f
      BY <1>1, <2>2, <2>3
    <2>4. CASE f < e
      <3>1. r[2 * f] < r[2 * e - 1] /\ r[2 * f] \in Nat /\ r[2 * e - 1] < r[2 * e]
        BY <1>1, <2>4
      <3> QED BY <1>6, <2>2, <3>1
    <2>5. CASE f = e
      BY <1>6, <2>2, <2>5
    <2>6. e \in Int /\ f \in Int
      BY <1>1
    <2> QED BY <2>3, <2>4, <2>5, <2>6
  <1>8. (2 * m - 1) % 2 = 1 /\ (2 * m) % 2 = 0
    BY <1>2
  <1>9. r[2 * e - 1] < q
    BY <1>3, <1>5, <1>6
  <1>10. Holds(r, o, 2 * m - 1, e)
    BY <1>3, <1>5, <1>6, <1>8 DEF Holds, H
  <1>11. Holds(r, o, 2 * m, e)
    BY <1>3, <1>5, <1>6, <1>7, <1>8, <1>9 DEF Holds, H
  <1> QED BY <1>10, <1>11

LEMMA Halves ==
  ASSUME NEW n \in Nat, n % 2 = 0, NEW j \in 1..n
  PROVE  \E m \in 1..(n \div 2) : j = 2 * m - 1 \/ j = 2 * m
  <1>1. CASE j % 2 = 0
    <2>1. j \div 2 \in 1..(n \div 2) /\ j = 2 * (j \div 2)
      BY <1>1
    <2> QED BY <2>1
  <1>2. CASE j % 2 = 1
    <2>1. (j + 1) \div 2 \in 1..(n \div 2) /\ j = 2 * ((j + 1) \div 2) - 1
      BY <1>2
    <2> QED BY <2>1
  <1> QED BY <1>1, <1>2

(* When the walk comes to a boundary of o, it is in the range of r that    *)
(* holds it.                                                               *)
LEMMA MapTurn ==
  ASSUME NEW r \in RangeSets, NEW o \in RangeSets, Blocks(o) \subseteq Blocks(r),
         NEW a, a = Boundaries(r, -5, 5), NEW b, b = Boundaries(o, -1, 1),
         NEW w, NEW t, Merges(w, a, b, t), NEW k \in 1..Len(w), ~FromA(a, b, k, t[k])
  PROVE  k - t[k] \in 1..Len(o) /\ w[k] = b[k - t[k]]
         /\ \E e : t[k] = 2 * e - 1 /\ Holds(r, o, k - t[k], e)
  <1> DEFINE j == k - t[k]
  <1>1. /\ r \in Seq(Nat) /\ r \in Seq(Int) /\ Len(r) \in Nat /\ Len(r) % 2 = 0 /\ Ascends(r)
        /\ \A i \in 1..Len(r) : r[i] \in Nat
    BY NormalIs DEF RangeSets
  <1>2. /\ o \in Seq(Nat) /\ o \in Seq(Int) /\ Len(o) \in Nat /\ Len(o) % 2 = 0 /\ Ascends(o)
        /\ \A i \in 1..Len(o) : o[i] \in Nat
    BY NormalIs DEF RangeSets
  <1>3. /\ a \in Seq(Boundary) /\ Len(a) = Len(r) /\ Rising(a)
        /\ \A i \in 1..Len(r) : a[i][1] = r[i] /\ a[i][2] = IF i % 2 = 1 THEN -5 ELSE 5
    BY <1>1, BoundariesAre
  <1>4. /\ b \in Seq(Boundary) /\ Len(b) = Len(o) /\ Rising(b)
        /\ \A i \in 1..Len(o) : b[i][1] = o[i] /\ b[i][2] = IF i % 2 = 1 THEN -1 ELSE 1
    BY <1>2, BoundariesAre
  <1>5. /\ Len(w) = Len(r) + Len(o) /\ t[k] \in 0..Len(r) /\ (k - 1) - t[k] \in 0..Len(o)
        /\ w[k] = b[k - t[k]]
    <2>1. Len(w) = Len(a) + Len(b)
      BY DEF Merges
    <2>2. k \in 1..(Len(w) + 1)
      BY <1>1, <1>2, <1>3, <1>4, <2>1
    <2>3. t[k] \in 0..Len(a) /\ (k - 1) - t[k] \in 0..Len(b)
      BY <2>2 DEF Merges
    <2>4. w[k] = b[k - t[k]]
      BY DEF Merges
    <2> QED BY <1>3, <1>4, <2>1, <2>3, <2>4
  <1>6. j \in 1..Len(o)
    <2>1. t[k] < Len(a) => ~(k - t[k] > Len(b))
      BY DEF FromA
    <2>2. t[k] \in Nat /\ k \in Nat /\ k <= Len(r) + Len(o)
      BY <1>1, <1>2, <1>5
    <2>3. Len(r) \in Nat /\ Len(o) \in Nat /\ Len(a) = Len(r) /\ Len(b) = Len(o)
      BY <1>1, <1>2, <1>3, <1>4
    <2>4. t[k] \in 0..Len(r) /\ (k - 1) - t[k] \in 0..Len(o)
      BY <1>5
    <2> HIDE DEF j
    <2>5. k - t[k] \in 1..Len(o)
      BY <2>1, <2>2, <2>3, <2>4
    <2> QED BY <2>5 DEF j
  <1> HIDE DEF j
  <1>7. PICK m \in 1..(Len(o) \div 2) : j = 2 * m - 1 \/ j = 2 * m
    BY <1>2, <1>6, Halves
  <1>8. PICK e : Holds(r, o, j, e)
    BY <1>7, HeldIn
  <1>9. 2 * e - 1 \in 1..Len(r) /\ 2 * e \in 1..Len(r) /\ (2 * e - 1) % 2 = 1 /\ (2 * e) % 2 = 0 /\ e \in Nat
    <2>1. e \in 1..(Len(r) \div 2)
      BY <1>8 DEF Holds
    <2> QED BY <1>1, <2>1
  <1>10. /\ r[2 * e - 1] <= o[j] /\ o[j] <= r[2 * e]
         /\ r[2 * e - 1] \in Nat /\ r[2 * e] \in Nat /\ o[j] \in Nat
    BY <1>1, <1>2, <1>6, <1>8, <1>9 DEF Holds
  <1>11. b[j][1] = o[j] /\ b[j][2] \in Steps
    BY <1>4, <1>6 DEF Steps
  <1>12. Lower(a[2 * e - 1], b[j])
    <2>1. a[2 * e - 1][1] = r[2 * e - 1] /\ a[2 * e - 1][2] = -5
      BY <1>3, <1>9
    <2>2. \A s \in Steps : -5 < s
      BY DEF Steps
    <2>3. -5 < b[j][2]
      BY <1>11, <2>2
    <2> QED BY <1>10, <1>11, <2>1, <2>3 DEF Lower
  <1>13. Lower(b[j], a[2 * e])
    <2>0. PICK d \in 1..Len(r) : d = 2 * e /\ d % 2 = 0
      BY <1>9
    <2>00. a[d][1] = r[d] /\ a[d][2] = 5
      BY <1>3, <2>0
    <2>1. a[2 * e][1] = r[2 * e] /\ a[2 * e][2] = 5
      BY <2>0, <2>00
    <2>2. \A s \in Steps : s < 5
      BY DEF Steps
    <2>3. b[j][2] < 5
      BY <1>11, <2>2
    <2> QED BY <1>10, <1>11, <2>1, <2>3 DEF Lower
  <1>14. 2 * e - 1 <= t[k]
    <2>1. NoneLower(a, b, t, k, w[k])
      BY <1>3, <1>4, MergeTakesLowest
    <2>2. \A i \in (t[k] + 1)..Len(a) : ~Lower(a[i], b[j])
      BY <1>5, <2>1 DEF NoneLower, j
    <2>3. 2 * e - 1 \notin (t[k] + 1)..Len(a)
      BY <1>12, <2>2
    <2>4. t[k] \in Nat /\ Len(a) = Len(r) /\ 2 * e - 1 <= Len(r) /\ e \in Nat
      BY <1>1, <1>3, <1>5, <1>9
    <2> QED BY <2>3, <2>4
  <1>15. ~(2 * e <= t[k])
    <2> SUFFICES ASSUME 2 * e <= t[k] PROVE FALSE
      OBVIOUS
    <2>1. k \in 1..(Len(w) + 1)
      BY <1>1, <1>2, <1>5
    <2>2. Ordered(w, a, b, t, k)
      BY <1>3, <1>4, <2>1, MergeOrdered
    <2>3. 2 * e \in 1..t[k]
      BY <1>5, <1>9
    <2>4. PICK l \in 1..(k - 1) : w[l] = a[2 * e]
      BY <2>2, <2>3 DEF Ordered
    <2>5. \A i \in (k - t[k])..Len(b) : ~Lower(b[i], w[l])
      BY <2>2 DEF Ordered, NoneLower
    <2>6. j \in (k - t[k])..Len(b)
      BY <1>2, <1>4, <1>5, <1>6 DEF j
    <2> QED BY <1>13, <2>4, <2>5, <2>6
  <1>16. t[k] = 2 * e - 1
    BY <1>5, <1>9, <1>14, <1>15
  <1> QED BY <1>5, <1>6, <1>8, <1>16 DEF j

(* Before a boundary, when i boundaries of r and j of o are done.          *)
Mapped(acc, r, o, i, j) ==
    /\ acc \in MapState /\ acc.offset = Cardinality(Upto(r, i \div 2))
    /\ i % 2 = 1 => acc.start = r[i]
    /\ Len(acc.out) = j
    /\ \A l \in 1..j : \E e : /\ Holds(r, o, l, e)
                             /\ acc.out[l] = Cardinality(Upto(r, e - 1)) + o[l] - r[2 * e - 1]

LEMMA MappedOwn ==
  ASSUME NEW r \in RangeSets, NEW o, NEW i \in Nat, i + 1 \in 1..Len(r), NEW j,
         NEW acc, Mapped(acc, r, o, i, j), NEW at \in Boundary, at[1] = r[i + 1],
         at[2] = IF (i + 1) % 2 = 1 THEN -5 ELSE 5
  PROVE  Mapped(MapStep(acc, at), r, o, i + 1, j)
  <1> DEFINE new == MapStep(acc, at)
             H == Len(r) \div 2
  <1>1. /\ acc \in MapState /\ acc.offset = Cardinality(Upto(r, i \div 2))
        /\ i % 2 = 1 => acc.start = r[i]
        /\ Len(acc.out) = j
    BY DEF Mapped
  <1>2. /\ new \in MapState
        /\ at[2] = -5 => new = [offset |-> acc.offset, start |-> at[1], out |-> acc.out]
        /\ at[2] = 5 => new = [offset |-> acc.offset + at[1] - acc.start,
                               start |-> acc.start, out |-> acc.out]
    BY <1>1, MapStepIs
  <1> HIDE DEF new
  <1>3. CASE i % 2 = 0
    <2>1. (i + 1) % 2 = 1 /\ (i + 1) \div 2 = i \div 2
      BY <1>3
    <2>2. new = [offset |-> acc.offset, start |-> r[i + 1], out |-> acc.out]
      BY <1>2, <2>1
    <2> QED BY <1>1, <1>2, <2>1, <2>2 DEF Mapped, new
  <1>4. CASE i % 2 = 1
    <2>1. PICK m \in Nat : i = 2 * m - 1 /\ m - 1 \in Nat
      <3>1. (i + 1) \div 2 \in Nat /\ i = 2 * ((i + 1) \div 2) - 1 /\ (i + 1) \div 2 - 1 \in Nat
        BY <1>4
      <3> QED BY <3>1
    <2>2. i + 1 = 2 * m /\ (i + 1) % 2 = 0 /\ i \div 2 = m - 1 /\ (i + 1) \div 2 = m
      BY <2>1
    <2>3. Len(r) \in Nat /\ Len(r) % 2 = 0
      <3>1. r \in Seq(Int) /\ Normal(r)
        BY DEF RangeSets
      <3> QED BY <3>1, NormalIs
    <2>4. m \in 1..H
      BY <2>1, <2>2, <2>3
    <2>5. Cardinality(Upto(r, m)) = Cardinality(Upto(r, m - 1)) + r[2 * m] - r[2 * m - 1]
      BY <2>4, UptoSize
    <2>6. new = [offset |-> acc.offset + at[1] - acc.start, start |-> acc.start, out |-> acc.out]
      BY <1>2, <2>2
    <2>7. new.offset = Cardinality(Upto(r, m))
      BY <1>1, <1>4, <2>1, <2>2, <2>5, <2>6
    <2>8. new.out = acc.out
      BY <2>6
    <2> QED BY <1>1, <1>2, <2>2, <2>7, <2>8 DEF Mapped, new
  <1> QED BY <1>3, <1>4

LEMMA MappedOther ==
  ASSUME NEW r \in RangeSets, NEW o \in Seq(Nat), NEW e, NEW i, i = 2 * e - 1, NEW j \in Nat,
         Holds(r, o, j + 1, e),
         NEW acc, Mapped(acc, r, o, i, j), NEW at \in Boundary, at[1] = o[j + 1], at[2] \in Steps
  PROVE  Mapped(MapStep(acc, at), r, o, i, j + 1)
  <1>1. /\ acc \in MapState /\ acc.offset = Cardinality(Upto(r, i \div 2))
        /\ i % 2 = 1 => acc.start = r[i]
        /\ Len(acc.out) = j
        /\ \A l \in 1..j : \E f : /\ Holds(r, o, l, f)
                                  /\ acc.out[l] = Cardinality(Upto(r, f - 1)) + o[l] - r[2 * f - 1]
    BY DEF Mapped
  <1> DEFINE new == MapStep(acc, at)
             x == acc.offset + at[1] - acc.start
  <1>2. new \in MapState /\ new = [offset |-> acc.offset, start |-> acc.start, out |-> Append(acc.out, x)]
    BY <1>1, MapStepIs
  <1>3. acc.out \in Seq(Int) /\ acc.offset \in Int /\ acc.start \in Int /\ at[1] \in Int
    BY <1>1 DEF MapState, Boundary
  <1>4. i % 2 = 1 /\ i \div 2 = e - 1
    <2>1. e \in Nat
      BY DEF Holds
    <2> QED BY <2>1
  <1>5. x = Cardinality(Upto(r, e - 1)) + o[j + 1] - r[2 * e - 1] /\ x \in Int
    BY <1>1, <1>3, <1>4
  <1> HIDE DEF new, x
  <1>6. /\ Append(acc.out, x) \in Seq(Int) /\ Len(Append(acc.out, x)) = j + 1
        /\ Append(acc.out, x)[j + 1] = x
        /\ \A l \in 1..j : Append(acc.out, x)[l] = acc.out[l]
        /\ \A l \in 1..(j + 1) : l \in 1..j \/ l = j + 1
    BY <1>1, <1>3, <1>5, Appended
  <1>7. new.offset = acc.offset /\ new.start = acc.start /\ new.out = Append(acc.out, x)
    BY <1>2
  <1>8. ASSUME NEW l \in 1..(j + 1)
        PROVE  \E f : Holds(r, o, l, f) /\ new.out[l] = Cardinality(Upto(r, f - 1)) + o[l] - r[2 * f - 1]
    <2>1. CASE l \in 1..j
      BY <1>1, <1>6, <1>7, <2>1
    <2>2. CASE l = j + 1
      BY <1>5, <1>6, <1>7, <2>2
    <2> QED BY <1>6, <2>1, <2>2
  <1> QED BY <1>1, <1>2, <1>6, <1>7, <1>8 DEF Mapped, new

LEMMA HeldOnce ==
  ASSUME NEW r \in RangeSets, NEW o \in Seq(Nat), NEW l \in 1..Len(o),
         NEW e, Holds(r, o, l, e), NEW f, Holds(r, o, l, f)
  PROVE  e = f
  <1> DEFINE H == Len(r) \div 2
  <1>1. /\ H \in Nat
        /\ \A i \in 1..H : r[2 * i - 1] \in Nat /\ r[2 * i] \in Nat
        /\ \A i, j \in 1..H : i < j => r[2 * i] < r[2 * j - 1]
    BY UptoSteps
  <1>2. e \in 1..H /\ r[2 * e - 1] <= o[l] /\ o[l] <= r[2 * e]
    BY DEF Holds
  <1>3. f \in 1..H /\ r[2 * f - 1] <= o[l] /\ o[l] <= r[2 * f]
    BY DEF Holds
  <1> HIDE DEF H
  <1>4. o[l] \in Nat
    OBVIOUS
  <1>5. ~(e < f)
    <2> SUFFICES ASSUME e < f PROVE FALSE
      OBVIOUS
    <2>1. r[2 * e] < r[2 * f - 1] /\ r[2 * e] \in Nat /\ r[2 * f - 1] \in Nat
      BY <1>1, <1>2, <1>3
    <2> QED BY <1>2, <1>3, <1>4, <2>1
  <1>6. ~(f < e)
    <2> SUFFICES ASSUME f < e PROVE FALSE
      OBVIOUS
    <2>1. r[2 * f] < r[2 * e - 1] /\ r[2 * f] \in Nat /\ r[2 * e - 1] \in Nat
      BY <1>1, <1>2, <1>3
    <2> QED BY <1>2, <1>3, <1>4, <2>1
  <1> QED BY <1>1, <1>2, <1>3, <1>5, <1>6

(* The number of block x in r. *)
Place(r, x) == Cardinality(Below(Blocks(r), x))

LEMMA PlaceIs ==
  ASSUME NEW r \in RangeSets, NEW x \in Int
  PROVE  /\ Place(r, x) \in Nat
         /\ \A y \in Blocks(r) : y < x => Place(r, y) < Place(r, x)
  <1>1. Blocks(r) \subseteq Int /\ IsFiniteSet(Blocks(r))
    BY SizeIs, PlainNormal DEF Plain
  <1> QED BY <1>1, BelowIs DEF Place

(* The blocks p..q-1 are numbered one after the other. *)
InARow(r, p, q) == \A x \in p..(q - 1) : Place(r, x) = Place(r, p) + x - p

(* Each boundary of o has become one where the numbers of its blocks begin *)
(* or end.                                                                 *)
LEMMA MappedPair ==
  ASSUME NEW r \in RangeSets, NEW o \in RangeSets, Blocks(o) \subseteq Blocks(r),
         NEW acc, Mapped(acc, r, o, Len(r), Len(o)), NEW m \in 1..(Len(o) \div 2)
  PROVE  \E p, q \in Nat :
           /\ p = o[2 * m - 1] /\ q = o[2 * m] /\ p < q
           /\ acc.out[2 * m - 1] = Place(r, p) /\ acc.out[2 * m] = Place(r, q - 1) + 1
           /\ InARow(r, p, q)
  <1>0. PICK p, q : p = o[2 * m - 1] /\ q = o[2 * m]
    OBVIOUS
  <1> DEFINE G == Len(o) \div 2
  <1>1. /\ p \in Nat /\ q \in Nat /\ p < q
        /\ 2 * m - 1 \in 1..Len(o) /\ 2 * m \in 1..Len(o)
    BY <1>0, UptoSteps
  <1>2. PICK e : Holds(r, o, 2 * m - 1, e) /\ Holds(r, o, 2 * m, e)
    BY HeldIn
  <1>3. PICK c : c = Cardinality(Upto(r, e - 1))
    OBVIOUS
  <1>4. e \in 1..(Len(r) \div 2) /\ r[2 * e - 1] <= p /\ q <= r[2 * e]
    BY <1>0, <1>2 DEF Holds
  <1>5. r[2 * e - 1] \in Nat /\ r[2 * e] \in Nat
    BY <1>4, UptoSteps
  <1>6. c \in Int
    <2>1. /\ Len(r) \div 2 \in Nat
          /\ \A i \in 0..(Len(r) \div 2) : Cardinality(Upto(r, i)) \in Nat
      BY UptoSize, UptoSteps
    <2>2. e - 1 \in 0..(Len(r) \div 2)
      BY <1>4, <2>1
    <2> QED BY <1>3, <2>1, <2>2
  <1>7. o \in Seq(Nat)
    BY DEF RangeSets
  <1>8. acc.out[2 * m - 1] = c + p - r[2 * e - 1]
    <2>1. PICK f : /\ Holds(r, o, 2 * m - 1, f)
                   /\ acc.out[2 * m - 1] = Cardinality(Upto(r, f - 1)) + o[2 * m - 1] - r[2 * f - 1]
      BY <1>1 DEF Mapped
    <2>2. e = f
      BY <1>1, <1>2, <1>7, <2>1, HeldOnce
    <2> QED BY <1>0, <1>3, <2>1, <2>2
  <1>9. acc.out[2 * m] = c + q - r[2 * e - 1]
    <2>1. PICK f : /\ Holds(r, o, 2 * m, f)
                   /\ acc.out[2 * m] = Cardinality(Upto(r, f - 1)) + o[2 * m] - r[2 * f - 1]
      BY <1>1 DEF Mapped
    <2>2. e = f
      BY <1>1, <1>2, <1>7, <2>1, HeldOnce
    <2> QED BY <1>0, <1>3, <2>1, <2>2
  <1>10. ASSUME NEW x \in Int, p <= x, x < q PROVE Place(r, x) = c + x - r[2 * e - 1]
    <2>1. r[2 * e - 1] <= x /\ x < r[2 * e]
      <3>1. PICK d \in Nat, u \in Nat : d = r[2 * e - 1] /\ u = r[2 * e]
        BY <1>5
      <3>2. p \in Nat /\ q \in Nat /\ d <= p /\ q <= u /\ p <= x /\ x < q
        BY <1>1, <1>4, <1>10, <3>1
      <3>3. d <= x /\ x < u
        BY <3>2
      <3> QED BY <3>1, <3>3
    <2> QED BY <1>3, <1>4, <2>1, RankIn DEF Place
  <1>11. Place(r, p) = c + p - r[2 * e - 1] /\ Place(r, q - 1) = c + (q - 1) - r[2 * e - 1]
    BY <1>1, <1>10
  <1>12. PICK d \in Int : d = r[2 * e - 1]
    BY <1>5
  <1>13. ASSUME NEW x \in p..(q - 1) PROVE Place(r, x) = Place(r, p) + x - p
    <2>1. x \in Int /\ p <= x /\ x < q
      BY <1>1
    <2>2. Place(r, x) = c + x - d /\ Place(r, p) = c + p - d
      BY <1>10, <1>11, <1>12, <2>1
    <2>3. c \in Int /\ p \in Int
      BY <1>1, <1>6
    <2>4. c + x - d = (c + p - d) + x - p
      BY <2>1, <2>3
    <2> QED BY <2>2, <2>4
  <1>14. acc.out[2 * m] = Place(r, q - 1) + 1
    <2>1. acc.out[2 * m] = c + q - d /\ Place(r, q - 1) = c + (q - 1) - d
      BY <1>9, <1>11, <1>12
    <2> QED BY <1>1, <1>6, <1>12, <2>1
  <1>15. InARow(r, p, q)
    BY <1>13 DEF InARow
  <1>16. acc.out[2 * m - 1] = Place(r, p)
    BY <1>8, <1>11
  <1> QED BY <1>0, <1>1, <1>14, <1>15, <1>16

(* The numbers of the blocks of the first n ranges of o. *)
Places(r, o, n) == {Place(r, x) : x \in Upto(o, n)}

LEMMA Shift ==
  ASSUME NEW l \in Int, NEW u \in Int, NEW p \in Int, NEW q \in Int, u = l + q - 1 - p,
         NEW x \in Int, NEW y \in Int, x - p = y - l
  PROVE  (p <= x /\ x <= q - 1 <=> l <= y /\ y <= u) /\ y = l + x - p
  OBVIOUS

LEMMA PlacesOfRange ==
  ASSUME NEW r, NEW p \in Int, NEW q \in Int, p < q, NEW l \in Int,
         \A x \in p..(q - 1) : Place(r, x) = l + x - p
  PROVE  \A y : y \in l..Place(r, q - 1) <=> \E x \in p..(q - 1) : y = Place(r, x)
  <1>1. q - 1 \in p..(q - 1)
    OBVIOUS
  <1>2. PICK u \in Int : u = Place(r, q - 1) /\ u = l + q - 1 - p
    BY <1>1
  <1>3. ASSUME NEW y \in l..u PROVE \E x \in p..(q - 1) : y = Place(r, x)
    <2>1. y \in Int /\ l <= y /\ y <= u
      OBVIOUS
    <2>2. PICK x \in Int : x = p + y - l
      OBVIOUS
    <2>3. x - p = y - l
      BY <2>2
    <2>4. p <= x /\ x <= q - 1 /\ y = l + x - p
      BY <1>2, <2>1, <2>3, Shift
    <2>5. x \in p..(q - 1)
      BY <2>4
    <2> QED BY <2>4, <2>5
  <1>4. ASSUME NEW x \in p..(q - 1) PROVE Place(r, x) \in l..u
    <2>1. PICK y \in Int : y = l + x - p
      OBVIOUS
    <2>2. x - p = y - l /\ x \in Int /\ p <= x /\ x <= q - 1
      BY <2>1
    <2>3. l <= y /\ y <= u
      BY <1>2, <2>2, Shift
    <2> QED BY <2>1, <2>3
  <1> QED BY <1>2, <1>3, <1>4

LEMMA PlacesMore ==
  ASSUME NEW r \in RangeSets, NEW o \in RangeSets, NEW n \in 1..(Len(o) \div 2),
         NEW p \in Nat, NEW q \in Nat, p = o[2 * n - 1], q = o[2 * n], p < q,
         InARow(r, p, q)
  PROVE  Places(r, o, n) = Places(r, o, n - 1) \union Place(r, p)..Place(r, q - 1)
  <1>1. Upto(o, n) = Upto(o, n - 1) \union p..(q - 1)
    BY UptoSteps
  <1>2. p \in Int /\ q \in Int
    OBVIOUS
  <1>3. Place(r, p) \in Int
    <2>1. Place(r, p) \in Nat
      BY <1>2, PlaceIs, Zenon
    <2> QED BY <2>1
  <1>4. \A y : y \in Place(r, p)..Place(r, q - 1) <=> \E x \in p..(q - 1) : y = Place(r, x)
    BY <1>2, <1>3, PlacesOfRange DEF InARow
  <1> QED BY <1>1, <1>4 DEF Places

(* The boundaries that MapWithin comes to stand for the numbers of blocks. *)
LEMMA MappedPlain ==
  ASSUME NEW r \in RangeSets, NEW o \in RangeSets, Blocks(o) \subseteq Blocks(r),
         NEW acc, Mapped(acc, r, o, Len(r), Len(o))
  PROVE  Plain(acc.out, {Place(r, x) : x \in Blocks(o)})
  <1> DEFINE G == Len(o) \div 2
             v == acc.out
             u(n) == [l \in 1..(2 * n) |-> v[l]]
  <1>1. /\ G \in Nat /\ Upto(o, G) = Blocks(o) /\ Upto(o, 0) = {}
        /\ \A m \in 1..G : /\ 2 * m - 1 \in 1..Len(o) /\ 2 * m \in 1..Len(o)
                            /\ Upto(o, m) = Upto(o, m - 1) \union o[2 * m - 1]..(o[2 * m] - 1)
                            /\ \A x \in Upto(o, m - 1) : x < o[2 * m - 1]
    BY UptoSteps
  <1>2. Len(o) \in Nat /\ Len(o) % 2 = 0
    <2>1. o \in Seq(Int) /\ Normal(o)
      BY DEF RangeSets
    <2> QED BY <2>1, NormalIs
  <1>3. 2 * G = Len(o) /\ v \in Seq(Int) /\ Len(v) = 2 * G
    BY <1>2 DEF Mapped, MapState
  <1>4. ASSUME NEW m \in 1..G, NEW p, p = o[2 * m - 1], NEW q, q = o[2 * m]
        PROVE  /\ p \in Nat /\ q \in Nat /\ p < q
               /\ v[2 * m - 1] = Place(r, p) /\ v[2 * m] = Place(r, q - 1) + 1
               /\ Place(r, p) \in Nat /\ Place(r, q - 1) \in Nat /\ Place(r, p) <= Place(r, q - 1)
               /\ Places(r, o, m) = Places(r, o, m - 1) \union Place(r, p)..Place(r, q - 1)
    <2>0. m \in 1..(Len(o) \div 2)
      OBVIOUS
    <2> HIDE DEF G
    <2>1. /\ p \in Nat /\ q \in Nat /\ p < q
          /\ v[2 * m - 1] = Place(r, p) /\ v[2 * m] = Place(r, q - 1) + 1
          /\ InARow(r, p, q)
      <3>1. \E x, y \in Nat :
               /\ x = o[2 * m - 1] /\ y = o[2 * m] /\ x < y
               /\ v[2 * m - 1] = Place(r, x) /\ v[2 * m] = Place(r, y - 1) + 1
               /\ InARow(r, x, y)
        BY <2>0, MappedPair
      <3> QED BY <1>4, <3>1
    <2>2. Places(r, o, m) = Places(r, o, m - 1) \union Place(r, p)..Place(r, q - 1)
      <3>1. p = o[2 * m - 1] /\ q = o[2 * m]
        BY <1>4
      <3> QED BY <2>0, <2>1, <3>1, PlacesMore
    <2>3. p \in Int /\ q - 1 \in Int /\ q - 1 \in p..(q - 1)
      BY <2>1
    <2>4. Place(r, p) \in Nat /\ Place(r, q - 1) \in Nat
      BY <2>3, PlaceIs, Zenon
    <2>5. Place(r, p) <= Place(r, q - 1)
      <3>1. Place(r, q - 1) = Place(r, p) + (q - 1) - p
        BY <2>1, <2>3 DEF InARow
      <3> QED BY <2>1, <2>4, <3>1
    <2> QED BY <2>1, <2>2, <2>4, <2>5
  <1> DEFINE S == {n \in Nat : n <= G =>
                     /\ Plain(u(n), Places(r, o, n))
                     /\ \A m \in 1..G : m = n + 1 => \A l \in 1..Len(u(n)) : u(n)[l] <= v[2 * m - 1]}
  <1> HIDE DEF G, v
  <1>5. 0 \in S
    <2>1. u(0) = <<>> /\ Places(r, o, 0) = {} /\ Len(<<>>) = 0
      BY <1>1 DEF Places
    <2>2. Plain(u(0), Places(r, o, 0))
      BY <2>1, PlainEmpty
    <2>3. \A l \in 1..Len(u(0)) : FALSE
      BY <2>1
    <2> HIDE DEF u
    <2> QED BY <2>2, <2>3
  <1>6. ASSUME NEW n \in Nat, n \in S PROVE n + 1 \in S
    <2>1. SUFFICES ASSUME NEW k \in 1..G, k = n + 1
                   PROVE  /\ Plain(u(k), Places(r, o, k))
                          /\ \A m \in 1..G : m = k + 1 => \A l \in 1..Len(u(k)) : u(k)[l] <= v[2 * m - 1]
      <3>1. n + 1 \in Nat /\ (n + 1 <= G => n + 1 \in 1..G)
        BY <1>1
      <3> HIDE DEF u
      <3> QED BY <3>1
    <2>2. /\ Plain(u(n), Places(r, o, n))
          /\ \A l \in 1..Len(u(n)) : u(n)[l] <= v[2 * k - 1]
      <3>1. n <= G
        BY <1>1, <2>1
      <3> HIDE DEF u
      <3> QED BY <1>6, <2>1, <3>1
    <2>3. PICK p, q : p = o[2 * k - 1] /\ q = o[2 * k]
      OBVIOUS
    <2>4. /\ p \in Nat /\ q \in Nat /\ p < q
          /\ v[2 * k - 1] = Place(r, p) /\ v[2 * k] = Place(r, q - 1) + 1
          /\ Place(r, p) \in Nat /\ Place(r, q - 1) \in Nat /\ Place(r, p) <= Place(r, q - 1)
          /\ Places(r, o, k) = Places(r, o, k - 1) \union Place(r, p)..Place(r, q - 1)
      BY <1>4, <2>3
    <2>5. PICK f \in Nat, h \in Nat : f = v[2 * k - 1] /\ h = v[2 * k] /\ h - 1 = Place(r, q - 1) /\ f <= h
                                     /\ f = Place(r, p)
      BY <2>4
    <2>6. u(k) = u(n) \o <<f, h>>
      <3>1. u(n) \in Seq(Int) /\ Len(u(n)) = 2 * n
        <4>1. \A l \in 1..(2 * n) : l \in 1..(2 * G)
          BY <1>1, <2>1
        <4>2. \A l \in 1..(2 * n) : v[l] \in Int
          BY <1>3, <4>1
        <4> QED BY <4>2
      <3>2. PICK w : w = u(n)
        OBVIOUS
      <3>3. \A l \in 1..(2 * n) : w[l] = v[l]
        BY <3>2
      <3>4. u(k) = [l \in 1..(2 * n + 2) |-> v[l]]
        BY <2>1
      <3> HIDE DEF u
      <3>5. /\ w \o <<f, h>> = [l \in 1..(2 * n + 2) |-> (w \o <<f, h>>)[l]]
            /\ (w \o <<f, h>>)[2 * n + 1] = f /\ (w \o <<f, h>>)[2 * n + 2] = h
            /\ \A l \in 1..(2 * n) : (w \o <<f, h>>)[l] = w[l]
        <4>1. PICK N \in Nat : N = 2 * n
          OBVIOUS
        <4>2. w \in Seq(Int) /\ Len(w) = N /\ f \in Int /\ h \in Int
          BY <3>1, <3>2, <4>1
        <4>3. PICK x : x = w \o <<f, h>>
          OBVIOUS
        <4>4. /\ x \in Seq(Int) /\ Len(x) = N + 2 /\ x[N + 1] = f /\ x[N + 2] = h
              /\ \A l \in 1..N : x[l] = w[l]
          <5>1. PICK y : y = <<f, h>> /\ y \in Seq(Int) /\ Len(y) = 2 /\ y[1] = f /\ y[2] = h
            <6>1. <<f, h>> \in Seq(Int) /\ Len(<<f, h>>) = 2 /\ <<f, h>>[1] = f /\ <<f, h>>[2] = h
              BY <4>2
            <6> QED BY <6>1
          <5>2. x = w \o y /\ x \in Seq(Int) /\ Len(x) = N + 2
            BY <4>2, <4>3, <5>1
          <5>3. \A l \in 1..(N + 2) : x[l] = IF l <= N THEN w[l] ELSE y[l - N]
            BY <4>2, <5>1, <5>2
          <5> QED BY <4>1, <5>1, <5>2, <5>3
        <4>5. x = [l \in 1..(N + 2) |-> x[l]]
          BY <4>4
        <4> QED BY <4>1, <4>3, <4>4, <4>5
      <3>6. 2 * k - 1 = 2 * n + 1 /\ 2 * k = 2 * n + 2
        BY <2>1
      <3>7. \A l \in 1..(2 * n + 2) : l \in 1..(2 * n) \/ l = 2 * n + 1 \/ l = 2 * n + 2
        OBVIOUS
      <3>8. \A l \in 1..(2 * n + 2) : v[l] = (w \o <<f, h>>)[l]
        BY <2>5, <3>3, <3>5, <3>6, <3>7
      <3> QED BY <3>2, <3>4, <3>5, <3>8
    <2>7. Places(r, o, k) = Places(r, o, n) \union f..(h - 1)
      BY <2>1, <2>4, <2>5
    <2> HIDE DEF u
    <2>8. /\ Plain(u(k), Places(r, o, k))
          /\ \A l \in 1..Len(u(k)) : u(k)[l] <= h
      <3>1. PICK s : s = u(n)
        OBVIOUS
      <3>2. Plain(s, Places(r, o, n)) /\ \A l \in 1..Len(s) : s[l] <= f
        BY <2>2, <2>5, <3>1
      <3>3. /\ Plain(s \o <<f, h>>, Places(r, o, n) \union f..(h - 1))
            /\ \A l \in 1..Len(s \o <<f, h>>) : (s \o <<f, h>>)[l] <= h
        BY <2>5, <3>2, PlainMore
      <3> QED BY <2>6, <2>7, <3>1, <3>3
    <2>9. ASSUME NEW m \in 1..G, m = k + 1, NEW l \in 1..Len(u(k)) PROVE u(k)[l] <= v[2 * m - 1]
      <3>1. PICK x : x = o[2 * m - 1]
        OBVIOUS
      <3>2. x \in Nat /\ v[2 * m - 1] = Place(r, x) /\ Place(r, x) \in Nat
        BY <1>4, <3>1
      <3>3. q - 1 \in Upto(o, k) /\ q - 1 < x /\ q - 1 \in Blocks(r)
        <4>1. Upto(o, k) = Upto(o, k - 1) \union p..(q - 1)
          BY <1>1, <2>3
        <4>2. q - 1 \in Upto(o, k)
          BY <2>4, <4>1
        <4>3. m - 1 = k
          BY <2>9
        <4>4. q - 1 < x
          BY <1>1, <3>1, <4>2, <4>3
        <4>5. q - 1 \in Blocks(o)
          BY <1>1, <2>1, <4>2 DEF Upto
        <4> QED BY <4>2, <4>4, <4>5
      <3>4. Place(r, q - 1) < Place(r, x)
        BY <3>2, <3>3, PlaceIs
      <3>5. h <= v[2 * m - 1] /\ v[2 * m - 1] \in Nat
        BY <2>5, <3>2, <3>4
      <3>6. u(k)[l] \in Nat /\ u(k)[l] <= h
        BY <2>8 DEF Plain
      <3> QED BY <2>5, <3>5, <3>6
    <2> QED BY <2>8, <2>9
  <1> HIDE DEF S
  <1>7. Nat \subseteq S
    BY <1>5, <1>6, SetInduction
  <1>8. Plain(u(G), Places(r, o, G))
    BY <1>1, <1>7 DEF S
  <1>9. u(G) = v
    BY <1>3
  <1> QED BY <1>1, <1>8, <1>9 DEF Places, v

(* One boundary of the walk over r and o. *)
LEMMA MappedStep ==
  ASSUME NEW r \in RangeSets, NEW o \in RangeSets, Blocks(o) \subseteq Blocks(r),
         NEW a, a = Boundaries(r, -5, 5), NEW b, b = Boundaries(o, -1, 1),
         NEW w, NEW t, Merges(w, a, b, t), NEW k \in 1..Len(w),
         NEW acc, Mapped(acc, r, o, t[k], (k - 1) - t[k])
  PROVE  Mapped(MapStep(acc, w[k]), r, o, t[k + 1], k - t[k + 1])
  <1>1. r \in Seq(Nat) /\ o \in Seq(Nat) /\ r \in Seq(Int) /\ o \in Seq(Int) /\ Ascends(r) /\ Ascends(o)
    <2>1. r \in Seq(Int) /\ o \in Seq(Int) /\ Normal(r) /\ Normal(o)
      BY DEF RangeSets
    <2> QED BY <2>1, NormalIs DEF RangeSets
  <1>2. /\ a \in Seq(Boundary) /\ Len(a) = Len(r)
        /\ \A i \in 1..Len(r) : a[i][1] = r[i] /\ a[i][2] = IF i % 2 = 1 THEN -5 ELSE 5
    BY <1>1, BoundariesAre
  <1>3. /\ b \in Seq(Boundary) /\ Len(b) = Len(o)
        /\ \A i \in 1..Len(o) : b[i][1] = o[i] /\ b[i][2] = IF i % 2 = 1 THEN -1 ELSE 1
    BY <1>1, BoundariesAre
  <1>4. PICK i, j : i = t[k] /\ j = (k - 1) - t[k]
    OBVIOUS
  <1>5. /\ i \in Nat /\ j \in Nat /\ w[k] \in Boundary
        /\ IF FromA(a, b, k, i) THEN t[k + 1] = i + 1 /\ w[k] = a[i + 1]
                                ELSE t[k + 1] = i /\ w[k] = b[k - i]
    <2>1. k \in 1..(Len(w) + 1) /\ w \in Seq(Boundary)
      BY DEF Merges
    <2>2. t[k] \in 0..Len(a) /\ (k - 1) - t[k] \in 0..Len(b)
      BY <2>1 DEF Merges
    <2>3. i \in Nat /\ j \in Nat /\ w[k] \in Boundary
      BY <1>4, <2>1, <2>2
    <2>4. IF FromA(a, b, k, t[k]) THEN t[k + 1] = t[k] + 1 /\ w[k] = a[t[k] + 1]
                                  ELSE t[k + 1] = t[k] /\ w[k] = b[k - t[k]]
      BY DEF Merges
    <2> QED BY <1>4, <2>3, <2>4
  <1>6. Mapped(acc, r, o, i, j)
    BY <1>4
  <1>7. k \in Nat
    BY DEF Merges
  <1>8. CASE FromA(a, b, k, i)
    <2>1. i + 1 \in 1..Len(r) /\ t[k + 1] = i + 1 /\ w[k] = a[i + 1]
      BY <1>2, <1>5, <1>8 DEF FromA
    <2>2. w[k][1] = r[i + 1] /\ w[k][2] = IF (i + 1) % 2 = 1 THEN -5 ELSE 5
      BY <1>2, <2>1
    <2>3. k - t[k + 1] = j
      BY <1>4, <1>5, <1>7, <2>1
    <2>4. Mapped(MapStep(acc, w[k]), r, o, i + 1, j)
      BY <1>5, <1>6, <2>1, <2>2, MappedOwn
    <2> QED BY <2>1, <2>3, <2>4
  <1>9. CASE ~FromA(a, b, k, i)
    <2>1. ~FromA(a, b, k, t[k])
      BY <1>4, <1>9
    <2>2. /\ k - t[k] \in 1..Len(o) /\ w[k] = b[k - t[k]]
          /\ \E e : t[k] = 2 * e - 1 /\ Holds(r, o, k - t[k], e)
      BY <2>1, MapTurn
    <2>3. k - t[k] = j + 1
      BY <1>4, <1>5, <1>7
    <2>4. PICK e : i = 2 * e - 1 /\ Holds(r, o, j + 1, e)
      BY <1>4, <2>2, <2>3
    <2>5. j + 1 \in 1..Len(o) /\ w[k] = b[j + 1]
      BY <2>2, <2>3
    <2>6. w[k][1] = o[j + 1] /\ w[k][2] \in Steps
      BY <1>3, <2>5 DEF Steps
    <2>7. Mapped(MapStep(acc, w[k]), r, o, i, j + 1)
      BY <1>1, <1>5, <1>6, <2>4, <2>6, MappedOther
    <2>8. t[k + 1] = i /\ k - t[k + 1] = j + 1
      BY <1>4, <1>5, <1>9, <2>3
    <2> QED BY <2>7, <2>8
  <1> QED BY <1>8, <1>9

(* MapWithin numbers the blocks of o by their places in r. *)
LEMMA MapWithinIs ==
  ASSUME NEW r \in RangeSets, NEW o \in RangeSets, Blocks(o) \subseteq Blocks(r)
  PROVE  /\ MapWithin(r, o) \in RangeSets
         /\ Blocks(MapWithin(r, o)) = {Place(r, x) : x \in Blocks(o)}
  <1>1. PICK a, b, w : a = Boundaries(r, -5, 5) /\ b = Boundaries(o, -1, 1) /\ w = Walk(a, b)
    OBVIOUS
  <1>2. r \in Seq(Int) /\ o \in Seq(Int) /\ Ascends(r) /\ Ascends(o)
    <2>1. r \in Seq(Int) /\ o \in Seq(Int) /\ Normal(r) /\ Normal(o)
      BY DEF RangeSets
    <2> QED BY <2>1, NormalIs
  <1>3. a \in Seq(Boundary) /\ b \in Seq(Boundary) /\ Len(a) = Len(r) /\ Len(b) = Len(o)
    BY <1>1, <1>2, BoundariesAre
  <1>4. PICK t : Merges(w, a, b, t)
    BY <1>1, <1>3, WalkMerges
  <1>5. w \in Seq(Boundary) /\ Len(w) = Len(r) + Len(o) /\ Len(w) \in Nat /\ t[1] = 0
    BY <1>2, <1>3, <1>4 DEF Merges
  <1>6. PICK g : Maps(g, w) /\ MapWithin(r, o) = RemovePairs(g[Len(w) + 1].out)
    BY <1>1, <1>5, MapSteps
  <1> DEFINE S == {n \in Nat : n <= Len(w) => Mapped(g[n + 1], r, o, t[n + 1], n - t[n + 1])}
  <1>7. 0 \in S
    <2>1. Upto(r, 0) = {} /\ 0 \div 2 = 0 /\ Cardinality({}) = 0
      BY UptoSteps, FS_EmptySet
    <2>2. g[1] = [offset |-> 0, start |-> 0, out |-> <<>>] /\ g[1] \in MapState
      BY <1>5, <1>6 DEF Maps
    <2>3. Mapped(g[1], r, o, 0, 0)
      <3>1. PICK acc : acc = g[1]
        OBVIOUS
      <3>2. acc \in MapState /\ acc.offset = 0 /\ acc.out = <<>> /\ Len(acc.out) = 0
        BY <2>2, <3>1
      <3>3. Upto(r, 0 \div 2) = {} /\ ~(0 % 2 = 1) /\ \A l \in 1..0 : FALSE
        BY <2>1
      <3>4. Cardinality(Upto(r, 0 \div 2)) = 0
        BY <2>1, <3>3
      <3>5. Mapped(acc, r, o, 0, 0)
        BY <3>2, <3>3, <3>4 DEF Mapped
      <3> QED BY <3>1, <3>5
    <2> QED BY <1>5, <2>3
  <1>8. ASSUME NEW n \in Nat, n \in S PROVE n + 1 \in S
    <2>1. SUFFICES ASSUME NEW k \in 1..Len(w), k = n + 1
                   PROVE  Mapped(g[k + 1], r, o, t[k + 1], k - t[k + 1])
      BY <1>5
    <2>2. Mapped(g[k], r, o, t[k], (k - 1) - t[k])
      BY <1>5, <1>8, <2>1
    <2>3. Mapped(MapStep(g[k], w[k]), r, o, t[k + 1], k - t[k + 1])
      BY <1>1, <1>4, <2>2, MappedStep
    <2>4. g[k + 1] = MapStep(g[k], w[k])
      BY <1>6 DEF Maps
    <2> QED BY <2>3, <2>4
  <1>9. Nat \subseteq S
    BY <1>7, <1>8, SetInduction
  <1>10. PICK N, acc : N = Len(w) /\ acc = g[N + 1]
    OBVIOUS
  <1>11. Mapped(acc, r, o, t[N + 1], N - t[N + 1])
    BY <1>5, <1>9, <1>10
  <1>12. t[N + 1] = Len(r) /\ N - t[N + 1] = Len(o)
    <2>1. N + 1 \in 1..(Len(w) + 1) /\ Len(r) \in Nat /\ Len(o) \in Nat
      BY <1>2, <1>5, <1>10
    <2>2. t[N + 1] \in 0..Len(a) /\ ((N + 1) - 1) - t[N + 1] \in 0..Len(b)
      BY <1>4, <2>1 DEF Merges
    <2> QED BY <1>3, <1>5, <1>10, <2>1, <2>2
  <1>13. Plain(acc.out, {Place(r, x) : x \in Blocks(o)})
    BY <1>11, <1>12, MappedPlain
  <1> QED BY <1>6, <1>10, <1>13, PlainRemoved

(* The theorem of this module: on range sets in normal form, of any        *)
(* length, every operation of rangelib.RangeSet that the block diff and    *)
(* the sparse image use gives the set of blocks it is named for, in normal *)
(* form again: union, intersect, subtract, extend, first, map_within, and  *)
(* the set made of single blocks; size counts them, and overlaps says      *)
(* whether two sets have one in common.                                    *)
THEOREM RangeSetOperations ==
  ASSUME NEW a \in RangeSets, NEW b \in RangeSets, NEW n \in Nat
  PROVE  OperationsAgree(a, b, n)
  <1> DEFINE A == Blocks(a)
             B == Blocks(b)
  <1>2. A \subseteq Nat /\ IsFiniteSet(A)
    <2>1. a \in Seq(Nat)
      BY DEF RangeSets
    <2> QED BY <2>1, BlocksAreNumbers, SizeIs
  <1>3. Union(a, b) \in RangeSets /\ Blocks(Union(a, b)) = A \union B
    BY UnionIs
  <1>4. Intersect(a, b) \in RangeSets /\ Blocks(Intersect(a, b)) = A \intersect B
    BY IntersectIs
  <1>5. Subtract(a, b) \in RangeSets /\ Blocks(Subtract(a, b)) = A \ B
    BY SubtractIs
  <1>6. /\ Extend(a, n) \in RangeSets
        /\ Blocks(Extend(a, n)) = (UNION {(x - n)..(x + n) : x \in A}) \intersect Nat
    BY ExtendIs
  <1>7. /\ First(a, n) \in RangeSets
        /\ Blocks(First(a, n)) = {x \in A : Cardinality({y \in A : y < x}) < n}
    <2>1. /\ First(a, n) \in RangeSets
          /\ Blocks(First(a, n)) = {x \in Blocks(a) : Cardinality(Below(Blocks(a), x)) < n}
      BY FirstIs
    <2> QED BY <2>1 DEF Below
  <1>8. OfBlocks(Ascending(A)) \in RangeSets /\ Blocks(OfBlocks(Ascending(A))) = A
    <2>1. Ascending(A) \in Seq(Nat) /\ Ascends(Ascending(A)) /\ ToSet(Ascending(A)) = A
      BY <1>2, AscendingIs
    <2> QED BY <2>1, OfBlocksIs
  <1>9. ASSUME B \subseteq A
        PROVE  /\ MapWithin(a, b) \in RangeSets
               /\ Blocks(MapWithin(a, b)) = {Cardinality({y \in A : y < x}) : x \in B}
    <2>1. /\ MapWithin(a, b) \in RangeSets
          /\ Blocks(MapWithin(a, b)) = {Place(a, x) : x \in Blocks(b)}
      BY <1>9, MapWithinIs
    <2> QED BY <2>1 DEF Place, Below
  <1>10. Size(a) = Cardinality(A) /\ (Overlaps(a, b) <=> A \intersect B # {})
    BY SizeIs, OverlapsIs
  <1> DEFINE Agree(r) == Normal(r[1]) /\ Blocks(r[1]) = r[2]
             always == {<<Union(a, b), A \union B>>, <<Intersect(a, b), A \intersect B>>,
                        <<Subtract(a, b), A \ B>>,
                        <<Extend(a, n), (UNION {(x - n)..(x + n) : x \in A}) \intersect Nat>>,
                        <<First(a, n), {x \in A : Cardinality({y \in A : y < x}) < n}>>,
                        <<OfBlocks(Ascending(A)), A>>}
             within == <<MapWithin(a, b), {Cardinality({y \in A : y < x}) : x \in B}>>
  <1>11. \A r \in RangeSets : Normal(r)
    BY DEF RangeSets
  <1>12. ASSUME NEW r, NEW s, r \in RangeSets, Blocks(r) = s PROVE Agree(<<r, s>>)
    <2>1. Normal(r)
      BY <1>11, <1>12
    <2>2. <<r, s>>[1] = r /\ <<r, s>>[2] = s
      OBVIOUS
    <2> QED BY <1>12, <2>1, <2>2
  <1> HIDE DEF Agree
  <1>13. \A r \in always : Agree(r)
    <2>1. Agree(<<Union(a, b), A \union B>>)
      BY <1>3, <1>12
    <2>2. Agree(<<Intersect(a, b), A \intersect B>>)
      BY <1>4, <1>12
    <2>3. Agree(<<Subtract(a, b), A \ B>>)
      BY <1>5, <1>12
    <2>4. Agree(<<Extend(a, n), (UNION {(x - n)..(x + n) : x \in A}) \intersect Nat>>)
      BY <1>6, <1>12
    <2>5. Agree(<<First(a, n), {x \in A : Cardinality({y \in A : y < x}) < n}>>)
      BY <1>7, <1>12
    <2>6. Agree(<<OfBlocks(Ascending(A)), A>>)
      BY <1>8, <1>12
    <2> QED BY <2>1, <2>2, <2>3, <2>4, <2>5, <2>6, Zenon DEF always
  <1>14. B \subseteq A => Agree(within)
    BY <1>9, <1>12, Zenon
  <1>15. \A r \in always \union (IF B \subseteq A THEN {within} ELSE {}) : Agree(r)
    <2> HIDE DEF always, within
    <2> QED BY <1>13, <1>14
  <1>16. /\ \A r \in always \union (IF B \subseteq A THEN {within} ELSE {}) :
                Normal(r[1]) /\ Blocks(r[1]) = r[2]
         /\ Size(a) = Cardinality(A)
         /\ Overlaps(a, b) <=> A \intersect B # {}
    BY <1>10, <1>15, Zenon DEF Agree
  <1> QED BY <1>16, Zenon DEF OperationsAgree, always, within
===============================================================================
