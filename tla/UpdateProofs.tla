----------------------------- MODULE UpdateProofs -----------------------------
(***************************************************************************)
(* What a build's conversion and its update do, for every image: the       *)
(* conversion fails only on an incomplete block; the list names the        *)
(* transfers, new.dat has their data, and the device, however often it is  *)
(* interrupted, refuses no command, stashes nothing, and ends with the     *)
(* blocks of the image.  The conversion begins with the scripts' own       *)
(* img2simg, which a build falls back to; what a native one writes is not  *)
(* modelled, and the theorems do not speak of it.                          *)
(*                                                                         *)
(* The invariant BuildKept follows the data: the files of the block map    *)
(* and the transfers hold their part of the image (DiffKept), the list has *)
(* the commands of all transfers and the data they take (ListKept), and    *)
(* the device has carried out those before the current one (DeviceKept).   *)
(* That nothing fails on the way takes more: the files and the transfers   *)
(* divide the image, the sequence has each transfer once, and the copy of  *)
(* block 0 is among them (FailKept).                                       *)
(* BuildTypeOK is the types of all this (BuildTyped for what the other     *)
(* invariants do not name).                                                *)
(***************************************************************************)
EXTENDS DeliveryProofs

-------------------------------------------------------------------------------
(* The data of a range set.                                                *)

(* v is what img has in the blocks of r, in their order. *)
ContentIs(v, r, img) ==
    /\ v \in Seq(Contents) /\ Len(v) = Size(r)
    /\ \A x \in Blocks(r) : v[Rank(Blocks(r), x)] = img[x]

(* v is what img has in the first k ranges of r. *)
ReadUpto(v, k, r, img) ==
    /\ v \in Seq(Contents) /\ Len(v) = Cardinality(Upto(r, k))
    /\ \A i \in 1..k, x \in Int :
          r[2 * i - 1] <= x /\ x < r[2 * i] =>
            v[Cardinality(Upto(r, i - 1)) + (x - r[2 * i - 1]) + 1] = img[x]

(* Where a block of range i is in what the ranges up to i hold. *)
LEMMA PlaceUpto ==
  ASSUME NEW r \in RangeSets, NEW k \in 1..(Len(r) \div 2), NEW i \in 1..k, NEW x \in Int,
         r[2 * i - 1] <= x, x < r[2 * i]
  PROVE  LET p == Cardinality(Upto(r, i - 1)) + (x - r[2 * i - 1]) + 1
         IN  /\ p \in 1..Cardinality(Upto(r, i))
             /\ i < k => p \in 1..Cardinality(Upto(r, k - 1))
  <1>1. PICK H : H = Len(r) \div 2 /\ H \in Nat
    BY UptoSteps
  <1>2. PICK f : f = [j \in 0..H |-> Cardinality(Upto(r, j))]
    OBVIOUS
  <1>3. \A j \in 1..H : /\ r[2 * j - 1] \in Nat /\ r[2 * j] \in Nat /\ r[2 * j - 1] < r[2 * j]
    BY <1>1, UptoSteps
  <1>4. \A j \in 0..H : f[j] \in Nat /\ f[j] = Cardinality(Upto(r, j))
    BY <1>1, <1>2, UptoSize
  <1>5. \A j \in 1..H : f[j] = f[j - 1] + r[2 * j] - r[2 * j - 1]
    <2>1. \A j \in 1..H : Cardinality(Upto(r, j)) = Cardinality(Upto(r, j - 1)) + r[2 * j] - r[2 * j - 1]
      BY <1>1, UptoSize
    <2>2. \A j \in 1..H : j \in 0..H /\ j - 1 \in 0..H
      BY <1>1
    <2> QED BY <1>4, <2>1, <2>2
  <1> DEFINE S == {m \in Nat : i + m <= H => f[i] <= f[i + m]}
  <1>6. 0 \in S
    <2>1. i \in 0..H /\ i + 0 = i
      BY <1>1
    <2> QED BY <1>4, <2>1
  <1>7. ASSUME NEW m \in Nat, m \in S PROVE m + 1 \in S
    <2>1. SUFFICES ASSUME i + (m + 1) <= H PROVE f[i] <= f[i + (m + 1)]
      OBVIOUS
    <2>2. PICK j : j = i + m /\ j + 1 = i + (m + 1) /\ j \in 0..H /\ j + 1 \in 1..H /\ j + 1 \in 0..H /\ i \in 0..H /\ (j + 1) - 1 = j
      BY <1>1, <2>1
    <2>3. f[i] <= f[j]
      BY <1>7, <2>1, <2>2
    <2>4. f[j + 1] = f[j] + r[2 * (j + 1)] - r[2 * (j + 1) - 1] /\ r[2 * (j + 1)] \in Nat
          /\ r[2 * (j + 1) - 1] \in Nat /\ r[2 * (j + 1) - 1] < r[2 * (j + 1)]
      BY <1>3, <1>5, <2>2
    <2>5. f[i] \in Nat /\ f[j] \in Nat
      BY <1>4, <2>2
    <2>6. f[i] <= f[j + 1]
      BY <2>3, <2>4, <2>5
    <2> QED BY <2>2, <2>6
  <1> HIDE DEF S
  <1>8. Nat \subseteq S
    BY <1>6, <1>7, SetInduction
  <1>9. PICK a, e : a = r[2 * i - 1] /\ e = r[2 * i] /\ a \in Nat /\ e \in Nat /\ a < e
    <2>1. i \in 1..H
      BY <1>1
    <2> QED BY <1>3, <2>1
  <1>10. PICK u, v : u = f[i - 1] /\ v = f[i] /\ u \in Nat /\ v \in Nat /\ v = u + e - a
                     /\ u = Cardinality(Upto(r, i - 1)) /\ v = Cardinality(Upto(r, i))
    <2>1. i \in 1..H /\ i \in 0..H /\ i - 1 \in 0..H
      BY <1>1
    <2> QED BY <1>4, <1>5, <1>9, <2>1
  <1>11. a <= x /\ x < e
    BY <1>9
  <1>12. u + (x - a) + 1 \in 1..v
    <2>1. u \in Nat /\ v \in Nat /\ v = u + e - a
      BY <1>10
    <2>2. a \in Nat /\ e \in Nat /\ x \in Int /\ a <= x /\ x < e
      BY <1>9, <1>11
    <2> QED BY ONLY <2>1, <2>2
  <1>13. ASSUME i < k PROVE v <= Cardinality(Upto(r, k - 1))
    <2>1. PICK m \in Nat : i + m = k - 1 /\ i + m <= H /\ k - 1 \in 0..H
      <3>1. k - 1 - i \in Nat /\ i + (k - 1 - i) = k - 1 /\ k - 1 <= H /\ k - 1 \in 0..H
        BY <1>1, <1>13
      <3> QED BY <3>1
    <2>2. f[i] <= f[i + m]
      BY <1>8, <2>1 DEF S
    <2> QED BY <1>4, <1>10, <2>1, <2>2
  <1>14. i < k => Cardinality(Upto(r, k - 1)) \in Nat
    <2>1. k - 1 \in 0..H
      BY <1>1
    <2> QED BY <1>4, <2>1
  <1>15. i < k => u + (x - a) + 1 \in 1..Cardinality(Upto(r, k - 1))
    BY <1>10, <1>12, <1>13, <1>14
  <1> QED BY <1>9, <1>10, <1>12, <1>15

LEMMA ReadUptoMore ==
  ASSUME NEW img, NEW r \in RangeSets, NEW k \in 1..(Len(r) \div 2), NEW v, ReadUpto(v, k - 1, r, img),
         NEW part \in Seq(Contents), Len(part) = r[2 * k] - r[2 * k - 1],
         \A j \in 1..Len(part) : part[j] = img[r[2 * k - 1] + j - 1]
  PROVE  ReadUpto(v \o part, k, r, img)
  <1>1. PICK a, e : a = r[2 * k - 1] /\ e = r[2 * k] /\ a \in Nat /\ e \in Nat /\ a < e
    BY UptoSteps
  <1>2. PICK n, m : n = Len(v) /\ m = Len(part) /\ n \in Nat /\ m \in Nat /\ m = e - a
    BY <1>1 DEF ReadUpto
  <1>3. n = Cardinality(Upto(r, k - 1)) /\ v \in Seq(Contents)
    BY <1>2 DEF ReadUpto
  <1>4. PICK all : all = v \o part
    OBVIOUS
  <1>5. /\ all \in Seq(Contents) /\ Len(all) = n + m
        /\ \A p \in 1..n : all[p] = v[p]
        /\ \A p \in 1..m : all[n + p] = part[p]
    <2>1. n = Len(v) /\ m = Len(part) /\ v \in Seq(Contents) /\ part \in Seq(Contents)
      BY <1>2, <1>3
    <2> QED BY ONLY <1>4, <2>1, Concatenated
  <1>6. Cardinality(Upto(r, k)) = n + m
    <2>1. Cardinality(Upto(r, k)) = Cardinality(Upto(r, k - 1)) + r[2 * k] - r[2 * k - 1]
      BY UptoSize
    <2>2. Cardinality(Upto(r, k)) = n + e - a
      BY <1>1, <1>3, <2>1
    <2> QED BY <1>1, <1>2, <2>2
  <1>7. ASSUME NEW i \in 1..k, NEW x \in Int, r[2 * i - 1] <= x, x < r[2 * i]
        PROVE  all[Cardinality(Upto(r, i - 1)) + (x - r[2 * i - 1]) + 1] = img[x]
    <2>1. CASE i < k
      <3>1. PICK p : p = Cardinality(Upto(r, i - 1)) + (x - r[2 * i - 1]) + 1
        OBVIOUS
      <3>2. p \in 1..n
        BY <1>3, <1>7, <2>1, <3>1, PlaceUpto
      <3>3. v[p] = img[x]
        <4>1. i \in 1..(k - 1)
          BY <2>1
        <4> QED BY <1>7, <3>1, <4>1 DEF ReadUpto
      <3> QED BY <1>5, <3>1, <3>2, <3>3
    <2>2. CASE i = k
      <3>1. a <= x /\ x < e /\ x \in Int
        BY <1>1, <1>7, <2>2
      <3>2. PICK j : j = x - a + 1 /\ j \in 1..m /\ a + j - 1 = x /\ n + (x - a) + 1 = n + j
        <4>1. x - a + 1 \in 1..m /\ a + (x - a + 1) - 1 = x /\ n + (x - a) + 1 = n + (x - a + 1)
          <5>1. a \in Int /\ e \in Int /\ n \in Int /\ m = e - a
            BY <1>1, <1>2
          <5> QED BY ONLY <3>1, <5>1
        <4> QED BY ONLY <4>1
      <3>3. all[n + j] = img[x]
        BY <1>1, <1>2, <1>5, <3>2
      <3> QED BY <1>1, <1>3, <2>2, <3>2, <3>3
    <2> QED BY <2>1, <2>2
  <1> QED BY <1>4, <1>5, <1>6, <1>7 DEF ReadUpto

LEMMA UptoIsContent ==
  ASSUME NEW img, NEW r \in RangeSets, NEW v, ReadUpto(v, Len(r) \div 2, r, img)
  PROVE  ContentIs(v, r, img)
  <1>1. PICK H : H = Len(r) \div 2 /\ H \in Nat /\ Upto(r, H) = Blocks(r)
    BY UptoSteps
  <1>2. v \in Seq(Contents) /\ Len(v) = Size(r)
    BY <1>1, SizeIs DEF ReadUpto
  <1>3. ASSUME NEW x \in Blocks(r) PROVE v[Rank(Blocks(r), x)] = img[x]
    <2>1. r \in Seq(Int)
      BY BlocksAreNumbers DEF RangeSets
    <2>2. PICK i \in 1..H : r[2 * i - 1] <= x /\ x < r[2 * i] /\ x \in Int
      BY <1>1, <2>1, BlocksAre
    <2>3. Cardinality(Below(Blocks(r), x)) = Cardinality(Upto(r, i - 1)) + x - r[2 * i - 1]
      BY <1>1, <2>2, RankIn
    <2>4. PICK u, a : u = Cardinality(Upto(r, i - 1)) /\ a = r[2 * i - 1] /\ u \in Nat /\ a \in Nat
      <3>1. i - 1 \in 0..H
        BY <1>1
      <3> QED BY <1>1, <3>1, UptoSteps, UptoSize
    <2>5. Rank(Blocks(r), x) = Cardinality(Below(Blocks(r), x)) + 1
      BY DEF Rank, Below
    <2>6. Rank(Blocks(r), x) = u + (x - a) + 1
      BY <2>2, <2>3, <2>4, <2>5
    <2>7. v[u + (x - a) + 1] = img[x]
      BY <1>1, <2>2, <2>4 DEF ReadUpto
    <2> QED BY <2>6, <2>7
  <1> QED BY <1>2, <1>3 DEF ContentIs

(* What is read of blocks that all have data. *)
LEMMA ReadContentIs ==
  ASSUME NEW img \in Images, NEW total \in Nat, NEW file, NEW image, ImageIs(image, file, img, total),
         NEW r \in RangeSets, Blocks(r) \subseteq WithData(img, total)
  PROVE  ContentIs(ReadContent(image, r), r, img)
  <1>1. PICK H : H = Len(r) \div 2 /\ H \in Nat
    BY UptoSteps
  <1>2. PICK X : X = [i \in 1..H |-> ReadRange(image, r[2 * i - 1], r[2 * i])]
    OBVIOUS
  <1>3. ReadRangeSet(image, r) = FlattenSeq(X)
    <2>1. PICK pairs : pairs = Pairs(r)
      OBVIOUS
    <2>2. DOMAIN pairs = 1..H /\ \A i \in 1..H : pairs[i][1] = r[2 * i - 1] /\ pairs[i][2] = r[2 * i]
      BY <1>1, <2>1 DEF Pairs
    <2>3. [i \in DOMAIN pairs |-> ReadRange(image, pairs[i][1], pairs[i][2])] = X
      BY <1>2, <2>2
    <2> QED BY <2>1, <2>3 DEF ReadRangeSet
  <1>4. ASSUME NEW i \in 1..H PROVE HasRead(X[i], r[2 * i] - r[2 * i - 1], r[2 * i - 1], img)
    <2>1. PICK a, e : a = r[2 * i - 1] /\ e = r[2 * i] /\ a \in Nat /\ e \in Nat /\ a < e
      BY <1>1, UptoSteps
    <2>2. \A b \in a..(e - 1) : b \in WithData(img, total)
      <3>1. r \in Seq(Int)
        BY BlocksAreNumbers DEF RangeSets
      <3>2. \A b \in a..(e - 1) : b \in Int /\ a <= b /\ b < e
        BY <2>1
      <3>3. \A b \in a..(e - 1) : b \in Blocks(r)
        BY <1>1, <2>1, <3>1, <3>2, BlocksAre
      <3> QED BY <3>3
    <2>3. \A b \in a..(e - 1) : img[b] # None /\ b \in 0..(total - 1)
      BY <2>2 DEF WithData
    <2>4. e <= total
      <3>1. e - 1 \in a..(e - 1)
        BY <2>1
      <3>2. e - 1 \in 0..(total - 1)
        BY <2>3, <3>1
      <3> QED BY <2>1, <3>2
    <2>5. HasRead(ReadRange(image, a, e), e - a, a, img)
      BY <2>1, <2>3, <2>4, ReadRangeIs
    <2> QED BY <1>2, <2>1, <2>5
  <1>5. X \in Seq(Seq(Seq(Contents))) /\ Len(X) = H
    <2>1. \A i \in 1..H : X[i] \in Seq(Seq(Contents))
      BY <1>4 DEF HasRead
    <2>2. PICK Y : Y = Seq(Seq(Contents))
      OBVIOUS
    <2>3. X \in [1..H -> Y]
      BY <1>2, <2>1, <2>2
    <2>4. X \in Seq(Y) /\ Len(X) = H
      BY ONLY <2>3, <1>1
    <2> QED BY <2>2, <2>4
  <1>6. PICK g \in [1..(H + 1) -> Seq(Seq(Contents))] :
           Flattens(g, X) /\ FlattenSeq(X) = g[H + 1]
    <2>1. PICK E : E = Seq(Contents)
      OBVIOUS
    <2>2. X \in Seq(Seq(E))
      BY <1>5, <2>1
    <2>3. \E g \in [1..(Len(X) + 1) -> Seq(E)] : Flattens(g, X) /\ FlattenSeq(X) = g[Len(X) + 1]
      BY ONLY <2>2, FlattenSteps
    <2> QED BY <1>5, <2>1, <2>3
  <1>7. g[1] = <<>> /\ \A k \in 1..H : g[k + 1] = g[k] \o X[k]
    BY <1>5, <1>6 DEF Flattens
  <1> DEFINE S == {k \in Nat : k <= H => ReadUpto(FlattenSeq(g[k + 1]), k, r, img)}
  <1>8. 0 \in S
    <2>1. FlattenSeq(g[0 + 1]) = <<>>
      BY <1>7, FlattenNone
    <2>2. Cardinality(Upto(r, 0)) = 0
      BY UptoSize
    <2>3. <<>> \in Seq(Contents) /\ Len(<<>>) = 0 /\ 1..0 = {}
      OBVIOUS
    <2> QED BY <2>1, <2>2, <2>3 DEF ReadUpto
  <1>9. ASSUME NEW k \in Nat, k \in S PROVE k + 1 \in S
    <2>1. SUFFICES ASSUME k + 1 <= H PROVE ReadUpto(FlattenSeq(g[(k + 1) + 1]), k + 1, r, img)
      OBVIOUS
    <2>2. k + 1 \in 1..H /\ (k + 1) - 1 = k /\ k <= H /\ k + 1 \in 1..(H + 1)
      BY <1>1, <2>1
    <2>3. PICK j : j = k + 1 /\ j \in 1..H /\ j - 1 = k
      BY <2>2
    <2>4. PICK v : v = FlattenSeq(g[j]) /\ ReadUpto(v, j - 1, r, img)
      BY <1>9, <2>2, <2>3
    <2>5. PICK part : part = FlattenSeq(X[j])
      OBVIOUS
    <2>6. /\ part \in Seq(Contents) /\ Len(part) = r[2 * j] - r[2 * j - 1]
          /\ \A i \in 1..Len(part) : part[i] = img[r[2 * j - 1] + i - 1]
      <3>1. HasRead(X[j], r[2 * j] - r[2 * j - 1], r[2 * j - 1], img)
        BY <1>4, <2>3
      <3> QED BY <2>5, <3>1 DEF HasRead
    <2>7. FlattenSeq(g[j + 1]) = v \o part
      <3>1. g[j] \in Seq(Seq(Contents))
        BY <1>6, <2>2, <2>3
      <3>2. X[j] \in Seq(Seq(Contents))
        BY <1>4, <2>3 DEF HasRead
      <3>3. g[j + 1] = g[j] \o X[j]
        BY <1>7, <2>3
      <3>4. FlattenSeq(g[j] \o X[j]) = FlattenSeq(g[j]) \o FlattenSeq(X[j])
        BY ONLY <3>1, <3>2, FlattenJoined
      <3> QED BY <2>4, <2>5, <3>3, <3>4
    <2>8. j \in 1..(Len(r) \div 2)
      BY <1>1, <2>3
    <2>9. ReadUpto(v \o part, j, r, img)
      BY <2>4, <2>6, <2>8, ReadUptoMore
    <2> QED BY <2>3, <2>7, <2>9
  <1> HIDE DEF S
  <1>10. H \in S
    BY <1>1, <1>8, <1>9, SetInduction
  <1>11. ReadUpto(FlattenSeq(g[H + 1]), H, r, img)
    BY <1>1, <1>10 DEF S
  <1>12. ReadContent(image, r) = FlattenSeq(g[H + 1])
    BY <1>3, <1>6 DEF ReadContent
  <1> QED BY <1>1, <1>11, <1>12, UptoIsContent

-------------------------------------------------------------------------------
(* The files an image is divided into when there is no block map.          *)

(* The blocks of an entry are data, and zeros if its name says so.         *)
Filled(entry, img, total) ==
    /\ entry.ranges \in RangeSets /\ Blocks(entry.ranges) \subseteq WithData(img, total)
    /\ entry.name = Special("__ZERO") => \A b \in Blocks(entry.ranges) : img[b] = Zero

FilledAll(fs, img, total) ==
    \E E : fs \in Seq(E) /\ \A entry \in E : Filled(entry, img, total)

(* A group of an ascending sequence: the blocks at its positions.          *)
LEMMA GroupIs ==
  ASSUME NEW blocks \in Seq(Nat), Ascends(blocks)
  PROVE  \E B \in Nat \ {0}, n \in Nat :
            /\ n = (Len(blocks) + B - 1) \div B /\ DOMAIN GroupsOf(blocks) = 1..n
            /\ \A g \in 1..n :
                  /\ GroupsOf(blocks)[g] \in RangeSets
                  /\ Blocks(GroupsOf(blocks)[g])
                       = {blocks[i] : i \in {k \in 1..Len(blocks) : (g - 1) * B + 1 <= k /\ k <= g * B}}
  <1>1. PICK B : B = GroupBlocks /\ B \in Nat \ {0}
    <2>1. GroupBoundaries \in Nat \ {0}
      BY GroupAssumption
    <2>2. (GroupBoundaries + 1) \div 2 \in Nat \ {0}
      BY <2>1
    <2> QED BY <2>2 DEF GroupBlocks
  <1>2. PICK N : N = Len(blocks) /\ N \in Nat
    OBVIOUS
  <1>3. PICK n : n = (N + B - 1) \div B /\ n \in Nat
    <2>1. \A a \in Nat, b \in Nat \ {0} : a \div b \in Nat
      OBVIOUS
    <2>2. N + B - 1 \in Nat
      BY <1>1, <1>2
    <2> QED BY <1>1, <2>1, <2>2
  <1>4. DOMAIN GroupsOf(blocks) = 1..n
    BY <1>1, <1>2, <1>3 DEF GroupsOf
  <1>5. ASSUME NEW g \in 1..n
        PROVE  /\ GroupsOf(blocks)[g] \in RangeSets
               /\ Blocks(GroupsOf(blocks)[g]) = {blocks[i] : i \in {k \in 1..N : (g - 1) * B + 1 <= k /\ k <= g * B}}
    <2>0. \A a \in Nat, b \in Nat : a * b \in Nat
      OBVIOUS
    <2>1. PICK lo : lo = (g - 1) * B + 1 /\ lo \in Nat /\ lo >= 1
      <3>2. g - 1 \in Nat /\ B \in Nat
        BY <1>1
      <3>3. (g - 1) * B \in Nat
        BY <2>0, <3>2
      <3> QED BY <3>3
    <2>2. PICK hi : hi = Min({g * B, N}) /\ hi \in Int /\ hi = (IF g * B <= N THEN g * B ELSE N)
      <3>2. g \in Nat /\ B \in Nat
        BY <1>1
      <3>3. g * B \in Nat
        BY <2>0, <3>2
      <3>4. Min({g * B, N}) = IF g * B <= N THEN g * B ELSE N
        BY <1>2, <3>3, MinTwo
      <3> QED BY <1>2, <3>3, <3>4
    <2>22. g * B \in Nat /\ hi <= N
      <3>2. g \in Nat /\ B \in Nat
        BY <1>1
      <3> QED BY <1>2, <2>0, <2>2, <3>2
    <2>3. PICK part : part = SubSeq(blocks, lo, hi)
      OBVIOUS
    <2>4. \A i \in lo..hi : i \in 1..N /\ blocks[i] \in Nat
      BY <1>2, <2>1, <2>22, <2>2
    <2>5. /\ part \in Seq(Nat) /\ Len(part) = IF lo <= hi THEN hi - lo + 1 ELSE 0
          /\ \A i \in 1..(hi - lo + 1) : part[i] = blocks[lo + i - 1]
      <3>1. lo \in Int /\ hi \in Int
        BY <2>1, <2>2
      <3>3. \A i \in lo..hi : blocks[i] \in Nat
        BY ONLY <2>4
      <3>2. /\ SubSeq(blocks, lo, hi) \in Seq(Nat)
            /\ Len(SubSeq(blocks, lo, hi)) = IF lo <= hi THEN hi - lo + 1 ELSE 0
            /\ \A i \in 1..(hi - lo + 1) : SubSeq(blocks, lo, hi)[i] = blocks[lo + i - 1]
        BY ONLY <3>1, <3>3, SubSeqProperties
      <3> QED BY <2>3, <3>2
    <2>6. \A i \in 1..Len(part) : part[i] = blocks[lo + i - 1] /\ lo + i - 1 \in lo..hi /\ lo + i - 1 \in 1..N
      <3>1. \A i \in 1..Len(part) : i \in 1..(hi - lo + 1) /\ lo + i - 1 \in lo..hi
        BY ONLY <2>1, <2>2, <2>5
      <3> QED BY ONLY <2>4, <2>5, <3>1
    <2>7. Ascends(part)
      <3>1. \A i, j \in 1..N : i < j => blocks[i] < blocks[j]
        BY <1>2 DEF Ascends
      <3>2. \A i, j \in 1..Len(part) : i < j => lo + i - 1 < lo + j - 1
        BY <2>1
      <3> QED BY <2>6, <3>1, <3>2 DEF Ascends
    <2>8. ToSet(part) = {blocks[i] : i \in {k \in 1..N : lo <= k /\ k <= g * B}}
      <3>1. \A x : x \in ToSet(part) <=> \E i \in 1..Len(part) : x = part[i]
        BY ONLY <2>5 DEF ToSet
      <3>2. \A k \in 1..N : k <= hi <=> k <= g * B
        BY ONLY <1>2, <2>2, <2>22
      <3>3. \A k \in 1..N : lo <= k /\ k <= g * B => k - lo + 1 \in 1..Len(part) /\ part[k - lo + 1] = blocks[k]
        <4>1. SUFFICES ASSUME NEW k \in 1..N, lo <= k, k <= g * B
                       PROVE  k - lo + 1 \in 1..Len(part) /\ part[k - lo + 1] = blocks[k]
          OBVIOUS
        <4>2. k <= hi /\ k - lo + 1 \in 1..(hi - lo + 1) /\ lo + (k - lo + 1) - 1 = k
          BY ONLY <1>2, <2>1, <2>2, <3>2, <4>1
        <4>4. lo <= hi
          BY ONLY <1>2, <2>1, <2>2, <4>1, <4>2
        <4>3. Len(part) = hi - lo + 1
          BY ONLY <2>5, <4>4
        <4> QED BY ONLY <2>5, <4>2, <4>3
      <3>4. \A x : x \in ToSet(part) => \E k \in 1..N : lo <= k /\ k <= g * B /\ x = blocks[k]
        <4>1. \A i \in 1..Len(part) : lo + i - 1 \in 1..N /\ lo <= lo + i - 1 /\ lo + i - 1 <= hi
          <5>1. \A x \in lo..hi : lo <= x /\ x <= hi
            OBVIOUS
          <5> QED BY ONLY <2>6, <5>1
        <4> QED BY ONLY <2>6, <3>1, <3>2, <4>1
      <3> QED BY ONLY <3>1, <3>3, <3>4
    <2>9. GroupsOf(blocks)[g] = OfBlocks(part)
      BY <1>1, <1>2, <1>3, <2>1, <2>2, <2>3 DEF GroupsOf
    <2> QED BY <2>1, <2>5, <2>7, <2>8, <2>9, OfBlocksIs
  <1> QED BY <1>1, <1>2, <1>3, <1>4, <1>5

(* The groups of an ascending sequence of blocks. *)
LEMMA GroupsAre ==
  ASSUME NEW blocks \in Seq(Nat), Ascends(blocks)
  PROVE  /\ \E n \in Nat : DOMAIN GroupsOf(blocks) = 1..n
         /\ \A g \in DOMAIN GroupsOf(blocks) :
               GroupsOf(blocks)[g] \in RangeSets /\ Blocks(GroupsOf(blocks)[g]) \subseteq ToSet(blocks)
  <1>1. PICK B \in Nat \ {0}, n \in Nat :
           /\ DOMAIN GroupsOf(blocks) = 1..n
           /\ \A g \in 1..n :
                 /\ GroupsOf(blocks)[g] \in RangeSets
                 /\ Blocks(GroupsOf(blocks)[g])
                      = {blocks[i] : i \in {k \in 1..Len(blocks) : (g - 1) * B + 1 <= k /\ k <= g * B}}
    BY GroupIs
  <1>2. ASSUME NEW g \in 1..n PROVE Blocks(GroupsOf(blocks)[g]) \subseteq ToSet(blocks)
    <2>1. \A k \in 1..Len(blocks) : blocks[k] \in ToSet(blocks)
      BY DEF ToSet
    <2>2. PICK few : few = {k \in 1..Len(blocks) : (g - 1) * B + 1 <= k /\ k <= g * B}
      OBVIOUS
    <2>3. few \subseteq 1..Len(blocks)
      BY <2>2
    <2>4. Blocks(GroupsOf(blocks)[g]) = {blocks[i] : i \in few}
      BY <1>1, <2>2, Zenon
    <2> QED BY ONLY <2>1, <2>3, <2>4
  <1> QED BY <1>1, <1>2

LEMMA FileMapIs ==
  ASSUME NEW img \in Images, NEW total \in Nat, NEW file, NEW image, ImageIs(image, file, img, total),
         0 \in WithData(img, total)
  PROVE  FilledAll(FileMap(image, <<>>, image.care), img, total)
  <1> DEFINE rest == Blocks(Subtract(image.care, image.clobbered))
             zeros == {b \in rest : IsZeroBlock(image, b)}
             groups == GroupsOf(Ascending(rest \ zeros))
             E == {entry \in [name : {Special("__ZERO"), Special("__COPY")} \union {Group(g - 1) : g \in DOMAIN groups},
                              ranges : RangeSets] : Filled(entry, img, total)}
  <1>1. image.care \in RangeSets /\ Blocks(image.care) = WithData(img, total) /\ image.clobbered = <<0, 1>>
    BY DEF ImageIs
  <1>2. <<0, 1>> \in RangeSets /\ Blocks(<<0, 1>>) = 0..(1 - 1)
    BY PairIs
  <1>3. rest \subseteq WithData(img, total)
    BY <1>1, <1>2, SubtractIs
  <1>4. \A b \in zeros : img[b] = Zero
    <2>1. SUFFICES ASSUME NEW b \in zeros PROVE img[b] = Zero
      OBVIOUS
    <2>2. b \in 0..(total - 1) /\ img[b] # None
      BY <1>3 DEF WithData
    <2>3. ReadContent(image, <<b, b + 1>>) = <<img[b]>>
      BY <2>2, ReadBlockIs
    <2>4. <<img[b]>> = <<Zero>>
      BY <2>3 DEF IsZeroBlock
    <2> QED BY <2>4
  <1>5. IsFiniteSet(WithData(img, total)) /\ WithData(img, total) \subseteq Nat
    <2>1. IsFiniteSet(0..(total - 1))
      BY FS_Interval
    <2> QED BY <2>1, FS_Subset DEF WithData
  <1>6. \A s \in SUBSET rest : /\ Ascending(s) \in Seq(Nat) /\ Ascends(Ascending(s)) /\ ToSet(Ascending(s)) = s
    <2>1. \A s \in SUBSET rest : s \subseteq Nat /\ IsFiniteSet(s)
      BY <1>3, <1>5, FS_Subset
    <2> HIDE DEF rest
    <2> QED BY <2>1, AscendingIs
  <1>7. zeros \in SUBSET rest /\ rest \ zeros \in SUBSET rest
    OBVIOUS
  <1>8. Entry(Special("__ZERO"), OfBlocks(Ascending(zeros))) \in E
    <2>1. PICK z : z = Ascending(zeros) /\ z \in Seq(Nat) /\ Ascends(z) /\ ToSet(z) = zeros
      BY <1>6, <1>7
    <2>2. OfBlocks(z) \in RangeSets /\ Blocks(OfBlocks(z)) = zeros
      BY <2>1, OfBlocksIs
    <2>3. zeros \subseteq WithData(img, total)
      BY <1>3
    <2> HIDE DEF zeros
    <2> QED BY <1>4, <2>1, <2>2, <2>3 DEF Filled, Entry
  <1>9. PICK n \in Nat : DOMAIN groups = 1..n
    BY <1>6, <1>7, GroupsAre
  <1>10. \A g \in DOMAIN groups : Entry(Group(g - 1), groups[g]) \in E
    <2>1. \A g \in DOMAIN groups : groups[g] \in RangeSets /\ Blocks(groups[g]) \subseteq WithData(img, total)
      <3>1. PICK z : z = Ascending(rest \ zeros) /\ z \in Seq(Nat) /\ Ascends(z) /\ ToSet(z) = rest \ zeros
        BY <1>6, <1>7
      <3>2. ToSet(z) \subseteq WithData(img, total)
        BY <1>3, <3>1
      <3> HIDE DEF rest, zeros
      <3> QED BY <3>1, <3>2, GroupsAre
    <2>2. \A g : Group(g - 1) # Special("__ZERO")
      <3>1. \A g : Group(g).pattern = "__NONZERO-#" /\ Special("__ZERO").pattern = "__ZERO"
        BY DEF Group, Special, Name
      <3>2. "__NONZERO-#" # "__ZERO"
        OBVIOUS
      <3> QED BY <3>1, <3>2
    <2> HIDE DEF groups
    <2> QED BY <2>1, <2>2 DEF Filled, Entry
  <1>11. Entry(Special("__COPY"), image.clobbered) \in E
    <2>1. Special("__COPY") # Special("__ZERO")
      <3>1. Special("__COPY").path = "__COPY" /\ Special("__ZERO").path = "__ZERO" /\ "__COPY" # "__ZERO"
        BY DEF Special, Name
      <3> QED BY <3>1
    <2>2. Blocks(image.clobbered) \subseteq WithData(img, total)
      <3>1. Blocks(image.clobbered) = {0}
        BY <1>1, <1>2
      <3> QED BY <3>1
    <2> QED BY <1>1, <1>2, <2>1, <2>2 DEF Filled, Entry
  <1> HIDE DEF E
  <1>12. PICK a : a = (IF zeros = {} THEN <<>> ELSE <<Entry(Special("__ZERO"), OfBlocks(Ascending(zeros)))>>)
                  /\ a \in Seq(E)
    <2>1. PICK e : e = Entry(Special("__ZERO"), OfBlocks(Ascending(zeros))) /\ e \in E
      BY <1>8
    <2>2. <<>> \in Seq(E) /\ <<e>> \in Seq(E)
      BY ONLY <2>1
    <2> HIDE DEF zeros
    <2> QED BY ONLY <2>1, <2>2
  <1>13. PICK b : b = [g \in DOMAIN groups |-> Entry(Group(g - 1), groups[g])] /\ b \in Seq(E)
    <2> HIDE DEF groups
    <2>1. PICK b : b = [g \in DOMAIN groups |-> Entry(Group(g - 1), groups[g])]
      OBVIOUS
    <2>2. b \in [1..n -> E]
      BY <1>9, <1>10, <2>1
    <2>3. b \in Seq(E)
      BY ONLY <1>9, <2>2
    <2> QED BY <2>1, <2>3
  <1>14. PICK c : c = <<Entry(Special("__COPY"), image.clobbered)>> /\ c \in Seq(E)
    <2>1. PICK e : e = Entry(Special("__COPY"), image.clobbered) /\ e \in E
      BY <1>11
    <2>2. <<e>> \in Seq(E)
      BY ONLY <2>1
    <2> QED BY ONLY <2>1, <2>2
  <1>15. FileMap(image, <<>>, image.care) = <<>> \o a \o b \o c
    BY <1>12, <1>13, <1>14, Zenon DEF FileMap
  <1>16. <<>> \o a \o b \o c \in Seq(E)
    BY <1>12, <1>13, <1>14
  <1>17. \A entry \in E : Filled(entry, img, total)
    BY DEF E
  <1> QED BY <1>15, <1>16, <1>17 DEF FilledAll

-------------------------------------------------------------------------------
(* Transfers without a source.                                             *)

(* The transfer reads nothing, and zeroes only what is zero.               *)
Alone(xf, img, total) ==
    \E name, source, t, style :
       /\ xf = Transfer(name, source, t, Empty, style)
       /\ t \in RangeSets /\ Blocks(t) \subseteq WithData(img, total)
       /\ style = "new" \/ (style = "zero" /\ \A b \in Blocks(t) : img[b] = Zero)

AloneAll(x, img, total) ==
    \E E : x \in Seq(E) /\ \A xf \in E : Alone(xf, img, total)

LEMMA AloneIs ==
  ASSUME NEW xf, NEW img, NEW total, Alone(xf, img, total)
  PROVE  /\ xf.src = Empty /\ xf.stash = <<>> /\ xf.use = <<>>
         /\ xf.tgt \in RangeSets /\ Blocks(xf.tgt) \subseteq WithData(img, total)
         /\ xf.style = "new" \/ (xf.style = "zero" /\ \A b \in Blocks(xf.tgt) : img[b] = Zero)
         /\ [xf EXCEPT !.stash = <<>>, !.use = <<>>] = xf
  <1>1. PICK name, source, t, style :
           /\ xf = Transfer(name, source, t, Empty, style)
           /\ t \in RangeSets /\ Blocks(t) \subseteq WithData(img, total)
           /\ style = "new" \/ (style = "zero" /\ \A b \in Blocks(t) : img[b] = Zero)
    BY DEF Alone
  <1>2. /\ xf.src = Empty /\ xf.stash = <<>> /\ xf.use = <<>> /\ xf.tgt = t /\ xf.style = style
        /\ [xf EXCEPT !.stash = <<>>, !.use = <<>>] = xf
    <2>1. PICK no : no = <<>>
      OBVIOUS
    <2>2. xf = [name |-> name, source |-> source, tgt |-> t, src |-> Empty, style |-> style,
                stash |-> no, use |-> no, patch |-> 0]
      BY <1>1, <2>1 DEF Transfer
    <2>3. xf.src = Empty /\ xf.stash = no /\ xf.use = no /\ xf.tgt = t /\ xf.style = style
      BY ONLY <2>2
    <2>4. [xf EXCEPT !.stash = no, !.use = no] = xf
      <3>1. [xf EXCEPT !.stash = no] = xf
        BY ONLY <2>2
      <3>2. [xf EXCEPT !.use = no] = xf
        BY ONLY <2>2
      <3>3. [xf EXCEPT !.stash = no, !.use = no] = [[xf EXCEPT !.stash = no] EXCEPT !.use = no]
        OBVIOUS
      <3> QED BY ONLY <3>1, <3>2, <3>3
    <2> QED BY <2>1, <2>3, <2>4
  <1> QED BY <1>1, <1>2

LEMMA AloneIn ==
  ASSUME NEW x, NEW img, NEW total, AloneAll(x, img, total)
  PROVE  /\ \A u \in DOMAIN x : Alone(x[u], img, total)
         /\ x = [u \in DOMAIN x |-> x[u]]
         /\ \E n \in Nat : DOMAIN x = 1..n
  <1>1. PICK E : x \in Seq(E) /\ \A xf \in E : Alone(xf, img, total)
    BY DEF AloneAll
  <1>2. Len(x) \in Nat /\ DOMAIN x = 1..Len(x) /\ \A u \in DOMAIN x : x[u] \in E
    BY <1>1
  <1> QED BY <1>1, <1>2

(* FindTransfers, when there is no source image. *)
LEMMA TransfersAlone ==
  ASSUME NEW img, NEW total, FilledAll(tgt.files, img, total), src = NoImage
  PROVE  AloneAll(FlattenSeq([i \in DOMAIN tgt.files |-> TransfersOf(tgt.files[i])]), img, total)
  <1>1. PICK F : tgt.files \in Seq(F) /\ \A entry \in F : Filled(entry, img, total)
    BY DEF FilledAll
  <1>2. DOMAIN src.files = {}
    <2>1. src.files = <<>>
      BY DEF NoImage
    <2> QED BY <2>1
  <1>3. \A field, name : FilesWith(field, name) = {}
    BY <1>2 DEF FilesWith
  <1>4. \A name : SourceFiles(name) = {}
    BY <1>3 DEF SourceFiles
  <1>5. SourceZeros = Empty
    BY <1>3 DEF SourceZeros
  <1>6. \A entry \in F : \E xf : TransfersOf(entry) = <<xf>> /\ Alone(xf, img, total)
    <2>1. SUFFICES ASSUME NEW entry \in F
                   PROVE  \E xf : TransfersOf(entry) = <<xf>> /\ Alone(xf, img, total)
      OBVIOUS
    <2>2. PICK t : t = entry.ranges /\ t \in RangeSets /\ Blocks(t) \subseteq WithData(img, total)
      BY <1>1 DEF Filled
    <2>3. CASE entry.name = Special("__ZERO")
      <3>1. PICK xf : xf = Transfer(entry.name, "__ZERO", t, Empty, "zero")
        OBVIOUS
      <3>2. TransfersOf(entry) = <<xf>>
        BY <1>5, <2>2, <2>3, <3>1 DEF TransfersOf
      <3>3. \A b \in Blocks(t) : img[b] = Zero
        BY <1>1, <2>2, <2>3 DEF Filled
      <3> QED BY <2>2, <3>1, <3>2, <3>3 DEF Alone
    <2>4. CASE entry.name # Special("__ZERO")
      <3>1. PICK xf : xf = Transfer(entry.name, None, t, Empty, "new")
        OBVIOUS
      <3>2. TransfersOf(entry) = <<xf>>
        BY <1>4, <2>2, <2>4, <3>1 DEF TransfersOf
      <3> QED BY <2>2, <3>1, <3>2 DEF Alone
    <2> QED BY <2>3, <2>4
  <1>7. PICK n \in Nat : n = Len(tgt.files) /\ DOMAIN tgt.files = 1..n
    BY <1>1
  <1>8. PICK X : X = [i \in DOMAIN tgt.files |-> TransfersOf(tgt.files[i])]
    OBVIOUS
  <1>9. PICK A : A = {X[i][1] : i \in 1..n}
    OBVIOUS
  <1>10. \A i \in 1..n : \E xf \in A : X[i] = <<xf>> /\ Alone(xf, img, total)
    <2>1. SUFFICES ASSUME NEW i \in 1..n PROVE \E xf \in A : X[i] = <<xf>> /\ Alone(xf, img, total)
      OBVIOUS
    <2>2. tgt.files[i] \in F
      BY <1>1, <1>7
    <2>3. PICK xf : X[i] = <<xf>> /\ Alone(xf, img, total)
      BY <1>6, <1>7, <1>8, <2>2
    <2>4. X[i][1] = xf
      BY <2>3
    <2> QED BY <1>9, <2>3, <2>4
  <1>11. \A xf \in A : Alone(xf, img, total)
    <2>1. SUFFICES ASSUME NEW i \in 1..n PROVE Alone(X[i][1], img, total)
      BY <1>9
    <2>2. PICK xf : X[i] = <<xf>> /\ Alone(xf, img, total)
      BY <1>10
    <2> QED BY <2>2
  <1>12. FlattenSeq(X) \in Seq(A)
    <2>1. \A i \in 1..n : X[i] \in Seq(A)
      <3>1. SUFFICES ASSUME NEW i \in 1..n PROVE X[i] \in Seq(A)
        OBVIOUS
      <3>2. PICK xf \in A : X[i] = <<xf>>
        BY <1>10
      <3> QED BY ONLY <3>2
    <2>2. PICK Y : Y = Seq(A)
      OBVIOUS
    <2>3. X \in [1..n -> Y]
      BY <1>7, <1>8, <2>1, <2>2
    <2>4. X \in Seq(Y)
      BY ONLY <1>7, <2>3
    <2>5. X \in Seq(Seq(A))
      BY <2>2, <2>4
    <2> QED BY ONLY <2>5, FlattenedSet
  <1> QED BY <1>8, <1>11, <1>12 DEF AloneAll

LEMMA NoEdges ==
  ASSUME NEW img, NEW total, AloneAll(xfs, img, total)
  PROVE  Digraph = {}
  <1>1. SUFFICES ASSUME NEW e \in Ids \X Ids PROVE ~Reads(e[1], e[2])
    BY DEF Digraph
  <1>2. PICK t, s : t = xfs[e[2]].tgt /\ s = xfs[e[1]].src
    OBVIOUS
  <1>3. t \in RangeSets /\ s = Empty
    <2>1. e[1] \in DOMAIN xfs /\ e[2] \in DOMAIN xfs
      BY <1>1 DEF Ids
    <2> QED BY <1>2, <2>1, AloneIn, AloneIs
  <1>4. s \in RangeSets /\ Blocks(s) = {}
    BY <1>3, EmptyIs
  <1>5. ~Overlaps(t, s)
    BY <1>3, <1>4, OverlapsIs
  <1> QED BY <1>2, <1>5 DEF Reads

LEMMA NothingIn ==
  ASSUME NEW f, f = [k \in {} |-> f[k]]
  PROVE  f = <<>>
  <1>1. 1..0 = {}
    OBVIOUS
  <1>2. f \in [1..0 -> {0}]
    BY <1>1
  <1>3. f \in Seq({0}) /\ Len(f) = 0
    BY ONLY <1>2
  <1> QED BY ONLY <1>3, EmptySeq

(* Without backward edges nothing is stashed. *)
LEMMA ReverseKeeps ==
  ASSUME NEW img, NEW total, AloneAll(xfs, img, total), goes = {}, ReverseBackwardEdges
  PROVE  xfs' = xfs /\ goes' = {}
  <1>1. Backward = {}
    BY DEF Backward
  <1>2. DOMAIN Ascending({}) = {}
    <2>1. {} \subseteq Nat /\ IsFiniteSet({}) /\ Cardinality({}) = 0
      BY FS_EmptySet
    <2>2. Ascending({}) \in Seq(Nat) /\ Len(Ascending({})) = 0
      BY <2>1, AscendingIs
    <2> QED BY ONLY <2>2
  <1>3. \A u \in Ids : [k \in DOMAIN InOrder({x \in Ids : <<x, u>> \in Backward}) |->
                          Stash(InOrder({x \in Ids : <<x, u>> \in Backward})[k], u)] = <<>>
    <2>1. TAKE u \in Ids
    <2>2. {x \in Ids : <<x, u>> \in Backward} = {}
      BY <1>1
    <2>3. {Position(x) : x \in {}} = {}
      OBVIOUS
    <2>4. DOMAIN InOrder({}) = {}
      BY <1>2, <2>3 DEF InOrder
    <2>5. PICK io : io = InOrder({x \in Ids : <<x, u>> \in Backward}) /\ DOMAIN io = {}
      BY <2>2, <2>4
    <2>6. PICK f : f = [k \in {} |-> Stash(io[k], u)]
      OBVIOUS
    <2>7. f = <<>>
      BY <2>6, NothingIn
    <2> QED BY <2>5, <2>6, <2>7
  <1>4. \A x \in Ids : [k \in DOMAIN Ascending({u \in Ids : <<x, u>> \in Backward}) |->
                          Stash(x, Ascending({u \in Ids : <<x, u>> \in Backward})[k])] = <<>>
    <2>1. TAKE x \in Ids
    <2>2. {u \in Ids : <<x, u>> \in Backward} = {}
      BY <1>1
    <2>3. PICK as : as = Ascending({u \in Ids : <<x, u>> \in Backward}) /\ DOMAIN as = {}
      BY <1>2, <2>2
    <2>4. PICK f : f = [k \in {} |-> Stash(x, as[k])]
      OBVIOUS
    <2>5. f = <<>>
      BY <2>4, NothingIn
    <2> QED BY <2>3, <2>4, <2>5
  <1>5. xfs' = [u \in Ids |-> [xfs[u] EXCEPT
                  !.stash = [k \in DOMAIN InOrder({x \in Ids : <<x, u>> \in Backward}) |->
                          Stash(InOrder({x \in Ids : <<x, u>> \in Backward})[k], u)],
                  !.use = [k \in DOMAIN Ascending({w \in Ids : <<u, w>> \in Backward}) |->
                          Stash(u, Ascending({w \in Ids : <<u, w>> \in Backward})[k])]]]
    BY Zenon DEF ReverseBackwardEdges
  <1>6. xfs' = [u \in Ids |-> [xfs[u] EXCEPT !.stash = <<>>, !.use = <<>>]]
    BY ONLY <1>3, <1>4, <1>5
  <1>7. \A u \in Ids : [xfs[u] EXCEPT !.stash = <<>>, !.use = <<>>] = xfs[u]
    BY AloneIn, AloneIs DEF Ids
  <1>8. xfs' = xfs
    BY <1>6, <1>7, AloneIn DEF Ids
  <1>9. goes' = {}
    BY <1>1 DEF ReverseBackwardEdges
  <1> QED BY <1>8, <1>9

LEMMA NothingStashed == SizeOf(<<>>) = 0
  <1> DEFINE Same(iter) ==
               iter = [u \in SUBSET DOMAIN <<>> |->
                         IF u = {} THEN 0
                         ELSE LET x == Max(u) IN iter[u \ {x}] + Size(<<>>[x].ranges)]
  <1>1. SizeOf(<<>>) = (CHOOSE iter : Same(iter))[DOMAIN <<>>]
    BY Zenon DEF SizeOf, FoldLeft, MapThenFoldSet
  <1>2. DOMAIN <<>> = {}
    OBVIOUS
  <1>3. PICK it : it = [u \in SUBSET {} |-> 0]
    OBVIOUS
  <1>4. Same(it)
    BY <1>2, <1>3
  <1>5. PICK iter : Same(iter) /\ SizeOf(<<>>) = iter[DOMAIN <<>>]
    <2> HIDE DEF Same
    <2> QED BY <1>1, <1>4, Zenon
  <1>6. iter[{}] = 0
    BY <1>2, <1>5
  <1> QED BY <1>2, <1>5, <1>6

(* There is a transfer that may come next and leaves the least stashed.    *)
LEMMA BestExists ==
  ASSUME NEW img, NEW total, AloneAll(xfs, img, total), order \in Seq(Ids), ToSet(order) = Ids,
         NEW ready, ready \subseteq Ids, ready # {}
  PROVE  \E u \in ready : \A v \in ready : \/ NetStashChange(u) < NetStashChange(v)
                                           \/ /\ NetStashChange(u) = NetStashChange(v)
                                              /\ Position(u) <= Position(v)
  <1>1. \A u \in Ids : NetStashChange(u) = 0
    <2>1. \A u \in Ids : xfs[u].stash = <<>> /\ xfs[u].use = <<>>
      BY AloneIn, AloneIs DEF Ids
    <2> QED BY <2>1, NothingStashed DEF NetStashChange
  <1>2. \A u \in Ids : Position(u) \in Nat
    <2>1. TAKE u \in Ids
    <2>2. \E k \in DOMAIN order : order[k] = u
      <3>1. u \in ToSet(order)
        OBVIOUS
      <3> QED BY ONLY <3>1 DEF ToSet
    <2>3. Position(u) \in DOMAIN order
      BY <2>2 DEF Position
    <2>4. DOMAIN order \subseteq Nat
      OBVIOUS
    <2> QED BY <2>3, <2>4
  <1>3. PICK P : P = {Position(u) : u \in ready}
    OBVIOUS
  <1>4. P \subseteq Nat /\ P # {}
    BY <1>2, <1>3
  <1>5. PICK x \in P : \A y \in P : ~(y < x)
    BY <1>4, Least
  <1>6. PICK u \in ready : x = Position(u)
    BY <1>3, <1>5
  <1>7. \A v \in ready : Position(u) <= Position(v)
    <2>1. \A v \in ready : Position(v) \in P /\ Position(v) \in Nat
      BY <1>2, <1>3
    <2> QED BY <1>5, <1>6, <2>1
  <1> QED BY <1>1, <1>6, <1>7

(* A turn of the loop: one of those that may come next comes next.         *)
Picks(done, next) ==
    \/ next = done /\ {u \in Ids \ ToSet(done) : Before(goes, u, Ids) \subseteq ToSet(done)} = {}
    \/ \E u \in Ids \ ToSet(done) : next = Append(done, u)

LEMMA GreedySteps ==
  ASSUME NEW img, NEW total, AloneAll(xfs, img, total), order \in Seq(Ids), ToSet(order) = Ids
  PROVE  \E g \in [1..(Len(order) + 1) -> Seq(Ids)] :
            /\ g[1] = <<>> /\ Greedy = g[Len(order) + 1]
            /\ \A k \in 1..Len(order) : Picks(g[k], g[k + 1])
  <1> DEFINE ready(done) == {u \in Ids \ ToSet(done) : Before(goes, u, Ids) \subseteq ToSet(done)}
             Better(u, v) == \/ NetStashChange(u) < NetStashChange(v)
                             \/ NetStashChange(u) = NetStashChange(v) /\ Position(u) <= Position(v)
             Step(done, i) ==
               IF ready(done) = {} THEN done
               ELSE Append(done, CHOOSE u \in ready(done) : \A v \in ready(done) : Better(u, v))
             Same(iter) ==
               iter = [u \in SUBSET DOMAIN order |->
                         IF u = {} THEN <<>>
                         ELSE LET x == Max(u) IN Step(iter[u \ {x}], order[x])]
  <1>0. Greedy = (CHOOSE iter : Same(iter))[DOMAIN order]
    BY Zenon DEF Greedy, FoldLeft, MapThenFoldSet
  <1>1. PICK M : M = Len(order) /\ M \in Nat /\ DOMAIN order = 1..M
    OBVIOUS
  <1>2. \A done : ready(done) # {} =>
           (CHOOSE u \in ready(done) : \A v \in ready(done) : Better(u, v)) \in ready(done)
    <2>1. SUFFICES ASSUME NEW done, ready(done) # {}
                   PROVE  (CHOOSE u \in ready(done) : \A v \in ready(done) : Better(u, v)) \in ready(done)
      OBVIOUS
    <2>2. ready(done) \subseteq Ids
      OBVIOUS
    <2> HIDE DEF ready
    <2>3. \E u \in ready(done) : \A v \in ready(done) : Better(u, v)
      BY <2>1, <2>2, BestExists
    <2> HIDE DEF Better
    <2> QED BY <2>3
  <1>3. \A done \in Seq(Ids) : \A i : Step(done, i) \in Seq(Ids) /\ Picks(done, Step(done, i))
    <2>1. SUFFICES ASSUME NEW done \in Seq(Ids), NEW i
                   PROVE  Step(done, i) \in Seq(Ids) /\ Picks(done, Step(done, i))
      OBVIOUS
    <2>6. ready(done) \subseteq Ids \ ToSet(done)
      OBVIOUS
    <2>7. Picks(done, done) <=> ready(done) = {} \/ \E u \in Ids \ ToSet(done) : done = Append(done, u)
      BY DEF Picks
    <2> HIDE DEF ready, Better
    <2>2. PICK c : c = CHOOSE u \in ready(done) : \A v \in ready(done) : Better(u, v)
      OBVIOUS
    <2>3. Step(done, i) = IF ready(done) = {} THEN done ELSE Append(done, c)
      BY <2>2
    <2> HIDE DEF Step
    <2>4. ready(done) # {} => c \in Ids \ ToSet(done)
      BY <1>2, <2>2, <2>6
    <2>8. CASE ready(done) = {}
      BY <2>3, <2>7, <2>8
    <2>9. CASE ready(done) # {}
      <3>1. Append(done, c) \in Seq(Ids)
        BY <2>4, <2>9
      <3>2. Picks(done, Append(done, c))
        BY <2>4, <2>9, Zenon DEF Picks
      <3> QED BY <2>3, <2>9, <3>1, <3>2
    <2> QED BY <2>8, <2>9
  <1> HIDE DEF Step
  <1>4. PICK T : T = Seq(Ids)
    OBVIOUS
  <1>5. PICK F : /\ F \in [(1..M) \X T -> T]
                 /\ \A k \in 1..M, v \in T : F[<<k, v>>] = Step(v, order[k])
    <2> DEFINE F == [p \in (1..M) \X T |-> Step(p[2], order[p[1]])]
    <2>1. F \in [(1..M) \X T -> T]
      BY <1>3, <1>4
    <2>2. \A k \in 1..M, v \in T : F[<<k, v>>] = Step(v, order[k])
      OBVIOUS
    <2> HIDE DEF F
    <2> QED BY <2>1, <2>2
  <1>6. <<>> \in T
    BY <1>4
  <1>7. PICK it \in [SUBSET (1..M) -> T] : Iterates(it, <<>>, F, M)
    BY <1>1, <1>5, <1>6, FoldExists, Zenon
  <1>8. Same(it)
    <2>1. ASSUME NEW u \in SUBSET (1..M), u # {}
          PROVE  F[<<Max(u), it[u \ {Max(u)}]>>] = Step(it[u \ {Max(u)}], order[Max(u)])
      <3>1. Max(u) \in 1..M /\ u \ {Max(u)} \in SUBSET (1..M)
        BY <1>1, <2>1, MaxOf
      <3> QED BY <1>5, <1>7, <3>1
    <2> QED BY <1>1, <1>7, <2>1 DEF Iterates
  <1>9. PICK iter : Same(iter) /\ Greedy = iter[DOMAIN order]
    <2> HIDE DEF Same
    <2> QED BY <1>0, <1>8, Zenon
  <1>10. Folding(iter, <<>>, F, M, T)
    <2>1. iter[{}] = <<>>
      BY <1>9
    <2>2. ASSUME NEW k \in 1..M, iter[1..(k - 1)] \in T PROVE iter[1..k] = F[<<k, iter[1..(k - 1)]>>]
      <3>1. /\ 1..k \in SUBSET (1..M) /\ 1..k # {} /\ Max(1..k) = k /\ (1..k) \ {k} = 1..(k - 1)
        BY <1>1, UpTo
      <3>2. iter[1..k] = Step(iter[(1..k) \ {Max(1..k)}], order[Max(1..k)])
        BY <1>1, <1>9, <3>1
      <3> QED BY <1>5, <2>2, <3>1, <3>2
    <2> QED BY <2>1, <2>2 DEF Folding
  <1>11. FoldsTo(iter[1..M], <<>>, F, M, T)
    BY <1>1, <1>5, <1>6, <1>10, FoldIs
  <1>12. PICK g \in [1..(M + 1) -> T] : Follows(g, <<>>, F, M) /\ Greedy = g[M + 1]
    BY <1>1, <1>9, <1>11 DEF FoldsTo
  <1>13. ASSUME NEW k \in 1..M PROVE Picks(g[k], g[k + 1])
    <2>1. k \in 1..(M + 1) /\ g[k] \in T
      BY <1>1
    <2>2. g[k + 1] = Step(g[k], order[k])
      BY <1>5, <1>12, <2>1 DEF Follows
    <2> QED BY <1>3, <1>4, <2>1, <2>2
  <1> QED BY <1>1, <1>4, <1>12, <1>13 DEF Follows

LEMMA GreedyIn ==
  ASSUME NEW img, NEW total, AloneAll(xfs, img, total), order \in Seq(Ids), ToSet(order) = Ids
  PROVE  Greedy \in Seq(Ids)
  <1>1. PICK g \in [1..(Len(order) + 1) -> Seq(Ids)] : Greedy = g[Len(order) + 1]
    BY GreedySteps
  <1>2. Len(order) + 1 \in 1..(Len(order) + 1)
    OBVIOUS
  <1> QED BY <1>1, <1>2

(* What stashes nothing is never too much. *)
LEMMA AloneAffordable ==
  ASSUME NEW img, NEW total, AloneAll(xfs, img, total), NEW u \in Ids
  PROVE  Unaffordable(xfs, 0, u) = [stashed |-> 0, users |-> <<>>]
  <1>1. xfs[u].stash = <<>> /\ xfs[u].use = <<>> /\ xfs[u].style # "diff"
    <2>1. PICK xf : xf = xfs[u] /\ Alone(xf, img, total)
      BY AloneIn DEF Ids
    <2>2. xf.stash = <<>> /\ xf.use = <<>> /\ (xf.style = "new" \/ xf.style = "zero")
      BY <2>1, AloneIs
    <2> QED BY <2>1, <2>2
  <1> DEFINE base == [stashed |-> 0, users |-> <<>>]
             Step(acc, s) ==
               IF TooMuch(acc.stashed + Size(s.ranges))
               THEN [acc EXCEPT !.users = Append(@, UserOf(s.id))]
               ELSE [acc EXCEPT !.stashed = @ + Size(s.ranges)]
             Same(iter) ==
               iter = [v \in SUBSET DOMAIN (xfs[u].stash) |->
                         IF v = {} THEN base
                         ELSE LET x == Max(v) IN Step(iter[v \ {x}], xfs[u].stash[x])]
             kept == (CHOOSE iter : Same(iter))[DOMAIN (xfs[u].stash)]
             freed == [kept EXCEPT !.stashed = @ - SizeOf(xfs[u].use)]
             implicit == /\ xfs[u].style = "diff" /\ config.version >= 3
                         /\ Overlaps(xfs[u].src, xfs[u].tgt)
                         /\ TooMuch(freed.stashed + Size(xfs[u].src))
  <1>2. Unaffordable(xfs, 0, u) = IF implicit THEN [freed EXCEPT !.users = Append(@, u)] ELSE freed
    BY Zenon DEF Unaffordable, FoldLeft, MapThenFoldSet
  <1>3. DOMAIN (xfs[u].stash) = {}
    BY <1>1
  <1> HIDE DEF base, Step
  <1>4. PICK it : it = [v \in SUBSET {} |-> base]
    OBVIOUS
  <1>5. Same(it)
    BY <1>3, <1>4
  <1>6. PICK iter : Same(iter) /\ kept = iter[DOMAIN (xfs[u].stash)]
    <2> HIDE DEF Same
    <2> QED BY <1>5, Zenon
  <1>7. iter[{}] = base
    BY <1>3, <1>6
  <1>8. kept = base
    BY <1>3, <1>6, <1>7
  <1> HIDE DEF kept
  <1>9. freed = [base EXCEPT !.stashed = @ - 0]
    BY <1>1, <1>8, NothingStashed
  <1>10. freed = base
    BY <1>9 DEF base
  <1>11. ~implicit
    BY <1>1
  <1> HIDE DEF freed, implicit
  <1> QED BY <1>2, <1>10, <1>11 DEF base

LEMMA NoneConverted ==
  ASSUME NEW all
  PROVE  FoldLeft(Converted, all, <<>>) = all
  <1> DEFINE Same(iter) ==
               iter = [u \in SUBSET DOMAIN <<>> |->
                         IF u = {} THEN all
                         ELSE LET x == Max(u) IN Converted(iter[u \ {x}], <<>>[x])]
  <1>1. FoldLeft(Converted, all, <<>>) = (CHOOSE iter : Same(iter))[DOMAIN <<>>]
    BY Zenon DEF FoldLeft, MapThenFoldSet
  <1>2. DOMAIN <<>> = {}
    OBVIOUS
  <1>3. PICK it : it = [u \in SUBSET {} |-> all]
    OBVIOUS
  <1>4. Same(it)
    BY <1>2, <1>3
  <1>5. PICK iter : Same(iter) /\ FoldLeft(Converted, all, <<>>) = iter[DOMAIN <<>>]
    <2> HIDE DEF Same
    <2> QED BY <1>1, <1>4, Zenon
  <1>6. iter[{}] = all
    BY <1>2, <1>5
  <1> QED BY <1>2, <1>5, <1>6

LEMMA ReviseKeeps ==
  ASSUME NEW img, NEW total, AloneAll(xfs, img, total), order \in Seq(Ids), ReviseStashSize
  PROVE  xfs' = xfs
  <1> DEFINE base == [stashed |-> 0, all |-> xfs]
             Step(acc, u) ==
               LET found == Unaffordable(acc.all, acc.stashed, u)
               IN  [stashed |-> found.stashed, all |-> FoldLeft(Converted, acc.all, found.users)]
             Same(iter) ==
               iter = [u \in SUBSET DOMAIN order |->
                         IF u = {} THEN base
                         ELSE LET x == Max(u) IN Step(iter[u \ {x}], order[x])]
  <1>0. xfs' = (CHOOSE iter : Same(iter))[DOMAIN order].all
    <2>1. xfs' = FoldLeft(Step, base, order).all
      BY Zenon DEF ReviseStashSize
    <2>2. FoldLeft(Step, base, order) = (CHOOSE iter : Same(iter))[DOMAIN order]
      BY Zenon DEF FoldLeft, MapThenFoldSet
    <2> QED BY <2>1, <2>2, Zenon
  <1>1. PICK M : M = Len(order) /\ M \in Nat /\ DOMAIN order = 1..M
    OBVIOUS
  <1>2. \A k \in 1..M : Step(base, order[k]) = base
    <2>1. TAKE k \in 1..M
    <2>2. order[k] \in Ids
      BY <1>1
    <2>3. Unaffordable(xfs, 0, order[k]) = [stashed |-> 0, users |-> <<>>]
      BY <2>2, AloneAffordable
    <2>4. FoldLeft(Converted, xfs, <<>>) = xfs
      BY NoneConverted
    <2> QED BY <2>3, <2>4
  <1> HIDE DEF Step, base
  <1>3. PICK T : T = {base}
    OBVIOUS
  <1>4. PICK F : F = [p \in (1..M) \X T |-> base]
    OBVIOUS
  <1>5. F \in [(1..M) \X T -> T] /\ base \in T /\ \A k \in 1..M, v \in T : F[<<k, v>>] = base /\ v = base
    BY <1>3, <1>4
  <1>6. PICK it \in [SUBSET (1..M) -> T] : Iterates(it, base, F, M)
    BY <1>1, <1>5, FoldExists, Zenon
  <1>7. Same(it)
    <2>1. ASSUME NEW u \in SUBSET (1..M), u # {}
          PROVE  F[<<Max(u), it[u \ {Max(u)}]>>] = Step(it[u \ {Max(u)}], order[Max(u)])
      <3>1. Max(u) \in 1..M /\ u \ {Max(u)} \in SUBSET (1..M)
        BY <1>1, <2>1, MaxOf
      <3>2. it[u \ {Max(u)}] = base
        BY <1>3, <1>6, <3>1
      <3> QED BY <1>2, <1>3, <1>5, <3>1, <3>2
    <2> QED BY <1>1, <1>6, <2>1 DEF Iterates
  <1>8. PICK iter : Same(iter) /\ xfs' = iter[DOMAIN order].all
    <2> HIDE DEF Same
    <2> QED BY <1>0, <1>7, Zenon
  <1>9. Folding(iter, base, F, M, T)
    <2>1. iter[{}] = base
      BY <1>8
    <2>2. ASSUME NEW k \in 1..M, iter[1..(k - 1)] \in T PROVE iter[1..k] = F[<<k, iter[1..(k - 1)]>>]
      <3>1. /\ 1..k \in SUBSET (1..M) /\ 1..k # {} /\ Max(1..k) = k /\ (1..k) \ {k} = 1..(k - 1)
        BY <1>1, UpTo
      <3>2. iter[1..k] = Step(iter[(1..k) \ {Max(1..k)}], order[Max(1..k)])
        BY <1>1, <1>8, <3>1
      <3>3. iter[1..(k - 1)] = base
        BY <1>3, <2>2
      <3> QED BY <1>2, <1>5, <2>2, <3>1, <3>2, <3>3
    <2> QED BY <2>1, <2>2 DEF Folding
  <1>10. FoldsTo(iter[1..M], base, F, M, T)
    BY <1>1, <1>5, <1>9, FoldIs
  <1>11. iter[1..M] = base
    <2>1. M + 1 \in 1..(M + 1)
      BY <1>1
    <2> QED BY <1>3, <1>10, <2>1 DEF FoldsTo
  <1> QED BY <1>1, <1>8, <1>11 DEF base

LEMMA EmptyRange == Empty \in RangeSets /\ Blocks(Empty) = {}
  <1>1. <<0, 1>> \in RangeSets
    BY PairIs
  <1> QED BY <1>1, EmptyIs

(* The blocks the first n transfers write. *)
WrittenUpto(n) == UNION {Blocks(xfs[order[j]].tgt) : j \in 1..n}

LEMMA WrittenMore ==
  ASSUME NEW n \in Nat
  PROVE  /\ WrittenUpto(0) = {}
         /\ WrittenUpto(n + 1) = WrittenUpto(n) \union Blocks(xfs[order[n + 1]].tgt)
  <1>1. 1..0 = {} /\ 1..(n + 1) = (1..n) \union {n + 1}
    OBVIOUS
  <1> QED BY <1>1 DEF WrittenUpto

(* A transfer that reads nothing takes nothing from the stash. *)
LEMMA NothingUnstashed ==
  ASSUME NEW xf, xf.src = Empty, xf.use = <<>>
  PROVE  FoldLeft(LAMBDA r, s : Subtract(r, s.ranges), xf.src, xf.use) = Empty
  <1> DEFINE Step(r, s) == Subtract(r, s.ranges)
             Same(iter) ==
               iter = [u \in SUBSET DOMAIN <<>> |->
                         IF u = {} THEN Empty
                         ELSE LET x == Max(u) IN Step(iter[u \ {x}], <<>>[x])]
  <1>1. FoldLeft(Step, Empty, <<>>) = (CHOOSE iter : Same(iter))[DOMAIN <<>>]
    BY Zenon DEF FoldLeft, MapThenFoldSet
  <1>2. DOMAIN <<>> = {}
    OBVIOUS
  <1>3. PICK it : it = [u \in SUBSET {} |-> Empty]
    OBVIOUS
  <1>4. Same(it)
    BY <1>2, <1>3
  <1>5. PICK iter : Same(iter) /\ iter = (CHOOSE i : Same(i))
    <2> HIDE DEF Same
    <2> QED BY <1>4, Zenon
  <1>6. iter[{}] = Empty
    BY <1>2, <1>5
  <1>7. FoldLeft(Step, xf.src, xf.use) = FoldLeft(Step, Empty, <<>>)
    BY Zenon
  <1> QED BY <1>1, <1>2, <1>5, <1>6, <1>7, Zenon

(* What AssertSequenceGood finds at transfer u, between v and w.           *)
Touches(v, w, u) ==
    /\ Blocks(w.touched) = Blocks(v.touched) \union Blocks(xfs[u].tgt)
    /\ w.ok <=> v.ok /\ Blocks(v.touched) \intersect Blocks(xfs[u].tgt) = {}

LEMMA GoodSteps ==
  ASSUME NEW img, NEW total, AloneAll(xfs, img, total), order \in Seq(Ids)
  PROVE  \E g \in [1..(Len(order) + 1) -> [ok : BOOLEAN, touched : RangeSets]] :
            /\ g[1].ok /\ Blocks(g[1].touched) = {}
            /\ \A k \in 1..Len(order) : Touches(g[k], g[k + 1], order[k])
            /\ SequenceGood <=>
                 g[Len(order) + 1].ok /\ Subtract(tgt.care, g[Len(order) + 1].touched) = Empty
  <1> DEFINE unstashed(xf) == FoldLeft(LAMBDA r, s : Subtract(r, s.ranges), xf.src, xf.use)
             base == [ok |-> TRUE, touched |-> Empty]
             Step(acc, u) ==
               [ok |-> /\ acc.ok
                       /\ ~Overlaps(unstashed(xfs[u]), acc.touched)
                       /\ ~Overlaps(xfs[u].tgt, acc.touched),
                touched |-> Union(acc.touched, xfs[u].tgt)]
             Same(iter) ==
               iter = [u \in SUBSET DOMAIN order |->
                         IF u = {} THEN base
                         ELSE LET x == Max(u) IN Step(iter[u \ {x}], order[x])]
             end == (CHOOSE iter : Same(iter))[DOMAIN order]
  <1>0. SequenceGood <=> end.ok /\ Subtract(tgt.care, end.touched) = Empty
    <2>1. FoldLeft(Step, base, order) = end
      BY Zenon DEF FoldLeft, MapThenFoldSet
    <2> HIDE DEF end
    <2>2. SequenceGood <=>
            LET e == FoldLeft(Step, base, order) IN e.ok /\ Subtract(tgt.care, e.touched) = Empty
      BY Zenon DEF SequenceGood
    <2> QED BY <2>1, <2>2, Zenon
  <1>1. PICK M : M = Len(order) /\ M \in Nat /\ DOMAIN order = 1..M
    OBVIOUS
  <1>2. \A k \in 1..M : xfs[order[k]].tgt \in RangeSets /\ unstashed(xfs[order[k]]) = Empty
    <2>1. \A k \in 1..M : order[k] \in DOMAIN xfs
      BY <1>1 DEF Ids
    <2>2. \A k \in 1..M : /\ xfs[order[k]].tgt \in RangeSets
                          /\ xfs[order[k]].src = Empty /\ xfs[order[k]].use = <<>>
      BY <2>1, AloneIn, AloneIs
    <2>3. ASSUME NEW k \in 1..M PROVE unstashed(xfs[order[k]]) = Empty
      <3>1. xfs[order[k]].src = Empty /\ xfs[order[k]].use = <<>>
        BY <2>2
      <3> QED BY <3>1, NothingUnstashed, Zenon
    <2> QED BY <2>2, <2>3
  <1> HIDE DEF unstashed
  <1>3. PICK T : T = [ok : BOOLEAN, touched : RangeSets]
    OBVIOUS
  <1>4. \A k \in 1..M, v \in T :
           /\ Step(v, order[k]) \in T
           /\ Step(v, order[k]).touched = Union(v.touched, xfs[order[k]].tgt)
           /\ Step(v, order[k]).ok <=> /\ v.ok
                                       /\ ~Overlaps(Empty, v.touched)
                                       /\ ~Overlaps(xfs[order[k]].tgt, v.touched)
    <2>1. TAKE k \in 1..M, v \in T
    <2>2. PICK t : t = Union(v.touched, xfs[order[k]].tgt) /\ t \in RangeSets
      <3>1. v.touched \in RangeSets
        BY <1>3
      <3> QED BY <1>2, <3>1, UnionIs
    <2>3. PICK o \in BOOLEAN : o = /\ v.ok
                                   /\ ~Overlaps(unstashed(xfs[order[k]]), v.touched)
                                   /\ ~Overlaps(xfs[order[k]].tgt, v.touched)
      OBVIOUS
    <2>4. Step(v, order[k]) = [ok |-> o, touched |-> t]
      BY <2>2, <2>3
    <2>5. o <=> v.ok /\ ~Overlaps(Empty, v.touched) /\ ~Overlaps(xfs[order[k]].tgt, v.touched)
      BY <1>2, <2>3, Zenon
    <2> HIDE DEF Step
    <2>6. Step(v, order[k]) \in T /\ Step(v, order[k]).touched = t /\ Step(v, order[k]).ok = o
      BY <1>3, <2>2, <2>4
    <2>7. Step(v, order[k]).ok <=> /\ v.ok
                                   /\ ~Overlaps(Empty, v.touched)
                                   /\ ~Overlaps(xfs[order[k]].tgt, v.touched)
      BY <2>5, <2>6, Zenon
    <2> QED BY <2>2, <2>6, <2>7
  <1>5. base \in T
    <2>1. Empty \in RangeSets
      BY EmptyRange
    <2> QED BY <1>3, <2>1
  <1> HIDE DEF Step, base
  <1>6. PICK F : /\ F \in [(1..M) \X T -> T]
                 /\ \A k \in 1..M, v \in T : F[<<k, v>>] = Step(v, order[k])
    <2> DEFINE F == [p \in (1..M) \X T |-> Step(p[2], order[p[1]])]
    <2>1. F \in [(1..M) \X T -> T]
      BY <1>4
    <2>2. \A k \in 1..M, v \in T : F[<<k, v>>] = Step(v, order[k])
      OBVIOUS
    <2> HIDE DEF F
    <2> QED BY <2>1, <2>2
  <1>7. PICK it \in [SUBSET (1..M) -> T] : Iterates(it, base, F, M)
    BY <1>1, <1>5, <1>6, FoldExists, Zenon
  <1>8. Same(it)
    <2>1. ASSUME NEW u \in SUBSET (1..M), u # {}
          PROVE  F[<<Max(u), it[u \ {Max(u)}]>>] = Step(it[u \ {Max(u)}], order[Max(u)])
      <3>1. Max(u) \in 1..M /\ u \ {Max(u)} \in SUBSET (1..M)
        BY <1>1, <2>1, MaxOf
      <3> QED BY <1>6, <1>7, <3>1
    <2> QED BY <1>1, <1>7, <2>1 DEF Iterates
  <1>9. PICK iter : Same(iter) /\ end = iter[DOMAIN order]
    <2> HIDE DEF Same
    <2> QED BY <1>8, Zenon
  <1> HIDE DEF end
  <1>10. Folding(iter, base, F, M, T)
    <2>1. iter[{}] = base
      BY <1>9
    <2>2. ASSUME NEW k \in 1..M, iter[1..(k - 1)] \in T PROVE iter[1..k] = F[<<k, iter[1..(k - 1)]>>]
      <3>1. /\ 1..k \in SUBSET (1..M) /\ 1..k # {} /\ Max(1..k) = k /\ (1..k) \ {k} = 1..(k - 1)
        BY <1>1, UpTo
      <3>2. iter[1..k] = Step(iter[(1..k) \ {Max(1..k)}], order[Max(1..k)])
        BY <1>1, <1>9, <3>1
      <3> QED BY <1>6, <2>2, <3>1, <3>2
    <2> QED BY <2>1, <2>2 DEF Folding
  <1>11. FoldsTo(iter[1..M], base, F, M, T)
    BY <1>1, <1>5, <1>6, <1>10, FoldIs
  <1>12. PICK g \in [1..(M + 1) -> T] : Follows(g, base, F, M) /\ end = g[M + 1]
    BY <1>1, <1>9, <1>11 DEF FoldsTo
  <1>13. g[1].ok /\ Blocks(g[1].touched) = {}
    <2>1. g[1] = base
      BY <1>12 DEF Follows
    <2> QED BY <2>1, EmptyRange DEF base
  <1>14. ASSUME NEW k \in 1..M PROVE Touches(g[k], g[k + 1], order[k])
    <2>1. PICK v \in T : v = g[k] /\ g[k + 1] = Step(v, order[k])
      <3>1. k \in 1..(M + 1)
        BY <1>1
      <3> QED BY <3>1, <1>6, <1>12 DEF Follows
    <2>2. PICK w, t : /\ w = g[k + 1] /\ t = xfs[order[k]].tgt /\ t \in RangeSets /\ v.touched \in RangeSets
                      /\ w.touched = Union(v.touched, t)
                      /\ w.ok <=> v.ok /\ ~Overlaps(Empty, v.touched) /\ ~Overlaps(t, v.touched)
      BY <1>2, <1>3, <1>4, <2>1
    <2>3. Blocks(w.touched) = Blocks(v.touched) \union Blocks(t)
      BY <2>2, UnionIs
    <2>4. ~Overlaps(Empty, v.touched) /\ (Overlaps(t, v.touched) <=> Blocks(v.touched) \intersect Blocks(t) # {})
      BY <2>2, EmptyRange, OverlapsIs
    <2> QED BY <2>1, <2>2, <2>3, <2>4, Zenon DEF Touches
  <1>15. SequenceGood <=> g[M + 1].ok /\ Subtract(tgt.care, g[M + 1].touched) = Empty
    BY <1>0, <1>12, Zenon
  <1> QED BY <1>1, <1>3, <1>12, <1>13, <1>14, <1>15

LEMMA TouchedUpto ==
  ASSUME NEW M \in Nat, M = Len(order), NEW g,
         Blocks(g[1].touched) = {}, \A k \in 1..M : Touches(g[k], g[k + 1], order[k])
  PROVE  \A n \in 0..M : Blocks(g[n + 1].touched) = WrittenUpto(n)
  <1> DEFINE S == {n \in Nat : n <= M => Blocks(g[n + 1].touched) = WrittenUpto(n)}
  <1>1. 0 \in S
    <2>1. g[0 + 1] = g[1] /\ WrittenUpto(0) = {}
      BY WrittenMore
    <2> QED BY <2>1
  <1>2. ASSUME NEW n \in Nat, n \in S PROVE n + 1 \in S
    <2>1. SUFFICES ASSUME n + 1 <= M PROVE Blocks(g[(n + 1) + 1].touched) = WrittenUpto(n + 1)
      OBVIOUS
    <2>2. n + 1 \in 1..M /\ n <= M
      BY <2>1
    <2>3. Blocks(g[(n + 1) + 1].touched) = Blocks(g[n + 1].touched) \union Blocks(xfs[order[n + 1]].tgt)
      BY <2>2 DEF Touches
    <2>4. WrittenUpto(n + 1) = WrittenUpto(n) \union Blocks(xfs[order[n + 1]].tgt)
      BY WrittenMore
    <2> QED BY <1>2, <2>2, <2>3, <2>4
  <1>3. Nat \subseteq S
    <2> HIDE DEF S
    <2> QED BY <1>1, <1>2, SetInduction
  <1> QED BY <1>3

(* AssertSequenceGood sees to it that every block is written. *)
LEMMA GoodCovers ==
  ASSUME NEW img, NEW total, AloneAll(xfs, img, total), order \in Seq(Ids), tgt.care \in RangeSets,
         SequenceGood
  PROVE  Blocks(tgt.care) \subseteq WrittenUpto(Len(order))
  <1>1. PICK M : M = Len(order) /\ M \in Nat
    OBVIOUS
  <1>2. PICK g \in [1..(M + 1) -> [ok : BOOLEAN, touched : RangeSets]] :
           /\ Blocks(g[1].touched) = {} /\ \A k \in 1..M : Touches(g[k], g[k + 1], order[k])
           /\ Subtract(tgt.care, g[M + 1].touched) = Empty
    BY <1>1, GoodSteps
  <1>3. Blocks(g[M + 1].touched) = WrittenUpto(M)
    <2>1. M \in 0..M
      BY <1>1
    <2>2. \A n \in 0..M : Blocks(g[n + 1].touched) = WrittenUpto(n)
      BY ONLY <1>1, <1>2, TouchedUpto
    <2> QED BY <2>1, <2>2
  <1>4. g[M + 1].touched \in RangeSets
    BY <1>1, <1>2
  <1>5. Blocks(tgt.care) \ Blocks(g[M + 1].touched) = {}
    BY <1>2, <1>4, SubtractIs, EmptyRange
  <1> QED BY <1>1, <1>3, <1>5

-------------------------------------------------------------------------------
(* Commands and the data they use.                                         *)

LEMMA RankIs ==
  ASSUME NEW r \in RangeSets, NEW x \in Blocks(r)
  PROVE  Rank(Blocks(r), x) \in 1..Size(r) /\ Size(r) \in Nat
  <1>1. Blocks(r) \subseteq Nat
    BY BlocksAreNumbers DEF RangeSets
  <1>2. IsFiniteSet(Blocks(r)) /\ Size(r) = Cardinality(Blocks(r)) /\ Size(r) \in Nat
    BY SizeIs
  <1>3. PICK A : A = Blocks(r) /\ A \subseteq Int /\ IsFiniteSet(A) /\ x \in A /\ x \in Int
    BY <1>1, <1>2
  <1>4. Cardinality(Below(A, x)) \in Nat /\ Cardinality(Below(A, x)) < Cardinality(A)
    BY <1>3, BelowIs
  <1>5. Rank(A, x) = Cardinality(Below(A, x)) + 1
    BY DEF Rank, Below
  <1> QED BY <1>2, <1>3, <1>4, <1>5

(* The commands of transfers without a source. *)
Cmds == {Command(op, t) : op \in {"new", "zero"}, t \in RangeSets}

LEMMA CmdIs ==
  ASSUME NEW c \in Cmds
  PROVE  c.op \in {"new", "zero"} /\ c.tgt \in RangeSets /\ c.refs = <<>> /\ c.direct = Empty
  <1>1. PICK op \in {"new", "zero"}, t \in RangeSets : c = Command(op, t)
    BY DEF Cmds
  <1>2. c.op = op /\ c.tgt = t /\ c.refs = <<>> /\ c.direct = Empty
    BY <1>1 DEF Command
  <1> QED BY <1>1, <1>2

(* Command c writes what img has, of data d what is behind p up to q.      *)
Does(c, p, q, d, img, total) ==
    /\ Blocks(c.tgt) \subseteq WithData(img, total)
    /\ \/ c.op = "zero" /\ q = p /\ \A x \in Blocks(c.tgt) : img[x] = Zero
       \/ /\ c.op = "new" /\ q = p + Size(c.tgt) /\ q <= Len(d)
          /\ \A x \in Blocks(c.tgt) : d[p + Rank(Blocks(c.tgt), x)] = img[x]

(* off[k] is how much of the data is used before command k.                *)
Offsets(off, cmds, d, img, total) ==
    /\ off \in [1..(Len(cmds) + 1) -> Nat] /\ off[1] = 0 /\ off[Len(cmds) + 1] = Len(d)
    /\ \A k \in 1..Len(cmds) : Does(cmds[k], off[k], off[k + 1], d, img, total)

Plays(cmds, d, img, total) ==
    /\ cmds \in Seq(Cmds) /\ d \in Seq(Contents)
    /\ \E off : Offsets(off, cmds, d, img, total)

WrittenBy(cmds) == UNION {Blocks(cmds[k].tgt) : k \in 1..Len(cmds)}

(* With more data before and behind, the command does the same. *)
LEMMA DoesWithin ==
  ASSUME NEW c \in Cmds, NEW p \in Nat, NEW q \in Nat, NEW img, NEW total, NEW d \in Seq(Contents),
         Does(c, p, q, d, img, total), NEW e, NEW s \in Nat, Len(e) \in Nat, s + Len(d) <= Len(e),
         \A i \in 1..Len(d) : e[s + i] = d[i]
  PROVE  Does(c, s + p, s + q, e, img, total)
  <1>1. Blocks(c.tgt) \subseteq WithData(img, total) /\ c.tgt \in RangeSets
    BY CmdIs DEF Does
  <1>2. CASE c.op = "zero"
    <2>1. q = p /\ \A x \in Blocks(c.tgt) : img[x] = Zero
      BY <1>2 DEF Does
    <2> QED BY <1>1, <1>2, <2>1 DEF Does
  <1>3. CASE c.op # "zero"
    <2>1. /\ c.op = "new" /\ q = p + Size(c.tgt) /\ q <= Len(d)
          /\ \A x \in Blocks(c.tgt) : d[p + Rank(Blocks(c.tgt), x)] = img[x]
      BY <1>3 DEF Does
    <2>2. PICK n : n = Len(d) /\ n \in Nat
      OBVIOUS
    <2>3. ASSUME NEW x \in Blocks(c.tgt) PROVE e[(s + p) + Rank(Blocks(c.tgt), x)] = img[x]
      <3>1. PICK k, z : k = Rank(Blocks(c.tgt), x) /\ z = Size(c.tgt) /\ k \in 1..z /\ z \in Nat
        BY <1>1, RankIs
      <3>2. p + k \in 1..n /\ (s + p) + k = s + (p + k)
        BY <2>1, <2>2, <3>1
      <3>3. e[s + (p + k)] = d[p + k]
        BY <2>2, <3>2
      <3> QED BY <2>1, <3>1, <3>2, <3>3
    <2>4. PICK z : z = Size(c.tgt) /\ z \in Nat
      BY <1>1, SizeIs
    <2>5. s + q = (s + p) + z /\ s + q <= Len(e)
      BY <2>1, <2>2, <2>4
    <2> QED BY <1>1, <2>1, <2>3, <2>4, <2>5 DEF Does
  <1> QED BY <1>2, <1>3

LEMMA PlaysJoined ==
  ASSUME NEW img, NEW total, NEW a, NEW d, Plays(a, d, img, total), NEW b, NEW e, Plays(b, e, img, total)
  PROVE  Plays(a \o b, d \o e, img, total)
  <1>1. a \in Seq(Cmds) /\ d \in Seq(Contents) /\ b \in Seq(Cmds) /\ e \in Seq(Contents)
    BY DEF Plays
  <1>2. PICK oa : Offsets(oa, a, d, img, total)
    BY DEF Plays
  <1>3. PICK ob : Offsets(ob, b, e, img, total)
    BY DEF Plays
  <1>4. PICK n, m, s, t : /\ n = Len(a) /\ m = Len(b) /\ s = Len(d) /\ t = Len(e)
                          /\ n \in Nat /\ m \in Nat /\ s \in Nat /\ t \in Nat
    <2>1. Len(a) \in Nat /\ Len(b) \in Nat /\ Len(d) \in Nat /\ Len(e) \in Nat
      BY <1>1
    <2> QED BY ONLY <2>1
  <1>5. PICK c : c = a \o b
    OBVIOUS
  <1>6. /\ c \in Seq(Cmds) /\ Len(c) = n + m
        /\ \A k \in 1..n : c[k] = a[k]
        /\ \A k \in 1..m : c[n + k] = b[k]
    <2>1. n = Len(a) /\ m = Len(b)
      BY <1>4
    <2> QED BY ONLY <1>1, <1>5, <2>1, Concatenated
  <1>7. PICK f : f = d \o e
    OBVIOUS
  <1>8. /\ f \in Seq(Contents) /\ Len(f) = s + t
        /\ \A k \in 1..s : f[k] = d[k]
        /\ \A k \in 1..t : f[s + k] = e[k]
    <2>1. s = Len(d) /\ t = Len(e)
      BY <1>4
    <2> QED BY ONLY <1>1, <1>7, <2>1, Concatenated
  <1>9. /\ \A k \in 1..(n + 1) : oa[k] \in Nat
        /\ oa[1] = 0 /\ oa[n + 1] = s
        /\ \A k \in 1..n : Does(a[k], oa[k], oa[k + 1], d, img, total)
    BY <1>2, <1>4 DEF Offsets
  <1>10. /\ \A k \in 1..(m + 1) : ob[k] \in Nat
         /\ ob[1] = 0 /\ ob[m + 1] = t
         /\ \A k \in 1..m : Does(b[k], ob[k], ob[k + 1], e, img, total)
    BY <1>3, <1>4 DEF Offsets
  <1>11. PICK off : off = [k \in 1..(n + m + 1) |-> IF k <= n THEN oa[k] ELSE s + ob[k - n]]
    OBVIOUS
  <1>12. \A k \in 1..(n + 1) : off[k] = oa[k]
    <2>1. TAKE k \in 1..(n + 1)
    <2>2. CASE k <= n
      <3>1. k \in 1..(n + m + 1)
        BY <1>4, <2>2
      <3> QED BY <1>11, <2>2, <3>1
    <2>3. CASE k = n + 1
      <3>1. k \in 1..(n + m + 1) /\ ~(k <= n) /\ k - n = 1 /\ s + 0 = s
        BY <1>4, <2>3
      <3>2. off[k] = s + ob[1]
        BY <1>11, <3>1
      <3> QED BY <1>9, <1>10, <2>3, <3>1, <3>2
    <2> QED BY <1>4, <2>2, <2>3
  <1>13. \A k \in 1..(m + 1) : off[n + k] = s + ob[k]
    <2>1. TAKE k \in 1..(m + 1)
    <2>2. n + k \in 1..(n + m + 1) /\ ~(n + k <= n) /\ (n + k) - n = k
      BY <1>4
    <2> QED BY <1>11, <2>2
  <1>14. off \in [1..(Len(c) + 1) -> Nat]
    <2>1. ASSUME NEW k \in 1..(n + m + 1) PROVE off[k] \in Nat
      <3>1. CASE k <= n
        <4>1. k \in 1..(n + 1)
          BY <1>4, <3>1
        <4> QED BY <1>9, <1>12, <4>1
      <3>2. CASE ~(k <= n)
        <4>1. PICK j : j = k - n /\ j \in 1..(m + 1) /\ k = n + j
          BY <1>4, <3>2
        <4>2. ob[j] \in Nat /\ off[k] = s + ob[j]
          BY <1>10, <1>13, <4>1
        <4> QED BY <1>4, <4>2
      <3> QED BY <3>1, <3>2
    <2>2. Len(c) + 1 = n + m + 1
      BY <1>4, <1>6
    <2> QED BY <1>11, <2>1, <2>2
  <1>15. off[1] = 0 /\ off[Len(c) + 1] = Len(f)
    <2>1. 1 \in 1..(n + 1) /\ m + 1 \in 1..(m + 1) /\ Len(c) + 1 = n + (m + 1)
      BY <1>4, <1>6
    <2> QED BY <1>8, <1>9, <1>10, <1>12, <1>13, <2>1
  <1>16. ASSUME NEW k \in 1..Len(c) PROVE Does(c[k], off[k], off[k + 1], f, img, total)
    <2>1. CASE k <= n
      <3>1. k \in 1..n /\ k \in 1..(n + 1) /\ k + 1 \in 1..(n + 1)
        BY <1>4, <1>6, <2>1
      <3>2. PICK p, q : p = oa[k] /\ q = oa[k + 1] /\ p \in Nat /\ q \in Nat
        BY <1>9, <3>1
      <3>3. a[k] \in Cmds /\ Does(a[k], p, q, d, img, total)
        BY <1>1, <1>4, <1>9, <3>1, <3>2
      <3>4. 0 \in Nat /\ Len(f) \in Nat /\ 0 + Len(d) <= Len(f) /\ \A i \in 1..Len(d) : f[0 + i] = d[i]
        BY <1>4, <1>8
      <3>5. Does(a[k], 0 + p, 0 + q, f, img, total)
        BY <1>1, <3>2, <3>3, <3>4, DoesWithin
      <3> QED BY <1>6, <1>12, <3>1, <3>2, <3>5
    <2>2. CASE ~(k <= n)
      <3>1. PICK j : j = k - n /\ j \in 1..m /\ j \in 1..(m + 1) /\ j + 1 \in 1..(m + 1)
                     /\ k = n + j /\ k + 1 = n + (j + 1)
        <4>1. n \in Nat /\ m \in Nat /\ k \in 1..(n + m) /\ ~(k <= n)
          BY <1>4, <1>6, <2>2
        <4>2. k - n \in 1..m /\ k - n \in 1..(m + 1) /\ (k - n) + 1 \in 1..(m + 1)
              /\ k = n + (k - n) /\ k + 1 = n + ((k - n) + 1)
          BY ONLY <4>1
        <4> QED BY ONLY <4>2
      <3>2. PICK p, q : p = ob[j] /\ q = ob[j + 1] /\ p \in Nat /\ q \in Nat
        BY <1>10, <3>1
      <3>3. b[j] \in Cmds /\ Does(b[j], p, q, e, img, total)
        <4>1. Does(b[j], p, q, e, img, total)
          BY <1>10, <3>1, <3>2
        <4>2. j \in 1..Len(b)
          BY <1>4, <3>1
        <4> QED BY <1>1, <4>1, <4>2
      <3>4. Len(f) \in Nat /\ s + Len(e) <= Len(f) /\ \A i \in 1..Len(e) : f[s + i] = e[i]
        BY <1>4, <1>8
      <3>5. Does(b[j], s + p, s + q, f, img, total)
        BY <1>1, <1>4, <3>2, <3>3, <3>4, DoesWithin
      <3>6. off[k] = s + p /\ off[k + 1] = s + q /\ c[k] = b[j]
        BY <1>6, <1>13, <3>1, <3>2
      <3> QED BY <3>5, <3>6
    <2> QED BY <2>1, <2>2
  <1> QED BY <1>5, <1>6, <1>7, <1>8, <1>14, <1>15, <1>16 DEF Plays, Offsets

LEMMA WrittenByJoined ==
  ASSUME NEW a \in Seq(Cmds), NEW b \in Seq(Cmds)
  PROVE  WrittenBy(a \o b) = WrittenBy(a) \union WrittenBy(b)
  <1>1. PICK n, m : n = Len(a) /\ m = Len(b) /\ n \in Nat /\ m \in Nat
    <2>1. Len(a) \in Nat /\ Len(b) \in Nat
      OBVIOUS
    <2> QED BY ONLY <2>1
  <1>2. PICK c : c = a \o b
    OBVIOUS
  <1>3. /\ Len(c) = n + m
        /\ \A k \in 1..n : c[k] = a[k]
        /\ \A k \in 1..m : c[n + k] = b[k]
    <2>1. n = Len(a) /\ m = Len(b) /\ a \in Seq(Cmds) /\ b \in Seq(Cmds)
      BY <1>1
    <2> QED BY ONLY <1>2, <2>1, Concatenated
  <1>4. ASSUME NEW x PROVE x \in WrittenBy(c) <=> x \in WrittenBy(a) \/ x \in WrittenBy(b)
    <2>1. x \in WrittenBy(c) <=> \E k \in 1..(n + m) : x \in Blocks(c[k].tgt)
      BY <1>3 DEF WrittenBy
    <2>2. x \in WrittenBy(a) <=> \E k \in 1..n : x \in Blocks(a[k].tgt)
      BY <1>1 DEF WrittenBy
    <2>3. x \in WrittenBy(b) <=> \E k \in 1..m : x \in Blocks(b[k].tgt)
      BY <1>1 DEF WrittenBy
    <2>4. \A k \in 1..(n + m) : k \in 1..n \/ \E j \in 1..m : k = n + j
      <3>1. TAKE k \in 1..(n + m)
      <3>2. CASE k <= n
        BY <1>1, <3>2
      <3>3. CASE ~(k <= n)
        <4>1. k - n \in 1..m /\ k = n + (k - n)
          BY <1>1, <3>3
        <4> QED BY <4>1
      <3> QED BY <3>2, <3>3
    <2>5. (\A k \in 1..n : k \in 1..(n + m)) /\ (\A j \in 1..m : n + j \in 1..(n + m))
      BY <1>1
    <2> QED BY <1>3, <2>1, <2>2, <2>3, <2>4, <2>5
  <1> QED BY <1>2, <1>4

(* The commands write n blocks in all. *)
Sizes(s, cmds) ==
    /\ s \in [1..(Len(cmds) + 1) -> Nat] /\ s[1] = 0
    /\ \A k \in 1..Len(cmds) : s[k + 1] = s[k] + Size(cmds[k].tgt)

Weighs(cmds, n) == cmds \in Seq(Cmds) /\ \E s : Sizes(s, cmds) /\ s[Len(cmds) + 1] = n

LEMMA WeighsJoined ==
  ASSUME NEW a, NEW u, Weighs(a, u), NEW b, NEW v, Weighs(b, v)
  PROVE  Weighs(a \o b, u + v) /\ u \in Nat /\ v \in Nat
  <1>1. a \in Seq(Cmds) /\ b \in Seq(Cmds)
    BY DEF Weighs
  <1>2. PICK sa : Sizes(sa, a) /\ sa[Len(a) + 1] = u
    BY DEF Weighs
  <1>3. PICK sb : Sizes(sb, b) /\ sb[Len(b) + 1] = v
    BY DEF Weighs
  <1>4. PICK n, m : n = Len(a) /\ m = Len(b) /\ n \in Nat /\ m \in Nat
    <2>1. Len(a) \in Nat /\ Len(b) \in Nat
      BY <1>1
    <2> QED BY ONLY <2>1
  <1>5. PICK c : c = a \o b
    OBVIOUS
  <1>6. /\ c \in Seq(Cmds) /\ Len(c) = n + m
        /\ \A k \in 1..n : c[k] = a[k]
        /\ \A k \in 1..m : c[n + k] = b[k]
    <2>1. n = Len(a) /\ m = Len(b)
      BY <1>4
    <2> QED BY ONLY <1>1, <1>5, <2>1, Concatenated
  <1>7. /\ \A k \in 1..(n + 1) : sa[k] \in Nat
        /\ sa[1] = 0 /\ sa[n + 1] = u
        /\ \A k \in 1..n : sa[k + 1] = sa[k] + Size(a[k].tgt)
    BY <1>2, <1>4 DEF Sizes
  <1>8. /\ \A k \in 1..(m + 1) : sb[k] \in Nat
        /\ sb[1] = 0 /\ sb[m + 1] = v
        /\ \A k \in 1..m : sb[k + 1] = sb[k] + Size(b[k].tgt)
    BY <1>3, <1>4 DEF Sizes
  <1>9. u \in Nat /\ v \in Nat
    <2>1. n + 1 \in 1..(n + 1) /\ m + 1 \in 1..(m + 1)
      BY <1>4
    <2> QED BY <1>7, <1>8, <2>1
  <1>10. PICK s : s = [k \in 1..(n + m + 1) |-> IF k <= n THEN sa[k] ELSE u + sb[k - n]]
    OBVIOUS
  <1>11. \A k \in 1..(n + 1) : s[k] = sa[k]
    <2>1. TAKE k \in 1..(n + 1)
    <2>2. CASE k <= n
      <3>1. k \in 1..(n + m + 1)
        BY <1>4, <2>2
      <3> QED BY <1>10, <2>2, <3>1
    <2>3. CASE k = n + 1
      <3>1. k \in 1..(n + m + 1) /\ ~(k <= n) /\ k - n = 1 /\ u + 0 = u
        BY <1>4, <1>9, <2>3
      <3>2. s[k] = u + sb[1]
        BY <1>10, <3>1
      <3> QED BY <1>7, <1>8, <2>3, <3>1, <3>2
    <2> QED BY <1>4, <2>2, <2>3
  <1>12. \A k \in 1..(m + 1) : s[n + k] = u + sb[k]
    <2>1. TAKE k \in 1..(m + 1)
    <2>2. n + k \in 1..(n + m + 1) /\ ~(n + k <= n) /\ (n + k) - n = k
      BY <1>4
    <2> QED BY <1>10, <2>2
  <1>13. s \in [1..(Len(c) + 1) -> Nat]
    <2>1. ASSUME NEW k \in 1..(n + m + 1) PROVE s[k] \in Nat
      <3>1. CASE k <= n
        <4>1. k \in 1..(n + 1)
          BY <1>4, <3>1
        <4> QED BY <1>7, <1>11, <4>1
      <3>2. CASE ~(k <= n)
        <4>1. PICK j : j = k - n /\ j \in 1..(m + 1) /\ k = n + j
          BY <1>4, <3>2
        <4>2. sb[j] \in Nat /\ s[k] = u + sb[j]
          BY <1>8, <1>12, <4>1
        <4> QED BY <1>9, <4>2
      <3> QED BY <3>1, <3>2
    <2>2. Len(c) + 1 = n + m + 1
      BY <1>4, <1>6
    <2> QED BY <1>10, <2>1, <2>2
  <1>14. s[1] = 0 /\ s[Len(c) + 1] = u + v
    <2>1. 1 \in 1..(n + 1) /\ m + 1 \in 1..(m + 1) /\ Len(c) + 1 = n + (m + 1)
      BY <1>4, <1>6
    <2> QED BY <1>7, <1>8, <1>11, <1>12, <2>1
  <1>15. ASSUME NEW k \in 1..Len(c) PROVE s[k + 1] = s[k] + Size(c[k].tgt)
    <2>1. CASE k <= n
      <3>1. k \in 1..n /\ k \in 1..(n + 1) /\ k + 1 \in 1..(n + 1)
        BY <1>4, <1>6, <2>1
      <3> QED BY <1>6, <1>7, <1>11, <3>1
    <2>2. CASE ~(k <= n)
      <3>1. PICK j : j = k - n /\ j \in 1..m /\ j \in 1..(m + 1) /\ j + 1 \in 1..(m + 1)
                     /\ k = n + j /\ k + 1 = n + (j + 1)
        <4>1. n \in Nat /\ m \in Nat /\ k \in 1..(n + m) /\ ~(k <= n)
          BY <1>4, <1>6, <2>2
        <4>2. k - n \in 1..m /\ k - n \in 1..(m + 1) /\ (k - n) + 1 \in 1..(m + 1)
              /\ k = n + (k - n) /\ k + 1 = n + ((k - n) + 1)
          BY ONLY <4>1
        <4> QED BY ONLY <4>2
      <3>2. PICK z : z = Size(b[j].tgt) /\ z \in Nat
        <4>1. b[j] \in Cmds
          BY <1>1, <1>4, <3>1
        <4> QED BY <4>1, CmdIs, SizeIs
      <3>3. s[k] = u + sb[j] /\ s[k + 1] = u + sb[j + 1] /\ sb[j + 1] = sb[j] + z /\ c[k] = b[j]
            /\ sb[j] \in Nat
        BY <1>6, <1>8, <1>12, <3>1, <3>2
      <3> QED BY <1>9, <3>2, <3>3
    <2> QED BY <2>1, <2>2
  <1> QED BY <1>5, <1>6, <1>9, <1>13, <1>14, <1>15 DEF Weighs, Sizes

LEMMA WeighsNat ==
  ASSUME NEW cmds, NEW n, Weighs(cmds, n)
  PROVE  n \in Nat
  <1>1. cmds \in Seq(Cmds)
    BY DEF Weighs
  <1>2. PICK s : Sizes(s, cmds) /\ s[Len(cmds) + 1] = n
    BY DEF Weighs
  <1>3. PICK m : m = Len(cmds) /\ m \in Nat /\ m + 1 \in 1..(m + 1)
    <2>1. Len(cmds) \in Nat
      BY <1>1
    <2> QED BY ONLY <2>1
  <1> QED BY <1>2, <1>3 DEF Sizes

(* No command, and one. *)
LEMMA NoneDoes ==
  ASSUME NEW img, NEW total
  PROVE  Plays(<<>>, <<>>, img, total) /\ WrittenBy(<<>>) = {} /\ Weighs(<<>>, 0)
  <1>1. PICK no : no = <<>> /\ no \in Seq(Cmds) /\ no \in Seq(Contents) /\ Len(no) = 0
    <2>1. \A S : <<>> \in Seq(S)
      OBVIOUS
    <2>2. Len(<<>>) = 0
      OBVIOUS
    <2>3. <<>> \in Seq(Cmds) /\ <<>> \in Seq(Contents)
      BY ONLY <2>1
    <2> QED BY ONLY <2>2, <2>3
  <1>2. PICK off : off = [k \in 1..1 |-> 0]
    OBVIOUS
  <1>3. off \in [1..(Len(no) + 1) -> Nat] /\ off[1] = 0 /\ Len(no) + 1 = 1 /\ 1..Len(no) = {}
    BY <1>1, <1>2
  <1>4. Offsets(off, no, no, img, total)
    BY <1>1, <1>3 DEF Offsets
  <1>5. Sizes(off, no) /\ off[Len(no) + 1] = 0
    BY <1>1, <1>3 DEF Sizes
  <1>6. WrittenBy(no) = {}
    BY <1>3 DEF WrittenBy
  <1> QED BY <1>1, <1>4, <1>5, <1>6 DEF Plays, Weighs

LEMMA OneDoes ==
  ASSUME NEW img, NEW total, NEW c \in Cmds, NEW d \in Seq(Contents), Does(c, 0, Len(d), d, img, total)
  PROVE  Plays(<<c>>, d, img, total) /\ WrittenBy(<<c>>) = Blocks(c.tgt) /\ Weighs(<<c>>, Size(c.tgt))
  <1>1. PICK one : one = <<c>> /\ one \in Seq(Cmds) /\ Len(one) = 1 /\ one[1] = c /\ Len(one) + 1 = 2
    <2>1. PICK one : one = <<c>>
      OBVIOUS
    <2>2. \A S : c \in S => <<c>> \in Seq(S)
      OBVIOUS
    <2>3. one \in Seq(Cmds)
      BY <2>1, <2>2
    <2>4. Len(one) = 1 /\ one[1] = c /\ Len(one) + 1 = 2
      BY ONLY <2>1
    <2> QED BY ONLY <2>1, <2>3, <2>4
  <1>2. PICK n, z : n = Len(d) /\ z = Size(c.tgt) /\ n \in Nat /\ z \in Nat
    <2>1. Len(d) \in Nat /\ Size(c.tgt) \in Nat
      BY CmdIs, SizeIs
    <2> QED BY ONLY <2>1
  <1>3. PICK off : off = [k \in 1..2 |-> IF k = 1 THEN 0 ELSE n]
    OBVIOUS
  <1>4. off \in [1..2 -> Nat] /\ off[1] = 0 /\ off[2] = n
    BY <1>2, <1>3
  <1>5. \A k \in 1..1 : k = 1 /\ k + 1 = 2
    OBVIOUS
  <1>6. Offsets(off, one, d, img, total)
    BY <1>1, <1>2, <1>4, <1>5 DEF Offsets
  <1>7. PICK s : s = [k \in 1..2 |-> IF k = 1 THEN 0 ELSE z]
    OBVIOUS
  <1>8. s \in [1..2 -> Nat] /\ s[1] = 0 /\ s[2] = z /\ z = 0 + z
    BY <1>2, <1>7
  <1>9. Sizes(s, one) /\ s[Len(one) + 1] = z
    BY <1>1, <1>2, <1>5, <1>8 DEF Sizes
  <1>10. WrittenBy(one) = Blocks(c.tgt)
    <2>1. 1..1 = {1}
      OBVIOUS
    <2> QED BY <1>1, <2>1 DEF WrittenBy
  <1> QED BY <1>1, <1>2, <1>6, <1>9, <1>10 DEF Plays, Weighs

(* One command of WriteTransfersZero. *)
ZeroStep(acc) ==
    IF acc.left = Empty THEN acc
    ELSE [left |-> Subtract(acc.left, First(acc.left, ZeroLimit)),
          out |-> Append(acc.out, Command("zero", First(acc.left, ZeroLimit)))]

LEMMA FirstPart ==
  ASSUME NEW r \in RangeSets, r # Empty
  PROVE  LET f == First(r, ZeroLimit)
             s == Subtract(r, f)
         IN  /\ f \in RangeSets /\ Blocks(f) \subseteq Blocks(r) /\ Size(f) \in Nat \ {0}
             /\ s \in RangeSets /\ Blocks(s) = Blocks(r) \ Blocks(f) /\ Size(s) \in Nat
             /\ Size(r) = Size(f) + Size(s)
  <1>1. PICK f : f = First(r, ZeroLimit) /\ f \in RangeSets
                 /\ Blocks(f) = {x \in Blocks(r) : Cardinality(Below(Blocks(r), x)) < ZeroLimit}
    <2>1. ZeroLimit \in Nat
      BY LimitAssumption
    <2> QED BY <2>1, FirstIs
  <1>2. PICK s : s = Subtract(r, f) /\ s \in RangeSets /\ Blocks(s) = Blocks(r) \ Blocks(f)
    BY <1>1, SubtractIs
  <1>3. /\ IsFiniteSet(Blocks(r)) /\ IsFiniteSet(Blocks(f)) /\ IsFiniteSet(Blocks(s))
        /\ Size(r) = Cardinality(Blocks(r)) /\ Size(f) = Cardinality(Blocks(f)) /\ Size(s) = Cardinality(Blocks(s))
        /\ Size(r) \in Nat /\ Size(f) \in Nat /\ Size(s) \in Nat
    BY <1>1, <1>2, SizeIs
  <1>4. Blocks(f) # {}
    <2>1. Blocks(r) # {} /\ Blocks(r) \subseteq Nat
      BY EmptyIs, BlocksAreNumbers DEF RangeSets
    <2>2. PICK x \in Blocks(r) : \A y \in Blocks(r) : ~(y < x)
      BY <2>1, Least
    <2>3. Below(Blocks(r), x) = {}
      BY <2>2 DEF Below
    <2>4. Cardinality(Below(Blocks(r), x)) < ZeroLimit
      <3>1. Cardinality({}) = 0
        BY FS_EmptySet
      <3>2. 0 < ZeroLimit
        BY LimitAssumption
      <3> QED BY <2>3, <3>1, <3>2
    <2> QED BY <1>1, <2>4
  <1>5. Size(f) # 0
    BY <1>3, <1>4, FS_EmptySet
  <1>6. Cardinality(Blocks(s)) = Cardinality(Blocks(r)) - Cardinality(Blocks(f))
    <2>1. Blocks(r) \intersect Blocks(f) = Blocks(f)
      BY <1>1
    <2>2. Cardinality(Blocks(r) \ Blocks(f)) = Cardinality(Blocks(r)) - Cardinality(Blocks(r) \intersect Blocks(f))
      BY ONLY <1>3, FS_Difference
    <2> QED BY <1>2, <2>1, <2>2
  <1>7. Size(r) = Size(f) + Size(s)
    BY ONLY <1>3, <1>6
  <1>8. Blocks(f) \subseteq Blocks(r)
    BY <1>1
  <1> QED BY <1>1, <1>2, <1>3, <1>5, <1>7, <1>8

(* After k steps. *)
ZeroDone(acc, k, r, img, total) ==
    /\ acc.left \in RangeSets /\ Blocks(acc.left) \subseteq Blocks(r)
    /\ Plays(acc.out, <<>>, img, total)
    /\ WrittenBy(acc.out) \union Blocks(acc.left) = Blocks(r)
    /\ \E n : Weighs(acc.out, n) /\ n + Size(acc.left) = Size(r)
    /\ acc.left # Empty => Size(acc.left) + k <= Size(r)

LEMMA ZeroStepIs ==
  ASSUME NEW r \in RangeSets, NEW img, NEW total, Blocks(r) \subseteq WithData(img, total),
         \A x \in Blocks(r) : img[x] = Zero,
         NEW k \in Nat, NEW acc, ZeroDone(acc, k, r, img, total)
  PROVE  ZeroDone(ZeroStep(acc), k + 1, r, img, total)
  <1>1. CASE acc.left = Empty
    <2>1. ZeroStep(acc) = acc
      BY <1>1 DEF ZeroStep
    <2> QED BY <1>1, <2>1 DEF ZeroDone
  <1>2. CASE acc.left # Empty
    <2>1. PICK l : l = acc.left /\ l \in RangeSets /\ l # Empty /\ Blocks(l) \subseteq Blocks(r)
                   /\ Size(l) + k <= Size(r)
      BY <1>2 DEF ZeroDone
    <2>2. PICK f, s : /\ f = First(l, ZeroLimit) /\ s = Subtract(l, f)
                      /\ f \in RangeSets /\ Blocks(f) \subseteq Blocks(l) /\ Size(f) \in Nat \ {0}
                      /\ s \in RangeSets /\ Blocks(s) = Blocks(l) \ Blocks(f) /\ Size(s) \in Nat
                      /\ Size(l) = Size(f) + Size(s)
      BY <2>1, FirstPart
    <2>3. PICK c : c = Command("zero", f) /\ c \in Cmds /\ c.tgt = f /\ c.op = "zero"
      <3>1. PICK c : c = Command("zero", f)
        OBVIOUS
      <3>2. c \in Cmds
        BY <2>2, <3>1 DEF Cmds
      <3>3. c.tgt = f /\ c.op = "zero"
        BY <3>1 DEF Command
      <3> QED BY <3>1, <3>2, <3>3
    <2>4. PICK new : new = ZeroStep(acc) /\ new.left = s /\ new.out = Append(acc.out, c)
      <3>1. PICK new : new = ZeroStep(acc)
        OBVIOUS
      <3>2. new = [left |-> s, out |-> Append(acc.out, c)]
        BY <1>2, <2>1, <2>2, <2>3, <3>1 DEF ZeroStep
      <3>3. new.left = s /\ new.out = Append(acc.out, c)
        BY ONLY <3>2
      <3> QED BY <3>1, <3>3
    <2>5. PICK o : o = acc.out /\ o \in Seq(Cmds) /\ Plays(o, <<>>, img, total)
      BY DEF ZeroDone, Plays
    <2>6. new.out = o \o <<c>>
      BY <2>3, <2>4, <2>5, AppendIsConcat
    <2>7. Plays(<<c>>, <<>>, img, total) /\ WrittenBy(<<c>>) = Blocks(f) /\ Weighs(<<c>>, Size(f))
      <3>1. PICK no : no = <<>> /\ no \in Seq(Contents) /\ Len(no) = 0
        <4>1. \A S : <<>> \in Seq(S)
          OBVIOUS
        <4>2. Len(<<>>) = 0
          OBVIOUS
        <4>3. <<>> \in Seq(Contents)
          BY ONLY <4>1
        <4> QED BY ONLY <4>2, <4>3
      <3>2. Does(c, 0, 0, no, img, total)
        BY <2>1, <2>2, <2>3 DEF Does
      <3> QED BY <2>3, <3>1, <3>2, OneDoes
    <2>8. Plays(new.out, <<>>, img, total)
      <3>1. Plays(o \o <<c>>, <<>> \o <<>>, img, total)
        BY <2>5, <2>7, PlaysJoined
      <3>2. <<>> \o <<>> = <<>>
        OBVIOUS
      <3> QED BY <2>6, <3>1, <3>2
    <2>9. WrittenBy(new.out) = WrittenBy(o) \union Blocks(f)
      <3>1. <<c>> \in Seq(Cmds)
        BY <2>7 DEF Plays
      <3> QED BY <2>5, <2>6, <2>7, <3>1, WrittenByJoined
    <2>10. WrittenBy(new.out) \union Blocks(s) = Blocks(r)
      <3>1. WrittenBy(o) \union Blocks(l) = Blocks(r)
        BY <2>1, <2>5 DEF ZeroDone
      <3> QED BY <2>2, <2>9, <3>1
    <2>11. PICK n : Weighs(o, n) /\ n + Size(l) = Size(r)
      BY <2>1, <2>5 DEF ZeroDone
    <2>12. Weighs(new.out, n + Size(f)) /\ n \in Nat
      BY <2>6, <2>7, <2>11, WeighsJoined
    <2>13. (n + Size(f)) + Size(s) = Size(r)
      BY <2>2, <2>11, <2>12
    <2>14. Size(s) + (k + 1) <= Size(r)
      <3>1. Size(r) \in Nat
        BY SizeIs
      <3> QED BY <2>1, <2>2, <3>1
    <2>15. Blocks(s) \subseteq Blocks(r)
      BY <2>1, <2>2
    <2> QED BY <2>2, <2>4, <2>8, <2>10, <2>12, <2>13, <2>14, <2>15 DEF ZeroDone
  <1> QED BY <1>1, <1>2

(* The commands for zeros write zeros to all of r, and use no data.        *)
LEMMA ZeroPlays ==
  ASSUME NEW r \in RangeSets, NEW img, NEW total, Blocks(r) \subseteq WithData(img, total),
         \A x \in Blocks(r) : img[x] = Zero
  PROVE  /\ Plays(ZeroCommands(r), <<>>, img, total) /\ WrittenBy(ZeroCommands(r)) = Blocks(r)
         /\ Weighs(ZeroCommands(r), Size(r))
  <1> DEFINE base == [left |-> r, out |-> <<>>]
             Step(acc, i) ==
               IF acc.left = Empty THEN acc
               ELSE [left |-> Subtract(acc.left, First(acc.left, ZeroLimit)),
                     out |-> Append(acc.out, Command("zero", First(acc.left, ZeroLimit)))]
             P == [i \in 1..Size(r) |-> i]
             Same(iter) ==
               iter = [u \in SUBSET DOMAIN P |->
                         IF u = {} THEN base
                         ELSE LET x == Max(u) IN Step(iter[u \ {x}], P[x])]
  <1>0. ZeroCommands(r) = (CHOOSE iter : Same(iter))[DOMAIN P].out
    <2>1. ZeroCommands(r) = FoldLeft(Step, base, P).out
      BY Zenon DEF ZeroCommands
    <2>2. FoldLeft(Step, base, P) = (CHOOSE iter : Same(iter))[DOMAIN P]
      BY Zenon DEF FoldLeft, MapThenFoldSet
    <2> QED BY <2>1, <2>2, Zenon
  <1>1. PICK M : M = Size(r) /\ M \in Nat /\ DOMAIN P = 1..M
    <2>1. Size(r) \in Nat
      BY SizeIs
    <2> QED BY <2>1
  <1> HIDE DEF P
  <1>2. \A acc, i : Step(acc, i) = ZeroStep(acc)
    BY DEF ZeroStep
  <1> HIDE DEF Step
  <1>3. PICK T : T = [left : RangeSets, out : Seq(Cmds)]
    OBVIOUS
  <1>4. \A v \in T : ZeroStep(v) \in T
    <2>1. TAKE v \in T
    <2>2. v.left \in RangeSets /\ v.out \in Seq(Cmds)
      BY <1>3
    <2>3. CASE v.left = Empty
      BY <2>3 DEF ZeroStep
    <2>4. CASE v.left # Empty
      <3>1. PICK f, s : f = First(v.left, ZeroLimit) /\ s = Subtract(v.left, f) /\ f \in RangeSets /\ s \in RangeSets
        BY <2>2, <2>4, FirstPart
      <3>2. PICK c : c = Command("zero", f) /\ c \in Cmds
        BY <3>1 DEF Cmds
      <3>3. Append(v.out, c) \in Seq(Cmds)
        BY <2>2, <3>2
      <3>4. ZeroStep(v) = [left |-> s, out |-> Append(v.out, c)]
        BY <2>4, <3>1, <3>2 DEF ZeroStep
      <3> QED BY <1>3, <3>1, <3>3, <3>4
    <2> QED BY <2>3, <2>4
  <1>5. base \in T
    BY <1>3
  <1>6. PICK F : /\ F \in [(1..M) \X T -> T]
                 /\ \A k \in 1..M, v \in T : F[<<k, v>>] = ZeroStep(v)
    <2> DEFINE F == [p \in (1..M) \X T |-> ZeroStep(p[2])]
    <2>1. F \in [(1..M) \X T -> T]
      BY <1>4
    <2>2. \A k \in 1..M, v \in T : F[<<k, v>>] = ZeroStep(v)
      OBVIOUS
    <2> HIDE DEF F
    <2> QED BY <2>1, <2>2
  <1> HIDE DEF base
  <1>7. PICK it \in [SUBSET (1..M) -> T] : Iterates(it, base, F, M)
    BY <1>1, <1>5, <1>6, FoldExists, Zenon
  <1>8. Same(it)
    <2>1. ASSUME NEW u \in SUBSET (1..M), u # {}
          PROVE  F[<<Max(u), it[u \ {Max(u)}]>>] = Step(it[u \ {Max(u)}], P[Max(u)])
      <3>1. Max(u) \in 1..M /\ u \ {Max(u)} \in SUBSET (1..M)
        BY <1>1, <2>1, MaxOf
      <3> QED BY <1>2, <1>6, <1>7, <3>1
    <2> QED BY <1>1, <1>7, <2>1 DEF Iterates
  <1>9. PICK iter : Same(iter) /\ ZeroCommands(r) = iter[DOMAIN P].out
    <2> HIDE DEF Same
    <2> QED BY <1>0, <1>8, Zenon
  <1>10. Folding(iter, base, F, M, T)
    <2>1. iter[{}] = base
      BY <1>9
    <2>2. ASSUME NEW k \in 1..M, iter[1..(k - 1)] \in T PROVE iter[1..k] = F[<<k, iter[1..(k - 1)]>>]
      <3>1. /\ 1..k \in SUBSET (1..M) /\ 1..k # {} /\ Max(1..k) = k /\ (1..k) \ {k} = 1..(k - 1)
        BY <1>1, UpTo
      <3>2. iter[1..k] = Step(iter[(1..k) \ {Max(1..k)}], P[Max(1..k)])
        BY <1>1, <1>9, <3>1
      <3> QED BY <1>2, <1>6, <2>2, <3>1, <3>2
    <2> QED BY <2>1, <2>2 DEF Folding
  <1>11. FoldsTo(iter[1..M], base, F, M, T)
    BY <1>1, <1>5, <1>6, <1>10, FoldIs
  <1>12. PICK g \in [1..(M + 1) -> T] : Follows(g, base, F, M) /\ iter[1..M] = g[M + 1]
    BY <1>11 DEF FoldsTo
  <1> DEFINE S == {k \in Nat : k <= M => ZeroDone(g[k + 1], k, r, img, total)}
  <1>13. 0 \in S
    <2>1. g[0 + 1] = base
      BY <1>12 DEF Follows
    <2>2. base.left = r /\ base.out = <<>>
      BY DEF base
    <2>3. 0 + Size(r) = Size(r) /\ Size(r) + 0 <= Size(r)
      BY <1>1
    <2>4. ZeroDone(base, 0, r, img, total)
      BY <2>2, <2>3, NoneDoes DEF ZeroDone
    <2> QED BY <2>1, <2>4
  <1>14. ASSUME NEW k \in Nat, k \in S PROVE k + 1 \in S
    <2>1. SUFFICES ASSUME k + 1 <= M PROVE ZeroDone(g[(k + 1) + 1], k + 1, r, img, total)
      OBVIOUS
    <2>2. PICK j : j = k + 1 /\ j \in 1..M /\ j \in 1..(M + 1) /\ k <= M
      BY <1>1, <2>1
    <2>3. PICK v \in T : v = g[j] /\ g[j + 1] = ZeroStep(v)
      <3>1. PICK v : v = g[j]
        OBVIOUS
      <3>2. v \in T
        BY <1>12, <2>2, <3>1
      <3>3. g[j + 1] = F[<<j, v>>]
        BY <1>12, <2>2, <3>1 DEF Follows
      <3>4. F[<<j, v>>] = ZeroStep(v)
        BY <1>6, <2>2, <3>2
      <3> QED BY <3>1, <3>2, <3>3, <3>4
    <2>4. ZeroDone(v, k, r, img, total)
      BY <1>14, <2>2, <2>3
    <2>5. ZeroDone(ZeroStep(v), k + 1, r, img, total)
      BY <2>4, ZeroStepIs
    <2> QED BY <2>2, <2>3, <2>5
  <1> HIDE DEF S
  <1>15. M \in S
    BY <1>1, <1>13, <1>14, SetInduction
  <1>16. PICK end : end = g[M + 1] /\ ZeroDone(end, M, r, img, total) /\ ZeroCommands(r) = end.out
    BY <1>1, <1>9, <1>12, <1>15 DEF S
  <1>17. end.left = Empty
    <2>1. SUFFICES ASSUME end.left # Empty PROVE FALSE
      OBVIOUS
    <2>2. end.left \in RangeSets /\ Size(end.left) + M <= M
      BY <1>1, <1>16, <2>1 DEF ZeroDone
    <2>3. IsFiniteSet(Blocks(end.left)) /\ Size(end.left) = Cardinality(Blocks(end.left)) /\ Size(end.left) \in Nat
      BY <2>2, SizeIs
    <2>4. Cardinality(Blocks(end.left)) = 0
      BY <1>1, <2>2, <2>3
    <2>5. Blocks(end.left) = {}
      BY <2>3, <2>4, FS_EmptySet
    <2> QED BY <2>1, <2>2, <2>5, EmptyIs
  <1>18. Blocks(Empty) = {} /\ Size(Empty) = 0
    <2>1. Empty \in RangeSets /\ Blocks(Empty) = {}
      BY EmptyRange
    <2>2. Size(Empty) = Cardinality(Blocks(Empty))
      BY <2>1, SizeIs
    <2> QED BY <2>1, <2>2, FS_EmptySet
  <1>19. PICK n : Weighs(end.out, n) /\ n + Size(end.left) = Size(r)
    BY <1>16 DEF ZeroDone
  <1>20. n = Size(r)
    <2>1. n \in Nat
      BY <1>19, NoneDoes, WeighsJoined
    <2> QED BY <1>1, <1>17, <1>18, <1>19, <2>1
  <1> QED BY <1>16, <1>17, <1>18, <1>19, <1>20 DEF ZeroDone

-------------------------------------------------------------------------------
(* WriteTransfers                                                          *)

(* What WriteTransfers keeps between transfers without a source. *)
Done(cmds, n) ==
    [out |-> cmds, sids |-> <<>>, counts |-> <<>>, free |-> {}, next |-> 0, stashed |-> 0,
     max |-> 0, total |-> n, touched |-> Empty, ok |-> TRUE,
     unstashed |-> Empty, refs |-> <<>>, freed |-> <<>>, freedSize |-> 0]

Dones == {Done(cmds, n) : cmds \in Seq(Cmds), n \in Nat}

LEMMA DoneIn ==
  /\ \A cmds \in Seq(Cmds), n \in Nat : Done(cmds, n) \in Dones
  /\ \A v \in Dones : \E cmds \in Seq(Cmds), n \in Nat : v = Done(cmds, n)
  BY DEF Dones

LEMMA NoStashMade ==
  ASSUME NEW xf, xf.stash = <<>>, NEW acc
  PROVE  MakeStashes(xf, acc) = acc
  <1> DEFINE Same(iter) ==
               iter = [u \in SUBSET DOMAIN <<>> |->
                         IF u = {} THEN acc
                         ELSE LET x == Max(u) IN MakeStash(iter[u \ {x}], <<>>[x])]
  <1>1. MakeStashes(xf, acc) = (CHOOSE iter : Same(iter))[DOMAIN <<>>]
    <2>1. MakeStashes(xf, acc) = FoldLeft(MakeStash, acc, <<>>)
      BY Zenon DEF MakeStashes
    <2>2. FoldLeft(MakeStash, acc, <<>>) = (CHOOSE iter : Same(iter))[DOMAIN <<>>]
      BY Zenon DEF FoldLeft, MapThenFoldSet
    <2> QED BY <2>1, <2>2, Zenon
  <1>2. DOMAIN <<>> = {}
    OBVIOUS
  <1>3. PICK it : it = [u \in SUBSET {} |-> acc]
    OBVIOUS
  <1>4. Same(it)
    BY <1>2, <1>3
  <1>5. PICK iter : Same(iter) /\ MakeStashes(xf, acc) = iter[DOMAIN <<>>]
    <2> HIDE DEF Same
    <2> QED BY <1>1, <1>4, Zenon
  <1>6. iter[{}] = acc
    BY <1>2, <1>5
  <1> QED BY <1>2, <1>5, <1>6

LEMMA NoStashTaken ==
  ASSUME NEW xf, xf.use = <<>>, NEW acc
  PROVE  TakeStashes(xf, acc) = acc
  <1> DEFINE Step(a, s) == TakeStash(xf, a, s)
             Same(iter) ==
               iter = [u \in SUBSET DOMAIN <<>> |->
                         IF u = {} THEN acc
                         ELSE LET x == Max(u) IN Step(iter[u \ {x}], <<>>[x])]
  <1>1. TakeStashes(xf, acc) = (CHOOSE iter : Same(iter))[DOMAIN <<>>]
    BY Zenon DEF TakeStashes, FoldLeft, MapThenFoldSet
  <1>2. DOMAIN <<>> = {}
    OBVIOUS
  <1>3. PICK it : it = [u \in SUBSET {} |-> acc]
    OBVIOUS
  <1>4. Same(it)
    BY <1>2, <1>3
  <1>5. PICK iter : Same(iter) /\ TakeStashes(xf, acc) = iter[DOMAIN <<>>]
    <2> HIDE DEF Same
    <2> QED BY <1>1, <1>4, Zenon
  <1>6. iter[{}] = acc
    BY <1>2, <1>5
  <1> QED BY <1>2, <1>5, <1>6

(* The commands of one transfer. *)
PieceData(u) == IF xfs[u].style = "new" THEN FlattenSeq(NewPieces(u)) ELSE <<>>

LEMMA PieceDone ==
  ASSUME NEW img \in Images, NEW total \in Nat, NEW file, ImageIs(tgt, file, img, total),
         NEW u, Alone(xfs[u], img, total), NEW taken
  PROVE  /\ Plays(CommandsOf(xfs[u], taken), PieceData(u), img, total)
         /\ WrittenBy(CommandsOf(xfs[u], taken)) = Blocks(xfs[u].tgt)
         /\ Weighs(CommandsOf(xfs[u], taken), Changed(xfs[u]))
  <1>1. PICK xf, t : /\ xf = xfs[u] /\ t = xf.tgt /\ xf.src = Empty
                     /\ t \in RangeSets /\ Blocks(t) \subseteq WithData(img, total)
                     /\ xf.style = "new" \/ (xf.style = "zero" /\ \A b \in Blocks(t) : img[b] = Zero)
    <2>1. PICK xf : xf = xfs[u]
      OBVIOUS
    <2>2. PICK t : t = xf.tgt
      OBVIOUS
    <2>3. /\ xf.src = Empty /\ t \in RangeSets /\ Blocks(t) \subseteq WithData(img, total)
          /\ xf.style = "new" \/ (xf.style = "zero" /\ \A b \in Blocks(t) : img[b] = Zero)
      <3>1. Alone(xf, img, total)
        BY <2>1
      <3> QED BY ONLY <2>2, <3>1, AloneIs
    <2> QED BY <2>1, <2>2, <2>3
  <1>2. ~Reading(xf) /\ ~Silent(xf)
    BY <1>1 DEF Reading, Silent
  <1>3. CASE xf.style = "new"
    <2>1. PICK c : c = Command("new", t)
      OBVIOUS
    <2>2. c \in Cmds
      BY <1>1, <2>1 DEF Cmds
    <2>3. c.op = "new" /\ c.tgt = t
      BY <2>1 DEF Command
    <2>4. CommandsOf(xf, taken) = <<c>>
      BY <1>1, <1>2, <1>3, <2>1 DEF CommandsOf, CommandOf
    <2>5. PICK d : d = ReadContent(tgt, t) /\ ContentIs(d, t, img)
      BY <1>1, ReadContentIs
    <2>6. PieceData(u) = d
      BY <1>1, <1>3, <2>5 DEF PieceData, NewPieces, ReadContent
    <2>7. d \in Seq(Contents) /\ Len(d) = Size(t) /\ Len(d) \in Nat
      BY <2>5 DEF ContentIs
    <2>8. Does(c, 0, Len(d), d, img, total)
      <3>1. \A x \in Blocks(t) : d[0 + Rank(Blocks(t), x)] = img[x]
        <4>1. TAKE x \in Blocks(t)
        <4>2. Rank(Blocks(t), x) \in Int
          BY <1>1, RankIs
        <4>3. 0 + Rank(Blocks(t), x) = Rank(Blocks(t), x)
          BY <4>2
        <4> QED BY <2>5, <4>3 DEF ContentIs
      <3> QED BY <1>1, <2>3, <2>7, <3>1 DEF Does
    <2>9. Changed(xf) = Size(t)
      BY <1>1, <1>2, <1>3 DEF Changed
    <2> QED BY <1>1, <2>2, <2>3, <2>4, <2>6, <2>7, <2>8, <2>9, OneDoes
  <1>4. CASE xf.style = "zero"
    <2>1. PICK r : r = Subtract(t, Empty) /\ r \in RangeSets /\ Blocks(r) = Blocks(t)
      BY <1>1, EmptyRange, SubtractIs
    <2>2. CommandsOf(xf, taken) = ZeroCommands(r)
      <3>1. xf.style = "zero" /\ ~Silent(xf) /\ Subtract(xf.tgt, xf.src) = r
        BY <1>1, <1>2, <1>4, <2>1
      <3> QED BY ONLY <3>1 DEF CommandsOf
    <2>3. Changed(xf) = Size(r)
      BY <1>1, <1>2, <1>4, <2>1 DEF Changed
    <2>4. PieceData(u) = <<>>
      BY <1>1, <1>4 DEF PieceData
    <2> QED BY <1>1, <1>4, <2>1, <2>2, <2>3, <2>4, ZeroPlays
  <1> QED BY <1>1, <1>3, <1>4

LEMMA WriteStep ==
  ASSUME NEW img, NEW total, NEW u, Alone(xfs[u], img, total),
         config.cache = NoCache \/ (config.cache \in Nat /\ config.cache # 0),
         NEW cmds \in Seq(Cmds), NEW n \in Nat, NEW c \in Seq(Cmds),
         c = CommandsOf(xfs[u], Done(cmds, n)), Changed(xfs[u]) \in Nat
  PROVE  WriteTransfer(Done(cmds, n), u) = Done(cmds \o c, n + Changed(xfs[u]))
  <1>1. PICK xf : /\ xf = xfs[u] /\ xf.src = Empty /\ xf.stash = <<>> /\ xf.use = <<>>
                  /\ xf.style \in {"new", "zero"}
    BY AloneIs
  <1>2. PICK a : a = Done(cmds, n)
    OBVIOUS
  <1>3. PICK no, nil, e : no = <<>> /\ nil = {} /\ e = Empty
    OBVIOUS
  <1>4. a = [out |-> cmds, sids |-> no, counts |-> no, free |-> nil, next |-> 0, stashed |-> 0,
             max |-> 0, total |-> n, touched |-> e, ok |-> TRUE,
             unstashed |-> e, refs |-> no, freed |-> no, freedSize |-> 0]
    BY <1>2, <1>3 DEF Done
  <1>5. [a EXCEPT !.unstashed = e, !.refs = no, !.freed = no, !.freedSize = 0] = a
    <2>1. [a EXCEPT !.unstashed = e] = a
      <3>1. PICK z : z = [a EXCEPT !.unstashed = e]
        OBVIOUS
      <3>2. z = [out |-> cmds, sids |-> no, counts |-> no, free |-> nil, next |-> 0, stashed |-> 0,
                 max |-> 0, total |-> n, touched |-> e, ok |-> TRUE,
                 unstashed |-> e, refs |-> no, freed |-> no, freedSize |-> 0]
        BY ONLY <1>4, <3>1
      <3> QED BY ONLY <1>4, <3>1, <3>2
    <2>2. [a EXCEPT !.refs = no] = a
      <3>1. PICK z : z = [a EXCEPT !.refs = no]
        OBVIOUS
      <3>2. z = [out |-> cmds, sids |-> no, counts |-> no, free |-> nil, next |-> 0, stashed |-> 0,
                 max |-> 0, total |-> n, touched |-> e, ok |-> TRUE,
                 unstashed |-> e, refs |-> no, freed |-> no, freedSize |-> 0]
        BY ONLY <1>4, <3>1
      <3> QED BY ONLY <1>4, <3>1, <3>2
    <2>3. [a EXCEPT !.freed = no] = a
      <3>1. PICK z : z = [a EXCEPT !.freed = no]
        OBVIOUS
      <3>2. z = [out |-> cmds, sids |-> no, counts |-> no, free |-> nil, next |-> 0, stashed |-> 0,
                 max |-> 0, total |-> n, touched |-> e, ok |-> TRUE,
                 unstashed |-> e, refs |-> no, freed |-> no, freedSize |-> 0]
        BY ONLY <1>4, <3>1
      <3> QED BY ONLY <1>4, <3>1, <3>2
    <2>4. [a EXCEPT !.freedSize = 0] = a
      <3>1. PICK z : z = [a EXCEPT !.freedSize = 0]
        OBVIOUS
      <3>2. z = [out |-> cmds, sids |-> no, counts |-> no, free |-> nil, next |-> 0, stashed |-> 0,
                 max |-> 0, total |-> n, touched |-> e, ok |-> TRUE,
                 unstashed |-> e, refs |-> no, freed |-> no, freedSize |-> 0]
        BY ONLY <1>4, <3>1
      <3> QED BY ONLY <1>4, <3>1, <3>2
    <2>5. [a EXCEPT !.unstashed = e, !.refs = no, !.freed = no, !.freedSize = 0]
            = [[[[a EXCEPT !.unstashed = e] EXCEPT !.refs = no] EXCEPT !.freed = no] EXCEPT !.freedSize = 0]
      OBVIOUS
    <2> QED BY ONLY <2>1, <2>2, <2>3, <2>4, <2>5
  <1>6. WriteTransfer(a, u) = WithMost(xf, a)
    <2>1. MakeStashes(xf, a) = a
      BY <1>1, NoStashMade
    <2>2. TakeStashes(xf, a) = a
      BY <1>1, NoStashTaken
    <2>3. Started(xf, a) = a
      BY <1>1, <1>3, <1>5 DEF Started
    <2> QED BY <1>1, <2>1, <2>2, <2>3 DEF WriteTransfer
  <1>7. ~Reading(xf) /\ ~Silent(xf)
    BY <1>1 DEF Reading, Silent
  <1>8. ImplicitStash(xf) = 0
    BY <1>7 DEF ImplicitStash
  <1>9. Max({a.max, a.stashed + ImplicitStash(xf)}) = 0
    <2>1. a.max = 0 /\ a.stashed + ImplicitStash(xf) = 0
      BY <1>4, <1>8
    <2>2. Max({0, 0}) = 0
      BY DEF Max
    <2> QED BY <2>1, <2>2
  <1>10. UnderLimit(0)
    BY DEF UnderLimit
  <1>11. WriteTransfer(a, u) = Written(xf, a, 0)
    BY <1>6, <1>9 DEF WithMost
  <1>12. PICK ch, m : ch = Changed(xf) /\ m = n + ch /\ ch \in Nat
    BY <1>1
  <1>13. PICK o : o = cmds \o c
    OBVIOUS
  <1>14. Written(xf, a, 0) = [a EXCEPT !.out = o, !.max = 0, !.stashed = 0, !.total = m,
                                       !.touched = e, !.ok = TRUE]
    <2>1. a.out \o CommandsOf(xf, a) \o a.freed = o
      <3>1. a.out = cmds /\ a.freed = <<>> /\ CommandsOf(xf, a) = c
        BY <1>1, <1>2, <1>3, <1>4
      <3>2. o \in Seq(Cmds)
        BY <1>13
      <3>3. o \o <<>> = o
        BY <3>2
      <3> QED BY <1>13, <3>1, <3>3
    <2>2. a.stashed - a.freedSize = 0 /\ a.total + Changed(xf) = m /\ a.touched = e /\ a.ok = TRUE
      BY <1>4, <1>12
    <2>3. (IF Reading(xf) /\ ~Silent(xf) /\ config.version >= 3 THEN Union(a.touched, xf.src)
           ELSE a.touched) = e
      BY <1>7, <2>2
    <2>4. (/\ a.ok
           /\ ~(config.version = 1 /\ Reading(xf) /\ ~Silent(xf) /\ xf.src = Empty)
           /\ SourceMapped(xf, a)
           /\ UnderLimit(0)) = TRUE
      <3>1. SourceMapped(xf, a)
        BY <1>1 DEF SourceMapped
      <3> QED BY <1>7, <1>10, <2>2, <3>1
    <2> QED BY <2>1, <2>2, <2>3, <2>4, Zenon DEF Written
  <1>15. [a EXCEPT !.out = o, !.max = 0, !.stashed = 0, !.total = m, !.touched = e, !.ok = TRUE]
           = Done(o, m)
    <2>1. PICK b : b = [a EXCEPT !.out = o]
      OBVIOUS
    <2>2. b = [out |-> o, sids |-> no, counts |-> no, free |-> nil, next |-> 0, stashed |-> 0,
               max |-> 0, total |-> n, touched |-> e, ok |-> TRUE,
               unstashed |-> e, refs |-> no, freed |-> no, freedSize |-> 0]
      BY ONLY <1>4, <2>1
    <2>3. [b EXCEPT !.max = 0] = b
      <3>1. PICK z : z = [b EXCEPT !.max = 0]
        OBVIOUS
      <3>2. z = [out |-> o, sids |-> no, counts |-> no, free |-> nil, next |-> 0, stashed |-> 0,
                 max |-> 0, total |-> n, touched |-> e, ok |-> TRUE,
                 unstashed |-> e, refs |-> no, freed |-> no, freedSize |-> 0]
        BY ONLY <2>2, <3>1
      <3> QED BY ONLY <2>2, <3>1, <3>2
    <2>4. [b EXCEPT !.stashed = 0] = b
      <3>1. PICK z : z = [b EXCEPT !.stashed = 0]
        OBVIOUS
      <3>2. z = [out |-> o, sids |-> no, counts |-> no, free |-> nil, next |-> 0, stashed |-> 0,
                 max |-> 0, total |-> n, touched |-> e, ok |-> TRUE,
                 unstashed |-> e, refs |-> no, freed |-> no, freedSize |-> 0]
        BY ONLY <2>2, <3>1
      <3> QED BY ONLY <2>2, <3>1, <3>2
    <2>5. PICK d : d = [b EXCEPT !.total = m]
      OBVIOUS
    <2>6. d = [out |-> o, sids |-> no, counts |-> no, free |-> nil, next |-> 0, stashed |-> 0,
               max |-> 0, total |-> m, touched |-> e, ok |-> TRUE,
               unstashed |-> e, refs |-> no, freed |-> no, freedSize |-> 0]
      BY ONLY <2>2, <2>5
    <2>7. [d EXCEPT !.touched = e] = d
      <3>1. PICK z : z = [d EXCEPT !.touched = e]
        OBVIOUS
      <3>2. z = [out |-> o, sids |-> no, counts |-> no, free |-> nil, next |-> 0, stashed |-> 0,
                 max |-> 0, total |-> m, touched |-> e, ok |-> TRUE,
                 unstashed |-> e, refs |-> no, freed |-> no, freedSize |-> 0]
        BY ONLY <2>6, <3>1
      <3> QED BY ONLY <2>6, <3>1, <3>2
    <2>8. [d EXCEPT !.ok = TRUE] = d
      <3>1. PICK z : z = [d EXCEPT !.ok = TRUE]
        OBVIOUS
      <3>2. z = [out |-> o, sids |-> no, counts |-> no, free |-> nil, next |-> 0, stashed |-> 0,
                 max |-> 0, total |-> m, touched |-> e, ok |-> TRUE,
                 unstashed |-> e, refs |-> no, freed |-> no, freedSize |-> 0]
        BY ONLY <2>6, <3>1
      <3> QED BY ONLY <2>6, <3>1, <3>2
    <2>9. [a EXCEPT !.out = o, !.max = 0, !.stashed = 0, !.total = m, !.touched = e, !.ok = TRUE]
            = [[[[[[a EXCEPT !.out = o] EXCEPT !.max = 0] EXCEPT !.stashed = 0] EXCEPT !.total = m]
                 EXCEPT !.touched = e] EXCEPT !.ok = TRUE]
      OBVIOUS
    <2>10. [a EXCEPT !.out = o, !.max = 0, !.stashed = 0, !.total = m, !.touched = e, !.ok = TRUE] = d
      BY ONLY <2>1, <2>3, <2>4, <2>5, <2>7, <2>8, <2>9
    <2>11. d = Done(o, m)
      BY <1>3, <2>6 DEF Done
    <2> QED BY ONLY <2>10, <2>11
  <1> QED BY <1>1, <1>2, <1>11, <1>12, <1>13, <1>14, <1>15

LEMMA OrderAlone ==
  ASSUME NEW img, NEW total, AloneAll(xfs, img, total), order \in Seq(Ids), NEW k \in 1..Len(order)
  PROVE  Alone(xfs[order[k]], img, total)
  <1>1. order[k] \in Ids
    OBVIOUS
  <1> QED BY <1>1, AloneIn DEF Ids

LEMMA PieceDataIn ==
  ASSUME NEW img \in Images, NEW total \in Nat, NEW file, ImageIs(tgt, file, img, total),
         AloneAll(xfs, img, total), order \in Seq(Ids)
  PROVE  [k \in DOMAIN order |-> PieceData(order[k])] \in Seq(Seq(Contents))
  <1>1. PICK M : M = Len(order) /\ M \in Nat /\ DOMAIN order = 1..M
    OBVIOUS
  <1>2. PICK Y : Y = Seq(Contents)
    OBVIOUS
  <1>3. ASSUME NEW k \in 1..M PROVE PieceData(order[k]) \in Y
    <2>1. PICK u : u = order[k] /\ Alone(xfs[u], img, total)
      BY <1>1, OrderAlone
    <2>2. Plays(CommandsOf(xfs[u], 0), PieceData(u), img, total)
      BY <2>1, PieceDone
    <2> QED BY <1>2, <2>1, <2>2 DEF Plays
  <1>4. [k \in 1..M |-> PieceData(order[k])] \in Seq(Y)
    BY <1>1, <1>3
  <1> QED BY <1>1, <1>2, <1>4

(* After k transfers. *)
WrittenSoFar(acc, d, k, img, total) ==
    \E cmds, n : /\ acc = Done(cmds, n) /\ n \in Nat
                 /\ Plays(cmds, d, img, total) /\ WrittenBy(cmds) = WrittenUpto(k) /\ Weighs(cmds, n)

LEMMA WrittenStep ==
  ASSUME NEW img \in Images, NEW total \in Nat, NEW file, ImageIs(tgt, file, img, total),
         AloneAll(xfs, img, total), order \in Seq(Ids),
         config.cache = NoCache \/ (config.cache \in Nat /\ config.cache # 0),
         NEW k \in Nat, k + 1 <= Len(order),
         NEW acc, NEW d, WrittenSoFar(acc, d, k, img, total)
  PROVE  WrittenSoFar(WriteTransfer(acc, order[k + 1]), d \o PieceData(order[k + 1]), k + 1, img, total)
  <1>1. PICK cmds, n : /\ acc = Done(cmds, n) /\ n \in Nat
                       /\ Plays(cmds, d, img, total) /\ WrittenBy(cmds) = WrittenUpto(k) /\ Weighs(cmds, n)
    BY DEF WrittenSoFar
  <1>2. PICK u : u = order[k + 1] /\ Alone(xfs[u], img, total)
    <2>1. k + 1 \in 1..Len(order)
      OBVIOUS
    <2> QED BY <2>1, OrderAlone
  <1>3. PICK c : c = CommandsOf(xfs[u], Done(cmds, n))
    OBVIOUS
  <1>4. /\ Plays(c, PieceData(u), img, total) /\ WrittenBy(c) = Blocks(xfs[u].tgt)
        /\ Weighs(c, Changed(xfs[u]))
    BY <1>2, <1>3, PieceDone
  <1>5. cmds \in Seq(Cmds) /\ c \in Seq(Cmds)
    BY <1>1, <1>4 DEF Plays
  <1>6. Weighs(cmds \o c, n + Changed(xfs[u])) /\ Changed(xfs[u]) \in Nat
    BY <1>1, <1>4, WeighsJoined
  <1>7. WriteTransfer(acc, u) = Done(cmds \o c, n + Changed(xfs[u]))
    BY <1>1, <1>2, <1>3, <1>5, <1>6, WriteStep
  <1>8. Plays(cmds \o c, d \o PieceData(u), img, total)
    BY <1>1, <1>4, PlaysJoined
  <1>9. WrittenBy(cmds \o c) = WrittenUpto(k + 1)
    <2>1. WrittenBy(cmds \o c) = WrittenBy(cmds) \union WrittenBy(c)
      BY <1>5, WrittenByJoined
    <2>2. WrittenUpto(k + 1) = WrittenUpto(k) \union Blocks(xfs[order[k + 1]].tgt)
      BY WrittenMore
    <2> QED BY <1>1, <1>2, <1>4, <2>1, <2>2
  <1>10. n + Changed(xfs[u]) \in Nat
    BY <1>1, <1>6
  <1> QED BY <1>2, <1>6, <1>7, <1>8, <1>9, <1>10 DEF WrittenSoFar

(* All the transfers: the commands write what the image has, of the data   *)
(* that ComputePatches puts into new.dat.                                  *)
LEMMA WrittenAll ==
  ASSUME NEW img \in Images, NEW total \in Nat, NEW file, ImageIs(tgt, file, img, total),
         AloneAll(xfs, img, total), order \in Seq(Ids),
         config.cache = NoCache \/ (config.cache \in Nat /\ config.cache # 0)
  PROVE  WrittenSoFar(FoldLeft(WriteTransfer, NothingWritten, order), NewData(order), Len(order), img, total)
  <1> DEFINE base == NothingWritten
             Same(iter) ==
               iter = [u \in SUBSET DOMAIN order |->
                         IF u = {} THEN base
                         ELSE LET x == Max(u) IN WriteTransfer(iter[u \ {x}], order[x])]
             pieces == [k \in DOMAIN order |-> PieceData(order[k])]
  <1>0. FoldLeft(WriteTransfer, base, order) = (CHOOSE iter : Same(iter))[DOMAIN order]
    BY Zenon DEF FoldLeft, MapThenFoldSet
  <1>1. PICK M : M = Len(order) /\ M \in Nat /\ DOMAIN order = 1..M
    OBVIOUS
  <1>2. base = Done(<<>>, 0)
    BY DEF NothingWritten, Done
  <1>3. NewData(order) = FlattenSeq(pieces)
    BY Zenon DEF NewData, PieceData
  <1> HIDE DEF base
  <1>4. PICK ps : ps = pieces /\ ps \in Seq(Seq(Contents)) /\ Len(ps) = M /\ \A k \in 1..M : ps[k] = PieceData(order[k])
    <2>1. pieces \in Seq(Seq(Contents))
      BY PieceDataIn
    <2>2. Len(pieces) = M /\ \A k \in 1..M : pieces[k] = PieceData(order[k])
      BY <1>1
    <2> QED BY <2>1, <2>2
  <1> HIDE DEF pieces
  <1>5. PICK h \in [1..(M + 1) -> Seq(Contents)] : Flattens(h, ps) /\ FlattenSeq(ps) = h[M + 1]
    BY <1>4, FlattenSteps
  <1>6. PICK T : T = Dones
    OBVIOUS
  <1> DEFINE F == [p \in (1..M) \X T |-> WriteTransfer(p[2], order[p[1]])]
  <1>7. \A k \in 1..M, v \in T : WriteTransfer(v, order[k]) \in T
    <2>1. TAKE k \in 1..M, v \in T
    <2>2. PICK cmds \in Seq(Cmds), n \in Nat : v = Done(cmds, n)
      BY <1>6, DoneIn
    <2>3. PICK u : u = order[k] /\ Alone(xfs[u], img, total)
      BY <1>1, OrderAlone
    <2>4. PICK c : c = CommandsOf(xfs[u], Done(cmds, n)) /\ c \in Seq(Cmds) /\ Weighs(c, Changed(xfs[u]))
      <3>1. Plays(CommandsOf(xfs[u], Done(cmds, n)), PieceData(u), img, total)
            /\ Weighs(CommandsOf(xfs[u], Done(cmds, n)), Changed(xfs[u]))
        BY <2>3, PieceDone
      <3> QED BY <3>1 DEF Plays
    <2>5. PICK ch : ch = Changed(xfs[u]) /\ ch \in Nat
      <3>1. PICK ch : ch = Changed(xfs[u])
        OBVIOUS
      <3>2. Weighs(c, ch)
        BY <2>4, <3>1
      <3>3. ch \in Nat
        BY ONLY <3>2, WeighsNat
      <3> QED BY <3>1, <3>3
    <2>6. WriteTransfer(v, u) = Done(cmds \o c, n + ch)
      <3>1. Changed(xfs[u]) \in Nat
        BY <2>5
      <3>2. WriteTransfer(Done(cmds, n), u) = Done(cmds \o c, n + Changed(xfs[u]))
        BY <2>2, <2>3, <2>4, <3>1, WriteStep
      <3> QED BY <2>2, <2>5, <3>2
    <2>7. cmds \o c \in Seq(Cmds) /\ n + ch \in Nat
      BY <2>2, <2>4, <2>5
    <2>8. Done(cmds \o c, n + ch) \in T
      BY <1>6, <2>7, DoneIn
    <2> QED BY <2>3, <2>6, <2>8
  <1>8. base \in T
    <2>1. \A S : <<>> \in Seq(S)
      OBVIOUS
    <2>2. PICK no : no = <<>> /\ no \in Seq(Cmds)
      BY <2>1
    <2>3. Done(no, 0) \in T
      BY <1>6, <2>2, DoneIn
    <2> QED BY <1>2, <2>2, <2>3
  <1>9. F \in [(1..M) \X T -> T] /\ \A k \in 1..M, v \in T : F[<<k, v>>] = WriteTransfer(v, order[k])
    <2>1. F \in [(1..M) \X T -> T]
      BY <1>7
    <2>2. \A k \in 1..M, v \in T : F[<<k, v>>] = WriteTransfer(v, order[k])
      OBVIOUS
    <2> QED BY <2>1, <2>2
  <1> HIDE DEF F
  <1>10. PICK it \in [SUBSET (1..M) -> T] : Iterates(it, base, F, M)
    BY <1>1, <1>8, <1>9, FoldExists, Zenon
  <1>11. Same(it)
    <2>1. ASSUME NEW u \in SUBSET (1..M), u # {}
          PROVE  F[<<Max(u), it[u \ {Max(u)}]>>] = WriteTransfer(it[u \ {Max(u)}], order[Max(u)])
      <3>1. Max(u) \in 1..M /\ u \ {Max(u)} \in SUBSET (1..M)
        BY <1>1, <2>1, MaxOf
      <3> QED BY <1>9, <1>10, <3>1
    <2> QED BY <1>1, <1>10, <2>1 DEF Iterates
  <1>12. PICK iter : Same(iter) /\ FoldLeft(WriteTransfer, base, order) = iter[DOMAIN order]
    <2> HIDE DEF Same
    <2> QED BY <1>0, <1>11, Zenon
  <1>13. Folding(iter, base, F, M, T)
    <2>1. iter[{}] = base
      BY <1>12
    <2>2. ASSUME NEW k \in 1..M, iter[1..(k - 1)] \in T PROVE iter[1..k] = F[<<k, iter[1..(k - 1)]>>]
      <3>1. /\ 1..k \in SUBSET (1..M) /\ 1..k # {} /\ Max(1..k) = k /\ (1..k) \ {k} = 1..(k - 1)
        BY <1>1, UpTo
      <3>2. iter[1..k] = WriteTransfer(iter[(1..k) \ {Max(1..k)}], order[Max(1..k)])
        BY <1>1, <1>12, <3>1
      <3> QED BY <1>9, <2>2, <3>1, <3>2
    <2> QED BY <2>1, <2>2 DEF Folding
  <1>14. FoldsTo(iter[1..M], base, F, M, T)
    BY <1>1, <1>8, <1>9, <1>13, FoldIs
  <1>15. PICK g \in [1..(M + 1) -> T] : Follows(g, base, F, M) /\ iter[1..M] = g[M + 1]
    BY <1>14 DEF FoldsTo
  <1> DEFINE S == {k \in Nat : k <= M => WrittenSoFar(g[k + 1], h[k + 1], k, img, total)}
  <1>16. 0 \in S
    <2>1. g[0 + 1] = Done(<<>>, 0) /\ h[0 + 1] = <<>>
      BY <1>2, <1>5, <1>15 DEF Follows, Flattens
    <2>2. WrittenUpto(0) = {}
      BY WrittenMore
    <2>3. WrittenSoFar(Done(<<>>, 0), <<>>, 0, img, total)
      BY <2>2, NoneDoes DEF WrittenSoFar
    <2> QED BY <2>1, <2>3
  <1>17. ASSUME NEW k \in Nat, k \in S PROVE k + 1 \in S
    <2>1. SUFFICES ASSUME k + 1 <= M PROVE WrittenSoFar(g[(k + 1) + 1], h[(k + 1) + 1], k + 1, img, total)
      OBVIOUS
    <2>2. PICK j : j = k + 1 /\ j \in 1..M /\ j \in 1..(M + 1) /\ k <= M
      BY <1>1, <2>1
    <2>3. PICK v \in T : v = g[j] /\ g[j + 1] = WriteTransfer(v, order[j])
      <3>1. PICK v : v = g[j]
        OBVIOUS
      <3>2. v \in T
        BY <1>15, <2>2, <3>1
      <3>3. g[j + 1] = F[<<j, v>>]
        BY <1>15, <2>2, <3>1 DEF Follows
      <3>4. F[<<j, v>>] = WriteTransfer(v, order[j])
        BY <1>9, <2>2, <3>2
      <3> QED BY <3>1, <3>2, <3>3, <3>4
    <2>4. h[j + 1] = h[j] \o PieceData(order[j])
      BY <1>4, <1>5, <2>2 DEF Flattens
    <2>5. WrittenSoFar(v, h[j], k, img, total)
      BY <1>17, <2>2, <2>3
    <2>6. k + 1 <= Len(order)
      BY <1>1, <2>1
    <2>7. WrittenSoFar(WriteTransfer(v, order[k + 1]), h[j] \o PieceData(order[k + 1]), k + 1, img, total)
      BY <2>5, <2>6, WrittenStep
    <2> QED BY <2>2, <2>3, <2>4, <2>7
  <1> HIDE DEF S
  <1>18. M \in S
    BY <1>1, <1>16, <1>17, SetInduction
  <1>19. WrittenSoFar(g[M + 1], h[M + 1], M, img, total)
    BY <1>1, <1>18 DEF S
  <1> QED BY <1>1, <1>3, <1>4, <1>5, <1>12, <1>15, <1>19 DEF base

(* ComputePatches, when there is nothing to patch. *)
LEMMA PatchesKeep ==
  ASSUME NEW img, NEW total, AloneAll(xfs, img, total), ComputePatches, pc' = "list"
  PROVE  xfs' = xfs /\ order' = order /\ newDat' = NewData(order)
  <1>1. /\ xfs' = [u \in Ids |->
                     CASE xfs[u].style # "diff" -> xfs[u]
                       [] xfs[u].style = "diff" /\ Moved(u) -> [xfs[u] EXCEPT !.style = "move"]
                       [] OTHER -> [xfs[u] EXCEPT !.style = "patch", !.patch = PatchOf(u)]]
        /\ order' = order /\ newDat' = NewData(order)
    BY DEF ComputePatches, Raise, DataOrder
  <1>2. \A u \in Ids : xfs[u].style # "diff"
    <2>1. TAKE u \in Ids
    <2>2. Alone(xfs[u], img, total)
      BY AloneIn DEF Ids
    <2> QED BY <2>2, AloneIs
  <1>3. xfs' = [u \in Ids |-> xfs[u]]
    BY <1>1, <1>2
  <1>4. xfs = [u \in DOMAIN xfs |-> xfs[u]]
    BY AloneIn
  <1> QED BY <1>1, <1>3, <1>4 DEF Ids

-------------------------------------------------------------------------------
(* The conversion of the build.                                            *)

LEMMA WholeImage ==
  ASSUME job \in Jobs, OfBuild
  PROVE  /\ Image \in Images /\ Len(job.content) \in Nat /\ Len(job.content) # 0
         /\ WithData(Image, Len(job.content)) = 0..(Len(job.content) - 1)
         /\ \A b \in 0..(Len(job.content) - 1) : Image[b] = job.content[b + 1] /\ HasData(b)
         /\ 0 \in WithData(Image, Len(job.content))
  <1>1. job.content \in Seq(Contents) /\ Len(job.content) \in Nat /\ Len(job.content) # 0
    BY JobIs
  <1>2. PICK n : n = Len(job.content) /\ n \in Nat /\ n # 0 /\ 0 \in Nat /\ n <= n
    BY <1>1
  <1>3. Image \in Images
    BY <1>1, <1>2, PartIs DEF Image
  <1>4. \A b \in 0..(n - 1) : HasData(b)
    BY <1>2 DEF HasData, OfBuild
  <1>5. \A b \in 0..(n - 1) : Image[b] # None /\ Image[b] = job.content[b + 1]
    <2>1. TAKE b \in 0..(n - 1)
    <2>2. /\ Image[b] # None <=> 0 <= b /\ b < n /\ HasData(b)
          /\ Image[b] # None => Image[b] = job.content[b + 1]
      BY <1>2, PartShows DEF Image
    <2> QED BY <1>2, <1>4, <2>2
  <1>6. WithData(Image, n) = 0..(n - 1)
    BY <1>5 DEF WithData
  <1>7. 0 \in 0..(n - 1)
    BY <1>2
  <1> QED BY <1>2, <1>3, <1>4, <1>5, <1>6, <1>7

(* The images, once they are loaded. *)
ImagesLoaded ==
    /\ src = NoImage
    /\ \E file : ImageIs(tgt, file, Image, Len(job.content))
    /\ FilledAll(tgt.files, Image, Len(job.content))

(* Where the transfers are put into their order, and written. *)
Sequencing == {"digraph", "sequence", "reverse", "improve", "revise", "assert", "patches", "list"}

Sequenced == {"reverse", "improve", "revise", "assert", "patches", "list"}

Lines ==
    [left : Seq(Ids), right : Seq(Ids), sinks : SUBSET Ids, newSinks : SUBSET Ids,
     sources : SUBSET Ids, newSources : SUBSET Ids]

(* The diff: the transfers read nothing, so that there is no edge and      *)
(* nothing to stash, and once the sequence is found good they cover the    *)
(* image.                                                                  *)
DiffKept ==
    /\ pc \in {"construct", "transfers"} \union Sequencing => ImagesLoaded
    /\ pc \in Sequencing => AloneAll(xfs, Image, Len(job.content))
    /\ pc \in {"sequence", "reverse", "improve"} => goes = {}
    /\ pc = "sequence" => line \in Lines
    /\ pc \in Sequenced => order \in Seq(Ids)
    /\ pc \in {"reverse", "improve"} => ToSet(order) = Ids
    /\ pc \in {"patches", "list"} => Blocks(tgt.care) \subseteq WrittenUpto(Len(order))
    /\ pc = "list" => newDat = NewData(order)

(* The list: its commands play the data of the image and cover it.         *)
ListKept ==
    /\ \E n : Weighs(list.commands, n) /\ list.total = n
    /\ list.maxStash = 0
    /\ pc \in {"written", "ready", "updated"} =>
         /\ Plays(list.commands, newDat, Image, Len(job.content))
         /\ 0..(Len(job.content) - 1) \subseteq WrittenBy(list.commands)

(* The device: what the commands before the current one write is there.    *)
Carried ==
    \E off : /\ Offsets(off, list.commands, newDat, Image, Len(job.content))
             /\ at \in 1..(Len(list.commands) + 1) /\ dat = off[at]
             /\ \A k \in 1..(at - 1) : \A x \in Blocks(list.commands[k].tgt) : flash[x] = Image[x]

DeviceKept ==
    /\ DOMAIN flash = 0..(Len(job.content) - 1)
    /\ stash = Blank /\ peak = 0
    /\ pc \notin {"ready", "updated"} => at = 1 /\ dat = 0
    /\ pc \in {"ready", "updated"} => Carried
    /\ pc = "updated" => at = Len(list.commands) + 1

(* The inductive invariant of the build's conversions. *)
Stages ==
    {"write", "load", "split", "construct", "transfers", "written", "ready", "updated", "failed"}
      \union Sequencing

BuildKept ==
    OfBuild =>
      /\ config = [version |-> 4, python |-> 3, cache |-> job.cache]
      /\ pc \in Stages
      /\ DiffKept /\ ListKept /\ DeviceKept

LEMMA BuildInit == ASSUME Init PROVE BuildKept
  <1>1. SUFFICES ASSUME OfBuild PROVE BuildKept
    BY DEF BuildKept
  <1>2. job \in Jobs /\ pc = "write" /\ list = NoList
    BY DEF Init, DiffInit
  <1>3. config = [version |-> 4, python |-> 3, cache |-> job.cache]
    BY <1>1 DEF Init, OfBuild
  <1>4. DiffKept
    BY <1>2 DEF DiffKept, Sequencing, Sequenced
  <1>5. ListKept
    <2>1. list.commands = <<>> /\ list.total = 0 /\ list.maxStash = 0
      BY <1>2 DEF NoList
    <2> QED BY <1>2, <2>1, NoneDoes DEF ListKept
  <1>6. DeviceKept
    <2>1. PICK n : n = Len(job.content) /\ n \in Nat /\ n # 0
      BY <1>2, JobIs
    <2>2. flash = OnFlash(job) /\ stash = Blank /\ peak = 0 /\ at = 1 /\ dat = 0
      BY DEF Init
    <2>3. DOMAIN flash = 0..(Max({n, Len(job.source.content)}) - 1)
      BY <2>1, <2>2 DEF OnFlash
    <2>4. Len(job.source.content) = 0
      <3>1. job.source.content = <<>>
        BY <1>1 DEF OfBuild, NoSource
      <3> QED BY <3>1
    <2>5. Max({n, 0}) = n
      <3>1. PICK m : m = Max({n, 0})
        OBVIOUS
      <3>2. \E x \in {n, 0} : \A y \in {n, 0} : x >= y
        BY <2>1
      <3>3. m \in {n, 0} /\ m >= n /\ m >= 0
        BY <3>1, <3>2 DEF Max
      <3> QED BY <2>1, <3>1, <3>3
    <2> QED BY <1>2, <2>1, <2>2, <2>3, <2>4, <2>5 DEF DeviceKept
  <1>7. pc \in Stages
    BY <1>2 DEF Stages
  <1> QED BY <1>3, <1>4, <1>5, <1>6, <1>7 DEF BuildKept

(* Before there is an image, and after a failure, there is nothing to keep *)
(* but a device at rest and a list that is true to itself.                 *)
LEMMA BuildIdle ==
  ASSUME BuildKept, UNCHANGED <<config, job, device, outputs>>,
         pc' \in {"write", "load", "split", "failed"}, pc \notin {"ready", "updated"}
  PROVE  BuildKept'
  <1>1. SUFFICES ASSUME OfBuild PROVE BuildKept'
    BY DEF BuildKept, OfBuild
  <1>2. DiffKept'
    BY DEF DiffKept, Sequencing, Sequenced
  <1>3. ListKept'
    BY <1>1 DEF BuildKept, ListKept, outputs
  <1>4. DeviceKept'
    BY <1>1 DEF BuildKept, DeviceKept, device
  <1>5. pc' \in Stages
    BY DEF Stages
  <1> QED BY <1>1, <1>2, <1>3, <1>4, <1>5 DEF BuildKept

(* In the diff neither the list nor the device changes. *)
LEMMA BuildDiff ==
  ASSUME BuildKept, OfBuild, UNCHANGED <<config, job, device, list>>,
         pc \notin {"written", "ready", "updated"}, pc' \in Stages \ {"written", "ready", "updated"},
         DiffKept'
  PROVE  BuildKept'
  <1>1. ListKept'
    BY DEF BuildKept, ListKept
  <1>2. DeviceKept'
    BY DEF BuildKept, DeviceKept, device
  <1> QED BY <1>1, <1>2 DEF BuildKept

LEMMA BuildLoad == ASSUME Kept, BuildKept, LoadImages PROVE BuildKept'
  <1>1. SUFFICES ASSUME OfBuild PROVE BuildKept'
    BY DEF BuildKept, OfBuild, LoadImages, conversion
  <1>2. /\ pc = "load" /\ UNCHANGED <<config, job, device, outputs>>
        /\ pc' = IF tgt'.ok /\ src'.ok THEN "construct" ELSE "failed"
        /\ src' = NoImage /\ tgt' = LoadImage(files[1], <<>>)
    BY <1>1 DEF LoadImages, conversion, OfBuild
  <1>3. CASE pc' = "failed"
    BY <1>2, <1>3, BuildIdle
  <1>4. CASE pc' = "construct"
    <2>1. PICK f, n : f = files[1] /\ n = Len(job.content)
      OBVIOUS
    <2>2. job \in Jobs /\ FileOf(f, Image, n)
      BY <1>2, <2>1 DEF Kept, FilesKept, Image
    <2>3. Image \in Images /\ n \in Nat /\ 0 \in WithData(Image, n)
      BY <1>1, <2>1, <2>2, WholeImage
    <2>4. PICK t : t = LoadImage(f, <<>>)
      OBVIOUS
    <2>5. /\ ImageIs(t, f, Image, n)
          /\ \E image : ImageIs(image, f, Image, n) /\ t.files = FileMap(image, <<>>, image.care)
      BY <2>2, <2>3, <2>4, LoadNoLines
    <2>6. FilledAll(t.files, Image, n)
      BY <2>3, <2>5, FileMapIs
    <2>7. ImagesLoaded'
      <3>1. tgt' = t /\ job' = job
        BY <1>2, <2>1, <2>4
      <3> QED BY <1>2, <2>1, <2>5, <2>6, <3>1 DEF ImagesLoaded, Image
    <2>8. DiffKept'
      BY <1>4, <2>7 DEF DiffKept, Sequencing, Sequenced
    <2>9. UNCHANGED <<config, job, device, list>>
      BY <1>2 DEF outputs
    <2>10. "construct" \in Stages
      BY DEF Stages
    <2> QED BY <1>1, <1>2, <1>4, <2>8, <2>9, <2>10, BuildDiff
  <1> QED BY <1>2, <1>3, <1>4

(* The images stay. *)
LEMMA StillLoaded == ASSUME ImagesLoaded, UNCHANGED <<inputs, job>> PROVE ImagesLoaded'
  BY DEF ImagesLoaded, Image, inputs

LEMMA BuildConstruct == ASSUME BuildKept, Construct, UNCHANGED <<conversion, device>> PROVE BuildKept'
  <1>1. SUFFICES ASSUME OfBuild PROVE BuildKept'
    BY DEF BuildKept, OfBuild, conversion
  <1>2. /\ pc = "construct" /\ pc' \in {"transfers", "failed"}
        /\ UNCHANGED <<inputs, job, graph, outputs, device>>
    BY DEF Construct, GoOn, Raise, conversion
  <1>3. ImagesLoaded'
    BY <1>1, <1>2, StillLoaded DEF BuildKept, DiffKept
  <1>4. DiffKept'
    BY <1>2, <1>3 DEF DiffKept, Sequencing, Sequenced
  <1> QED BY <1>1, <1>2, <1>4, BuildDiff DEF Stages, inputs, outputs

LEMMA BuildTransfers == ASSUME BuildKept, FindTransfers, UNCHANGED <<conversion, device>> PROVE BuildKept'
  <1>1. SUFFICES ASSUME OfBuild PROVE BuildKept'
    BY DEF BuildKept, OfBuild, conversion
  <1>2. CASE pc' = "failed"
    <2>1. pc = "transfers" /\ UNCHANGED <<config, job, device, outputs>>
      BY <1>2 DEF FindTransfers, GoOn, Raise, inputs, conversion
    <2> QED BY <1>2, <2>1, BuildIdle
  <1>3. CASE pc' # "failed"
    <2>1. /\ pc = "transfers" /\ pc' = "digraph" /\ UNCHANGED <<inputs, job, outputs, device>>
          /\ xfs' = FlattenSeq([i \in DOMAIN tgt.files |-> TransfersOf(tgt.files[i])])
      BY <1>3 DEF FindTransfers, GoOn, Raise, conversion
    <2>2. ImagesLoaded
      BY <1>1, <2>1 DEF BuildKept, DiffKept
    <2>3. AloneAll(xfs', Image, Len(job.content))
      BY <2>1, <2>2, TransfersAlone DEF ImagesLoaded
    <2>4. AloneAll(xfs, Image, Len(job.content))'
      BY <2>1, <2>3 DEF Image
    <2>5. ImagesLoaded'
      BY <2>1, <2>2, StillLoaded
    <2>6. DiffKept'
      BY <2>1, <2>4, <2>5 DEF DiffKept, Sequencing, Sequenced
    <2> QED BY <1>1, <2>1, <2>6, BuildDiff DEF Stages, Sequencing, inputs, outputs
  <1> QED BY <1>2, <1>3

(* The transfers stay. *)
LEMMA StillAlone ==
  ASSUME AloneAll(xfs, Image, Len(job.content)), UNCHANGED <<xfs, job>>
  PROVE  AloneAll(xfs, Image, Len(job.content))'
  BY DEF Image

LEMMA BuildDigraph == ASSUME BuildKept, GenerateDigraph, UNCHANGED <<conversion, device>> PROVE BuildKept'
  <1>1. SUFFICES ASSUME OfBuild PROVE BuildKept'
    BY DEF BuildKept, OfBuild, conversion
  <1>2. /\ pc = "digraph" /\ pc' = "sequence" /\ UNCHANGED <<inputs, job, xfs, outputs, device>>
        /\ goes' = Digraph
        /\ line' = [NoLine EXCEPT !.sinks = {u \in Ids : After(Digraph, u, Ids) = {}},
                                  !.sources = {u \in Ids : Before(Digraph, u, Ids) = {}}]
    BY DEF GenerateDigraph, GoOn, conversion
  <1>3. ImagesLoaded /\ AloneAll(xfs, Image, Len(job.content))
    BY <1>1, <1>2 DEF BuildKept, DiffKept, Sequencing
  <1>4. ImagesLoaded' /\ AloneAll(xfs, Image, Len(job.content))'
    BY <1>2, <1>3, StillLoaded, StillAlone
  <1>5. goes' = {}
    BY <1>2, <1>3, NoEdges
  <1>6. line' \in Lines'
    <2>1. PICK no, nil, a, b : /\ no = <<>> /\ nil = {} /\ a = {u \in Ids : After(Digraph, u, Ids) = {}}
                               /\ b = {u \in Ids : Before(Digraph, u, Ids) = {}}
      OBVIOUS
    <2>2. line' = [left |-> no, right |-> no, sinks |-> a, newSinks |-> nil, sources |-> b,
                   newSources |-> nil]
      BY <1>2, <2>1 DEF NoLine
    <2>3. \A S : <<>> \in Seq(S)
      OBVIOUS
    <2>4. no \in Seq(Ids) /\ a \in SUBSET Ids /\ b \in SUBSET Ids /\ nil \in SUBSET Ids
      BY <2>1, <2>3
    <2>5. Ids' = Ids
      BY <1>2 DEF Ids
    <2> QED BY <2>2, <2>4, <2>5 DEF Lines
  <1>7. DiffKept'
    BY <1>2, <1>4, <1>5, <1>6 DEF DiffKept, Sequencing, Sequenced
  <1> QED BY <1>1, <1>2, <1>7, BuildDiff DEF Stages, Sequencing, inputs, outputs

LEMMA PassIn ==
  ASSUME line \in Lines, NEW rest \in SUBSET Ids, NEW found \in SUBSET Ids
  PROVE  PassSinks(rest, found) \in Lines /\ PassSources(rest, found) \in Lines
         /\ PassSinks(rest, found).right = line.right /\ PassSinks(rest, found).left = line.left
         /\ PassSources(rest, found).right = line.right /\ PassSources(rest, found).left = line.left
  <1>1. {} \in SUBSET Ids
    OBVIOUS
  <1>2. \A a, b \in SUBSET Ids :
           LET s == [line EXCEPT !.sinks = a, !.newSinks = b]
           IN  s \in Lines /\ s.right = line.right /\ s.left = line.left
    BY DEF Lines
  <1>3. \A a, b \in SUBSET Ids :
           LET s == [line EXCEPT !.sources = a, !.newSources = b]
           IN  s \in Lines /\ s.right = line.right /\ s.left = line.left
    BY DEF Lines
  <1>4. PassSinks(rest, found) \in Lines /\ PassSinks(rest, found).right = line.right
        /\ PassSinks(rest, found).left = line.left
    BY <1>1, <1>2 DEF PassSinks
  <1>5. PassSources(rest, found) \in Lines /\ PassSources(rest, found).right = line.right
        /\ PassSources(rest, found).left = line.left
    BY <1>1, <1>3 DEF PassSources
  <1> QED BY <1>4, <1>5

LEMMA PlacedIn ==
  ASSUME line \in Lines, goes = {}, NEW u \in Ids, PlaceSink(u) \/ PlaceSource(u)
  PROVE  line' \in Lines
  <1>1. \A S : u \in S => <<u>> \in Seq(S)
    OBVIOUS
  <1>2. <<u>> \in Seq(Ids)
    BY <1>1
  <1>3. NowSinks(u) = {} /\ NowSources(u) = {}
    BY DEF NowSinks, NowSources, Before, After
  <1>4. /\ line.sinks \in SUBSET Ids /\ line.newSinks \in SUBSET Ids
        /\ line.sources \in SUBSET Ids /\ line.newSources \in SUBSET Ids
    BY DEF Lines
  <1>5. CASE PlaceSink(u)
    <2>1. PICK p : p = PassSinks(line.sinks \ {u}, line.newSinks \union NowSinks(u)) /\ p \in Lines
      <3>1. line.sinks \ {u} \in SUBSET Ids /\ line.newSinks \union NowSinks(u) \in SUBSET Ids
        BY <1>3, <1>4
      <3> QED BY <3>1, PassIn
    <2>2. line' = [p EXCEPT !.right = <<u>> \o @, !.sources = @ \ {u}]
      BY <1>5, <2>1 DEF PlaceSink
    <2>3. p.right \in Seq(Ids) /\ p.sources \ {u} \in SUBSET Ids
      BY <2>1 DEF Lines
    <2>4. <<u>> \o p.right \in Seq(Ids)
      BY <1>2, <2>3
    <2> QED BY <2>1, <2>2, <2>3, <2>4 DEF Lines
  <1>6. CASE PlaceSource(u)
    <2>1. PICK p : p = PassSources(line.sources \ {u}, line.newSources \union NowSources(u)) /\ p \in Lines
      <3>1. line.sources \ {u} \in SUBSET Ids /\ line.newSources \union NowSources(u) \in SUBSET Ids
        BY <1>3, <1>4
      <3> QED BY <3>1, PassIn
    <2>2. line' = [p EXCEPT !.left = Append(@, u)]
      BY <1>6, <2>1 DEF PlaceSource
    <2>3. Append(p.left, u) \in Seq(Ids)
      BY <2>1 DEF Lines
    <2> QED BY <2>1, <2>2, <2>3 DEF Lines
  <1> QED BY <1>5, <1>6

LEMMA BuildSequence ==
  ASSUME BuildKept, FindVertexSequence, UNCHANGED <<conversion, device>>
  PROVE  BuildKept'
  <1>1. SUFFICES ASSUME OfBuild PROVE BuildKept'
    BY DEF BuildKept, OfBuild, conversion
  <1>2. config.version = 4 /\ config.python = 3
    BY <1>1 DEF BuildKept
  <1>3. ASSUME EmptyHeap PROVE BuildKept'
    <2>1. pc = "sequence" /\ pc' = "failed" /\ UNCHANGED <<config, job, device, outputs>>
      BY <1>3 DEF EmptyHeap, Raise, inputs, conversion
    <2> QED BY <2>1, BuildIdle
  <1>4. ASSUME NEW u \in Ids, PlaceSink(u) \/ PlaceSource(u) \/ PlaceBest(u) PROVE BuildKept'
    <2>1. PlaceSink(u) \/ PlaceSource(u)
      BY <1>2, <1>4 DEF PlaceBest
    <2>2. /\ pc = "sequence" /\ pc' = pc
          /\ UNCHANGED <<inputs, xfs, goes, order, outputs, job, device>>
      BY <2>1 DEF PlaceSink, PlaceSource, InSequence, conversion
    <2>3. /\ ImagesLoaded /\ AloneAll(xfs, Image, Len(job.content)) /\ goes = {} /\ line \in Lines
      BY <1>1, <2>2 DEF BuildKept, DiffKept, Sequencing
    <2>4. ImagesLoaded' /\ AloneAll(xfs, Image, Len(job.content))'
      BY <2>2, <2>3, StillLoaded, StillAlone
    <2>5. line' \in Lines'
      <3>1. line' \in Lines
        BY <1>4, <2>1, <2>3, PlacedIn
      <3>2. Lines' = Lines
        BY <2>2 DEF Lines, Ids
      <3> QED BY <3>1, <3>2
    <2>6. DiffKept'
      BY <2>2, <2>3, <2>4, <2>5 DEF DiffKept, Sequencing, Sequenced
    <2> QED BY <1>1, <2>2, <2>6, BuildDiff DEF Stages, Sequencing, inputs, outputs
  <1>5. ASSUME SequenceFound PROVE BuildKept'
    <2>1. /\ pc = "sequence" /\ pc' = "reverse" /\ Remaining = {} /\ order' = line.left \o line.right
          /\ UNCHANGED <<inputs, xfs, goes, outputs, job, device>>
      BY <1>2, <1>5 DEF SequenceFound, GoOn, conversion
    <2>2. /\ ImagesLoaded /\ AloneAll(xfs, Image, Len(job.content)) /\ goes = {} /\ line \in Lines
      BY <1>1, <2>1 DEF BuildKept, DiffKept, Sequencing
    <2>3. ImagesLoaded' /\ AloneAll(xfs, Image, Len(job.content))'
      BY <2>1, <2>2, StillLoaded, StillAlone
    <2>4. PICK l, m : l = line.left /\ m = line.right /\ l \in Seq(Ids) /\ m \in Seq(Ids)
      <3>1. line.left \in Seq(Ids) /\ line.right \in Seq(Ids)
        BY <2>2 DEF Lines
      <3> QED BY ONLY <3>1
    <2>5. order' \in Seq(Ids) /\ ToSet(order') = ToSet(l) \union ToSet(m)
      BY <2>1, <2>4, Concatenated, ConcatenatedSet
    <2>6. ToSet(order') = Ids
      <3>1. Ids \subseteq ToSet(l) \union ToSet(m)
        BY <2>1, <2>4 DEF Remaining, Placed
      <3>2. ToSet(l) \subseteq Ids /\ ToSet(m) \subseteq Ids
        BY <2>4 DEF ToSet
      <3> QED BY <2>5, <3>1, <3>2
    <2>7. Ids' = Ids
      BY <2>1 DEF Ids
    <2>8. DiffKept'
      <3>1. order' \in Seq(Ids') /\ ToSet(order)' = Ids' /\ goes' = {}
        BY <2>1, <2>2, <2>5, <2>6, <2>7
      <3> QED BY <2>1, <2>3, <3>1 DEF DiffKept, Sequencing, Sequenced
    <2> QED BY <1>1, <2>1, <2>8, BuildDiff DEF Stages, Sequencing, inputs, outputs
  <1> QED BY <1>3, <1>4, <1>5 DEF FindVertexSequence

LEMMA BuildReverse ==
  ASSUME BuildKept, ReverseBackwardEdges, UNCHANGED <<conversion, device>>
  PROVE  BuildKept'
  <1>1. SUFFICES ASSUME OfBuild PROVE BuildKept'
    BY DEF BuildKept, OfBuild, conversion
  <1>2. /\ pc = "reverse" /\ pc' = "improve" /\ UNCHANGED <<inputs, job, order, outputs, device>>
    BY DEF ReverseBackwardEdges, GoOn, conversion
  <1>3. /\ ImagesLoaded /\ AloneAll(xfs, Image, Len(job.content)) /\ goes = {}
        /\ order \in Seq(Ids) /\ ToSet(order) = Ids
    BY <1>1, <1>2 DEF BuildKept, DiffKept, Sequencing, Sequenced
  <1>4. xfs' = xfs /\ goes' = {}
    BY <1>3, ReverseKeeps
  <1>5. ImagesLoaded' /\ AloneAll(xfs, Image, Len(job.content))'
    BY <1>2, <1>3, <1>4, StillLoaded, StillAlone
  <1>6. order' \in Seq(Ids') /\ ToSet(order)' = Ids'
    BY <1>2, <1>3, <1>4 DEF Ids
  <1>7. DiffKept'
    BY <1>2, <1>4, <1>5, <1>6 DEF DiffKept, Sequencing, Sequenced
  <1> QED BY <1>1, <1>2, <1>7, BuildDiff DEF Stages, Sequencing, inputs, outputs

LEMMA BuildImprove ==
  ASSUME BuildKept, ImproveVertexSequence, UNCHANGED <<conversion, device>>
  PROVE  BuildKept'
  <1>1. SUFFICES ASSUME OfBuild PROVE BuildKept'
    BY DEF BuildKept, OfBuild, conversion
  <1>2. CASE pc' = "failed"
    <2>1. pc = "improve" /\ UNCHANGED <<config, job, device, outputs>>
      BY <1>2 DEF ImproveVertexSequence, GoOn, Raise, inputs, conversion
    <2> QED BY <1>2, <2>1, BuildIdle
  <1>3. CASE pc' # "failed"
    <2>1. /\ pc = "improve" /\ pc' \in {"assert", "revise"} /\ order' = Greedy
          /\ UNCHANGED <<inputs, job, xfs, outputs, device>>
      BY <1>3 DEF ImproveVertexSequence, GoOn, Raise, conversion
    <2>2. /\ ImagesLoaded /\ AloneAll(xfs, Image, Len(job.content))
          /\ order \in Seq(Ids) /\ ToSet(order) = Ids
      BY <1>1, <2>1 DEF BuildKept, DiffKept, Sequencing, Sequenced
    <2>3. ImagesLoaded' /\ AloneAll(xfs, Image, Len(job.content))'
      BY <2>1, <2>2, StillLoaded, StillAlone
    <2>4. order' \in Seq(Ids')
      <3>1. Greedy \in Seq(Ids)
        BY <2>2, GreedyIn
      <3> QED BY <2>1, <3>1 DEF Ids
    <2>5. DiffKept'
      BY <2>1, <2>3, <2>4 DEF DiffKept, Sequencing, Sequenced
    <2> QED BY <1>1, <2>1, <2>5, BuildDiff DEF Stages, Sequencing, inputs, outputs
  <1> QED BY <1>2, <1>3

LEMMA BuildRevise ==
  ASSUME BuildKept, ReviseStashSize, UNCHANGED <<conversion, device>>
  PROVE  BuildKept'
  <1>1. SUFFICES ASSUME OfBuild PROVE BuildKept'
    BY DEF BuildKept, OfBuild, conversion
  <1>2. /\ pc = "revise" /\ pc' = "assert" /\ UNCHANGED <<inputs, job, order, outputs, device>>
    BY DEF ReviseStashSize, GoOn, conversion
  <1>3. ImagesLoaded /\ AloneAll(xfs, Image, Len(job.content)) /\ order \in Seq(Ids)
    BY <1>1, <1>2 DEF BuildKept, DiffKept, Sequencing, Sequenced
  <1>4. xfs' = xfs
    BY <1>3, ReviseKeeps
  <1>5. ImagesLoaded' /\ AloneAll(xfs, Image, Len(job.content))'
    BY <1>2, <1>3, <1>4, StillLoaded, StillAlone
  <1>6. order' \in Seq(Ids')
    BY <1>2, <1>3, <1>4 DEF Ids
  <1>7. DiffKept'
    BY <1>2, <1>5, <1>6 DEF DiffKept, Sequencing, Sequenced
  <1> QED BY <1>1, <1>2, <1>7, BuildDiff DEF Stages, Sequencing, inputs, outputs

LEMMA BuildAssert ==
  ASSUME BuildKept, AssertSequenceGood, UNCHANGED <<conversion, device>>
  PROVE  BuildKept'
  <1>1. SUFFICES ASSUME OfBuild PROVE BuildKept'
    BY DEF BuildKept, OfBuild, conversion
  <1>2. CASE pc' = "failed"
    <2>1. pc = "assert" /\ UNCHANGED <<config, job, device, outputs>>
      BY <1>2 DEF AssertSequenceGood, GoOn, Raise, inputs, conversion
    <2> QED BY <1>2, <2>1, BuildIdle
  <1>3. CASE pc' # "failed"
    <2>1. /\ pc = "assert" /\ pc' = "patches" /\ SequenceGood
          /\ UNCHANGED <<inputs, job, graph, outputs, device>>
      BY <1>3 DEF AssertSequenceGood, GoOn, Raise, conversion
    <2>2. ImagesLoaded /\ AloneAll(xfs, Image, Len(job.content)) /\ order \in Seq(Ids)
      BY <1>1, <2>1 DEF BuildKept, DiffKept, Sequencing, Sequenced
    <2>3. ImagesLoaded' /\ AloneAll(xfs, Image, Len(job.content))'
      BY <2>1, <2>2, StillLoaded, StillAlone DEF graph
    <2>4. order' \in Seq(Ids')
      BY <2>1, <2>2 DEF Ids, graph
    <2>5. tgt.care \in RangeSets
      BY <2>2 DEF ImagesLoaded, ImageIs
    <2>6. Blocks(tgt.care) \subseteq WrittenUpto(Len(order))
      BY <2>1, <2>2, <2>5, GoodCovers
    <2>7. (Blocks(tgt.care) \subseteq WrittenUpto(Len(order)))'
      BY <2>1, <2>6 DEF WrittenUpto, graph, inputs
    <2>8. DiffKept'
      BY <2>1, <2>3, <2>4, <2>7 DEF DiffKept, Sequencing, Sequenced
    <2> QED BY <1>1, <2>1, <2>8, BuildDiff DEF Stages, Sequencing, inputs, outputs
  <1> QED BY <1>2, <1>3

LEMMA BuildPatches ==
  ASSUME BuildKept, ComputePatches, UNCHANGED <<conversion, device>>
  PROVE  BuildKept'
  <1>1. SUFFICES ASSUME OfBuild PROVE BuildKept'
    BY DEF BuildKept, OfBuild, conversion
  <1>2. CASE pc' = "failed"
    <2>1. pc = "patches" /\ UNCHANGED <<config, job, device, outputs>>
      BY <1>2 DEF ComputePatches, GoOn, Raise, inputs, conversion
    <2> QED BY <1>2, <2>1, BuildIdle
  <1>3. CASE pc' # "failed"
    <2>1. pc = "patches" /\ pc' = "list" /\ UNCHANGED <<inputs, job, list, device>>
      BY <1>3 DEF ComputePatches, GoOn, Raise, conversion
    <2>2. /\ ImagesLoaded /\ AloneAll(xfs, Image, Len(job.content)) /\ order \in Seq(Ids)
          /\ Blocks(tgt.care) \subseteq WrittenUpto(Len(order))
      BY <1>1, <2>1 DEF BuildKept, DiffKept, Sequencing, Sequenced
    <2>3. xfs' = xfs /\ order' = order /\ newDat' = NewData(order)
      BY <2>1, <2>2, PatchesKeep
    <2>4. ImagesLoaded' /\ AloneAll(xfs, Image, Len(job.content))'
      BY <2>1, <2>2, <2>3, StillLoaded, StillAlone
    <2>5. order' \in Seq(Ids')
      BY <2>2, <2>3 DEF Ids
    <2>6. (Blocks(tgt.care) \subseteq WrittenUpto(Len(order)))'
      BY <2>1, <2>2, <2>3 DEF WrittenUpto, inputs
    <2>7. (newDat = NewData(order))'
      <3>1. tgt' = tgt
        BY <2>1 DEF inputs
      <3>2. NewData(order)' = NewData(order)
        BY <2>3, <3>1 DEF NewData, NewPieces
      <3> QED BY <2>3, <3>2
    <2>8. DiffKept'
      BY <2>1, <2>4, <2>5, <2>6, <2>7 DEF DiffKept, Sequencing, Sequenced
    <2> QED BY <1>1, <2>1, <2>8, BuildDiff DEF Stages, Sequencing, inputs
  <1> QED BY <1>2, <1>3

(* When every block has data, none is erased or zeroed for itself. *)
LEMMA NothingElse ==
  ASSUME NEW img \in Images, NEW total \in Nat, total # 0, NEW file, ImageIs(tgt, file, img, total),
         WithData(img, total) = 0..(total - 1)
  PROVE  tgt.extended = Empty /\ DontCare = Empty
  <1>1. PICK care : care = tgt.care /\ care \in RangeSets /\ Blocks(care) = 0..(total - 1)
    BY DEF ImageIs
  <1>2. tgt.total = total /\ tgt.extended = ExtendedBlocks(care, total)
    BY <1>1 DEF ImageIs
  <1>3. PICK all : all = <<0, total>> /\ all \in RangeSets /\ Blocks(all) = 0..(total - 1)
    <2>1. 0 \in Nat /\ total \in Nat /\ 0 < total
      OBVIOUS
    <2> QED BY ONLY <2>1, PairIs
  <1>4. PICK wide : wide = Extend(care, ReadAhead) /\ wide \in RangeSets
    <2>1. ReadAhead \in Nat
      BY GroupAssumption
    <2> QED BY <1>1, <2>1, ExtendIs
  <1>5. PICK both : both = Intersect(wide, all) /\ both \in RangeSets /\ Blocks(both) \subseteq Blocks(all)
    BY <1>3, <1>4, IntersectIs
  <1>6. Subtract(both, care) \in RangeSets /\ Blocks(Subtract(both, care)) = {}
    BY <1>1, <1>3, <1>5, SubtractIs
  <1>7. tgt.extended = Empty
    <2>1. tgt.extended = Subtract(both, care)
      BY <1>2, <1>3, <1>4, <1>5 DEF ExtendedBlocks
    <2> QED BY <1>6, <2>1, EmptyIs
  <1>8. PICK rest : rest = Subtract(all, Empty) /\ rest \in RangeSets /\ Blocks(rest) = Blocks(all)
    <2>1. Subtract(all, Empty) \in RangeSets /\ Blocks(Subtract(all, Empty)) = Blocks(all) \ Blocks(Empty)
      BY <1>3, EmptyRange, SubtractIs
    <2>2. Blocks(all) \ Blocks(Empty) = Blocks(all)
      BY EmptyRange
    <2> QED BY <2>1, <2>2
  <1>9. Subtract(rest, care) \in RangeSets /\ Blocks(Subtract(rest, care)) = {}
    BY <1>1, <1>3, <1>8, SubtractIs
  <1>10. DontCare = Empty
    <2>1. DontCare = Subtract(rest, care)
      BY <1>1, <1>2, <1>3, <1>7, <1>8 DEF DontCare
    <2> QED BY <1>9, <2>1, EmptyIs
  <1> QED BY <1>7, <1>10

(* The list is what the transfers make of it. *)
LEMMA ListIs ==
  ASSUME NEW img \in Images, NEW total \in Nat, total # 0, NEW file, ImageIs(tgt, file, img, total),
         WithData(img, total) = 0..(total - 1),
         NEW d, NEW k, NEW written, WrittenSoFar(written, d, k, img, total)
  PROVE  /\ written.ok = TRUE
         /\ Plays(ListOf(written).commands, d, img, total)
         /\ WrittenBy(ListOf(written).commands) = WrittenUpto(k)
         /\ \E n : Weighs(ListOf(written).commands, n) /\ ListOf(written).total = n
         /\ ListOf(written).maxStash = 0
  <1>1. PICK cmds, n : /\ written = Done(cmds, n) /\ n \in Nat
                       /\ Plays(cmds, d, img, total) /\ WrittenBy(cmds) = WrittenUpto(k) /\ Weighs(cmds, n)
    BY DEF WrittenSoFar
  <1>2. written.ok = TRUE /\ written.out = cmds /\ written.total = n /\ written.max = 0 /\ written.touched = Empty
    BY <1>1 DEF Done
  <1>3. tgt.extended = Empty /\ DontCare = Empty
    BY NothingElse
  <1>4. Subtract(Empty, Empty) = Empty
    BY EmptyRange, SubtractIs, EmptyIs
  <1>5. PICK z : z = ZeroCommands(Empty) /\ Plays(z, <<>>, img, total) /\ WrittenBy(z) = {} /\ Weighs(z, 0)
    <2>1. Blocks(Empty) \subseteq WithData(img, total) /\ \A x \in Blocks(Empty) : img[x] = Zero
      BY EmptyRange
    <2>2. Size(Empty) = 0
      <3>1. Size(Empty) = Cardinality(Blocks(Empty))
        BY EmptyRange, SizeIs
      <3> QED BY <3>1, EmptyRange, FS_EmptySet
    <2> QED BY <2>1, <2>2, EmptyRange, ZeroPlays
  <1>6. cmds \in Seq(Cmds) /\ z \in Seq(Cmds) /\ d \in Seq(Contents)
    BY <1>1, <1>5 DEF Plays
  <1>7. EraseCommands(Empty) = <<>>
    BY DEF EraseCommands
  <1>8. EraseFirst(Empty) = Empty
    BY <1>3, <1>4 DEF EraseFirst
  <1>9. PICK list2 : list2 = ListOf(written)
    OBVIOUS
  <1>10. list2.total = n + Size(Empty) /\ list2.maxStash = 0 /\ list2.commands = Commands(cmds, Empty)
    BY <1>2, <1>3, <1>8, <1>9 DEF ListOf
  <1>11. Commands(cmds, Empty) = cmds \o z
    <2>1. Commands(cmds, Empty) = <<>> \o cmds \o z \o <<>>
      BY <1>3, <1>4, <1>5, <1>7 DEF Commands
    <2>2. <<>> \o cmds = cmds
      BY <1>6
    <2>3. (cmds \o z) \o <<>> = cmds \o z
      <3>1. cmds \o z \in Seq(Cmds)
        BY <1>6
      <3> QED BY <3>1
    <2> QED BY <2>1, <2>2, <2>3
  <1>12. Plays(cmds \o z, d, img, total)
    <2>1. Plays(cmds \o z, d \o <<>>, img, total)
      BY <1>1, <1>5, PlaysJoined
    <2>2. d \o <<>> = d
      BY <1>6
    <2> QED BY <2>1, <2>2
  <1>13. WrittenBy(cmds \o z) = WrittenUpto(k)
    <2>1. WrittenBy(cmds \o z) = WrittenBy(cmds) \union WrittenBy(z)
      BY <1>6, WrittenByJoined
    <2> QED BY <1>1, <1>5, <2>1
  <1>14. Weighs(cmds \o z, n + 0)
    BY <1>1, <1>5, WeighsJoined
  <1>15. Size(Empty) = 0
    <2>1. Size(Empty) = Cardinality(Blocks(Empty))
      BY EmptyRange, SizeIs
    <2> QED BY <2>1, EmptyRange, FS_EmptySet
  <1> QED BY <1>1, <1>2, <1>9, <1>10, <1>11, <1>12, <1>13, <1>14, <1>15

LEMMA BuildList ==
  ASSUME BuildKept, job \in Jobs, WriteTransfers, UNCHANGED <<conversion, device>>
  PROVE  BuildKept'
  <1>1. SUFFICES ASSUME OfBuild PROVE BuildKept'
    BY DEF BuildKept, OfBuild, conversion
  <1>2. PICK written : written = FoldLeft(WriteTransfer, NothingWritten, order) /\ WriteList(written)
    BY DEF WriteTransfers
  <1>3. pc = "list" /\ UNCHANGED <<job, device>>
    BY DEF WriteTransfers, conversion
  <1>4. /\ ImagesLoaded /\ AloneAll(xfs, Image, Len(job.content)) /\ order \in Seq(Ids)
        /\ Blocks(tgt.care) \subseteq WrittenUpto(Len(order)) /\ newDat = NewData(order)
    BY <1>1, <1>3 DEF BuildKept, DiffKept, Sequencing, Sequenced
  <1>5. PICK n : n = Len(job.content) /\ n \in Nat /\ n # 0 /\ Image \in Images /\ WithData(Image, n) = 0..(n - 1)
    BY <1>1, WholeImage
  <1>6. PICK file : ImageIs(tgt, file, Image, n)
    BY <1>4, <1>5 DEF ImagesLoaded
  <1>7. config.cache = NoCache \/ (config.cache \in Nat /\ config.cache # 0)
    <2>1. config.cache = job.cache
      BY <1>1 DEF BuildKept
    <2>2. job.cache = NoCache \/ (job.cache \in Nat /\ job.cache >= SplitDivisor)
      BY JobsAssumption
    <2>3. SplitDivisor \in Nat \ {0}
      BY LimitAssumption
    <2> QED BY <2>1, <2>2, <2>3
  <1>8. WrittenSoFar(written, newDat, Len(order), Image, n)
    BY <1>2, <1>4, <1>5, <1>6, <1>7, WrittenAll
  <1>9. /\ written.ok = TRUE
        /\ Plays(ListOf(written).commands, newDat, Image, n)
        /\ WrittenBy(ListOf(written).commands) = WrittenUpto(Len(order))
        /\ \E m : Weighs(ListOf(written).commands, m) /\ ListOf(written).total = m
        /\ ListOf(written).maxStash = 0
    <2>1. PICK img, k, d, f : img = Image /\ k = Len(order) /\ d = newDat /\ f = file
      OBVIOUS
    <2>2. /\ img \in Images /\ n \in Nat /\ n # 0 /\ ImageIs(tgt, f, img, n)
          /\ WithData(img, n) = 0..(n - 1) /\ WrittenSoFar(written, d, k, img, n)
      BY <1>5, <1>6, <1>8, <2>1
    <2>3. /\ written.ok = TRUE
          /\ Plays(ListOf(written).commands, d, img, n)
          /\ WrittenBy(ListOf(written).commands) = WrittenUpto(k)
          /\ \E m : Weighs(ListOf(written).commands, m) /\ ListOf(written).total = m
          /\ ListOf(written).maxStash = 0
      BY ONLY <2>2, ListIs
    <2> QED BY ONLY <2>1, <2>3
  <1>10. list' = ListOf(written) /\ pc' = "written" /\ UNCHANGED <<inputs, graph, newDat>>
    BY <1>2, <1>9 DEF WriteList, GoOn
  <1>11. Blocks(tgt.care) = 0..(n - 1)
    BY <1>5, <1>6 DEF ImageIs
  <1>12. DiffKept'
    BY <1>10 DEF DiffKept, Sequencing, Sequenced
  <1>13. ListKept'
    <2>1. Image' = Image /\ Len(job.content)' = n
      BY <1>3, <1>5 DEF Image
    <2>2. Plays(list.commands, newDat, Image, Len(job.content))'
      BY <1>9, <1>10, <2>1
    <2>3. (0..(Len(job.content) - 1) \subseteq WrittenBy(list.commands))'
      BY <1>4, <1>9, <1>10, <1>11, <2>1
    <2>4. (\E m : Weighs(list.commands, m) /\ list.total = m)' /\ list'.maxStash = 0
      BY <1>9, <1>10
    <2> QED BY <2>2, <2>3, <2>4 DEF ListKept
  <1>14. DeviceKept'
    BY <1>1, <1>3, <1>10 DEF BuildKept, DeviceKept, device
  <1>15. pc' \in Stages
    BY <1>10 DEF Stages
  <1>16. config' = config /\ job' = job
    BY <1>3, <1>10 DEF inputs
  <1> QED BY <1>1, <1>12, <1>13, <1>14, <1>15, <1>16 DEF BuildKept

LEMMA BuildRemove == ASSUME BuildKept, RemoveBackwardEdges PROVE ~OfBuild
  <1>1. pc = "remove"
    BY DEF RemoveBackwardEdges
  <1> QED BY <1>1 DEF BuildKept, Stages, Sequencing

LEMMA BuildCompute == ASSUME BuildKept, job \in Jobs, ComputeDiff PROVE BuildKept'
  <1>1. UNCHANGED <<conversion, device>>
    BY DEF ComputeDiff
  <1>2. CASE RemoveBackwardEdges
    <2>1. job' = job
      BY <1>1 DEF conversion
    <2> QED BY <1>2, <2>1, BuildRemove DEF BuildKept, OfBuild
  <1> QED BY <1>1, <1>2, BuildConstruct, BuildTransfers, BuildDigraph, BuildSequence, BuildReverse,
             BuildImprove, BuildRevise, BuildAssert, BuildPatches, BuildList DEF ComputeDiff, Compute

(* Before the first command nothing need be on the device. *)
LEMMA CarriedAtFirst ==
  ASSUME Plays(list.commands, newDat, Image, Len(job.content)), at = 1, dat = 0
  PROVE  Carried
  <1>1. PICK off : Offsets(off, list.commands, newDat, Image, Len(job.content))
    BY DEF Plays
  <1>2. list.commands \in Seq(Cmds)
    BY DEF Plays
  <1>3. at \in 1..(Len(list.commands) + 1)
    BY <1>2
  <1>4. off[1] = 0
    BY <1>1 DEF Offsets
  <1> QED BY <1>1, <1>3, <1>4 DEF Carried

LEMMA BuildCheck == ASSUME BuildKept, CheckResult PROVE BuildKept'
  <1>1. SUFFICES ASSUME OfBuild PROVE BuildKept'
    BY DEF BuildKept, OfBuild, CheckResult, conversion
  <1>2. pc = "written" /\ UNCHANGED <<config, job, device, outputs>> /\ pc' \in {"failed", "ready"}
    BY DEF CheckResult, Raise, GoOn, conversion, inputs
  <1>3. CASE pc' = "failed"
    BY <1>2, <1>3, BuildIdle
  <1>4. CASE pc' = "ready"
    <2>1. DiffKept'
      BY <1>4 DEF DiffKept, Sequencing, Sequenced
    <2>2. /\ Plays(list.commands, newDat, Image, Len(job.content)) /\ ListKept /\ at = 1 /\ dat = 0
          /\ 0..(Len(job.content) - 1) \subseteq WrittenBy(list.commands)
      BY <1>1, <1>2 DEF BuildKept, ListKept, DeviceKept
    <2>3. UNCHANGED <<list, newDat, job, flash, stash, peak, at, dat>> /\ Image' = Image
      BY <1>2 DEF outputs, device, Image
    <2>4. ListKept'
      BY <1>2, <2>2, <2>3 DEF ListKept
    <2>5. Carried'
      <3>1. Carried
        BY <2>2, CarriedAtFirst
      <3> QED BY <2>3, <3>1 DEF Carried
    <2>6. DeviceKept'
      BY <1>1, <1>2, <1>4, <2>3, <2>5 DEF BuildKept, DeviceKept
    <2> QED BY <1>1, <1>2, <1>4, <2>1, <2>4, <2>6 DEF BuildKept, Stages
  <1> QED BY <1>2, <1>3, <1>4

LEMMA BuildUpdated == ASSUME BuildKept, Updated PROVE BuildKept'
  <1>1. SUFFICES ASSUME OfBuild PROVE BuildKept'
    BY DEF BuildKept, OfBuild, Updated, conversion
  <1>2. /\ pc = "ready" /\ pc' = "updated" /\ at > Len(list.commands)
        /\ UNCHANGED <<config, job, list, newDat, flash, stash, peak, at, dat>> /\ Image' = Image
    BY DEF Updated, inputs, outputs, conversion, device, Image
  <1>3. ListKept /\ DeviceKept /\ Carried
    BY <1>1, <1>2 DEF BuildKept, DeviceKept
  <1>4. DiffKept'
    BY <1>2 DEF DiffKept, Sequencing, Sequenced
  <1>5. ListKept'
    BY <1>2, <1>3 DEF ListKept
  <1>6. Carried'
    BY <1>2, <1>3 DEF Carried
  <1>7. at = Len(list.commands) + 1
    <2>1. Plays(list.commands, newDat, Image, Len(job.content))
      BY <1>2, <1>3 DEF ListKept
    <2>2. Len(list.commands) \in Nat
      BY <2>1 DEF Plays
    <2>3. at \in 1..(Len(list.commands) + 1)
      BY <1>3 DEF Carried
    <2> QED BY <1>2, <2>2, <2>3
  <1>8. DeviceKept'
    BY <1>2, <1>3, <1>6, <1>7 DEF DeviceKept
  <1> QED BY <1>1, <1>2, <1>4, <1>5, <1>8 DEF BuildKept, Stages

(* The update starts again, with whatever the device has by then. *)
LEMMA BuildCutOff == ASSUME BuildKept, CutOff PROVE BuildKept'
  <1>1. SUFFICES ASSUME OfBuild PROVE BuildKept'
    BY DEF BuildKept, OfBuild, CutOff, conversion
  <1>2. /\ pc = "ready" /\ pc' = pc /\ at' = 1 /\ dat' = 0 /\ stash' = Blank /\ DOMAIN flash' = DOMAIN flash
        /\ UNCHANGED <<config, job, list, newDat, peak>> /\ Image' = Image
    BY DEF CutOff, diffVars, inputs, outputs, conversion, Image
  <1>3. ListKept /\ DeviceKept
    BY <1>1 DEF BuildKept
  <1>4. DiffKept'
    BY <1>2 DEF DiffKept, Sequencing, Sequenced
  <1>5. ListKept'
    BY <1>2, <1>3 DEF ListKept
  <1>6. Carried'
    <2>1. PICK off : Offsets(off, list.commands, newDat, Image, Len(job.content))
      BY <1>2, <1>3 DEF ListKept, Plays
    <2>2. Len(list.commands) \in Nat
      <3>1. list.commands \in Seq(Cmds)
        BY <1>2, <1>3 DEF ListKept, Plays
      <3> QED BY <3>1
    <2>3. off[1] = 0
      BY <2>1 DEF Offsets
    <2> QED BY <1>2, <2>1, <2>2, <2>3 DEF Carried
  <1>7. DeviceKept'
    BY <1>2, <1>3, <1>6 DEF DeviceKept
  <1> QED BY <1>1, <1>2, <1>4, <1>5, <1>7 DEF BuildKept

LEMMA StashedNothing == Stashed(Blank) = 0
  <1>1. DOMAIN Blank = {}
    BY DEF Blank
  <1>2. PICK g : g = [s \in SUBSET {} |-> 0]
    OBVIOUS
  <1> DEFINE Iter(h) == h = [s \in SUBSET {} |->
                         IF s = {} THEN 0
                         ELSE LET x == CHOOSE x \in s : TRUE
                              IN  Len(Blank[x]) + h[s \ {x}]]
  <1>3. \A h : Iter(h) => h[{}] = 0
    OBVIOUS
  <1>4. Iter(g)
    BY <1>2
  <1>5. Iter(CHOOSE h : Iter(h))
    BY <1>4
  <1> HIDE DEF Iter
  <1>6. (CHOOSE h : Iter(h))[{}] = 0
    BY <1>3, <1>5
  <1>7. Stashed(Blank) = (CHOOSE h : Iter(h))[{}]
    BY <1>1, Zenon DEF Stashed, MapThenSumSet, MapThenFoldSet, Iter
  <1> QED BY <1>6, <1>7

(* The data a command works with is what the image has. *)
LEMMA CommandData ==
  ASSUME NEW c \in Cmds, Now = c, dat \in Nat, newDat \in Seq(Contents), NEW q \in Nat, NEW img, NEW total,
         Does(c, dat, q, newDat, img, total)
  PROVE  /\ \A x \in Blocks(c.tgt) : DataOf[Rank(Blocks(c.tgt), x)] = img[x]
         /\ c.op = "new" => dat + Size(c.tgt) = q /\ q <= Len(newDat)
         /\ c.op # "new" => dat = q
  <1>1. c.op \in {"new", "zero"} /\ c.tgt \in RangeSets
    BY CmdIs
  <1>2. PICK z : z = Size(c.tgt) /\ z \in Nat
    BY <1>1, SizeIs
  <1>3. CASE c.op = "zero"
    <2>1. DataOf = [i \in 1..z |-> Zero]
      BY <1>2, <1>3 DEF DataOf
    <2>2. q = dat /\ \A x \in Blocks(c.tgt) : img[x] = Zero
      BY <1>3 DEF Does
    <2>3. ASSUME NEW x \in Blocks(c.tgt) PROVE DataOf[Rank(Blocks(c.tgt), x)] = img[x]
      <3>1. Rank(Blocks(c.tgt), x) \in 1..z
        BY <1>1, <1>2, RankIs
      <3> QED BY <2>1, <2>2, <3>1
    <2> QED BY <1>3, <2>2, <2>3
  <1>4. CASE c.op = "new"
    <2>1. DataOf = SubSeq(newDat, dat + 1, dat + z)
      BY <1>2, <1>4 DEF DataOf
    <2>2. /\ q = dat + z /\ q <= Len(newDat)
          /\ \A x \in Blocks(c.tgt) : newDat[dat + Rank(Blocks(c.tgt), x)] = img[x]
      BY <1>2, <1>4 DEF Does
    <2>3. ASSUME NEW x \in Blocks(c.tgt) PROVE DataOf[Rank(Blocks(c.tgt), x)] = img[x]
      <3>1. PICK k : k = Rank(Blocks(c.tgt), x) /\ k \in 1..z
        BY <1>1, <1>2, RankIs
      <3>2. PICK p, n : p = dat /\ p \in Nat /\ n = Len(newDat) /\ n \in Nat
        <4>1. Len(newDat) \in Nat
          OBVIOUS
        <4> QED BY ONLY <4>1, dat \in Nat
      <3>3. PICK d : d = newDat /\ d \in Seq(Contents) /\ Len(d) = n
        BY <3>2
      <3>4. SubSeq(d, p + 1, p + z)[k] = d[p + k]
        <4>1. p + z <= n
          BY <2>2, <3>2
        <4>2. \A i \in (p + 1)..(p + z) : d[i] \in Contents
          BY <1>2, <3>2, <3>3, <4>1
        <4>3. p + 1 \in Int /\ p + z \in Int /\ (p + z) - (p + 1) + 1 = z /\ (p + 1) + k - 1 = p + k
          BY <1>2, <3>1, <3>2
        <4>4. \A i \in 1..((p + z) - (p + 1) + 1) : SubSeq(d, p + 1, p + z)[i] = d[(p + 1) + i - 1]
          BY ONLY <4>2, <4>3, SubSeqProperties
        <4> QED BY <3>1, <4>3, <4>4
      <3>5. DataOf[k] = newDat[p + k]
        BY <2>1, <3>2, <3>3, <3>4
      <3> QED BY <2>2, <3>1, <3>2, <3>5
    <2> QED BY <1>2, <1>4, <2>2, <2>3
  <1> QED BY <1>1, <1>3, <1>4

(* What commands without a source do when they are carried out. *)
LEMMA CarryIs ==
  ASSUME Now \in Cmds, Carry, config.version = 4, stash = Blank, peak = 0
  PROVE  /\ flash' = [b \in DOMAIN flash |->
                        IF b \in Blocks(Now.tgt) THEN DataOf[Rank(Blocks(Now.tgt), b)] ELSE flash[b]]
         /\ stash' = stash /\ peak' = 0
         /\ dat' = IF Now.op = "new" THEN dat + Size(Now.tgt) ELSE dat
  <1>1. PICK c : c = Now /\ c.op \in {"new", "zero"} /\ c.tgt \in RangeSets /\ c.direct = Empty
    BY CmdIs
  <1>2. /\ flash' = [b \in DOMAIN flash |->
                       IF b \in Blocks(Now.tgt) THEN DataOf[Rank(Blocks(Now.tgt), b)] ELSE flash[b]]
        /\ peak' = Max({peak, Stashed(stash) + Implicit})
        /\ dat' = IF Now.op = "new" THEN dat + Size(Now.tgt) ELSE dat
        /\ stash' = stash
    BY <1>1 DEF Carry
  <1>3. Implicit = 0
    <2>1. ~Overlaps(Empty, c.tgt)
      BY <1>1, EmptyRange, OverlapsIs
    <2> QED BY <1>1, <2>1 DEF Implicit
  <1>4. Max({0, 0}) = 0
    <2>1. PICK m : m = Max({0, 0})
      OBVIOUS
    <2>2. \E x \in {0, 0} : \A y \in {0, 0} : x >= y
      OBVIOUS
    <2>3. m \in {0, 0}
      BY <2>1, <2>2 DEF Max
    <2> QED BY <2>1, <2>3
  <1>5. peak' = 0
    BY <1>2, <1>3, <1>4, StashedNothing
  <1> QED BY <1>2, <1>5

(* The device carries out the next command. *)
LEMMA BuildRun == ASSUME BuildKept, RunCommand PROVE BuildKept'
  <1>1. SUFFICES ASSUME OfBuild PROVE BuildKept'
    BY DEF BuildKept, OfBuild, RunCommand, conversion
  <1>2. /\ pc = "ready" /\ at <= Len(list.commands) /\ config.version = 4 /\ config' = config
        /\ UNCHANGED <<job, list, newDat>> /\ Image' = Image
    BY <1>1 DEF RunCommand, BuildKept, inputs, outputs, conversion, Image
  <1>3. ListKept /\ DeviceKept /\ Carried /\ stash = Blank /\ peak = 0
    BY <1>1, <1>2 DEF BuildKept, DeviceKept
  <1>4. list.commands \in Seq(Cmds) /\ newDat \in Seq(Contents)
    BY <1>2, <1>3 DEF ListKept, Plays
  <1>5. PICK off : /\ Offsets(off, list.commands, newDat, Image, Len(job.content))
                   /\ at \in 1..(Len(list.commands) + 1) /\ dat = off[at]
                   /\ \A k \in 1..(at - 1) : \A x \in Blocks(list.commands[k].tgt) : flash[x] = Image[x]
    BY <1>3 DEF Carried
  <1>6. PICK p, m : p = at /\ p \in 1..m /\ m = Len(list.commands) /\ m \in Nat
    <2>1. Len(list.commands) \in Nat
      BY <1>4
    <2>2. at \in 1..Len(list.commands)
      BY <1>2, <1>5, <2>1
    <2> QED BY ONLY <2>1, <2>2
  <1>7. PICK c : c = Now /\ c \in Cmds /\ c = list.commands[p]
    BY <1>4, <1>6 DEF Now
  <1>8. c.op \in {"new", "zero"} /\ c.tgt \in RangeSets /\ c.refs = <<>>
    BY <1>7, CmdIs
  <1>9. PICK q : q = off[p + 1] /\ q \in Nat /\ dat \in Nat
    BY <1>5, <1>6 DEF Offsets
  <1>10. Does(c, dat, q, newDat, Image, Len(job.content))
    BY <1>5, <1>6, <1>7, <1>9 DEF Offsets
  <1>11. /\ \A x \in Blocks(c.tgt) : DataOf[Rank(Blocks(c.tgt), x)] = Image[x]
         /\ c.op = "new" => dat + Size(c.tgt) = q /\ q <= Len(newDat)
         /\ c.op # "new" => dat = q
    <2>1. PICK img, total : img = Image /\ total = Len(job.content)
      OBVIOUS
    <2>2. Does(c, dat, q, newDat, img, total)
      BY <1>10, <2>1
    <2>3. /\ \A x \in Blocks(c.tgt) : DataOf[Rank(Blocks(c.tgt), x)] = img[x]
          /\ c.op = "new" => dat + Size(c.tgt) = q /\ q <= Len(newDat)
          /\ c.op # "new" => dat = q
      BY <1>4, <1>7, <1>9, <2>2, CommandData
    <2> QED BY <2>1, <2>3
  <1>12. Accepted
    <2>1. RefsHeld
      BY <1>7, <1>8 DEF RefsHeld
    <2>2. Verified
      BY <1>7, <1>8 DEF Verified
    <2> QED BY <1>7, <1>11, <2>1, <2>2 DEF Accepted
  <1>13. Carry /\ at' = p + 1 /\ pc' = pc
    BY <1>6, <1>12 DEF RunCommand
  <1>14. /\ flash' = [b \in DOMAIN flash |->
                        IF b \in Blocks(c.tgt) THEN DataOf[Rank(Blocks(c.tgt), b)] ELSE flash[b]]
         /\ stash' = stash /\ peak' = 0 /\ dat' = q
    BY <1>2, <1>3, <1>7, <1>8, <1>11, <1>13, CarryIs
  <1>15. DiffKept'
    BY <1>2, <1>13 DEF DiffKept, Sequencing, Sequenced
  <1>16. ListKept'
    BY <1>2, <1>3, <1>13 DEF ListKept
  <1>17. DOMAIN flash = 0..(Len(job.content) - 1)
    BY <1>3 DEF DeviceKept
  <1>18. ASSUME NEW k \in 1..p, NEW x \in Blocks(list.commands[k].tgt)
         PROVE  flash'[x] = Image[x]
    <2>1. x \in DOMAIN flash
      <3>1. 0..(Len(job.content) - 1) = DOMAIN flash /\ k \in 1..m
        BY <1>6, <1>17
      <3>2. Does(list.commands[k], off[k], off[k + 1], newDat, Image, Len(job.content))
        BY <1>5, <1>6, <3>1 DEF Offsets
      <3>3. x \in WithData(Image, Len(job.content))
        BY <3>2 DEF Does
      <3> QED BY <3>1, <3>3 DEF WithData
    <2>2. CASE x \in Blocks(c.tgt)
      BY <1>11, <1>14, <2>1, <2>2
    <2>3. CASE x \notin Blocks(c.tgt)
      <3>1. k # p
        BY <1>7, <2>3
      <3>2. k \in 1..(p - 1)
        BY <1>6, <3>1
      <3>3. flash[x] = Image[x]
        BY <1>5, <1>6, <3>2
      <3> QED BY <1>14, <2>1, <2>3, <3>3
    <2> QED BY <2>2, <2>3
  <1>19. Carried'
    <2>1. p + 1 \in 1..(m + 1) /\ (p + 1) - 1 = p
      BY <1>6
    <2> QED BY <1>2, <1>5, <1>6, <1>9, <1>13, <1>14, <1>18, <2>1 DEF Carried
  <1>20. DeviceKept'
    BY <1>2, <1>3, <1>13, <1>14, <1>17, <1>19 DEF DeviceKept
  <1> QED BY <1>1, <1>2, <1>13, <1>15, <1>16, <1>20 DEF BuildKept

-------------------------------------------------------------------------------
(* What the head of the list says.                                         *)

Total(cmds) == FoldLeft(LAMBDA n, c : IF c.op \in Writing THEN n + Size(c.tgt) ELSE n, 0, cmds)

(* What commands without a source weigh is the total of what they write.   *)
LEMMA WeighsTotal ==
  ASSUME NEW cmds, NEW n, Weighs(cmds, n)
  PROVE  Total(cmds) = n
  <1> DEFINE Add(v, c) == IF c.op \in Writing THEN v + Size(c.tgt) ELSE v
             Same(iter) ==
               iter = [u \in SUBSET DOMAIN cmds |->
                         IF u = {} THEN 0
                         ELSE LET x == Max(u) IN Add(iter[u \ {x}], cmds[x])]
             end == (CHOOSE iter : Same(iter))[DOMAIN cmds]
  <1>0. Total(cmds) = end
    BY Zenon DEF Total, FoldLeft, MapThenFoldSet
  <1>1. PICK M : M = Len(cmds) /\ M \in Nat /\ DOMAIN cmds = 1..M /\ cmds \in Seq(Cmds)
    BY DEF Weighs
  <1>2. \A k \in 1..M : Size(cmds[k].tgt) \in Nat /\ cmds[k].op \in Writing
    <2>1. TAKE k \in 1..M
    <2>2. cmds[k] \in Cmds
      BY <1>1
    <2>3. cmds[k].op \in {"new", "zero"} /\ cmds[k].tgt \in RangeSets
      BY <2>2, CmdIs
    <2>4. Size(cmds[k].tgt) \in Nat
      BY <2>3, SizeIs
    <2> QED BY <2>3, <2>4 DEF Writing
  <1>3. \A k \in 1..M, v \in Nat : Add(v, cmds[k]) = v + Size(cmds[k].tgt) /\ Add(v, cmds[k]) \in Nat
    BY <1>2
  <1> HIDE DEF Add
  <1>4. PICK F : /\ F \in [(1..M) \X Nat -> Nat]
                 /\ \A k \in 1..M, v \in Nat : F[<<k, v>>] = Add(v, cmds[k])
    <2> DEFINE F == [p \in (1..M) \X Nat |-> Add(p[2], cmds[p[1]])]
    <2>1. F \in [(1..M) \X Nat -> Nat]
      BY <1>3
    <2>2. \A k \in 1..M, v \in Nat : F[<<k, v>>] = Add(v, cmds[k])
      OBVIOUS
    <2> HIDE DEF F
    <2> QED BY <2>1, <2>2
  <1>5. 0 \in Nat
    OBVIOUS
  <1>6. PICK it \in [SUBSET (1..M) -> Nat] : Iterates(it, 0, F, M)
    BY <1>1, <1>4, <1>5, FoldExists, Zenon
  <1>7. Same(it)
    <2>1. ASSUME NEW u \in SUBSET (1..M), u # {}
          PROVE  F[<<Max(u), it[u \ {Max(u)}]>>] = Add(it[u \ {Max(u)}], cmds[Max(u)])
      <3>1. Max(u) \in 1..M /\ u \ {Max(u)} \in SUBSET (1..M)
        BY <1>1, <2>1, MaxOf
      <3> QED BY <1>4, <1>6, <3>1
    <2> QED BY <1>1, <1>6, <2>1 DEF Iterates
  <1>8. PICK iter : Same(iter) /\ end = iter[DOMAIN cmds]
    <2> HIDE DEF Same
    <2> QED BY <1>7, Zenon
  <1> HIDE DEF end
  <1>9. Folding(iter, 0, F, M, Nat)
    <2>1. iter[{}] = 0
      BY <1>8
    <2>2. ASSUME NEW k \in 1..M, iter[1..(k - 1)] \in Nat PROVE iter[1..k] = F[<<k, iter[1..(k - 1)]>>]
      <3>1. /\ 1..k \in SUBSET (1..M) /\ 1..k # {} /\ Max(1..k) = k /\ (1..k) \ {k} = 1..(k - 1)
        BY <1>1, UpTo
      <3>2. iter[1..k] = Add(iter[(1..k) \ {Max(1..k)}], cmds[Max(1..k)])
        BY <1>1, <1>8, <3>1
      <3> QED BY <1>4, <2>2, <3>1, <3>2
    <2> QED BY <2>1, <2>2 DEF Folding
  <1>10. FoldsTo(iter[1..M], 0, F, M, Nat)
    BY <1>1, <1>4, <1>5, <1>9, FoldIs
  <1>11. PICK g \in [1..(M + 1) -> Nat] : Follows(g, 0, F, M) /\ end = g[M + 1]
    BY <1>1, <1>8, <1>10 DEF FoldsTo
  <1>12. PICK s : Sizes(s, cmds) /\ s[M + 1] = n
    BY <1>1 DEF Weighs
  <1> DEFINE S == {k \in Nat : k <= M => g[k + 1] = s[k + 1]}
  <1>13. 0 \in S
    BY <1>11, <1>12 DEF Follows, Sizes
  <1>14. ASSUME NEW k \in Nat, k \in S PROVE k + 1 \in S
    <2>1. SUFFICES ASSUME k + 1 <= M PROVE g[(k + 1) + 1] = s[(k + 1) + 1]
      OBVIOUS
    <2>2. PICK j : j = k + 1 /\ j \in 1..M /\ j \in 1..(M + 1) /\ k <= M
      BY <1>1, <2>1
    <2>3. PICK v \in Nat : v = g[j]
      BY <1>11, <2>2
    <2>4. g[j + 1] = v + Size(cmds[j].tgt)
      BY <1>3, <1>4, <1>11, <2>2, <2>3 DEF Follows
    <2>5. s[j + 1] = s[j] + Size(cmds[j].tgt)
      BY <1>1, <1>12, <2>2 DEF Sizes
    <2>6. v = s[j]
      BY <1>14, <2>2, <2>3
    <2> QED BY <2>2, <2>4, <2>5, <2>6
  <1> HIDE DEF S
  <1>15. M \in S
    BY <1>1, <1>13, <1>14, SetInduction
  <1>16. g[M + 1] = s[M + 1]
    BY <1>1, <1>15 DEF S
  <1> QED BY <1>0, <1>11, <1>12, <1>16

-------------------------------------------------------------------------------
(* The conversions of the build, to their end.                             *)

LEMMA BuildNext == ASSUME Kept, BuildKept, [Next]_vars PROVE BuildKept'
  <1>1. job \in Jobs
    BY DEF Kept, FilesKept
  <1>2. ASSUME WriteBlock PROVE BuildKept'
    <2>1. UNCHANGED <<config, job, device, outputs>> /\ pc = "write" /\ pc' = "write"
      BY <1>2 DEF WriteBlock, diffVars, inputs
    <2> QED BY <2>1, BuildIdle
  <1>3. ASSUME FinishImage PROVE BuildKept'
    <2>1. /\ UNCHANGED <<config, job, device, outputs>> /\ pc = "write"
          /\ pc' \in {"load", "split", "failed"}
      BY <1>3 DEF FinishImage, Raise, GoOn, inputs
    <2> QED BY <2>1, BuildIdle
  <1>4. ASSUME UNCHANGED vars PROVE BuildKept'
    <2>1. UNCHANGED <<config, tgt, src, pc, xfs, goes, line, order, newDat, list>>
          /\ UNCHANGED <<job, flash, stash, peak, at, dat>>
      BY <1>4 DEF vars, diffVars, inputs, graph, outputs, conversion, device
    <2>2. OfBuild' <=> OfBuild
      BY <2>1 DEF OfBuild
    <2>3. DiffKept' <=> DiffKept
      BY <2>1 DEF DiffKept, ImagesLoaded, Image, Lines, Ids, WrittenUpto, NewData, NewPieces
    <2>4. ListKept' <=> ListKept
      BY <2>1 DEF ListKept, Image
    <2>5. DeviceKept' <=> DeviceKept
      BY <2>1 DEF DeviceKept, Carried, Image
    <2> QED BY <2>1, <2>2, <2>3, <2>4, <2>5 DEF BuildKept
  <1> QED BY <1>1, <1>2, <1>3, <1>4, BuildLoad, BuildCompute, BuildCheck, BuildRun, BuildUpdated, BuildCutOff
      DEF Next, Progress, Over

LEMMA BuildAlways == Spec => []BuildKept
  <1>1. Init => BuildKept
    BY BuildInit
  <1>2. Kept /\ BuildKept /\ [Next]_vars => BuildKept'
    BY BuildNext
  <1> QED BY <1>1, <1>2, KeptAlways, PTL DEF Spec

(* The device never meets a command of the build's lists that it cannot    *)
(* carry out, whatever the image, in whatever order the transfers come and *)
(* wherever the update is cut off: there is nothing stashed, and new.dat   *)
(* has as much data as the new commands take.                              *)
THEOREM BuildNeverRefused == Spec => [](OfBuild => NeverRefused)
  <1>1. BuildKept => (OfBuild => NeverRefused)
    BY DEF BuildKept, Stages, Sequencing, NeverRefused
  <1> QED BY <1>1, BuildAlways, PTL

(* The head of the build's lists is right: they declare as many blocks as  *)
(* their commands write, however many commands the zeros are cut into, and *)
(* no room for stashes, of which the device needs none.                    *)
THEOREM BuildHeadTruthful == Spec => [](OfBuild => HeadTruthful)
  <1>1. ASSUME BuildKept, OfBuild PROVE HeadTruthful
    <2>1. PICK n : Weighs(list.commands, n) /\ list.total = n
      BY <1>1 DEF BuildKept, ListKept
    <2>2. Total(list.commands) = n
      BY <2>1, WeighsTotal
    <2>3. peak = 0 /\ list.maxStash = 0
      BY <1>1 DEF BuildKept, ListKept, DeviceKept
    <2>4. list.total = Total(list.commands) /\ peak <= list.maxStash
      BY <2>1, <2>2, <2>3
    <2> QED BY <2>4, Zenon DEF HeadTruthful, Total
  <1> QED BY <1>1, BuildAlways, PTL

LEMMA KeptDelivers == ASSUME job \in Jobs, BuildKept, OfBuild PROVE Delivered
  <1>1. SUFFICES ASSUME pc = "updated"
                 PROVE  /\ dat = Len(newDat)
                        /\ \A b \in 0..(Len(job.content) - 1) :
                              IF HasData(b) THEN flash[b] = job.content[b + 1]
                              ELSE (\E d \in (b - ReadAhead)..(b + ReadAhead) : HasData(d)) => flash[b] = Zero
    BY DEF Delivered
  <1>2. /\ 0..(Len(job.content) - 1) \subseteq WrittenBy(list.commands)
        /\ Plays(list.commands, newDat, Image, Len(job.content))
        /\ Carried /\ at = Len(list.commands) + 1
    BY <1>1 DEF BuildKept, ListKept, DeviceKept
  <1>3. PICK off : /\ Offsets(off, list.commands, newDat, Image, Len(job.content))
                   /\ dat = off[at]
                   /\ \A k \in 1..(at - 1) : \A x \in Blocks(list.commands[k].tgt) : flash[x] = Image[x]
    BY <1>2 DEF Carried
  <1>4. dat = Len(newDat)
    BY <1>2, <1>3 DEF Offsets
  <1>5. at - 1 = Len(list.commands)
    <2>1. Len(list.commands) \in Nat
      BY <1>2 DEF Plays
    <2> QED BY <1>2, <2>1
  <1>6. ASSUME NEW b \in 0..(Len(job.content) - 1) PROVE HasData(b) /\ flash[b] = job.content[b + 1]
    <2>1. HasData(b) /\ Image[b] = job.content[b + 1]
      BY <1>6, WholeImage
    <2>2. PICK k \in 1..Len(list.commands) : b \in Blocks(list.commands[k].tgt)
      BY <1>2, <1>6 DEF WrittenBy
    <2>3. flash[b] = Image[b]
      BY <1>3, <1>5, <2>2
    <2> QED BY <2>1, <2>3
  <1> QED BY <1>4, <1>6

(* What the build is for: once an update has run to its end every block on *)
(* the device is that of the image, and new.dat is used up, for every      *)
(* image, whatever the device held, in whatever order the transfers came   *)
(* out and wherever the update was interrupted before.                     *)
THEOREM BuildDelivers == Spec => [](OfBuild => Delivered)
  <1>1. Kept /\ BuildKept => (OfBuild => Delivered)
    BY KeptDelivers DEF Kept, FilesKept
  <1> QED BY <1>1, BuildAlways, KeptAlways, PTL

-------------------------------------------------------------------------------

(* The boundaries of a range set are where its blocks begin and end.       *)
LEMMA BoundariesShow ==
  ASSUME NEW r \in RangeSets, NEW x \in Int
  PROVE  x \in ToSet(r) <=> ((x \in Blocks(r)) # (x - 1 \in Blocks(r)))
  <1> DEFINE H == Len(r) \div 2
  <1>1. r \in Seq(Int) /\ r \in Seq(Nat) /\ Len(r) \in Nat /\ Len(r) % 2 = 0
    BY BlocksAreNumbers DEF RangeSets, Normal
  <1>2. /\ H \in Nat
        /\ \A i \in 1..H : /\ 2 * i - 1 \in 1..Len(r) /\ 2 * i \in 1..Len(r)
                          /\ r[2 * i - 1] \in Nat /\ r[2 * i] \in Nat /\ r[2 * i - 1] < r[2 * i]
        /\ \A i, j \in 1..H : i < j => r[2 * i] < r[2 * j - 1]
    BY UptoSteps
  <1>3. \A k \in 1..Len(r) : \E i \in 1..H : k = 2 * i - 1 \/ k = 2 * i
    BY <1>1, Halves
  <1>4. \A y \in Int : y \in Blocks(r) <=> \E i \in 1..H : r[2 * i - 1] <= y /\ y < r[2 * i]
    BY <1>1, BlocksAre
  <1>5. x \in ToSet(r) <=> \E i \in 1..H : x = r[2 * i - 1] \/ x = r[2 * i]
    <2>1. x \in ToSet(r) <=> \E k \in 1..Len(r) : x = r[k]
      BY <1>1 DEF ToSet
    <2> QED BY <1>2, <1>3, <2>1
  <1> HIDE DEF H
  <1>6. ASSUME NEW i \in 1..H PROVE r[2 * i - 1] \in Blocks(r) /\ r[2 * i - 1] - 1 \notin Blocks(r)
    <2>1. PICK a, e : a = r[2 * i - 1] /\ e = r[2 * i] /\ a \in Nat /\ e \in Nat /\ a < e
      BY <1>2
    <2>2. a \in Blocks(r)
      BY <1>4, <2>1
    <2>3. ASSUME NEW j \in 1..H, r[2 * j - 1] <= a - 1, a - 1 < r[2 * j] PROVE FALSE
      <3>1. r[2 * j - 1] \in Nat /\ r[2 * j] \in Nat /\ r[2 * j - 1] < r[2 * j]
        BY <1>2
      <3>2. i < j => e < r[2 * j - 1]
        BY <1>2, <2>1
      <3>3. j < i => r[2 * j] < a
        BY <1>2, <2>1
      <3> QED BY <2>1, <2>3, <3>1, <3>2, <3>3
    <2>4. a - 1 \notin Blocks(r)
      <3>1. a - 1 \in Int
        BY <2>1
      <3> QED BY <1>4, <2>3, <3>1
    <2> QED BY <2>1, <2>2, <2>4
  <1>7. ASSUME NEW i \in 1..H PROVE r[2 * i] \notin Blocks(r) /\ r[2 * i] - 1 \in Blocks(r)
    <2>1. PICK a, e : a = r[2 * i - 1] /\ e = r[2 * i] /\ a \in Nat /\ e \in Nat /\ a < e
      BY <1>2
    <2>2. e - 1 \in Blocks(r)
      <3>1. e - 1 \in Int /\ a <= e - 1 /\ e - 1 < e
        BY <2>1
      <3> QED BY <1>4, <2>1, <3>1
    <2>3. ASSUME NEW j \in 1..H, r[2 * j - 1] <= e, e < r[2 * j] PROVE FALSE
      <3>1. r[2 * j - 1] \in Nat /\ r[2 * j] \in Nat /\ r[2 * j - 1] < r[2 * j]
        BY <1>2
      <3>2. i < j => e < r[2 * j - 1]
        BY <1>2, <2>1
      <3>3. j < i => r[2 * j] < a
        BY <1>2, <2>1
      <3> QED BY <2>1, <2>3, <3>1, <3>2, <3>3
    <2>4. e \notin Blocks(r)
      BY <1>4, <2>1, <2>3
    <2> QED BY <2>1, <2>2, <2>4
  <1>8. CASE x \in ToSet(r)
    BY <1>5, <1>6, <1>7, <1>8
  <1>9. CASE x \in Blocks(r) /\ x - 1 \notin Blocks(r)
    <2>1. PICK i \in 1..H : r[2 * i - 1] <= x /\ x < r[2 * i]
      BY <1>4, <1>9
    <2>2. ~(r[2 * i - 1] <= x - 1)
      <3>1. x - 1 \in Int /\ r[2 * i] \in Nat
        BY <1>2
      <3> QED BY <1>4, <1>9, <2>1, <3>1
    <2>3. r[2 * i - 1] \in Nat
      BY <1>2
    <2> QED BY <1>5, <1>9, <2>1, <2>2, <2>3
  <1>10. CASE x \notin Blocks(r) /\ x - 1 \in Blocks(r)
    <2>1. PICK i \in 1..H : r[2 * i - 1] <= x - 1 /\ x - 1 < r[2 * i]
      BY <1>4, <1>10
    <2>2. r[2 * i - 1] \in Nat /\ r[2 * i] \in Nat
      BY <1>2
    <2>3. ~(x < r[2 * i])
      BY <1>4, <1>10, <2>1, <2>2
    <2> QED BY <1>5, <1>10, <2>1, <2>2, <2>3
  <1> QED BY <1>8, <1>9, <1>10

(* Equal sets are equal range sets: they are in normal form. *)
LEMMA SameBlocks ==
  ASSUME NEW a \in RangeSets, NEW b \in RangeSets, Blocks(a) = Blocks(b)
  PROVE  a = b
  <1>1. PICK m, n : m = Len(a) /\ n = Len(b) /\ m \in Nat /\ n \in Nat
    <2>1. Len(a) \in Nat /\ Len(b) \in Nat
      BY DEF RangeSets
    <2> QED BY ONLY <2>1
  <1>2. /\ a \in Seq(Nat) /\ DOMAIN a = 1..m /\ Ascends(a) /\ \A i \in 1..m : a[i] \in Nat
        /\ b \in Seq(Nat) /\ DOMAIN b = 1..n /\ Ascends(b) /\ \A i \in 1..n : b[i] \in Nat
    BY <1>1, NormalIs DEF RangeSets
  <1>3. ToSet(a) = ToSet(b)
    <2>1. ToSet(a) \subseteq Int /\ ToSet(b) \subseteq Int
      BY <1>2 DEF ToSet
    <2> QED BY <2>1, BoundariesShow
  <1>4. /\ \A i \in 1..m : \E j \in 1..n : a[i] = b[j]
        /\ \A j \in 1..n : \E i \in 1..m : b[j] = a[i]
    BY <1>2, <1>3 DEF ToSet
  <1>5. /\ \A i, j \in 1..m : i < j => a[i] < a[j]
        /\ \A i, j \in 1..n : i < j => b[i] < b[j]
    BY <1>1, <1>2 DEF Ascends
  <1> DEFINE S == {k \in Nat : (k <= m \/ k <= n) => k <= m /\ k <= n /\ \A i \in 1..k : a[i] = b[i]}
  <1>6. 0 \in S
    BY <1>1
  <1>7. ASSUME NEW k \in Nat, k \in S PROVE k + 1 \in S
    <2>1. SUFFICES ASSUME k + 1 <= m \/ k + 1 <= n
                   PROVE  k + 1 <= m /\ k + 1 <= n /\ a[k + 1] = b[k + 1]
      <3>1. k <= m \/ k <= n => \A i \in 1..k : a[i] = b[i]
        BY <1>7
      <3>2. \A i \in 1..(k + 1) : i \in 1..k \/ i = k + 1
        OBVIOUS
      <3> QED BY <1>1, <3>1, <3>2
    <2>2. k <= m /\ k <= n /\ \A i \in 1..k : a[i] = b[i]
      BY <1>1, <1>7, <2>1
    <2>3. PICK c : c = k + 1 /\ c \in Nat /\ c >= 1 /\ k < c
      OBVIOUS
    <2>4. ASSUME c \in 1..m PROVE c \in 1..n /\ b[c] <= a[c]
      <3>1. PICK j \in 1..n : a[c] = b[j]
        BY <1>4, <2>4
      <3>2. ~(j <= k)
        <4>1. SUFFICES ASSUME j <= k PROVE FALSE
          OBVIOUS
        <4>2. j \in 1..k /\ j \in 1..m /\ j < c
          BY <1>1, <2>2, <2>3, <4>1
        <4>3. a[j] = b[j] /\ a[j] < a[c] /\ a[j] \in Nat
          BY <1>2, <1>5, <2>2, <2>4, <4>2
        <4> QED BY <3>1, <4>3
      <3>3. c <= j /\ c \in 1..n
        BY <1>1, <2>3, <3>2
      <3>4. c = j \/ b[c] < b[j]
        BY <1>5, <3>3
      <3> QED BY <1>2, <3>1, <3>3, <3>4
    <2>5. ASSUME c \in 1..n PROVE c \in 1..m /\ a[c] <= b[c]
      <3>1. PICK j \in 1..m : b[c] = a[j]
        BY <1>4, <2>5
      <3>2. ~(j <= k)
        <4>1. SUFFICES ASSUME j <= k PROVE FALSE
          OBVIOUS
        <4>2. j \in 1..k /\ j \in 1..n /\ j < c
          BY <1>1, <2>2, <2>3, <4>1
        <4>3. a[j] = b[j] /\ b[j] < b[c] /\ b[j] \in Nat
          BY <1>2, <1>5, <2>2, <2>5, <4>2
        <4> QED BY <3>1, <4>3
      <3>3. c <= j /\ c \in 1..m
        BY <1>1, <2>3, <3>2
      <3>4. c = j \/ a[c] < a[j]
        BY <1>5, <3>3
      <3> QED BY <1>2, <3>1, <3>3, <3>4
    <2>6. c \in 1..m /\ c \in 1..n
      BY <1>1, <2>1, <2>3, <2>4, <2>5
    <2>7. a[c] = b[c]
      BY <1>2, <2>4, <2>5, <2>6
    <2> QED BY <2>3, <2>6, <2>7
  <1> HIDE DEF S
  <1>8. m \in S /\ n \in S
    BY <1>1, <1>6, <1>7, SetInduction
  <1>9. m = n /\ \A i \in 1..m : a[i] = b[i]
    BY <1>1, <1>8 DEF S
  <1>10. a = [i \in 1..m |-> a[i]] /\ b = [i \in 1..n |-> b[i]]
    BY <1>1, <1>2
  <1> QED BY <1>9, <1>10

-------------------------------------------------------------------------------
(* The files divide the image.                                             *)

(* The range sets are disjoint, and S together. *)
Divides(f, S) ==
    /\ \A i, j \in DOMAIN f : i # j => Blocks(f[i]) \intersect Blocks(f[j]) = {}
    /\ UNION {Blocks(f[i]) : i \in DOMAIN f} = S

RangesIn(fs) == [i \in DOMAIN fs |-> fs[i].ranges]

LEMMA DividesMeans ==
  ASSUME NEW f, NEW S
  PROVE  Divides(f, S) <=>
           /\ \A i, j \in DOMAIN f : i # j => Blocks(f[i]) \intersect Blocks(f[j]) = {}
           /\ \A i \in DOMAIN f : Blocks(f[i]) \subseteq S
           /\ \A x \in S : \E i \in DOMAIN f : x \in Blocks(f[i])
  <1>1. UNION {Blocks(f[i]) : i \in DOMAIN f} = S <=>
           /\ \A i \in DOMAIN f : Blocks(f[i]) \subseteq S
           /\ \A x \in S : \E i \in DOMAIN f : x \in Blocks(f[i])
    OBVIOUS
  <1> QED BY <1>1 DEF Divides

LEMMA DividesJoined ==
  ASSUME NEW E, NEW a \in Seq(E), NEW b \in Seq(E), NEW S, NEW T, S \intersect T = {},
         Divides(RangesIn(a), S), Divides(RangesIn(b), T)
  PROVE  Divides(RangesIn(a \o b), S \union T)
  <1>1. PICK m, n : m = Len(a) /\ n = Len(b) /\ m \in Nat /\ n \in Nat
    <2>1. Len(a) \in Nat /\ Len(b) \in Nat
      OBVIOUS
    <2> QED BY ONLY <2>1
  <1>2. DOMAIN a = 1..m /\ DOMAIN b = 1..n
    BY <1>1
  <1>3. PICK c : /\ c = a \o b /\ DOMAIN c = 1..(m + n)
                 /\ \A k \in 1..m : c[k] = a[k]
                 /\ \A k \in 1..n : c[m + k] = b[k]
    <2>1. /\ a \o b \in Seq(E) /\ Len(a \o b) = m + n
          /\ \A k \in 1..m : (a \o b)[k] = a[k]
          /\ \A k \in 1..n : (a \o b)[m + k] = b[k]
      BY <1>1, Concatenated
    <2>2. PICK c : c = a \o b
      OBVIOUS
    <2>3. DOMAIN c = 1..(m + n)
      BY <2>1, <2>2
    <2> QED BY <2>1, <2>2, <2>3
  <1>4. \A k \in 1..(m + n) : \/ k \in 1..m
                              \/ \E l \in 1..n : k = m + l
    <2>1. \A k \in 1..(m + n) : k \notin 1..m => k - m \in 1..n /\ k = m + (k - m)
      BY <1>1
    <2> QED BY <2>1
  <1>5. PICK A, B, C : /\ A = [i \in 1..m |-> Blocks(a[i].ranges)] /\ B = [i \in 1..n |-> Blocks(b[i].ranges)]
                       /\ C = [i \in 1..(m + n) |-> Blocks(c[i].ranges)]
    OBVIOUS
  <1>6. (\A k \in 1..m : k \in 1..(m + n) /\ C[k] = A[k]) /\ (\A k \in 1..n : m + k \in 1..(m + n) /\ C[m + k] = B[k])
    <2>1. \A k \in 1..m : k \in 1..(m + n)
      BY <1>1
    <2>2. \A k \in 1..n : m + k \in 1..(m + n)
      BY <1>1
    <2> QED BY <1>3, <1>5, <2>1, <2>2
  <1>7. /\ \A i, j \in 1..m : i # j => A[i] \intersect A[j] = {}
        /\ \A i \in 1..m : A[i] \subseteq S
        /\ \A x \in S : \E i \in 1..m : x \in A[i]
    <2>1. PICK f : f = RangesIn(a) /\ Divides(f, S)
      OBVIOUS
    <2>2. 1..m = DOMAIN f /\ \A i \in 1..m : A[i] = Blocks(f[i])
      BY <1>2, <1>5, <2>1 DEF RangesIn
    <2>3. /\ \A i, j \in DOMAIN f : i # j => Blocks(f[i]) \intersect Blocks(f[j]) = {}
          /\ \A i \in DOMAIN f : Blocks(f[i]) \subseteq S
          /\ \A y \in S : \E i \in DOMAIN f : y \in Blocks(f[i])
      BY ONLY <2>1, DividesMeans
    <2>4. (\A i \in 1..m : i \in DOMAIN f /\ A[i] = Blocks(f[i])) /\ \A i \in DOMAIN f : i \in 1..m
      BY ONLY <2>2
    <2>5. \A i, j \in 1..m : i # j => A[i] \intersect A[j] = {}
      BY ONLY <2>3, <2>4, Zenon
    <2>6. \A i \in 1..m : A[i] \subseteq S
      BY ONLY <2>3, <2>4, Zenon
    <2>7. ASSUME NEW y \in S PROVE \E i \in 1..m : y \in A[i]
      <3>1. PICK i \in DOMAIN f : y \in Blocks(f[i])
        BY ONLY <2>3, <2>7
      <3>2. i \in 1..m /\ A[i] = Blocks(f[i])
        BY ONLY <2>4, <3>1
      <3> QED BY ONLY <3>1, <3>2
    <2> QED BY ONLY <2>5, <2>6, <2>7
  <1>8. /\ \A i, j \in 1..n : i # j => B[i] \intersect B[j] = {}
        /\ \A i \in 1..n : B[i] \subseteq T
        /\ \A x \in T : \E i \in 1..n : x \in B[i]
    <2>1. PICK f : f = RangesIn(b) /\ Divides(f, T)
      OBVIOUS
    <2>2. 1..n = DOMAIN f /\ \A i \in 1..n : B[i] = Blocks(f[i])
      BY <1>2, <1>5, <2>1 DEF RangesIn
    <2>3. /\ \A i, j \in DOMAIN f : i # j => Blocks(f[i]) \intersect Blocks(f[j]) = {}
          /\ \A i \in DOMAIN f : Blocks(f[i]) \subseteq T
          /\ \A y \in T : \E i \in DOMAIN f : y \in Blocks(f[i])
      BY ONLY <2>1, DividesMeans
    <2>4. (\A i \in 1..n : i \in DOMAIN f /\ B[i] = Blocks(f[i])) /\ \A i \in DOMAIN f : i \in 1..n
      BY ONLY <2>2
    <2>5. \A i, j \in 1..n : i # j => B[i] \intersect B[j] = {}
      BY ONLY <2>3, <2>4, Zenon
    <2>6. \A i \in 1..n : B[i] \subseteq T
      BY ONLY <2>3, <2>4, Zenon
    <2>7. ASSUME NEW y \in T PROVE \E i \in 1..n : y \in B[i]
      <3>1. PICK i \in DOMAIN f : y \in Blocks(f[i])
        BY ONLY <2>3, <2>7
      <3>2. i \in 1..n /\ B[i] = Blocks(f[i])
        BY ONLY <2>4, <3>1
      <3> QED BY ONLY <3>1, <3>2
    <2> QED BY ONLY <2>5, <2>6, <2>7
  <1>9. ASSUME NEW i \in 1..(m + n), NEW j \in 1..(m + n), i # j PROVE C[i] \intersect C[j] = {}
    <2>1. CASE i \in 1..m /\ j \in 1..m
      BY <1>6, <1>7, <1>9, <2>1
    <2>2. CASE i \in 1..m /\ j \notin 1..m
      <3>1. PICK l \in 1..n : j = m + l
        BY <1>4, <2>2
      <3> QED BY <1>6, <1>7, <1>8, <2>2, <3>1
    <2>3. CASE i \notin 1..m /\ j \in 1..m
      <3>1. PICK l \in 1..n : i = m + l
        BY <1>4, <2>3
      <3> QED BY <1>6, <1>7, <1>8, <2>3, <3>1
    <2>4. CASE i \notin 1..m /\ j \notin 1..m
      <3>1. PICK k \in 1..n : i = m + k
        BY <1>4, <2>4
      <3>2. PICK l \in 1..n : j = m + l
        BY <1>4, <2>4
      <3> QED BY <1>6, <1>8, <1>9, <3>1, <3>2
    <2> QED BY <2>1, <2>2, <2>3, <2>4
  <1>10. \A i \in 1..(m + n) : C[i] \subseteq S \union T
    BY <1>4, <1>6, <1>7, <1>8
  <1>11. \A x \in S \union T : \E i \in 1..(m + n) : x \in C[i]
    BY <1>6, <1>7, <1>8
  <1>12. PICK f : f = RangesIn(c)
    OBVIOUS
  <1>14. DOMAIN f = 1..(m + n) /\ \A i \in 1..(m + n) : C[i] = Blocks(f[i])
    BY <1>3, <1>5, <1>12 DEF RangesIn
  <1>13. Divides(f, S \union T)
    <2>1. /\ \A i, j \in DOMAIN f : i # j => Blocks(f[i]) \intersect Blocks(f[j]) = {}
          /\ \A i \in DOMAIN f : Blocks(f[i]) \subseteq S \union T
          /\ \A y \in S \union T : \E i \in DOMAIN f : y \in Blocks(f[i])
      BY <1>9, <1>10, <1>11, <1>14
    <2> QED BY ONLY <2>1, DividesMeans
  <1> QED BY <1>3, <1>12, <1>13

(* No entry, and one. *)
LEMMA DividesFew ==
  /\ Divides(RangesIn(<<>>), {})
  /\ \A e : Divides(RangesIn(<<e>>), Blocks(e.ranges))
  <1>1. DOMAIN <<>> = {}
    OBVIOUS
  <1>2. Divides(RangesIn(<<>>), {})
    BY <1>1 DEF Divides, RangesIn
  <1>3. ASSUME NEW e PROVE Divides(RangesIn(<<e>>), Blocks(e.ranges))
    <2>1. DOMAIN <<e>> = {1} /\ <<e>>[1] = e
      OBVIOUS
    <2>2. PICK s : s = <<e>>
      OBVIOUS
    <2>3. DOMAIN s = {1} /\ s[1] = e
      BY <2>1, <2>2
    <2>4. Divides(RangesIn(s), Blocks(e.ranges))
      BY <2>3 DEF Divides, RangesIn
    <2> QED BY <2>2, <2>4
  <1> QED BY <1>2, <1>3

(* In groups of B, position k is in one group only. *)
LEMMA GroupOf ==
  ASSUME NEW B \in Nat \ {0}, NEW N \in Nat, NEW k \in 1..N
  PROVE  \E g \in 1..((N + B - 1) \div B) : (g - 1) * B + 1 <= k /\ k <= g * B
  <1>1. \A a \in Nat, b \in Nat \ {0} : a \div b \in Nat /\ b * (a \div b) <= a /\ a < b * (a \div b) + b
    OBVIOUS
  <1>2. PICK q : q = (k - 1) \div B /\ q \in Nat /\ B * q <= k - 1 /\ k - 1 < B * q + B
    <2>1. k - 1 \in Nat
      OBVIOUS
    <2> QED BY <1>1, <2>1
  <1>3. PICK n : n = (N + B - 1) \div B /\ n \in Nat /\ N + B - 1 < B * n + B
    <2>1. N + B - 1 \in Nat
      OBVIOUS
    <2> QED BY <1>1, <2>1
  <1>4. \A a, b, c \in Nat : a <= b => c * a <= c * b
    OBVIOUS
  <1>5. q + 1 <= n
    <2>1. SUFFICES ASSUME n <= q PROVE FALSE
      BY <1>2, <1>3
    <2>2. B * n <= B * q
      BY <1>2, <1>3, <1>4, <2>1
    <2>3. PICK x, y : x = B * n /\ y = B * q /\ x \in Nat /\ y \in Nat
      <3>1. \A a, b \in Nat : a * b \in Nat
        OBVIOUS
      <3> QED BY <1>2, <1>3, <3>1
    <2> QED BY <1>2, <1>3, <2>2, <2>3
  <1>6. q + 1 \in 1..n /\ (q + 1) - 1 = q
    BY ONLY <1>2, <1>3, <1>5
  <1>7. ((q + 1) - 1) * B = B * q /\ (q + 1) * B = B * q + B
    BY <1>2
  <1>8. PICK y : y = B * q /\ y \in Nat
    <2>1. \A a, b \in Nat : a * b \in Nat
      OBVIOUS
    <2> QED BY <1>2, <2>1
  <1>9. ((q + 1) - 1) * B + 1 <= k /\ k <= (q + 1) * B
    <2>1. y <= k - 1 /\ k - 1 < y + B /\ B \in Nat
      BY <1>2, <1>8
    <2>2. y + 1 <= k /\ k <= y + B
      BY <1>8, <2>1
    <2> QED BY <1>7, <1>8, <2>2
  <1> QED BY <1>3, <1>6, <1>9

(* No block is in two groups, and none is left out. *)
LEMMA GroupsDivide ==
  ASSUME NEW blocks \in Seq(Nat), Ascends(blocks)
  PROVE  Divides(GroupsOf(blocks), ToSet(blocks))
  <1>1. PICK B \in Nat \ {0}, n \in Nat :
            /\ n = (Len(blocks) + B - 1) \div B /\ DOMAIN GroupsOf(blocks) = 1..n
            /\ \A g \in 1..n :
                  /\ GroupsOf(blocks)[g] \in RangeSets
                  /\ Blocks(GroupsOf(blocks)[g])
                       = {blocks[i] : i \in {k \in 1..Len(blocks) : (g - 1) * B + 1 <= k /\ k <= g * B}}
    BY GroupIs
  <1>2. PICK N : N = Len(blocks) /\ N \in Nat
    OBVIOUS
  <1>3. PICK f : f = GroupsOf(blocks)
    OBVIOUS
  <1>4. \A x : x \in ToSet(blocks) <=> \E i \in 1..N : x = blocks[i]
    BY <1>2 DEF ToSet
  <1>5. \A i, j \in 1..N : i < j => blocks[i] < blocks[j]
    BY <1>2 DEF Ascends
  <1>6. \A i, j \in 1..N : blocks[i] = blocks[j] => i = j
    <2>1. \A i \in 1..N : blocks[i] \in Nat
      BY <1>2
    <2> QED BY <1>5, <2>1
  <1>7. ASSUME NEW g \in 1..n, NEW h \in 1..n, NEW i \in 1..N,
               (g - 1) * B + 1 <= i, i <= g * B, (h - 1) * B + 1 <= i, i <= h * B, g < h
        PROVE  FALSE
    <2>1. PICK p : p = h - 1 /\ p \in Nat /\ g <= p
      BY <1>7
    <2>2. g * B <= p * B
      <3>1. \A a, b, c \in Nat : a <= b => a * c <= b * c
        OBVIOUS
      <3> QED BY <2>1, <3>1
    <2>3. PICK s, t : s = g * B /\ t = p * B /\ s \in Nat /\ t \in Nat
      <3>1. \A a \in Nat, b \in Nat : a * b \in Nat
        OBVIOUS
      <3> QED BY <2>1, <3>1
    <2> QED BY ONLY <1>7, <2>1, <2>2, <2>3
  <1>8. /\ \A g, h \in DOMAIN f : g # h => Blocks(f[g]) \intersect Blocks(f[h]) = {}
        /\ \A g \in DOMAIN f : Blocks(f[g]) \subseteq ToSet(blocks)
        /\ \A x \in ToSet(blocks) : \E g \in DOMAIN f : x \in Blocks(f[g])
    <2>1. \A g \in DOMAIN f : g \in 1..n /\ Blocks(f[g])
                       = {blocks[i] : i \in {k \in 1..N : (g - 1) * B + 1 <= k /\ k <= g * B}}
      BY <1>1, <1>2, <1>3
    <2>2. ASSUME NEW g \in DOMAIN f, NEW h \in DOMAIN f, g # h, NEW x, x \in Blocks(f[g]), x \in Blocks(f[h])
          PROVE  FALSE
      <3>1. PICK i \in 1..N : (g - 1) * B + 1 <= i /\ i <= g * B /\ x = blocks[i]
        <4>1. Blocks(f[g]) = {blocks[l] : l \in {k \in 1..N : (g - 1) * B + 1 <= k /\ k <= g * B}}
          BY ONLY <2>1, g \in DOMAIN f
        <4> QED BY ONLY <2>2, <4>1
      <3>2. PICK j \in 1..N : (h - 1) * B + 1 <= j /\ j <= h * B /\ x = blocks[j]
        <4>1. Blocks(f[h]) = {blocks[l] : l \in {k \in 1..N : (h - 1) * B + 1 <= k /\ k <= h * B}}
          BY ONLY <2>1, h \in DOMAIN f
        <4> QED BY ONLY <2>2, <4>1
      <3>3. i = j
        BY ONLY <1>6, <3>1, <3>2
      <3>4. g \in 1..n /\ h \in 1..n /\ (g < h \/ h < g)
        <4>1. g \in 1..n /\ h \in 1..n
          BY <2>1
        <4> QED BY <2>2, <4>1
      <3>5. (h - 1) * B + 1 <= i /\ i <= h * B
        BY <3>2, <3>3
      <3> QED BY <1>7, <3>1, <3>4, <3>5
    <2>3. ASSUME NEW x \in ToSet(blocks) PROVE \E g \in DOMAIN f : x \in Blocks(f[g])
      <3>1. PICK i \in 1..N : x = blocks[i]
        BY <1>4
      <3>2. PICK g \in 1..((N + B - 1) \div B) : (g - 1) * B + 1 <= i /\ i <= g * B
        BY <1>2, GroupOf
      <3>3. g \in DOMAIN f
        BY <1>1, <1>2, <1>3, <3>2
      <3> QED BY <2>1, <3>1, <3>2, <3>3
    <2>4. \A g \in DOMAIN f : Blocks(f[g]) \subseteq ToSet(blocks)
      BY <1>4, <2>1
    <2> QED BY <2>2, <2>3, <2>4
  <1> QED BY ONLY <1>3, <1>8, DividesMeans

(* The files of an image without a block map divide its blocks, and one of *)
(* them is block 0.                                                        *)
LEMMA FileMapDivides ==
  ASSUME NEW img \in Images, NEW total \in Nat, NEW file, NEW image, ImageIs(image, file, img, total),
         0 \in WithData(img, total)
  PROVE  /\ Divides(RangesIn(FileMap(image, <<>>, image.care)), Blocks(image.care))
         /\ \E k \in DOMAIN FileMap(image, <<>>, image.care) :
               FileMap(image, <<>>, image.care)[k] = Entry(Special("__COPY"), <<0, 1>>)
  <1> DEFINE rest == Blocks(Subtract(image.care, image.clobbered))
             zeros == {b \in rest : IsZeroBlock(image, b)}
             groups == GroupsOf(Ascending(rest \ zeros))
             E == {Entry(name, r) : name \in {Special("__ZERO"), Special("__COPY")}
                                               \union {Group(g - 1) : g \in DOMAIN groups},
                                    r \in RangeSets}
  <1>1. image.care \in RangeSets /\ Blocks(image.care) = WithData(img, total) /\ image.clobbered = <<0, 1>>
    BY DEF ImageIs
  <1>2. <<0, 1>> \in RangeSets /\ Blocks(<<0, 1>>) = {0}
    <2>1. <<0, 1>> \in RangeSets /\ Blocks(<<0, 1>>) = 0..(1 - 1)
      BY PairIs
    <2> QED BY <2>1
  <1>3. rest = WithData(img, total) \ {0}
    BY <1>1, <1>2, SubtractIs
  <1>5. IsFiniteSet(WithData(img, total)) /\ WithData(img, total) \subseteq Nat
    <2>1. IsFiniteSet(0..(total - 1))
      BY FS_Interval
    <2> QED BY <2>1, FS_Subset DEF WithData
  <1>6. \A s \in SUBSET rest : /\ Ascending(s) \in Seq(Nat) /\ Ascends(Ascending(s)) /\ ToSet(Ascending(s)) = s
    <2>1. \A s \in SUBSET rest : s \subseteq Nat /\ IsFiniteSet(s)
      BY <1>3, <1>5, FS_Subset
    <2> HIDE DEF rest
    <2> QED BY <2>1, AscendingIs
  <1>7. zeros \in SUBSET rest /\ rest \ zeros \in SUBSET rest
    OBVIOUS
  <1>8. PICK z : z = zeros /\ z \subseteq rest
    BY <1>7
  <1>9. PICK p, q : /\ p = Ascending(zeros) /\ p \in Seq(Nat) /\ Ascends(p) /\ ToSet(p) = z
                    /\ q = Ascending(rest \ zeros) /\ q \in Seq(Nat) /\ Ascends(q) /\ ToSet(q) = rest \ z
    BY <1>6, <1>7, <1>8
  <1>10. OfBlocks(p) \in RangeSets /\ Blocks(OfBlocks(p)) = z
    BY <1>9, OfBlocksIs
  <1>11. PICK n \in Nat : DOMAIN groups = 1..n /\ \A g \in DOMAIN groups : groups[g] \in RangeSets
    BY <1>9, GroupsAre
  <1>12. Divides(groups, rest \ z)
    BY <1>9, GroupsDivide
  <1>13. PICK e : e = Entry(Special("__ZERO"), OfBlocks(p)) /\ e \in E /\ e.ranges = OfBlocks(p)
    <2>1. PICK e : e = Entry(Special("__ZERO"), OfBlocks(p))
      OBVIOUS
    <2>4. PICK Names : Names = {Special("__ZERO"), Special("__COPY")} \union {Group(g - 1) : g \in DOMAIN groups}
      OBVIOUS
    <2>5. Special("__ZERO") \in Names
      BY <2>4
    <2>6. E = {Entry(name, r) : name \in Names, r \in RangeSets}
      BY <2>4
    <2> HIDE DEF E
    <2>2. e \in E
      BY ONLY <1>10, <2>1, <2>5, <2>6
    <2>3. e.ranges = OfBlocks(p)
      BY <2>1 DEF Entry
    <2> QED BY <2>1, <2>2, <2>3
  <1>14. PICK a : /\ a = (IF zeros = {} THEN <<>> ELSE <<Entry(Special("__ZERO"), OfBlocks(Ascending(zeros)))>>)
                  /\ a = (IF z = {} THEN <<>> ELSE <<e>>)
    BY <1>8, <1>9, <1>13
  <1> HIDE DEF E, zeros, groups, rest
  <1>15. a \in Seq(E) /\ Divides(RangesIn(a), z)
    <2>1. <<>> \in Seq(E) /\ <<e>> \in Seq(E)
      BY ONLY <1>13
    <2>2. a \in Seq(E)
      BY ONLY <1>14, <2>1
    <2>3. Divides(RangesIn(<<>>), {}) /\ Divides(RangesIn(<<e>>), Blocks(e.ranges))
      BY DividesFew
    <2>4. Blocks(e.ranges) = z
      BY <1>10, <1>13
    <2>5. CASE z = {}
      <3>1. a = <<>>
        BY ONLY <1>14, <2>5
      <3> QED BY ONLY <2>2, <2>3, <2>5, <3>1
    <2>6. CASE z # {}
      <3>1. a = <<e>>
        BY ONLY <1>14, <2>6
      <3> QED BY ONLY <2>2, <2>3, <2>4, <3>1
    <2> QED BY <2>5, <2>6
  <1>16. PICK b : /\ b = [g \in DOMAIN groups |-> Entry(Group(g - 1), groups[g])]
                  /\ b \in Seq(E) /\ Divides(RangesIn(b), rest \ z)
    <2>1. PICK b : b = [g \in DOMAIN groups |-> Entry(Group(g - 1), groups[g])]
      OBVIOUS
    <2>2. \A g \in DOMAIN groups : Entry(Group(g - 1), groups[g]) \in E
      BY <1>11 DEF E
    <2>3. b \in [1..n -> E]
      BY <1>11, <2>1, <2>2
    <2>4. b \in Seq(E)
      BY ONLY <2>3
    <2>5. DOMAIN b = DOMAIN groups /\ \A g \in DOMAIN groups : b[g].ranges = groups[g]
      BY <2>1 DEF Entry
    <2>6. groups = [g \in DOMAIN groups |-> groups[g]]
      BY DEF groups, GroupsOf
    <2>7. RangesIn(b) = groups
      BY <2>5, <2>6, Zenon DEF RangesIn
    <2> QED BY <1>12, <2>1, <2>4, <2>7
  <1>17. PICK k : k = Entry(Special("__COPY"), image.clobbered) /\ k \in E /\ k.ranges = <<0, 1>>
                  /\ k = Entry(Special("__COPY"), <<0, 1>>)
    <2>1. PICK k : k = Entry(Special("__COPY"), <<0, 1>>)
      OBVIOUS
    <2>4. PICK Names : Names = {Special("__ZERO"), Special("__COPY")} \union {Group(g - 1) : g \in DOMAIN groups}
      OBVIOUS
    <2>5. Special("__COPY") \in Names
      BY <2>4
    <2>6. E = {Entry(name, r) : name \in Names, r \in RangeSets}
      BY <2>4 DEF E
    <2>2. k \in E
      BY ONLY <1>2, <2>1, <2>5, <2>6
    <2>3. k.ranges = <<0, 1>>
      BY <2>1 DEF Entry
    <2> QED BY <1>1, <2>1, <2>2, <2>3
  <1>18. <<k>> \in Seq(E) /\ Divides(RangesIn(<<k>>), {0})
    <2>1. <<k>> \in Seq(E)
      BY ONLY <1>17
    <2>2. Divides(RangesIn(<<k>>), Blocks(k.ranges))
      BY DividesFew
    <2> QED BY <1>2, <1>17, <2>1, <2>2
  <1>19. PICK ab : ab = a \o b /\ ab \in Seq(E) /\ Divides(RangesIn(ab), rest)
    <2>1. PICK ab : ab = a \o b
      OBVIOUS
    <2>2. z \intersect (rest \ z) = {} /\ z \union (rest \ z) = rest
      BY <1>8
    <2>3. Divides(RangesIn(a \o b), z \union (rest \ z))
      BY ONLY <1>15, <1>16, <2>2, DividesJoined
    <2>4. a \o b \in Seq(E)
      BY ONLY <1>15, <1>16
    <2> QED BY ONLY <2>1, <2>2, <2>3, <2>4
  <1>20. rest \intersect {0} = {} /\ rest \union {0} = Blocks(image.care)
    BY <1>1, <1>3
  <1>21. Divides(RangesIn(ab \o <<k>>), Blocks(image.care))
    <2>1. Divides(RangesIn(ab \o <<k>>), rest \union {0})
      BY ONLY <1>18, <1>19, <1>20, DividesJoined
    <2> QED BY ONLY <1>20, <2>1
  <1>22. FileMap(image, <<>>, image.care) = <<>> \o a \o b \o <<Entry(Special("__COPY"), image.clobbered)>>
    BY <1>14, <1>16, Zenon DEF FileMap, groups, zeros, rest
  <1>23. <<>> \o a = a
    BY ONLY <1>15
  <1>24. FileMap(image, <<>>, image.care) = ab \o <<k>>
    BY ONLY <1>17, <1>19, <1>22, <1>23
  <1>25. \E i \in DOMAIN (ab \o <<k>>) : (ab \o <<k>>)[i] = k
    <2>1. PICK m : m = Len(ab) /\ m \in Nat
      <3>1. Len(ab) \in Nat
        BY <1>19
      <3> QED BY ONLY <3>1
    <2>2. m + 1 \in DOMAIN (ab \o <<k>>) /\ (ab \o <<k>>)[m + 1] = k
      BY ONLY <1>18, <1>19, <2>1
    <2> QED BY ONLY <2>2
  <1> QED BY <1>17, <1>21, <1>24, <1>25

(* AssertPartition: range sets that divide the blocks of care are found to *)
(* be a partition of it.                                                   *)
LEMMA PartitionHolds ==
  ASSUME NEW care \in RangeSets, NEW ranges \in Seq(RangeSets), Divides(ranges, Blocks(care))
  PROVE  Partition(care, ranges)
  <1> DEFINE base == [ok |-> TRUE, union |-> Empty]
             Step(acc, r) == [ok |-> acc.ok /\ ~Overlaps(acc.union, r), union |-> Union(acc.union, r)]
             Same(iter) ==
               iter = [u \in SUBSET DOMAIN ranges |->
                         IF u = {} THEN base
                         ELSE LET x == Max(u) IN Step(iter[u \ {x}], ranges[x])]
             end == (CHOOSE iter : Same(iter))[DOMAIN ranges]
             Upto0(n) == UNION {Blocks(ranges[j]) : j \in 1..n}
  <1>0. Partition(care, ranges) <=> end.ok /\ end.union = care
    <2>1. FoldLeft(Step, base, ranges) = end
      BY Zenon DEF FoldLeft, MapThenFoldSet
    <2> HIDE DEF end
    <2>2. Partition(care, ranges) <=> LET e == FoldLeft(Step, base, ranges) IN e.ok /\ e.union = care
      BY Zenon DEF Partition
    <2> QED BY <2>1, <2>2, Zenon
  <1>1. PICK M : M = Len(ranges) /\ M \in Nat /\ DOMAIN ranges = 1..M
    OBVIOUS
  <1>2. \A k \in 1..M : ranges[k] \in RangeSets
    BY <1>1
  <1>3. PICK T : T = [ok : BOOLEAN, union : RangeSets]
    OBVIOUS
  <1>4. \A k \in 1..M, v \in T :
           /\ Step(v, ranges[k]) \in T
           /\ Step(v, ranges[k]).union = Union(v.union, ranges[k])
           /\ Step(v, ranges[k]).ok <=> v.ok /\ ~Overlaps(v.union, ranges[k])
    <2>1. TAKE k \in 1..M, v \in T
    <2>2. PICK t : t = Union(v.union, ranges[k]) /\ t \in RangeSets
      <3>1. v.union \in RangeSets
        BY <1>3
      <3> QED BY <1>2, <3>1, UnionIs
    <2>3. PICK o \in BOOLEAN : o = (v.ok /\ ~Overlaps(v.union, ranges[k]))
      OBVIOUS
    <2>4. Step(v, ranges[k]) = [ok |-> o, union |-> t]
      BY <2>2, <2>3
    <2> HIDE DEF Step
    <2>5. Step(v, ranges[k]) \in T /\ Step(v, ranges[k]).union = t /\ Step(v, ranges[k]).ok = o
      BY <1>3, <2>2, <2>4
    <2>6. Step(v, ranges[k]).ok <=> v.ok /\ ~Overlaps(v.union, ranges[k])
      BY <2>3, <2>5, Zenon
    <2> QED BY <2>2, <2>5, <2>6
  <1>5. base \in T
    <2>1. Empty \in RangeSets
      BY EmptyRange
    <2> QED BY <1>3, <2>1
  <1> HIDE DEF Step, base
  <1>6. PICK F : /\ F \in [(1..M) \X T -> T]
                 /\ \A k \in 1..M, v \in T : F[<<k, v>>] = Step(v, ranges[k])
    <2> DEFINE F == [p \in (1..M) \X T |-> Step(p[2], ranges[p[1]])]
    <2>1. F \in [(1..M) \X T -> T]
      BY <1>4
    <2>2. \A k \in 1..M, v \in T : F[<<k, v>>] = Step(v, ranges[k])
      OBVIOUS
    <2> HIDE DEF F
    <2> QED BY <2>1, <2>2
  <1>7. PICK it \in [SUBSET (1..M) -> T] : Iterates(it, base, F, M)
    BY <1>1, <1>5, <1>6, FoldExists, Zenon
  <1>8. Same(it)
    <2>1. ASSUME NEW u \in SUBSET (1..M), u # {}
          PROVE  F[<<Max(u), it[u \ {Max(u)}]>>] = Step(it[u \ {Max(u)}], ranges[Max(u)])
      <3>1. Max(u) \in 1..M /\ u \ {Max(u)} \in SUBSET (1..M)
        BY <1>1, <2>1, MaxOf
      <3> QED BY <1>6, <1>7, <3>1
    <2> QED BY <1>1, <1>7, <2>1 DEF Iterates
  <1>9. PICK iter : Same(iter) /\ end = iter[DOMAIN ranges]
    <2> HIDE DEF Same
    <2> QED BY <1>8, Zenon
  <1> HIDE DEF end
  <1>10. Folding(iter, base, F, M, T)
    <2>1. iter[{}] = base
      BY <1>9
    <2>2. ASSUME NEW k \in 1..M, iter[1..(k - 1)] \in T PROVE iter[1..k] = F[<<k, iter[1..(k - 1)]>>]
      <3>1. /\ 1..k \in SUBSET (1..M) /\ 1..k # {} /\ Max(1..k) = k /\ (1..k) \ {k} = 1..(k - 1)
        BY <1>1, UpTo
      <3>2. iter[1..k] = Step(iter[(1..k) \ {Max(1..k)}], ranges[Max(1..k)])
        BY <1>1, <1>9, <3>1
      <3> QED BY <1>6, <2>2, <3>1, <3>2
    <2> QED BY <2>1, <2>2 DEF Folding
  <1>11. FoldsTo(iter[1..M], base, F, M, T)
    BY <1>1, <1>5, <1>6, <1>10, FoldIs
  <1>12. PICK g \in [1..(M + 1) -> T] : Follows(g, base, F, M) /\ end = g[M + 1]
    BY <1>1, <1>9, <1>11 DEF FoldsTo
  <1>20. /\ \A i, j \in 1..M : i # j => Blocks(ranges[i]) \intersect Blocks(ranges[j]) = {}
         /\ UNION {Blocks(ranges[i]) : i \in 1..M} = Blocks(care)
    BY <1>1 DEF Divides
  <1> DEFINE S == {k \in Nat : k <= M => g[k + 1].ok /\ Blocks(g[k + 1].union) = Upto0(k)}
  <1>13. 0 \in S
    <2>1. g[0 + 1] = base
      BY <1>12 DEF Follows
    <2>2. Blocks(Empty) = {} /\ base.union = Empty /\ base.ok
      BY EmptyRange DEF base
    <2>3. Upto0(0) = {}
      OBVIOUS
    <2> QED BY <2>1, <2>2, <2>3
  <1>14. ASSUME NEW k \in Nat, k \in S PROVE k + 1 \in S
    <2>1. SUFFICES ASSUME k + 1 <= M PROVE g[(k + 1) + 1].ok /\ Blocks(g[(k + 1) + 1].union) = Upto0(k + 1)
      OBVIOUS
    <2>2. PICK j : j = k + 1 /\ j \in 1..M /\ j \in 1..(M + 1) /\ k <= M
      BY <1>1, <2>1
    <2>3. PICK v \in T : v = g[j] /\ g[j + 1] = Step(v, ranges[j])
      BY <1>6, <1>12, <2>2 DEF Follows
    <2>4. g[j + 1].union = Union(v.union, ranges[j]) /\ (g[j + 1].ok <=> v.ok /\ ~Overlaps(v.union, ranges[j]))
      BY <1>4, <2>2, <2>3
    <2>5. v.union \in RangeSets /\ ranges[j] \in RangeSets
      BY <1>2, <1>3, <2>2
    <2>6. Blocks(g[j + 1].union) = Blocks(v.union) \union Blocks(ranges[j])
      BY <2>4, <2>5, UnionIs
    <2>7. v.ok /\ Blocks(v.union) = Upto0(k)
      BY <1>14, <2>2, <2>3
    <2>8. Upto0(k + 1) = Upto0(k) \union Blocks(ranges[j])
      <3>1. 1..(k + 1) = (1..k) \union {j}
        BY <2>2
      <3> QED BY <3>1
    <2>9. Upto0(k) \intersect Blocks(ranges[j]) = {}
      <3>1. \A i \in 1..k : i \in 1..M /\ i # j
        BY <1>1, <2>2
      <3> QED BY <1>20, <2>2, <3>1
    <2>10. ~Overlaps(v.union, ranges[j])
      BY <2>5, <2>7, <2>9, OverlapsIs
    <2> HIDE DEF Upto0
    <2> QED BY <2>2, <2>4, <2>6, <2>7, <2>8, <2>10
  <1> HIDE DEF S
  <1>15. M \in S
    BY <1>1, <1>13, <1>14, SetInduction
  <1>16. end.ok /\ Blocks(end.union) = Upto0(M)
    BY <1>1, <1>12, <1>15 DEF S
  <1>17. end.union \in RangeSets
    <2>1. end \in T
      BY <1>1, <1>12
    <2> QED BY <1>3, <2>1
  <1>18. end.union = care
    BY <1>16, <1>17, <1>20, SameBlocks
  <1> QED BY <1>0, <1>16, <1>18

-------------------------------------------------------------------------------
(* The transfers divide the image.                                         *)

LEMMA FlattenSingles ==
  ASSUME NEW E, NEW x \in Seq(E), NEW seqs \in Seq(Seq(E)), Len(seqs) = Len(x),
         \A i \in 1..Len(x) : seqs[i] = <<x[i]>>
  PROVE  FlattenSeq(seqs) = x
  <1>1. PICK N : N = Len(x) /\ N \in Nat /\ N = Len(seqs) /\ \A i \in 1..N : seqs[i] = <<x[i]>> /\ x[i] \in E
    <2>1. Len(x) \in Nat /\ \A i \in 1..Len(x) : x[i] \in E
      OBVIOUS
    <2> QED BY <2>1
  <1>2. PICK g \in [1..(N + 1) -> Seq(E)] : Flattens(g, seqs) /\ FlattenSeq(seqs) = g[N + 1]
    <2>1. \E g \in [1..(Len(seqs) + 1) -> Seq(E)] :
             Flattens(g, seqs) /\ FlattenSeq(seqs) = g[Len(seqs) + 1]
      BY FlattenSteps
    <2> QED BY <1>1, <2>1
  <1>3. g[1] = <<>> /\ \A n \in 1..N : g[n + 1] = g[n] \o <<x[n]>>
    BY <1>1, <1>2 DEF Flattens
  <1>4. \A n \in 1..(N + 1) : g[n] \in Seq(E)
    BY <1>2
  <1> DEFINE S == {n \in Nat : n <= N => Len(g[n + 1]) = n /\ \A i \in 1..n : g[n + 1][i] = x[i]}
  <1>5. 0 \in S
    <2>1. g[0 + 1] = <<>>
      BY <1>3
    <2>2. Len(<<>>) = 0 /\ 1..0 = {}
      OBVIOUS
    <2> QED BY <2>1, <2>2
  <1>6. ASSUME NEW n \in Nat, n \in S PROVE n + 1 \in S
    <2>1. SUFFICES ASSUME n + 1 <= N
                   PROVE  Len(g[(n + 1) + 1]) = n + 1 /\ \A i \in 1..(n + 1) : g[(n + 1) + 1][i] = x[i]
      OBVIOUS
    <2>2. PICK s, t, e : /\ s = g[n + 1] /\ t = g[(n + 1) + 1] /\ e = x[n + 1]
                         /\ s \in Seq(E) /\ e \in E /\ t = s \o <<e>>
      <3>1. n + 1 \in 1..N /\ n + 1 \in 1..(N + 1)
        BY <1>1, <2>1
      <3> QED BY <1>1, <1>3, <1>4, <3>1
    <2>3. Len(s) = n /\ \A i \in 1..n : s[i] = x[i]
      BY <1>1, <1>6, <2>1, <2>2
    <2>4. Len(t) = n + 1 /\ t[n + 1] = e /\ \A i \in 1..n : t[i] = s[i]
      <3>1. <<e>> \in Seq(E) /\ Len(<<e>>) = 1 /\ <<e>>[1] = e
        BY ONLY <2>2
      <3>2. /\ Len(s \o <<e>>) = Len(s) + Len(<<e>>)
            /\ \A k \in 1..Len(s) : (s \o <<e>>)[k] = s[k]
            /\ \A k \in 1..Len(<<e>>) : (s \o <<e>>)[Len(s) + k] = <<e>>[k]
        BY ONLY <2>2, <3>1, Concatenated
      <3>3. 1 \in 1..Len(<<e>>)
        BY <3>1
      <3> QED BY ONLY <2>2, <2>3, <3>1, <3>2, <3>3
    <2>5. \A i \in 1..(n + 1) : i \in 1..n \/ i = n + 1
      OBVIOUS
    <2> QED BY ONLY <2>2, <2>3, <2>4, <2>5
  <1> HIDE DEF S
  <1>7. N \in S
    BY <1>1, <1>5, <1>6, SetInduction
  <1>8. PICK v : v = g[N + 1] /\ v \in Seq(E) /\ Len(v) = N /\ \A i \in 1..N : v[i] = x[i]
    <2>1. N + 1 \in 1..(N + 1)
      BY <1>1
    <2> QED BY <1>1, <1>4, <1>7, <2>1 DEF S
  <1>9. v = x
    <2>1. \A s \in Seq(E) : s = [i \in 1..Len(s) |-> s[i]]
      OBVIOUS
    <2>2. v = [i \in 1..Len(v) |-> v[i]] /\ x = [i \in 1..Len(x) |-> x[i]]
      BY <1>8, <2>1
    <2> QED BY ONLY <1>1, <1>8, <2>2
  <1> QED BY <1>2, <1>8, <1>9

LEMMA FlattenSomething ==
  ASSUME NEW E, NEW seqs \in Seq(Seq(E)), NEW k \in DOMAIN seqs, seqs[k] # <<>>
  PROVE  FlattenSeq(seqs) # <<>>
  <1>1. PICK N : N = Len(seqs) /\ N \in Nat /\ DOMAIN seqs = 1..N
    OBVIOUS
  <1>2. ToSet(FlattenSeq(seqs)) = Gathered(seqs, N)
    BY <1>1, FlattenedSet
  <1>3. PICK s : s = seqs[k] /\ s \in Seq(E) /\ s # <<>>
    <2>1. seqs[k] \in Seq(E)
      BY <1>1, ElementOfSeq
    <2> QED BY <2>1
  <1>4. s[1] \in ToSet(s)
    <2>1. 1 \in DOMAIN s
      BY ONLY <1>3
    <2> QED BY <2>1, Zenon DEF ToSet
  <1>5. s[1] \in Gathered(seqs, N)
    BY <1>1, <1>3, <1>4, Zenon DEF Gathered
  <1>6. ToSet(<<>>) = {}
    BY DEF ToSet
  <1> QED BY <1>2, <1>5, <1>6

(* What the transfers write. *)
TgtsOf(x) == [u \in DOMAIN x |-> x[u].tgt]

(* FindTransfers without a source makes one transfer of each file. *)
LEMMA TransfersDivide ==
  ASSUME NEW img, NEW total, FilledAll(tgt.files, img, total), src = NoImage,
         NEW S, Divides(RangesIn(tgt.files), S),
         NEW k \in DOMAIN tgt.files, tgt.files[k] = Entry(Special("__COPY"), <<0, 1>>),
         NEW x, x = FlattenSeq([i \in DOMAIN tgt.files |-> TransfersOf(tgt.files[i])])
  PROVE  /\ Divides(TgtsOf(x), S)
         /\ k \in DOMAIN x /\ x[k].style = "new" /\ x[k].tgt = <<0, 1>>
  <1>1. PICK fs, H : fs = tgt.files /\ fs \in Seq(H) /\ \A entry \in H : Filled(entry, img, total)
    BY DEF FilledAll
  <1>2. DOMAIN src.files = {}
    <2>1. src.files = <<>>
      BY DEF NoImage
    <2> QED BY <2>1
  <1>3. \A field, name : FilesWith(field, name) = {}
    BY <1>2 DEF FilesWith
  <1>4. \A name : SourceFiles(name) = {}
    BY <1>3 DEF SourceFiles
  <1>5. SourceZeros = Empty
    BY <1>3 DEF SourceZeros
  <1>6. PICK M : M = Len(fs) /\ M \in Nat /\ DOMAIN fs = 1..M
    BY <1>1
  <1>7. PICK f : f = [i \in 1..M |->
                        IF fs[i].name = Special("__ZERO")
                        THEN Transfer(fs[i].name, "__ZERO", fs[i].ranges, Empty, "zero")
                        ELSE Transfer(fs[i].name, None, fs[i].ranges, Empty, "new")]
    OBVIOUS
  <1>8. \A i \in 1..M : TransfersOf(fs[i]) = <<f[i]>>
    <2>1. TAKE i \in 1..M
    <2>2. CASE fs[i].name = Special("__ZERO")
      BY <1>5, <1>7, <2>2 DEF TransfersOf
    <2>3. CASE fs[i].name # Special("__ZERO")
      BY <1>4, <1>7, <2>3 DEF TransfersOf
    <2> QED BY <2>2, <2>3
  <1>9. PICK E : E = {f[i] : i \in 1..M}
    OBVIOUS
  <1>10. f \in Seq(E) /\ Len(f) = M /\ DOMAIN f = 1..M
    <2>1. f \in [1..M -> E]
      BY <1>7, <1>9
    <2> QED BY ONLY <1>6, <2>1
  <1>11. PICK seqs : seqs = [i \in DOMAIN tgt.files |-> TransfersOf(tgt.files[i])]
    OBVIOUS
  <1>12. /\ DOMAIN seqs = 1..M
         /\ \A i \in 1..M : seqs[i] = <<f[i]>>
    BY <1>1, <1>6, <1>8, <1>11
  <1>13. seqs \in Seq(Seq(E)) /\ Len(seqs) = M
    <2>1. \A i \in 1..M : <<f[i]>> \in Seq(E)
      BY <1>9
    <2>2. seqs = [i \in 1..M |-> seqs[i]]
      BY <1>11, <1>12
    <2>3. seqs \in [1..M -> Seq(E)]
      BY <1>12, <2>1, <2>2
    <2>4. PICK Y : Y = Seq(E)
      OBVIOUS
    <2>5. seqs \in Seq(Y) /\ Len(seqs) = M
      BY ONLY <1>6, <2>3, <2>4
    <2> QED BY <2>4, <2>5
  <1>14. x = f
    <2>1. FlattenSeq(seqs) = f
      BY ONLY <1>10, <1>12, <1>13, FlattenSingles
    <2> QED BY <1>11, <2>1
  <1>15. \A i \in 1..M : f[i].tgt = fs[i].ranges
    BY <1>7 DEF Transfer
  <1>16. TgtsOf(x) = RangesIn(tgt.files)
    BY <1>1, <1>6, <1>10, <1>14, <1>15 DEF TgtsOf, RangesIn
  <1>17. x[k].style = "new" /\ x[k].tgt = <<0, 1>> /\ k \in DOMAIN x
    <2>1. k \in 1..M
      BY <1>1, <1>6
    <2>2. fs[k].name = Special("__COPY") /\ fs[k].ranges = <<0, 1>>
      BY <1>1 DEF Entry
    <2>3. Special("__COPY") # Special("__ZERO")
      <3>1. Special("__COPY").path = "__COPY" /\ Special("__ZERO").path = "__ZERO" /\ "__COPY" # "__ZERO"
        BY DEF Special, Name
      <3> QED BY <3>1
    <2>4. x[k] = Transfer(fs[k].name, None, <<0, 1>>, Empty, "new")
      BY <1>7, <1>14, <2>1, <2>2, <2>3
    <2>5. PICK no : no = <<>>
      OBVIOUS
    <2>6. x[k] = [name |-> fs[k].name, source |-> None, tgt |-> <<0, 1>>, src |-> Empty, style |-> "new",
                  stash |-> no, use |-> no, patch |-> 0]
      BY <2>4, <2>5 DEF Transfer
    <2>7. x[k].style = "new" /\ x[k].tgt = <<0, 1>>
      BY ONLY <2>6
    <2>8. k \in DOMAIN x
      BY <1>10, <1>14, <2>1
    <2> QED BY ONLY <2>7, <2>8
  <1> QED BY <1>16, <1>17

-------------------------------------------------------------------------------
(* The sequence: each transfer once.                                       *)

(* One more element, in front and behind. *)
LEMMA InjectiveMore ==
  ASSUME NEW E, NEW q \in Seq(E), IsInjective(q), NEW u \in E, u \notin ToSet(q)
  PROVE  /\ IsInjective(<<u>> \o q) /\ ToSet(<<u>> \o q) = {u} \union ToSet(q)
         /\ IsInjective(Append(q, u)) /\ ToSet(Append(q, u)) = {u} \union ToSet(q)
  <1>0. \A S : u \in S => <<u>> \in Seq(S)
    OBVIOUS
  <1>1. PICK one : one = <<u>> /\ one \in Seq(E) /\ Len(one) = 1 /\ one[1] = u
    <2>1. <<u>> \in Seq(E)
      BY <1>0
    <2>2. Len(<<u>>) = 1 /\ <<u>>[1] = u
      OBVIOUS
    <2> QED BY <2>1, <2>2, Zenon
  <1>2. ToSet(one) = {u}
    BY <1>1 DEF ToSet
  <1>3. ToSet(one \o q) = {u} \union ToSet(q) /\ ToSet(q \o one) = {u} \union ToSet(q)
    <2>1. ToSet(one \o q) = ToSet(one) \union ToSet(q) /\ ToSet(q \o one) = ToSet(q) \union ToSet(one)
      BY <1>1, ConcatenatedSet
    <2> QED BY <1>2, <2>1, Zenon
  <1>4. Append(q, u) = q \o one
    BY <1>1
  <1>5. \A k \in 1..Len(q) : q[k] # u
    BY DEF ToSet
  <1>6. \A i, j \in 1..Len(q) : q[i] = q[j] => i = j
    BY DEF IsInjective
  <1>7. PICK f, g : f = one \o q /\ g = q \o one /\ f \in Seq(E) /\ g \in Seq(E)
    <2>1. one \o q \in Seq(E) /\ q \o one \in Seq(E)
      BY <1>1
    <2> QED BY <2>1
  <1>8. /\ Len(f) = Len(q) + 1 /\ f[1] = u /\ \A k \in 2..Len(f) : f[k] = q[k - 1]
        /\ Len(g) = Len(q) + 1 /\ g[Len(g)] = u /\ \A k \in 1..Len(q) : g[k] = q[k]
    BY <1>1, <1>7
  <1>9. IsInjective(f) /\ IsInjective(g)
    <2>0. Len(q) \in Nat
      OBVIOUS
    <2>1. ASSUME NEW i \in 1..Len(f), NEW j \in 1..Len(f), f[i] = f[j] PROVE i = j
      <3>1. (i = 1 \/ i - 1 \in 1..Len(q)) /\ (j = 1 \/ j - 1 \in 1..Len(q))
        BY <1>8, <2>0
      <3> QED BY <2>0, <2>1, <3>1, <1>5, <1>6, <1>8
    <2>2. ASSUME NEW i \in 1..Len(g), NEW j \in 1..Len(g), g[i] = g[j] PROVE i = j
      <3>1. (i = Len(g) \/ i \in 1..Len(q)) /\ (j = Len(g) \/ j \in 1..Len(q))
        BY <1>8, <2>0
      <3> QED BY <2>0, <2>2, <3>1, <1>5, <1>6, <1>8
    <2>3. DOMAIN f = 1..Len(f) /\ DOMAIN g = 1..Len(g)
      BY <1>7
    <2> QED BY <2>1, <2>2, <2>3 DEF IsInjective
  <1> QED BY <1>1, <1>3, <1>4, <1>7, <1>9

(* Without edges every transfer is a sink, and the sinks are placed one    *)
(* after the other.                                                        *)
LineKept ==
    /\ line.left = <<>> /\ line.newSinks = {}
    /\ line.sinks = Remaining /\ line.sources \subseteq Remaining
    /\ IsInjective(line.right)

LEMMA LineBegins ==
  ASSUME NEW img, NEW total, AloneAll(xfs, img, total), GenerateDigraph
  PROVE  LineKept'
  <1>1. Digraph = {}
    BY NoEdges
  <1>2. xfs' = xfs /\ Ids' = Ids
    BY DEF GenerateDigraph, Ids
  <1>3. \A u \in Ids : After(Digraph, u, Ids) = {} /\ Before(Digraph, u, Ids) = {}
    BY <1>1 DEF After, Before
  <1>4. line' = [NoLine EXCEPT !.sinks = Ids, !.sources = Ids]
    BY <1>3 DEF GenerateDigraph
  <1>5. PICK no : no = <<>>
    OBVIOUS
  <1>6. line' = [left |-> no, right |-> no, sinks |-> Ids, newSinks |-> {}, sources |-> Ids,
                 newSources |-> {}]
    BY <1>4, <1>5 DEF NoLine
  <1>7. /\ line'.left = no /\ line'.right = no /\ line'.sinks = Ids /\ line'.newSinks = {}
        /\ line'.sources = Ids
    BY <1>6
  <1>8. ToSet(no) = {} /\ IsInjective(no)
    BY <1>5 DEF ToSet, IsInjective
  <1>9. Remaining' = Ids
    BY <1>2, <1>7, <1>8 DEF Remaining, Placed
  <1> QED BY <1>5, <1>7, <1>8, <1>9 DEF LineKept

LEMMA LineGoesOn ==
  ASSUME line \in Lines, goes = {}, LineKept, NEW u \in Ids, PlaceSink(u) \/ PlaceSource(u)
  PROVE  LineKept'
  <1>1. PICK q : q = line.right /\ q \in Seq(Ids) /\ IsInjective(q)
    BY DEF Lines, LineKept
  <1>2. ToSet(line.left) = {}
    BY DEF LineKept, ToSet
  <1>3. line.sinks = Ids \ ToSet(q)
    BY <1>1, <1>2 DEF LineKept, Remaining, Placed
  <1>4. PlaceSink(u)
    BY DEF PlaceSource, LineKept
  <1>5. u \in Ids \ ToSet(q) /\ xfs' = xfs
    BY <1>3, <1>4 DEF PlaceSink, InSequence
  <1>6. NowSinks(u) = {}
    BY DEF NowSinks, Before
  <1>7. PICK p : p = PassSinks(line.sinks \ {u}, line.newSinks \union NowSinks(u)) /\ p \in Lines
    <2>1. line.sinks \ {u} \in SUBSET Ids /\ line.newSinks \union NowSinks(u) \in SUBSET Ids
      BY <1>6 DEF Lines
    <2> QED BY <2>1, PassIn
  <1>8. line.newSinks \union NowSinks(u) = {}
    BY <1>6 DEF LineKept
  <1>9. /\ p.sinks = line.sinks \ {u} /\ p.newSinks = {} /\ p.sources = line.sources
        /\ p.left = line.left /\ p.right = line.right
    BY <1>7, <1>8 DEF PassSinks, Lines
  <1>10. line' = [p EXCEPT !.right = <<u>> \o @, !.sources = @ \ {u}]
    BY <1>4, <1>7 DEF PlaceSink
  <1>11. /\ line'.left = <<>> /\ line'.newSinks = {} /\ line'.sinks = line.sinks \ {u}
         /\ line'.sources = line.sources \ {u} /\ line'.right = <<u>> \o q
    BY <1>1, <1>7, <1>9, <1>10 DEF Lines, LineKept
  <1>12. IsInjective(<<u>> \o q) /\ ToSet(<<u>> \o q) = {u} \union ToSet(q)
    BY <1>1, <1>5, InjectiveMore
  <1>13. ToSet(line'.left) = {}
    BY <1>11 DEF ToSet
  <1>14. Remaining' = line.sinks \ {u}
    <2>1. Remaining' = Ids \ (ToSet(line'.left) \union ToSet(line'.right))
      BY <1>5 DEF Remaining, Placed, Ids
    <2> QED BY <2>1, <1>3, <1>11, <1>12, <1>13
  <1>15. line.sources \subseteq line.sinks
    BY DEF LineKept
  <1> QED BY <1>11, <1>12, <1>14, <1>15 DEF LineKept

(* It never comes to looking for the best vertex of a circle. *)
LEMMA LineEnds ==
  ASSUME line \in Lines, LineKept
  PROVE  /\ ~Stuck
         /\ Remaining = {} =>
              /\ IsInjective(line.left \o line.right) /\ ToSet(line.left \o line.right) = Ids
  <1>1. ~Stuck
    BY DEF Stuck, LineKept
  <1>2. PICK q : q = line.right /\ q \in Seq(Ids) /\ IsInjective(q)
    BY DEF Lines, LineKept
  <1>3. ToSet(line.left) = {} /\ line.left = <<>>
    BY DEF LineKept, ToSet
  <1>4. line.left \o line.right = q
    BY <1>2, <1>3
  <1>5. Remaining = {} => ToSet(q) = Ids
    <2>1. ToSet(q) \subseteq Ids
      BY <1>2 DEF ToSet
    <2> QED BY <2>1, <1>2, <1>3 DEF Remaining, Placed
  <1> QED BY <1>1, <1>2, <1>4, <1>5

(* A sequence without repetition is complete once it is as long as a       *)
(* complete one, and no earlier.                                           *)
LEMMA InjectiveFills ==
  ASSUME NEW E, NEW q \in Seq(E), IsInjective(q), ToSet(q) = E, NEW r \in Seq(E), IsInjective(r)
  PROVE  ToSet(r) = E <=> Len(r) = Len(q)
  <1> DEFINE Q == 1..Len(q)
             R == 1..Len(r)
  <1>1. Len(q) \in Nat /\ Len(r) \in Nat /\ q \in [Q -> E] /\ r \in [R -> E]
    OBVIOUS
  <1>2. IsFiniteSet(Q) /\ Cardinality(Q) = Len(q) /\ IsFiniteSet(R) /\ Cardinality(R) = Len(r)
    <2>1. \A n \in Nat : IsFiniteSet(1..n) /\ Cardinality(1..n) = n
      <3>1. ASSUME NEW n \in Nat PROVE IsFiniteSet(1..n) /\ Cardinality(1..n) = IF 1 > n THEN 0 ELSE n - 1 + 1
        BY FS_Interval
      <3> QED BY <3>1
    <2> QED BY <2>1, <1>1
  <1>3. q \in Surjection(Q, E) /\ q \in Injection(Q, E) /\ r \in Injection(R, E)
    <2>1. \A x \in E : \E k \in Q : q[k] = x
      BY <1>1 DEF ToSet
    <2> QED BY <2>1, <1>1 DEF Surjection, Injection
  <1>4. IsFiniteSet(E) /\ Cardinality(E) = Len(q)
    BY <1>2, <1>3, FS_Surjection, Zenon
  <1>5. Cardinality(R) = Cardinality(E) <=> r \in Surjection(R, E)
    BY <1>3, <1>4, FS_Injection, Zenon
  <1>6. r \in Surjection(R, E) <=> ToSet(r) = E
    BY <1>1 DEF Surjection, ToSet
  <1> QED BY <1>2, <1>4, <1>5, <1>6

(* The loop of ImproveVertexSequence, too, has each transfer once: without *)
(* edges any of the others may come next.                                  *)
LEMMA GreedyAll ==
  ASSUME NEW img, NEW total, AloneAll(xfs, img, total), goes = {},
         order \in Seq(Ids), IsInjective(order), ToSet(order) = Ids
  PROVE  /\ Greedy \in Seq(Ids) /\ Len(Greedy) = Len(order)
         /\ IsInjective(Greedy) /\ ToSet(Greedy) = Ids
  <1>1. PICK g \in [1..(Len(order) + 1) -> Seq(Ids)] :
           /\ g[1] = <<>> /\ Greedy = g[Len(order) + 1]
           /\ \A k \in 1..Len(order) : Picks(g[k], g[k + 1])
    BY GreedySteps
  <1>2. PICK M : M = Len(order) /\ M \in Nat
    OBVIOUS
  <1> DEFINE Is(n) == Len(g[n + 1]) = n /\ IsInjective(g[n + 1])
             S == {n \in Nat : n \in 0..M => Is(n)}
  <1>3. 0 \in S
    <2>1. PICK no : no = <<>> /\ g[1] = no
      BY <1>1
    <2>2. Len(no) = 0 /\ IsInjective(no)
      BY <2>1 DEF IsInjective
    <2> QED BY <2>1, <2>2
  <1>4. ASSUME NEW n \in Nat, n \in S, n + 1 \in 0..M PROVE Is(n + 1)
    <2>1. Is(n) /\ n + 1 \in 1..M /\ n # M
      BY <1>2, <1>4
    <2>2. PICK done, next : /\ done = g[n + 1] /\ next = g[(n + 1) + 1] /\ Picks(done, next)
                            /\ done \in Seq(Ids) /\ Len(done) = n /\ IsInjective(done)
      <3>1. g[n + 1] \in Seq(Ids) /\ Picks(g[n + 1], g[(n + 1) + 1])
        BY <1>1, <1>2, <2>1
      <3> QED BY <2>1, <3>1
    <2>3. ToSet(done) # Ids
      BY ONLY <1>2, <2>1, <2>2, order \in Seq(Ids), IsInjective(order), ToSet(order) = Ids,
              InjectiveFills
    <2>4. \A u : Before(goes, u, Ids) = {}
      BY DEF Before
    <2>5. ToSet(done) \subseteq Ids
      BY <2>2 DEF ToSet
    <2>6. {u \in Ids \ ToSet(done) : Before(goes, u, Ids) \subseteq ToSet(done)} # {}
      BY <2>3, <2>4, <2>5
    <2>7. PICK u : u \in Ids /\ u \notin ToSet(done) /\ next = Append(done, u)
      BY <2>2, <2>6 DEF Picks
    <2>8. Len(next) = n + 1
      BY <2>2, <2>7
    <2>9. IsInjective(next)
      <3>1. IsInjective(Append(done, u))
        <4>1. PICK I : I = Ids
          OBVIOUS
        <4>2. done \in Seq(I) /\ u \in I /\ u \notin ToSet(done) /\ IsInjective(done)
          BY <2>2, <2>7, <4>1
        <4> QED BY ONLY <4>2, InjectiveMore
      <3> QED BY <2>7, <3>1, Zenon
    <2> QED BY <2>2, <2>8, <2>9
  <1>5. \A n \in Nat : n \in S => n + 1 \in S
    BY <1>4
  <1>6. Nat \subseteq S
    <2> HIDE DEF S
    <2> QED BY <1>3, <1>5, SetInduction
  <1>7. Is(M)
    BY <1>2, <1>6
  <1>8. PICK r : r = Greedy /\ r \in Seq(Ids) /\ Len(r) = Len(order) /\ IsInjective(r)
    BY <1>1, <1>2, <1>7
  <1>9. ToSet(r) = Ids
    BY ONLY <1>8, order \in Seq(Ids), IsInjective(order), ToSet(order) = Ids, InjectiveFills
  <1> QED BY <1>8, <1>9

(* Such a sequence of transfers is found to be good: each writes other     *)
(* blocks, and together they write all there are.                          *)
LEMMA GoodHolds ==
  ASSUME NEW img, NEW total, AloneAll(xfs, img, total), tgt.care \in RangeSets,
         order \in Seq(Ids), IsInjective(order), ToSet(order) = Ids,
         Divides(TgtsOf(xfs), Blocks(tgt.care))
  PROVE  SequenceGood
  <1>1. PICK M : M = Len(order) /\ M \in Nat
    OBVIOUS
  <1>2. PICK g \in [1..(M + 1) -> [ok : BOOLEAN, touched : RangeSets]] :
           /\ g[1].ok /\ Blocks(g[1].touched) = {}
           /\ \A k \in 1..M : Touches(g[k], g[k + 1], order[k])
           /\ SequenceGood <=> g[M + 1].ok /\ Subtract(tgt.care, g[M + 1].touched) = Empty
    BY <1>1, GoodSteps
  <1>3. \A n \in 0..M : Blocks(g[n + 1].touched) = WrittenUpto(n)
    BY ONLY <1>1, <1>2, TouchedUpto
  <1>4. /\ \A u, v \in Ids : u # v => Blocks(xfs[u].tgt) \intersect Blocks(xfs[v].tgt) = {}
        /\ \A x \in Blocks(tgt.care) : \E u \in Ids : x \in Blocks(xfs[u].tgt)
    <2>1. DOMAIN TgtsOf(xfs) = Ids /\ \A u \in Ids : TgtsOf(xfs)[u] = xfs[u].tgt
      BY DEF TgtsOf, Ids
    <2>2. /\ \A u, v \in Ids : u # v => Blocks(TgtsOf(xfs)[u]) \intersect Blocks(TgtsOf(xfs)[v]) = {}
          /\ \A x \in Blocks(tgt.care) : \E u \in Ids : x \in Blocks(TgtsOf(xfs)[u])
      <3>1. PICK f, B : /\ f = TgtsOf(xfs) /\ B = Blocks(tgt.care) /\ Divides(f, B) /\ DOMAIN f = Ids
        BY <2>1
      <3>2. /\ \A i, j \in DOMAIN f : i # j => Blocks(f[i]) \intersect Blocks(f[j]) = {}
            /\ \A x \in B : \E i \in DOMAIN f : x \in Blocks(f[i])
        BY ONLY <3>1, DividesMeans
      <3> QED BY <3>1, <3>2, Zenon
    <2> QED BY <2>1, <2>2
  <1>5. ASSUME NEW i \in 1..M, NEW j \in 1..M, i # j
        PROVE  Blocks(xfs[order[i]].tgt) \intersect Blocks(xfs[order[j]].tgt) = {}
    <2>1. order[i] \in Ids /\ order[j] \in Ids /\ order[i] # order[j]
      BY <1>1, <1>5 DEF IsInjective
    <2> QED BY <1>4, <2>1, Zenon
  <1> DEFINE S == {n \in Nat : n <= M => g[n + 1].ok}
  <1>6. 0 \in S
    <2>1. g[0 + 1] = g[1]
      OBVIOUS
    <2> QED BY <1>2, <2>1
  <1>7. ASSUME NEW n \in Nat, n \in S PROVE n + 1 \in S
    <2>1. SUFFICES ASSUME n + 1 <= M PROVE g[(n + 1) + 1].ok
      OBVIOUS
    <2>2. n + 1 \in 1..M /\ n \in 0..M /\ n <= M /\ \A j \in 1..n : j \in 1..M /\ j # n + 1
      BY <1>1, <2>1
    <2>3. g[n + 1].ok /\ Blocks(g[n + 1].touched) = WrittenUpto(n)
      BY <1>3, <1>7, <2>2
    <2>4. WrittenUpto(n) \intersect Blocks(xfs[order[n + 1]].tgt) = {}
      BY <1>5, <2>2 DEF WrittenUpto
    <2>5. Touches(g[n + 1], g[(n + 1) + 1], order[n + 1])
      BY <1>2, <2>2
    <2> QED BY <2>3, <2>4, <2>5, Zenon DEF Touches
  <1>8. Nat \subseteq S
    <2> HIDE DEF S
    <2> QED BY <1>6, <1>7, SetInduction
  <1>9. g[M + 1].ok
    BY <1>1, <1>8
  <1>10. Blocks(tgt.care) \subseteq WrittenUpto(M)
    <2>1. ASSUME NEW x \in Blocks(tgt.care) PROVE x \in WrittenUpto(M)
      <3>1. PICK u \in Ids : x \in Blocks(xfs[u].tgt)
        BY <1>4
      <3>2. PICK j \in 1..M : order[j] = u
        <4>1. u \in ToSet(order)
          BY <3>1
        <4> QED BY <1>1, <4>1 DEF ToSet
      <3> QED BY <3>1, <3>2 DEF WrittenUpto
    <2> QED BY <2>1
  <1>11. g[M + 1].touched \in RangeSets /\ Blocks(g[M + 1].touched) = WrittenUpto(M)
    <2>1. M + 1 \in 1..(M + 1) /\ M \in 0..M
      BY <1>1
    <2> QED BY <1>2, <1>3, <2>1
  <1>12. Subtract(tgt.care, g[M + 1].touched) = Empty
    <2>1. /\ Subtract(tgt.care, g[M + 1].touched) \in RangeSets
          /\ Blocks(Subtract(tgt.care, g[M + 1].touched)) = {}
      BY <1>10, <1>11, SubtractIs
    <2> QED BY <2>1, SameBlocks, EmptyRange
  <1> QED BY <1>2, <1>9, <1>12

-------------------------------------------------------------------------------
(* What goes into the list.                                                *)

(* Without a source nothing is patched, so that the queue of patches has   *)
(* nothing to compare.                                                     *)
LEMMA NoTies ==
  ASSUME NEW img, NEW total, AloneAll(xfs, img, total), order \in Seq(Ids)
  PROVE  ~QueueHasTies
  <1>1. ASSUME NEW u \in Ids PROVE xfs[u].style # "diff"
    <2>1. Alone(xfs[u], img, total)
      BY AloneIn DEF Ids
    <2> QED BY <2>1, AloneIs
  <1>2. ToSet(order) \subseteq Ids
    BY DEF ToSet
  <1>3. {w \in ToSet(order) : NeedsPatch(w)} = {}
    BY <1>1, <1>2 DEF NeedsPatch
  <1> QED BY <1>3 DEF QueueHasTies

(* new.dat is not empty: there is the copy of block 0.                     *)
LEMMA SomeNewData ==
  ASSUME NEW img \in Images, NEW total \in Nat, NEW file, ImageIs(tgt, file, img, total),
         AloneAll(xfs, img, total), order \in Seq(Ids), ToSet(order) = Ids,
         NEW u \in Ids, xfs[u].style = "new", xfs[u].tgt = <<0, 1>>
  PROVE  NewData(order) # <<>>
  <1>1. PICK M : M = Len(order) /\ M \in Nat /\ DOMAIN order = 1..M
    OBVIOUS
  <1>2. PICK k \in 1..M : order[k] = u
    BY <1>1 DEF ToSet
  <1>3. PICK seqs : seqs = [j \in DOMAIN order |-> PieceData(order[j])] /\ seqs \in Seq(Seq(Contents))
    BY PieceDataIn
  <1>4. NewData(order) = FlattenSeq(seqs)
    BY <1>3 DEF NewData, PieceData
  <1>5. Alone(xfs[u], img, total)
    BY AloneIn DEF Ids
  <1>6. ReadContent(tgt, <<0, 1>>) = <<img[0]>>
    <2>1. Blocks(xfs[u].tgt) \subseteq WithData(img, total)
      BY <1>5, AloneIs
    <2>2. 0 \in Blocks(<<0, 0 + 1>>)
      BY PairIs
    <2>3. 0 \in WithData(img, total) /\ <<0, 0 + 1>> = <<0, 1>>
      BY <2>1, <2>2
    <2>4. ReadContent(tgt, <<0, 0 + 1>>) = <<img[0]>>
      <3>1. 0 \in 0..(total - 1) /\ img[0] # None
        BY <2>3 DEF WithData
      <3> QED BY <3>1, ReadBlockIs
    <2> QED BY <2>3, <2>4
  <1>7. PieceData(u) = <<img[0]>>
    BY <1>6 DEF PieceData, NewPieces, ReadContent
  <1>8. PieceData(u) # <<>>
    BY <1>7
  <1>9. k \in DOMAIN seqs /\ seqs[k] # <<>>
    BY <1>1, <1>2, <1>3, <1>8
  <1>10. FlattenSeq(seqs) # <<>>
    BY ONLY <1>3, <1>9, FlattenSomething
  <1> QED BY <1>4, <1>10

-------------------------------------------------------------------------------
(* Why a build's conversion fails.                                         *)

(* The files, and then the transfers, divide the image, and one of them is *)
(* block 0, to be copied.                                                  *)
FilesDivide ==
    /\ Divides(RangesIn(tgt.files), Blocks(tgt.care))
    /\ \E k \in DOMAIN tgt.files : tgt.files[k] = Entry(Special("__COPY"), <<0, 1>>)

XfsDivide ==
    /\ Divides(TgtsOf(xfs), Blocks(tgt.care))
    /\ \E u \in Ids : xfs[u].style = "new" /\ xfs[u].tgt = <<0, 1>>

OrderWhole == IsInjective(order) /\ ToSet(order) = Ids

(* Nothing but an incomplete block makes a conversion fail.                *)
FailKept ==
    OfBuild =>
      /\ pc \in {"construct", "transfers"} => FilesDivide
      /\ pc \in Sequencing => XfsDivide
      /\ pc = "sequence" => LineKept
      /\ pc \in Sequenced => OrderWhole
      /\ pc = "written" => newDat # <<>>
      /\ pc = "failed" => why = "leftover" /\ job.tail

LEMMA FailInit == ASSUME Init PROVE FailKept
  BY DEF Init, FailKept, Sequencing, Sequenced

(* The transfers and their order stay. *)
LEMMA StillDivided ==
  ASSUME XfsDivide, UNCHANGED <<inputs, xfs>>
  PROVE  XfsDivide'
  BY DEF XfsDivide, TgtsOf, Ids, inputs

LEMMA StillWhole ==
  ASSUME OrderWhole, UNCHANGED <<order, xfs>>
  PROVE  OrderWhole'
  BY DEF OrderWhole, Ids

LEMMA FailLoad == ASSUME Kept, LoadImages PROVE FailKept'
  <1>1. SUFFICES ASSUME OfBuild PROVE FailKept'
    BY DEF FailKept, OfBuild, LoadImages, conversion
  <1>2. /\ pc = "load" /\ job' = job
        /\ pc' = IF tgt'.ok /\ src'.ok THEN "construct" ELSE "failed"
        /\ src' = NoImage /\ tgt' = LoadImage(files[1], <<>>)
    BY <1>1 DEF LoadImages, conversion, OfBuild
  <1>3. PICK f, n : f = files[1] /\ n = Len(job.content)
    OBVIOUS
  <1>4. job \in Jobs /\ FileOf(f, Image, n)
    BY <1>2, <1>3 DEF Kept, FilesKept, Image
  <1>5. Image \in Images /\ n \in Nat /\ 0 \in WithData(Image, n)
    BY <1>1, <1>3, <1>4, WholeImage
  <1>6. PICK t : t = LoadImage(f, <<>>)
    OBVIOUS
  <1>7. PICK image : /\ ImageIs(t, f, Image, n) /\ ImageIs(image, f, Image, n)
                     /\ t.files = FileMap(image, <<>>, image.care)
    BY <1>4, <1>5, <1>6, LoadNoLines
  <1>8. /\ Divides(RangesIn(FileMap(image, <<>>, image.care)), Blocks(image.care))
        /\ \E k \in DOMAIN FileMap(image, <<>>, image.care) :
              FileMap(image, <<>>, image.care)[k] = Entry(Special("__COPY"), <<0, 1>>)
    BY ONLY <1>5, <1>7, FileMapDivides
  <1>9. Blocks(image.care) = Blocks(t.care) /\ t.ok = TRUE
    BY <1>7 DEF ImageIs
  <1>10. tgt' = t
    BY <1>2, <1>3, <1>6
  <1>11. FilesDivide'
    BY <1>7, <1>8, <1>9, <1>10 DEF FilesDivide
  <1>12. pc' = "construct"
    <2>1. src'.ok = TRUE
      BY <1>2 DEF NoImage
    <2> QED BY <1>2, <1>9, <1>10, <2>1
  <1> QED BY <1>11, <1>12 DEF FailKept, Sequencing, Sequenced

LEMMA FailConstruct ==
  ASSUME BuildKept, FailKept, Construct, UNCHANGED <<conversion, device>>
  PROVE  FailKept'
  <1>1. SUFFICES ASSUME OfBuild PROVE FailKept'
    BY DEF FailKept, OfBuild, conversion
  <1>2. pc = "construct" /\ ImagesLoaded /\ FilesDivide
    BY <1>1 DEF Construct, BuildKept, DiffKept, FailKept
  <1>3. Partition(tgt.care, RangesOf(tgt))
    <2>1. RangesOf(tgt) = RangesIn(tgt.files)
      BY DEF RangesOf, RangesIn
    <2>2. PICK c, r : /\ c = tgt.care /\ r = RangesIn(tgt.files) /\ Divides(r, Blocks(c))
                      /\ c \in RangeSets /\ r \in Seq(RangeSets)
      <3>1. tgt.care \in RangeSets
        BY <1>2 DEF ImagesLoaded, ImageIs
      <3>2. RangesIn(tgt.files) \in Seq(RangeSets)
        <4>1. PICK E : tgt.files \in Seq(E) /\ \A entry \in E : entry.ranges \in RangeSets
          BY <1>2 DEF ImagesLoaded, FilledAll, Filled
        <4>2. PICK fs : fs = tgt.files /\ fs \in Seq(E)
          BY <4>1
        <4>3. \A i \in DOMAIN fs : fs[i].ranges \in RangeSets
          BY <4>1, <4>2
        <4> QED BY <4>2, <4>3 DEF RangesIn
      <3> QED BY <1>2, <3>1, <3>2 DEF FilesDivide
    <2>3. Partition(c, r)
      BY ONLY <2>2, PartitionHolds
    <2> QED BY <2>1, <2>2, <2>3
  <1>4. Partition(src.care, RangesOf(src))
    <2>1. PICK no : no = <<>> /\ no \in Seq(RangeSets)
      <3>1. \A S : <<>> \in Seq(S)
        OBVIOUS
      <3> QED BY <3>1
    <2>2. src.care = Empty /\ src.files = no
      BY <1>2, <2>1 DEF ImagesLoaded, NoImage
    <2>3. RangesOf(src) = no
      BY <2>1, <2>2 DEF RangesOf
    <2>4. Divides(no, Blocks(Empty))
      BY <2>1, EmptyRange DEF Divides
    <2>5. Partition(Empty, no)
      BY ONLY <2>1, <2>4, EmptyRange, PartitionHolds
    <2> QED BY <2>2, <2>3, <2>5
  <1>5. pc' = "transfers" /\ UNCHANGED inputs
    BY <1>3, <1>4 DEF Construct, GoOn
  <1>6. FilesDivide'
    BY <1>2, <1>5 DEF FilesDivide, inputs
  <1> QED BY <1>5, <1>6 DEF FailKept, Sequencing, Sequenced

LEMMA FailTransfers ==
  ASSUME BuildKept, FailKept, FindTransfers, UNCHANGED <<conversion, device>>
  PROVE  FailKept'
  <1>1. SUFFICES ASSUME OfBuild PROVE FailKept'
    BY DEF FailKept, OfBuild, conversion
  <1>2. pc = "transfers" /\ ImagesLoaded /\ FilesDivide
    BY <1>1 DEF FindTransfers, BuildKept, DiffKept, FailKept
  <1>3. \A i \in DOMAIN tgt.files : ~HasSource(tgt.files[i])
    <2>1. DOMAIN src.files = {}
      BY <1>2 DEF ImagesLoaded, NoImage
    <2> QED BY <2>1 DEF HasSource, SourceFiles, FilesWith
  <1>4. /\ xfs' = FlattenSeq([i \in DOMAIN tgt.files |-> TransfersOf(tgt.files[i])])
        /\ pc' = "digraph" /\ UNCHANGED inputs
    BY <1>3 DEF FindTransfers, GoOn
  <1>5. PICK k \in DOMAIN tgt.files : tgt.files[k] = Entry(Special("__COPY"), <<0, 1>>)
    BY <1>2 DEF FilesDivide
  <1>6. /\ Divides(TgtsOf(xfs'), Blocks(tgt.care))
        /\ k \in DOMAIN xfs' /\ xfs'[k].style = "new" /\ xfs'[k].tgt = <<0, 1>>
    <2>1. PICK x, img, n, S : /\ x = FlattenSeq([i \in DOMAIN tgt.files |-> TransfersOf(tgt.files[i])])
                              /\ img = Image /\ n = Len(job.content) /\ S = Blocks(tgt.care)
      OBVIOUS
    <2>2. FilledAll(tgt.files, img, n) /\ src = NoImage /\ Divides(RangesIn(tgt.files), S)
      BY <1>2, <2>1 DEF ImagesLoaded, FilesDivide
    <2>3. /\ Divides(TgtsOf(x), S)
          /\ k \in DOMAIN x /\ x[k].style = "new" /\ x[k].tgt = <<0, 1>>
      BY ONLY <1>5, <2>1, <2>2, k \in DOMAIN tgt.files, TransfersDivide
    <2> QED BY <1>4, <2>1, <2>3
  <1>7. XfsDivide'
    BY <1>4, <1>6 DEF XfsDivide, Ids, TgtsOf, inputs
  <1> QED BY <1>4, <1>7 DEF FailKept, Sequencing, Sequenced

LEMMA FailDigraph ==
  ASSUME BuildKept, FailKept, GenerateDigraph, UNCHANGED <<conversion, device>>
  PROVE  FailKept'
  <1>1. SUFFICES ASSUME OfBuild PROVE FailKept'
    BY DEF FailKept, OfBuild, conversion
  <1>2. pc = "digraph" /\ pc' = "sequence" /\ UNCHANGED <<inputs, xfs>>
    BY DEF GenerateDigraph, GoOn
  <1>3. AloneAll(xfs, Image, Len(job.content)) /\ XfsDivide
    BY <1>1, <1>2 DEF BuildKept, DiffKept, FailKept, Sequencing
  <1>4. LineKept' /\ XfsDivide'
    BY <1>2, <1>3, LineBegins, StillDivided
  <1> QED BY <1>2, <1>4 DEF FailKept, Sequencing, Sequenced

LEMMA FailSequence ==
  ASSUME BuildKept, FailKept, FindVertexSequence, UNCHANGED <<conversion, device>>
  PROVE  FailKept'
  <1>1. SUFFICES ASSUME OfBuild PROVE FailKept'
    BY DEF FailKept, OfBuild, conversion
  <1>2. pc = "sequence" /\ UNCHANGED <<inputs, xfs>>
    BY DEF FindVertexSequence, PlaceSink, PlaceSource, PlaceBest, EmptyHeap, SequenceFound, InSequence,
           Raise, GoOn, graph
  <1>3. line \in Lines /\ goes = {} /\ LineKept /\ XfsDivide /\ config.version = 4
    BY <1>1, <1>2 DEF BuildKept, DiffKept, FailKept, Sequencing
  <1>4. XfsDivide'
    BY <1>2, <1>3, StillDivided
  <1>5. ~Stuck
    BY <1>3, LineEnds
  <1>6. ASSUME NEW u \in Ids, PlaceSink(u) \/ PlaceSource(u) PROVE FailKept'
    <2>1. LineKept'
      BY <1>3, <1>6, LineGoesOn
    <2>2. pc' = "sequence"
      BY <1>2, <1>6 DEF PlaceSink, PlaceSource, InSequence
    <2> QED BY <1>4, <2>1, <2>2 DEF FailKept, Sequencing, Sequenced
  <1>7. ASSUME SequenceFound PROVE FailKept'
    <2>1. pc' = "reverse" /\ order' = line.left \o line.right /\ Remaining = {}
      BY <1>3, <1>7 DEF SequenceFound, GoOn
    <2>2. IsInjective(line.left \o line.right) /\ ToSet(line.left \o line.right) = Ids
      BY <1>3, <2>1, LineEnds
    <2>3. OrderWhole'
      BY <1>2, <2>1, <2>2 DEF OrderWhole, Ids
    <2> QED BY <1>4, <2>1, <2>3 DEF FailKept, Sequencing, Sequenced
  <1> QED BY <1>5, <1>6, <1>7 DEF FindVertexSequence, PlaceBest, EmptyHeap

LEMMA FailReverse ==
  ASSUME BuildKept, FailKept, ReverseBackwardEdges, UNCHANGED <<conversion, device>>
  PROVE  FailKept'
  <1>1. SUFFICES ASSUME OfBuild PROVE FailKept'
    BY DEF FailKept, OfBuild, conversion
  <1>2. pc = "reverse" /\ pc' = "improve" /\ UNCHANGED <<inputs, order>>
    BY DEF ReverseBackwardEdges, GoOn
  <1>3. /\ AloneAll(xfs, Image, Len(job.content)) /\ goes = {} /\ XfsDivide /\ OrderWhole
    BY <1>1, <1>2 DEF BuildKept, DiffKept, FailKept, Sequencing, Sequenced
  <1>4. xfs' = xfs
    BY <1>3, ReverseKeeps
  <1>5. XfsDivide' /\ OrderWhole'
    BY <1>2, <1>3, <1>4, StillDivided, StillWhole
  <1> QED BY <1>2, <1>5 DEF FailKept, Sequencing, Sequenced

LEMMA FailImprove ==
  ASSUME BuildKept, FailKept, ImproveVertexSequence, UNCHANGED <<conversion, device>>
  PROVE  FailKept'
  <1>1. SUFFICES ASSUME OfBuild PROVE FailKept'
    BY DEF FailKept, OfBuild, conversion
  <1>2. pc = "improve"
    BY DEF ImproveVertexSequence
  <1>3. /\ AloneAll(xfs, Image, Len(job.content)) /\ goes = {} /\ XfsDivide /\ OrderWhole
        /\ order \in Seq(Ids)
    BY <1>1, <1>2 DEF BuildKept, DiffKept, FailKept, Sequencing, Sequenced
  <1>4. Len(Greedy) = Len(order) /\ IsInjective(Greedy) /\ ToSet(Greedy) = Ids
    BY <1>3, GreedyAll DEF OrderWhole
  <1>5. /\ order' = Greedy /\ pc' \in {"assert", "revise"} /\ UNCHANGED <<inputs, xfs>>
    BY <1>4 DEF ImproveVertexSequence, GoOn
  <1>6. OrderWhole' /\ XfsDivide'
    BY <1>3, <1>4, <1>5, StillDivided DEF OrderWhole, Ids
  <1> QED BY <1>5, <1>6 DEF FailKept, Sequencing, Sequenced

LEMMA FailRevise ==
  ASSUME BuildKept, FailKept, ReviseStashSize, UNCHANGED <<conversion, device>>
  PROVE  FailKept'
  <1>1. SUFFICES ASSUME OfBuild PROVE FailKept'
    BY DEF FailKept, OfBuild, conversion
  <1>2. pc = "revise" /\ pc' = "assert" /\ UNCHANGED <<inputs, order>>
    BY DEF ReviseStashSize, GoOn
  <1>3. /\ AloneAll(xfs, Image, Len(job.content)) /\ order \in Seq(Ids) /\ XfsDivide /\ OrderWhole
    BY <1>1, <1>2 DEF BuildKept, DiffKept, FailKept, Sequencing, Sequenced
  <1>4. xfs' = xfs
    BY <1>3, ReviseKeeps
  <1>5. XfsDivide' /\ OrderWhole'
    BY <1>2, <1>3, <1>4, StillDivided, StillWhole
  <1> QED BY <1>2, <1>5 DEF FailKept, Sequencing, Sequenced

LEMMA FailAssert ==
  ASSUME BuildKept, FailKept, AssertSequenceGood, UNCHANGED <<conversion, device>>
  PROVE  FailKept'
  <1>1. SUFFICES ASSUME OfBuild PROVE FailKept'
    BY DEF FailKept, OfBuild, conversion
  <1>2. pc = "assert"
    BY DEF AssertSequenceGood
  <1>3. /\ AloneAll(xfs, Image, Len(job.content)) /\ order \in Seq(Ids) /\ XfsDivide /\ OrderWhole
        /\ ImagesLoaded
    BY <1>1, <1>2 DEF BuildKept, DiffKept, FailKept, Sequencing, Sequenced
  <1>4. tgt.care \in RangeSets
    BY <1>3 DEF ImagesLoaded, ImageIs
  <1>5. SequenceGood
    BY <1>3, <1>4, GoodHolds DEF XfsDivide, OrderWhole
  <1>6. pc' = "patches" /\ UNCHANGED <<inputs, xfs, order>>
    BY <1>5 DEF AssertSequenceGood, GoOn, graph
  <1>7. XfsDivide' /\ OrderWhole'
    BY <1>3, <1>6, StillDivided, StillWhole
  <1> QED BY <1>6, <1>7 DEF FailKept, Sequencing, Sequenced

LEMMA FailPatches ==
  ASSUME BuildKept, FailKept, ComputePatches, UNCHANGED <<conversion, device>>
  PROVE  FailKept'
  <1>1. SUFFICES ASSUME OfBuild PROVE FailKept'
    BY DEF FailKept, OfBuild, conversion
  <1>2. pc = "patches"
    BY DEF ComputePatches
  <1>3. /\ AloneAll(xfs, Image, Len(job.content)) /\ order \in Seq(Ids) /\ XfsDivide /\ OrderWhole
    BY <1>1, <1>2 DEF BuildKept, DiffKept, FailKept, Sequencing, Sequenced
  <1>4. pc' = "list" /\ UNCHANGED inputs
    <2>1. ~QueueHasTies
      BY <1>3, NoTies
    <2> QED BY <2>1 DEF ComputePatches, GoOn
  <1>5. xfs' = xfs /\ order' = order
    BY <1>3, <1>4, PatchesKeep
  <1>6. XfsDivide' /\ OrderWhole'
    BY <1>3, <1>4, <1>5, StillDivided, StillWhole
  <1> QED BY <1>4, <1>6 DEF FailKept, Sequencing, Sequenced

LEMMA FailList ==
  ASSUME BuildKept, FailKept, job \in Jobs, WriteTransfers, UNCHANGED <<conversion, device>>
  PROVE  FailKept'
  <1>1. SUFFICES ASSUME OfBuild PROVE FailKept'
    BY DEF FailKept, OfBuild, conversion
  <1>2. PICK written : written = FoldLeft(WriteTransfer, NothingWritten, order) /\ WriteList(written)
    BY DEF WriteTransfers
  <1>3. pc = "list"
    BY DEF WriteTransfers
  <1>4. /\ ImagesLoaded /\ AloneAll(xfs, Image, Len(job.content)) /\ order \in Seq(Ids)
        /\ newDat = NewData(order) /\ XfsDivide /\ OrderWhole
    BY <1>1, <1>3 DEF BuildKept, DiffKept, FailKept, Sequencing, Sequenced
  <1>5. PICK n : n = Len(job.content) /\ n \in Nat /\ n # 0 /\ Image \in Images /\ WithData(Image, n) = 0..(n - 1)
    BY <1>1, WholeImage
  <1>6. PICK file : ImageIs(tgt, file, Image, n)
    BY <1>4, <1>5 DEF ImagesLoaded
  <1>7. config.cache = NoCache \/ (config.cache \in Nat /\ config.cache # 0)
    <2>1. config.cache = job.cache
      BY <1>1 DEF BuildKept
    <2>2. job.cache = NoCache \/ (job.cache \in Nat /\ job.cache >= SplitDivisor)
      BY JobsAssumption
    <2>3. SplitDivisor \in Nat \ {0}
      BY LimitAssumption
    <2> QED BY <2>1, <2>2, <2>3
  <1>8. WrittenSoFar(written, newDat, Len(order), Image, n)
    BY <1>2, <1>4, <1>5, <1>6, <1>7, WrittenAll
  <1>9. written.ok = TRUE
    BY <1>5, <1>6, <1>8, ListIs
  <1>10. pc' = "written" /\ newDat' = newDat
    BY <1>2, <1>9 DEF WriteList, GoOn
  <1>11. newDat # <<>>
    <2>1. PICK u \in Ids : xfs[u].style = "new" /\ xfs[u].tgt = <<0, 1>>
      BY <1>4 DEF XfsDivide
    <2>2. ToSet(order) = Ids /\ AloneAll(xfs, Image, n)
      BY <1>4, <1>5 DEF OrderWhole
    <2> QED BY <1>4, <1>5, <1>6, <2>1, <2>2, SomeNewData
  <1> QED BY <1>10, <1>11 DEF FailKept, Sequencing, Sequenced

LEMMA FailCompute == ASSUME BuildKept, FailKept, job \in Jobs, ComputeDiff PROVE FailKept'
  <1>1. UNCHANGED <<conversion, device>> /\ Compute
    BY DEF ComputeDiff
  <1>2. ASSUME RemoveBackwardEdges PROVE FailKept'
    <2>1. ~OfBuild
      BY <1>2, BuildRemove
    <2> QED BY <1>1, <1>2, <2>1 DEF FailKept, OfBuild, conversion
  <1> QED BY <1>1, <1>2, FailConstruct, FailTransfers, FailDigraph, FailSequence, FailReverse, FailImprove,
             FailRevise, FailAssert, FailPatches, FailList DEF Compute

(* The step that looks at the result finds data in new.dat. *)
LEMMA FailCheck == ASSUME FailKept, CheckResult PROVE FailKept'
  <1>1. SUFFICES ASSUME OfBuild PROVE FailKept'
    BY DEF FailKept, OfBuild, CheckResult, conversion
  <1>2. newDat # <<>>
    BY <1>1 DEF FailKept, CheckResult
  <1>3. pc' = "ready"
    BY <1>2 DEF CheckResult, GoOn
  <1> QED BY <1>3 DEF FailKept, Sequencing, Sequenced

LEMMA FailNext == ASSUME Kept, BuildKept, FailKept, [Next]_vars PROVE FailKept'
  <1>1. job \in Jobs
    BY DEF Kept, FilesKept
  <1>2. ASSUME WriteBlock PROVE FailKept'
    <2>1. pc' = "write"
      BY <1>2 DEF WriteBlock, diffVars
    <2> QED BY <2>1 DEF FailKept, Sequencing, Sequenced
  <1>3. ASSUME FinishImage PROVE FailKept'
    <2>1. CASE job.tail
      <3>1. pc' = "failed" /\ why' = "leftover" /\ job'.tail
        BY <1>3, <2>1 DEF FinishImage, Raise
      <3> QED BY <3>1 DEF FailKept, Sequencing, Sequenced
    <2>2. CASE ~job.tail
      <3>1. pc' \in {"load", "split"}
        BY <1>3, <2>2 DEF FinishImage, GoOn
      <3> QED BY <3>1 DEF FailKept, Sequencing, Sequenced
    <2> QED BY <2>1, <2>2
  <1>4. ASSUME RunCommand \/ Updated \/ CutOff PROVE FailKept'
    <2>1. pc' \in {"ready", "refused", "updated"}
      BY <1>4 DEF RunCommand, Updated, CutOff, diffVars
    <2> QED BY <2>1 DEF FailKept, Sequencing, Sequenced
  <1>5. ASSUME UNCHANGED vars PROVE FailKept'
    <2>1. UNCHANGED <<inputs, pc, why, xfs, goes, line, order, newDat, job>>
      BY <1>5 DEF vars, diffVars, graph, outputs, conversion
    <2>2. OfBuild' <=> OfBuild
      BY <2>1 DEF OfBuild
    <2>3. FilesDivide' <=> FilesDivide
      BY <2>1 DEF FilesDivide, inputs
    <2>4. XfsDivide' <=> XfsDivide
      BY <2>1 DEF XfsDivide, TgtsOf, Ids, inputs
    <2>5. (LineKept' <=> LineKept) /\ (OrderWhole' <=> OrderWhole)
      BY <2>1 DEF LineKept, OrderWhole, Remaining, Placed, Ids
    <2> QED BY <2>1, <2>2, <2>3, <2>4, <2>5 DEF FailKept
  <1> QED BY <1>1, <1>2, <1>3, <1>4, <1>5, FailLoad, FailCompute, FailCheck DEF Next, Progress, Over

(* A build's conversion fails only on an image with an incomplete block:   *)
(* for every other image, whatever order the transfers come in, no check   *)
(* that the scripts or the build make on the way fails, neither those of   *)
(* the partition, the sequence, the stash limit and new.dat nor what only  *)
(* Python 3 trips over.                                                    *)
THEOREM BuildFailureHasCause == Spec => [](OfBuild => FailureHasCause)
  <1>1. Init => FailKept
    BY FailInit
  <1>2. Kept /\ BuildKept /\ FailKept /\ [Next]_vars => FailKept'
    BY FailNext
  <1>3. FailKept => (OfBuild => FailureHasCause)
    BY DEF FailKept, FailureHasCause, CauseInImage
  <1> QED BY <1>1, <1>2, <1>3, KeptAlways, BuildAlways, PTL DEF Spec

-------------------------------------------------------------------------------
(* Types.                                                                  *)

LEMMA SavedTyped ==
  ASSUME NEW w, NEW acc, NEW img, Saved(w, acc, img)
  PROVE  w.csize \in 0..w.nblocks /\ w.pos \in 1..(Len(w.file) + 1)
  <1>1. /\ w \in Writers /\ w.pos = Len(w.file) + 1 /\ acc.pos + w.csize = w.nblocks
        /\ acc \in Readers
    BY DEF Saved, Good
  <1>2. w.csize \in Nat /\ acc.pos \in Nat /\ w.file \in Seq(Cells) /\ w.nblocks \in Nat
    BY <1>1 DEF Writers, Readers
  <1>3. PICK n : n = Len(w.file) /\ n \in Nat
    BY <1>2
  <1> QED BY <1>1, <1>2, <1>3

WriterTyped ==
    /\ cursor \in 0..Len(job.content)
    /\ wr.csize \in 0..wr.nblocks /\ wr.pos \in 1..(Len(wr.file) + 1)

DeviceTyped == losses \in 0..MaxLosses

(* In a build's conversion there are no edges, and the device holds data   *)
(* of the image and what was there before.                                 *)
BuildTyped ==
    OfBuild =>
      /\ goes = {} /\ order \in Seq(Ids) /\ newDat \in Seq(Contents)
      /\ pc \in {"write", "load", "construct", "transfers", "digraph", "sequence"} => order = <<>>
      /\ \A b \in DOMAIN flash : flash[b] \in Contents \union {Junk}

LEMMA TypedInit == ASSUME Init PROVE WriterTyped /\ DeviceTyped /\ BuildTyped
  <1>1. FilesKept /\ pc = "write"
    BY FilesBegin DEF Init
  <1>2. PICK acc, img : Saved(wr, acc, img) /\ cursor \in 0..Len(job.content)
    BY <1>1 DEF FilesKept, Underway
  <1>3. WriterTyped
    BY <1>2, SavedTyped DEF WriterTyped
  <1>4. DeviceTyped
    BY LossesAssumption DEF Init, DeviceTyped
  <1>5. ASSUME OfBuild PROVE \A b \in DOMAIN flash : flash[b] \in Contents \union {Junk}
    <2>1. job.source.content = <<>>
      BY <1>5 DEF OfBuild, NoSource
    <2>2. Len(job.source.content) = 0
      BY <2>1
    <2>3. ASSUME NEW b \in DOMAIN flash PROVE flash[b] = Junk
      <3>1. flash = OnFlash(job)
        BY DEF Init
      <3>2. PICK top : top = Max({Len(job.content), Len(job.source.content)}) - 1
        OBVIOUS
      <3>3. flash = [x \in 0..top |->
                       IF x < Len(job.source.content) /\ job.source.content[x + 1] \notin job.dontCare
                       THEN job.source.content[x + 1] ELSE Junk]
        BY <3>1, <3>2 DEF OnFlash
      <3>4. b \in 0..top /\ ~(b < 0)
        BY <3>3
      <3> QED BY <2>2, <3>3, <3>4
    <2> QED BY <2>3
  <1>6. goes = {} /\ order = <<>> /\ newDat = <<>>
    BY DEF Init, DiffInit
  <1>7. \A S : <<>> \in Seq(S)
    OBVIOUS
  <1>8. BuildTyped
    BY <1>5, <1>6, <1>7 DEF BuildTyped
  <1> QED BY <1>3, <1>4, <1>8

LEMMA WriterTypedNext ==
  ASSUME Kept', WriterTyped, DeviceTyped, [Next]_vars
  PROVE  WriterTyped' /\ DeviceTyped'
  <1>1. CASE WriteBlock
    <2>1. pc' = "write" /\ losses' = losses
      BY <1>1 DEF WriteBlock, diffVars, device
    <2>2. PICK acc, img : Saved(wr', acc, img) /\ cursor' \in 0..Len(job'.content)
      BY <2>1 DEF Kept, FilesKept, Underway
    <2> QED BY <2>1, <2>2, SavedTyped DEF WriterTyped, DeviceTyped
  <1>2. CASE ~WriteBlock
    <2>1. UNCHANGED <<job, wr, cursor>>
      BY <1>2 DEF Next, Progress, FinishImage, LoadImages, ComputeDiff, CheckResult, RunCommand, Updated,
                  CutOff, Over, vars, conversion
    <2>2. DeviceTyped'
      <3>1. CASE CutOff
        BY <3>1, LossesAssumption DEF CutOff, DeviceTyped
      <3>2. CASE ~CutOff
        <4>1. losses' = losses
          BY <1>2, <3>2 DEF Next, Progress, FinishImage, LoadImages, ComputeDiff, CheckResult, RunCommand,
                      Updated, Over, vars, device
        <4> QED BY <4>1 DEF DeviceTyped
      <3> QED BY <3>1, <3>2
    <2> QED BY <2>1, <2>2 DEF WriterTyped
  <1> QED BY <1>1, <1>2

(* What a step that leaves the device alone has to keep. *)
LEMMA TypedIdle ==
  ASSUME BuildTyped, UNCHANGED <<job, flash>>,
         OfBuild => /\ goes' = {} /\ order' \in Seq(Ids') /\ newDat' \in Seq(Contents)
                    /\ pc' \in {"write", "load", "construct", "transfers", "digraph", "sequence"} => order' = <<>>
  PROVE  BuildTyped'
  BY DEF BuildTyped, OfBuild

LEMMA TypedKeep ==
  ASSUME BuildTyped, UNCHANGED <<job, flash, xfs, goes, order, newDat>>,
         \/ pc \in {"write", "load", "construct", "transfers", "digraph", "sequence"}
         \/ pc' \notin {"write", "load", "construct", "transfers", "digraph", "sequence"}
  PROVE  BuildTyped'
  <1>1. Ids' = Ids
    BY DEF Ids
  <1> QED BY <1>1 DEF BuildTyped, OfBuild

LEMMA TypedCompute ==
  ASSUME BuildKept, BuildKept', BuildTyped, job \in Jobs, ComputeDiff
  PROVE  BuildTyped'
  <1>1. SUFFICES ASSUME OfBuild PROVE BuildTyped'
    BY DEF BuildTyped, OfBuild, ComputeDiff, conversion
  <1>2. Compute /\ UNCHANGED <<job, flash>>
    BY DEF ComputeDiff, conversion, device
  <1>3. OfBuild' /\ DiffKept' /\ goes = {} /\ newDat \in Seq(Contents)
    BY <1>1, <1>2 DEF OfBuild, BuildKept, BuildTyped
  <1>4. ASSUME Construct PROVE BuildTyped'
    <2>1. pc = "construct" /\ UNCHANGED <<xfs, goes, order, newDat>>
      BY <1>4 DEF Construct, GoOn, Raise, graph, outputs
    <2> QED BY <1>2, <2>1, TypedKeep
  <1>5. ASSUME FindTransfers PROVE BuildTyped'
    <2>1. pc = "transfers" /\ UNCHANGED <<goes, order, newDat>>
      BY <1>5 DEF FindTransfers, GoOn, Raise, graph, outputs
    <2>2. order' = <<>>
      BY <1>1, <2>1 DEF BuildTyped
    <2>3. \A S : <<>> \in Seq(S)
      OBVIOUS
    <2> QED BY <1>2, <1>3, <2>1, <2>2, <2>3, TypedIdle
  <1>6. ASSUME GenerateDigraph PROVE BuildTyped'
    <2>1. pc = "digraph" /\ pc' = "sequence" /\ UNCHANGED <<xfs, order, newDat>>
      BY <1>6 DEF GenerateDigraph, GoOn, outputs
    <2>2. goes' = goes
      BY <1>3, <2>1 DEF DiffKept
    <2> QED BY <1>2, <2>1, <2>2, TypedKeep
  <1>7. ASSUME FindVertexSequence PROVE BuildTyped'
    <2>1. pc = "sequence" /\ UNCHANGED <<xfs, goes, newDat>> /\ (order' = order \/ pc' \in {"reverse", "remove"})
      BY <1>7 DEF FindVertexSequence, PlaceSink, PlaceSource, PlaceBest, EmptyHeap, SequenceFound,
                  InSequence, Raise, GoOn, graph, outputs
    <2>2. CASE order' = order
      BY <1>2, <2>1, <2>2, TypedKeep
    <2>3. CASE order' # order
      <3>1. pc' = "reverse"
        BY <1>1, <1>3, <2>1, <2>3 DEF BuildKept, Stages, Sequencing
      <3>2. order' \in Seq(Ids')
        BY <1>3, <3>1 DEF DiffKept, Sequenced
      <3> QED BY <1>2, <1>3, <2>1, <3>1, <3>2, TypedIdle
    <2> QED BY <2>2, <2>3
  <1>8. ASSUME ReverseBackwardEdges \/ ReviseStashSize PROVE BuildTyped'
    <2>1. pc' \in {"improve", "assert"} /\ newDat' = newDat /\ (goes' = goes \/ pc' = "improve")
      BY <1>8 DEF ReverseBackwardEdges, ReviseStashSize, GoOn, outputs
    <2>2. order' \in Seq(Ids') /\ goes' = {}
      BY <1>3, <2>1 DEF DiffKept, Sequenced
    <2> QED BY <1>2, <1>3, <2>1, <2>2, TypedIdle
  <1>9. ASSUME RemoveBackwardEdges PROVE BuildTyped'
    BY <1>1, <1>9, BuildRemove
  <1>10. ASSUME ImproveVertexSequence PROVE BuildTyped'
    <2>1. CASE pc' = "failed"
      <3>1. UNCHANGED <<xfs, goes, order, newDat>>
        BY <1>10, <2>1 DEF ImproveVertexSequence, Raise, GoOn, graph, outputs
      <3> QED BY <1>2, <2>1, <3>1, TypedKeep
    <2>2. CASE pc' # "failed"
      <3>1. pc' \in {"assert", "revise"} /\ UNCHANGED <<goes, newDat>>
        BY <1>10, <2>2 DEF ImproveVertexSequence, Raise, GoOn, graph, outputs
      <3>2. order' \in Seq(Ids')
        BY <1>3, <3>1 DEF DiffKept, Sequenced
      <3> QED BY <1>2, <1>3, <3>1, <3>2, TypedIdle
    <2> QED BY <2>1, <2>2
  <1>11. ASSUME AssertSequenceGood PROVE BuildTyped'
    <2>1. pc' \in {"patches", "failed"} /\ UNCHANGED <<xfs, goes, order, newDat>>
      BY <1>11 DEF AssertSequenceGood, Raise, GoOn, graph, outputs
    <2> QED BY <1>2, <2>1, TypedKeep
  <1>12. ASSUME ComputePatches PROVE BuildTyped'
    <2>1. CASE pc' = "failed"
      <3>1. UNCHANGED <<xfs, goes, order, newDat>>
        BY <1>12, <2>1 DEF ComputePatches, Raise, GoOn, graph, outputs
      <3> QED BY <1>2, <2>1, <3>1, TypedKeep
    <2>2. CASE pc' # "failed"
      <3>1. pc = "patches" /\ pc' = "list" /\ goes' = goes
        BY <1>12, <2>2 DEF ComputePatches, Raise, GoOn
      <3>2. order' \in Seq(Ids')
        BY <1>3, <3>1 DEF DiffKept, Sequenced
      <3>3. AloneAll(xfs, Image, Len(job.content)) /\ ImagesLoaded /\ order \in Seq(Ids)
        BY <1>1, <3>1 DEF BuildKept, DiffKept, Sequencing, Sequenced
      <3>4. newDat' = NewData(order)
        BY <1>12, <3>1, <3>3, PatchesKeep
      <3>5. PICK n : n = Len(job.content) /\ n \in Nat /\ Image \in Images
        BY <1>1, WholeImage
      <3>6. PICK file : ImageIs(tgt, file, Image, n)
        BY <3>3, <3>5 DEF ImagesLoaded
      <3>7. PICK seqs : /\ seqs = [k \in DOMAIN order |-> PieceData(order[k])]
                        /\ seqs \in Seq(Seq(Contents))
        BY <3>3, <3>5, <3>6, PieceDataIn
      <3>8. newDat' = FlattenSeq(seqs)
        BY <3>4, <3>7 DEF NewData, PieceData
      <3>9. newDat' \in Seq(Contents)
        BY <3>7, <3>8, FlattenedSet
      <3> QED BY <1>2, <1>3, <3>1, <3>2, <3>9, TypedIdle
    <2> QED BY <2>1, <2>2
  <1>13. ASSUME WriteTransfers PROVE BuildTyped'
    <2>1. pc' \in {"written", "failed"} /\ UNCHANGED <<xfs, goes, order, newDat>>
      BY <1>13 DEF WriteTransfers, WriteList, Raise, GoOn, graph, outputs
    <2> QED BY <1>2, <2>1, TypedKeep
  <1> QED BY <1>2, <1>4, <1>5, <1>6, <1>7, <1>8, <1>9, <1>10, <1>11, <1>12, <1>13 DEF Compute

(* What the device carries out puts blocks of the image in place. *)
LEMMA TypedRun == ASSUME job \in Jobs, BuildKept, BuildKept', BuildTyped, RunCommand PROVE BuildTyped'
  <1>1. SUFFICES ASSUME OfBuild PROVE BuildTyped'
    BY DEF BuildTyped, OfBuild, RunCommand, conversion
  <1>2. /\ pc = "ready" /\ at <= Len(list.commands) /\ config.version = 4
        /\ UNCHANGED <<job, list, newDat, xfs, goes, order>> /\ pc' \in {"ready", "refused"}
        /\ OfBuild' /\ Image' = Image
    BY <1>1 DEF RunCommand, BuildKept, inputs, graph, outputs, conversion, Image, OfBuild
  <1>3. ListKept /\ Carried /\ stash = Blank /\ peak = 0 /\ DOMAIN flash = 0..(Len(job.content) - 1)
    BY <1>1, <1>2 DEF BuildKept, DeviceKept
  <1>4. list.commands \in Seq(Cmds)
    BY <1>2, <1>3 DEF ListKept, Plays
  <1>5. PICK p : p = at /\ p \in 1..Len(list.commands)
    <2>1. Len(list.commands) \in Nat /\ at \in 1..(Len(list.commands) + 1)
      BY <1>3, <1>4 DEF Carried
    <2> QED BY <1>2, <2>1
  <1>6. PICK c : c = Now /\ c \in Cmds /\ c = list.commands[p]
    BY <1>4, <1>5 DEF Now
  <1>7. Accepted
    <2>1. pc' # "refused"
      BY <1>2 DEF BuildKept, Stages, Sequencing
    <2> QED BY <1>2, <2>1 DEF RunCommand
  <1>8. Carry /\ at' = p + 1 /\ pc' = "ready"
    BY <1>2, <1>5, <1>7 DEF RunCommand
  <1>9. flash' = [b \in DOMAIN flash |->
                    IF b \in Blocks(c.tgt) THEN DataOf[Rank(Blocks(c.tgt), b)] ELSE flash[b]]
    BY <1>2, <1>3, <1>6, <1>8, CarryIs
  <1>10. \A x \in Blocks(c.tgt) : flash'[x] = Image[x]
    <2>1. Carried'
      BY <1>2, <1>8 DEF BuildKept, DeviceKept
    <2>2. \A k \in 1..(at' - 1) : \A x \in Blocks(list.commands[k].tgt) : flash'[x] = Image[x]
      BY <1>2, <2>1 DEF Carried
    <2>3. p \in 1..(at' - 1)
      BY <1>5, <1>8
    <2> QED BY <1>6, <2>2, <2>3
  <1>11. ASSUME NEW b \in DOMAIN flash' PROVE flash'[b] \in Contents \union {Junk}
    <2>1. b \in DOMAIN flash /\ b \in 0..(Len(job.content) - 1)
      BY <1>3, <1>9
    <2>2. CASE b \in Blocks(c.tgt)
      <3>1. flash'[b] = job.content[b + 1]
        BY <1>1, <1>10, <2>1, <2>2, WholeImage
      <3>2. job.content \in Seq(Contents) /\ b + 1 \in 1..Len(job.content)
        <4>1. job.content \in Seq(Contents)
          BY JobsAssumption
        <4> QED BY <2>1, <4>1
      <3> QED BY <3>1, <3>2
    <2>3. CASE b \notin Blocks(c.tgt)
      <3>1. flash'[b] = flash[b]
        BY <1>9, <2>1, <2>3
      <3> QED BY <1>1, <2>1, <3>1 DEF BuildTyped
    <2> QED BY <2>2, <2>3
  <1>12. Ids' = Ids
    BY <1>2 DEF Ids
  <1> QED BY <1>1, <1>2, <1>8, <1>11, <1>12 DEF BuildTyped

LEMMA TypedNext == ASSUME Kept, BuildKept, BuildKept', BuildTyped, [Next]_vars PROVE BuildTyped'
  <1>0. job \in Jobs
    BY DEF Kept, FilesKept
  <1>1. ASSUME WriteBlock \/ FinishImage \/ LoadImages PROVE BuildTyped'
    <2>1. pc \in {"write", "load"} /\ UNCHANGED <<job, flash, xfs, goes, order, newDat>>
      BY <1>1 DEF WriteBlock, FinishImage, LoadImages, Raise, GoOn, diffVars, graph, outputs, conversion, device
    <2> QED BY <2>1, TypedKeep
  <1>2. ASSUME CheckResult PROVE BuildTyped'
    <2>1. pc' \in {"ready", "failed"} /\ UNCHANGED <<job, flash, xfs, goes, order, newDat>>
      BY <1>2 DEF CheckResult, Raise, GoOn, graph, outputs, conversion, device
    <2> QED BY <2>1, TypedKeep
  <1>3. ASSUME Updated PROVE BuildTyped'
    <2>1. pc' = "updated" /\ UNCHANGED <<job, flash, xfs, goes, order, newDat>>
      BY <1>3 DEF Updated, graph, outputs, conversion, device
    <2> QED BY <2>1, TypedKeep
  <1>4. ASSUME CutOff PROVE BuildTyped'
    <2>1. PICK hit : flash' = [b \in DOMAIN flash |-> IF b \in hit THEN Junk ELSE flash[b]]
      BY <1>4 DEF CutOff
    <2>2. pc = "ready" /\ UNCHANGED <<job, xfs, goes, order, newDat, pc>>
      BY <1>4 DEF CutOff, diffVars, graph, outputs, conversion
    <2>3. OfBuild => \A b \in DOMAIN flash' : flash'[b] \in Contents \union {Junk}
      BY <2>1 DEF BuildTyped
    <2>4. Ids' = Ids
      BY <2>2 DEF Ids
    <2> QED BY <2>2, <2>3, <2>4 DEF BuildTyped, OfBuild
  <1>5. ASSUME UNCHANGED vars PROVE BuildTyped'
    <2>1. UNCHANGED <<pc, job, flash, xfs, goes, order, newDat>>
      BY <1>5 DEF vars, diffVars, graph, outputs, conversion, device
    <2> QED BY <2>1, TypedKeep
  <1> QED BY <1>0, <1>1, <1>2, <1>3, <1>4, <1>5, TypedCompute, TypedRun DEF Next, Progress, Over

(* No command uses data there is not. *)
LEMMA OffsetsBounded ==
  ASSUME NEW cmds \in Seq(Cmds), NEW d \in Seq(Contents), NEW off, NEW img, NEW total,
         Offsets(off, cmds, d, img, total)
  PROVE  \A k \in 1..(Len(cmds) + 1) : off[k] \in 0..Len(d)
  <1>1. PICK N, D : N = Len(cmds) /\ N \in Nat /\ D = Len(d) /\ D \in Nat
    <2>1. Len(cmds) \in Nat /\ Len(d) \in Nat
      OBVIOUS
    <2> QED BY <2>1
  <1>2. /\ off \in [1..(N + 1) -> Nat] /\ off[1] = 0
        /\ \A k \in 1..N : Does(cmds[k], off[k], off[k + 1], d, img, total)
    BY <1>1 DEF Offsets
  <1> DEFINE S == {n \in Nat : n <= N => off[n + 1] <= D}
  <1>3. 0 \in S
    <2>1. off[0 + 1] = 0
      BY <1>2
    <2> QED BY <1>1, <2>1
  <1>4. ASSUME NEW n \in Nat, n \in S PROVE n + 1 \in S
    <2>1. SUFFICES ASSUME n + 1 <= N PROVE off[(n + 1) + 1] <= D
      OBVIOUS
    <2>2. n + 1 \in 1..N /\ n <= N
      BY <1>1, <2>1
    <2>3. Does(cmds[n + 1], off[n + 1], off[(n + 1) + 1], d, img, total) /\ off[n + 1] <= D
      BY <1>2, <1>4, <2>2
    <2>4. \/ off[(n + 1) + 1] = off[n + 1]
          \/ off[(n + 1) + 1] <= Len(d)
      BY <2>3 DEF Does
    <2> QED BY <1>1, <2>3, <2>4
  <1>5. Nat \subseteq S
    <2> HIDE DEF S
    <2> QED BY <1>3, <1>4, SetInduction
  <1>6. ASSUME NEW k \in 1..(N + 1) PROVE off[k] \in 0..D
    <2>1. k - 1 \in Nat /\ k - 1 <= N /\ (k - 1) + 1 = k
      BY <1>1
    <2>2. k - 1 \in S
      <3> HIDE DEF S
      <3> QED BY <1>5, <2>1
    <2>3. off[k] <= D /\ off[k] \in Nat
      BY <1>2, <2>1, <2>2
    <2> QED BY <1>1, <2>3
  <1> QED BY <1>1, <1>6

LEMMA TypedAll ==
  ASSUME Kept, BuildKept, WriterTyped, DeviceTyped, BuildTyped, OfBuild
  PROVE  TypeOK
  <1>1. job \in Jobs /\ DeviceKept /\ ListKept
    BY DEF Kept, FilesKept, BuildKept
  <1>2. PICK m, d : m = Len(list.commands) /\ m \in Nat /\ d = Len(newDat) /\ d \in Nat
    <2>1. list.commands \in Seq(Cmds) /\ newDat \in Seq(Contents)
      BY <1>1 DEF ListKept, Weighs, BuildTyped
    <2>2. Len(list.commands) \in Nat /\ Len(newDat) \in Nat
      BY <2>1
    <2> QED BY <2>2
  <1>3. at \in 1..(m + 1) /\ dat \in 0..d
    <2>1. CASE pc \notin {"ready", "updated"}
      BY <1>1, <1>2, <2>1 DEF DeviceKept
    <2>2. CASE pc \in {"ready", "updated"}
      <3>1. PICK off : /\ Offsets(off, list.commands, newDat, Image, Len(job.content))
                       /\ at \in 1..(m + 1) /\ dat = off[at]
        BY <1>1, <1>2, <2>2 DEF DeviceKept, Carried
      <3>2. list.commands \in Seq(Cmds) /\ newDat \in Seq(Contents)
        BY <1>1 DEF ListKept, Weighs, BuildTyped
      <3>3. \A k \in 1..(m + 1) : off[k] \in 0..d
        BY <1>2, <3>1, <3>2, OffsetsBounded
      <3> QED BY <3>1, <3>3
    <2> QED BY <2>1, <2>2
  <1>4. DOMAIN flash = DOMAIN OnFlash(job)
    <2>1. Len(job.content) \in Nat /\ Len(job.content) # 0
      BY <1>1, WholeImage
    <2>2. Len(job.source.content) = 0
      <3>1. job.source.content = <<>>
        BY DEF OfBuild, NoSource
      <3> QED BY <3>1
    <2>3. PICK n : n = Len(job.content) /\ n \in Nat /\ n # 0
      BY <2>1
    <2>4. Max({n, 0}) = n
      <3>1. PICK m2 : m2 = Max({n, 0})
        OBVIOUS
      <3>2. \E x \in {n, 0} : \A y \in {n, 0} : x >= y
        BY <2>3
      <3>3. m2 \in {n, 0} /\ \A y \in {n, 0} : m2 >= y
        BY <3>1, <3>2 DEF Max
      <3> QED BY <2>3, <3>1, <3>3
    <2>5. DOMAIN OnFlash(job) = 0..(n - 1)
      BY <2>2, <2>3, <2>4 DEF OnFlash
    <2> QED BY <1>1, <2>3, <2>5 DEF DeviceKept
  <1>5. order \in Seq(Ids) /\ goes \subseteq Ids \X Ids
    BY DEF BuildTyped
  <1>6. \A b \in DOMAIN flash : flash[b] \in Contents \union {Junk, Garbage}
    BY DEF BuildTyped
  <1> QED BY <1>1, <1>2, <1>3, <1>4, <1>5, <1>6 DEF TypeOK, WriterTyped, DeviceTyped

(* In the build's conversions and their updates every variable is what it  *)
(* is meant to be: in particular the writer never counts more blocks in a  *)
(* chunk than in the file, and the device never takes more of new.dat than *)
(* there is.                                                               *)
THEOREM BuildTypeOK == Spec => [](OfBuild => TypeOK)
  <1>1. Init => WriterTyped /\ DeviceTyped /\ BuildTyped
    BY TypedInit
  <1>2. Kept' /\ WriterTyped /\ DeviceTyped /\ [Next]_vars => WriterTyped' /\ DeviceTyped'
    BY WriterTypedNext
  <1>3. Kept /\ BuildKept /\ BuildKept' /\ BuildTyped /\ [Next]_vars => BuildTyped'
    BY TypedNext
  <1>4. Kept /\ BuildKept /\ WriterTyped /\ DeviceTyped /\ BuildTyped => (OfBuild => TypeOK)
    BY TypedAll
  <1> QED BY <1>1, <1>2, <1>3, <1>4, KeptAlways, BuildAlways, PTL DEF Spec
===============================================================================
