----------------------------- MODULE InstallProofs -----------------------------
(***************************************************************************)
(* What holds of every package, on every device, wherever the build stops, *)
(* the power is cut and writes fail.  The script is a sequence of commands *)
(* in the order of their ranks; the invariant says, of each command that   *)
(* the recovery has passed, what the device or the package owes to it.     *)
(***************************************************************************)
EXTENDS Install, SequenceProofs

-------------------------------------------------------------------------------
(* The group size that is computed, for all sizes of the partitions: it    *)
(* has room for all of them, is a number of MiB, and wastes no more than   *)
(* the fifth that is added and less than a MiB.                            *)

Sums(g, sizes) == g[1] = 0 /\ \A n \in 1..Len(sizes) : g[n + 1] = g[n] + sizes[n]

LEMMA TotalIs ==
    ASSUME NEW sizes \in Seq(Nat), NEW g \in [1..(Len(sizes) + 1) -> Nat], Sums(g, sizes)
    PROVE  Total(sizes) = g[Len(sizes) + 1]
<1> DEFINE N == Len(sizes)
           Same(h) == h = [n \in 1..(N + 1) |-> IF n = 1 THEN 0 ELSE h[n - 1] + sizes[n - 1]]
<1>0. N \in Nat
    OBVIOUS
<1>1. Same(g)
    <2>1. ASSUME NEW n \in 1..(N + 1)
          PROVE  g[n] = IF n = 1 THEN 0 ELSE g[n - 1] + sizes[n - 1]
        <3>1. CASE n = 1
            BY <3>1 DEF Sums
        <3>2. CASE n # 1
            <4>1. n - 1 \in 1..N /\ (n - 1) + 1 = n
                BY <1>0, <3>2
            <4> QED
                BY <3>2, <4>1 DEF Sums
        <3> QED
            BY <3>1, <3>2
    <2> QED
        BY <2>1
<1>2. ASSUME NEW h, Same(h) PROVE h = g
    <2>1. \A n \in 1..(N + 1) : h[n] = IF n = 1 THEN 0 ELSE h[n - 1] + sizes[n - 1]
        BY <1>2
    <2>2. h[1] = 0 /\ \A n \in 1..N : h[n + 1] = h[n] + sizes[n]
        <3>1. h[1] = 0
            BY <1>0, <2>1
        <3>2. ASSUME NEW n \in 1..N PROVE h[n + 1] = h[n] + sizes[n]
            <4>1. n + 1 \in 1..(N + 1) /\ n + 1 # 1 /\ (n + 1) - 1 = n
                BY <1>0
            <4> QED
                BY <2>1, <4>1
        <3> QED
            BY <3>1, <3>2
    <2> DEFINE S == {n \in Nat : n \in 0..N => h[n + 1] = g[n + 1]}
    <2>3. 0 \in S
        BY <2>2 DEF Sums
    <2>4. ASSUME NEW n \in Nat, n \in S PROVE n + 1 \in S
        <3>1. SUFFICES ASSUME n + 1 \in 0..N PROVE h[(n + 1) + 1] = g[(n + 1) + 1]
            OBVIOUS
        <3>2. n + 1 \in 1..N /\ h[n + 1] = g[n + 1]
            BY <1>0, <2>4, <3>1
        <3>3. h[(n + 1) + 1] = h[n + 1] + sizes[n + 1]
            BY <2>2, <3>2, Zenon
        <3>4. g[(n + 1) + 1] = g[n + 1] + sizes[n + 1]
            BY <3>2, Zenon DEF Sums
        <3> QED
            BY <3>2, <3>3, <3>4, Zenon
    <2> HIDE DEF S
    <2>5. Nat \subseteq S
        BY <2>3, <2>4, SetInduction
    <2>6. ASSUME NEW n \in 1..(N + 1) PROVE h[n] = g[n]
        <3>1. n - 1 \in S /\ n - 1 \in 0..N /\ (n - 1) + 1 = n
            BY <1>0, <2>5
        <3> QED
            BY <3>1, Zenon DEF S
    <2>7. h = [n \in 1..(N + 1) |-> h[n]] /\ g = [n \in 1..(N + 1) |-> g[n]]
        BY <1>1, <1>2
    <2> QED
        BY <2>6, <2>7
<1> QED
    BY <1>1, <1>2 DEF Total

LEMMA TotalSteps ==
    ASSUME NEW sizes \in Seq(Nat)
    PROVE  \E g \in [1..(Len(sizes) + 1) -> Nat] :
               Sums(g, sizes) /\ Total(sizes) = g[Len(sizes) + 1]
<1> DEFINE N == Len(sizes)
           F == [p \in Nat \X Nat |-> IF p[1] \in 1..N THEN p[2] + sizes[p[1]] ELSE 0]
<1>1. F \in [Nat \X Nat -> Nat]
    <2>1. \A n \in 1..N : sizes[n] \in Nat
        BY ElementOfSeq
    <2> QED
        BY <2>1
<1>2. ASSUME NEW n \in 1..N, NEW t \in Nat PROVE F[<<n, t>>] = t + sizes[n]
    <2>1. <<n, t>> \in Nat \X Nat /\ <<n, t>>[1] = n /\ <<n, t>>[2] = t
        OBVIOUS
    <2> QED
        BY <2>1
<1> HIDE DEF F
<1>3. N \in Nat
    OBVIOUS
<1>4. PICK g \in [1..(N + 1) -> Nat] : Follows(g, 0, F, N)
    <2> HIDE DEF N
    <2> QED
        BY <1>1, <1>3, Recursion
<1>5. ASSUME NEW n \in 1..N PROVE g[n + 1] = g[n] + sizes[n]
    <2>1. g[n] \in Nat
        <3>1. n \in 1..(N + 1)
            BY <1>3
        <3> HIDE DEF N
        <3> QED
            BY <3>1
    <2>2. g[n + 1] = F[<<n, g[n]>>]
        BY <1>4, Zenon DEF Follows
    <2> QED
        BY <1>2, <2>1, <2>2, Zenon
<1>6. Sums(g, sizes)
    BY <1>4, <1>5 DEF Sums, Follows
<1> QED
    BY <1>6, TotalIs

LEMMA TotalNat ==
    ASSUME NEW sizes \in Seq(Nat)
    PROVE  Total(sizes) \in Nat
<1>1. PICK g \in [1..(Len(sizes) + 1) -> Nat] : Total(sizes) = g[Len(sizes) + 1]
    BY TotalSteps
<1>2. Len(sizes) + 1 \in 1..(Len(sizes) + 1)
    OBVIOUS
<1> QED
    BY <1>1, <1>2, Zenon

LEMMA TotalEmpty == Total(<<>>) = 0
<1>1. <<>> \in Seq(Nat) /\ Len(<<>>) = 0
    OBVIOUS
<1>2. PICK g \in [1..(Len(<<>>) + 1) -> Nat] : Sums(g, <<>>) /\ Total(<<>>) = g[Len(<<>>) + 1]
    BY <1>1, TotalSteps, Zenon
<1> QED
    BY <1>1, <1>2 DEF Sums

(* Sizes that are no larger, of which there are no more, come to no more.  *)
LEMMA TotalOrdered ==
    ASSUME NEW a \in Seq(Nat), NEW b \in Seq(Nat), Len(a) <= Len(b),
           \A i \in 1..Len(a) : a[i] <= b[i]
    PROVE  Total(a) <= Total(b)
<1>1. PICK g \in [1..(Len(a) + 1) -> Nat] : Sums(g, a) /\ Total(a) = g[Len(a) + 1]
    BY TotalSteps
<1>2. PICK h \in [1..(Len(b) + 1) -> Nat] : Sums(h, b) /\ Total(b) = h[Len(b) + 1]
    BY TotalSteps
<1>3. PICK N \in Nat, M \in Nat : N = Len(a) /\ M = Len(b) /\ N <= M
    OBVIOUS
<1>4. /\ g \in [1..(N + 1) -> Nat] /\ g[1] = 0 /\ \A n \in 1..N : g[n + 1] = g[n] + a[n]
      /\ h \in [1..(M + 1) -> Nat] /\ h[1] = 0 /\ \A n \in 1..M : h[n + 1] = h[n] + b[n]
    BY <1>1, <1>2, <1>3, Zenon DEF Sums
<1>5. \A n \in 1..N : a[n] \in Nat /\ b[n] \in Nat /\ a[n] <= b[n]
    BY <1>3
<1>6. \A n \in 1..M : b[n] \in Nat
    BY <1>3
<1> DEFINE Below(n) == (n <= N => g[n + 1] <= h[n + 1]) /\ (n > N => g[N + 1] <= h[n + 1])
           S == {n \in Nat : n \in 0..M => Below(n)}
<1>7. 0 \in S
    BY <1>3, <1>4
<1>8. ASSUME NEW n \in Nat, n \in S PROVE n + 1 \in S
    <2>1. SUFFICES ASSUME n + 1 \in 0..M
                   PROVE  /\ n + 1 <= N => g[(n + 1) + 1] <= h[(n + 1) + 1]
                          /\ n + 1 > N => g[N + 1] <= h[(n + 1) + 1]
        OBVIOUS
    <2>2. /\ n + 1 \in 1..M /\ h[(n + 1) + 1] = h[n + 1] + b[n + 1]
          /\ h[n + 1] \in Nat /\ b[n + 1] \in Nat /\ g[N + 1] \in Nat
        <3>1. n + 1 \in 1..M /\ n + 1 \in 1..(M + 1) /\ N + 1 \in 1..(N + 1)
            BY <2>1
        <3> QED
            BY <1>4, <1>6, <3>1
    <2>3. CASE n + 1 <= N
        <3>1. n + 1 \in 1..N /\ n + 1 \in 1..(N + 1)
            BY <2>3
        <3>2. /\ g[(n + 1) + 1] = g[n + 1] + a[n + 1]
              /\ g[n + 1] \in Nat /\ a[n + 1] \in Nat /\ a[n + 1] <= b[n + 1]
            BY <1>4, <1>5, <3>1
        <3>3. g[n + 1] <= h[n + 1]
            BY <1>8, <2>1, <2>3
        <3> QED
            BY <2>2, <2>3, <3>2, <3>3
    <2>4. CASE n + 1 > N
        <3>1. g[N + 1] <= h[n + 1]
            BY <1>3, <1>8, <2>1, <2>4
        <3> QED
            BY <1>3, <2>2, <2>4, <3>1
    <2> QED
        BY <1>3, <2>3, <2>4
<1> HIDE DEF S
<1>9. Nat \subseteq S
    BY <1>7, <1>8, SetInduction
<1>10. g[N + 1] <= h[M + 1]
    <2>1. M \in S /\ M \in 0..M
        BY <1>9
    <2>2. Below(M)
        BY <2>1 DEF S
    <2>3. CASE M <= N
        BY <1>3, <2>2, <2>3
    <2>4. CASE M > N
        BY <2>2, <2>4
    <2> QED
        BY <2>3, <2>4
<1> QED
    BY <1>1, <1>2, <1>3, <1>10

(* One more of the last: what the others come to does not matter. *)
LEMMA TotalLast ==
    ASSUME NEW a \in Seq(Nat), NEW b \in Seq(Nat), NEW x \in Nat,
           Len(b) = Len(a) + 1, b[Len(b)] = x, \A i \in 1..Len(a) : b[i] = a[i]
    PROVE  Total(b) = Total(a) + x
<1>1. PICK N \in Nat : N = Len(a) /\ N + 1 = Len(b)
    OBVIOUS
<1>2. PICK h \in [1..(Len(b) + 1) -> Nat] : Sums(h, b) /\ Total(b) = h[Len(b) + 1]
    BY TotalSteps
<1>3. /\ h \in [1..((N + 1) + 1) -> Nat] /\ h[1] = 0
      /\ \A n \in 1..(N + 1) : h[n + 1] = h[n] + b[n]
    BY <1>1, <1>2, Zenon DEF Sums
<1> DEFINE g == [n \in 1..(Len(a) + 1) |-> h[n]]
<1>4. g \in [1..(Len(a) + 1) -> Nat]
    BY <1>1, <1>3
<1>5. Sums(g, a)
    BY <1>1, <1>3 DEF Sums
<1>6. g[Len(a) + 1] = h[N + 1]
    BY <1>1
<1> HIDE DEF g
<1>7. Total(a) = h[N + 1]
    BY <1>4, <1>5, <1>6, TotalIs
<1>8. h[(N + 1) + 1] = h[N + 1] + b[N + 1]
    BY <1>3
<1> QED
    BY <1>1, <1>2, <1>7, <1>8

LEMMA TotalBump ==
    ASSUME NEW a \in Seq(Nat), NEW b \in Seq(Nat), Len(a) # 0, Len(b) = Len(a),
           \A i \in 1..Len(a) : b[i] = IF i = Len(a) THEN a[i] + 1 ELSE a[i]
    PROVE  Total(b) = Total(a) + 1
<1>1. PICK N \in Nat : N + 1 = Len(a) /\ N + 1 = Len(b)
    <2>1. Len(a) - 1 \in Nat
        OBVIOUS
    <2> QED
        BY <2>1
<1> DEFINE c == [i \in 1..N |-> a[i]]
<1>2. c \in Seq(Nat) /\ Len(c) = N /\ \A i \in 1..N : c[i] = a[i] /\ c[i] = b[i]
    <2>1. \A i \in 1..N : a[i] \in Nat /\ b[i] = a[i]
        BY <1>1
    <2> QED
        BY <2>1
<1> HIDE DEF c
<1>3. a[N + 1] \in Nat /\ b[N + 1] = a[N + 1] + 1
    BY <1>1
<1>4. Total(a) = Total(c) + a[N + 1]
    BY <1>1, <1>2, <1>3, TotalLast
<1>5. Total(b) = Total(c) + (a[N + 1] + 1)
    BY <1>1, <1>2, <1>3, TotalLast
<1>6. Total(c) \in Nat
    BY <1>2, TotalNat
<1> QED
    BY <1>3, <1>4, <1>5, <1>6

-------------------------------------------------------------------------------
(* The size of the group.                                                  *)

(* What n is divided into. *)
LEMMA Division ==
    ASSUME NEW n \in Nat, NEW d \in Nat \ {0}
    PROVE  /\ n \div d \in Nat /\ n % d \in 0..(d - 1)
           /\ n = d * (n \div d) + (n % d)
BY SMT

(* RoundedUp is the next multiple of MiB. *)
LEMMA RoundedUpNext ==
    ASSUME NEW n \in Nat
    PROVE  /\ RoundedUp(n) \in n..(n + MiB - 1)
           /\ \E k \in Nat : RoundedUp(n) = MiB * k
<1>1. MiB \in Nat \ {0}
    BY MiBAssumption
<1>2. /\ n \div MiB \in Nat /\ n % MiB \in 0..(MiB - 1)
      /\ n = MiB * (n \div MiB) + (n % MiB)
    BY <1>1, Division
<1>3. CASE n % MiB = 0
    <2>1. RoundedUp(n) = n
        BY <1>3 DEF RoundedUp
    <2>2. n = MiB * (n \div MiB)
        BY <1>1, <1>2, <1>3
    <2> QED
        BY <1>1, <1>2, <2>1, <2>2
<1>4. CASE n % MiB # 0
    <2>1. RoundedUp(n) = n + (MiB - (n % MiB))
        BY <1>4 DEF RoundedUp
    <2>2. n + (MiB - (n % MiB)) = MiB * ((n \div MiB) + 1)
        BY <1>1, <1>2
    <2>3. RoundedUp(n) \in n..(n + MiB - 1)
        BY <1>1, <1>2, <1>4, <2>1
    <2> QED
        BY <1>2, <2>1, <2>2, <2>3
<1> QED
    BY <1>3, <1>4

(* For every total. *)
LEMMA PaddedHasRoom ==
    \A total \in Nat :
        /\ Padded(total) \in Nat
        /\ Padded(total) >= total
        /\ Padded(total) < total + (total \div 5) + MiB
        /\ \E k \in Nat : Padded(total) = MiB * k
<1>1. SUFFICES ASSUME NEW total \in Nat
               PROVE  /\ Padded(total) \in Nat
                      /\ Padded(total) >= total
                      /\ Padded(total) < total + (total \div 5) + MiB
                      /\ \E k \in Nat : Padded(total) = MiB * k
    OBVIOUS
<1>2. total \div 5 \in Nat
    BY Division
<1>3. PICK n \in Nat : n = total + (total \div 5)
    BY <1>2
<1>4. /\ RoundedUp(n) \in n..(n + MiB - 1)
      /\ \E k \in Nat : RoundedUp(n) = MiB * k
    BY RoundedUpNext
<1>5. Padded(total) = RoundedUp(n)
    BY <1>3 DEF Padded
<1> QED
    BY <1>2, <1>3, <1>4, <1>5, MiBAssumption

(* calculate_group_table_size: the partitions fit in their group, whatever *)
(* their sizes, so that no update is refused for a size that was computed; *)
(* and the group is not larger than it has to be.                          *)
THEOREM GroupHasRoom ==
    \A sizes \in Seq(Nat) :
        LET total == Total(sizes)
            group == Padded(total)
        IN  /\ total \in Nat /\ group \in Nat
            /\ group >= total
            /\ group < total + (total \div 5) + MiB
            /\ \E k \in Nat : group = MiB * k
<1>1. \A sizes \in Seq(Nat) : Total(sizes) \in Nat
    BY TotalNat
<1> QED
    BY <1>1, PaddedHasRoom, Zenon

-------------------------------------------------------------------------------
(* The order of the script.                                                *)

Ops == {"device", "avb", "wipe", "slot", "raw", "unmap", "tables", "flash", "end"}

Commands == [op : Ops, name : ToSet(FileOrder) \union {""}, slot : {"active", "_a", "_b", ""}]

Rank(op) ==
    IF op = "device" THEN 0 ELSE IF op = "avb" THEN 1 ELSE IF op = "wipe" THEN 2
    ELSE IF op = "slot" THEN 3 ELSE IF op = "raw" THEN 4 ELSE IF op = "unmap" THEN 5
    ELSE IF op = "tables" THEN 6 ELSE IF op = "flash" THEN 7 ELSE 8

RankOf(s, k) == Rank(s[k].op)

(* In order, with ranks from low to high only. *)
Ordered(s, low, high) ==
    /\ \A k \in 1..Len(s) : RankOf(s, k) \in low..high
    /\ \A j, k \in 1..Len(s) : j <= k => RankOf(s, j) <= RankOf(s, k)

LEMMA RankRange == \A op : Rank(op) \in 0..8
BY DEF Rank

LEMMA OrderedJoin ==
    ASSUME NEW a \in Seq(Commands), NEW b \in Seq(Commands),
           NEW l \in Nat, NEW m \in Nat, NEW n \in Nat, NEW h \in Nat,
           Ordered(a, l, m), Ordered(b, n, h), l <= n, m <= n, m <= h
    PROVE  a \o b \in Seq(Commands) /\ Ordered(a \o b, l, h)
<1> DEFINE A == Len(a)
           s == a \o b
           r(k) == RankOf(s, k)
<1>1. /\ s \in Seq(Commands) /\ Len(s) = A + Len(b)
      /\ \A k \in 1..A : s[k] = a[k]
      /\ \A k \in 1..Len(s) : k \notin 1..A => k - A \in 1..Len(b)
      /\ \A k \in 1..Len(b) : s[A + k] = b[k]
    BY Concatenated
<1>2. A \in Nat /\ Len(b) \in Nat
    OBVIOUS
<1> HIDE DEF s, A
<1>3. ASSUME NEW k \in 1..Len(s), k \in 1..A PROVE r(k) = RankOf(a, k) /\ r(k) \in l..m
    BY <1>1, <1>3, Zenon DEF Ordered, RankOf, A
<1>4. ASSUME NEW k \in 1..Len(s), k \notin 1..A
      PROVE  k - A \in 1..Len(b) /\ r(k) = RankOf(b, k - A) /\ r(k) \in n..h
    <2>1. k - A \in 1..Len(b)
        BY <1>1, <1>4, Zenon
    <2>2. A + (k - A) = k
        BY <1>1, <1>2
    <2>3. s[k] = b[k - A]
        BY <1>1, <2>1, <2>2
    <2> QED
        BY <2>1, <2>3, Zenon DEF Ordered, RankOf
<1>5. ASSUME NEW k \in 1..Len(s) PROVE r(k) \in l..h
    <2>1. CASE k \in 1..A
        BY <1>3, <2>1
    <2>2. CASE k \notin 1..A
        BY <1>4, <2>2
    <2> QED
        BY <2>1, <2>2
<1>6. ASSUME NEW j \in 1..Len(s), NEW k \in 1..Len(s), j <= k PROVE r(j) <= r(k)
    <2>1. CASE j \in 1..A /\ k \in 1..A
        <3>1. RankOf(a, j) <= RankOf(a, k)
            BY <1>6, <2>1, Zenon DEF Ordered, A
        <3> QED
            BY <1>3, <2>1, <3>1
    <2>2. CASE j \in 1..A /\ k \notin 1..A
        BY <1>3, <1>4, <2>2
    <2>3. CASE j \notin 1..A /\ k \notin 1..A
        <3>1. j - A \in 1..Len(b) /\ k - A \in 1..Len(b) /\ j - A <= k - A
            BY <1>1, <1>2, <1>4, <1>6, <2>3
        <3>2. RankOf(b, j - A) <= RankOf(b, k - A)
            BY <3>1, Zenon DEF Ordered
        <3> QED
            BY <1>4, <2>3, <3>2
    <2>4. CASE j \notin 1..A /\ k \in 1..A
        BY <1>1, <1>2, <1>6, <2>4
    <2> QED
        BY <2>1, <2>2, <2>3, <2>4
<1> QED
    BY <1>1, <1>5, <1>6 DEF Ordered, s

(* Commands of one rank. *)
LEMMA OrderedOne ==
    ASSUME NEW s \in Seq(Commands), NEW n \in Nat, \A c \in ToSet(s) : Rank(c.op) = n
    PROVE  Ordered(s, n, n)
<1>1. ASSUME NEW k \in 1..Len(s) PROVE RankOf(s, k) = n
    BY DEF ToSet, RankOf
<1> QED
    BY <1>1 DEF Ordered

-------------------------------------------------------------------------------
(* The parts of the script.                                                *)

LEMMA CommandType ==
    /\ \A op \in Ops : Plain(op) \in Commands
    /\ \A n \in ToSet(FileOrder), op \in Ops, s \in {"active", "_a", "_b", ""} :
           Command(op, n, s) \in Commands
BY DEF Commands, Command, Plain

(* What a raw image is flashed by: to the slot that is active, or to those *)
(* of its policy.                                                          *)
RawSet(image) ==
    {Command("raw", image.name, s) :
         s \in IF image.policy = "active" THEN {"active"}
               ELSE IF image.policy = "both" THEN {"_a", "_b"} ELSE {""}}

RawImages == [name : ToSet(FileOrder), policy : {"active", "both", "none"}]

LEMMA RawCommandsSet ==
    ASSUME NEW image \in RawImages
    PROVE  RawCommands(image) \in Seq(Commands) /\ ToSet(RawCommands(image)) = RawSet(image)
<1> DEFINE c(s) == Command("raw", image.name, s)
<1>1. \A s \in {"active", "_a", "_b", ""} : c(s) \in Commands
    BY CommandType DEF RawImages, Ops
<1> HIDE DEF c
<1>2. \A x, y \in Commands :
          /\ <<x>> \in Seq(Commands) /\ ToSet(<<x>>) = {x}
          /\ <<x, y>> \in Seq(Commands) /\ ToSet(<<x, y>>) = {x, y}
    BY DEF ToSet
<1>3. CASE image.policy = "active"
    <2>1. RawCommands(image) = <<c("active")>> /\ RawSet(image) = {c("active")}
        BY <1>3, Zenon DEF RawCommands, RawSet, c
    <2> QED
        BY <1>1, <1>2, <2>1
<1>4. CASE image.policy = "both"
    <2>1. RawCommands(image) = <<c("_a"), c("_b")>> /\ RawSet(image) = {c("_a"), c("_b")}
        BY <1>4 DEF RawCommands, RawSet, c
    <2> QED
        BY <1>1, <1>2, <2>1
<1>5. CASE image.policy = "none"
    <2>1. RawCommands(image) = <<c("")>> /\ RawSet(image) = {c("")}
        BY <1>5 DEF RawCommands, RawSet, c
    <2> QED
        BY <1>1, <1>2, <2>1
<1> QED
    BY <1>3, <1>4, <1>5 DEF RawImages

(* A part of the script: its commands and its ranks. *)
Part(s, set, low, high) == s \in Seq(Commands) /\ ToSet(s) = set /\ Ordered(s, low, high)

LEMMA PartsJoin ==
    ASSUME NEW a, NEW b, NEW S, NEW T,
           NEW l \in Nat, NEW m \in Nat, NEW n \in Nat, NEW h \in Nat,
           Part(a, S, l, m), Part(b, T, n, h), l <= n, m <= n, m <= h
    PROVE  Part(a \o b, S \union T, l, h)
<1>1. a \in Seq(Commands) /\ b \in Seq(Commands) /\ Ordered(a, l, m) /\ Ordered(b, n, h)
    BY DEF Part
<1>2. a \o b \in Seq(Commands) /\ Ordered(a \o b, l, h)
    BY <1>1, OrderedJoin
<1>3. ToSet(a \o b) = S \union T
    BY <1>1, ConcatenatedSet, Zenon DEF Part
<1> QED
    BY <1>2, <1>3 DEF Part

LEMMA PartOne ==
    ASSUME NEW op \in Ops, NEW n \in Nat, Rank(op) = n
    PROVE  Part(<<Plain(op)>>, {Plain(op)}, n, n)
<1>1. Plain(op) \in Commands /\ Plain(op).op = op
    BY CommandType DEF Plain, Command
<1>2. <<Plain(op)>> \in Seq(Commands) /\ ToSet(<<Plain(op)>>) = {Plain(op)}
    BY <1>1 DEF ToSet
<1>3. Ordered(<<Plain(op)>>, n, n)
    BY <1>1, <1>2, OrderedOne
<1> QED
    BY <1>2, <1>3 DEF Part

LEMMA PartEmpty ==
    ASSUME NEW n \in Nat
    PROVE  Part(<<>>, {}, n, n)
BY DEF Part, Ordered, ToSet

LEMMA PartWhen ==
    ASSUME NEW c \in BOOLEAN, NEW op \in Ops, NEW n \in Nat, Rank(op) = n
    PROVE  Part(When(c, <<Plain(op)>>), IF c THEN {Plain(op)} ELSE {}, n, n)
<1>1. CASE c
    <2>1. When(c, <<Plain(op)>>) = <<Plain(op)>>
        BY <1>1 DEF When
    <2> QED
        BY <1>1, <2>1, PartOne
<1>2. CASE ~c
    <2>1. When(c, <<Plain(op)>>) = <<>>
        BY <1>2 DEF When
    <2> QED
        BY <1>2, <2>1, PartEmpty
<1> QED
    BY <1>1, <1>2

RawScript(p) == FlattenSeq([i \in DOMAIN p.raw |-> RawCommands(p.raw[i])])

RawsOf(p) == UNION {RawSet(p.raw[i]) : i \in DOMAIN p.raw}

LEMMA PartRaw ==
    ASSUME NEW p \in Packages
    PROVE  Part(RawScript(p), RawsOf(p), 4, 4)
<1> DEFINE seqs == [i \in DOMAIN p.raw |-> RawCommands(p.raw[i])]
<1>1. p.raw \in Seq(RawImages)
    BY PackagesAssumption DEF RawImages
<1>2. \A i \in 1..Len(p.raw) : p.raw[i] \in RawImages
    BY <1>1, ElementOfSeq
<1>3. /\ seqs \in Seq(Seq(Commands)) /\ Len(seqs) = Len(p.raw)
      /\ \A i \in 1..Len(p.raw) : ToSet(seqs[i]) = RawSet(p.raw[i])
    <2>1. DOMAIN p.raw = 1..Len(p.raw) /\ Len(p.raw) \in Nat
        BY <1>1
    <2>2. \A i \in 1..Len(p.raw) :
              RawCommands(p.raw[i]) \in Seq(Commands) /\ ToSet(RawCommands(p.raw[i])) = RawSet(p.raw[i])
        BY <1>2, RawCommandsSet
    <2> QED
        BY <2>1, <2>2
<1> HIDE DEF seqs
<1>4. /\ FlattenSeq(seqs) \in Seq(Commands)
      /\ ToSet(FlattenSeq(seqs)) = Gathered(seqs, Len(seqs))
    BY <1>3, FlattenedSet
<1>5. Gathered(seqs, Len(seqs)) = RawsOf(p)
    <2>1. DOMAIN p.raw = 1..Len(p.raw)
        BY <1>1
    <2> QED
        BY <1>3, <2>1 DEF Gathered, RawsOf
<1>6. \A c \in RawsOf(p) : Rank(c.op) = 4
    <2>1. \A n, x : Command("raw", n, x).op = "raw"
        BY DEF Command
    <2>2. \A c \in RawsOf(p) : c.op = "raw"
        <3>1. \A i, c : c \in RawSet(p.raw[i]) => c.op = "raw"
            BY <2>1, Zenon DEF RawSet
        <3> QED
            BY <3>1 DEF RawsOf
    <2>3. Rank("raw") = 4
        BY DEF Rank
    <2> QED
        BY <2>2, <2>3
<1>7. RawScript(p) = FlattenSeq(seqs)
    BY Zenon DEF RawScript, seqs
<1>8. Ordered(RawScript(p), 4, 4)
    BY <1>4, <1>5, <1>6, <1>7, OrderedOne
<1> QED
    BY <1>4, <1>5, <1>7, <1>8 DEF Part

FlashScript(p) == [i \in DOMAIN p.dynamic |-> Command("flash", p.dynamic[i], "")]

FlashesOf(p) == {Command("flash", n, "") : n \in ToSet(p.dynamic)}

LEMMA PartFlash ==
    ASSUME NEW p \in Packages
    PROVE  Part(FlashScript(p), FlashesOf(p), 7, 7)
<1> DEFINE s == FlashScript(p)
<1>1. p.dynamic \in Seq(ToSet(FileOrder))
    BY PackagesAssumption
<1>2. DOMAIN p.dynamic = 1..Len(p.dynamic) /\ Len(p.dynamic) \in Nat
    BY <1>1
<1>3. \A i \in 1..Len(p.dynamic) : Command("flash", p.dynamic[i], "") \in Commands
    <2>1. \A i \in 1..Len(p.dynamic) : p.dynamic[i] \in ToSet(FileOrder)
        BY <1>1, ElementOfSeq
    <2>2. \A n \in ToSet(FileOrder) : Command("flash", n, "") \in Commands
        BY CommandType DEF Ops
    <2> QED
        BY <2>1, <2>2
<1>4. s \in Seq(Commands) /\ DOMAIN s = DOMAIN p.dynamic
    <2> DEFINE c(i) == Command("flash", p.dynamic[i], "")
    <2>1. PICK N \in Nat : N = Len(p.dynamic)
        BY <1>2
    <2>2. s = [i \in 1..N |-> c(i)] /\ \A i \in 1..N : c(i) \in Commands
        BY <1>2, <1>3, <2>1 DEF FlashScript
    <2> HIDE DEF s, c
    <2>3. s \in Seq(Commands) /\ DOMAIN s = 1..N
        BY <2>2
    <2> QED
        BY <1>2, <2>1, <2>3
<1>5. ToSet(s) = FlashesOf(p)
    BY <1>4 DEF FlashScript, FlashesOf, ToSet
<1>6. \A c \in FlashesOf(p) : Rank(c.op) = 7
    <2>1. \A n : Command("flash", n, "").op = "flash"
        BY DEF Command
    <2>2. \A c \in FlashesOf(p) : c.op = "flash"
        BY <2>1, Zenon DEF FlashesOf
    <2>3. Rank("flash") = 7
        BY DEF Rank
    <2> QED
        BY <2>2, <2>3
<1>7. Ordered(s, 7, 7)
    BY <1>4, <1>5, <1>6, OrderedOne
<1> QED
    BY <1>4, <1>5, <1>7 DEF Part

-------------------------------------------------------------------------------
(* The whole script.                                                       *)

DeviceOf(p) == IF p.devices # {} THEN {Plain("device")} ELSE {}

SlotOf(p) == IF SlotChecked(p.raw) THEN {Plain("slot")} ELSE {}

BodySet(p) ==
    DeviceOf(p) \union {Plain("avb"), Plain("wipe")} \union SlotOf(p) \union RawsOf(p)
        \union {Plain("unmap"), Plain("tables")} \union FlashesOf(p)

Body(p) ==
    When(p.devices # {}, <<Plain("device")>>)
      \o <<Plain("avb"), Plain("wipe")>>
      \o When(SlotChecked(p.raw), <<Plain("slot")>>)
      \o RawScript(p)
      \o <<Plain("unmap"), Plain("tables")>>
      \o FlashScript(p)

LEMMA PartTwo ==
    ASSUME NEW a \in Ops, NEW b \in Ops, NEW m \in Nat, NEW n \in Nat,
           Rank(a) = m, Rank(b) = n, m <= n
    PROVE  Part(<<Plain(a), Plain(b)>>, {Plain(a), Plain(b)}, m, n)
<1>1. PICK x \in Commands, y \in Commands :
          x = Plain(a) /\ y = Plain(b) /\ x.op = a /\ y.op = b
    BY CommandType DEF Plain, Command
<1> DEFINE s == <<x, y>>
<1>2. s \in Seq(Commands) /\ Len(s) = 2 /\ s[1] = x /\ s[2] = y /\ ToSet(s) = {x, y}
    BY DEF ToSet
<1> HIDE DEF s
<1>3. RankOf(s, 1) = m /\ RankOf(s, 2) = n
    BY <1>1, <1>2 DEF RankOf
<1>4. \A k \in 1..Len(s) : k = 1 \/ k = 2
    BY <1>2
<1>5. Ordered(s, m, n)
    BY <1>3, <1>4 DEF Ordered
<1> QED
    BY <1>1, <1>2, <1>5 DEF Part, s

LEMMA PartBody ==
    ASSUME NEW p \in Packages
    PROVE  Part(Body(p), BodySet(p), 0, 7)
<1> DEFINE b1 == When(p.devices # {}, <<Plain("device")>>)
           b2 == b1 \o <<Plain("avb"), Plain("wipe")>>
           b3 == b2 \o When(SlotChecked(p.raw), <<Plain("slot")>>)
           b4 == b3 \o RawScript(p)
           b5 == b4 \o <<Plain("unmap"), Plain("tables")>>
           b6 == b5 \o FlashScript(p)
           t2 == DeviceOf(p) \union {Plain("avb"), Plain("wipe")}
           t3 == t2 \union SlotOf(p)
           t4 == t3 \union RawsOf(p)
           t5 == t4 \union {Plain("unmap"), Plain("tables")}
           t6 == t5 \union FlashesOf(p)
<1>0. /\ "device" \in Ops /\ Rank("device") = 0 /\ "avb" \in Ops /\ Rank("avb") = 1
      /\ "wipe" \in Ops /\ Rank("wipe") = 2 /\ "slot" \in Ops /\ Rank("slot") = 3
      /\ "unmap" \in Ops /\ Rank("unmap") = 5 /\ "tables" \in Ops /\ Rank("tables") = 6
    BY DEF Ops, Rank
<1>1. Part(b1, DeviceOf(p), 0, 0)
    <2>1. CASE p.devices # {}
        <3>1. b1 = <<Plain("device")>> /\ DeviceOf(p) = {Plain("device")}
            BY <2>1 DEF When, DeviceOf
        <3> QED
            BY <1>0, <3>1, PartOne
    <2>2. CASE p.devices = {}
        <3>1. b1 = <<>> /\ DeviceOf(p) = {}
            BY <2>2 DEF When, DeviceOf
        <3> QED
            BY <3>1, PartEmpty
    <2> QED
        BY <2>1, <2>2
<1>2. Part(b2, t2, 0, 2)
    <2>1. Part(<<Plain("avb"), Plain("wipe")>>, {Plain("avb"), Plain("wipe")}, 1, 2)
        BY <1>0, PartTwo
    <2> HIDE DEF b1
    <2> QED
        BY <1>1, <2>1, PartsJoin
<1>3. Part(b3, t3, 0, 3)
    <2>1. SlotChecked(p.raw) \in BOOLEAN
        BY DEF SlotChecked
    <2>2. Part(When(SlotChecked(p.raw), <<Plain("slot")>>), SlotOf(p), 3, 3)
        BY <1>0, <2>1, PartWhen, Zenon DEF SlotOf
    <2> HIDE DEF b2, t2
    <2> QED
        BY <1>2, <2>2, PartsJoin
<1>4. Part(b4, t4, 0, 4)
    <2> HIDE DEF b3, t3
    <2> QED
        BY <1>3, PartRaw, PartsJoin
<1>5. Part(b5, t5, 0, 6)
    <2>1. Part(<<Plain("unmap"), Plain("tables")>>, {Plain("unmap"), Plain("tables")}, 5, 6)
        BY <1>0, PartTwo
    <2> HIDE DEF b4, t4
    <2> QED
        BY <1>4, <2>1, PartsJoin
<1>6. Part(b6, t6, 0, 7)
    <2> HIDE DEF b5, t5
    <2> QED
        BY <1>5, PartFlash, PartsJoin
<1>7. b6 = Body(p) /\ t6 = BodySet(p)
    BY Zenon DEF Body, BodySet
<1> QED
    BY <1>6, <1>7, Zenon

ScriptSet(p) == BodySet(p) \union {Plain("end")}

(* write_updater_script: its commands are these, in the order of their     *)
(* ranks, and the end is the last and is nowhere before.                   *)
LEMMA ScriptSteps ==
    ASSUME NEW p \in Packages
    PROVE  /\ Script(p) \in Seq(Commands)
           /\ ToSet(Script(p)) = ScriptSet(p)
           /\ Ordered(Script(p), 0, 8)
           /\ Len(Script(p)) \in Nat \ {0}
           /\ \A k \in 1..Len(Script(p)) : (Script(p)[k].op = "end") <=> k = Len(Script(p))
<1> DEFINE a == Body(p)
           b == <<Plain("end")>>
<1>1. Script(p) = a \o b
    BY Zenon DEF Script, Body, RawScript, FlashScript
<1>2. Part(a, BodySet(p), 0, 7)
    BY PartBody
<1>3. Part(b, {Plain("end")}, 8, 8)
    BY PartOne DEF Ops, Rank
<1>4. Plain("end").op = "end" /\ Len(b) = 1 /\ b[1] = Plain("end")
    BY DEF Plain, Command
<1> HIDE DEF a, b
<1>5. Part(a \o b, ScriptSet(p), 0, 8)
    BY <1>2, <1>3, PartsJoin DEF ScriptSet
<1>6. a \in Seq(Commands) /\ b \in Seq(Commands) /\ Len(a) \in Nat
    BY <1>2, <1>3 DEF Part
<1>7. /\ Len(a \o b) = Len(a) + 1
      /\ \A k \in 1..Len(a) : (a \o b)[k] = a[k]
      /\ (a \o b)[Len(a) + 1] = Plain("end")
    <2>2. 1 \in 1..Len(b)
        BY <1>4
    <2>3. /\ Len(a \o b) = Len(a) + Len(b)
          /\ \A k \in 1..Len(a) : (a \o b)[k] = a[k]
          /\ \A k \in 1..Len(b) : (a \o b)[Len(a) + k] = b[k]
        BY <1>6, Concatenated
    <2> QED
        BY <1>4, <2>2, <2>3
<1>8. \A k \in 1..Len(a) : a[k].op # "end"
    <2>1. \A k \in 1..Len(a) : Rank(a[k].op) \in 0..7
        BY <1>2 DEF Part, Ordered, RankOf
    <2>2. Rank("end") = 8
        BY DEF Rank
    <2> QED
        BY <2>1, <2>2
<1>9. \A k \in 1..Len(a \o b) : ((a \o b)[k].op = "end") <=> k = Len(a \o b)
    <2> SUFFICES ASSUME NEW k \in 1..Len(a \o b)
                 PROVE  ((a \o b)[k].op = "end") <=> k = Len(a \o b)
        OBVIOUS
    <2>1. CASE k \in 1..Len(a)
        BY <1>6, <1>7, <1>8, <2>1
    <2>2. CASE k = Len(a) + 1
        BY <1>4, <1>7, <2>2
    <2> QED
        BY <1>6, <1>7, <2>1, <2>2
<1> QED
    BY <1>1, <1>5, <1>6, <1>7, <1>9 DEF Part

-------------------------------------------------------------------------------
(* The files of the package.                                               *)

FileNames ==
    ToSet(FileOrder)
      \union {"update-binary", "updater-script", "avbctl", "super_empty", "superwipe"}

FileSet == [name : FileNames, kind : {"tool", "script", "ops", "raw", "data", "patch", "list"}]

LEMMA ChunksNat == \A f : Chunks(f) \in 0..2
BY DEF Chunks

(* The last of the files is not an empty one. *)
LastRead(s) == s = <<>> \/ Chunks(s[Len(s)]) # 0

LEMMA LastReadJoin ==
    ASSUME NEW E, NEW a \in Seq(E), NEW b \in Seq(E), LastRead(a), LastRead(b)
    PROVE  LastRead(a \o b)
<1>1. CASE b = <<>>
    <2>1. a \o b = a
        BY <1>1, ConcatEmptySeq
    <2> QED
        BY <2>1
<1>2. CASE b # <<>>
    <2>1. Len(b) \in 1..Len(b) /\ Len(a) \in Nat
        BY <1>2, EmptySeq
    <2>2. Len(a \o b) = Len(a) + Len(b) /\ (a \o b)[Len(a) + Len(b)] = b[Len(b)]
        BY <2>1, Concatenated
    <2> QED
        BY <1>2, <2>2 DEF LastRead
<1> QED
    BY <1>1, <1>2

LEMMA LastReadFlatten ==
    ASSUME NEW E, NEW seqs \in Seq(Seq(E)), \A i \in 1..Len(seqs) : LastRead(seqs[i])
    PROVE  LastRead(FlattenSeq(seqs))
<1>1. PICK N \in Nat : N = Len(seqs)
    OBVIOUS
<1>2. PICK g \in [1..(Len(seqs) + 1) -> Seq(E)] :
          Flattens(g, seqs) /\ FlattenSeq(seqs) = g[Len(seqs) + 1]
    BY FlattenSteps
<1>3. /\ g[1] = <<>> /\ FlattenSeq(seqs) = g[N + 1]
      /\ \A n \in 1..N : g[n + 1] = g[n] \o seqs[n]
      /\ \A n \in 1..(N + 1) : g[n] \in Seq(E)
    BY <1>1, <1>2, Zenon DEF Flattens
<1>4. \A n \in 1..N : seqs[n] \in Seq(E) /\ LastRead(seqs[n])
    BY <1>1, ElementOfSeq
<1> DEFINE S == {n \in Nat : n \in 0..N => LastRead(g[n + 1])}
<1>5. 0 \in S
    BY <1>3 DEF LastRead
<1>6. ASSUME NEW n \in Nat, n \in S PROVE n + 1 \in S
    <2>1. SUFFICES ASSUME n + 1 \in 0..N PROVE LastRead(g[(n + 1) + 1])
        OBVIOUS
    <2>2. n + 1 \in 1..N /\ n + 1 \in 1..(N + 1) /\ LastRead(g[n + 1])
        BY <1>6, <2>1
    <2>3. g[(n + 1) + 1] = g[n + 1] \o seqs[n + 1] /\ g[n + 1] \in Seq(E)
        BY <1>3, <2>2, Zenon
    <2> QED
        BY <1>4, <2>2, <2>3, LastReadJoin
<1> HIDE DEF S
<1>7. Nat \subseteq S
    BY <1>5, <1>6, SetInduction
<1>8. LastRead(g[N + 1])
    BY <1>7 DEF S
<1> QED
    BY <1>3, <1>8

Raw(p, name) == \E i \in DOMAIN p.raw : p.raw[i].name = name

(* What is there of a name. *)
LEMMA FilesOfName ==
    ASSUME NEW p \in Packages, NEW name \in ToSet(FileOrder)
    PROVE  /\ FilesOf(p, name) \in Seq(FileSet)
           /\ LastRead(FilesOf(p, name))
           /\ name = OpList => File(name, "ops") \in ToSet(FilesOf(p, name))
           /\ Raw(p, name) => File(name, "raw") \in ToSet(FilesOf(p, name))
           /\ name \in ToSet(p.dynamic) =>
                  {File(name, "data"), File(name, "patch"), File(name, "list")}
                      \subseteq ToSet(FilesOf(p, name))
<1> DEFINE a == When(name = OpList, <<File(name, "ops")>>)
           b == When(Raw(p, name), <<File(name, "raw")>>)
           c == When(name \in ToSet(p.dynamic),
                     <<File(name, "data"), File(name, "patch"), File(name, "list")>>)
<1>1. PICK ops \in FileSet, raw \in FileSet, data \in FileSet, patch \in FileSet, list \in FileSet :
          /\ ops = File(name, "ops") /\ raw = File(name, "raw") /\ data = File(name, "data")
          /\ patch = File(name, "patch") /\ list = File(name, "list")
    <2>1. \A kind \in {"ops", "raw", "data", "patch", "list"} : File(name, kind) \in FileSet
        BY DEF File, FileSet, FileNames
    <2> QED
        BY <2>1
<1>2. Chunks(ops) # 0 /\ Chunks(raw) # 0 /\ Chunks(list) # 0
    BY <1>1 DEF File, Chunks
<1>3. /\ a \in Seq(FileSet) /\ LastRead(a) /\ (name = OpList => ops \in ToSet(a))
    <2>1. a = <<ops>> \/ (name # OpList /\ a = <<>>)
        BY <1>1, Zenon DEF When
    <2>2. <<ops>> \in Seq(FileSet) /\ LastRead(<<ops>>) /\ ops \in ToSet(<<ops>>)
        BY <1>2 DEF LastRead, ToSet
    <2> HIDE DEF a
    <2>3. <<>> \in Seq(FileSet) /\ LastRead(<<>>)
        BY DEF LastRead
    <2> QED
        BY <2>1, <2>2, <2>3
<1>4. /\ b \in Seq(FileSet) /\ LastRead(b) /\ (Raw(p, name) => raw \in ToSet(b))
    <2>1. b = <<raw>> \/ (~Raw(p, name) /\ b = <<>>)
        BY <1>1, Zenon DEF When
    <2>2. <<raw>> \in Seq(FileSet) /\ LastRead(<<raw>>) /\ raw \in ToSet(<<raw>>)
        BY <1>2 DEF LastRead, ToSet
    <2> HIDE DEF b
    <2>3. <<>> \in Seq(FileSet) /\ LastRead(<<>>)
        BY DEF LastRead
    <2> QED
        BY <2>1, <2>2, <2>3
<1>5. /\ c \in Seq(FileSet) /\ LastRead(c)
      /\ (name \in ToSet(p.dynamic) => {data, patch, list} \subseteq ToSet(c))
    <2>1. c = <<data, patch, list>> \/ (name \notin ToSet(p.dynamic) /\ c = <<>>)
        BY <1>1, Zenon DEF When
    <2> DEFINE t == <<data, patch, list>>
    <2>2. /\ t \in Seq(FileSet) /\ Len(t) = 3
          /\ t[1] = data /\ t[2] = patch /\ t[3] = list
        OBVIOUS
    <2> HIDE DEF c, t
    <2>3. 1 \in DOMAIN t /\ 2 \in DOMAIN t /\ 3 \in DOMAIN t
        BY <2>2
    <2>4. LastRead(t) /\ {data, patch, list} \subseteq ToSet(t)
        BY <1>2, <2>2, <2>3 DEF LastRead, ToSet
    <2>5. <<>> \in Seq(FileSet) /\ LastRead(<<>>)
        BY DEF LastRead
    <2> QED
        BY <2>1, <2>2, <2>4, <2>5 DEF t
<1>6. FilesOf(p, name) = (a \o b) \o c
    BY Zenon DEF FilesOf, Raw
<1> HIDE DEF a, b, c
<1>7. a \o b \in Seq(FileSet) /\ LastRead(a \o b)
    BY <1>3, <1>4, LastReadJoin, Concatenated
<1>8. (a \o b) \o c \in Seq(FileSet) /\ LastRead((a \o b) \o c)
    BY <1>5, <1>7, LastReadJoin, Concatenated
<1>9. ToSet((a \o b) \o c) = (ToSet(a) \union ToSet(b)) \union ToSet(c)
    <2>1. ToSet(a \o b) = ToSet(a) \union ToSet(b)
        BY <1>3, <1>4, ConcatenatedSet
    <2>2. ToSet((a \o b) \o c) = ToSet(a \o b) \union ToSet(c)
        BY <1>5, <1>7, ConcatenatedSet
    <2> QED
        BY <2>1, <2>2
<1> QED
    BY <1>1, <1>3, <1>4, <1>5, <1>6, <1>8, <1>9

LEMMA Tools ==
    /\ ToolFiles \in Seq(FileSet) /\ LastRead(ToolFiles)
    /\ {File("update-binary", "tool"), File("updater-script", "script"), File("avbctl", "tool"),
        File("super_empty", "tool"), File("superwipe", "tool")} = ToSet(ToolFiles)
<1>1. PICK u \in FileSet, s \in FileSet, a \in FileSet, e \in FileSet, w \in FileSet :
          /\ u = File("update-binary", "tool") /\ s = File("updater-script", "script")
          /\ a = File("avbctl", "tool") /\ e = File("super_empty", "tool")
          /\ w = File("superwipe", "tool")
    <2>1. /\ \A n \in {"update-binary", "avbctl", "super_empty", "superwipe"} :
                 File(n, "tool") \in FileSet
          /\ File("updater-script", "script") \in FileSet
        BY DEF File, FileSet, FileNames
    <2> QED
        BY <2>1
<1> DEFINE t == <<u, s, a, e, w>>
<1>2. ToolFiles = t
    BY <1>1, Zenon DEF ToolFiles
<1>3. /\ t \in Seq(FileSet) /\ Len(t) = 5 /\ DOMAIN t = 1..5
      /\ t[1] = u /\ t[2] = s /\ t[3] = a /\ t[4] = e /\ t[5] = w
    OBVIOUS
<1>4. Chunks(w) # 0
    BY <1>1 DEF File, Chunks
<1> HIDE DEF t
<1>5. \A k \in 1..5 : k = 1 \/ k = 2 \/ k = 3 \/ k = 4 \/ k = 5
    OBVIOUS
<1>6. ToSet(t) = {u, s, a, e, w}
    BY <1>3, <1>5 DEF ToSet
<1>7. LastRead(t)
    BY <1>3, <1>4 DEF LastRead
<1> QED
    BY <1>1, <1>2, <1>3, <1>6, <1>7

(* sorted(rglob("*")): everything the script takes from the package is     *)
(* there.                                                                  *)
LEMMA FilesSteps ==
    ASSUME NEW p \in Packages
    PROVE  /\ Files(p) \in Seq(FileSet)
           /\ LastRead(Files(p)) /\ Len(Files(p)) \in Nat \ {0}
           /\ ToSet(ToolFiles) \subseteq ToSet(Files(p))
           /\ \A n \in ToSet(FileOrder) : ToSet(FilesOf(p, n)) \subseteq ToSet(Files(p))
<1> DEFINE seqs == [i \in DOMAIN FileOrder |-> FilesOf(p, FileOrder[i])]
<1>1. DOMAIN FileOrder = 1..Len(FileOrder) /\ Len(FileOrder) \in Nat
    BY FileOrderAssumption
<1>2. \A i \in 1..Len(FileOrder) :
          FilesOf(p, FileOrder[i]) \in Seq(FileSet) /\ LastRead(FilesOf(p, FileOrder[i]))
    <2>1. \A i \in 1..Len(FileOrder) : FileOrder[i] \in ToSet(FileOrder)
        BY <1>1 DEF ToSet
    <2> QED
        BY <2>1, FilesOfName
<1>3. /\ seqs \in Seq(Seq(FileSet)) /\ Len(seqs) = Len(FileOrder)
      /\ \A i \in 1..Len(FileOrder) : seqs[i] = FilesOf(p, FileOrder[i])
    BY <1>1, <1>2
<1> HIDE DEF seqs
<1>4. \A i \in 1..Len(seqs) : LastRead(seqs[i])
    BY <1>2, <1>3
<1> DEFINE f == FlattenSeq(seqs)
<1>5. f \in Seq(FileSet) /\ ToSet(f) = Gathered(seqs, Len(seqs))
    BY <1>3, FlattenedSet
<1>6. LastRead(f)
    BY <1>3, <1>4, LastReadFlatten
<1>7. Files(p) = ToolFiles \o f
    BY Zenon DEF Files, seqs
<1> HIDE DEF f
<1>8. Files(p) \in Seq(FileSet) /\ ToSet(Files(p)) = ToSet(ToolFiles) \union ToSet(f)
    BY <1>5, <1>7, Tools, ConcatenatedSet, Concatenated
<1>9. LastRead(Files(p))
    BY <1>5, <1>6, <1>7, Tools, LastReadJoin
<1>10. ASSUME NEW n \in ToSet(FileOrder) PROVE ToSet(FilesOf(p, n)) \subseteq ToSet(Files(p))
    <2>1. PICK i \in 1..Len(FileOrder) : n = FileOrder[i]
        BY <1>1 DEF ToSet
    <2>2. ToSet(FilesOf(p, n)) \subseteq Gathered(seqs, Len(seqs))
        BY <1>3, <2>1 DEF Gathered
    <2> QED
        BY <1>5, <1>8, <2>2
<1>11. Len(Files(p)) \in Nat \ {0}
    <2>1. ToSet(Files(p)) # {}
        BY <1>8, Tools
    <2> QED
        BY <1>8, <2>1 DEF ToSet
<1> QED
    BY <1>8, <1>9, <1>10, <1>11

-------------------------------------------------------------------------------
(* The invariant of the packing: how far the file under the final name has *)
(* come, and that the display is about that file.                          *)

Entries == [file : FileSet, chunks : Nat]

Archives == [build : {"none", "this", "earlier"}, entries : Seq(Entries), closed : BOOLEAN]

HostTypes ==
    /\ job \in Packages
    /\ pc \in {"zip", "next", "write", "built", "failed", "killed"}
    /\ out \in Archives
    /\ entry \in 0..(Len(Files(job)) + 1)
    /\ shown \in [files : 0..Len(Files(job)), bytes : Nat]

(* As long as nothing was opened the file is the one of an earlier build.  *)
Untouched ==
    entry = 0 => /\ out \in {NoArchive, Complete(job, "earlier")}
                 /\ shown = [files |-> 0, bytes |-> 0]

(* Every file but the last that was begun is in the archive completely.    *)
Archived ==
    entry # 0 =>
        /\ out.build = "this"
        /\ Len(out.entries) \in (entry - 1)..entry /\ Len(out.entries) <= Len(Files(job))
        /\ \A i \in 1..Len(out.entries) :
               /\ out.entries[i].file = Files(job)[i]
               /\ out.entries[i].chunks <= Chunks(Files(job)[i])
               /\ i < entry => out.entries[i].chunks = Chunks(Files(job)[i])
        /\ shown.bytes = PackedChunks

Where ==
    /\ pc = "zip" <=> entry = 0 /\ ~Ended
    /\ pc = "next" => Len(out.entries) = entry - 1
    /\ pc = "write" => Len(out.entries) = entry
    /\ pc = "built" => entry = Len(Files(job)) + 1 /\ Len(out.entries) = Len(Files(job))

(* A file is counted with its first chunk. *)
Counted ==
    /\ (pc = "write" /\ Written.chunks # 0) => shown.files = entry
    /\ (pc \in {"next", "built"} /\ entry > 1 /\ Chunks(Files(job)[entry - 1]) # 0)
           => shown.files = entry - 1

Packing == HostTypes /\ Untouched /\ Archived /\ Where /\ Counted

ChunkSeq(entries) == [i \in DOMAIN entries |-> entries[i].chunks]

LEMMA ChunkSeqType ==
    ASSUME NEW entries \in Seq(Entries)
    PROVE  /\ ChunkSeq(entries) \in Seq(Nat) /\ Len(ChunkSeq(entries)) = Len(entries)
           /\ \A i \in 1..Len(entries) : ChunkSeq(entries)[i] = entries[i].chunks
<1>1. DOMAIN entries = 1..Len(entries) /\ Len(entries) \in Nat
    OBVIOUS
<1>2. \A i \in 1..Len(entries) : entries[i].chunks \in Nat
    <2>1. \A i \in 1..Len(entries) : entries[i] \in Entries
        BY ElementOfSeq
    <2> QED
        BY <2>1 DEF Entries
<1> QED
    BY <1>1, <1>2 DEF ChunkSeq

LEMMA CompleteType ==
    ASSUME NEW p \in Packages, NEW build \in {"this", "earlier"}
    PROVE  /\ Complete(p, build) \in Archives
           /\ Len(Complete(p, build).entries) = Len(Files(p))
           /\ \A i \in 1..Len(Files(p)) :
                  /\ Complete(p, build).entries[i].file = Files(p)[i]
                  /\ Complete(p, build).entries[i].chunks = Chunks(Files(p)[i])
<1> DEFINE F == Files(p)
           entries == [i \in DOMAIN F |-> [file |-> F[i], chunks |-> Chunks(F[i])]]
<1>1. PICK N \in Nat : DOMAIN F = 1..N /\ N = Len(F)
    BY FilesSteps
<1>2. \A i \in 1..N : F[i] \in FileSet /\ Chunks(F[i]) \in Nat
    BY <1>1, FilesSteps, ElementOfSeq, ChunksNat
<1>3. Complete(p, build) = [build |-> build, entries |-> entries, closed |-> TRUE]
    BY Zenon DEF Complete, Archive
<1> HIDE DEF F
<1>4. /\ entries \in Seq(Entries) /\ Len(entries) = N
      /\ \A i \in 1..N : entries[i].file = F[i] /\ entries[i].chunks = Chunks(F[i])
    <2>1. entries \in [1..N -> Entries]
        BY <1>1, <1>2 DEF Entries
    <2> QED
        BY <1>1, <2>1
<1> HIDE DEF entries
<1> QED
    BY <1>1, <1>3, <1>4 DEF Archives, F

LEMMA PackingInit == Init => Packing
<1> SUFFICES ASSUME Init PROVE Packing
    OBVIOUS
<1>1. job \in Packages /\ pc = "zip" /\ entry = 0 /\ shown = [files |-> 0, bytes |-> 0]
    BY DEF Init
<1>2. Len(Files(job)) \in Nat
    BY <1>1, FilesSteps
<1>3. out \in {NoArchive, Complete(job, "earlier")}
    BY DEF Init
<1>4. NoArchive \in Archives
    BY DEF NoArchive, Archive, Archives
<1>5. out \in Archives
    BY <1>1, <1>3, <1>4, CompleteType
<1>6. HostTypes
    BY <1>1, <1>2, <1>5 DEF HostTypes
<1>7. Untouched /\ Archived /\ Where /\ Counted
    BY <1>1, <1>3 DEF Untouched, Archived, Where, Counted, Ended
<1> QED
    BY <1>6, <1>7 DEF Packing

LEMMA PackingSame ==
    ASSUME Packing, UNCHANGED host
    PROVE  Packing'
BY DEF Packing, HostTypes, Untouched, Archived, Where, Counted, Written, PackedChunks, Ended,
       host

LEMMA PackingFacts ==
    ASSUME Packing
    PROVE  /\ job \in Packages /\ Files(job) \in Seq(FileSet) /\ Len(Files(job)) \in Nat \ {0}
           /\ \A i \in 1..Len(Files(job)) : Files(job)[i] \in FileSet /\ Chunks(Files(job)[i]) \in 0..2
           /\ out \in Archives /\ out.entries \in Seq(Entries) /\ Len(out.entries) \in Nat
           /\ entry \in Nat /\ shown.bytes \in Nat /\ shown.files \in Nat
<1>1. job \in Packages /\ out \in Archives
    BY DEF Packing, HostTypes
<1>2. Files(job) \in Seq(FileSet) /\ Len(Files(job)) \in Nat \ {0}
    BY <1>1, FilesSteps
<1>3. \A i \in 1..Len(Files(job)) : Files(job)[i] \in FileSet /\ Chunks(Files(job)[i]) \in 0..2
    BY <1>2, ElementOfSeq, ChunksNat
<1>4. out.entries \in Seq(Entries) /\ Len(out.entries) \in Nat
    BY <1>1 DEF Archives
<1>5. entry \in Nat /\ shown.bytes \in Nat /\ shown.files \in Nat
    BY <1>2 DEF Packing, HostTypes
<1> QED
    BY <1>1, <1>2, <1>3, <1>4, <1>5

LEMMA PackingOpenZip ==
    ASSUME Packing, OpenZip
    PROVE  Packing'
<1>1. /\ pc' = "next" /\ entry' = 1 /\ job' = job /\ shown' = shown
      /\ out' = [build |-> "this", entries |-> <<>>, closed |-> FALSE]
    BY DEF OpenZip, OnHost, Archive
<1>2. entry = 0 /\ shown = [files |-> 0, bytes |-> 0]
    BY DEF OpenZip, Packing, Where, Untouched
<1>3. PackedChunks' = 0
    <2>1. ChunkSeq(<<>>) = <<>>
        BY DEF ChunkSeq
    <2>2. PackedChunks' = Total(ChunkSeq(<<>>))
        BY <1>1 DEF PackedChunks, ChunkSeq
    <2> QED
        BY <2>1, <2>2, TotalEmpty
<1>4. out' \in Archives /\ Len(out'.entries) = 0
    BY <1>1 DEF Archives
<1>5. job \in Packages /\ Len(Files(job)) \in Nat \ {0}
    BY PackingFacts
<1>6. HostTypes'
    BY <1>1, <1>2, <1>4, <1>5 DEF HostTypes
<1>7. Untouched' /\ Where' /\ Counted'
    BY <1>1, <1>4 DEF Untouched, Where, Counted, Ended
<1>8. Archived'
    BY <1>1, <1>2, <1>3, <1>4, <1>5 DEF Archived
<1> QED
    BY <1>6, <1>7, <1>8 DEF Packing

LEMMA PackingBegin ==
    ASSUME Packing, BeginEntry
    PROVE  Packing'
<1> DEFINE F == Files(job)
           e == [file |-> F[entry], chunks |-> 0]
<1>1. /\ pc = "next" /\ entry <= Len(F) /\ pc' = "write" /\ job' = job /\ entry' = entry
      /\ out' = [out EXCEPT !.entries = Append(@, e)]
      /\ shown' = [shown EXCEPT !.files = entry - 1]
    BY DEF BeginEntry, OnHost
<1>2. /\ F \in Seq(FileSet) /\ Len(F) \in Nat \ {0} /\ out \in Archives
      /\ out.entries \in Seq(Entries) /\ Len(out.entries) \in Nat /\ entry \in Nat
      /\ \A i \in 1..Len(F) : F[i] \in FileSet /\ Chunks(F[i]) \in 0..2
    BY PackingFacts
<1>3. entry # 0 /\ Len(out.entries) = entry - 1
    BY <1>1 DEF Packing, Where
<1>4. entry \in 1..Len(F)
    BY <1>1, <1>2, <1>3
<1>5. e \in Entries /\ e.file = F[entry] /\ e.chunks = 0
    BY <1>2, <1>4 DEF Entries
<1>6. /\ out' \in Archives /\ out'.build = out.build
      /\ out'.entries = Append(out.entries, e)
    <2>1. Append(out.entries, e) \in Seq(Entries)
        BY <1>2, <1>5
    <2> HIDE DEF e
    <2> QED
        BY <1>1, <1>2, <2>1 DEF Archives
<1> HIDE DEF e
<1>7. /\ Len(out'.entries) = entry /\ out'.entries[entry] = e
      /\ \A i \in 1..(entry - 1) : out'.entries[i] = out.entries[i]
      /\ out'.entries \in Seq(Entries)
    BY <1>2, <1>3, <1>4, <1>5, <1>6
<1>8. PackedChunks' = PackedChunks
    <2> DEFINE a == ChunkSeq(out.entries)
               b == ChunkSeq(out'.entries)
    <2>1. /\ a \in Seq(Nat) /\ Len(a) = entry - 1
          /\ \A i \in 1..(entry - 1) : a[i] = out.entries[i].chunks
        BY <1>2, <1>3, ChunkSeqType
    <2>2. /\ b \in Seq(Nat) /\ Len(b) = entry
          /\ \A i \in 1..entry : b[i] = out'.entries[i].chunks
        BY <1>7, ChunkSeqType
    <2>3. PackedChunks = Total(a) /\ PackedChunks' = Total(b)
        BY Zenon DEF PackedChunks, ChunkSeq
    <2> HIDE DEF a, b
    <2>4. /\ Len(b) = Len(a) + 1 /\ b[Len(b)] = 0
          /\ \A i \in 1..Len(a) : b[i] = a[i]
        <3>1. (entry - 1) + 1 = entry /\ entry \in 1..entry
            BY <1>4
        <3>2. \A i \in 1..(entry - 1) : i \in 1..entry
            BY <1>4
        <3>3. Len(b) = Len(a) + 1
            BY <2>1, <2>2, <3>1
        <3>4. b[entry] = 0
            BY <1>5, <1>7, <2>2, <3>1
        <3>5. \A i \in 1..(entry - 1) : b[i] = a[i]
            BY <1>7, <2>1, <2>2, <3>2, Zenon
        <3> QED
            BY <2>1, <2>2, <3>3, <3>4, <3>5
    <2>5. Total(b) = Total(a) + 0
        BY <2>1, <2>2, <2>4, TotalLast
    <2>6. Total(a) \in Nat
        BY <2>1, TotalNat
    <2> QED
        BY <2>3, <2>5, <2>6
<1>9. shown' \in [files : 0..Len(F), bytes : Nat] /\ shown'.bytes = shown.bytes /\ shown'.files = entry - 1
    BY <1>1, <1>2, <1>4 DEF Packing, HostTypes
<1>10. HostTypes'
    BY <1>1, <1>2, <1>4, <1>6, <1>9 DEF Packing, HostTypes
<1>11. Archived'
    <2>1. out.build = "this" /\ shown.bytes = PackedChunks
        BY <1>3 DEF Packing, Archived
    <2>2. ASSUME NEW i \in 1..entry
          PROVE  /\ out'.entries[i].file = F[i] /\ out'.entries[i].chunks <= Chunks(F[i])
                 /\ i < entry => out'.entries[i].chunks = Chunks(F[i])
        <3>1. CASE i = entry
            BY <1>2, <1>4, <1>5, <1>7, <3>1
        <3>2. CASE i # entry
            <4>1. i \in 1..(entry - 1) /\ i < entry /\ i \in 1..Len(out.entries)
                BY <1>2, <1>3, <1>4, <3>2
            <4>2. /\ out.entries[i].file = F[i] /\ out.entries[i].chunks <= Chunks(F[i])
                  /\ out.entries[i].chunks = Chunks(F[i])
                BY <1>3, <4>1 DEF Packing, Archived
            <4> QED
                BY <1>7, <4>1, <4>2
        <3> QED
            BY <3>1, <3>2
    <2>3. Len(out'.entries) \in (entry - 1)..entry /\ Len(out'.entries) <= Len(F)
        BY <1>2, <1>4, <1>7
    <2> QED
        BY <1>1, <1>6, <1>7, <1>8, <1>9, <2>1, <2>2, <2>3 DEF Archived
<1>12. Untouched' /\ Where'
    BY <1>1, <1>3, <1>7 DEF Untouched, Where, Ended
<1>13. Counted'
    <2>1. Written'.chunks = 0
        BY <1>5, <1>7 DEF Written
    <2> QED
        BY <1>1, <2>1 DEF Counted
<1> QED
    BY <1>10, <1>11, <1>12, <1>13 DEF Packing

LEMMA PackingChunk ==
    ASSUME Packing, WriteChunk
    PROVE  Packing'
<1> DEFINE F == Files(job)
<1>1. /\ pc = "write" /\ pc' = "write" /\ job' = job /\ entry' = entry
      /\ Written.chunks < Chunks(Written.file)
      /\ out' = [out EXCEPT !.entries[Len(out.entries)].chunks = @ + 1]
      /\ shown' = [files |-> entry, bytes |-> shown.bytes + 1]
    BY DEF WriteChunk, OnHost, BytesDone
<1>2. /\ F \in Seq(FileSet) /\ Len(F) \in Nat \ {0} /\ out \in Archives
      /\ out.entries \in Seq(Entries) /\ Len(out.entries) \in Nat /\ entry \in Nat
      /\ \A i \in 1..Len(F) : F[i] \in FileSet /\ Chunks(F[i]) \in 0..2
      /\ shown.bytes \in Nat
    BY PackingFacts
<1>3. entry # 0 /\ Len(out.entries) = entry
    BY <1>1 DEF Packing, Where, Ended
<1>4. entry \in 1..Len(F)
    BY <1>2, <1>3 DEF Packing, Archived
<1> DEFINE last == out.entries[entry]
           e == [last EXCEPT !.chunks = @ + 1]
<1>5. last \in Entries /\ last.chunks < Chunks(last.file)
    BY <1>1, <1>2, <1>3, <1>4, ElementOfSeq DEF Written
<1>6. e \in Entries /\ e.file = last.file /\ e.chunks = last.chunks + 1
    BY <1>5 DEF Entries
<1>7. /\ out' \in Archives /\ out'.build = out.build
      /\ out'.entries = [out.entries EXCEPT ![entry] = e]
    <2>1. [out.entries EXCEPT ![entry] = e] \in Seq(Entries)
        <3> HIDE DEF e
        <3> QED
            BY <1>2, <1>3, <1>4, <1>6, ExceptSeq
    <2>2. out' = [out EXCEPT !.entries = [out.entries EXCEPT ![entry] = e]]
        BY <1>1, <1>2, <1>3 DEF Archives
    <2>3. \A s \in Seq(Entries) : LET o == [out EXCEPT !.entries = s]
                               IN  o \in Archives /\ o.build = out.build /\ o.entries = s
        BY <1>2 DEF Archives
    <2> DEFINE s == [out.entries EXCEPT ![entry] = e]
    <2> HIDE DEF e, s
    <2> QED
        BY <2>1, <2>2, <2>3 DEF s
<1> HIDE DEF e
<1>8. /\ Len(out'.entries) = entry /\ out'.entries[entry] = e
      /\ \A i \in 1..entry : i # entry => out'.entries[i] = out.entries[i]
      /\ out'.entries \in Seq(Entries)
    BY <1>2, <1>3, <1>4, <1>6, <1>7
<1>9. PackedChunks' = PackedChunks + 1
    <2> DEFINE a == ChunkSeq(out.entries)
               b == ChunkSeq(out'.entries)
    <2>1. /\ a \in Seq(Nat) /\ Len(a) = entry
          /\ \A i \in 1..entry : a[i] = out.entries[i].chunks
        BY <1>2, <1>3, ChunkSeqType
    <2>2. /\ b \in Seq(Nat) /\ Len(b) = entry
          /\ \A i \in 1..entry : b[i] = out'.entries[i].chunks
        BY <1>8, ChunkSeqType
    <2>3. PackedChunks = Total(a) /\ PackedChunks' = Total(b)
        BY Zenon DEF PackedChunks, ChunkSeq
    <2> HIDE DEF a, b
    <2>4. \A i \in 1..Len(a) : b[i] = IF i = Len(a) THEN a[i] + 1 ELSE a[i]
        BY <1>4, <1>6, <1>8, <2>1, <2>2
    <2>5. Len(a) # 0 /\ Len(b) = Len(a)
        BY <1>3, <2>1, <2>2
    <2>6. Total(b) = Total(a) + 1
        BY <2>1, <2>2, <2>4, <2>5, TotalBump
    <2> QED
        BY <2>3, <2>6
<1>10. HostTypes'
    BY <1>1, <1>2, <1>4, <1>7 DEF Packing, HostTypes
<1>11. Archived'
    <2>1. out.build = "this" /\ shown.bytes = PackedChunks
        BY <1>3 DEF Packing, Archived
    <2>2. ASSUME NEW i \in 1..entry
          PROVE  /\ out'.entries[i].file = F[i] /\ out'.entries[i].chunks <= Chunks(F[i])
                 /\ i < entry => out'.entries[i].chunks = Chunks(F[i])
        <3>1. /\ out.entries[i].file = F[i] /\ out.entries[i].chunks <= Chunks(F[i])
              /\ i < entry => out.entries[i].chunks = Chunks(F[i])
            BY <1>3, <2>2 DEF Packing, Archived
        <3>2. CASE i = entry
            <4>1. e.chunks \in Nat /\ last.chunks \in Nat /\ Chunks(F[i]) \in Nat
                BY <1>2, <1>4, <1>5, <1>6, <3>2 DEF Entries
            <4> QED
                BY <1>2, <1>4, <1>5, <1>6, <1>8, <3>1, <3>2, <4>1
        <3>3. CASE i # entry
            BY <1>8, <3>1, <3>3
        <3> QED
            BY <3>2, <3>3
    <2>3. Len(out'.entries) \in (entry - 1)..entry /\ Len(out'.entries) <= Len(F)
        BY <1>2, <1>4, <1>8
    <2> QED
        BY <1>1, <1>7, <1>8, <1>9, <2>1, <2>2, <2>3 DEF Archived
<1>12. Untouched' /\ Where' /\ Counted'
    BY <1>1, <1>3, <1>8 DEF Untouched, Where, Ended, Counted
<1> QED
    BY <1>10, <1>11, <1>12 DEF Packing

LEMMA PackingEnd ==
    ASSUME Packing, EndEntry
    PROVE  Packing'
<1> DEFINE F == Files(job)
<1>1. /\ pc = "write" /\ pc' = "next" /\ job' = job /\ entry' = entry + 1
      /\ Written.chunks = Chunks(Written.file)
      /\ out' = out /\ shown' = shown
    BY DEF EndEntry, OnHost
<1>2. Len(F) \in Nat \ {0} /\ Len(out.entries) \in Nat /\ entry \in Nat
    BY PackingFacts
<1>3. entry # 0 /\ Len(out.entries) = entry
    BY <1>1 DEF Packing, Where, Ended
<1>4. entry \in 1..Len(F)
    BY <1>2, <1>3 DEF Packing, Archived
<1>5. HostTypes'
    BY <1>1, <1>2, <1>4 DEF Packing, HostTypes
<1>6. out.entries[entry].file = F[entry] /\ out.entries[entry].chunks = Chunks(F[entry])
    BY <1>1, <1>3, <1>4 DEF Packing, Archived, Written
<1>7. Archived'
    <2>1. PackedChunks' = PackedChunks
        BY <1>1 DEF PackedChunks
    <2>2. ASSUME NEW i \in 1..entry
          PROVE  /\ out.entries[i].file = F[i] /\ out.entries[i].chunks <= Chunks(F[i])
                 /\ out.entries[i].chunks = Chunks(F[i])
        <3>1. CASE i = entry
            BY <1>3, <1>4, <1>6, <3>1 DEF Packing, Archived
        <3>2. CASE i # entry
            BY <1>2, <1>3, <3>2 DEF Packing, Archived
        <3> QED
            BY <3>1, <3>2
    <2> QED
        BY <1>1, <1>2, <1>3, <1>4, <2>1, <2>2 DEF Packing, Archived
<1>8. Untouched' /\ Where'
    BY <1>1, <1>2, <1>3 DEF Untouched, Where, Ended
<1>9. Counted'
    <2>1. Chunks(F[entry]) # 0 => shown.files = entry
        BY <1>1, <1>3, <1>6 DEF Packing, Counted, Written
    <2>2. (entry + 1) - 1 = entry
        BY <1>2
    <2> QED
        BY <1>1, <2>1, <2>2 DEF Counted
<1> QED
    BY <1>5, <1>7, <1>8, <1>9 DEF Packing

LEMMA PackingClose ==
    ASSUME Packing, CloseZip \/ Fails \/ Killed
    PROVE  Packing'
<1>1. PICK c \in BOOLEAN :
          /\ out' = [out EXCEPT !.closed = c] /\ pc' \in {"built", "failed", "killed"}
          /\ (entry = 0 => c = out.closed)
          /\ (pc' = "built" => pc = "next" /\ entry > Len(Files(job)))
    <2>1. out \in Archives /\ (Opened => entry # 0)
        BY DEF Packing, HostTypes, Where, Opened, Ended
    <2>2. out = [out EXCEPT !.closed = out.closed] /\ out.closed \in BOOLEAN
        BY <2>1 DEF Archives
    <2>3. CASE CloseZip
        BY <2>1, <2>3 DEF CloseZip, Opened
    <2>4. CASE Fails
        BY <2>1, <2>2, <2>4 DEF Fails
    <2>5. CASE Killed
        BY <2>2, <2>5 DEF Killed
    <2> QED
        BY <2>3, <2>4, <2>5
<1>2. job' = job /\ entry' = entry /\ shown' = shown
    BY DEF CloseZip, Fails, Killed, OnHost
<1>3. /\ out' \in Archives /\ out'.build = out.build /\ out'.entries = out.entries
      /\ (entry = 0 => out' = out)
    <2>1. out \in Archives
        BY PackingFacts
    <2> QED
        BY <1>1, <2>1 DEF Archives
<1>4. PackedChunks' = PackedChunks
    BY <1>3 DEF PackedChunks
<1>5. Len(Files(job)) \in Nat /\ entry \in Nat /\ Len(out.entries) \in Nat
    BY PackingFacts
<1>6. HostTypes' /\ Untouched' /\ Archived'
    BY <1>1, <1>2, <1>3, <1>4 DEF Packing, HostTypes, Untouched, Archived
<1>7. pc' = "built" => entry = Len(Files(job)) + 1 /\ Len(out.entries) = Len(Files(job))
    BY <1>1, <1>5 DEF Packing, HostTypes, Where
<1>8. Where' /\ Counted'
    BY <1>1, <1>2, <1>3, <1>7 DEF Packing, Where, Counted, Ended
<1> QED
    BY <1>6, <1>8 DEF Packing

LEMMA PackingStep == Packing /\ [Next]_vars => Packing'
<1> SUFFICES ASSUME Packing, [Next]_vars PROVE Packing'
    OBVIOUS
<1>1. CASE Build
    BY <1>1, PackingOpenZip, PackingBegin, PackingChunk, PackingEnd, PackingClose DEF Build
<1>2. CASE UNCHANGED host
    BY <1>2, PackingSame
<1>3. Flash \/ RunScript \/ PowerCut \/ Over \/ UNCHANGED vars => UNCHANGED host
    BY DEF Flash, RunScript, PowerCut, Over, vars, CheckDevice, DisableAvb, Superwipe, CheckSlot,
           FlashRaw, Unmap, UpdateTables, FlashDynamic, Finish, Running
<1> QED
    BY <1>1, <1>2, <1>3 DEF Next

LEMMA PackingAlways == Spec => []Packing
<1> QED
    BY PackingInit, PackingStep, PTL DEF Spec

(* What the display says of the ZIP is what is in it, and when the ZIP is  *)
(* done it says that all is: build_flashable_zip counts every chunk once,  *)
(* and the last file is not one that nothing is read of.                   *)
THEOREM DisplayMatchesZip == Spec => []PackingTruthful
<1>1. Packing => PackingTruthful
    <2> SUFFICES ASSUME Packing PROVE PackingTruthful
        OBVIOUS
    <2> DEFINE F == Files(job)
               f == [i \in DOMAIN F |-> Chunks(F[i])]
    <2>1. /\ F \in Seq(FileSet) /\ Len(F) \in Nat \ {0} /\ job \in Packages
          /\ out.entries \in Seq(Entries)
        BY PackingFacts
    <2>2. Opened => shown.bytes = PackedChunks
        BY DEF Packing, Archived, Where, Opened, Ended
    <2>3. ASSUME pc = "built" PROVE shown.bytes = TotalChunks(job)
        <3>1. /\ entry = Len(F) + 1 /\ Len(out.entries) = Len(F)
              /\ entry # 0 /\ shown.bytes = PackedChunks
            BY <2>1, <2>3 DEF Packing, Where, Archived, Ended
        <3>2. \A i \in 1..Len(F) : out.entries[i].chunks = Chunks(F[i])
            BY <2>1, <3>1 DEF Packing, Archived
        <3>3. DOMAIN out.entries = 1..Len(F) /\ DOMAIN F = 1..Len(F)
            BY <2>1, <3>1
        <3>4. ChunkSeq(out.entries) = f
            BY <3>2, <3>3 DEF ChunkSeq
        <3> QED
            BY <3>1, <3>4, Zenon DEF PackedChunks, TotalChunks, ChunkSeq
    <2>4. ASSUME pc = "built" PROVE shown.files = Len(F)
        <3>1. entry = Len(F) + 1 /\ entry > 1 /\ entry - 1 = Len(F)
            BY <2>1, <2>4 DEF Packing, Where
        <3>2. Chunks(F[Len(F)]) # 0
            BY <2>1, FilesSteps DEF LastRead
        <3> QED
            BY <2>4, <3>1, <3>2 DEF Packing, Counted
    <2>5. shown \in [files : 0..Len(F), bytes : Nat]
        BY DEF Packing, HostTypes
    <2> QED
        BY <2>2, <2>3, <2>4, <2>5 DEF PackingTruthful
<1> QED
    BY <1>1, PackingAlways, PTL

-------------------------------------------------------------------------------
(* The invariant of the update.                                            *)

RawParts == ToSet(FileOrder) \X {"_a", "_b", ""}

Contents == {"old", "junk", "cut off", "this", "earlier"}

Devices ==
    [super : {"old", "broken", "empty", "laid out"}, limit : Nat, lps : SUBSET ToSet(FileOrder),
     avb : {"on", "off"}, raw : [RawParts -> Contents], part : [ToSet(FileOrder) -> Contents]]

DeviceTypes ==
    /\ dev \in Devices
    /\ status \in {"idle", "running", "lost", "aborted", "finished"}
    /\ cuts \in 0..MaxCuts /\ faults \in 0..MaxFaults
    /\ status # "idle" => Ended /\ out.build # "none"

AllWell == ZipWhole /\ faults = 0

KnownSlot == phone.slot \in {"_a", "_b"}

(* What is owed to a command that the recovery has passed. *)
Passed(c) ==
    /\ c.op = "device" => KnownDevice
    /\ (c.op = "slot" \/ (c.op = "raw" /\ c.slot = "active")) => KnownSlot
    /\ c.op = "tables" => dev.super = "laid out" /\ dev.lps = ToSet(job.dynamic)
    /\ c.op = "flash" => dev.part[c.name] = out.build
    /\ (c.op = "avb" /\ AllWell) => dev.avb = "off"
    /\ (c.op = "raw" /\ AllWell /\ Reached(c)) => dev.raw[RawTarget(c)] = out.build

Going == status \in {"running", "finished"}

PassedAll ==
    Going => /\ step \in 1..Len(Script(job))
             /\ \A j \in 1..(step - 1) : Passed(Script(job)[j])
             /\ status = "finished" => step = Len(Script(job))

BrokenHasCause == dev.super = "broken" => faults > 0

(* A raw partition is written by a command of the script only. *)
RawHasCommand ==
    \A t \in RawParts :
        dev.raw[t] # "old" =>
            \E c \in ToSet(Script(job)) :
                c.op = "raw" /\ RawTarget(c) = t /\ (c.slot = "active" => KnownSlot)

Update ==
    /\ DeviceTypes /\ PassedAll /\ BrokenHasCause /\ RawHasCommand
    /\ OtherDeviceUntouched /\ AbortHasCause

-------------------------------------------------------------------------------
(* The commands of the script, wherever it has come to.                    *)

LEMMA ScriptCommand ==
    ASSUME NEW p \in Packages, NEW k \in 1..Len(Script(p)), NEW c, c = Script(p)[k]
    PROVE  /\ c \in ScriptSet(p) /\ c.op \in Ops
           /\ c.op = "device" => p.devices # {}
           /\ c.op = "slot" => SlotChecked(p.raw)
           /\ c.op = "raw" => \E i \in DOMAIN p.raw : c \in RawSet(p.raw[i])
           /\ c.op = "flash" => c.name \in ToSet(p.dynamic)
<1>1. Script(p) \in Seq(Commands) /\ ToSet(Script(p)) = ScriptSet(p)
    BY ScriptSteps
<1>2. c \in Commands
    BY <1>1, ElementOfSeq
<1>3. c \in ScriptSet(p)
    BY <1>1 DEF ToSet
<1>4. \A op : Plain(op).op = op
    BY DEF Plain, Command
<1>5. \A n, s : /\ Command("raw", n, s).op = "raw"
                /\ Command("flash", n, s).op = "flash" /\ Command("flash", n, s).name = n
    BY DEF Command
<1>6. \/ c \in DeviceOf(p) \/ c \in SlotOf(p) \/ c \in RawsOf(p) \/ c \in FlashesOf(p)
      \/ c.op \in {"avb", "wipe", "unmap", "tables", "end"}
    BY <1>3, <1>4 DEF ScriptSet, BodySet
<1>7. CASE c \in DeviceOf(p)
    BY <1>3, <1>4, <1>7 DEF DeviceOf, Ops
<1>8. CASE c \in SlotOf(p)
    BY <1>3, <1>4, <1>8 DEF SlotOf, Ops
<1>9. CASE c \in RawsOf(p)
    <2>1. PICK i \in DOMAIN p.raw : c \in RawSet(p.raw[i])
        BY <1>9 DEF RawsOf
    <2>2. PICK n, s : c = Command("raw", n, s)
        BY <2>1, Zenon DEF RawSet
    <2> QED
        BY <1>3, <1>5, <2>1, <2>2 DEF Ops
<1>10. CASE c \in FlashesOf(p)
    <2>1. c.op = "flash" /\ c.name \in ToSet(p.dynamic)
        <3>1. PICK n \in ToSet(p.dynamic) : c = Command("flash", n, "")
            BY <1>10, Zenon DEF FlashesOf
        <3>2. Command("flash", n, "").op = "flash" /\ Command("flash", n, "").name = n
            BY <1>5, Zenon
        <3> QED
            BY <3>1, <3>2
    <2> QED
        BY <1>3, <2>1 DEF Ops
<1>11. CASE c.op \in {"avb", "wipe", "unmap", "tables", "end"}
    BY <1>3, <1>11 DEF Ops
<1> QED
    BY <1>6, <1>7, <1>8, <1>9, <1>10, <1>11

LEMMA ScriptIndex ==
    ASSUME NEW p \in Packages, NEW c \in ScriptSet(p)
    PROVE  \E k \in 1..Len(Script(p)) : Script(p)[k] = c
<1>1. Script(p) \in Seq(Commands) /\ c \in ToSet(Script(p))
    BY ScriptSteps
<1> QED
    BY <1>1 DEF ToSet

LEMMA ScriptOrder ==
    ASSUME NEW p \in Packages, NEW j \in 1..Len(Script(p)), NEW k \in 1..Len(Script(p))
    PROVE  /\ j <= k => Rank(Script(p)[j].op) <= Rank(Script(p)[k].op)
           /\ Rank(Script(p)[j].op) < Rank(Script(p)[k].op) => j < k
<1>1. Ordered(Script(p), 0, 8) /\ Len(Script(p)) \in Nat
    BY ScriptSteps
<1>2. \A i \in 1..Len(Script(p)) : Rank(Script(p)[i].op) \in 0..8
    BY RankRange
<1>3. \A a, b \in 1..Len(Script(p)) : a <= b => Rank(Script(p)[a].op) <= Rank(Script(p)[b].op)
    BY <1>1, Zenon DEF Ordered, RankOf
<1> QED
    BY <1>1, <1>2, <1>3

LEMMA RawTypes ==
    ASSUME NEW p \in Packages
    PROVE  \A i \in DOMAIN p.raw : p.raw[i] \in RawImages
<1>1. p.raw \in Seq(RawImages)
    BY PackagesAssumption DEF RawImages
<1>2. DOMAIN p.raw = 1..Len(p.raw)
    BY <1>1
<1> QED
    BY <1>1, <1>2, ElementOfSeq

LEMMA DynamicNames ==
    ASSUME NEW p \in Packages
    PROVE  ToSet(p.dynamic) \subseteq ToSet(FileOrder)
<1>1. p.dynamic \in Seq(ToSet(FileOrder))
    BY PackagesAssumption
<1>2. DOMAIN p.dynamic = 1..Len(p.dynamic)
    BY <1>1
<1>3. \A i \in DOMAIN p.dynamic : p.dynamic[i] \in ToSet(FileOrder)
    BY <1>1, <1>2, ElementOfSeq
<1> QED
    BY <1>3 DEF ToSet

LEMMA RawCommand ==
    ASSUME NEW image \in RawImages, NEW c \in RawSet(image)
    PROVE  /\ c.op = "raw" /\ c.name = image.name
           /\ c.slot \in {"active", "_a", "_b", ""}
           /\ c.slot = "active" <=> image.policy = "active"
<1>1. PICK s \in {"active", "_a", "_b", ""} :
          c = Command("raw", image.name, s) /\ (s = "active" <=> image.policy = "active")
    BY DEF RawSet, RawImages
<1> QED
    BY <1>1 DEF Command

LEMMA TargetKnown ==
    ASSUME job \in Packages, NEW c \in ScriptSet(job), c.op = "raw", c.slot = "active" => KnownSlot
    PROVE  /\ RawTarget(c) \in RawParts /\ Raw(job, c.name) /\ c.name \in ToSet(FileOrder)
<1>1. PICK k \in 1..Len(Script(job)) : Script(job)[k] = c
    BY ScriptIndex
<1>2. PICK i \in DOMAIN job.raw : c \in RawSet(job.raw[i])
    BY <1>1, ScriptCommand
<1>3. job.raw[i] \in RawImages
    BY RawTypes
<1>4. /\ c.name = job.raw[i].name /\ c.slot \in {"active", "_a", "_b", ""}
      /\ (c.slot = "active" <=> job.raw[i].policy = "active")
    BY <1>2, <1>3, RawCommand
<1>5. Raw(job, c.name) /\ c.name \in ToSet(FileOrder)
    BY <1>3, <1>4 DEF Raw, RawImages
<1>6. PICK t \in {"_a", "_b", ""} : RawTarget(c) = <<c.name, t>>
    BY <1>4 DEF RawTarget, KnownSlot
<1>7. <<c.name, t>> \in RawParts
    BY <1>5 DEF RawParts
<1> QED
    BY <1>5, <1>6, <1>7, Zenon

LEMMA ActiveChecked ==
    ASSUME NEW p \in Packages, NEW c \in ScriptSet(p), c.op = "raw", c.slot = "active"
    PROVE  SlotChecked(p.raw)
<1>1. PICK k \in 1..Len(Script(p)) : Script(p)[k] = c
    BY ScriptIndex
<1>2. PICK i \in DOMAIN p.raw : c \in RawSet(p.raw[i])
    BY <1>1, ScriptCommand
<1>3. p.raw[i].policy = "active"
    BY <1>2, RawTypes, RawCommand
<1> QED
    BY <1>3 DEF SlotChecked

(* Where the update is: what it has passed, and what that says.            *)
LEMMA RunFacts ==
    ASSUME Packing, Update, status = "running"
    PROVE  /\ job \in Packages /\ step \in 1..Len(Script(job)) /\ Len(Script(job)) \in Nat
           /\ \A j \in 1..(step - 1) :
                  /\ j \in 1..Len(Script(job)) /\ Passed(Script(job)[j])
                  /\ Rank(Script(job)[j].op) <= Rank(Now.op)
           /\ Now \in ScriptSet(job)
           /\ Now.op = "end" <=> step = Len(Script(job))
           /\ Now.op = "device" => job.devices # {}
           /\ (job.devices # {} /\ Now.op # "device") => KnownDevice
           /\ Now.op = "slot" => SlotChecked(job.raw)
           /\ Now.op = "raw" => /\ RawTarget(Now) \in RawParts
                                /\ Raw(job, Now.name) /\ Now.name \in ToSet(FileOrder)
                                /\ Now.slot = "active" => KnownSlot
           /\ Now.op = "flash" => /\ Now.name \in ToSet(job.dynamic)
                                  /\ dev.super = "laid out" /\ dev.lps = ToSet(job.dynamic)
<1> DEFINE s == Script(job)
<1>1. job \in Packages
    BY DEF Packing, HostTypes
<1>2. /\ step \in 1..Len(s) /\ Len(s) \in Nat /\ \A j \in 1..(step - 1) : Passed(s[j])
      /\ (Now.op = "end" <=> step = Len(s))
    <2>1. step \in 1..Len(s) /\ \A j \in 1..(step - 1) : Passed(s[j])
        BY DEF Update, PassedAll, Going
    <2>2. Len(s) \in Nat /\ \A k \in 1..Len(s) : (s[k].op = "end") <=> k = Len(s)
        BY <1>1, ScriptSteps
    <2> QED
        BY <2>1, <2>2 DEF Now
<1>3. \A j \in 1..(step - 1) : j \in 1..Len(s) /\ j <= step
    BY <1>2
<1>4. Now = s[step]
    BY DEF Now
<1>5. /\ Now \in ScriptSet(job) /\ Now.op \in Ops
      /\ (Now.op = "device" => job.devices # {}) /\ (Now.op = "slot" => SlotChecked(job.raw))
      /\ (Now.op = "raw" => \E i \in DOMAIN job.raw : Now \in RawSet(job.raw[i]))
      /\ (Now.op = "flash" => Now.name \in ToSet(job.dynamic))
    BY <1>1, <1>2, <1>4, ScriptCommand
<1>6. \A j \in 1..(step - 1) : Rank(s[j].op) <= Rank(Now.op)
    BY <1>1, <1>2, <1>3, <1>4, ScriptOrder
<1>7. \A c \in ScriptSet(job) : Rank(c.op) < Rank(Now.op) => Passed(c)
    <2> SUFFICES ASSUME NEW c \in ScriptSet(job), Rank(c.op) < Rank(Now.op) PROVE Passed(c)
        OBVIOUS
    <2>1. PICK k \in 1..Len(s) : s[k] = c
        BY <1>1, ScriptIndex
    <2>2. k < step
        BY <1>1, <1>2, <1>4, <2>1, ScriptOrder
    <2> QED
        BY <1>2, <2>1, <2>2
<1>8. Plain("device").op = "device" /\ Plain("slot").op = "slot" /\ Plain("tables").op = "tables"
    BY DEF Plain, Command
<1>9. ASSUME job.devices # {}, Now.op # "device" PROVE KnownDevice
    <2>1. Plain("device") \in ScriptSet(job)
        BY <1>9 DEF ScriptSet, BodySet, DeviceOf
    <2>2. Rank("device") < Rank(Now.op)
        BY <1>9 DEF Rank
    <2> QED
        BY <1>7, <1>8, <2>1, <2>2 DEF Passed
<1>10. ASSUME Now.op = "raw"
       PROVE  /\ RawTarget(Now) \in RawParts /\ Raw(job, Now.name) /\ Now.name \in ToSet(FileOrder)
              /\ Now.slot = "active" => KnownSlot
    <2>1. ASSUME Now.slot = "active" PROVE KnownSlot
        <3>1. SlotChecked(job.raw)
            BY <1>1, <1>5, <1>10, <2>1, ActiveChecked
        <3>2. Plain("slot") \in ScriptSet(job)
            BY <3>1 DEF ScriptSet, BodySet, SlotOf
        <3>3. Rank("slot") < Rank(Now.op)
            BY <1>10 DEF Rank
        <3> QED
            BY <1>7, <1>8, <3>2, <3>3 DEF Passed
    <2> QED
        BY <1>1, <1>5, <1>10, <2>1, TargetKnown
<1>11. ASSUME Now.op = "flash" PROVE dev.super = "laid out" /\ dev.lps = ToSet(job.dynamic)
    <2>1. Plain("tables") \in ScriptSet(job)
        BY DEF ScriptSet, BodySet
    <2>2. Rank("tables") < Rank(Now.op)
        BY <1>11 DEF Rank
    <2> QED
        BY <1>7, <1>8, <2>1, <2>2 DEF Passed
<1> QED
    BY <1>1, <1>2, <1>3, <1>5, <1>6, <1>9, <1>10, <1>11

-------------------------------------------------------------------------------
(* What a whole package has, and what fits.                                *)

LEMMA WholeHas ==
    ASSUME Packing, ZipWhole, NEW f \in ToSet(Files(job))
    PROVE  Whole(f) /\ Has(f)
<1> DEFINE F == Files(job)
<1>1. out.entries = [i \in DOMAIN F |-> [file |-> F[i], chunks |-> Chunks(F[i])]]
    BY DEF ZipWhole, Complete, Archive
<1>2. PICK i \in DOMAIN F : F[i] = f
    BY DEF ToSet
<1>3. i \in DOMAIN out.entries /\ out.entries[i] = [file |-> f, chunks |-> Chunks(f)]
    BY <1>1, <1>2
<1>4. out.entries[i] \in ToSet(out.entries)
    BY <1>3 DEF ToSet
<1>5. out.entries[i] \in Packed(f) /\ out.entries[i].chunks = Chunks(f)
    BY <1>3, <1>4 DEF Packed
<1> QED
    BY <1>5 DEF Whole, Has

(* Everything a command takes from the package is in a whole one.          *)
LEMMA WholeFiles ==
    ASSUME Packing, ZipWhole
    PROVE  /\ Whole(File("avbctl", "tool")) /\ Whole(File("super_empty", "tool"))
           /\ Whole(File("superwipe", "tool")) /\ Whole(File(OpList, "ops"))
           /\ \A n \in ToSet(FileOrder) : Raw(job, n) => Whole(File(n, "raw")) /\ Has(File(n, "raw"))
           /\ \A n \in ToSet(job.dynamic) : Transfer(n)
<1>1. job \in Packages
    BY DEF Packing, HostTypes
<1>2. /\ ToSet(ToolFiles) \subseteq ToSet(Files(job))
      /\ \A n \in ToSet(FileOrder) : ToSet(FilesOf(job, n)) \subseteq ToSet(Files(job))
    BY <1>1, FilesSteps
<1>3. /\ Whole(File("avbctl", "tool")) /\ Whole(File("super_empty", "tool"))
      /\ Whole(File("superwipe", "tool"))
    BY <1>2, Tools, WholeHas
<1>4. Whole(File(OpList, "ops"))
    <2>1. File(OpList, "ops") \in ToSet(FilesOf(job, OpList)) /\ OpList \in ToSet(FileOrder)
        BY <1>1, FilesOfName, FileOrderAssumption
    <2> QED
        BY <1>2, <2>1, WholeHas
<1>5. ASSUME NEW n \in ToSet(FileOrder), Raw(job, n)
      PROVE  Whole(File(n, "raw")) /\ Has(File(n, "raw"))
    <2>1. File(n, "raw") \in ToSet(FilesOf(job, n))
        BY <1>1, <1>5, FilesOfName
    <2> QED
        BY <1>2, <2>1, WholeHas
<1>6. ASSUME NEW n \in ToSet(job.dynamic) PROVE Transfer(n)
    <2>1. n \in ToSet(FileOrder)
        BY <1>1, DynamicNames
    <2>2. {File(n, "data"), File(n, "patch"), File(n, "list")} \subseteq ToSet(FilesOf(job, n))
        BY <1>1, <2>1, FilesOfName
    <2> QED
        BY <1>2, <2>1, <2>2, WholeHas DEF Transfer
<1> QED
    BY <1>3, <1>4, <1>5, <1>6

LEMMA GroupSizeFits ==
    ASSUME NEW p \in Packages
    PROVE  /\ GroupSize(p) \in Nat /\ Total(Sizes(p)) \in Nat
           /\ (p.option \in {NoSize, 0} /\ p.setting = NoSize) => Total(Sizes(p)) <= GroupSize(p)
<1>1. /\ p.dynamic \in Seq(ToSet(FileOrder)) /\ p.size \in [ToSet(p.dynamic) -> Nat \ {0}]
      /\ p.option \in Nat \union {NoSize} /\ p.setting \in Nat \union {NoSize}
    BY PackagesAssumption
<1>2. DOMAIN p.dynamic = 1..Len(p.dynamic) /\ Len(p.dynamic) \in Nat
    BY <1>1
<1>3. \A i \in 1..Len(p.dynamic) : p.size[p.dynamic[i]] \in Nat
    BY <1>1, <1>2 DEF ToSet
<1>4. Sizes(p) \in Seq(Nat)
    BY <1>2, <1>3 DEF Sizes
<1>5. /\ Total(Sizes(p)) \in Nat /\ Padded(Total(Sizes(p))) \in Nat
      /\ Padded(Total(Sizes(p))) >= Total(Sizes(p))
    BY <1>4, GroupHasRoom
<1> QED
    BY <1>1, <1>5 DEF GroupSize, NoSize

LEMMA InstallableFits ==
    ASSUME job \in Packages, Installable
    PROVE  AddedOnce(OpListOf(job)) /\ Fits(OpListOf(job))
<1>1. /\ GroupSize(job) \in Nat /\ Total(Sizes(job)) \in Nat
      /\ (~SizeGiven => Total(Sizes(job)) <= GroupSize(job))
    BY GroupSizeFits DEF SizeGiven
<1>2. OpListOf(job).limit = GroupSize(job) /\ OpListOf(job).sizes = Sizes(job)
    BY DEF OpListOf
<1> QED
    BY <1>1, <1>2 DEF Installable, Fits

-------------------------------------------------------------------------------
(* What the commands make of a device.                                     *)

LEMMA DeviceFields ==
    ASSUME NEW d \in Devices
    PROVE  /\ d.super \in {"old", "broken", "empty", "laid out"} /\ d.limit \in Nat
           /\ d.lps \subseteq ToSet(FileOrder) /\ d.avb \in {"on", "off"}
           /\ d.raw \in [RawParts -> Contents] /\ d.part \in [ToSet(FileOrder) -> Contents]
BY DEF Devices

LEMMA AvbOff ==
    ASSUME dev \in Devices
    PROVE  LET d == [dev EXCEPT !.avb = "off"]
           IN  /\ d \in Devices /\ d.avb = "off"
               /\ d.super = dev.super /\ d.lps = dev.lps /\ d.raw = dev.raw /\ d.part = dev.part
BY DEF Devices

LEMMA GoneType ==
    ASSUME dev \in Devices
    PROVE  Gone \in [ToSet(FileOrder) -> Contents]
BY DEF Devices, Gone, Contents

LEMMA WipedType ==
    ASSUME dev \in Devices
    PROVE  /\ Wiped \in Devices /\ Wiped.super = "empty" /\ Wiped.avb = dev.avb /\ Wiped.raw = dev.raw
           /\ Broken \in Devices /\ Broken.super = "broken" /\ Broken.avb = dev.avb /\ Broken.raw = dev.raw
<1>1. PICK g \in [ToSet(FileOrder) -> Contents] : g = Gone
    BY GoneType
<1>2. /\ Wiped = [dev EXCEPT !.super = "empty", !.lps = {}, !.part = g]
      /\ Broken = [dev EXCEPT !.super = "broken", !.lps = {}, !.part = g]
    BY <1>1, Zenon DEF Wiped, Broken
<1> QED
    BY <1>2 DEF Devices

LEMMA LaidOutType ==
    ASSUME dev \in Devices, job \in Packages
    PROVE  /\ LaidOut \in Devices /\ LaidOut.super = "laid out" /\ LaidOut.lps = ToSet(job.dynamic)
           /\ LaidOut.avb = dev.avb /\ LaidOut.raw = dev.raw
<1>1. PICK g \in [ToSet(FileOrder) -> Contents] : g = Gone
    BY GoneType
<1>2. PICK n \in Nat : n = OpListOf(job).limit
    BY GroupSizeFits DEF OpListOf
<1>3. PICK l \in SUBSET ToSet(FileOrder) : l = ToSet(job.dynamic)
    BY DynamicNames
<1>4. LaidOut = [dev EXCEPT !.super = "laid out", !.limit = n, !.lps = l, !.part = g]
    BY <1>1, <1>2, <1>3, Zenon DEF LaidOut
<1> QED
    BY <1>3, <1>4 DEF Devices

LEMMA RawWritten ==
    ASSUME dev \in Devices, NEW t \in RawParts, NEW x \in Contents
    PROVE  LET d == [dev EXCEPT !.raw[t] = x]
           IN  /\ d \in Devices /\ d.raw[t] = x /\ (\A u \in RawParts : u # t => d.raw[u] = dev.raw[u])
               /\ d.super = dev.super /\ d.lps = dev.lps /\ d.avb = dev.avb /\ d.part = dev.part
<1> DEFINE r == [dev.raw EXCEPT ![t] = x]
<1>1. dev.raw \in [RawParts -> Contents]
    BY DEF Devices
<1>2. r \in [RawParts -> Contents] /\ r[t] = x /\ \A u \in RawParts : u # t => r[u] = dev.raw[u]
    BY <1>1
<1>3. [dev EXCEPT !.raw[t] = x] = [dev EXCEPT !.raw = r]
    BY DEF Devices
<1> HIDE DEF r
<1> QED
    BY <1>2, <1>3 DEF Devices

LEMMA PartWritten ==
    ASSUME dev \in Devices, NEW n \in ToSet(FileOrder), NEW x \in Contents
    PROVE  LET d == [dev EXCEPT !.part[n] = x]
           IN  /\ d \in Devices /\ d.part[n] = x
               /\ (\A u \in ToSet(FileOrder) : u # n => d.part[u] = dev.part[u])
               /\ d.super = dev.super /\ d.lps = dev.lps /\ d.avb = dev.avb /\ d.raw = dev.raw
<1> DEFINE r == [dev.part EXCEPT ![n] = x]
<1>1. dev.part \in [ToSet(FileOrder) -> Contents]
    BY DEF Devices
<1>2. /\ r \in [ToSet(FileOrder) -> Contents] /\ r[n] = x
      /\ \A u \in ToSet(FileOrder) : u # n => r[u] = dev.part[u]
    BY <1>1
<1>3. [dev EXCEPT !.part[n] = x] = [dev EXCEPT !.part = r]
    BY DEF Devices
<1> HIDE DEF r
<1> QED
    BY <1>2, <1>3 DEF Devices

-------------------------------------------------------------------------------
(* The invariant of the update is kept: what every step has in common.     *)

LEMMA UpdateFrame ==
    ASSUME UNCHANGED <<host, phone>>
    PROVE  /\ job' = job /\ out' = out /\ phone' = phone /\ pc' = pc
           /\ (ZipWhole' <=> ZipWhole) /\ (Installable' <=> Installable) /\ (Ended' <=> Ended)
           /\ (KnownDevice' <=> KnownDevice) /\ (KnownSlot' <=> KnownSlot)
           /\ \A c : RawTarget(c)' = RawTarget(c) /\ (Reached(c)' <=> Reached(c))
BY DEF host, ZipWhole, Installable, SizeGiven, Ended, KnownDevice, KnownSlot, RawTarget, Reached

Behind == {Script(job)[j] : j \in 1..(step - 1)}

LEMMA BehindFacts ==
    ASSUME Packing, Update, status = "running"
    PROVE  \A c \in Behind : Passed(c) /\ Rank(c.op) <= Rank(Now.op)
BY RunFacts DEF Behind

LEMMA BehindScript ==
    ASSUME Packing, Update, status = "running"
    PROVE  job \in Packages /\ Behind \subseteq ScriptSet(job)
<1>1. job \in Packages /\ \A j \in 1..(step - 1) : j \in 1..Len(Script(job))
    BY RunFacts
<1>2. \A j \in 1..Len(Script(job)) : Script(job)[j] \in ScriptSet(job)
    BY <1>1, ScriptCommand
<1> QED
    BY <1>1, <1>2 DEF Behind

LEMMA PassedKept ==
    ASSUME NEW c, Passed(c), UNCHANGED <<host, phone>>, faults' = faults \/ faults' # 0,
           c.op = "tables" => dev'.super = dev.super /\ dev'.lps = dev.lps,
           c.op = "flash" => dev'.part[c.name] \in {dev.part[c.name], out.build},
           c.op = "avb" => dev'.avb \in {dev.avb, "off"},
           (c.op = "raw" /\ AllWell') => dev'.raw[RawTarget(c)] \in {dev.raw[RawTarget(c)], out.build}
    PROVE  Passed(c)'
<1>1. /\ job' = job /\ out' = out /\ (ZipWhole' <=> ZipWhole)
      /\ (KnownDevice' <=> KnownDevice) /\ (KnownSlot' <=> KnownSlot)
      /\ RawTarget(c)' = RawTarget(c) /\ (Reached(c)' <=> Reached(c))
    BY UpdateFrame
<1>2. AllWell' => AllWell
    BY <1>1 DEF AllWell
<1> QED
    BY <1>1, <1>2 DEF Passed

LEMMA RawSame ==
    ASSUME RawHasCommand, UNCHANGED <<host, phone>>, dev'.raw = dev.raw
    PROVE  RawHasCommand'
BY UpdateFrame DEF RawHasCommand

LEMMA UpdateGoesOn ==
    ASSUME Packing, Update, status = "running", Now.op # "end", UNCHANGED <<host, phone, cuts>>,
           GoOn, dev' \in Devices, faults' \in 0..MaxFaults, Now.op = "device" => dev' = dev,
           BrokenHasCause', RawHasCommand', \A c \in Behind \union {Now} : Passed(c)'
    PROVE  Update'
<1>1. /\ job' = job /\ out' = out /\ phone' = phone /\ (Ended' <=> Ended)
      /\ (KnownDevice' <=> KnownDevice)
    BY UpdateFrame
<1>2. /\ step \in 1..Len(Script(job)) /\ Len(Script(job)) \in Nat /\ step # Len(Script(job))
      /\ ((job.devices # {} /\ Now.op # "device") => KnownDevice)
    BY RunFacts
<1>3. DeviceTypes'
    BY <1>1 DEF Update, DeviceTypes, GoOn
<1>4. PassedAll'
    <2>1. step' = step + 1 /\ status' = "running" /\ step' \in 1..Len(Script(job))
        <3>1. \A i \in Int, last \in Nat : (i \in 1..last /\ i # last) => i + 1 \in 1..last
            OBVIOUS
        <3>2. step \in Int
            BY <1>2
        <3>3. step + 1 \in 1..Len(Script(job))
            BY <1>2, <3>1, <3>2, Zenon
        <3> QED
            BY <3>3 DEF GoOn
    <2>2. ASSUME NEW j \in 1..step PROVE Passed(Script(job)[j])'
        <3>1. PICK c : c = Script(job)[j]
            OBVIOUS
        <3>2. c \in Behind \union {Now}
            <4>1. CASE j = step
                BY <3>1, <4>1 DEF Now
            <4>2. CASE j # step
                <5>1. j \in 1..(step - 1)
                    BY <1>2, <4>2
                <5> QED
                    BY <3>1, <5>1 DEF Behind
            <4> QED
                BY <4>1, <4>2
        <3>3. Passed(c)'
            BY <3>2
        <3>4. c = Script(job')[j]
            BY <1>1, <3>1
        <3> QED
            BY <3>3, <3>4 DEF Passed, RawTarget, Reached, AllWell
    <2> QED
        BY <1>1, <1>2, <2>1, <2>2 DEF PassedAll, Going
<1>5. OtherDeviceUntouched'
    BY <1>1, <1>2 DEF Update, OtherDeviceUntouched
<1>6. AbortHasCause'
    BY DEF AbortHasCause, GoOn
<1> QED
    BY <1>3, <1>4, <1>5, <1>6 DEF Update

LEMMA UpdateStops ==
    ASSUME Packing, Update, status = "running", UNCHANGED <<host, phone>>,
           status' \in {"lost", "aborted"}, dev' \in Devices,
           cuts' \in 0..MaxCuts, faults' \in 0..MaxFaults, Now.op = "device" => dev' = dev,
           BrokenHasCause', RawHasCommand',
           status' = "aborted" => faults' > 0 \/ ~ZipWhole \/ ~Installable
    PROVE  Update'
<1>1. /\ job' = job /\ out' = out /\ phone' = phone /\ (Ended' <=> Ended)
      /\ (KnownDevice' <=> KnownDevice) /\ (ZipWhole' <=> ZipWhole) /\ (Installable' <=> Installable)
    BY UpdateFrame
<1>2. (job.devices # {} /\ Now.op # "device") => KnownDevice
    BY RunFacts
<1>3. DeviceTypes'
    BY <1>1 DEF Update, DeviceTypes
<1>4. PassedAll'
    BY DEF PassedAll, Going
<1>5. OtherDeviceUntouched'
    BY <1>1, <1>2 DEF Update, OtherDeviceUntouched
<1>6. AbortHasCause'
    BY <1>1 DEF AbortHasCause
<1> QED
    BY <1>3, <1>4, <1>5, <1>6 DEF Update

-------------------------------------------------------------------------------
(* The invariant of the update is kept: each command.                      *)

LEMMA UpdateTypes ==
    ASSUME Packing, Update
    PROVE  /\ dev \in Devices /\ job \in Packages /\ out \in Archives
           /\ faults \in 0..MaxFaults /\ cuts \in 0..MaxCuts
           /\ BrokenHasCause /\ RawHasCommand
           /\ status # "idle" => out.build \in {"this", "earlier"} /\ out.build \in Contents
<1>1. job \in Packages /\ out \in Archives
    BY DEF Packing, HostTypes
<1>2. status # "idle" => out.build \in {"this", "earlier"}
    BY <1>1 DEF Update, DeviceTypes, Archives
<1> QED
    BY <1>1, <1>2 DEF Update, DeviceTypes, Contents

LEMMA OneMoreFault ==
    ASSUME faults \in 0..MaxFaults, faults < MaxFaults, faults' = faults + 1
    PROVE  faults' \in 0..MaxFaults /\ faults' # 0 /\ faults' > 0
BY InstallBoundsAssumption

(* A command that leaves the device alone and that nothing is owed to.     *)
LEMMA UpdateIdle ==
    ASSUME Packing, Update, status = "running", Now.op # "end", UNCHANGED <<host, phone, cuts>>,
           GoOn, dev' = dev, faults' \in 0..MaxFaults, faults' = faults \/ faults' # 0,
           BrokenHasCause', \A c : c = Now => Passed(c)'
    PROVE  Update'
<1>1. RawHasCommand' /\ dev' \in Devices
    BY UpdateTypes, RawSame
<1>2. \A c \in Behind : Passed(c)'
    BY BehindFacts, PassedKept
<1> QED
    BY <1>1, <1>2, UpdateGoesOn

LEMMA UpdateCheckDevice ==
    ASSUME Packing, Update, CheckDevice
    PROVE  Update'
<1>1. /\ status = "running" /\ Now.op = "device" /\ UNCHANGED <<host, phone, cuts>> /\ faults' = faults
      /\ IF KnownDevice THEN GoOn /\ dev' = dev ELSE Abort
    BY DEF CheckDevice, Running
<1>2. /\ dev \in Devices /\ faults \in 0..MaxFaults /\ cuts \in 0..MaxCuts
      /\ BrokenHasCause /\ RawHasCommand
    BY UpdateTypes
<1>3. dev' = dev
    BY <1>1 DEF Abort
<1>4. BrokenHasCause' /\ RawHasCommand'
    BY <1>1, <1>2, <1>3, RawSame DEF BrokenHasCause
<1>5. CASE KnownDevice
    <2>1. ASSUME NEW c, c = Now PROVE Passed(c)'
        BY <1>1, <1>5, <2>1, UpdateFrame DEF Passed
    <2> QED
        BY <1>1, <1>2, <1>3, <1>4, <1>5, <2>1, UpdateIdle
<1>6. CASE ~KnownDevice
    <2>1. ~Installable
        BY <1>1, <1>6, RunFacts DEF Installable
    <2> QED
        BY <1>1, <1>2, <1>3, <1>4, <1>6, <2>1, UpdateStops DEF Abort
<1> QED
    BY <1>5, <1>6

LEMMA UpdateCheckSlot ==
    ASSUME Packing, Update, CheckSlot
    PROVE  Update'
<1>1. /\ status = "running" /\ Now.op = "slot" /\ UNCHANGED <<host, phone, cuts>> /\ faults' = faults
      /\ IF KnownSlot THEN GoOn /\ dev' = dev ELSE Abort
    BY DEF CheckSlot, Running, KnownSlot
<1>2. /\ dev \in Devices /\ faults \in 0..MaxFaults /\ cuts \in 0..MaxCuts
      /\ BrokenHasCause /\ RawHasCommand
    BY UpdateTypes
<1>3. dev' = dev
    BY <1>1 DEF Abort
<1>4. BrokenHasCause' /\ RawHasCommand'
    BY <1>1, <1>2, <1>3, RawSame DEF BrokenHasCause
<1>5. CASE KnownSlot
    <2>1. ASSUME NEW c, c = Now PROVE Passed(c)'
        BY <1>1, <1>5, <2>1, UpdateFrame DEF Passed
    <2> QED
        BY <1>1, <1>2, <1>3, <1>4, <1>5, <2>1, UpdateIdle
<1>6. CASE ~KnownSlot
    <2>1. ~Installable
        BY <1>1, <1>6, RunFacts DEF Installable, KnownSlot
    <2> QED
        BY <1>1, <1>2, <1>3, <1>4, <1>6, <2>1, UpdateStops DEF Abort
<1> QED
    BY <1>5, <1>6

LEMMA UpdateUnmap ==
    ASSUME Packing, Update, Unmap
    PROVE  Update'
<1>1. /\ status = "running" /\ Now.op = "unmap" /\ UNCHANGED <<host, phone, cuts>> /\ faults' = faults
      /\ GoOn /\ dev' = dev
    BY DEF Unmap, Running, Does
<1>2. faults \in 0..MaxFaults /\ BrokenHasCause
    BY UpdateTypes
<1>3. BrokenHasCause'
    BY <1>1, <1>2 DEF BrokenHasCause
<1>4. ASSUME NEW c, c = Now PROVE Passed(c)'
    BY <1>1, <1>4 DEF Passed
<1> QED
    BY <1>1, <1>2, <1>3, <1>4, UpdateIdle

LEMMA UpdateDisableAvb ==
    ASSUME Packing, Update, DisableAvb
    PROVE  Update'
<1> DEFINE off == [dev EXCEPT !.avb = "off"]
<1>1. /\ status = "running" /\ Now.op = "avb" /\ UNCHANGED <<host, phone, cuts>> /\ GoOn
      /\ \/ faults' = faults /\ dev' = off
         \/ faults' = faults /\ dev' = dev /\ ~Whole(File("avbctl", "tool"))
         \/ faults < MaxFaults /\ faults' = faults + 1 /\ dev' = dev
    BY Zenon DEF DisableAvb, Running, Does, Faulty
<1>2. /\ dev \in Devices /\ faults \in 0..MaxFaults /\ BrokenHasCause /\ RawHasCommand
    BY UpdateTypes
<1>3. /\ off \in Devices /\ off.avb = "off" /\ off.super = dev.super /\ off.lps = dev.lps
      /\ off.raw = dev.raw /\ off.part = dev.part
    BY <1>2, AvbOff
<1> HIDE DEF off
<1>4. CASE faults' = faults /\ dev' = off
    <2>1. BrokenHasCause' /\ RawHasCommand'
        BY <1>1, <1>2, <1>3, <1>4, RawSame DEF BrokenHasCause
    <2>2. ASSUME NEW c \in Behind PROVE Passed(c)'
        BY <1>1, <1>3, <1>4, BehindFacts, PassedKept
    <2>3. ASSUME NEW c, c = Now PROVE Passed(c)'
        BY <1>1, <1>3, <1>4, <2>3 DEF Passed
    <2> QED
        BY <1>1, <1>2, <1>3, <1>4, <2>1, <2>2, <2>3, UpdateGoesOn
<1>5. CASE faults' = faults /\ dev' = dev /\ ~Whole(File("avbctl", "tool"))
    <2>1. ~ZipWhole
        BY <1>5, WholeFiles
    <2>2. ASSUME NEW c, c = Now PROVE Passed(c)'
        BY <1>1, <2>1, <2>2, UpdateFrame DEF Passed, AllWell
    <2>3. BrokenHasCause'
        BY <1>2, <1>5 DEF BrokenHasCause
    <2> QED
        BY <1>1, <1>2, <1>5, <2>2, <2>3, UpdateIdle
<1>6. CASE faults < MaxFaults /\ faults' = faults + 1 /\ dev' = dev
    <2>1. faults' \in 0..MaxFaults /\ faults' # 0 /\ faults' > 0
        BY <1>2, <1>6, OneMoreFault
    <2>2. ASSUME NEW c, c = Now PROVE Passed(c)'
        BY <1>1, <2>1, <2>2 DEF Passed, AllWell
    <2>3. BrokenHasCause'
        BY <2>1 DEF BrokenHasCause
    <2> QED
        BY <1>1, <1>6, <2>1, <2>2, <2>3, UpdateIdle
<1> QED
    BY <1>1, <1>4, <1>5, <1>6

LEMMA UpdateSuperwipe ==
    ASSUME Packing, Update, Superwipe
    PROVE  Update'
<1>1. /\ status = "running" /\ Now.op = "wipe" /\ UNCHANGED <<host, phone, cuts>> /\ GoOn
      /\ \/ faults' = faults /\ dev' \in {dev, Wiped}
         \/ faults < MaxFaults /\ faults' = faults + 1 /\ dev' \in {dev, Broken}
    BY DEF Superwipe, Running, Does, Faulty
<1>2. /\ dev \in Devices /\ faults \in 0..MaxFaults /\ BrokenHasCause /\ RawHasCommand
    BY UpdateTypes
<1>3. /\ Wiped \in Devices /\ Wiped.super = "empty" /\ Wiped.avb = dev.avb /\ Wiped.raw = dev.raw
      /\ Broken \in Devices /\ Broken.super = "broken" /\ Broken.avb = dev.avb /\ Broken.raw = dev.raw
    BY <1>2, WipedType
<1>4. /\ dev' \in Devices /\ dev'.avb = dev.avb /\ dev'.raw = dev.raw
      /\ faults' \in 0..MaxFaults /\ (faults' = faults \/ faults' # 0)
      /\ BrokenHasCause'
    <2>1. CASE faults' = faults /\ dev' \in {dev, Wiped}
        BY <1>2, <1>3, <2>1 DEF BrokenHasCause
    <2>2. CASE faults < MaxFaults /\ faults' = faults + 1 /\ dev' \in {dev, Broken}
        <3>1. faults' \in 0..MaxFaults /\ faults' # 0 /\ faults' > 0
            BY <1>2, <2>2, OneMoreFault
        <3> QED
            BY <1>2, <1>3, <2>2, <3>1 DEF BrokenHasCause
    <2> QED
        BY <1>1, <2>1, <2>2
<1>5. RawHasCommand'
    BY <1>1, <1>2, <1>4, RawSame
<1>6. ASSUME NEW c \in Behind \union {Now} PROVE Passed(c)'
    <2>1. CASE c = Now
        BY <1>1, <2>1 DEF Passed
    <2>2. CASE c \in Behind
        <3>1. Passed(c) /\ Rank(c.op) <= Rank(Now.op)
            BY <1>1, <2>2, BehindFacts
        <3>2. c.op # "tables" /\ c.op # "flash"
            BY <1>1, <3>1 DEF Rank
        <3> QED
            BY <1>1, <1>4, <3>1, <3>2, PassedKept
    <2> QED
        BY <2>1, <2>2
<1> QED
    BY <1>1, <1>4, <1>5, <1>6, UpdateGoesOn

(* A raw partition that the current command writes. *)
LEMMA RawOne ==
    ASSUME Packing, Update, status = "running", Now.op = "raw", UNCHANGED <<host, phone>>,
           NEW x \in Contents, dev' = [dev EXCEPT !.raw[RawTarget(Now)] = x]
    PROVE  RawHasCommand'
<1>1. /\ job \in Packages /\ RawTarget(Now) \in RawParts /\ Now \in ScriptSet(job)
      /\ (Now.slot = "active" => KnownSlot)
    BY RunFacts
<1>2. dev \in Devices /\ RawHasCommand
    BY UpdateTypes
<1>3. \A u \in RawParts : u # RawTarget(Now) => dev'.raw[u] = dev.raw[u]
    BY <1>1, <1>2, RawWritten
<1>4. Now \in ToSet(Script(job))
    BY <1>1, ScriptSteps
<1>5. ASSUME NEW t \in RawParts, dev'.raw[t] # "old"
      PROVE  \E c \in ToSet(Script(job)) :
                 c.op = "raw" /\ RawTarget(c) = t /\ (c.slot = "active" => KnownSlot)
    <2>1. CASE t = RawTarget(Now)
        BY <1>1, <1>4, <2>1
    <2>2. CASE t # RawTarget(Now)
        <3>1. dev.raw[t] # "old"
            BY <1>3, <1>5, <2>2
        <3> QED
            BY <1>2, <3>1 DEF RawHasCommand
    <2> QED
        BY <2>1, <2>2
<1> QED
    BY <1>5, UpdateFrame DEF RawHasCommand

LEMMA UpdateFlashRaw ==
    ASSUME Packing, Update, FlashRaw
    PROVE  Update'
<1> DEFINE wrote(x) == [dev EXCEPT !.raw[RawTarget(Now)] = x]
           file == File(Now.name, "raw")
<1>1. /\ status = "running" /\ Now.op = "raw" /\ UNCHANGED <<host, phone, cuts>> /\ GoOn
      /\ \/ /\ faults' = faults /\ Has(file) /\ Reached(Now)
            /\ dev' = wrote(RawContent(Now.name))
         \/ faults' = faults /\ ~(Has(file) /\ Reached(Now)) /\ dev' = dev
         \/ faults < MaxFaults /\ faults' = faults + 1 /\ dev' \in {dev, wrote("junk")}
    BY DEF FlashRaw, RawJunk, Running, Does, Faulty
<1>2. /\ dev \in Devices /\ faults \in 0..MaxFaults /\ BrokenHasCause /\ RawHasCommand
      /\ out.build \in Contents
    BY <1>1, UpdateTypes
<1>3. /\ job \in Packages /\ RawTarget(Now) \in RawParts
      /\ Raw(job, Now.name) /\ Now.name \in ToSet(FileOrder)
    BY <1>1, RunFacts
<1>4. ZipWhole => Has(file) /\ RawContent(Now.name) = out.build
    BY <1>3, WholeFiles DEF RawContent
<1>5. RawContent(Now.name) \in Contents /\ "junk" \in Contents
    BY <1>2 DEF RawContent, Contents
<1>6. ASSUME NEW x \in Contents
      PROVE  /\ wrote(x) \in Devices /\ wrote(x).raw[RawTarget(Now)] = x
             /\ \A u \in RawParts : u # RawTarget(Now) => wrote(x).raw[u] = dev.raw[u]
             /\ wrote(x).super = dev.super /\ wrote(x).lps = dev.lps
             /\ wrote(x).avb = dev.avb /\ wrote(x).part = dev.part
    BY <1>2, <1>3, RawWritten
<1>7. CASE faults' = faults /\ Has(file) /\ dev' = wrote(RawContent(Now.name))
    <2>1. PICK x \in Contents : x = RawContent(Now.name)
        BY <1>5
    <2>2. RawHasCommand'
        BY <1>1, <1>7, <2>1, RawOne
    <2>3. BrokenHasCause'
        BY <1>2, <1>6, <1>7, <2>1 DEF BrokenHasCause
    <2>4. ASSUME NEW c \in Behind PROVE Passed(c)'
        <3>1. Passed(c)
            BY <1>1, BehindFacts
        <3>2. ASSUME c.op = "raw", AllWell'
              PROVE  dev'.raw[RawTarget(c)] \in {dev.raw[RawTarget(c)], out.build}
            <4>1. x = out.build
                BY <1>1, <1>4, <2>1, <3>2, UpdateFrame DEF AllWell
            <4>2. RawTarget(c) \in RawParts
                <5>1. job \in Packages /\ c \in ScriptSet(job)
                    BY <1>1, BehindScript
                <5>2. c.slot = "active" => KnownSlot
                    BY <3>1, <3>2 DEF Passed
                <5> QED
                    BY <3>2, <5>1, <5>2, TargetKnown
            <4> QED
                BY <1>6, <1>7, <2>1, <4>1, <4>2
        <3> QED
            BY <1>1, <1>6, <1>7, <2>1, <3>1, <3>2, PassedKept
    <2>5. ASSUME NEW c, c = Now PROVE Passed(c)'
        <3>1. RawTarget(c)' = RawTarget(Now) /\ out' = out /\ (ZipWhole' <=> ZipWhole)
            BY <1>1, <2>5, UpdateFrame
        <3>2. Now.slot = "active" => KnownSlot
            BY <1>1, RunFacts
        <3>3. KnownSlot' <=> KnownSlot
            BY <1>1, UpdateFrame
        <3> QED
            BY <1>1, <1>4, <1>6, <1>7, <2>1, <2>5, <3>1, <3>2, <3>3 DEF Passed, AllWell
    <2> QED
        BY <1>1, <1>2, <1>6, <1>7, <2>1, <2>2, <2>3, <2>4, <2>5, UpdateGoesOn
<1>8. CASE faults' = faults /\ ~(Has(file) /\ Reached(Now)) /\ dev' = dev
    <2>1. ~ZipWhole \/ ~Reached(Now)
        BY <1>4, <1>8
    <2>2. ASSUME NEW c, c = Now PROVE Passed(c)'
        BY <1>1, <2>1, <2>2, UpdateFrame, RunFacts DEF Passed, AllWell
    <2>3. BrokenHasCause'
        BY <1>2, <1>8 DEF BrokenHasCause
    <2> QED
        BY <1>1, <1>2, <1>8, <2>2, <2>3, UpdateIdle
<1>9. CASE faults < MaxFaults /\ faults' = faults + 1 /\ dev' \in {dev, wrote("junk")}
    <2>1. faults' \in 0..MaxFaults /\ faults' # 0 /\ faults' > 0
        BY <1>2, <1>9, OneMoreFault
    <2>2. RawHasCommand'
        BY <1>1, <1>2, <1>5, <1>9, RawOne, RawSame
    <2>3. /\ dev' \in Devices /\ dev'.super = dev.super /\ dev'.lps = dev.lps
          /\ dev'.avb = dev.avb /\ dev'.part = dev.part
        <3> HIDE DEF wrote
        <3> QED
            BY <1>2, <1>5, <1>6, <1>9
    <2>4. BrokenHasCause'
        BY <2>1 DEF BrokenHasCause
    <2>5. ~AllWell'
        BY <2>1 DEF AllWell
    <2>6. ASSUME NEW c \in Behind PROVE Passed(c)'
        BY <1>1, <2>1, <2>3, <2>5, BehindFacts, PassedKept
    <2>7. ASSUME NEW c, c = Now PROVE Passed(c)'
        BY <1>1, <2>5, <2>7, UpdateFrame, RunFacts DEF Passed
    <2> QED
        BY <1>1, <2>1, <2>2, <2>3, <2>4, <2>6, <2>7, UpdateGoesOn
<1> QED
    BY <1>1, <1>7, <1>8, <1>9

LEMMA UpdateUpdateTables ==
    ASSUME Packing, Update, UpdateTables
    PROVE  Update'
<1> DEFINE good == /\ Whole(File(OpList, "ops")) /\ dev.super # "broken"
                   /\ AddedOnce(OpListOf(job)) /\ Fits(OpListOf(job))
<1>1. /\ status = "running" /\ Now.op = "tables" /\ UNCHANGED <<host, phone, cuts>>
      /\ \/ faults' = faults /\ good /\ GoOn /\ dev' = LaidOut
         \/ faults' = faults /\ ~good /\ status' = "aborted" /\ dev' = dev
         \/ faults < MaxFaults /\ faults' = faults + 1 /\ status' = "aborted" /\ dev' = dev
    BY DEF UpdateTables, Running, Faulty, Abort
<1>2. /\ dev \in Devices /\ faults \in 0..MaxFaults /\ cuts \in 0..MaxCuts
      /\ BrokenHasCause /\ RawHasCommand /\ job \in Packages
    BY UpdateTypes
<1>3. /\ LaidOut \in Devices /\ LaidOut.super = "laid out" /\ LaidOut.lps = ToSet(job.dynamic)
      /\ LaidOut.avb = dev.avb /\ LaidOut.raw = dev.raw
    BY <1>2, LaidOutType
<1>4. CASE faults' = faults /\ good /\ GoOn /\ dev' = LaidOut
    <2>1. BrokenHasCause' /\ RawHasCommand'
        BY <1>1, <1>2, <1>3, <1>4, RawSame DEF BrokenHasCause
    <2>2. ASSUME NEW c \in Behind PROVE Passed(c)'
        <3>1. Passed(c) /\ Rank(c.op) <= Rank(Now.op)
            BY <1>1, BehindFacts
        <3>2. c.op # "flash"
            BY <1>1, <3>1 DEF Rank
        <3>3. CASE c.op = "tables"
            BY <1>1, <1>3, <1>4, <3>3, UpdateFrame DEF Passed
        <3>4. CASE c.op # "tables"
            BY <1>1, <1>3, <1>4, <3>1, <3>2, <3>4, PassedKept
        <3> QED
            BY <3>3, <3>4
    <2>3. ASSUME NEW c, c = Now PROVE Passed(c)'
        BY <1>1, <1>3, <1>4, <2>3, UpdateFrame DEF Passed
    <2> QED
        BY <1>1, <1>2, <1>3, <1>4, <2>1, <2>2, <2>3, UpdateGoesOn
<1>5. CASE faults' = faults /\ ~good /\ status' = "aborted" /\ dev' = dev
    <2>1. BrokenHasCause' /\ RawHasCommand'
        BY <1>1, <1>2, <1>5, RawSame DEF BrokenHasCause
    <2>2. faults > 0 \/ ~ZipWhole \/ ~Installable
        BY <1>2, <1>5, WholeFiles, InstallableFits DEF BrokenHasCause
    <2> QED
        BY <1>1, <1>2, <1>5, <2>1, <2>2, UpdateStops
<1>6. CASE faults < MaxFaults /\ faults' = faults + 1 /\ status' = "aborted" /\ dev' = dev
    <2>1. faults' \in 0..MaxFaults /\ faults' > 0
        BY <1>2, <1>6, OneMoreFault
    <2>2. BrokenHasCause' /\ RawHasCommand'
        BY <1>1, <1>2, <1>6, <2>1, RawSame DEF BrokenHasCause
    <2> QED
        BY <1>1, <1>2, <1>6, <2>1, <2>2, UpdateStops
<1> QED
    BY <1>1, <1>4, <1>5, <1>6

LEMMA UpdateFlashDynamic ==
    ASSUME Packing, Update, FlashDynamic
    PROVE  Update'
<1> DEFINE wrote(x) == [dev EXCEPT !.part[Now.name] = x]
           ready == Now.name \in dev.lps /\ Transfer(Now.name)
<1>1. /\ status = "running" /\ Now.op = "flash" /\ UNCHANGED <<host, phone, cuts>>
      /\ \/ faults' = faults /\ GoOn /\ dev' = wrote(out.build)
         \/ faults' = faults /\ ~ready /\ status' = "aborted" /\ dev' = dev
         \/ faults < MaxFaults /\ faults' = faults + 1 /\ status' = "aborted" /\ dev' = wrote("junk")
    BY DEF FlashDynamic, Running, Faulty, Abort, Does
<1>2. /\ dev \in Devices /\ faults \in 0..MaxFaults /\ cuts \in 0..MaxCuts
      /\ BrokenHasCause /\ RawHasCommand /\ job \in Packages /\ out.build \in Contents
    BY <1>1, UpdateTypes
<1>3. /\ Now.name \in ToSet(job.dynamic) /\ Now.name \in ToSet(FileOrder)
      /\ dev.super = "laid out" /\ dev.lps = ToSet(job.dynamic)
    BY <1>1, <1>2, RunFacts, DynamicNames
<1>4. ASSUME NEW x \in Contents
      PROVE  /\ wrote(x) \in Devices /\ wrote(x).part[Now.name] = x
             /\ \A u \in ToSet(FileOrder) : u # Now.name => wrote(x).part[u] = dev.part[u]
             /\ wrote(x).super = dev.super /\ wrote(x).lps = dev.lps
             /\ wrote(x).avb = dev.avb /\ wrote(x).raw = dev.raw
    BY <1>2, <1>3, PartWritten
<1>5. "junk" \in Contents
    BY DEF Contents
<1> HIDE DEF wrote
<1>6. CASE faults' = faults /\ GoOn /\ dev' = wrote(out.build)
    <2>1. BrokenHasCause' /\ RawHasCommand'
        BY <1>1, <1>2, <1>4, <1>6, RawSame DEF BrokenHasCause
    <2>2. ASSUME NEW c \in Behind PROVE Passed(c)'
        <3>1. Passed(c) /\ c \in ScriptSet(job)
            BY <1>1, BehindFacts, BehindScript
        <3>2. c.op = "flash" => dev'.part[c.name] \in {dev.part[c.name], out.build}
            <4>1. c.op = "flash" => c.name \in ToSet(FileOrder)
                <5>1. PICK k \in 1..Len(Script(job)) : Script(job)[k] = c
                    BY <1>2, <3>1, ScriptIndex
                <5> QED
                    BY <1>2, <5>1, ScriptCommand, DynamicNames
            <4> QED
                BY <1>2, <1>4, <1>6, <4>1
        <3>3. /\ dev'.super = dev.super /\ dev'.lps = dev.lps /\ dev'.avb = dev.avb
              /\ dev'.raw = dev.raw
            BY <1>2, <1>4, <1>6
        <3> QED
            BY <1>1, <1>6, <3>1, <3>2, <3>3, PassedKept
    <2>3. ASSUME NEW c, c = Now PROVE Passed(c)'
        BY <1>1, <1>2, <1>4, <1>6, <2>3, UpdateFrame DEF Passed
    <2>4. dev' \in Devices
        BY <1>2, <1>4, <1>6
    <2> QED
        BY <1>1, <1>2, <1>6, <2>1, <2>2, <2>3, <2>4, UpdateGoesOn
<1>7. CASE faults' = faults /\ ~ready /\ status' = "aborted" /\ dev' = dev
    <2>1. BrokenHasCause' /\ RawHasCommand'
        BY <1>1, <1>2, <1>7, RawSame DEF BrokenHasCause
    <2>2. ~ZipWhole
        BY <1>3, <1>7, WholeFiles
    <2> QED
        BY <1>1, <1>2, <1>7, <2>1, <2>2, UpdateStops
<1>8. CASE faults < MaxFaults /\ faults' = faults + 1 /\ status' = "aborted" /\ dev' = wrote("junk")
    <2>1. faults' \in 0..MaxFaults /\ faults' > 0
        BY <1>2, <1>8, OneMoreFault
    <2>2. dev' \in Devices /\ dev'.raw = dev.raw
        BY <1>4, <1>5, <1>8
    <2>3. BrokenHasCause' /\ RawHasCommand'
        BY <1>1, <1>2, <2>1, <2>2, RawSame DEF BrokenHasCause
    <2> QED
        BY <1>1, <1>2, <1>8, <2>1, <2>2, <2>3, UpdateStops
<1> QED
    BY <1>1, <1>6, <1>7, <1>8

LEMMA UpdateFinish ==
    ASSUME Packing, Update, Finish
    PROVE  Update'
<1>1. /\ status = "running" /\ Now.op = "end" /\ UNCHANGED <<host, phone, cuts>>
      /\ status' = "finished" /\ dev' = dev /\ step' = step /\ faults' = faults
    BY DEF Finish, Running
<1>2. /\ step \in 1..Len(Script(job)) /\ step = Len(Script(job))
      /\ \A j \in 1..(step - 1) : Passed(Script(job)[j])
    BY <1>1, RunFacts
<1>3. /\ job' = job /\ out' = out /\ phone' = phone /\ (Ended' <=> Ended)
      /\ (KnownDevice' <=> KnownDevice) /\ (KnownSlot' <=> KnownSlot) /\ (ZipWhole' <=> ZipWhole)
      /\ \A c : RawTarget(c)' = RawTarget(c) /\ (Reached(c)' <=> Reached(c))
    BY <1>1, UpdateFrame
<1>4. ASSUME NEW j \in 1..(step - 1) PROVE Passed(Script(job)[j])'
    <2>1. PICK c : c = Script(job)[j]
        OBVIOUS
    <2>2. Passed(c)'
        BY <1>1, <1>2, <1>3, <2>1 DEF Passed, AllWell
    <2>3. c = Script(job')[j]
        BY <1>3, <2>1
    <2> QED
        BY <2>2, <2>3 DEF Passed, RawTarget, Reached, AllWell
<1>5. PassedAll'
    BY <1>1, <1>2, <1>3, <1>4 DEF PassedAll, Going
<1>6. RawHasCommand' /\ BrokenHasCause'
    BY <1>1, RawSame DEF Update, BrokenHasCause
<1>7. DeviceTypes' /\ OtherDeviceUntouched' /\ AbortHasCause'
    BY <1>1, <1>3 DEF Update, DeviceTypes, OtherDeviceUntouched, AbortHasCause
<1> QED
    BY <1>5, <1>6, <1>7 DEF Update

LEMMA UpdatePowerCut ==
    ASSUME Packing, Update, PowerCut
    PROVE  Update'
<1> DEFINE off == [dev EXCEPT !.avb = "off"]
           junkRaw == [dev EXCEPT !.raw[RawTarget(Now)] = "junk"]
           junkPart == [dev EXCEPT !.part[Now.name] = "junk"]
<1>1. /\ status = "running" /\ status' = "lost" /\ UNCHANGED <<host, phone>> /\ faults' = faults
      /\ cuts < MaxCuts /\ cuts' = cuts + 1
      /\ dev' \in CutOff
    BY DEF PowerCut
<1>2. \/ dev' = dev
      \/ Now.op = "avb" /\ dev' = off
      \/ Now.op = "wipe" /\ dev' = Wiped
      \/ Now.op = "raw" /\ dev' = junkRaw
      \/ Now.op = "tables" /\ dev' = LaidOut
      \/ Now.op = "flash" /\ dev' = junkPart
    BY <1>1 DEF CutOff, RawJunk
<1>3. /\ dev \in Devices /\ faults \in 0..MaxFaults /\ cuts \in 0..MaxCuts
      /\ BrokenHasCause /\ RawHasCommand /\ job \in Packages
    BY UpdateTypes
<1>4. cuts' \in 0..MaxCuts
    BY <1>1, <1>3, InstallBoundsAssumption
<1>5. "junk" \in Contents
    BY DEF Contents
<1>6. /\ dev' \in Devices /\ (Now.op = "device" => dev' = dev)
      /\ dev'.super = "broken" => dev.super = "broken"
      /\ Now.op # "raw" => dev'.raw = dev.raw
    <2>1. CASE dev' = dev
        BY <1>3, <2>1
    <2>2. CASE Now.op = "avb" /\ dev' = off
        BY <1>3, <2>2, AvbOff
    <2>3. CASE Now.op = "wipe" /\ dev' = Wiped
        BY <1>3, <2>3, WipedType
    <2>4. CASE Now.op = "raw" /\ dev' = junkRaw
        <3>1. RawTarget(Now) \in RawParts
            BY <1>1, <2>4, RunFacts
        <3> QED
            BY <1>3, <1>5, <2>4, <3>1, RawWritten
    <2>5. CASE Now.op = "tables" /\ dev' = LaidOut
        BY <1>3, <2>5, LaidOutType
    <2>6. CASE Now.op = "flash" /\ dev' = junkPart
        <3>1. Now.name \in ToSet(FileOrder)
            BY <1>1, <1>3, <2>6, RunFacts, DynamicNames
        <3> QED
            BY <1>3, <1>5, <2>6, <3>1, PartWritten
    <2> QED
        BY <1>2, <2>1, <2>2, <2>3, <2>4, <2>5, <2>6
<1>7. RawHasCommand'
    BY <1>1, <1>2, <1>3, <1>5, <1>6, RawSame, RawOne
<1>8. BrokenHasCause'
    BY <1>1, <1>3, <1>6 DEF BrokenHasCause
<1> QED
    BY <1>1, <1>3, <1>4, <1>6, <1>7, <1>8, UpdateStops

-------------------------------------------------------------------------------
(* The invariant of the update.                                            *)

LEMMA UpdateInit == Init => Update
<1> SUFFICES ASSUME Init PROVE Update
    OBVIOUS
<1>1. dev = Fresh /\ status = "idle" /\ cuts = 0 /\ faults = 0
    BY DEF Init
<1>2. Fresh \in Devices /\ Fresh.super = "old" /\ \A t \in RawParts : Fresh.raw[t] = "old"
    BY DEF Fresh, Devices, RawParts, Contents
<1>3. DeviceTypes
    BY <1>1, <1>2, InstallBoundsAssumption DEF DeviceTypes
<1> QED
    BY <1>1, <1>2, <1>3
       DEF Update, PassedAll, Going, BrokenHasCause, RawHasCommand, OtherDeviceUntouched, AbortHasCause

LEMMA UpdateSame ==
    ASSUME Update, UNCHANGED <<host, phone, device>>
    PROVE  Update'
<1>1. /\ job' = job /\ out' = out /\ phone' = phone /\ (Ended' <=> Ended)
      /\ (KnownDevice' <=> KnownDevice) /\ (KnownSlot' <=> KnownSlot) /\ (ZipWhole' <=> ZipWhole)
      /\ (Installable' <=> Installable)
      /\ \A c : RawTarget(c)' = RawTarget(c) /\ (Reached(c)' <=> Reached(c))
    BY UpdateFrame
<1>2. dev' = dev /\ status' = status /\ step' = step /\ cuts' = cuts /\ faults' = faults
    BY DEF device
<1>3. DeviceTypes' /\ BrokenHasCause' /\ OtherDeviceUntouched' /\ AbortHasCause'
    BY <1>1, <1>2
       DEF Update, DeviceTypes, BrokenHasCause, OtherDeviceUntouched, AbortHasCause
<1>4. PassedAll'
    BY <1>1, <1>2 DEF Update, PassedAll, Going, Passed, AllWell, ZipWhole, KnownDevice, KnownSlot, RawTarget,
                       Reached
<1>5. RawHasCommand'
    BY <1>1, <1>2, RawSame DEF Update
<1> QED
    BY <1>3, <1>4, <1>5 DEF Update

(* The package is not flashed before the build has ended. *)
LEMMA UpdateBuild ==
    ASSUME Update, Build
    PROVE  Update'
<1>1. ~Ended /\ UNCHANGED <<job, phone, device>>
    BY DEF Build, OpenZip, BeginEntry, WriteChunk, EndEntry, CloseZip, Fails, Killed, OnHost, Opened, Ended
<1>2. /\ job' = job /\ phone' = phone /\ dev' = dev /\ status' = status
      /\ cuts' = cuts /\ faults' = faults
    BY <1>1 DEF device
<1>3. status = "idle"
    BY <1>1 DEF Update, DeviceTypes
<1>4. DeviceTypes' /\ PassedAll' /\ AbortHasCause' /\ BrokenHasCause'
    BY <1>2, <1>3 DEF Update, DeviceTypes, PassedAll, Going, AbortHasCause, BrokenHasCause
<1>5. OtherDeviceUntouched' /\ RawHasCommand'
    BY <1>2 DEF Update, OtherDeviceUntouched, KnownDevice, RawHasCommand, RawTarget, KnownSlot
<1> QED
    BY <1>4, <1>5 DEF Update

(* A file that says whose package it is can only be run if it is one. *)
LEMMA RunnableIsOne ==
    ASSUME Packing, Runnable
    PROVE  out.build # "none"
<1>1. out.closed
    BY DEF Runnable
<1>2. CASE entry = 0
    <2>1. out = NoArchive \/ out = Complete(job, "earlier")
        BY <1>2 DEF Packing, Untouched
    <2>2. ~NoArchive.closed /\ Complete(job, "earlier").build = "earlier"
        BY DEF NoArchive, Complete, Archive
    <2> QED
        BY <1>1, <2>1, <2>2
<1>3. CASE entry # 0
    BY <1>3 DEF Packing, Archived
<1> QED
    BY <1>2, <1>3

LEMMA UpdateFlash ==
    ASSUME Packing, Update, Flash
    PROVE  Update'
<1>1. /\ Ended /\ Runnable /\ status' = "running" /\ step' = 1
      /\ UNCHANGED <<host, phone>> /\ dev' = dev /\ cuts' = cuts /\ faults' = faults
    BY DEF Flash
<1>2. /\ job' = job /\ out' = out /\ phone' = phone /\ (Ended' <=> Ended)
      /\ (KnownDevice' <=> KnownDevice)
    BY <1>1, UpdateFrame
<1>3. out.build # "none"
    BY <1>1, RunnableIsOne
<1>4. Len(Script(job)) \in Nat \ {0}
    BY PackingFacts, ScriptSteps
<1>5. PassedAll'
    BY <1>1, <1>2, <1>4 DEF PassedAll, Going
<1>6. RawHasCommand'
    BY <1>1, RawSame DEF Update
<1>7. DeviceTypes' /\ BrokenHasCause' /\ OtherDeviceUntouched' /\ AbortHasCause'
    BY <1>1, <1>2, <1>3
       DEF Update, DeviceTypes, BrokenHasCause, OtherDeviceUntouched, AbortHasCause
<1> QED
    BY <1>5, <1>6, <1>7 DEF Update

LEMMA UpdateStep == Packing /\ Update /\ [Next]_vars => Update'
<1> SUFFICES ASSUME Packing, Update, [Next]_vars PROVE Update'
    OBVIOUS
<1>1. CASE Build
    BY <1>1, UpdateBuild
<1>2. CASE Flash
    BY <1>2, UpdateFlash
<1>3. CASE RunScript
    BY <1>3, UpdateCheckDevice, UpdateDisableAvb, UpdateSuperwipe, UpdateCheckSlot, UpdateFlashRaw,
       UpdateUnmap, UpdateUpdateTables, UpdateFlashDynamic, UpdateFinish
       DEF RunScript
<1>4. CASE PowerCut
    BY <1>4, UpdatePowerCut
<1>5. CASE Over \/ UNCHANGED vars
    BY <1>5, UpdateSame DEF Over, vars
<1> QED
    BY <1>1, <1>2, <1>3, <1>4, <1>5 DEF Next

LEMMA UpdateAlways == Spec => []Update
<1>1. Init => Update
    BY UpdateInit
<1>2. Packing /\ Update /\ [Next]_vars => Update'
    BY UpdateStep
<1> QED
    BY <1>1, <1>2, PackingAlways, PTL DEF Spec

-------------------------------------------------------------------------------
(* What is guaranteed.                                                     *)

(* Everything has its type: the build and the archive, the display that    *)
(* never says more than there is, and the device.                          *)
THEOREM InstallTyping == Spec => []TypeOK
<1>1. Packing /\ Update => TypeOK
    <2> SUFFICES ASSUME Packing, Update PROVE TypeOK
        OBVIOUS
    <2> DEFINE F == Files(job)
               f == [i \in DOMAIN F |-> Chunks(F[i])]
    <2>1. /\ F \in Seq(FileSet) /\ Len(F) \in Nat \ {0} /\ job \in Packages
          /\ out.entries \in Seq(Entries) /\ Len(out.entries) \in Nat /\ entry \in Nat
          /\ \A i \in 1..Len(F) : F[i] \in FileSet /\ Chunks(F[i]) \in 0..2
        BY PackingFacts
    <2>2. f \in Seq(Nat) /\ Len(f) = Len(F) /\ \A i \in 1..Len(F) : f[i] = Chunks(F[i])
        BY <2>1
    <2>3. Total(f) = TotalChunks(job) /\ TotalChunks(job) \in Nat
        BY <2>2, TotalNat DEF TotalChunks
    <2> HIDE DEF f
    <2>4. /\ Len(out.entries) <= Len(F) /\ out.build \in {"none", "this", "earlier"}
          /\ \A i \in 1..Len(out.entries) :
                 out.entries[i].file = F[i] /\ out.entries[i].chunks <= Chunks(F[i])
        <3>1. CASE entry # 0
            BY <3>1 DEF Packing, HostTypes, Archives, Archived
        <3>2. CASE entry = 0
            <4>1. out = NoArchive \/ out = Complete(job, "earlier")
                BY <3>2 DEF Packing, Untouched
            <4>2. CASE out = NoArchive
                BY <2>1, <4>2 DEF NoArchive, Archive
            <4>3. CASE out = Complete(job, "earlier")
                <5>1. out.build = "earlier"
                    BY <4>3 DEF Complete, Archive
                <5> QED
                    BY <2>1, <4>3, <5>1, CompleteType
            <4> QED
                BY <4>1, <4>2, <4>3
        <3> QED
            BY <3>1, <3>2
    <2>5. \A i \in DOMAIN out.entries : out.entries[i].chunks \in 0..Chunks(out.entries[i].file)
        <3>1. DOMAIN out.entries = 1..Len(out.entries)
            BY <2>1
        <3>2. \A i \in 1..Len(out.entries) : out.entries[i].chunks \in Nat
            <4>1. \A i \in 1..Len(out.entries) : out.entries[i] \in Entries
                BY <2>1, ElementOfSeq
            <4> QED
                BY <4>1 DEF Entries
        <3>3. \A i \in 1..Len(out.entries) : i \in 1..Len(F)
            BY <2>1, <2>4
        <3> QED
            BY <2>1, <2>4, <3>1, <3>2, <3>3
    <2>6. shown.files \in 0..Len(F) /\ shown.bytes \in 0..TotalChunks(job)
        <3>1. shown.files \in 0..Len(F) /\ shown.bytes \in Nat
            BY DEF Packing, HostTypes
        <3>2. CASE entry = 0
            BY <2>3, <3>1, <3>2 DEF Packing, Untouched
        <3>3. CASE entry # 0
            <4> DEFINE a == ChunkSeq(out.entries)
            <4>1. shown.bytes = Total(a)
                BY <3>3, Zenon DEF Packing, Archived, PackedChunks, ChunkSeq
            <4>2. /\ a \in Seq(Nat) /\ Len(a) = Len(out.entries)
                  /\ \A i \in 1..Len(out.entries) : a[i] = out.entries[i].chunks
                BY <2>1, ChunkSeqType
            <4> HIDE DEF a
            <4>3. Len(a) <= Len(f) /\ \A i \in 1..Len(a) : a[i] <= f[i]
                BY <2>1, <2>2, <2>4, <4>2
            <4>4. Total(a) <= Total(f)
                BY <2>2, <4>2, <4>3, TotalOrdered
            <4> QED
                BY <2>3, <3>1, <4>1, <4>4
        <3> QED
            BY <3>2, <3>3
    <2>7. dev \in Devices
        BY UpdateTypes
    <2>8. /\ dev.super \in {"old", "broken", "empty", "laid out"} /\ dev.avb \in {"on", "off"}
          /\ \A c \in Range(dev.raw) \union Range(dev.part) : c \in Contents
        BY <2>7, DeviceFields DEF Range
    <2>9. /\ pc \in {"zip", "next", "write", "built", "failed", "killed"}
          /\ entry \in 0..(Len(F) + 1)
        BY DEF Packing, HostTypes
    <2>10. /\ status \in {"idle", "running", "lost", "aborted", "finished"}
           /\ cuts \in 0..MaxCuts /\ faults \in 0..MaxFaults
        BY DEF Update, DeviceTypes
    <2> QED
        BY <2>4, <2>5, <2>6, <2>8, <2>9, <2>10 DEF TypeOK, Contents
<1> QED
    BY <1>1, PackingAlways, UpdateAlways, PTL

(* The assertion on the device comes before everything else: on a device   *)
(* the package is not for, no command of the script is carried out.        *)
THEOREM OthersAreUntouched == Spec => []OtherDeviceUntouched
<1>1. Update => OtherDeviceUntouched
    BY DEF Update
<1> QED
    BY <1>1, UpdateAlways, PTL

(* The update ends early for one of the causes there are: the script asks  *)
(* nothing of the device or of the package that is not given otherwise.    *)
THEOREM AbortsHaveACause == Spec => []AbortHasCause
<1>1. Update => AbortHasCause
    BY DEF Update
<1> QED
    BY <1>1, UpdateAlways, PTL

(* A raw image for the active slot never gets to the other slot, nor to a  *)
(* slot that is not known.                                                 *)
THEOREM OtherSlotIsKept == Spec => []InactiveSlotKept
<1>1. Packing /\ Update => InactiveSlotKept
    <2> SUFFICES ASSUME Packing, Update, NEW i \in DOMAIN job.raw, job.raw[i].policy = "active",
                        NEW s \in {"_a", "_b", ""}, dev.raw[<<job.raw[i].name, s>>] # "old"
                 PROVE  s = phone.slot /\ s # ""
        BY DEF InactiveSlotKept
    <2>1. job \in Packages /\ RawHasCommand
        BY UpdateTypes
    <2>2. job.raw[i] \in RawImages
        BY <2>1, RawTypes
    <2>3. <<job.raw[i].name, s>> \in RawParts
        BY <2>2 DEF RawImages, RawParts
    <2>4. PICK c \in ToSet(Script(job)) :
              /\ c.op = "raw" /\ RawTarget(c) = <<job.raw[i].name, s>>
              /\ (c.slot = "active" => KnownSlot)
        BY <2>1, <2>3 DEF RawHasCommand
    <2>5. c \in ScriptSet(job)
        BY <2>1, ScriptSteps
    <2>6. PICK k \in 1..Len(Script(job)) : Script(job)[k] = c
        BY <2>1, <2>5, ScriptIndex
    <2>7. PICK j \in DOMAIN job.raw : c \in RawSet(job.raw[j])
        BY <2>1, <2>4, <2>6, ScriptCommand
    <2>8. c.name = job.raw[j].name /\ (c.slot = "active" <=> job.raw[j].policy = "active")
        BY <2>1, <2>7, RawTypes, RawCommand
    <2>9. c.name = job.raw[i].name
        BY <2>4 DEF RawTarget
    <2>10. j = i
        BY <2>1, <2>8, <2>9, PackagesAssumption
    <2>11. c.slot = "active"
        BY <2>8, <2>10
    <2>12. s = phone.slot
        BY <2>4, <2>11 DEF RawTarget
    <2> QED
        BY <2>4, <2>11, <2>12 DEF KnownSlot
<1> QED
    BY <1>1, PackingAlways, UpdateAlways, PTL

(* "Flashing ... is finished": super is laid out and every dynamic         *)
(* partition has what the package brings, after whatever interruptions and *)
(* from whatever a failed build left; AVB is off and the raw images are in *)
(* their slots too if the ZIP is whole and no write failed.                *)
THEOREM FinishedHasAll == Spec => []FinishedComplete
<1>1. Packing /\ Update => FinishedComplete
    <2> SUFFICES ASSUME Packing, Update, status = "finished"
                 PROVE  /\ dev.super = "laid out"
                        /\ \A n \in ToSet(job.dynamic) : n \in dev.lps /\ dev.part[n] = out.build
                        /\ AllWell => /\ dev.avb = "off"
                                      /\ \A t \in RawTargets : dev.raw[t] = out.build
        BY DEF FinishedComplete, AllWell
    <2>1. job \in Packages
        BY UpdateTypes
    <2>2. \A c \in ScriptSet(job) : c.op # "end" => Passed(c)
        <3> SUFFICES ASSUME NEW c \in ScriptSet(job), c.op # "end" PROVE Passed(c)
            OBVIOUS
        <3>1. PICK k \in 1..Len(Script(job)) : Script(job)[k] = c
            BY <2>1, ScriptIndex
        <3>2. k # Len(Script(job)) /\ Len(Script(job)) \in Nat
            BY <2>1, <3>1, ScriptSteps
        <3>3. step = Len(Script(job)) /\ \A j \in 1..(step - 1) : Passed(Script(job)[j])
            BY DEF Update, PassedAll, Going
        <3> QED
            BY <3>1, <3>2, <3>3
    <2>3. \A op, n, s : Command(op, n, s).op = op /\ Command(op, n, s).name = n /\ Plain(op).op = op
        BY DEF Command, Plain
    <2>4. dev.super = "laid out" /\ dev.lps = ToSet(job.dynamic)
        <3>1. Plain("tables") \in ScriptSet(job) /\ Plain("tables").op = "tables"
            BY <2>3 DEF ScriptSet, BodySet
        <3> QED
            BY <2>2, <3>1 DEF Passed
    <2>5. \A n \in ToSet(job.dynamic) : dev.part[n] = out.build
        <3> SUFFICES ASSUME NEW n \in ToSet(job.dynamic) PROVE dev.part[n] = out.build
            OBVIOUS
        <3> DEFINE c == Command("flash", n, "")
        <3>1. c.op = "flash" /\ c.name = n
            BY DEF Command
        <3>2. c \in ScriptSet(job)
            BY DEF ScriptSet, BodySet, FlashesOf
        <3> HIDE DEF c
        <3> QED
            BY <2>2, <3>1, <3>2 DEF Passed
    <2>6. ASSUME AllWell PROVE dev.avb = "off"
        <3>1. Plain("avb") \in ScriptSet(job) /\ Plain("avb").op = "avb"
            BY <2>3 DEF ScriptSet, BodySet
        <3> QED
            BY <2>2, <2>6, <3>1 DEF Passed
    <2>7. ASSUME AllWell, NEW t \in RawTargets PROVE dev.raw[t] = out.build
        <3>1. PICK i \in DOMAIN job.raw : t \in {<<job.raw[i].name, s>> : s \in SlotsOf(job.raw[i].policy)}
            BY <2>7 DEF RawTargets
        <3>2. PICK s \in SlotsOf(job.raw[i].policy) : t = <<job.raw[i].name, s>>
            BY <3>1
        <3>3. job.raw[i] \in RawImages
            BY <2>1, RawTypes
        <3>4. PICK c \in RawSet(job.raw[i]) : RawTarget(c) = t /\ Reached(c)
            <4> DEFINE x == IF job.raw[i].policy = "active" THEN "active" ELSE s
            <4>1. Command("raw", job.raw[i].name, x) \in RawSet(job.raw[i])
                BY <3>2, <3>3 DEF RawSet, SlotsOf, RawImages
            <4>2. RawTarget(Command("raw", job.raw[i].name, x)) = t
                BY <3>2, <3>3 DEF RawTarget, Command, SlotsOf, RawImages
            <4>3. phone.slot # "" \/ s = ""
                BY <3>2, <3>3 DEF SlotsOf, RawImages
            <4>4. t[2] = s
                BY <3>2
            <4>5. Reached(Command("raw", job.raw[i].name, x))
                BY <4>2, <4>3, <4>4 DEF Reached
            <4> QED
                BY <4>1, <4>2, <4>5, Zenon
        <3>5. c \in ScriptSet(job)
            BY <3>4 DEF ScriptSet, BodySet, RawsOf
        <3>6. c.op = "raw"
            BY <3>3, <3>4, RawCommand
        <3> QED
            BY <2>2, <2>7, <3>4, <3>5, <3>6 DEF Passed
    <2> QED
        BY <2>4, <2>5, <2>6, <2>7
<1> QED
    BY <1>1, PackingAlways, UpdateAlways, PTL
===============================================================================
