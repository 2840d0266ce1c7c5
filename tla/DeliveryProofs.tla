----------------------------- MODULE DeliveryProofs -----------------------------
(***************************************************************************)
(* Proofs about the image chain, for images of any size and content.       *)
(*                                                                         *)
(* A sparse file says what an image has (FileOf) when reading its chunks   *)
(* one after the other comes to a reader whose care map is the blocks with *)
(* data and whose chunks hold them (Good).  The writer keeps that true of  *)
(* all chunks it has closed, and of the one it has begun what is needed to *)
(* close it (Saved), through seeking back, padding and changes of kind.    *)
(* The inductive invariant of the conversion (Kept) says which part of the *)
(* image each file has, and what has been loaded from it.                  *)
(***************************************************************************)
EXTENDS Delivery, RangeSetProofs

-------------------------------------------------------------------------------
(* The writer: what a file comes to hold.                                  *)

Kinds == {"room", "file", "raw", "fill", "dontcare"}

Cells == [kind : Kinds, blocks : Nat, size : Nat] \union [kind : {"data"}, content : Contents]

Types == {None, "raw", "fill", "dontcare"}

Writers ==
    [file : Seq(Cells), pos : Nat, ctype : Types, cval : Contents \union {None},
     csize : Nat, nchunks : Nat, nblocks : Nat]

LEMMA CellsAre ==
  /\ \A n \in Nat, m \in Nat : FileHeader(n, m) \in Cells
  /\ \A type \in Types \ {None}, n \in Nat, m \in Nat : ChunkHeader(type, n, m) \in Cells
  /\ Room \in Cells
  /\ \A v \in Contents : Data(v) \in Cells
  <1> DEFINE H == [kind : Kinds, blocks : Nat, size : Nat]
  <1>1. \A k \in Kinds, n \in Nat, m \in Nat : [kind |-> k, blocks |-> n, size |-> m] \in H
    OBVIOUS
  <1>2. H \subseteq Cells
    BY DEF Cells
  <1> HIDE DEF H
  <1>3. \A type \in Types \ {None} : type \in Kinds
    BY DEF Types, Kinds, None
  <1>4. "room" \in Kinds /\ "file" \in Kinds
    BY DEF Kinds
  <1>5. \A v \in Contents : Data(v) \in Cells
    BY DEF Cells, Data
  <1> QED BY <1>1, <1>2, <1>3, <1>4, <1>5 DEF FileHeader, ChunkHeader, Room

(* new is w with a cell put in place of another, or at the end.            *)
PutAs(new, w, cell) ==
    /\ new \in Writers /\ new.pos = w.pos + 1
    /\ new.ctype = w.ctype /\ new.cval = w.cval /\ new.csize = w.csize
    /\ new.nchunks = w.nchunks /\ new.nblocks = w.nblocks
    /\ Len(new.file) = IF w.pos <= Len(w.file) THEN Len(w.file) ELSE Len(w.file) + 1
    /\ new.file[w.pos] = cell
    /\ \A i \in 1..Len(w.file) : i # w.pos => new.file[i] = w.file[i]

LEMMA PutIs ==
  ASSUME NEW w \in Writers, w.pos \in 1..(Len(w.file) + 1), NEW cell \in Cells
  PROVE  PutAs(Put(w, cell), w, cell)
  <1>0. PICK new : new = Put(w, cell)
    OBVIOUS
  <1>1. PICK f : f = IF w.pos <= Len(w.file) THEN [w.file EXCEPT ![w.pos] = cell]
                                               ELSE Append(w.file, cell)
    OBVIOUS
  <1>2. w.file \in Seq(Cells) /\ w.pos \in Nat
    BY DEF Writers
  <1>3. /\ f \in Seq(Cells)
        /\ Len(f) = IF w.pos <= Len(w.file) THEN Len(w.file) ELSE Len(w.file) + 1
        /\ f[w.pos] = cell
        /\ \A i \in 1..Len(w.file) : i # w.pos => f[i] = w.file[i]
    <2>1. PICK s, q : s = w.file /\ q = w.pos
      OBVIOUS
    <2>2. s \in Seq(Cells) /\ q \in 1..(Len(s) + 1) /\ Len(s) \in Nat
      BY <1>2, <2>1
    <2>3. CASE q <= Len(s)
      <3>1. f = [s EXCEPT ![q] = cell]
        BY <1>1, <2>1, <2>3
      <3>2. q \in 1..Len(s)
        BY <2>2, <2>3
      <3>3. /\ f \in Seq(Cells) /\ Len(f) = Len(s) /\ f[q] = cell
            /\ \A i \in 1..Len(s) : i # q => f[i] = s[i]
        BY <2>2, <3>1, <3>2
      <3> QED BY <2>1, <2>3, <3>3
    <2>4. CASE ~(q <= Len(s))
      <3>1. f = Append(s, cell)
        BY <1>1, <2>1, <2>4
      <3>2. q = Len(s) + 1
        BY <2>2, <2>4
      <3>3. /\ f \in Seq(Cells) /\ Len(f) = Len(s) + 1 /\ f[Len(s) + 1] = cell
            /\ \A i \in 1..Len(s) : f[i] = s[i]
        BY <2>2, <3>1
      <3> QED BY <2>1, <2>4, <3>2, <3>3
    <2> QED BY <2>3, <2>4
  <1>4. new = [w EXCEPT !.pos = w.pos + 1, !.file = f]
    BY <1>0, <1>1 DEF Put
  <1>5. new = [file |-> f, pos |-> w.pos + 1, ctype |-> w.ctype, cval |-> w.cval,
               csize |-> w.csize, nchunks |-> w.nchunks, nblocks |-> w.nblocks]
    BY <1>4 DEF Writers
  <1>6. new \in Writers
    BY <1>2, <1>3, <1>5 DEF Writers
  <1> QED BY <1>0, <1>3, <1>5, <1>6 DEF PutAs

SoughtAs(new, w, p) ==
    /\ new \in Writers /\ new.pos = p /\ new.file = w.file
    /\ new.ctype = w.ctype /\ new.cval = w.cval /\ new.csize = w.csize
    /\ new.nchunks = w.nchunks /\ new.nblocks = w.nblocks

LEMMA SeekIs ==
  ASSUME NEW w \in Writers, NEW p \in Nat
  PROVE  SoughtAs(Seek(w, p), w, p)
  BY DEF Seek, Writers, SoughtAs

(* Where the header of the current chunk is, or goes. *)
HeaderAt(w) == IF w.ctype = "raw" THEN Len(w.file) - w.csize ELSE Len(w.file) + 1

(* At the end of the file, in a chunk that can be closed. *)
Closable(w) ==
    /\ w \in Writers /\ w.pos = Len(w.file) + 1 /\ w.csize # 0 /\ w.ctype # None
    /\ w.ctype = "raw" => w.csize < Len(w.file)
    /\ w.ctype = "fill" => w.cval \in Contents

(* new is w with the current chunk closed. *)
ClosedAs(new, w) ==
    /\ new \in Writers /\ new.pos = Len(new.file) + 1
    /\ new.ctype = w.ctype /\ new.cval = w.cval /\ new.csize = 0
    /\ new.nchunks = w.nchunks + 1 /\ new.nblocks = w.nblocks
    /\ new.file[HeaderAt(w)] = ChunkHeader(w.ctype, w.csize, ChunkCells(w))
    /\ w.ctype = "fill" => new.file[HeaderAt(w) + 1] = Data(w.cval)
    /\ Len(new.file) = HeaderAt(w) + ChunkCells(w)
    /\ \A i \in 1..Len(w.file) : i # HeaderAt(w) => new.file[i] = w.file[i]

FinishedAs(new, w) ==
    /\ new \in Writers /\ new.file = w.file /\ new.pos = w.pos
    /\ new.ctype = w.ctype /\ new.cval = w.cval /\ new.csize = 0
    /\ new.nchunks = w.nchunks + 1 /\ new.nblocks = w.nblocks

LEMMA FinishedIs ==
  ASSUME NEW w \in Writers
  PROVE  FinishedAs([w EXCEPT !.csize = 0, !.nchunks = @ + 1], w)
  <1>0. PICK new : new = [w EXCEPT !.csize = 0, !.nchunks = @ + 1]
    OBVIOUS
  <1>1. new = [file |-> w.file, pos |-> w.pos, ctype |-> w.ctype, cval |-> w.cval,
               csize |-> 0, nchunks |-> w.nchunks + 1, nblocks |-> w.nblocks]
    BY <1>0 DEF Writers
  <1>2. new \in Writers
    BY <1>1 DEF Writers
  <1> QED BY <1>0, <1>1, <1>2 DEF FinishedAs

LEMMA CloseChunkIs ==
  ASSUME NEW w, Closable(w), NEW new, new = CloseChunk(w)
  PROVE  ClosedAs(new, w)
  <1>1. /\ w \in Writers /\ w.pos = Len(w.file) + 1 /\ w.csize \in Nat /\ w.csize # 0
        /\ w.file \in Seq(Cells) /\ Len(w.file) \in Nat
        /\ w.ctype \in Types /\ w.ctype # None
    BY DEF Closable, Writers
  <1>2. PICK n, c, L : n = ChunkCells(w) /\ c = w.csize /\ L = Len(w.file)
    OBVIOUS
  <1>3. n = (IF w.ctype = "raw" THEN c ELSE IF w.ctype = "dontcare" THEN 0 ELSE 1)
    BY <1>2 DEF ChunkCells
  <1>4. n \in Nat /\ c \in Nat /\ L \in Nat /\ c # 0 /\ w.pos = L + 1
    BY <1>1, <1>2, <1>3
  <1>5. PICK h : h = ChunkHeader(w.ctype, w.csize, ChunkCells(w)) /\ h \in Cells
    BY <1>1, <1>2, <1>4, CellsAre
  <1>6. w.ctype = "raw" \/ w.ctype = "dontcare" \/ w.ctype = "fill"
    BY <1>1 DEF Types
  <1>7. CASE w.ctype = "raw"
    <2>1. c < L
      BY <1>2, <1>7 DEF Closable
    <2>2. PICK a, b, d : a = Seek(w, w.pos - w.csize - 1) /\ b = Put(a, h) /\ d = SeekEnd(b)
      OBVIOUS
    <2>3. new = [d EXCEPT !.csize = 0, !.nchunks = @ + 1]
      BY <1>1, <1>5, <1>7, <2>2 DEF CloseChunk
    <2>4. w.pos - w.csize - 1 = L - c /\ L - c \in Nat /\ L - c \in 1..L
      BY <1>2, <1>4, <2>1
    <2>5. /\ a \in Writers /\ a.pos = L - c /\ a.file = w.file
          /\ a.ctype = w.ctype /\ a.cval = w.cval /\ a.csize = w.csize
          /\ a.nchunks = w.nchunks /\ a.nblocks = w.nblocks
      <3>1. SoughtAs(a, w, L - c)
        BY <1>1, <2>2, <2>4, SeekIs
      <3> QED BY <3>1 DEF SoughtAs
    <2>6. a.pos \in 1..(Len(a.file) + 1) /\ a.pos <= Len(a.file) /\ Len(a.file) = L
      BY <1>2, <1>4, <2>4, <2>5
    <2>7. /\ b \in Writers /\ Len(b.file) = L /\ b.file[L - c] = h
          /\ \A i \in 1..L : i # L - c => b.file[i] = w.file[i]
          /\ b.ctype = w.ctype /\ b.cval = w.cval /\ b.csize = w.csize
          /\ b.nchunks = w.nchunks /\ b.nblocks = w.nblocks
      <3>1. PutAs(b, a, h)
        BY <1>5, <2>2, <2>5, <2>6, PutIs
      <3> QED BY <2>5, <2>6, <3>1 DEF PutAs
    <2>8. /\ d \in Writers /\ d.pos = L + 1 /\ d.file = b.file
          /\ d.ctype = w.ctype /\ d.cval = w.cval /\ d.csize = w.csize
          /\ d.nchunks = w.nchunks /\ d.nblocks = w.nblocks
      <3>1. d = Seek(b, L + 1) /\ L + 1 \in Nat
        BY <1>4, <2>2, <2>7 DEF SeekEnd
      <3>2. SoughtAs(d, b, L + 1)
        BY <2>7, <3>1, SeekIs
      <3> QED BY <2>7, <3>2 DEF SoughtAs
    <2>9. /\ new \in Writers /\ new.file = b.file /\ new.pos = L + 1
          /\ new.ctype = w.ctype /\ new.cval = w.cval /\ new.csize = 0
          /\ new.nchunks = w.nchunks + 1 /\ new.nblocks = w.nblocks
      <3>1. FinishedAs(new, d)
        BY <2>3, <2>8, FinishedIs
      <3> QED BY <2>8, <3>1 DEF FinishedAs
    <2>10. HeaderAt(w) = L - c /\ ChunkCells(w) = c /\ L = (L - c) + c
      BY <1>2, <1>3, <1>4, <1>7 DEF HeaderAt
    <2> QED BY <1>2, <1>5, <1>7, <2>7, <2>9, <2>10 DEF ClosedAs
  <1>8. CASE w.ctype = "dontcare"
    <2>1. PICK b : b = Put(w, h)
      OBVIOUS
    <2>2. new = [b EXCEPT !.csize = 0, !.nchunks = @ + 1]
      BY <1>1, <1>5, <1>8, <2>1 DEF CloseChunk
    <2>3. w.pos \in 1..(Len(w.file) + 1) /\ ~(w.pos <= Len(w.file))
      BY <1>2, <1>4
    <2>4. /\ b \in Writers /\ Len(b.file) = L + 1 /\ b.pos = L + 2 /\ b.file[L + 1] = h
          /\ \A i \in 1..L : b.file[i] = w.file[i]
          /\ b.ctype = w.ctype /\ b.cval = w.cval /\ b.csize = w.csize
          /\ b.nchunks = w.nchunks /\ b.nblocks = w.nblocks
      <3>1. PutAs(b, w, h)
        BY <1>1, <1>5, <2>1, <2>3, PutIs
      <3>2. \A i \in 1..L : i # L + 1
        BY <1>4
      <3> QED BY <1>2, <1>4, <2>3, <3>1, <3>2 DEF PutAs
    <2>5. /\ new \in Writers /\ new.file = b.file /\ new.pos = b.pos
          /\ new.ctype = w.ctype /\ new.cval = w.cval /\ new.csize = 0
          /\ new.nchunks = w.nchunks + 1 /\ new.nblocks = w.nblocks
      <3>1. FinishedAs(new, b)
        BY <2>2, <2>4, FinishedIs
      <3> QED BY <2>4, <3>1 DEF FinishedAs
    <2>6. HeaderAt(w) = L + 1 /\ ChunkCells(w) = 0
      BY <1>2, <1>3, <1>8 DEF HeaderAt
    <2> QED BY <1>2, <1>4, <1>5, <1>8, <2>4, <2>5, <2>6 DEF ClosedAs
  <1>9. CASE w.ctype = "fill"
    <2>0. PICK x : x = Data(w.cval) /\ x \in Cells
      BY <1>9, CellsAre DEF Closable
    <2>1. PICK a, b : a = Put(w, h) /\ b = Put(a, x)
      OBVIOUS
    <2>2. new = [b EXCEPT !.csize = 0, !.nchunks = @ + 1]
      BY <1>1, <1>5, <1>9, <2>0, <2>1 DEF CloseChunk
    <2>3. w.pos \in 1..(Len(w.file) + 1) /\ ~(w.pos <= Len(w.file))
      BY <1>2, <1>4
    <2>4. /\ a \in Writers /\ Len(a.file) = L + 1 /\ a.pos = L + 2 /\ a.file[L + 1] = h
          /\ \A i \in 1..L : a.file[i] = w.file[i]
          /\ a.ctype = w.ctype /\ a.cval = w.cval /\ a.csize = w.csize
          /\ a.nchunks = w.nchunks /\ a.nblocks = w.nblocks
      <3>1. PutAs(a, w, h)
        BY <1>1, <1>5, <2>1, <2>3, PutIs
      <3>2. \A i \in 1..L : i # L + 1
        BY <1>4
      <3> QED BY <1>2, <1>4, <2>3, <3>1, <3>2 DEF PutAs
    <2>5. a.pos \in 1..(Len(a.file) + 1) /\ ~(a.pos <= Len(a.file))
      BY <1>4, <2>4
    <2>6. /\ b \in Writers /\ Len(b.file) = L + 2 /\ b.pos = L + 3 /\ b.file[L + 2] = x
          /\ \A i \in 1..(L + 1) : i # L + 2 => b.file[i] = a.file[i]
          /\ b.ctype = w.ctype /\ b.cval = w.cval /\ b.csize = w.csize
          /\ b.nchunks = w.nchunks /\ b.nblocks = w.nblocks
      <3>1. PutAs(b, a, x)
        BY <2>0, <2>1, <2>4, <2>5, PutIs
      <3> QED BY <1>4, <2>4, <2>5, <3>1 DEF PutAs
    <2>7. b.file[L + 1] = h /\ \A i \in 1..L : b.file[i] = w.file[i]
      BY <1>4, <2>4, <2>6
    <2>8. /\ new \in Writers /\ new.file = b.file /\ new.pos = b.pos
          /\ new.ctype = w.ctype /\ new.cval = w.cval /\ new.csize = 0
          /\ new.nchunks = w.nchunks + 1 /\ new.nblocks = w.nblocks
      <3>1. FinishedAs(new, b)
        BY <2>2, <2>6, FinishedIs
      <3> QED BY <2>6, <3>1 DEF FinishedAs
    <2>9. HeaderAt(w) = L + 1 /\ ChunkCells(w) = 1
      BY <1>2, <1>3, <1>9 DEF HeaderAt
    <2> QED BY <1>2, <1>4, <1>5, <1>9, <2>0, <2>6, <2>7, <2>8, <2>9 DEF ClosedAs
  <1> QED BY <1>6, <1>7, <1>8, <1>9

-------------------------------------------------------------------------------
(* The reader: what it has read of an image.                               *)

(* What each block holds; None where there is no data. *)
Images == [Nat -> Contents \union {None}]

WithData(img, n) == {b \in 0..(n - 1) : img[b] # None}

Chunks == [start : Nat, len : Nat, at : Nat, fill : Contents \union {None}]

Readers == [ok : BOOLEAN, at : Nat, pos : Nat, care : Seq(Nat), chunks : Seq(Chunks)]

InChunk(c, b) == c.start <= b /\ b < c.start + c.len

(* Chunk c is before block pos and before cell end of the file, and says   *)
(* what img has.                                                           *)
Holding(c, pos, end, file, img) ==
    /\ c \in Chunks /\ c.len # 0 /\ c.start + c.len <= pos
    /\ \A i \in 0..(c.len - 1) :
          /\ img[c.start + i] # None
          /\ img[c.start + i] = IF c.fill = None THEN file[c.at + i].content ELSE c.fill
    /\ c.fill = None => c.at >= 2 /\ c.at + c.len <= end

Cared(care, pos, img) ==
    /\ Plain(care, WithData(img, pos))
    /\ \A i \in 1..Len(care) : care[i] <= pos

Chunked(chunks, pos, end, file, img) ==
    /\ chunks \in Seq(Chunks)
    /\ \A k \in 1..Len(chunks) : Holding(chunks[k], pos, end, file, img)
    /\ \A k, l \in 1..Len(chunks) : k < l => chunks[k].start + chunks[k].len <= chunks[l].start
    /\ \A b \in 0..(pos - 1) : img[b] # None => \E k \in 1..Len(chunks) : InChunk(chunks[k], b)

(* All that is before it has been read rightly. *)
Good(acc, file, img) ==
    /\ acc \in Readers /\ acc.ok /\ acc.at >= 2
    /\ Cared(acc.care, acc.pos, img)
    /\ Chunked(acc.chunks, acc.pos, acc.at, file, img)

LEMMA CaredMore ==
  ASSUME NEW img \in Images, NEW p \in Nat, NEW n \in Nat, NEW care, Cared(care, p, img),
         \A i \in 0..(n - 1) : img[p + i] # None
  PROVE  Cared(care \o <<p, p + n>>, p + n, img)
  <1>1. WithData(img, p + n) = WithData(img, p) \union p..((p + n) - 1)
    <2>1. ASSUME NEW b PROVE b \in WithData(img, p + n) <=> b \in WithData(img, p) \/ b \in p..((p + n) - 1)
      <3>1. CASE b \in 0..((p + n) - 1)
        <4>1. CASE b < p
          <5>1. b \in 0..(p - 1) /\ ~(b \in p..((p + n) - 1))
            BY <3>1, <4>1
          <5> QED BY <3>1, <5>1 DEF WithData
        <4>2. CASE ~(b < p)
          <5>1. b - p \in 0..(n - 1) /\ p + (b - p) = b
            BY <3>1, <4>2
          <5>2. img[b] # None
            BY <5>1
          <5>3. b \in p..((p + n) - 1)
            BY <3>1, <4>2
          <5> QED BY <3>1, <5>2, <5>3 DEF WithData
        <4> QED BY <4>1, <4>2
      <3>2. CASE ~(b \in 0..((p + n) - 1))
        <4>1. ~(b \in 0..(p - 1)) /\ ~(b \in p..((p + n) - 1))
          BY <3>2
        <4> QED BY <3>2, <4>1 DEF WithData
      <3> QED BY <3>1, <3>2
    <2> QED BY <2>1
  <1>2. Plain(care, WithData(img, p)) /\ \A i \in 1..Len(care) : care[i] <= p
    BY DEF Cared
  <1>3. p + n \in Nat /\ p <= p + n
    OBVIOUS
  <1>4. /\ Plain(care \o <<p, p + n>>, WithData(img, p) \union p..((p + n) - 1))
        /\ \A i \in 1..Len(care \o <<p, p + n>>) : (care \o <<p, p + n>>)[i] <= p + n
    BY <1>2, <1>3, PlainMore
  <1> QED BY <1>1, <1>4 DEF Cared

LEMMA CaredSkip ==
  ASSUME NEW img \in Images, NEW p \in Nat, NEW n \in Nat, NEW care, Cared(care, p, img),
         \A i \in 0..(n - 1) : img[p + i] = None
  PROVE  Cared(care, p + n, img)
  <1>1. WithData(img, p + n) = WithData(img, p)
    <2>1. ASSUME NEW b \in 0..((p + n) - 1), ~(b \in 0..(p - 1)) PROVE img[b] = None
      <3>1. b - p \in 0..(n - 1) /\ p + (b - p) = b
        BY <2>1
      <3> QED BY <3>1
    <2>2. \A b \in 0..(p - 1) : b \in 0..((p + n) - 1)
      OBVIOUS
    <2> QED BY <2>1, <2>2 DEF WithData
  <1>2. \A i \in 1..Len(care) : care[i] <= p + n
    <2>1. care \in Seq(Nat)
      BY DEF Cared, Plain
    <2> QED BY <2>1 DEF Cared
  <1> QED BY <1>1, <1>2 DEF Cared

LEMMA ChunkedMore ==
  ASSUME NEW img \in Images, NEW p \in Nat, NEW n \in Nat, n # 0, NEW e \in Nat, NEW d \in Nat, e <= d,
         NEW file, NEW chunks, Chunked(chunks, p, e, file, img),
         NEW c, Holding(c, p + n, d, file, img), c.start = p, c.len = n
  PROVE  Chunked(Append(chunks, c), p + n, d, file, img)
  <1>1. PICK new, m : new = Append(chunks, c) /\ m = Len(chunks)
    OBVIOUS
  <1>2. chunks \in Seq(Chunks) /\ c \in Chunks
    BY DEF Chunked, Holding
  <1>3. /\ new \in Seq(Chunks) /\ Len(new) = m + 1 /\ m \in Nat /\ new[m + 1] = c
        /\ \A k \in 1..m : new[k] = chunks[k] /\ chunks[k] \in Chunks
        /\ \A k \in 1..(m + 1) : k \in 1..m \/ k = m + 1
    BY <1>1, <1>2
  <1>4. ASSUME NEW k \in 1..m PROVE Holding(new[k], p + n, d, file, img)
    <2>1. Holding(chunks[k], p, e, file, img)
      BY <1>1 DEF Chunked
    <2>2. PICK x : x = chunks[k] /\ x \in Chunks
      BY <1>3
    <2>3. /\ x.start \in Nat /\ x.len \in Nat /\ x.at \in Nat
      BY <2>2 DEF Chunks
    <2>4. x.start + x.len <= p + n
      <3>1. x.start + x.len <= p
        BY <2>1, <2>2 DEF Holding
      <3> QED BY <2>3, <3>1
    <2>5. x.fill = None => x.at >= 2 /\ x.at + x.len <= d
      <3>1. x.fill = None => x.at >= 2 /\ x.at + x.len <= e
        BY <2>1, <2>2 DEF Holding
      <3> QED BY <2>3, <3>1
    <2> QED BY <1>3, <2>1, <2>2, <2>4, <2>5 DEF Holding
  <1>5. \A k \in 1..(m + 1) : Holding(new[k], p + n, d, file, img)
    BY <1>3, <1>4
  <1>6. ASSUME NEW k \in 1..(m + 1), NEW l \in 1..(m + 1), k < l
        PROVE  new[k].start + new[k].len <= new[l].start
    <2>1. k \in 1..m
      BY <1>3, <1>6
    <2>2. CASE l \in 1..m
      BY <1>1, <1>3, <1>6, <2>1, <2>2 DEF Chunked
    <2>3. CASE l = m + 1
      <3>1. chunks[k].start + chunks[k].len <= p
        BY <1>1, <2>1 DEF Chunked, Holding
      <3> QED BY <1>3, <2>1, <2>3, <3>1
    <2> QED BY <1>3, <2>2, <2>3
  <1>7. ASSUME NEW b \in 0..((p + n) - 1), img[b] # None
        PROVE  \E k \in 1..(m + 1) : InChunk(new[k], b)
    <2>1. CASE b \in 0..(p - 1)
      <3>1. PICK k \in 1..m : InChunk(chunks[k], b)
        BY <1>1, <1>7, <2>1 DEF Chunked
      <3>2. k \in 1..(m + 1) /\ new[k] = chunks[k]
        BY <1>3
      <3> QED BY <3>1, <3>2
    <2>2. CASE ~(b \in 0..(p - 1))
      <3>1. p <= b /\ b < p + n
        BY <2>2
      <3>2. InChunk(new[m + 1], b)
        BY <1>3, <3>1 DEF InChunk
      <3>3. m + 1 \in 1..(m + 1)
        BY <1>3
      <3> QED BY <3>2, <3>3
    <2> QED BY <2>1, <2>2
  <1> QED BY <1>1, <1>3, <1>5, <1>6, <1>7 DEF Chunked

LEMMA ChunkedSkip ==
  ASSUME NEW img \in Images, NEW p \in Nat, NEW n \in Nat, NEW e \in Nat, NEW d \in Nat, e <= d,
         NEW file, NEW chunks, Chunked(chunks, p, e, file, img),
         \A i \in 0..(n - 1) : img[p + i] = None
  PROVE  Chunked(chunks, p + n, d, file, img)
  <1>1. chunks \in Seq(Chunks)
    BY DEF Chunked
  <1>2. ASSUME NEW k \in 1..Len(chunks) PROVE Holding(chunks[k], p + n, d, file, img)
    <2>1. Holding(chunks[k], p, e, file, img)
      BY DEF Chunked
    <2>2. PICK x : x = chunks[k] /\ x \in Chunks
      BY <1>1
    <2>3. /\ x.start \in Nat /\ x.len \in Nat /\ x.at \in Nat
      BY <2>2 DEF Chunks
    <2>4. x.start + x.len <= p + n
      <3>1. x.start + x.len <= p
        BY <2>1, <2>2 DEF Holding
      <3> QED BY <2>3, <3>1
    <2>5. x.fill = None => x.at >= 2 /\ x.at + x.len <= d
      <3>1. x.fill = None => x.at >= 2 /\ x.at + x.len <= e
        BY <2>1, <2>2 DEF Holding
      <3> QED BY <2>3, <3>1
    <2> QED BY <2>1, <2>2, <2>4, <2>5 DEF Holding
  <1>3. ASSUME NEW b \in 0..((p + n) - 1), img[b] # None
        PROVE  \E k \in 1..Len(chunks) : InChunk(chunks[k], b)
    <2>1. b \in 0..(p - 1)
      <3> SUFFICES ASSUME ~(b \in 0..(p - 1)) PROVE FALSE
        OBVIOUS
      <3>1. b - p \in 0..(n - 1) /\ p + (b - p) = b
        OBVIOUS
      <3> QED BY <1>3, <3>1
    <2> QED BY <1>3, <2>1 DEF Chunked
  <1> QED BY <1>1, <1>2, <1>3 DEF Chunked

LEMMA GoodSame ==
  ASSUME NEW img \in Images, NEW other \in Images, NEW file, NEW later, NEW acc, Good(acc, file, img),
         \A i \in 2..(acc.at - 1) : later[i] = file[i],
         \A b \in 0..(acc.pos - 1) : other[b] = img[b]
  PROVE  Good(acc, later, other)
  <1>1. acc \in Readers /\ acc.ok /\ acc.at >= 2 /\ acc.pos \in Nat /\ acc.at \in Nat
    BY DEF Good, Readers
  <1>2. Cared(acc.care, acc.pos, other)
    <2>1. WithData(other, acc.pos) = WithData(img, acc.pos)
      BY DEF WithData
    <2> QED BY <2>1 DEF Good, Cared
  <1>3. Chunked(acc.chunks, acc.pos, acc.at, later, other)
    <2>1. Chunked(acc.chunks, acc.pos, acc.at, file, img)
      BY DEF Good
    <2>2. ASSUME NEW k \in 1..Len(acc.chunks)
          PROVE  Holding(acc.chunks[k], acc.pos, acc.at, later, other)
      <3>1. Holding(acc.chunks[k], acc.pos, acc.at, file, img)
        BY <2>1 DEF Chunked
      <3>2. PICK c : c = acc.chunks[k] /\ c \in Chunks
        BY <3>1 DEF Holding
      <3>3. c.start \in Nat /\ c.len \in Nat /\ c.at \in Nat
        BY <3>2 DEF Chunks
      <3>4. ASSUME NEW i \in 0..(c.len - 1)
            PROVE  /\ other[c.start + i] # None
                   /\ other[c.start + i] = IF c.fill = None THEN later[c.at + i].content ELSE c.fill
        <4>1. c.start + i \in 0..(acc.pos - 1)
          BY <1>1, <3>1, <3>2, <3>3 DEF Holding
        <4>2. other[c.start + i] = img[c.start + i]
          BY <4>1
        <4>3. c.fill = None => c.at + i \in 2..(acc.at - 1)
          <5>1. SUFFICES ASSUME c.fill = None PROVE c.at + i \in 2..(acc.at - 1)
            OBVIOUS
          <5>2. PICK x \in Nat, l \in Nat, e \in Nat : x = c.at /\ l = c.len /\ e = acc.at
            BY <1>1, <3>3
          <5>3. x >= 2 /\ x + l <= e
            BY <3>1, <3>2, <5>1, <5>2 DEF Holding
          <5>4. i \in 0..(l - 1)
            BY <5>2
          <5>5. x + i \in 2..(e - 1)
            BY <5>3, <5>4
          <5> QED BY <5>2, <5>5
        <4>4. c.fill = None => later[c.at + i] = file[c.at + i]
          BY <4>3
        <4> QED BY <3>1, <3>2, <4>2, <4>4 DEF Holding
      <3> QED BY <3>1, <3>2, <3>4 DEF Holding
    <2> QED BY <2>1, <2>2 DEF Chunked
  <1> QED BY <1>1, <1>2, <1>3 DEF Good

(* The chunk with header h at acc.at says what img has from acc.pos on.    *)
Describes(h, acc, file, img) ==
    /\ h.blocks \in Nat \ {0}
    /\ \/ /\ h.kind = "raw" /\ h.size = h.blocks
          /\ \A i \in 0..(h.blocks - 1) :
                img[acc.pos + i] # None /\ file[acc.at + 1 + i].content = img[acc.pos + i]
       \/ /\ h.kind = "fill" /\ h.size = 1 /\ file[acc.at + 1].content \in Contents
          /\ \A i \in 0..(h.blocks - 1) : img[acc.pos + i] = file[acc.at + 1].content
       \/ /\ h.kind = "dontcare" /\ h.size = 0
          /\ \A i \in 0..(h.blocks - 1) : img[acc.pos + i] = None

ReadOn(new, acc, h, file, img) ==
    /\ Good(new, file, img)
    /\ new.pos = acc.pos + h.blocks /\ new.at = acc.at + 1 + h.size

LEMMA ReadChunkIs ==
  ASSUME NEW img \in Images, NEW file, NEW acc, Good(acc, file, img),
         NEW h, h = file[acc.at], Describes(h, acc, file, img)
  PROVE  ReadOn(ReadChunk(file, acc), acc, h, file, img)
  <1>1. PICK p, e, n, m, new : /\ p = acc.pos /\ e = acc.at /\ n = h.blocks /\ m = h.size
                               /\ new = ReadChunk(file, acc)
    OBVIOUS
  <1>2. /\ acc \in Readers /\ acc.ok /\ e >= 2 /\ p \in Nat /\ e \in Nat /\ acc.care \in Seq(Nat)
        /\ acc.chunks \in Seq(Chunks) /\ acc.ok \in BOOLEAN
        /\ Cared(acc.care, p, img) /\ Chunked(acc.chunks, p, e, file, img)
    BY <1>1 DEF Good, Readers
  <1>3. n \in Nat /\ n # 0 /\ m \in Nat
    BY <1>1 DEF Describes
  <1>4. e + 1 + m \in Nat /\ e <= e + 1 + m /\ e + 1 + m >= 2 /\ p + n \in Nat
    BY <1>2, <1>3
  <1>5. None \notin Contents
    BY ContentAssumption DEF Contents
  <1>6. acc.care \o <<p, p + n>> \in Seq(Nat)
    <2>1. <<p, p + n>> \in Seq(Nat)
      BY <1>2, <1>4
    <2> QED BY <1>2, <2>1
  <1>7. CASE h.kind = "raw"
    <2>1. /\ m = n
          /\ \A i \in 0..(n - 1) : img[p + i] # None /\ file[e + 1 + i].content = img[p + i]
      BY <1>1, <1>7 DEF Describes
    <2>2. PICK c : c = [start |-> p, len |-> n, at |-> e + 1, fill |-> None]
      OBVIOUS
    <2>3. new = [ok |-> acc.ok, at |-> e + 1 + m, pos |-> p + n,
                 care |-> acc.care \o <<p, p + n>>, chunks |-> Append(acc.chunks, c)]
      BY <1>1, <1>2, <1>7, <2>1, <2>2 DEF ReadChunk, Readers
    <2>4. c \in Chunks /\ c.start = p /\ c.len = n /\ c.at = e + 1 /\ c.fill = None
      BY <1>2, <1>3, <2>2 DEF Chunks
    <2>5. Holding(c, p + n, e + 1 + m, file, img)
      BY <1>2, <1>3, <2>1, <2>4 DEF Holding
    <2>6. Chunked(Append(acc.chunks, c), p + n, e + 1 + m, file, img)
      BY <1>2, <1>3, <1>4, <2>4, <2>5, ChunkedMore
    <2>7. Cared(acc.care \o <<p, p + n>>, p + n, img)
      BY <1>2, <1>3, <2>1, CaredMore
    <2>8. new \in Readers
      BY <1>2, <1>4, <1>6, <2>3, <2>4 DEF Readers
    <2> QED BY <1>1, <1>2, <1>4, <2>3, <2>6, <2>7, <2>8 DEF ReadOn, Good
  <1>8. CASE h.kind = "fill"
    <2>0. PICK v : v = file[e + 1].content
      OBVIOUS
    <2>1. m = 1 /\ v \in Contents /\ \A i \in 0..(n - 1) : img[p + i] = v
      BY <1>1, <1>8, <2>0 DEF Describes
    <2>2. PICK c : c = [start |-> p, len |-> n, at |-> 0, fill |-> v]
      OBVIOUS
    <2>3. new = [ok |-> acc.ok, at |-> e + 1 + m, pos |-> p + n,
                 care |-> acc.care \o <<p, p + n>>, chunks |-> Append(acc.chunks, c)]
      BY <1>1, <1>2, <1>8, <2>0, <2>1, <2>2 DEF ReadChunk, Readers
    <2>4. c \in Chunks /\ c.start = p /\ c.len = n /\ c.fill = v /\ v # None
      BY <1>2, <1>3, <1>5, <2>1, <2>2 DEF Chunks
    <2>5. Holding(c, p + n, e + 1 + m, file, img)
      BY <1>2, <1>3, <2>1, <2>4 DEF Holding
    <2>6. Chunked(Append(acc.chunks, c), p + n, e + 1 + m, file, img)
      BY <1>2, <1>3, <1>4, <2>4, <2>5, ChunkedMore
    <2>7. Cared(acc.care \o <<p, p + n>>, p + n, img)
      <3>1. \A i \in 0..(n - 1) : img[p + i] # None
        BY <2>1, <2>4
      <3> QED BY <1>2, <1>3, <3>1, CaredMore
    <2>8. new \in Readers
      BY <1>2, <1>4, <1>6, <2>3, <2>4 DEF Readers
    <2> QED BY <1>1, <1>2, <1>4, <2>3, <2>6, <2>7, <2>8 DEF ReadOn, Good
  <1>9. CASE h.kind = "dontcare"
    <2>1. m = 0 /\ \A i \in 0..(n - 1) : img[p + i] = None
      BY <1>1, <1>9 DEF Describes
    <2>2. new = [ok |-> acc.ok, at |-> e + 1 + m, pos |-> p + n,
                 care |-> acc.care, chunks |-> acc.chunks]
      BY <1>1, <1>2, <1>9, <2>1 DEF ReadChunk, Readers
    <2>3. Chunked(acc.chunks, p + n, e + 1 + m, file, img)
      BY <1>2, <1>3, <1>4, <2>1, ChunkedSkip
    <2>4. Cared(acc.care, p + n, img)
      BY <1>2, <1>3, <2>1, CaredSkip
    <2>5. new \in Readers
      BY <1>2, <1>4, <2>2 DEF Readers
    <2> QED BY <1>1, <1>2, <1>4, <2>2, <2>3, <2>4, <2>5 DEF ReadOn, Good
  <1>10. h.kind \in {"raw", "fill", "dontcare"}
    BY DEF Describes
  <1> QED BY <1>7, <1>8, <1>9, <1>10

ReadStart == [ok |-> TRUE, at |-> 2, pos |-> 0, care |-> <<>>, chunks |-> <<>>]

(* g is what is read chunk by chunk, of n chunks before cell end.          *)
Trace(g, n, file, end) ==
    /\ g[1] = ReadStart
    /\ \A k \in 1..n :
          /\ g[k + 1] = ReadChunk(file, g[k])
          /\ g[k].at \in Nat /\ g[k].at >= 2 /\ g[k].at < end
          /\ file[g[k].at].kind = "fill" => g[k].at + 1 < end

(* Reading n chunks of file comes to acc. *)
Read(file, n, acc) == \E g : Trace(g, n, file, acc.at) /\ acc = g[n + 1]

LEMMA ReadNothing ==
  ASSUME NEW file, NEW img \in Images
  PROVE  Read(file, 0, ReadStart) /\ Good(ReadStart, file, img)
  <1>1. PICK g : g = [k \in 1..1 |-> ReadStart]
    OBVIOUS
  <1>2. g[1] = ReadStart /\ 0 + 1 = 1
    BY <1>1
  <1>3. Read(file, 0, ReadStart)
    BY <1>2 DEF Read, Trace
  <1>4. PICK acc : acc = ReadStart
    OBVIOUS
  <1>5. /\ acc.ok = TRUE /\ acc.at = 2 /\ acc.pos = 0 /\ acc.care = <<>> /\ acc.chunks = <<>>
        /\ acc \in Readers
    BY <1>4 DEF ReadStart, Readers
  <1>6. Cared(acc.care, acc.pos, img)
    <2>1. WithData(img, 0) = {} /\ \A i \in 1..Len(<<>>) : FALSE
      BY DEF WithData
    <2> QED BY <1>5, <2>1, PlainEmpty DEF Cared
  <1>7. Chunked(acc.chunks, acc.pos, acc.at, file, img)
    <2>1. <<>> \in Seq(Chunks) /\ (\A i \in 1..Len(<<>>) : FALSE) /\ (\A b \in 0..(0 - 1) : FALSE)
      OBVIOUS
    <2> QED BY <1>5, <2>1 DEF Chunked
  <1> QED BY <1>3, <1>4, <1>5, <1>6, <1>7 DEF Good

LEMMA ReadSame ==
  ASSUME NEW file, NEW later, NEW n, NEW acc, acc.at \in Nat, Read(file, n, acc),
         \A i \in 2..(acc.at - 1) : later[i] = file[i]
  PROVE  Read(later, n, acc)
  <1>1. PICK g : Trace(g, n, file, acc.at) /\ acc = g[n + 1]
    BY DEF Read
  <1>2. ASSUME NEW k \in 1..n
        PROVE  /\ g[k + 1] = ReadChunk(later, g[k])
               /\ g[k].at \in Nat /\ g[k].at >= 2 /\ g[k].at < acc.at
               /\ later[g[k].at].kind = "fill" => g[k].at + 1 < acc.at
    <2>1. /\ g[k + 1] = ReadChunk(file, g[k])
          /\ g[k].at \in Nat /\ g[k].at >= 2 /\ g[k].at < acc.at
          /\ file[g[k].at].kind = "fill" => g[k].at + 1 < acc.at
      BY <1>1 DEF Trace
    <2>2. PICK a : a = g[k].at
      OBVIOUS
    <2>3. a \in 2..(acc.at - 1) /\ (file[a].kind = "fill" => a + 1 \in 2..(acc.at - 1))
      BY <2>1, <2>2
    <2>4. later[a] = file[a] /\ (file[a].kind = "fill" => later[a + 1] = file[a + 1])
      BY <2>3
    <2>5. ReadChunk(later, g[k]) = ReadChunk(file, g[k])
      BY <2>2, <2>4 DEF ReadChunk
    <2> QED BY <2>1, <2>2, <2>4, <2>5
  <1>3. Trace(g, n, later, acc.at)
    BY <1>1, <1>2 DEF Trace
  <1> QED BY <1>1, <1>3 DEF Read

LEMMA ReadMore ==
  ASSUME NEW file, NEW n \in Nat, NEW acc, Read(file, n, acc), acc.at \in Nat, acc.at >= 2,
         NEW new, new = ReadChunk(file, acc), new.at \in Nat, acc.at < new.at,
         file[acc.at].kind = "fill" => acc.at + 1 < new.at
  PROVE  Read(file, n + 1, new)
  <1>1. PICK g : Trace(g, n, file, acc.at) /\ acc = g[n + 1]
    BY DEF Read
  <1>2. PICK f : f = [k \in 1..(n + 2) |-> IF k = n + 2 THEN new ELSE g[k]]
    OBVIOUS
  <1>3. /\ f[n + 2] = new /\ f[(n + 1) + 1] = new
        /\ \A k \in 1..(n + 1) : f[k] = g[k]
    BY <1>2
  <1>4. ASSUME NEW k \in 1..(n + 1)
        PROVE  /\ f[k + 1] = ReadChunk(file, f[k])
               /\ f[k].at \in Nat /\ f[k].at >= 2 /\ f[k].at < new.at
               /\ file[f[k].at].kind = "fill" => f[k].at + 1 < new.at
    <2>1. CASE k = n + 1
      <3>1. f[k] = acc /\ f[k + 1] = new
        BY <1>1, <1>3, <2>1
      <3> QED BY <3>1
    <2>2. CASE k # n + 1
      <3>1. k \in 1..n /\ k + 1 \in 1..(n + 1)
        BY <2>2
      <3>2. f[k] = g[k] /\ f[k + 1] = g[k + 1]
        BY <1>3, <3>1
      <3>3. /\ g[k + 1] = ReadChunk(file, g[k])
            /\ g[k].at \in Nat /\ g[k].at >= 2 /\ g[k].at < acc.at
            /\ file[g[k].at].kind = "fill" => g[k].at + 1 < acc.at
        BY <1>1, <3>1 DEF Trace
      <3> QED BY <3>2, <3>3
    <2> QED BY <2>1, <2>2
  <1>5. f[1] = ReadStart
    BY <1>1, <1>3 DEF Trace
  <1>6. Trace(f, n + 1, file, new.at)
    BY <1>4, <1>5 DEF Trace
  <1> QED BY <1>3, <1>6 DEF Read

LEMMA ReadChunksIs ==
  ASSUME NEW file, NEW n \in Nat, NEW acc, Read(file, n, acc),
         file[1].kind = "file", file[1].size = n
  PROVE  ReadChunks(file) = acc
  <1> DEFINE s == [i \in 1..n |-> i]
             base == [ok |-> TRUE, at |-> 2, pos |-> 0, care |-> <<>>, chunks |-> <<>>]
             Same(iter) ==
               iter = [u \in SUBSET DOMAIN s |->
                         IF u = {} THEN base
                         ELSE LET x == Max(u) IN ReadChunk(file, iter[u \ {x}])]
  <1>1. PICK g : Trace(g, n, file, acc.at) /\ acc = g[n + 1]
    BY DEF Read
  <1>2. g[1] = base /\ \A k \in 1..n : g[k + 1] = ReadChunk(file, g[k])
    BY <1>1 DEF Trace, ReadStart
  <1>3. ReadChunks(file) = (CHOOSE iter : Same(iter))[DOMAIN s]
    BY DEF ReadChunks, FoldLeft, MapThenFoldSet
  <1>4. DOMAIN s = 1..n
    OBVIOUS
  <1> HIDE DEF s, base
  <1> DEFINE e == [u \in SUBSET (1..n) |-> g[Cardinality(u) + 1]]
  <1>5. ASSUME NEW u \in SUBSET (1..n), u # {}
        PROVE  g[Cardinality(u) + 1] = ReadChunk(file, e[u \ {Max(u)}])
    <2>1. PICK m : m = Max(u) /\ m \in u
      BY <1>5, MaxOf
    <2>2. IsFiniteSet(1..n) /\ Cardinality(1..n) = n
      BY FS_Interval
    <2>3. IsFiniteSet(u) /\ Cardinality(u) <= n
      BY <2>2, FS_Subset
    <2>4. Cardinality(u) \in Nat /\ Cardinality(u \ {m}) = Cardinality(u) - 1 /\ IsFiniteSet(u \ {m})
      BY <2>1, <2>3, FS_RemoveElement, FS_CardinalityType
    <2>5. Cardinality(u \ {m}) \in Nat
      BY <2>4, FS_CardinalityType
    <2>6. PICK c : c = Cardinality(u)
      OBVIOUS
    <2>7. c \in 1..n /\ (c - 1) + 1 = c
      BY <2>3, <2>4, <2>5, <2>6
    <2>8. e[u \ {m}] = g[c]
      <3>1. u \ {m} \in SUBSET (1..n)
        OBVIOUS
      <3> QED BY <2>4, <2>6, <2>7, <3>1
    <2> HIDE DEF e
    <2> QED BY <1>2, <2>1, <2>6, <2>7, <2>8
  <1>6. Same(e)
    <2>1. Cardinality({}) = 0
      BY FS_EmptySet
    <2>2. e[{}] = base
      BY <1>2, <2>1
    <2>3. \A u \in SUBSET (1..n) : u # {} => e[u] = ReadChunk(file, e[u \ {Max(u)}])
      BY <1>5
    <2>4. e = [u \in SUBSET (1..n) |-> e[u]]
      OBVIOUS
    <2> HIDE DEF e
    <2> QED BY <1>4, <2>2, <2>3, <2>4
  <1>7. PICK it : Same(it) /\ ReadChunks(file) = it[DOMAIN s]
    <2> HIDE DEF Same
    <2> QED BY <1>3, <1>6, Zenon
  <1>8. it[{}] = base
    BY <1>7
  <1>9. ASSUME NEW k \in 1..n PROVE it[1..k] = ReadChunk(file, it[1..(k - 1)])
    <2>1. /\ 1..k \in SUBSET DOMAIN s /\ 1..k # {} /\ Max(1..k) = k
          /\ (1..k) \ {k} = 1..(k - 1)
      BY <1>4, UpTo
    <2> QED BY <1>7, <2>1
  <1> HIDE DEF Same
  <1> DEFINE S == {k \in Nat : k <= n => it[1..k] = g[k + 1]}
  <1>10. 0 \in S
    <2>1. 1..0 = {}
      OBVIOUS
    <2> QED BY <1>2, <1>8, <2>1
  <1>11. ASSUME NEW k \in Nat, k \in S PROVE k + 1 \in S
    <2>1. SUFFICES ASSUME NEW j \in 1..n, j = k + 1 PROVE it[1..j] = g[j + 1]
      OBVIOUS
    <2>2. it[1..(j - 1)] = g[j]
      BY <1>11, <2>1
    <2> QED BY <1>2, <1>9, <2>2
  <1>12. Nat \subseteq S
    BY <1>10, <1>11, SetInduction
  <1> QED BY <1>1, <1>4, <1>7, <1>12

-------------------------------------------------------------------------------
(* The writer, by what a reader will find.                                 *)

(* The chunk the writer has begun says what img has from acc.pos on.       *)
Begun(w, acc, img) ==
    /\ w.ctype # None
    /\ w.ctype = "raw" =>
         \A i \in 0..(w.csize - 1) :
            img[acc.pos + i] # None /\ w.file[acc.at + 1 + i].content = img[acc.pos + i]
    /\ w.ctype = "fill" =>
         w.cval \in Contents /\ \A i \in 0..(w.csize - 1) : img[acc.pos + i] = w.cval
    /\ w.ctype = "dontcare" => \A i \in 0..(w.csize - 1) : img[acc.pos + i] = None

(* w has the blocks of img so far: those of the closed chunks, which read  *)
(* as acc, and those of the chunk it has begun.                            *)
Saved(w, acc, img) ==
    /\ w \in Writers /\ w.pos = Len(w.file) + 1
    /\ Good(acc, w.file, img) /\ Read(w.file, w.nchunks, acc)
    /\ acc.pos + w.csize = w.nblocks
    /\ acc.at = IF w.csize = 0 THEN Len(w.file) + 1 ELSE HeaderAt(w)
    /\ w.csize # 0 => Begun(w, acc, img)
    /\ w.ctype # "fill" => w.cval = None

(* Only a chunk that has blocks has a type. *)
Settled(w) == w.csize = 0 => w.ctype = None

LEMMA SavedTypes ==
  ASSUME NEW w, NEW acc, NEW img, Saved(w, acc, img)
  PROVE  /\ w.file \in Seq(Cells) /\ Len(w.file) \in Nat /\ w.csize \in Nat /\ w.nchunks \in Nat
         /\ w.nblocks \in Nat /\ w.ctype \in Types /\ w.cval \in Contents \union {None}
         /\ acc.at \in Nat /\ acc.at >= 2 /\ acc.pos \in Nat /\ acc.ok
  <1>1. w \in Writers /\ acc \in Readers /\ acc.at >= 2 /\ acc.ok
    BY DEF Saved, Good
  <1> QED BY <1>1 DEF Writers, Readers

LEMMA CloseSaved ==
  ASSUME NEW img \in Images, NEW w, NEW acc, Saved(w, acc, img)
  PROVE  \E next : /\ Saved(CloseChunk(w), next, img)
                   /\ CloseChunk(w).csize = 0 /\ CloseChunk(w).nblocks = w.nblocks
                   /\ CloseChunk(w).ctype = w.ctype /\ CloseChunk(w).cval = w.cval
  <1>1. CASE w.csize = 0
    <2>1. CloseChunk(w) = w
      BY <1>1 DEF CloseChunk
    <2> QED BY <1>1, <2>1
  <1>2. CASE w.csize # 0
    <2>1. /\ w \in Writers /\ w.file \in Seq(Cells) /\ Len(w.file) \in Nat /\ w.csize \in Nat
          /\ w.nchunks \in Nat /\ w.nblocks \in Nat /\ w.ctype \in Types
          /\ acc.at \in Nat /\ acc.at >= 2 /\ acc.pos \in Nat
      BY SavedTypes DEF Saved
    <2>2. /\ w.pos = Len(w.file) + 1 /\ Good(acc, w.file, img) /\ Read(w.file, w.nchunks, acc)
          /\ acc.pos + w.csize = w.nblocks /\ acc.at = HeaderAt(w) /\ Begun(w, acc, img)
          /\ w.ctype # "fill" => w.cval = None
      BY <1>2 DEF Saved
    <2>3. PICK a, c, L : a = acc.at /\ c = w.csize /\ L = Len(w.file)
      OBVIOUS
    <2>4. a \in Nat /\ c \in Nat /\ L \in Nat /\ c # 0 /\ a >= 2
          /\ a = IF w.ctype = "raw" THEN L - c ELSE L + 1
      BY <1>2, <2>1, <2>2, <2>3 DEF HeaderAt
    <2>5. Closable(w)
      <3>1. w.ctype = "raw" => w.csize < Len(w.file)
        BY <2>3, <2>4
      <3> QED BY <1>2, <2>1, <2>2, <3>1 DEF Closable, Begun
    <2>6. PICK new : new = CloseChunk(w) /\ ClosedAs(new, w)
      BY <2>5, CloseChunkIs
    <2>7. PICK n, h : n = ChunkCells(w) /\ h = ChunkHeader(w.ctype, w.csize, n)
      OBVIOUS
    <2>8. /\ new \in Writers /\ new.pos = Len(new.file) + 1
          /\ new.ctype = w.ctype /\ new.cval = w.cval /\ new.csize = 0
          /\ new.nchunks = w.nchunks + 1 /\ new.nblocks = w.nblocks
          /\ new.file[a] = h
          /\ w.ctype = "fill" => new.file[a + 1] = Data(w.cval)
          /\ Len(new.file) = a + n
          /\ \A i \in 1..L : i # a => new.file[i] = w.file[i]
      BY <2>2, <2>3, <2>6, <2>7 DEF ClosedAs
    <2>9. h.kind = w.ctype /\ h.blocks = c /\ h.size = n
      BY <2>3, <2>7 DEF ChunkHeader
    <2>10. w.ctype = "raw" \/ w.ctype = "dontcare" \/ w.ctype = "fill"
      BY <2>1, <2>2 DEF Types, Begun
    <2>11. n = (IF w.ctype = "raw" THEN c ELSE IF w.ctype = "dontcare" THEN 0 ELSE 1) /\ n \in Nat
      BY <2>3, <2>4, <2>7 DEF ChunkCells
    <2>12. \A i \in 2..(acc.at - 1) : new.file[i] = w.file[i]
      <3>1. \A i \in 2..(a - 1) : i \in 1..L /\ i # a
        BY <2>4
      <3> QED BY <2>3, <2>8, <3>1
    <2>13. Good(acc, new.file, img)
      BY <2>2, <2>12, GoodSame
    <2>14. Read(new.file, w.nchunks, acc)
      BY <2>1, <2>2, <2>12, ReadSame
    <2>15. Describes(h, acc, new.file, img)
      <3>1. CASE w.ctype = "raw"
        <4>1. \A i \in 0..(c - 1) : a + 1 + i \in 1..L /\ a + 1 + i # a
          BY <2>4, <3>1
        <4>2. \A i \in 0..(c - 1) : new.file[a + 1 + i] = w.file[a + 1 + i]
          BY <2>8, <4>1
        <4>3. \A i \in 0..(c - 1) :
                 img[acc.pos + i] # None /\ new.file[a + 1 + i].content = img[acc.pos + i]
          BY <2>2, <2>3, <3>1, <4>2 DEF Begun
        <4> QED BY <2>3, <2>4, <2>9, <2>11, <3>1, <4>3 DEF Describes
      <3>2. CASE w.ctype = "fill"
        <4>1. new.file[a + 1].content = w.cval
          BY <2>8, <3>2 DEF Data
        <4> QED BY <2>2, <2>3, <2>4, <2>9, <2>11, <3>2, <4>1 DEF Describes, Begun
      <3>3. CASE w.ctype = "dontcare"
        BY <2>2, <2>3, <2>4, <2>9, <2>11, <3>3 DEF Describes, Begun
      <3> QED BY <2>10, <3>1, <3>2, <3>3
    <2>16. PICK next : next = ReadChunk(new.file, acc) /\ ReadOn(next, acc, h, new.file, img)
      BY <2>3, <2>8, <2>13, <2>15, ReadChunkIs
    <2>17. next.pos = acc.pos + c /\ next.at = a + 1 + n /\ Good(next, new.file, img)
      BY <2>3, <2>9, <2>16 DEF ReadOn
    <2>170. a \in Nat /\ n \in Nat /\ c \in Nat
      BY <2>4, <2>11
    <2>171. PICK x : x = next.at
      OBVIOUS
    <2>172. x = a + 1 + n /\ x \in Nat /\ a < x /\ x = (a + n) + 1
      BY <2>17, <2>170, <2>171
    <2>18. Read(new.file, w.nchunks + 1, next)
      <3>1. next.at \in Nat /\ acc.at < next.at
        BY <2>3, <2>171, <2>172
      <3>2. new.file[acc.at].kind = "fill" => acc.at + 1 < next.at
        <4>1. SUFFICES ASSUME h.kind = "fill" PROVE a + 1 < x
          BY <2>3, <2>8, <2>171
        <4>2. n = 1
          BY <2>9, <2>11, <4>1
        <4> QED BY <2>170, <2>172, <4>2
      <3> QED BY <2>1, <2>14, <2>16, <3>1, <3>2, ReadMore
    <2>19. /\ next.at = Len(new.file) + 1 /\ next.pos + new.csize = new.nblocks
      <3>1. next.at = Len(new.file) + 1
        BY <2>8, <2>171, <2>172
      <3>2. next.pos + 0 = w.nblocks
        BY <2>1, <2>2, <2>3, <2>17
      <3> QED BY <2>8, <3>1, <3>2
    <2>20. Saved(new, next, img)
      BY <2>2, <2>8, <2>17, <2>18, <2>19 DEF Saved
    <2> QED BY <2>6, <2>8, <2>20
  <1> QED BY <1>1, <1>2

(* new is w with n blocks more in a chunk of the given type. *)
GrownAs(new, w, ctype, cval, n) ==
    /\ new \in Writers /\ new.file = w.file /\ new.pos = w.pos
    /\ new.ctype = ctype /\ new.cval = cval
    /\ new.csize = w.csize + n /\ new.nblocks = w.nblocks + n /\ new.nchunks = w.nchunks

LEMMA GrownIs ==
  ASSUME NEW w \in Writers, NEW ctype \in Types, NEW cval \in Contents \union {None}, NEW n \in Nat
  PROVE  GrownAs([w EXCEPT !.ctype = ctype, !.cval = cval, !.csize = @ + n, !.nblocks = @ + n],
                 w, ctype, cval, n)
  <1>0. PICK new : new = [w EXCEPT !.ctype = ctype, !.cval = cval, !.csize = @ + n, !.nblocks = @ + n]
    OBVIOUS
  <1>1. new = [file |-> w.file, pos |-> w.pos, ctype |-> ctype, cval |-> cval,
               csize |-> w.csize + n, nchunks |-> w.nchunks, nblocks |-> w.nblocks + n]
    BY <1>0 DEF Writers
  <1>2. new \in Writers
    BY <1>1 DEF Writers
  <1> QED BY <1>0, <1>1, <1>2 DEF GrownAs

(* n blocks that are not data, or all the same, join a chunk that has no   *)
(* data in the file yet.                                                   *)
LEMMA GrownSaved ==
  ASSUME NEW img \in Images, NEW w, NEW acc, Saved(w, acc, img),
         NEW ctype \in {"fill", "dontcare"}, NEW cval, NEW n \in Nat, n # 0,
         w.csize # 0 => w.ctype = ctype /\ w.cval = cval,
         ctype = "fill" => cval \in Contents, ctype = "dontcare" => cval = None,
         \A i \in 0..(n - 1) : img[w.nblocks + i] = cval,
         NEW new, GrownAs(new, w, ctype, cval, n)
  PROVE  Saved(new, acc, img)
  <1>1. /\ w \in Writers /\ w.csize \in Nat /\ w.nblocks \in Nat /\ acc.pos \in Nat
        /\ acc.pos + w.csize = w.nblocks
        /\ acc.at = IF w.csize = 0 THEN Len(w.file) + 1 ELSE HeaderAt(w)
    BY SavedTypes DEF Saved
  <1>2. /\ new \in Writers /\ new.file = w.file /\ new.pos = w.pos /\ new.ctype = ctype
        /\ new.cval = cval /\ new.csize = w.csize + n /\ new.nblocks = w.nblocks + n
        /\ new.nchunks = w.nchunks
    BY DEF GrownAs
  <1>3. PICK p, c : p = acc.pos /\ c = w.csize /\ p \in Nat /\ c \in Nat /\ w.nblocks = p + c
    BY <1>1
  <1>4. acc.at = Len(w.file) + 1
    BY <1>1 DEF HeaderAt
  <1>5. HeaderAt(new) = Len(w.file) + 1 /\ new.csize # 0
    BY <1>2, <1>3 DEF HeaderAt
  <1>6. p + (c + n) = (p + c) + n
    BY <1>3
  <1>7. ASSUME NEW i \in 0..((c + n) - 1) PROVE img[p + i] = cval
    <2>1. CASE i \in 0..(c - 1)
      <3>1. c # 0
        BY <1>3, <2>1
      <3>2. Begun(w, acc, img) /\ w.ctype = ctype /\ w.cval = cval
        BY <1>3, <3>1 DEF Saved
      <3> QED BY <1>3, <2>1, <3>2 DEF Begun
    <2>2. CASE ~(i \in 0..(c - 1))
      <3>1. i - c \in 0..(n - 1) /\ (p + c) + (i - c) = p + i
        BY <1>3, <2>2
      <3> QED BY <1>3, <3>1
    <2> QED BY <2>1, <2>2
  <1>8. Begun(new, acc, img)
    <2>1. \A i \in 0..(new.csize - 1) : img[acc.pos + i] = cval
      BY <1>2, <1>3, <1>7
    <2>2. ctype # None
      BY DEF None
    <2> QED BY <1>2, <2>1, <2>2 DEF Begun
  <1>9. ctype # "fill" => cval = None
    OBVIOUS
  <1> QED BY <1>2, <1>3, <1>4, <1>5, <1>6, <1>8, <1>9 DEF Saved

(* _add_pad_blocks *)
LEMMA PadSaved ==
  ASSUME NEW img \in Images, NEW w, NEW acc, Saved(w, acc, img), NEW n \in Nat, n # 0,
         \A i \in 0..(n - 1) : img[w.nblocks + i] = None
  PROVE  \E next : /\ Saved(AddPadBlocks(w, n), next, img)
                   /\ AddPadBlocks(w, n).nblocks = w.nblocks + n /\ AddPadBlocks(w, n).csize # 0
  <1>1. PICK r : r = IF w.ctype # "dontcare" THEN CloseChunk(w) ELSE w
    OBVIOUS
  <1>2. PICK next : Saved(r, next, img) /\ r.nblocks = w.nblocks
                    /\ (r.csize # 0 => r.ctype = "dontcare" /\ r.cval = None)
    <2>1. CASE w.ctype # "dontcare"
      <3>1. r = CloseChunk(w)
        BY <1>1, <2>1
      <3> QED BY <3>1, CloseSaved
    <2>2. CASE w.ctype = "dontcare"
      <3>1. r = w
        BY <1>1, <2>2
      <3>2. w.cval = None
        BY <2>2 DEF Saved
      <3> QED BY <2>2, <3>1, <3>2
    <2> QED BY <2>1, <2>2
  <1>3. PICK new : new = AddPadBlocks(w, n)
    OBVIOUS
  <1>4. ~(n <= 0)
    OBVIOUS
  <1>5. new = [r EXCEPT !.ctype = "dontcare", !.cval = None, !.csize = @ + n, !.nblocks = @ + n]
    BY <1>1, <1>3, <1>4 DEF AddPadBlocks
  <1>6. r \in Writers /\ "dontcare" \in Types /\ None \in Contents \union {None}
    BY <1>2 DEF Saved, Types
  <1>7. GrownAs(new, r, "dontcare", None, n)
    BY <1>5, <1>6, GrownIs
  <1>8. Saved(new, next, img)
    BY <1>2, <1>7, GrownSaved
  <1>9. new.nblocks = w.nblocks + n /\ new.csize # 0
    <2>1. r.csize \in Nat
      BY <1>6 DEF Writers
    <2>2. new.csize = r.csize + n /\ new.nblocks = r.nblocks + n
      BY <1>7 DEF GrownAs
    <2> QED BY <1>2, <2>1, <2>2
  <1> QED BY <1>3, <1>8, <1>9

(* A writer that has one cell more. *)
LEMMA PutAtEnd ==
  ASSUME NEW w \in Writers, w.pos = Len(w.file) + 1, NEW cell \in Cells
  PROVE  /\ PutAs(Put(w, cell), w, cell)
         /\ Len(Put(w, cell).file) = Len(w.file) + 1
         /\ Put(w, cell).pos = Len(Put(w, cell).file) + 1
         /\ Put(w, cell).file[Len(w.file) + 1] = cell
         /\ \A i \in 1..Len(w.file) : Put(w, cell).file[i] = w.file[i]
  <1>1. Len(w.file) \in Nat
    BY DEF Writers
  <1>2. w.pos \in 1..(Len(w.file) + 1) /\ ~(w.pos <= Len(w.file))
    BY <1>1
  <1>3. PICK new : new = Put(w, cell) /\ PutAs(new, w, cell)
    BY <1>2, PutIs
  <1>4. \A i \in 1..Len(w.file) : i # w.pos
    BY <1>1
  <1>5. /\ new.pos = w.pos + 1 /\ Len(new.file) = Len(w.file) + 1 /\ new.file[w.pos] = cell
        /\ \A i \in 1..Len(w.file) : new.file[i] = w.file[i]
    BY <1>2, <1>3, <1>4 DEF PutAs
  <1> QED BY <1>3, <1>5

(* One more block of raw data in a chunk that has some. *)
LEMMA RawSaved ==
  ASSUME NEW img \in Images, NEW w, NEW acc, Saved(w, acc, img), w.ctype = "raw", w.csize # 0,
         NEW v \in Contents, img[w.nblocks] = v,
         NEW new, GrownAs(new, Put(w, Data(v)), "raw", None, 1)
  PROVE  Saved(new, acc, img)
  <1>1. /\ w \in Writers /\ w.csize \in Nat /\ w.nblocks \in Nat /\ acc.pos \in Nat /\ acc.at \in Nat
        /\ Len(w.file) \in Nat /\ w.pos = Len(w.file) + 1
        /\ acc.pos + w.csize = w.nblocks /\ acc.at = HeaderAt(w) /\ Begun(w, acc, img)
    BY SavedTypes DEF Saved
  <1>2. PICK b : b = Put(w, Data(v))
    OBVIOUS
  <1>3. /\ PutAs(b, w, Data(v)) /\ Len(b.file) = Len(w.file) + 1 /\ b.pos = Len(b.file) + 1
        /\ b.file[Len(w.file) + 1] = Data(v)
        /\ \A i \in 1..Len(w.file) : b.file[i] = w.file[i]
    BY <1>1, <1>2, CellsAre, PutAtEnd
  <1>4. /\ new \in Writers /\ new.file = b.file /\ new.pos = b.pos /\ new.ctype = "raw"
        /\ new.cval = None /\ new.csize = w.csize + 1 /\ new.nblocks = w.nblocks + 1
        /\ new.nchunks = w.nchunks
    BY <1>2, <1>3 DEF GrownAs, PutAs
  <1>5. PICK p, c, L, a : p = acc.pos /\ c = w.csize /\ L = Len(w.file) /\ a = acc.at
    OBVIOUS
  <1>6. p \in Nat /\ c \in Nat /\ L \in Nat /\ a \in Nat /\ a = L - c /\ w.nblocks = p + c /\ c # 0
    BY <1>1, <1>5 DEF HeaderAt
  <1>7. /\ HeaderAt(new) = acc.at /\ new.csize # 0 /\ acc.pos + new.csize = new.nblocks
        /\ new.pos = Len(new.file) + 1
    <2>1. HeaderAt(new) = (L + 1) - (c + 1)
      BY <1>3, <1>4, <1>5 DEF HeaderAt
    <2>2. (L + 1) - (c + 1) = a /\ p + (c + 1) = (p + c) + 1 /\ c + 1 # 0
      BY <1>6
    <2> QED BY <1>3, <1>4, <1>5, <1>6, <2>1, <2>2
  <1>8. \A i \in 2..(acc.at - 1) : new.file[i] = w.file[i]
    <2>1. \A i \in 2..(a - 1) : i \in 1..L
      BY <1>6
    <2> QED BY <1>3, <1>4, <1>5, <2>1
  <1>9. Good(acc, new.file, img) /\ Read(new.file, new.nchunks, acc)
    <2>1. Good(acc, w.file, img) /\ Read(w.file, w.nchunks, acc)
      BY DEF Saved
    <2> QED BY <1>1, <1>4, <1>8, <2>1, GoodSame, ReadSame
  <1>10. ASSUME NEW i \in 0..((c + 1) - 1)
         PROVE  img[p + i] # None /\ new.file[a + 1 + i].content = img[p + i]
    <2>1. CASE i \in 0..(c - 1)
      <3>1. a + 1 + i \in 1..L
        BY <1>6, <2>1
      <3>2. new.file[a + 1 + i] = w.file[a + 1 + i]
        BY <1>3, <1>4, <1>5, <3>1
      <3> QED BY <1>1, <1>5, <2>1, <3>2 DEF Begun
    <2>2. CASE ~(i \in 0..(c - 1))
      <3>1. i = c /\ a + 1 + i = L + 1
        BY <1>6, <2>2
      <3>2. new.file[a + 1 + i] = Data(v) /\ img[p + i] = v
        BY <1>3, <1>4, <1>5, <1>6, <3>1
      <3>3. v # None
        BY ContentAssumption DEF Contents
      <3> QED BY <3>2, <3>3 DEF Data
    <2> QED BY <2>1, <2>2
  <1>11. Begun(new, acc, img)
    <2>1. \A i \in 0..(new.csize - 1) :
             img[acc.pos + i] # None /\ new.file[acc.at + 1 + i].content = img[acc.pos + i]
      BY <1>4, <1>5, <1>10
    <2>2. "raw" # None
      BY DEF None
    <2> QED BY <1>4, <2>1, <2>2 DEF Begun
  <1> QED BY <1>4, <1>7, <1>9, <1>11 DEF Saved

(* The first block of raw data, behind room for a header. *)
LEMMA RawBegun ==
  ASSUME NEW img \in Images, NEW w, NEW acc, Saved(w, acc, img), w.csize = 0,
         NEW v \in Contents, img[w.nblocks] = v,
         NEW new, GrownAs(new, Put(Put(w, Room), Data(v)), "raw", None, 1)
  PROVE  Saved(new, acc, img)
  <1>1. /\ w \in Writers /\ w.nblocks \in Nat /\ acc.pos \in Nat /\ acc.at \in Nat
        /\ Len(w.file) \in Nat /\ w.pos = Len(w.file) + 1
        /\ acc.pos + 0 = w.nblocks /\ acc.at = Len(w.file) + 1
    BY SavedTypes DEF Saved
  <1>2. PICK a, b : a = Put(w, Room) /\ b = Put(a, Data(v))
    OBVIOUS
  <1>3. /\ PutAs(a, w, Room) /\ Len(a.file) = Len(w.file) + 1 /\ a.pos = Len(a.file) + 1
        /\ \A i \in 1..Len(w.file) : a.file[i] = w.file[i]
    BY <1>1, <1>2, CellsAre, PutAtEnd
  <1>4. /\ a \in Writers /\ a.csize = 0 /\ a.nblocks = w.nblocks /\ a.nchunks = w.nchunks
    BY <1>3 DEF PutAs
  <1>5. /\ PutAs(b, a, Data(v)) /\ Len(b.file) = Len(a.file) + 1 /\ b.pos = Len(b.file) + 1
        /\ b.file[Len(a.file) + 1] = Data(v)
        /\ \A i \in 1..Len(a.file) : b.file[i] = a.file[i]
    BY <1>2, <1>3, <1>4, CellsAre, PutAtEnd
  <1>6. /\ new \in Writers /\ new.file = b.file /\ new.pos = b.pos /\ new.ctype = "raw"
        /\ new.cval = None /\ new.csize = 1 /\ new.nblocks = w.nblocks + 1
        /\ new.nchunks = w.nchunks
    BY <1>2, <1>4, <1>5 DEF GrownAs, PutAs
  <1>7. PICK p, L : p = acc.pos /\ L = Len(w.file) /\ p \in Nat /\ L \in Nat
    BY <1>1
  <1>8. /\ w.nblocks = p /\ acc.at = L + 1 /\ Len(new.file) = L + 2
        /\ new.file[L + 2] = Data(v)
        /\ \A i \in 1..L : new.file[i] = w.file[i]
    <2>1. \A i \in 1..L : i \in 1..(L + 1)
      BY <1>7
    <2>2. Len(a.file) = L + 1 /\ Len(b.file) = (L + 1) + 1 /\ b.file[(L + 1) + 1] = Data(v)
      BY <1>3, <1>5, <1>7
    <2>3. (L + 1) + 1 = L + 2 /\ p + 0 = p
      BY <1>7
    <2> QED BY <1>1, <1>3, <1>5, <1>6, <1>7, <2>1, <2>2, <2>3
  <1>9. /\ HeaderAt(new) = acc.at /\ new.csize # 0 /\ acc.pos + new.csize = new.nblocks
        /\ new.pos = Len(new.file) + 1
    <2>1. HeaderAt(new) = (L + 2) - 1
      BY <1>6, <1>8 DEF HeaderAt
    <2> QED BY <1>5, <1>6, <1>7, <1>8, <2>1
  <1>10. \A i \in 2..(acc.at - 1) : new.file[i] = w.file[i]
    BY <1>7, <1>8
  <1>11. Good(acc, new.file, img) /\ Read(new.file, new.nchunks, acc)
    <2>1. Good(acc, w.file, img) /\ Read(w.file, w.nchunks, acc)
      BY DEF Saved
    <2> QED BY <1>1, <1>6, <1>10, <2>1, GoodSame, ReadSame
  <1>12. Begun(new, acc, img)
    <2>1. \A i \in 0..(1 - 1) :
             img[acc.pos + i] # None /\ new.file[acc.at + 1 + i].content = img[acc.pos + i]
      <3>1. SUFFICES img[acc.pos + 0] # None /\ new.file[acc.at + 1 + 0].content = img[acc.pos + 0]
        OBVIOUS
      <3>2. acc.pos + 0 = w.nblocks /\ acc.at + 1 + 0 = L + 2
        BY <1>1, <1>7, <1>8
      <3>3. v # None
        BY ContentAssumption DEF Contents
      <3> QED BY <1>8, <3>2, <3>3 DEF Data
    <2>2. "raw" # None
      BY DEF None
    <2> QED BY <1>6, <2>1, <2>2 DEF Begun
  <1> QED BY <1>6, <1>9, <1>11, <1>12 DEF Saved

(* What the file is to say of a block with content v. *)
Shown(v, dontCare) == IF v \in dontCare THEN None ELSE v

(* _add_data_block *)
LEMMA AddSaved ==
  ASSUME NEW img \in Images, NEW w, NEW acc, Saved(w, acc, img), Settled(w),
         NEW v \in Contents, NEW dontCare, dontCare \subseteq Fills,
         img[w.nblocks] = Shown(v, dontCare)
  PROVE  \E next : /\ Saved(AddDataBlock(w, v, dontCare), next, img)
                   /\ AddDataBlock(w, v, dontCare).nblocks = w.nblocks + 1
                   /\ Settled(AddDataBlock(w, v, dontCare))
  <1>1. PICK type : type = TypeOfBlock(v, dontCare)
    OBVIOUS
  <1>2. /\ type.ctype \in {"raw", "fill", "dontcare"}
        /\ type.ctype = "dontcare" => type.cval = None /\ v \in dontCare
        /\ type.ctype = "fill" => type.cval = v /\ ~(v \in dontCare)
        /\ type.ctype = "raw" => type.cval = None /\ ~(v \in dontCare)
    <2>0. "raw" # "fill" /\ "raw" # "dontcare" /\ "fill" # "dontcare"
      OBVIOUS
    <2>1. CASE v \in Fills /\ v \in dontCare
      <3>1. type = [ctype |-> "dontcare", cval |-> None]
        BY <1>1, <2>1 DEF TypeOfBlock
      <3> QED BY <2>1, <3>1
    <2>3. CASE v \in Fills /\ ~(v \in dontCare)
      <3>1. type = [ctype |-> "fill", cval |-> v]
        BY <1>1, <2>3 DEF TypeOfBlock
      <3> QED BY <2>3, <3>1
    <2>2. CASE ~(v \in Fills)
      <3>1. type = [ctype |-> "raw", cval |-> None]
        BY <1>1, <2>2 DEF TypeOfBlock
      <3> QED BY <2>2, <3>1
    <2> QED BY <2>1, <2>2, <2>3
  <1>3. PICK r : r = IF <<w.ctype, w.cval>> # <<type.ctype, type.cval>> THEN CloseChunk(w) ELSE w
    OBVIOUS
  <1>4. PICK next : /\ Saved(r, next, img) /\ r.nblocks = w.nblocks
                    /\ IF r.csize = 0 THEN r.ctype # "raw" \/ type.ctype # "raw"
                                      ELSE r.ctype = type.ctype /\ r.cval = type.cval
    <2>0. w.ctype # "fill" => w.cval = None
      BY DEF Saved
    <2>1. CASE <<w.ctype, w.cval>> # <<type.ctype, type.cval>>
      <3>1. r = CloseChunk(w)
        BY <1>3, <2>1
      <3>2. PICK next : /\ Saved(r, next, img) /\ r.csize = 0 /\ r.nblocks = w.nblocks
                        /\ r.ctype = w.ctype /\ r.cval = w.cval
        BY <3>1, CloseSaved
      <3>3. w.ctype # type.ctype \/ w.cval # type.cval
        BY <2>1
      <3>4. r.ctype # "raw" \/ type.ctype # "raw"
        BY <1>2, <2>0, <3>2, <3>3
      <3> QED BY <3>2, <3>4
    <2>2. CASE <<w.ctype, w.cval>> = <<type.ctype, type.cval>>
      <3>1. r = w /\ w.ctype = type.ctype /\ w.cval = type.cval
        BY <1>3, <2>2
      <3>2. w.csize # 0
        <4>1. type.ctype # None
          BY <1>2 DEF None
        <4> QED BY <3>1, <4>1 DEF Settled
      <3> QED BY <3>1, <3>2
    <2> QED BY <2>1, <2>2
  <1>5. PICK b : b = IF type.ctype # "raw" THEN r
                     ELSE Put(IF r.ctype # "raw" THEN Put(r, Room) ELSE r, Data(v))
    OBVIOUS
  <1>6. PICK new : new = AddDataBlock(w, v, dontCare)
    OBVIOUS
  <1>7. new = [b EXCEPT !.ctype = type.ctype, !.cval = type.cval, !.csize = @ + 1, !.nblocks = @ + 1]
    BY <1>1, <1>3, <1>5, <1>6 DEF AddDataBlock
  <1>8. /\ r \in Writers /\ r.pos = Len(r.file) + 1 /\ r.csize \in Nat /\ r.nblocks \in Nat
        /\ type.ctype \in Types /\ type.cval \in Contents \union {None}
    BY <1>2, <1>4, SavedTypes DEF Saved, Types
  <1>9. CASE type.ctype # "raw"
    <2>1. b = r
      BY <1>5, <1>9
    <2>2. GrownAs(new, r, type.ctype, type.cval, 1)
      BY <1>7, <1>8, <2>1, GrownIs
    <2>3. \A i \in 0..(1 - 1) : img[r.nblocks + i] = type.cval
      <3>1. img[r.nblocks + 0] = type.cval
        <4>1. r.nblocks + 0 = w.nblocks
          BY <1>4, <1>8
        <4> QED BY <1>2, <1>9, <4>1 DEF Shown
      <3> QED BY <3>1
    <2>4. PICK ctype, cval : ctype = type.ctype /\ cval = type.cval
      OBVIOUS
    <2>5. ctype \in {"fill", "dontcare"} /\ (ctype = "fill" => cval \in Contents)
          /\ (ctype = "dontcare" => cval = None)
      BY <1>2, <1>9, <2>4
    <2>6. r.csize # 0 => r.ctype = ctype /\ r.cval = cval
      BY <1>4, <2>4
    <2>7. Saved(new, next, img)
      BY <1>4, <2>2, <2>3, <2>4, <2>5, <2>6, GrownSaved
    <2>8. new.nblocks = w.nblocks + 1 /\ new.csize # 0
      <3>1. new.nblocks = r.nblocks + 1 /\ new.csize = r.csize + 1
        BY <2>2 DEF GrownAs
      <3> QED BY <1>4, <1>8, <3>1
    <2> QED BY <1>6, <2>7, <2>8 DEF Settled
  <1>10. CASE type.ctype = "raw"
    <2>0. img[r.nblocks] = v /\ type.cval = None
      BY <1>2, <1>4, <1>10 DEF Shown
    <2>1. CASE r.ctype = "raw"
      <3>1. b = Put(r, Data(v)) /\ r.csize # 0
        BY <1>4, <1>5, <1>10, <2>1
      <3>2. PutAs(b, r, Data(v))
        BY <1>8, <3>1, CellsAre, PutAtEnd
      <3>3. b \in Writers /\ b.nblocks = r.nblocks /\ b.csize = r.csize
        BY <3>2 DEF PutAs
      <3>4. GrownAs(new, b, "raw", None, 1)
        BY <1>7, <1>8, <1>10, <2>0, <3>3, GrownIs
      <3>5. Saved(new, next, img)
        BY <1>4, <2>0, <2>1, <3>1, <3>4, RawSaved
      <3>6. new.nblocks = w.nblocks + 1 /\ new.csize # 0
        BY <1>4, <1>8, <3>3, <3>4 DEF GrownAs
      <3> QED BY <1>6, <3>5, <3>6 DEF Settled
    <2>2. CASE r.ctype # "raw"
      <3>1. b = Put(Put(r, Room), Data(v)) /\ r.csize = 0
        BY <1>4, <1>5, <1>10, <2>2
      <3>2. PICK a : a = Put(r, Room) /\ PutAs(a, r, Room) /\ a.pos = Len(a.file) + 1
        BY <1>8, CellsAre, PutAtEnd
      <3>3. a \in Writers /\ a.nblocks = r.nblocks /\ a.csize = r.csize
        BY <3>2 DEF PutAs
      <3>4. PutAs(b, a, Data(v))
        BY <3>1, <3>2, <3>3, CellsAre, PutAtEnd
      <3>5. b \in Writers /\ b.nblocks = r.nblocks /\ b.csize = r.csize
        BY <3>3, <3>4 DEF PutAs
      <3>6. GrownAs(new, b, "raw", None, 1)
        BY <1>7, <1>8, <1>10, <2>0, <3>5, GrownIs
      <3>7. Saved(new, next, img)
        BY <1>4, <2>0, <3>1, <3>6, RawBegun
      <3>8. new.nblocks = w.nblocks + 1 /\ new.csize # 0
        BY <1>4, <1>8, <3>5, <3>6 DEF GrownAs
      <3> QED BY <1>6, <3>7, <3>8 DEF Settled
    <2> QED BY <2>1, <2>2
  <1> QED BY <1>9, <1>10

(* __init__: what is before the part of the image the file is for is       *)
(* padding.                                                                *)
LEMMA NewSaved ==
  ASSUME NEW img \in Images, NEW start \in Nat, \A b \in 0..(start - 1) : img[b] = None
  PROVE  \E next : /\ Saved(NewWriter(start), next, img) /\ Settled(NewWriter(start))
                   /\ NewWriter(start).nblocks = start
  <1>1. PICK z : z = [file |-> <<>>, pos |-> 1, ctype |-> None, cval |-> None,
                      csize |-> 0, nchunks |-> 0, nblocks |-> 0]
    OBVIOUS
  <1>2. z \in Writers /\ z.pos = Len(z.file) + 1 /\ Len(z.file) = 0
    BY <1>1 DEF Writers, Types
  <1>3. PICK w : w = Put(z, Room) /\ PutAs(w, z, Room) /\ Len(w.file) = 0 + 1 /\ w.pos = Len(w.file) + 1
    BY <1>2, CellsAre, PutAtEnd
  <1>4. /\ w \in Writers /\ w.ctype = None /\ w.cval = None /\ w.csize = 0
        /\ w.nchunks = 0 /\ w.nblocks = 0
    BY <1>1, <1>3 DEF PutAs
  <1>5. Read(w.file, 0, ReadStart) /\ Good(ReadStart, w.file, img)
    BY ReadNothing
  <1>6. Saved(w, ReadStart, img)
    <2>1. ReadStart.pos = 0 /\ ReadStart.at = 2
      BY DEF ReadStart
    <2> QED BY <1>3, <1>4, <1>5, <2>1 DEF Saved
  <1>7. NewWriter(start) = AddPadBlocks(w, start)
    BY <1>1, <1>3 DEF NewWriter
  <1>8. CASE start = 0
    <2>1. NewWriter(start) = w
      BY <1>7, <1>8 DEF AddPadBlocks
    <2> QED BY <1>4, <1>6, <1>8, <2>1 DEF Settled
  <1>9. CASE start # 0
    <2>1. \A i \in 0..(start - 1) : img[w.nblocks + i] = None
      BY <1>4
    <2>2. PICK next : /\ Saved(AddPadBlocks(w, start), next, img)
                      /\ AddPadBlocks(w, start).nblocks = w.nblocks + start
                      /\ AddPadBlocks(w, start).csize # 0
      BY <1>6, <1>9, <2>1, PadSaved
    <2> QED BY <1>4, <1>7, <2>2 DEF Settled
  <1> QED BY <1>8, <1>9

(* The file is whole, and says what img has. *)
FileOf(file, img, total) ==
    /\ file \in Seq(Cells)
    /\ \E n \in Nat : /\ file[1] = FileHeader(total, n)
                      /\ \E acc : Read(file, n, acc) /\ Good(acc, file, img) /\ acc.pos = total

(* close *)
LEMMA CloseFile ==
  ASSUME NEW img \in Images, NEW w, NEW acc, Saved(w, acc, img), NEW total \in Nat,
         NEW end, \/ end = NoEnd /\ total = w.nblocks
                  \/ end = total /\ w.nblocks <= total,
         \A b \in w.nblocks..(total - 1) : img[b] = None
  PROVE  FileOf(Close(w, end).file, img, total)
  <1>1. PICK closed, first : /\ closed = CloseChunk(w) /\ Saved(closed, first, img)
                             /\ closed.csize = 0 /\ closed.nblocks = w.nblocks
    BY CloseSaved
  <1>2. w.nblocks \in Nat
    BY SavedTypes
  <1>3. PICK padded : padded = IF end = NoEnd THEN closed
                               ELSE CloseChunk(AddPadBlocks(closed, end - closed.nblocks))
    OBVIOUS
  <1>4. PICK last : Saved(padded, last, img) /\ padded.csize = 0 /\ padded.nblocks = total
    <2>1. CASE end = NoEnd
      <3>1. total = w.nblocks
        BY <2>1 DEF NoEnd
      <3> QED BY <1>1, <1>3, <2>1, <3>1
    <2>2. CASE end # NoEnd
      <3>1. end = total /\ w.nblocks <= total
        BY <2>2
      <3>2. PICK n : n = end - closed.nblocks /\ n \in Nat /\ w.nblocks + n = total
        <4>1. PICK x \in Nat : x = w.nblocks
          BY <1>2
        <4>2. end - closed.nblocks = total - x /\ total - x \in Nat /\ x + (total - x) = total
          BY <1>1, <3>1, <4>1
        <4> QED BY <4>1, <4>2
      <3>3. padded = CloseChunk(AddPadBlocks(closed, n))
        BY <1>3, <2>2, <3>2
      <3>4. CASE n = 0
        <4>1. AddPadBlocks(closed, n) = closed
          BY <3>4 DEF AddPadBlocks
        <4>2. padded = closed
          BY <1>1, <3>3, <4>1 DEF CloseChunk
        <4> QED BY <1>1, <1>2, <3>2, <3>4, <4>2
      <3>5. CASE n # 0
        <4>1. \A i \in 0..(n - 1) : img[closed.nblocks + i] = None
          <5>1. \A i \in 0..(n - 1) : w.nblocks + i \in w.nblocks..(total - 1)
            BY <1>2, <3>2
          <5> QED BY <1>1, <5>1
        <4>2. PICK p, next : /\ p = AddPadBlocks(closed, n) /\ Saved(p, next, img)
                             /\ p.nblocks = closed.nblocks + n
          BY <1>1, <3>2, <3>5, <4>1, PadSaved
        <4>3. PICK x : Saved(CloseChunk(p), x, img) /\ CloseChunk(p).csize = 0
                       /\ CloseChunk(p).nblocks = p.nblocks
          BY <4>2, CloseSaved
        <4> QED BY <1>1, <3>2, <3>3, <4>2, <4>3
      <3> QED BY <3>4, <3>5
    <2> QED BY <2>1, <2>2
  <1>5. /\ padded \in Writers /\ padded.file \in Seq(Cells) /\ Len(padded.file) \in Nat
        /\ padded.nchunks \in Nat /\ last.at \in Nat /\ last.at >= 2 /\ last.at = Len(padded.file) + 1
        /\ Good(last, padded.file, img) /\ Read(padded.file, padded.nchunks, last)
        /\ last.pos = total /\ last.pos \in Nat
    <2>1. last.pos + 0 = total /\ last.pos \in Nat
      BY <1>4, SavedTypes DEF Saved
    <2>2. /\ padded \in Writers /\ last.at = Len(padded.file) + 1 /\ last.pos = total
          /\ Good(last, padded.file, img) /\ Read(padded.file, padded.nchunks, last)
      BY <1>4, <2>1 DEF Saved
    <2>3. /\ padded.file \in Seq(Cells) /\ Len(padded.file) \in Nat
          /\ padded.nchunks \in Nat /\ last.at \in Nat /\ last.at >= 2
      BY <1>4, SavedTypes
    <2> QED BY <2>1, <2>2, <2>3
  <1>6. PICK h : h = FileHeader(padded.nblocks, padded.nchunks) /\ h \in Cells
    BY <1>4, <1>5, CellsAre
  <1>7. PICK a, b : a = Seek(padded, 1) /\ b = Put(a, h)
    OBVIOUS
  <1>8. a \in Writers /\ a.pos = 1 /\ a.file = padded.file
    <2>1. SoughtAs(a, padded, 1)
      BY <1>5, <1>7, SeekIs
    <2> QED BY <2>1 DEF SoughtAs
  <1>9. b.file \in Seq(Cells) /\ b.file[1] = h /\ \A i \in 1..Len(padded.file) : i # 1 => b.file[i] = padded.file[i]
    <2>1. a.pos \in 1..(Len(a.file) + 1)
      BY <1>5, <1>8
    <2>2. PutAs(b, a, h)
      BY <1>6, <1>7, <1>8, <2>1, PutIs
    <2> QED BY <1>8, <2>2 DEF PutAs, Writers
  <1>10. PICK file : file = Close(w, end).file /\ file = b.file
    BY <1>1, <1>3, <1>6, <1>7 DEF Close, SeekEnd, Seek
  <1>11. file[1] = h /\ \A i \in 2..(last.at - 1) : file[i] = padded.file[i]
    <2>1. \A i \in 2..(last.at - 1) : i \in 1..Len(padded.file) /\ i # 1
      BY <1>5
    <2> QED BY <1>9, <1>10, <2>1
  <1>12. Good(last, file, img) /\ Read(file, padded.nchunks, last)
    BY <1>5, <1>11, GoodSame, ReadSame
  <1>13. file[1] = FileHeader(total, padded.nchunks)
    BY <1>4, <1>6, <1>11
  <1> QED BY <1>5, <1>9, <1>10, <1>12, <1>13 DEF FileOf

LEMMA SavedSame ==
  ASSUME NEW img \in Images, NEW other \in Images, NEW w, NEW acc, Saved(w, acc, img),
         \A b \in 0..(w.nblocks - 1) : other[b] = img[b]
  PROVE  Saved(w, acc, other)
  <1>1. /\ acc.pos \in Nat /\ acc.at \in Nat /\ w.csize \in Nat /\ w.nblocks \in Nat
        /\ acc.pos + w.csize = w.nblocks
    BY SavedTypes DEF Saved
  <1>2. \A b \in 0..(acc.pos - 1) : b \in 0..(w.nblocks - 1)
    BY <1>1
  <1>3. Good(acc, w.file, other)
    BY <1>2, GoodSame DEF Saved
  <1>4. \A i \in 0..(w.csize - 1) : other[acc.pos + i] = img[acc.pos + i]
    <2>1. \A i \in 0..(w.csize - 1) : acc.pos + i \in 0..(w.nblocks - 1)
      BY <1>1
    <2> QED BY <2>1
  <1>5. w.csize # 0 => Begun(w, acc, other)
    <2>1. SUFFICES ASSUME w.csize # 0 PROVE Begun(w, acc, other)
      OBVIOUS
    <2>2. Begun(w, acc, img)
      BY <2>1 DEF Saved
    <2> QED BY <1>4, <2>2 DEF Begun
  <1> QED BY <1>3, <1>5 DEF Saved

-------------------------------------------------------------------------------
(* The files of a conversion.                                              *)

LEMMA JobIs ==
  ASSUME job \in Jobs
  PROVE  /\ job.content \in Seq(Contents) /\ Len(job.content) \in Nat /\ Len(job.content) # 0
         /\ job.dontCare \subseteq Fills /\ job.split \in Nat
         /\ job.source.content \in Seq(Contents)
  <1>1. /\ job.content \in Seq(Contents) \ {<<>>} /\ job.source.content \in Seq(Contents)
        /\ job.dontCare \subseteq Fills /\ job.split \in Nat
    BY JobsAssumption
  <1>2. \A s \in Seq(Contents) : s # <<>> => Len(s) # 0
    OBVIOUS
  <1>3. job.content \in Seq(Contents) /\ job.content # <<>>
    BY <1>1
  <1> QED BY <1>1, <1>2, <1>3

(* The blocks of content from s to e, without those of dontCare.           *)
Part(content, dontCare, s, e) ==
    [b \in Nat |-> IF s <= b /\ b < e THEN Shown(content[b + 1], dontCare) ELSE None]

LEMMA PartIs ==
  ASSUME NEW content \in Seq(Contents), NEW dontCare, NEW s \in Nat, NEW e \in Nat, e <= Len(content)
  PROVE  /\ Part(content, dontCare, s, e) \in Images
         /\ \A b \in Nat : Part(content, dontCare, s, e)[b] =
                             IF s <= b /\ b < e THEN Shown(content[b + 1], dontCare) ELSE None
  <1>1. ASSUME NEW b \in Nat
        PROVE  (IF s <= b /\ b < e THEN Shown(content[b + 1], dontCare) ELSE None) \in Contents \union {None}
    <2>1. CASE s <= b /\ b < e
      <3>1. b + 1 \in 1..Len(content)
        BY <2>1
      <3>2. content[b + 1] \in Contents
        BY <3>1
      <3> QED BY <3>2 DEF Shown
    <2>2. CASE ~(s <= b /\ b < e)
      BY <2>2
    <2> QED BY <2>1, <2>2
  <1> QED BY <1>1 DEF Part, Images

(* The next block joins the current file. *)
LEMMA AddPart ==
  ASSUME NEW content \in Seq(Contents), NEW dontCare, dontCare \subseteq Fills,
         NEW s \in Nat, NEW e \in Nat, s <= e, e < Len(content),
         NEW w, NEW acc, Saved(w, acc, Part(content, dontCare, s, e)), Settled(w), w.nblocks = e
  PROVE  \E next : /\ Saved(AddDataBlock(w, content[e + 1], dontCare), next,
                             Part(content, dontCare, s, e + 1))
                   /\ Settled(AddDataBlock(w, content[e + 1], dontCare))
                   /\ AddDataBlock(w, content[e + 1], dontCare).nblocks = e + 1
  <1>1. PICK img, other : /\ img = Part(content, dontCare, s, e)
                          /\ other = Part(content, dontCare, s, e + 1)
    OBVIOUS
  <1>2. /\ img \in Images /\ other \in Images
        /\ \A b \in Nat : img[b] = IF s <= b /\ b < e THEN Shown(content[b + 1], dontCare) ELSE None
        /\ \A b \in Nat : other[b] = IF s <= b /\ b < e + 1 THEN Shown(content[b + 1], dontCare) ELSE None
    <2>1. e <= Len(content) /\ e + 1 <= Len(content) /\ e + 1 \in Nat
      OBVIOUS
    <2> QED BY <1>1, <2>1, PartIs
  <1>3. \A b \in 0..(w.nblocks - 1) : other[b] = img[b]
    BY <1>2
  <1>4. Saved(w, acc, other)
    BY <1>1, <1>2, <1>3, SavedSame
  <1>5. other[w.nblocks] = Shown(content[e + 1], dontCare)
    BY <1>2
  <1>6. content[e + 1] \in Contents
    <2>1. e + 1 \in 1..Len(content)
      OBVIOUS
    <2> QED BY <2>1
  <1>7. PICK next : /\ Saved(AddDataBlock(w, content[e + 1], dontCare), next, other)
                    /\ AddDataBlock(w, content[e + 1], dontCare).nblocks = w.nblocks + 1
                    /\ Settled(AddDataBlock(w, content[e + 1], dontCare))
    BY <1>2, <1>4, <1>5, <1>6, AddSaved
  <1> QED BY <1>1, <1>7

(* A file for the blocks from s on is begun. *)
LEMMA NewPart ==
  ASSUME NEW content \in Seq(Contents), NEW dontCare, NEW s \in Nat, s <= Len(content)
  PROVE  \E next : /\ Saved(NewWriter(s), next, Part(content, dontCare, s, s))
                   /\ Settled(NewWriter(s)) /\ NewWriter(s).nblocks = s
  <1>1. PICK img : img = Part(content, dontCare, s, s)
    OBVIOUS
  <1>2. img \in Images /\ \A b \in Nat : img[b] = None
    BY <1>1, PartIs
  <1>3. \A b \in 0..(s - 1) : img[b] = None
    BY <1>2
  <1> QED BY <1>1, <1>2, <1>3, NewSaved

(* A file is closed: with padding up to the end of the image, or at its end. *)
LEMMA ClosePart ==
  ASSUME NEW content \in Seq(Contents), NEW dontCare,
         NEW s \in Nat, NEW e \in Nat, s <= e, e <= Len(content),
         NEW w, NEW acc, Saved(w, acc, Part(content, dontCare, s, e)), w.nblocks = e,
         NEW end, end = Len(content) \/ (end = NoEnd /\ e = Len(content))
  PROVE  FileOf(Close(CloseChunk(w), end).file, Part(content, dontCare, s, e), Len(content))
  <1>1. PICK img : img = Part(content, dontCare, s, e)
    OBVIOUS
  <1>2. /\ img \in Images
        /\ \A b \in Nat : img[b] = IF s <= b /\ b < e THEN Shown(content[b + 1], dontCare) ELSE None
    BY <1>1, PartIs
  <1>3. PICK closed, next : closed = CloseChunk(w) /\ Saved(closed, next, img) /\ closed.nblocks = e
    BY <1>1, <1>2, CloseSaved
  <1>4. \A b \in closed.nblocks..(Len(content) - 1) : img[b] = None
    BY <1>2, <1>3
  <1>5. Len(content) \in Nat
    OBVIOUS
  <1>6. \/ end = NoEnd /\ Len(content) = closed.nblocks
        \/ end = Len(content) /\ closed.nblocks <= Len(content)
    BY <1>3
  <1>7. FileOf(Close(closed, end).file, img, Len(content))
    BY <1>2, <1>3, <1>4, <1>5, <1>6, CloseFile
  <1> QED BY <1>1, <1>3, <1>7

(* The parts of the image that are in the files begin at cuts. *)
CutsAt(cuts, n) ==
    /\ \A i \in 1..(n + 1) : cuts[i] \in 0..Len(job.content)
    /\ \A i \in 1..n : cuts[i] <= cuts[i + 1]
    /\ cuts[1] = 0

Filed(cuts, fs) ==
    /\ fs \in Seq(Seq(Cells))
    /\ CutsAt(cuts, Len(fs))
    /\ \A i \in 1..Len(fs) :
          FileOf(fs[i], Part(job.content, job.dontCare, cuts[i], cuts[i + 1]), Len(job.content))

(* The current file has the blocks from the last cut up to the cursor. *)
Underway(cuts) ==
    /\ cuts[Len(files) + 1] <= cursor
    /\ \E acc : Saved(wr, acc, Part(job.content, job.dontCare, cuts[Len(files) + 1], cursor))
    /\ Settled(wr) /\ wr.nblocks = cursor

LEMMA FiledMore ==
  ASSUME job \in Jobs, NEW cuts, NEW fs, Filed(cuts, fs),
         NEW e \in 0..Len(job.content), cuts[Len(fs) + 1] <= e,
         NEW f, FileOf(f, Part(job.content, job.dontCare, cuts[Len(fs) + 1], e), Len(job.content))
  PROVE  \E more : Filed(more, Append(fs, f)) /\ more[Len(fs) + 2] = e
  <1>1. PICK n : n = Len(fs) /\ n \in Nat
    BY DEF Filed
  <1>2. PICK new : new = Append(fs, f)
    OBVIOUS
  <1>3. /\ new \in Seq(Seq(Cells)) /\ Len(new) = n + 1 /\ new[n + 1] = f
        /\ \A i \in 1..n : new[i] = fs[i]
    <2>1. fs \in Seq(Seq(Cells)) /\ f \in Seq(Cells)
      BY DEF Filed, FileOf
    <2> QED BY <1>1, <1>2, <2>1
  <1>4. PICK more : more = [i \in 1..(n + 2) |-> IF i = n + 2 THEN e ELSE cuts[i]]
    OBVIOUS
  <1>5. more[n + 2] = e /\ \A i \in 1..(n + 1) : more[i] = cuts[i] /\ i + 1 \in 1..(n + 2)
    BY <1>1, <1>4
  <1>6. CutsAt(cuts, n) /\ cuts[n + 1] <= e
    BY <1>1 DEF Filed
  <1>7. CutsAt(more, n + 1)
    <2>1. \A i \in 1..((n + 1) + 1) : more[i] \in 0..Len(job.content)
      <3>1. \A i \in 1..((n + 1) + 1) : i \in 1..(n + 1) \/ i = n + 2
        BY <1>1
      <3> QED BY <1>5, <1>6, <3>1 DEF CutsAt
    <2>2. \A i \in 1..(n + 1) : more[i] <= more[i + 1]
      <3>1. \A i \in 1..n : i \in 1..(n + 1) /\ i + 1 \in 1..(n + 1)
        BY <1>1
      <3>2. \A i \in 1..(n + 1) : i \in 1..n \/ i = n + 1
        BY <1>1
      <3>3. n + 1 \in 1..(n + 1) /\ (n + 1) + 1 = n + 2
        BY <1>1
      <3> QED BY <1>5, <1>6, <3>1, <3>2, <3>3 DEF CutsAt
    <2>3. 1 \in 1..(n + 1)
      BY <1>1
    <2> QED BY <1>5, <1>6, <2>1, <2>2, <2>3 DEF CutsAt
  <1>8. ASSUME NEW i \in 1..(n + 1)
        PROVE  FileOf(new[i], Part(job.content, job.dontCare, more[i], more[i + 1]), Len(job.content))
    <2>1. CASE i = n + 1
      <3>1. more[i] = cuts[n + 1] /\ more[i + 1] = e /\ new[i] = f
        <4>1. n + 1 \in 1..(n + 1) /\ (n + 1) + 1 = n + 2
          BY <1>1
        <4> QED BY <1>3, <1>5, <2>1, <4>1
      <3> QED BY <1>1, <3>1
    <2>2. CASE i # n + 1
      <3>1. i \in 1..n /\ i + 1 \in 1..(n + 1)
        BY <1>1, <2>2
      <3>2. more[i] = cuts[i] /\ more[i + 1] = cuts[i + 1] /\ new[i] = fs[i]
        BY <1>3, <1>5, <3>1
      <3> QED BY <1>1, <3>1, <3>2 DEF Filed
    <2> QED BY <2>1, <2>2
  <1>9. Filed(more, new)
    BY <1>3, <1>7, <1>8 DEF Filed
  <1> QED BY <1>1, <1>2, <1>5, <1>9

(* What has been written, in each state that looks at it. *)
FilesKept ==
    /\ job \in Jobs
    /\ pc = "write" =>
         /\ cursor \in 0..Len(job.content)
         /\ job.split = 0 => files = <<>>
         /\ \E cuts : Filed(cuts, files) /\ Underway(cuts)
    /\ pc = "load" =>
         FileOf(files[1], Part(job.content, job.dontCare, 0, Len(job.content)), Len(job.content))
    /\ pc = "split" =>
         \E cuts : Filed(cuts, files) /\ cuts[Len(files) + 1] = Len(job.content)

LEMMA FilesBegin == ASSUME Init PROVE FilesKept
  <1>1. job \in Jobs /\ pc = "write" /\ wr = NewWriter(0) /\ cursor = 0 /\ files = <<>>
    BY DEF Init
  <1>2. job.content \in Seq(Contents) /\ Len(job.content) \in Nat
    BY <1>1, JobIs
  <1>3. PICK cuts : cuts = [i \in 1..1 |-> 0]
    OBVIOUS
  <1>4. cuts[1] = 0 /\ Len(files) = 0 /\ files \in Seq(Seq(Cells))
    BY <1>1, <1>3
  <1>5. Filed(cuts, files)
    <2>1. \A i \in 1..(0 + 1) : i = 1
      OBVIOUS
    <2> QED BY <1>2, <1>4, <2>1 DEF Filed, CutsAt
  <1>6. \E next : /\ Saved(NewWriter(0), next, Part(job.content, job.dontCare, 0, 0))
                  /\ Settled(NewWriter(0)) /\ NewWriter(0).nblocks = 0
    <2>1. 0 \in Nat /\ 0 <= Len(job.content)
      BY <1>2
    <2> QED BY <1>2, <2>1, NewPart
  <1>7. Underway(cuts)
    <2>1. cuts[Len(files) + 1] = 0
      BY <1>4
    <2> QED BY <1>1, <1>6, <2>1 DEF Underway
  <1>8. cursor \in 0..Len(job.content)
    BY <1>1, <1>2
  <1> QED BY <1>1, <1>5, <1>7, <1>8 DEF FilesKept

LEMMA FilesWrite == ASSUME FilesKept, WriteBlock PROVE FilesKept'
  <1> DEFINE written == AddDataBlock(wr, job.content[cursor + 1], job.dontCare)
             full == job.split # 0 /\ written.pos - 1 >= job.split
  <1>1. /\ pc = "write" /\ cursor < Len(job.content) /\ cursor' = cursor + 1
        /\ wr' = IF full THEN NewWriter(cursor + 1) ELSE written
        /\ files' = IF full THEN Append(files, Close(CloseChunk(written), End).file) ELSE files
        /\ job' = job /\ pc' = pc
    BY DEF WriteBlock, diffVars
  <1>2. job \in Jobs /\ cursor \in 0..Len(job.content) /\ (job.split = 0 => files = <<>>)
    BY <1>1 DEF FilesKept
  <1>3. PICK cuts : Filed(cuts, files) /\ Underway(cuts)
    BY <1>1 DEF FilesKept
  <1>4. /\ job.content \in Seq(Contents) /\ Len(job.content) \in Nat /\ job.dontCare \subseteq Fills
    BY <1>2, JobIs
  <1>5. PICK s : s = cuts[Len(files) + 1]
    OBVIOUS
  <1>6. /\ s \in Nat /\ s <= cursor /\ s <= Len(job.content) /\ cursor \in Nat
        /\ Len(files) \in Nat
    <2>1. Len(files) \in Nat
      BY <1>3 DEF Filed
    <2>2. s \in 0..Len(job.content)
      <3>1. Len(files) + 1 \in 1..(Len(files) + 1)
        BY <2>1
      <3> QED BY <1>3, <1>5, <3>1 DEF Filed, CutsAt
    <2> QED BY <1>2, <1>3, <1>4, <1>5, <2>1, <2>2 DEF Underway
  <1>7. PICK next : /\ Saved(written, next, Part(job.content, job.dontCare, s, cursor + 1))
                    /\ Settled(written) /\ written.nblocks = cursor + 1
    <2>1. PICK acc : Saved(wr, acc, Part(job.content, job.dontCare, s, cursor))
      BY <1>3, <1>5 DEF Underway
    <2>2. Settled(wr) /\ wr.nblocks = cursor
      BY <1>3 DEF Underway
    <2>3. cursor < Len(job.content)
      BY <1>1
    <2>4. PICK more : /\ Saved(AddDataBlock(wr, job.content[cursor + 1], job.dontCare), more,
                               Part(job.content, job.dontCare, s, cursor + 1))
                      /\ Settled(AddDataBlock(wr, job.content[cursor + 1], job.dontCare))
                      /\ AddDataBlock(wr, job.content[cursor + 1], job.dontCare).nblocks = cursor + 1
      BY <1>4, <1>6, <2>1, <2>2, <2>3, AddPart
    <2> QED BY <2>4
  <1> HIDE DEF written
  <1>8. cursor' \in 0..Len(job'.content) /\ cursor + 1 \in 0..Len(job.content)
    BY <1>1, <1>4, <1>6
  <1>9. CASE full
    <2>1. End = Len(job.content) /\ job.split # 0
      BY <1>9 DEF End
    <2>2. PICK f : f = Close(CloseChunk(written), End).file
      OBVIOUS
    <2>3. FileOf(f, Part(job.content, job.dontCare, s, cursor + 1), Len(job.content))
      <3>1. s <= cursor + 1 /\ cursor + 1 <= Len(job.content) /\ cursor + 1 \in Nat
        BY <1>1, <1>4, <1>6
      <3> QED BY <1>4, <1>6, <1>7, <2>1, <2>2, <3>1, ClosePart
    <2>4. PICK more : Filed(more, Append(files, f)) /\ more[Len(files) + 2] = cursor + 1
      <3>1. s <= cursor + 1
        BY <1>6
      <3> QED BY <1>2, <1>3, <1>5, <1>8, <2>3, <3>1, FiledMore
    <2>5. files' = Append(files, f) /\ wr' = NewWriter(cursor + 1)
      BY <1>1, <1>9, <2>2
    <2>6. Filed(more, files)'
      BY <1>1, <2>4, <2>5 DEF Filed, CutsAt
    <2>7. more[Len(files') + 1] = cursor + 1
      <3>1. Len(files') = Len(files) + 1
        <4>1. files \in Seq(Seq(Cells)) /\ f \in Seq(Cells)
          BY <1>3, <2>3 DEF Filed, FileOf
        <4> QED BY <2>5, <4>1
      <3>2. (Len(files) + 1) + 1 = Len(files) + 2
        BY <1>6
      <3> QED BY <2>4, <3>1, <3>2
    <2>8. \E acc : /\ Saved(NewWriter(cursor + 1), acc,
                           Part(job.content, job.dontCare, cursor + 1, cursor + 1))
                   /\ Settled(NewWriter(cursor + 1)) /\ NewWriter(cursor + 1).nblocks = cursor + 1
      <3>1. cursor + 1 \in Nat /\ cursor + 1 <= Len(job.content)
        BY <1>8, <1>4
      <3> QED BY <1>4, <3>1, NewPart
    <2>9. Underway(more)'
      <3>1. cursor + 1 <= cursor + 1
        BY <1>6
      <3> QED BY <1>1, <2>5, <2>7, <2>8, <3>1 DEF Underway
    <2> QED BY <1>1, <1>2, <1>8, <2>1, <2>6, <2>9 DEF FilesKept
  <1>10. CASE ~full
    <2>1. files' = files /\ wr' = written
      BY <1>1, <1>10
    <2>2. Filed(cuts, files)'
      BY <1>1, <1>3, <2>1 DEF Filed, CutsAt
    <2>3. Underway(cuts)'
      <3>1. s <= cursor + 1
        BY <1>6
      <3> QED BY <1>1, <1>5, <1>7, <2>1, <3>1 DEF Underway
    <2> QED BY <1>1, <1>2, <1>8, <2>1, <2>2, <2>3 DEF FilesKept
  <1> QED BY <1>9, <1>10

LEMMA FilesFinish == ASSUME FilesKept, FinishImage PROVE FilesKept'
  <1>1. /\ pc = "write" /\ cursor = Len(job.content) /\ job' = job /\ wr' = wr /\ cursor' = cursor
    BY DEF FinishImage
  <1>2. job \in Jobs /\ (job.split = 0 => files = <<>>)
    BY <1>1 DEF FilesKept
  <1>3. CASE job.tail
    <2>1. pc' = "failed"
      BY <1>3 DEF FinishImage, Raise
    <2> QED BY <1>1, <1>2, <2>1 DEF FilesKept
  <1>4. CASE ~job.tail
    <2>1. PICK f : f = Close(CloseChunk(wr), End).file
      OBVIOUS
    <2>2. files' = Append(files, f) /\ pc' = IF job.split = 0 THEN "load" ELSE "split"
      BY <1>4, <2>1 DEF FinishImage, GoOn
    <2>3. PICK cuts : Filed(cuts, files) /\ Underway(cuts)
      BY <1>1 DEF FilesKept
    <2>4. /\ job.content \in Seq(Contents) /\ Len(job.content) \in Nat
      BY <1>2, JobIs
    <2>5. PICK s : s = cuts[Len(files) + 1]
      OBVIOUS
    <2>6. /\ s \in Nat /\ s <= cursor /\ Len(files) \in Nat
      <3>1. Len(files) \in Nat
        BY <2>3 DEF Filed
      <3>2. s \in 0..Len(job.content)
        <4>1. Len(files) + 1 \in 1..(Len(files) + 1)
          BY <3>1
        <4> QED BY <2>3, <2>5, <4>1 DEF Filed, CutsAt
      <3> QED BY <2>3, <2>4, <2>5, <3>1, <3>2 DEF Underway
    <2>7. PICK acc : Saved(wr, acc, Part(job.content, job.dontCare, s, cursor)) /\ wr.nblocks = cursor
      BY <2>3, <2>5 DEF Underway
    <2>8. FileOf(f, Part(job.content, job.dontCare, s, cursor), Len(job.content))
      <3>1. End = Len(job.content) \/ (End = NoEnd /\ cursor = Len(job.content))
        BY <1>1 DEF End
      <3>2. cursor <= Len(job.content) /\ cursor \in Nat
        BY <1>1, <2>4
      <3> QED BY <2>1, <2>4, <2>6, <2>7, <3>1, <3>2, ClosePart
    <2>9. CASE job.split = 0
      <3>1. files = <<>> /\ files' = <<f>>
        BY <1>2, <2>2, <2>9
      <3>2. s = 0
        <4>1. Len(files) + 1 = 1
          BY <3>1
        <4>2. cuts[1] = 0
          BY <2>3 DEF Filed, CutsAt
        <4> QED BY <2>5, <4>1, <4>2
      <3>3. files'[1] = f
        BY <3>1
      <3> QED BY <1>1, <1>2, <2>2, <2>8, <2>9, <3>2, <3>3 DEF FilesKept
    <2>10. CASE job.split # 0
      <3>1. PICK more : Filed(more, Append(files, f)) /\ more[Len(files) + 2] = Len(job.content)
        <4>1. Len(job.content) \in 0..Len(job.content)
          BY <2>4
        <4> QED BY <1>1, <1>2, <2>3, <2>5, <2>6, <2>8, <4>1, FiledMore
      <3>2. Len(files') + 1 = Len(files) + 2
        <4>1. files \in Seq(Seq(Cells)) /\ f \in Seq(Cells)
          BY <2>3, <2>8 DEF Filed, FileOf
        <4>2. Len(files') = Len(files) + 1
          BY <2>2, <4>1
        <4> QED BY <2>6, <4>2
      <3>3. Filed(more, files)'
        BY <1>1, <2>2, <3>1 DEF Filed, CutsAt
      <3> QED BY <1>1, <1>2, <2>2, <2>10, <3>1, <3>2, <3>3 DEF FilesKept
    <2> QED BY <2>9, <2>10
  <1> QED BY <1>3, <1>4

-------------------------------------------------------------------------------
(* The image that is loaded from a file.                                   *)

ImageIs(image, file, img, total) ==
    /\ image.ok = TRUE /\ image.file = file /\ image.total = total
    /\ image.care \in RangeSets /\ Blocks(image.care) = WithData(img, total)
    /\ \E e : Chunked(image.chunks, total, e, file, img)
    /\ image.clobbered = <<0, 1>> /\ image.extended = ExtendedBlocks(image.care, total)

LEMMA LoadedIs ==
  ASSUME NEW img \in Images, NEW total \in Nat, NEW file, FileOf(file, img, total)
  PROVE  \E image : /\ ImageIs(image, file, img, total)
                    /\ \A lines : /\ LoadImage(file, lines) = WithFiles(image, LoadLines(image, lines))
                                  /\ LoadImage(file, lines).ok =>
                                       ImageIs(LoadImage(file, lines), file, img, total)
                                  /\ LoadLines(image, lines).ok =>
                                       /\ LoadImage(file, lines).ok
                                       /\ LoadImage(file, lines).files
                                            = FileMap(image, LoadLines(image, lines).files,
                                                      LoadLines(image, lines).remaining)
  <1>1. PICK n, acc : /\ n \in Nat /\ file[1] = FileHeader(total, n)
                      /\ Read(file, n, acc) /\ Good(acc, file, img) /\ acc.pos = total
    BY DEF FileOf
  <1>2. file[1].kind = "file" /\ file[1].size = n /\ file[1].blocks = total
    BY <1>1 DEF FileHeader
  <1>3. ReadChunks(file) = acc
    BY <1>1, <1>2, ReadChunksIs
  <1>4. acc.ok = TRUE /\ Cared(acc.care, total, img) /\ Chunked(acc.chunks, total, acc.at, file, img)
    BY <1>1 DEF Good, Readers
  <1>5. PICK care : care = RemovePairs(acc.care) /\ care \in RangeSets /\ Blocks(care) = WithData(img, total)
    BY <1>4, PlainRemoved DEF Cared
  <1>6. PICK image : image = ImageOf(file, acc.chunks, care)
    OBVIOUS
  <1>7. image = [ok |-> TRUE, file |-> file, total |-> total, chunks |-> acc.chunks, care |-> care,
                 clobbered |-> <<0, 1>>, extended |-> ExtendedBlocks(care, total), files |-> <<>>]
    BY <1>2, <1>6 DEF ImageOf
  <1>8. ImageIs(image, file, img, total)
    BY <1>4, <1>5, <1>7 DEF ImageIs
  <1>9. ASSUME NEW lines
        PROVE  /\ LoadImage(file, lines) = WithFiles(image, LoadLines(image, lines))
               /\ LoadImage(file, lines).ok => ImageIs(LoadImage(file, lines), file, img, total)
               /\ LoadLines(image, lines).ok =>
                    /\ LoadImage(file, lines).ok
                    /\ LoadImage(file, lines).files
                         = FileMap(image, LoadLines(image, lines).files, LoadLines(image, lines).remaining)
    <2>1. LoadImage(file, lines) = WithFiles(image, LoadLines(image, lines))
      BY <1>3, <1>4, <1>5, <1>6 DEF LoadImage, Loaded, WithLines
    <2>2. PICK lined, got : lined = LoadLines(image, lines) /\ got = LoadImage(file, lines)
      OBVIOUS
    <2>3. got = WithFiles(image, lined)
      BY <2>1, <2>2
    <2>4. CASE lined.ok
      <3>1. PICK fs : fs = FileMap(image, lined.files, lined.remaining)
        OBVIOUS
      <3>2. got = [image EXCEPT !.files = fs]
        BY <2>3, <2>4, <3>1 DEF WithFiles
      <3>3. got = [ok |-> TRUE, file |-> file, total |-> total, chunks |-> acc.chunks, care |-> care,
                   clobbered |-> <<0, 1>>, extended |-> ExtendedBlocks(care, total), files |-> fs]
        BY <1>7, <3>2
      <3>4. ImageIs(got, file, img, total)
        BY <1>4, <1>5, <3>3 DEF ImageIs
      <3>5. got.ok
        BY <3>4 DEF ImageIs
      <3>6. got.files = fs
        BY ONLY <3>3
      <3> QED BY <2>1, <2>2, <3>1, <3>4, <3>5, <3>6
    <2>5. CASE ~lined.ok
      <3>1. got = Broken
        BY <2>3, <2>5 DEF WithFiles
      <3>2. ~got.ok
        BY <3>1 DEF Broken
      <3> QED BY <2>1, <2>2, <2>5, <3>2
    <2> QED BY <2>4, <2>5
  <1> QED BY <1>8, <1>9

(* The blocks of the image. *)
Image == Part(job.content, job.dontCare, 0, Len(job.content))

(* The target, once it is loaded. *)
TargetKept ==
    pc = "construct" => \E file : ImageIs(tgt, file, Image, Len(job.content))

LEMMA LoadKept == ASSUME FilesKept, LoadImages PROVE FilesKept' /\ TargetKept'
  <1>1. /\ pc = "load" /\ job' = job /\ tgt' = LoadImage(files[1], job.lines)
        /\ pc' = IF tgt'.ok /\ src'.ok THEN "construct" ELSE "failed"
    BY DEF LoadImages, conversion
  <1>2. job \in Jobs /\ FileOf(files[1], Image, Len(job.content))
    BY <1>1 DEF FilesKept, Image
  <1>3. FilesKept'
    BY <1>1, <1>2 DEF FilesKept
  <1>4. TargetKept'
    <2>1. SUFFICES ASSUME pc' = "construct" PROVE ImageIs(tgt', files[1], Image, Len(job.content))
      BY <1>1 DEF TargetKept, Image
    <2>2. tgt'.ok
      BY <1>1, <2>1
    <2>3. Image \in Images /\ Len(job.content) \in Nat
      <3>1. job.content \in Seq(Contents) /\ Len(job.content) \in Nat
        BY <1>2, JobIs
      <3>2. 0 \in Nat /\ Len(job.content) <= Len(job.content)
        BY <3>1
      <3> QED BY <3>1, <3>2, PartIs DEF Image
    <2>4. \A lines : LoadImage(files[1], lines).ok =>
                       ImageIs(LoadImage(files[1], lines), files[1], Image, Len(job.content))
      BY <1>2, <2>3, LoadedIs
    <2> QED BY <1>1, <2>2, <2>4
  <1> QED BY <1>3, <1>4

(* The states that look at files, or at the image before the diff begins.  *)
Early == {"write", "load", "split", "construct"}

LEMMA ComputeIsLate == ASSUME Compute PROVE pc' \notin Early
  <1>1. ASSUME Construct PROVE pc' \notin Early
    BY <1>1 DEF Construct, GoOn, Raise, Early
  <1>2. ASSUME FindTransfers PROVE pc' \notin Early
    BY <1>2 DEF FindTransfers, GoOn, Raise, Early
  <1>3. ASSUME GenerateDigraph PROVE pc' \notin Early
    BY <1>3 DEF GenerateDigraph, GoOn, Early
  <1>4. ASSUME FindVertexSequence PROVE pc' \notin Early
    <2>1. ASSUME InSequence PROVE pc' \notin Early
      BY <2>1 DEF InSequence, Early
    <2>2. ASSUME EmptyHeap PROVE pc' \notin Early
      BY <2>2 DEF EmptyHeap, Raise, Early
    <2>3. ASSUME SequenceFound PROVE pc' \notin Early
      BY <2>3 DEF SequenceFound, GoOn, Early
    <2> QED BY <1>4, <2>1, <2>2, <2>3 DEF FindVertexSequence, PlaceSink, PlaceSource, PlaceBest
  <1>5. ASSUME ReverseBackwardEdges PROVE pc' \notin Early
    BY <1>5 DEF ReverseBackwardEdges, GoOn, Early
  <1>6. ASSUME RemoveBackwardEdges PROVE pc' \notin Early
    BY <1>6 DEF RemoveBackwardEdges, GoOn, Early
  <1>7. ASSUME ImproveVertexSequence PROVE pc' \notin Early
    BY <1>7 DEF ImproveVertexSequence, GoOn, Raise, Early
  <1>8. ASSUME ReviseStashSize PROVE pc' \notin Early
    BY <1>8 DEF ReviseStashSize, GoOn, Early
  <1>9. ASSUME AssertSequenceGood PROVE pc' \notin Early
    BY <1>9 DEF AssertSequenceGood, GoOn, Raise, Early
  <1>10. ASSUME ComputePatches PROVE pc' \notin Early
    BY <1>10 DEF ComputePatches, GoOn, Raise, Early
  <1>11. ASSUME WriteTransfers PROVE pc' \notin Early
    BY <1>11 DEF WriteTransfers, WriteList, GoOn, Raise, Early
  <1> QED BY <1>1, <1>2, <1>3, <1>4, <1>5, <1>6, <1>7, <1>8, <1>9, <1>10, <1>11 DEF Compute

(* The diff and the device leave the files alone. *)
LEMMA LateKept == ASSUME FilesKept, job' = job, pc' \notin Early PROVE FilesKept' /\ TargetKept'
  BY DEF FilesKept, TargetKept, Early

Kept == FilesKept /\ TargetKept

LEMMA KeptInit == ASSUME Init PROVE Kept
  <1>1. pc = "write"
    BY DEF Init
  <1> QED BY <1>1, FilesBegin DEF Kept, TargetKept

LEMMA KeptNext == ASSUME Kept, [Next]_vars PROVE Kept'
  <1>0. FilesKept /\ TargetKept
    BY DEF Kept
  <1>1. ASSUME WriteBlock PROVE Kept'
    <2>1. pc' # "construct"
      BY <1>1 DEF WriteBlock, diffVars
    <2> QED BY <1>0, <1>1, <2>1, FilesWrite DEF Kept, TargetKept
  <1>2. ASSUME FinishImage PROVE Kept'
    <2>1. pc' # "construct"
      BY <1>2 DEF FinishImage, Raise, GoOn
    <2> QED BY <1>0, <1>2, <2>1, FilesFinish DEF Kept, TargetKept
  <1>3. ASSUME LoadImages PROVE Kept'
    BY <1>0, <1>3, LoadKept DEF Kept
  <1>4. ASSUME ComputeDiff PROVE Kept'
    <2>1. job' = job /\ Compute
      BY <1>4 DEF ComputeDiff, conversion
    <2> QED BY <1>0, <2>1, ComputeIsLate, LateKept DEF Kept
  <1>5. ASSUME CheckResult PROVE Kept'
    <2>1. job' = job /\ pc' \notin Early
      BY <1>5 DEF CheckResult, conversion, Raise, GoOn, Early
    <2> QED BY <1>0, <2>1, LateKept DEF Kept
  <1>6. ASSUME RunCommand PROVE Kept'
    <2>1. job' = job /\ pc' \notin Early
      BY <1>6 DEF RunCommand, conversion, Early
    <2> QED BY <1>0, <2>1, LateKept DEF Kept
  <1>7. ASSUME Updated PROVE Kept'
    <2>1. job' = job /\ pc' \notin Early
      BY <1>7 DEF Updated, conversion, Early
    <2> QED BY <1>0, <2>1, LateKept DEF Kept
  <1>8. ASSUME CutOff PROVE Kept'
    <2>1. job' = job /\ pc' \notin Early
      BY <1>8 DEF CutOff, conversion, diffVars, Early
    <2> QED BY <1>0, <2>1, LateKept DEF Kept
  <1>9. ASSUME UNCHANGED vars PROVE Kept'
    BY <1>0, <1>9 DEF vars, diffVars, inputs, conversion, Kept, FilesKept, TargetKept, Image,
                      Filed, CutsAt, Underway
  <1> QED BY <1>1, <1>2, <1>3, <1>4, <1>5, <1>6, <1>7, <1>8, <1>9 DEF Next, Progress, Over

LEMMA KeptAlways == Spec => []Kept
  BY KeptInit, KeptNext, PTL DEF Spec

(* The ranges the block diff begins with. *)
LEMMA KeptRanges == ASSUME Kept PROVE RangesAreSets
  <1>1. SUFFICES ASSUME pc = "construct", NEW s \in SUBSET (0..tgt.total)
                 PROVE  OperationsAgree(tgt.care, OfBlocks(Ascending(s)), ReadAhead)
    BY DEF RangesAreSets
  <1>2. tgt.care \in RangeSets /\ tgt.total = Len(job.content) /\ job \in Jobs
    BY <1>1 DEF Kept, TargetKept, FilesKept, ImageIs
  <1>3. tgt.total \in Nat
    BY <1>2, JobIs
  <1>4. s \subseteq Nat /\ IsFiniteSet(s)
    <2>1. IsFiniteSet(0..tgt.total)
      BY <1>3, FS_Interval
    <2>2. IsFiniteSet(s)
      BY <2>1, FS_Subset
    <2> QED BY <1>3, <2>2
  <1>5. PICK v : v = Ascending(s) /\ v \in Seq(Nat) /\ Ascends(v)
    BY <1>4, AscendingIs
  <1>6. OfBlocks(v) \in RangeSets
    BY <1>5, OfBlocksIs
  <1> QED BY <1>2, <1>5, <1>6, GroupAssumption, RangeSetOperations

(* rangelib is what its name says, on every image a conversion loads: the  *)
(* care map that SparseImage reads from the file SimgWriter has written is *)
(* in normal form, and so every RangeSet operation the block diff does     *)
(* with it is the one on sets of blocks, whatever the image has in it.     *)
THEOREM CareMapIsSet == Spec => []RangesAreSets
  BY KeptAlways, KeptRanges, PTL

-------------------------------------------------------------------------------
(* Reading blocks back.                                                    *)

LEMMA ReadPartIs ==
  ASSUME NEW img \in Images, NEW pos, NEW end, NEW file, NEW c, Holding(c, pos, end, file, img),
         NEW a \in Nat, NEW n \in Nat, a + n <= c.len
  PROVE  /\ ReadPart(file, c, a, n) \in Seq(Contents) /\ Len(ReadPart(file, c, a, n)) = n
         /\ \A i \in 1..n : ReadPart(file, c, a, n)[i] = img[c.start + a + i - 1]
  <1>1. c.start \in Nat /\ c.len \in Nat /\ c.at \in Nat
    BY DEF Holding, Chunks
  <1>2. ASSUME NEW i \in 1..n
        PROVE  /\ img[c.start + a + i - 1] \in Contents
               /\ img[c.start + a + i - 1] = IF c.fill = None THEN file[c.at + a + i - 1].content ELSE c.fill
    <2>1. PICK j : j = a + i - 1 /\ j \in 0..(c.len - 1) /\ c.start + j = c.start + a + i - 1
                   /\ c.at + j = c.at + a + i - 1 /\ c.start + j \in Nat
      BY <1>1
    <2>2. /\ img[c.start + j] # None
          /\ img[c.start + j] = IF c.fill = None THEN file[c.at + j].content ELSE c.fill
      BY <2>1 DEF Holding
    <2>3. img[c.start + j] \in Contents
      BY <2>1, <2>2 DEF Images
    <2> QED BY <2>1, <2>2, <2>3
  <1>3. PICK v : v = ReadPart(file, c, a, n)
    OBVIOUS
  <1>4. v = [i \in 1..n |-> IF c.fill = None THEN file[c.at + a + i - 1].content ELSE c.fill]
    BY <1>3 DEF ReadPart
  <1>5. \A i \in 1..n : v[i] = img[c.start + a + i - 1] /\ v[i] \in Contents
    BY <1>2, <1>4
  <1>6. v \in Seq(Contents) /\ Len(v) = n
    <2>1. v = [i \in 1..n |-> v[i]]
      BY <1>4
    <2> QED BY <1>5, <2>1
  <1> QED BY <1>3, <1>5, <1>6

(* The chunk that has a block with data. *)
LEMMA ChunkOfIs ==
  ASSUME NEW img \in Images, NEW total \in Nat, NEW end, NEW file, NEW chunks,
         Chunked(chunks, total, end, file, img), NEW b \in 0..(total - 1), img[b] # None
  PROVE  ChunkOf(chunks, b) \in 1..Len(chunks) /\ InChunk(chunks[ChunkOf(chunks, b)], b)
  <1>1. chunks \in Seq(Chunks) /\ Len(chunks) \in Nat /\ DOMAIN chunks = 1..Len(chunks)
    BY DEF Chunked
  <1>2. \A k \in 1..Len(chunks) : chunks[k].start \in Nat /\ chunks[k].len \in Nat
    <2>1. \A k \in 1..Len(chunks) : chunks[k] \in Chunks
      BY <1>1
    <2> QED BY <2>1 DEF Chunks
  <1>3. PICK j \in 1..Len(chunks) : InChunk(chunks[j], b)
    BY DEF Chunked
  <1>4. PICK u : u = {k \in 1..Len(chunks) : chunks[k].start <= b}
    OBVIOUS
  <1>5. ChunkOf(chunks, b) = Max(u)
    BY <1>1, <1>4 DEF ChunkOf
  <1>6. j \in u
    BY <1>3, <1>4 DEF InChunk
  <1>7. PICK f : f = Max(u) /\ f \in u /\ j <= f
    <2>1. u \subseteq 1..Len(chunks) /\ u # {}
      BY <1>4, <1>6
    <2> QED BY <1>1, <1>6, <2>1, MaxOf
  <1>8. f \in 1..Len(chunks) /\ chunks[f].start <= b
    BY <1>4, <1>7
  <1>9. f = j
    <2>1. SUFFICES ASSUME j < f PROVE FALSE
      BY <1>3, <1>7, <1>8
    <2>2. chunks[j].start + chunks[j].len <= chunks[f].start
      BY <1>3, <1>8, <2>1 DEF Chunked
    <2> QED BY <1>2, <1>3, <1>8, <2>2 DEF InChunk
  <1> QED BY <1>3, <1>5, <1>7, <1>9

(* Where the data goes on without a gap, the next chunk begins. *)
LEMMA NextChunk ==
  ASSUME NEW img \in Images, NEW total \in Nat, NEW end, NEW file, NEW chunks,
         Chunked(chunks, total, end, file, img), NEW k \in 1..Len(chunks),
         NEW x, x = chunks[k].start + chunks[k].len, x \in 0..(total - 1), img[x] # None
  PROVE  k + 1 \in 1..Len(chunks) /\ chunks[k + 1].start = x
  <1>1. chunks \in Seq(Chunks) /\ Len(chunks) \in Nat
    BY DEF Chunked
  <1>2. \A i \in 1..Len(chunks) : chunks[i].start \in Nat /\ chunks[i].len \in Nat /\ chunks[i].len # 0
    BY <1>1 DEF Chunks, Chunked, Holding
  <1>3. PICK j \in 1..Len(chunks) : InChunk(chunks[j], x)
    BY DEF Chunked
  <1>4. \A i, l \in 1..Len(chunks) : i < l => chunks[i].start + chunks[i].len <= chunks[l].start
    BY DEF Chunked
  <1>5. chunks[j].start <= x /\ x < chunks[j].start + chunks[j].len
    BY <1>3 DEF InChunk
  <1>6. ~(j < k)
    <2>1. SUFFICES ASSUME j < k PROVE FALSE
      OBVIOUS
    <2>2. chunks[j].start + chunks[j].len <= chunks[k].start
      BY <1>4, <2>1
    <2> QED BY <1>2, <1>5, <2>2
  <1>7. j # k
    BY <1>5
  <1>8. k + 1 \in 1..Len(chunks) /\ k < k + 1 /\ (k + 1 < j \/ k + 1 = j)
    BY <1>1, <1>6, <1>7
  <1>9. x <= chunks[k + 1].start
    BY <1>4, <1>8
  <1>10. k + 1 = j
    <2>1. SUFFICES ASSUME k + 1 < j PROVE FALSE
      BY <1>8
    <2>2. chunks[k + 1].start + chunks[k + 1].len <= chunks[j].start
      BY <1>4, <1>8, <2>1
    <2>3. chunks[k + 1].start \in Nat /\ chunks[k + 1].len \in Nat /\ chunks[k + 1].len # 0
          /\ chunks[j].start \in Nat
      BY <1>2, <1>8
    <2> QED BY <1>5, <1>9, <2>2, <2>3
  <1> QED BY <1>2, <1>5, <1>8, <1>9, <1>10

(* One step of the loop over the chunks. *)
PartStep(image, s, first, acc, k) ==
    LET c == image.chunks[k]
        from == IF k = first THEN s - c.start ELSE 0
        n == Min({c.len - from, acc.left})
    IN  IF acc.left = 0 THEN acc
        ELSE [left |-> acc.left - n, pieces |-> Append(acc.pieces, ReadPart(image.file, c, from, n))]

PartStart(n) == [left |-> n, pieces |-> <<>>]

(* g is what is read of the range from s to e, chunk by chunk, of M chunks *)
(* from the first on.                                                      *)
ReadsAs(g, image, s, e, first, M) ==
    /\ g[1] = PartStart(e - s)
    /\ \A k \in 1..M : g[k + 1] = PartStep(image, s, first, g[k], first + k - 1)
    /\ ReadRange(image, s, e) = g[M + 1].pieces

LEMMA ReadRangeSteps ==
  ASSUME NEW image, image.chunks \in Seq(Chunks), NEW s \in Nat, NEW e \in Nat,
         NEW first, first = ChunkOf(image.chunks, s), NEW M \in Nat,
         M = Len(image.chunks) - first + 1, first \in 1..Len(image.chunks)
  PROVE  \E g : ReadsAs(g, image, s, e, first, M)
  <1> DEFINE P == [i \in 1..(Len(image.chunks) - ChunkOf(image.chunks, s) + 1) |->
                     ChunkOf(image.chunks, s) + i - 1]
             base == [left |-> e - s, pieces |-> <<>>]
             Step(acc, k) ==
               LET c == image.chunks[k]
                   from == IF k = ChunkOf(image.chunks, s) THEN s - c.start ELSE 0
                   n == Min({c.len - from, acc.left})
               IN  IF acc.left = 0 THEN acc
                   ELSE [left |-> acc.left - n,
                         pieces |-> Append(acc.pieces, ReadPart(image.file, c, from, n))]
             Same(iter) ==
               iter = [u \in SUBSET DOMAIN P |->
                         IF u = {} THEN base
                         ELSE LET x == Max(u) IN Step(iter[u \ {x}], P[x])]
  <1>0. ReadRange(image, s, e) = (CHOOSE iter : Same(iter))[DOMAIN P].pieces
    BY Zenon DEF ReadRange, FoldLeft, MapThenFoldSet
  <1>1. DOMAIN P = 1..M /\ \A k \in 1..M : P[k] = first + k - 1
    OBVIOUS
  <1> HIDE DEF P
  <1>2. \A k \in 1..M : first + k - 1 \in 1..Len(image.chunks)
    OBVIOUS
  <1>3. ASSUME NEW k \in 1..M, NEW v PROVE Step(v, P[k]) = PartStep(image, s, first, v, first + k - 1)
    BY <1>1 DEF PartStep
  <1> HIDE DEF Step
  <1>4. PICK Y : \A k \in 1..M, a \in Int, n \in Int : ReadPart(image.file, image.chunks[first + k - 1], a, n) \in Y
    <2>1. \A k \in 1..M, a \in Int, n \in Int :
             ReadPart(image.file, image.chunks[first + k - 1], a, n)
               \in {ReadPart(image.file, image.chunks[first + q[1] - 1], q[2], q[3]) : q \in Int \X Int \X Int}
      <3>1. SUFFICES ASSUME NEW k \in 1..M, NEW a \in Int, NEW n \in Int
                     PROVE  \E q \in Int \X Int \X Int :
                              ReadPart(image.file, image.chunks[first + k - 1], a, n)
                                = ReadPart(image.file, image.chunks[first + q[1] - 1], q[2], q[3])
        OBVIOUS
      <3>2. PICK q : q = <<k, a, n>>
        OBVIOUS
      <3>3. q \in Int \X Int \X Int /\ q[1] = k /\ q[2] = a /\ q[3] = n
        BY <3>2
      <3> QED BY <3>3
    <2> QED BY <2>1
  <1>5. PICK T : T = [left : Int, pieces : Seq(Y)]
    OBVIOUS
  <1>6. base \in T
    BY <1>5
  <1>7. ASSUME NEW k \in 1..M, NEW v \in T PROVE PartStep(image, s, first, v, first + k - 1) \in T
    <2>1. PICK j : j = first + k - 1 /\ j \in 1..Len(image.chunks)
      BY <1>2
    <2>2. PICK c : c = image.chunks[j] /\ c \in Chunks
      BY <2>1
    <2>3. PICK from : from = IF j = first THEN s - c.start ELSE 0
      OBVIOUS
    <2>4. from \in Int /\ c.len - from \in Int /\ v.left \in Int /\ v.pieces \in Seq(Y)
      <3>1. c.start \in Nat /\ c.len \in Nat
        BY <2>2 DEF Chunks
      <3>2. v.left \in Int /\ v.pieces \in Seq(Y)
        BY <1>5
      <3>3. from \in Int
        BY <2>3, <3>1
      <3> QED BY <3>1, <3>2, <3>3
    <2>5. PICK n : n = Min({c.len - from, v.left}) /\ n \in Int
      BY <2>4, MinTwo
    <2>6. PICK part : part = ReadPart(image.file, c, from, n) /\ part \in Y
      BY <1>4, <2>1, <2>2, <2>4, <2>5
    <2>7. PartStep(image, s, first, v, j) = IF v.left = 0 THEN v
                                            ELSE [left |-> v.left - n, pieces |-> Append(v.pieces, part)]
      BY <2>2, <2>3, <2>5, <2>6 DEF PartStep
    <2>8. Append(v.pieces, part) \in Seq(Y) /\ v.left - n \in Int
      BY <2>4, <2>5, <2>6
    <2>9. [left |-> v.left - n, pieces |-> Append(v.pieces, part)] \in T
      BY <1>5, <2>8
    <2> QED BY <2>1, <2>7, <2>9
  <1> HIDE DEF base
  <1>8. PICK F : /\ F \in [(1..M) \X T -> T]
                 /\ \A k \in 1..M, v \in T : F[<<k, v>>] = PartStep(image, s, first, v, first + k - 1)
    <2> DEFINE F == [p \in (1..M) \X T |-> PartStep(image, s, first, p[2], first + p[1] - 1)]
    <2>1. F \in [(1..M) \X T -> T]
      BY <1>7
    <2>2. \A k \in 1..M, v \in T : F[<<k, v>>] = PartStep(image, s, first, v, first + k - 1)
      OBVIOUS
    <2> HIDE DEF F
    <2> QED BY <2>1, <2>2
  <1>9. PICK it \in [SUBSET (1..M) -> T] : Iterates(it, base, F, M)
    BY <1>6, <1>8, FoldExists, Zenon
  <1>10. Same(it)
    <2>1. ASSUME NEW u \in SUBSET (1..M), u # {}
          PROVE  F[<<Max(u), it[u \ {Max(u)}]>>] = Step(it[u \ {Max(u)}], P[Max(u)])
      <3>1. Max(u) \in 1..M /\ u \ {Max(u)} \in SUBSET (1..M)
        BY <1>1, <2>1, MaxOf
      <3> QED BY <1>3, <1>8, <1>9, <3>1
    <2> QED BY <1>1, <1>9, <2>1 DEF Iterates
  <1>11. PICK iter : Same(iter) /\ ReadRange(image, s, e) = iter[DOMAIN P].pieces
    <2> HIDE DEF Same
    <2> QED BY <1>0, <1>10, Zenon
  <1>12. iter[{}] = base
    BY <1>11
  <1>13. ASSUME NEW k \in 1..M
         PROVE  iter[1..k] = PartStep(image, s, first, iter[1..(k - 1)], first + k - 1)
    <2>1. /\ 1..k \in SUBSET (1..M) /\ 1..k # {} /\ Max(1..k) = k /\ (1..k) \ {k} = 1..(k - 1)
      BY UpTo
    <2>2. iter[1..k] = Step(iter[(1..k) \ {Max(1..k)}], P[Max(1..k)])
      BY <1>1, <1>11, <2>1
    <2> QED BY <1>3, <2>1, <2>2
  <1>14. PICK g : g = [k \in 1..(M + 1) |-> iter[1..(k - 1)]]
    OBVIOUS
  <1>15. g[1] = base
    <2>1. 1..(1 - 1) = {} /\ 1 \in 1..(M + 1)
      OBVIOUS
    <2> QED BY <1>12, <1>14, <2>1
  <1>16. \A k \in 1..M : g[k] = iter[1..(k - 1)] /\ g[k + 1] = iter[1..k]
    <2>1. \A k \in 1..M : k \in 1..(M + 1) /\ k + 1 \in 1..(M + 1) /\ (k + 1) - 1 = k
      OBVIOUS
    <2> QED BY <1>14, <2>1
  <1>17. g[M + 1] = iter[1..M]
    <2>1. M + 1 \in 1..(M + 1) /\ (M + 1) - 1 = M
      OBVIOUS
    <2> QED BY <1>14, <2>1
  <1>18. g[1] = PartStart(e - s)
    BY <1>15 DEF PartStart, base
  <1>19. \A k \in 1..M : g[k + 1] = PartStep(image, s, first, g[k], first + k - 1)
    BY <1>13, <1>16
  <1>20. ReadRange(image, s, e) = g[M + 1].pieces
    BY <1>1, <1>11, <1>17
  <1> QED BY <1>18, <1>19, <1>20 DEF ReadsAs

(* The pieces have n blocks of img, from block s on. *)
HasRead(pieces, n, s, img) ==
    /\ pieces \in Seq(Seq(Contents))
    /\ FlattenSeq(pieces) \in Seq(Contents) /\ Len(FlattenSeq(pieces)) = n
    /\ \A i \in 1..n : FlattenSeq(pieces)[i] = img[s + i - 1]

LEMMA HasReadMore ==
  ASSUME NEW img, NEW s \in Nat, NEW pieces, NEW n \in Nat, HasRead(pieces, n, s, img),
         NEW part \in Seq(Contents), NEW m \in Nat, Len(part) = m,
         \A i \in 1..m : part[i] = img[s + n + i - 1]
  PROVE  HasRead(Append(pieces, part), n + m, s, img)
  <1>1. PICK X, v, new : X = Seq(Contents) /\ v = FlattenSeq(pieces) /\ new = Append(pieces, part)
    OBVIOUS
  <1>2. pieces \in Seq(X) /\ part \in X /\ v \in Seq(Contents) /\ Len(v) = n
    BY <1>1 DEF HasRead
  <1>3. new \in Seq(X) /\ new = pieces \o <<part>>
    BY <1>1, <1>2, AppendIsConcat
  <1>4. FlattenSeq(new) = v \o part
    <2>1. <<part>> \in Seq(Seq(Contents))
      OBVIOUS
    <2>2. pieces \in Seq(Seq(Contents))
      BY DEF HasRead
    <2>3. FlattenSeq(pieces \o <<part>>) = FlattenSeq(pieces) \o FlattenSeq(<<part>>)
      BY <2>1, <2>2, FlattenJoined
    <2>4. FlattenSeq(<<part>>) = part
      BY FlattenOne
    <2> QED BY <1>1, <1>3, <2>3, <2>4
  <1>5. /\ v \o part \in Seq(Contents) /\ Len(v \o part) = n + m
        /\ \A k \in 1..n : (v \o part)[k] = v[k]
        /\ \A k \in 1..m : (v \o part)[n + k] = part[k]
    <2>1. PICK p : p = part /\ p \in Seq(Contents) /\ Len(p) = m
      OBVIOUS
    <2>2. /\ v \o p \in Seq(Contents) /\ Len(v \o p) = n + m
          /\ \A k \in 1..n : (v \o p)[k] = v[k]
          /\ \A k \in 1..m : (v \o p)[n + k] = p[k]
      <3>1. n = Len(v) /\ m = Len(p) /\ v \in Seq(Contents) /\ p \in Seq(Contents)
        BY <1>2, <2>1
      <3> QED BY ONLY <3>1, Concatenated
    <2> QED BY <2>1, <2>2
  <1>6. ASSUME NEW i \in 1..(n + m) PROVE (v \o part)[i] = img[s + i - 1]
    <2>1. CASE i \in 1..n
      BY <1>1, <1>5, <2>1 DEF HasRead
    <2>2. CASE ~(i \in 1..n)
      <3>1. i - n \in 1..m /\ n + (i - n) = i /\ s + n + (i - n) - 1 = s + i - 1
        BY <2>2
      <3> QED BY <1>5, <3>1
    <2> QED BY <2>1, <2>2
  <1> QED BY <1>1, <1>3, <1>4, <1>5, <1>6 DEF HasRead

(* Before chunk k of the range s..e-1, and block e - acc.left of the image.  *)
RangeSoFar(acc, k, image, s, e, first, img) ==
    /\ acc.left \in Nat /\ acc.left <= e - s
    /\ HasRead(acc.pieces, (e - s) - acc.left, s, img)
    /\ acc.left # 0 =>
         IF k = 1 THEN acc.left = e - s
         ELSE LET c == image.chunks[first + k - 2] IN e - acc.left = c.start + c.len

(* Where the next block is when l of the blocks s..e-1 are left, and n more *)
(* are read of a chunk that ends at c.                                     *)
LEMMA RangeLeft ==
  ASSUME NEW total \in Nat, NEW s \in Nat, NEW e \in Nat, s < e, e <= total,
         NEW l \in Nat, l <= e - s, l # 0
  PROVE  /\ e - l \in s..(e - 1) /\ e - l \in 0..(total - 1) /\ e - l \in Nat /\ (e - s) - l \in Nat
         /\ s + ((e - s) - l) = e - l
         /\ \A n \in Nat : n <= l => /\ l - n \in Nat /\ l - n <= e - s
                                    /\ ((e - s) - l) + n = (e - s) - (l - n)
                                    /\ e - (l - n) = (e - l) + n
  OBVIOUS

LEMMA RestOfChunk ==
  ASSUME NEW h \in Nat, NEW from \in Nat, from < h, NEW l \in Nat,
         NEW n, n = IF h - from <= l THEN h - from ELSE l
  PROVE  n \in Nat /\ n <= l /\ from + n <= h /\ (n = l \/ from + n = h)
  <1>1. CASE h - from <= l
    BY <1>1
  <1>2. CASE ~(h - from <= l)
    BY <1>2
  <1> QED BY <1>1, <1>2

LEMMA RangeStep ==
  ASSUME NEW img \in Images, NEW total \in Nat, NEW file, NEW end, NEW image, image.file = file,
         Chunked(image.chunks, total, end, file, img),
         NEW s \in Nat, NEW e \in Nat, s < e, e <= total, \A b \in s..(e - 1) : img[b] # None,
         NEW first \in 1..Len(image.chunks), InChunk(image.chunks[first], s),
         NEW k \in Nat, k # 0, first + k - 1 \in 1..Len(image.chunks),
         NEW acc, RangeSoFar(acc, k, image, s, e, first, img)
  PROVE  RangeSoFar(PartStep(image, s, first, acc, first + k - 1), k + 1, image, s, e, first, img)
  <1>1. PICK new, j : j = first + k - 1 /\ new = PartStep(image, s, first, acc, j)
    OBVIOUS
  <1>2. acc.left \in Nat /\ acc.left <= e - s /\ HasRead(acc.pieces, (e - s) - acc.left, s, img)
    BY DEF RangeSoFar
  <1>3. CASE acc.left = 0
    <2>1. new = acc
      BY <1>1, <1>3 DEF PartStep
    <2> QED BY <1>1, <1>2, <1>3, <2>1 DEF RangeSoFar
  <1>4. CASE acc.left # 0
    <2>1. PICK l, x : l = acc.left /\ x = e - l /\ l \in Nat /\ l # 0
      BY <1>2, <1>4
    <2>2. x \in s..(e - 1) /\ x \in 0..(total - 1) /\ x \in Nat /\ (e - s) - l \in Nat
          /\ s + ((e - s) - l) = x
      <3>1. l <= e - s
        BY <1>2, <2>1
      <3>2. /\ e - l \in s..(e - 1) /\ e - l \in 0..(total - 1) /\ e - l \in Nat
            /\ (e - s) - l \in Nat /\ s + ((e - s) - l) = e - l
        <4>1. l \in Nat /\ l # 0 /\ s \in Nat /\ e \in Nat /\ total \in Nat /\ s < e /\ e <= total
          BY <2>1
        <4> QED BY ONLY <3>1, <4>1, RangeLeft
      <3> QED BY <2>1, <3>2
    <2>3. img[x] # None
      BY <2>2
    <2>4. PICK c : c = image.chunks[j]
      OBVIOUS
    <2>5. Holding(c, total, end, file, img)
      BY <1>1, <2>4 DEF Chunked
    <2>6. c.start \in Nat /\ c.len \in Nat /\ c.len # 0
      BY <2>5 DEF Holding, Chunks
    <2>7. PICK from : from = IF j = first THEN s - c.start ELSE 0
      OBVIOUS
    <2>8. from \in Nat /\ from < c.len /\ c.start + from = x
      <3>1. CASE k = 1
        <4>1. j = first /\ x = s
          BY <1>1, <1>4, <2>1, <3>1 DEF RangeSoFar
        <4>2. c.start <= s /\ s < c.start + c.len
          BY <2>4, <4>1 DEF InChunk
        <4> QED BY <2>6, <2>7, <4>1, <4>2
      <3>2. CASE k # 1
        <4>1. PICK i : i = first + k - 2 /\ i \in 1..Len(image.chunks) /\ i + 1 = j /\ j # first
          BY <1>1, <3>2
        <4>2. x = image.chunks[i].start + image.chunks[i].len
          BY <1>4, <2>1, <3>2, <4>1 DEF RangeSoFar
        <4>3. image.chunks[i + 1].start = x
          <5>1. PICK chunks : chunks = image.chunks
            OBVIOUS
          <5>2. Chunked(chunks, total, end, file, img) /\ i \in 1..Len(chunks)
                /\ x = chunks[i].start + chunks[i].len
            BY <4>1, <4>2, <5>1
          <5>3. chunks[i + 1].start = x
            BY <2>2, <2>3, <5>2, NextChunk
          <5> QED BY <5>1, <5>3
        <4>4. from = 0 /\ c.start = x
          BY <2>4, <2>7, <4>1, <4>3
        <4> QED BY <2>2, <2>6, <4>4
      <3> QED BY <3>1, <3>2
    <2>9. PICK n : n = Min({c.len - from, l})
      OBVIOUS
    <2>10. n \in Nat /\ n <= l /\ from + n <= c.len /\ (n = l \/ from + n = c.len)
      <3>1. n = IF c.len - from <= l THEN c.len - from ELSE l
        <4>1. c.len - from \in Int /\ l \in Int
          BY <2>1, <2>6, <2>8
        <4> QED BY <2>9, <4>1, MinTwo
      <3>2. PICK h : h = c.len /\ h \in Nat /\ from \in Nat /\ from < h
        BY <2>6, <2>8
      <3>3. n = IF h - from <= l THEN h - from ELSE l
        BY <3>1, <3>2
      <3>4. n \in Nat /\ n <= l /\ from + n <= h /\ (n = l \/ from + n = h)
        <4>1. l \in Nat /\ h \in Nat /\ from \in Nat /\ from < h
          BY <2>1, <3>2
        <4> QED BY ONLY <3>3, <4>1, RestOfChunk
      <3> QED BY <3>2, <3>4
    <2>11. PICK part : /\ part = ReadPart(file, c, from, n)
                       /\ part \in Seq(Contents) /\ Len(part) = n
                       /\ \A i \in 1..n : part[i] = img[c.start + from + i - 1]
      BY <2>5, <2>8, <2>10, ReadPartIs
    <2>12. new = [left |-> l - n, pieces |-> Append(acc.pieces, part)]
      BY <1>1, <1>4, <2>1, <2>4, <2>7, <2>9, <2>11 DEF PartStep
    <2>13. HasRead(Append(acc.pieces, part), ((e - s) - l) + n, s, img)
      <3>1. \A i \in 1..n : part[i] = img[s + ((e - s) - l) + i - 1]
        BY <2>2, <2>8, <2>11
      <3> QED BY <1>2, <2>1, <2>2, <2>10, <2>11, <3>1, HasReadMore
    <2>14. new.left = l - n /\ l - n \in Nat /\ l - n <= e - s /\ ((e - s) - l) + n = (e - s) - (l - n)
           /\ new.pieces = Append(acc.pieces, part)
      <3>1. l <= e - s
        BY <1>2, <2>1
      <3>2. l - n \in Nat /\ l - n <= e - s /\ ((e - s) - l) + n = (e - s) - (l - n)
        BY <2>1, <2>10, <3>1, RangeLeft
      <3> QED BY <2>12, <3>2
    <2>15. l - n # 0 => e - (l - n) = c.start + c.len
      <3>1. l <= e - s
        BY <1>2, <2>1
      <3>2. e - (l - n) = x + n
        BY <2>1, <2>10, <3>1, RangeLeft
      <3>3. SUFFICES ASSUME l - n # 0 PROVE x + n = c.start + c.len
        BY <3>2
      <3>4. from + n = c.len
        BY <2>1, <2>10, <3>3
      <3>5. PICK a, h : a = c.start /\ h = c.len /\ a \in Nat /\ h \in Nat
        BY <2>6
      <3>6. (a + from) + n = a + h
        BY <2>8, <2>10, <3>4, <3>5
      <3> QED BY <2>8, <3>5, <3>6
    <2>16. k + 1 # 1 /\ first + (k + 1) - 2 = j
      BY <1>1
    <2> QED BY <1>1, <2>4, <2>13, <2>14, <2>15, <2>16 DEF RangeSoFar
  <1> QED BY <1>3, <1>4

(* One range of blocks that all have data. *)
LEMMA ReadRangeIs ==
  ASSUME NEW img \in Images, NEW total \in Nat, NEW file, NEW image, ImageIs(image, file, img, total),
         NEW s \in Nat, NEW e \in Nat, s < e, e <= total, \A b \in s..(e - 1) : img[b] # None
  PROVE  HasRead(ReadRange(image, s, e), e - s, s, img)
  <1>1. PICK end : Chunked(image.chunks, total, end, file, img) /\ image.file = file
    BY DEF ImageIs
  <1>2. image.chunks \in Seq(Chunks) /\ Len(image.chunks) \in Nat
    BY <1>1 DEF Chunked
  <1>3. PICK first : first = ChunkOf(image.chunks, s) /\ first \in 1..Len(image.chunks)
                     /\ InChunk(image.chunks[first], s)
    <2>1. s \in 0..(total - 1) /\ s \in s..(e - 1)
      OBVIOUS
    <2> QED BY <1>1, <2>1, ChunkOfIs
  <1>4. PICK M : M = Len(image.chunks) - first + 1 /\ M \in Nat /\ M # 0
    BY <1>2, <1>3
  <1>5. PICK g : /\ g[1] = PartStart(e - s)
                 /\ \A k \in 1..M : g[k + 1] = PartStep(image, s, first, g[k], first + k - 1)
                 /\ ReadRange(image, s, e) = g[M + 1].pieces
    <2>1. image.chunks \in Seq(Chunks) /\ first = ChunkOf(image.chunks, s)
          /\ M = Len(image.chunks) - first + 1 /\ M \in Nat /\ first \in 1..Len(image.chunks)
      BY <1>2, <1>3, <1>4
    <2>2. PICK h : ReadsAs(h, image, s, e, first, M)
      BY ONLY <2>1, s \in Nat, e \in Nat, ReadRangeSteps
    <2> QED BY <2>2 DEF ReadsAs
  <1> DEFINE S == {n \in Nat : n <= M => RangeSoFar(g[n + 1], n + 1, image, s, e, first, img)}
  <1>6. 0 \in S
    <2>1. g[1].left = e - s /\ g[1].pieces = <<>>
      BY <1>5 DEF PartStart
    <2>2. HasRead(<<>>, 0, s, img)
      <3>1. <<>> \in Seq(Seq(Contents)) /\ <<>> \in Seq(Contents) /\ Len(<<>>) = 0
        OBVIOUS
      <3>2. \A i \in 1..0 : FALSE
        OBVIOUS
      <3> QED BY <3>1, <3>2, FlattenNone DEF HasRead
    <2>3. e - s \in Nat /\ (e - s) - (e - s) = 0 /\ e - s <= e - s /\ 0 + 1 = 1
      OBVIOUS
    <2>4. RangeSoFar(g[1], 1, image, s, e, first, img)
      BY <2>1, <2>2, <2>3 DEF RangeSoFar
    <2> QED BY <2>3, <2>4
  <1>7. ASSUME NEW n \in Nat, n \in S PROVE n + 1 \in S
    <2>1. SUFFICES ASSUME n + 1 <= M
                   PROVE  RangeSoFar(g[(n + 1) + 1], (n + 1) + 1, image, s, e, first, img)
      OBVIOUS
    <2>2. RangeSoFar(g[n + 1], n + 1, image, s, e, first, img)
      BY <1>4, <1>7, <2>1
    <2>3. PICK k : k = n + 1 /\ k \in 1..M /\ k \in Nat /\ k # 0 /\ first + k - 1 \in 1..Len(image.chunks)
      BY <1>2, <1>3, <1>4, <2>1
    <2>4. RangeSoFar(PartStep(image, s, first, g[k], first + k - 1), k + 1, image, s, e, first, img)
      BY <1>1, <1>3, <2>2, <2>3, RangeStep
    <2> QED BY <1>5, <2>3, <2>4
  <1> HIDE DEF S
  <1>8. M \in S
    BY <1>4, <1>6, <1>7, SetInduction
  <1>9. RangeSoFar(g[M + 1], M + 1, image, s, e, first, img)
    BY <1>4, <1>8 DEF S
  <1>10. g[M + 1].left = 0
    <2>1. SUFFICES ASSUME g[M + 1].left # 0 PROVE FALSE
      OBVIOUS
    <2>2. PICK l, x : l = g[M + 1].left /\ x = e - l
      OBVIOUS
    <2>3. l \in Nat /\ l <= e - s /\ l # 0
      BY <1>9, <2>1, <2>2 DEF RangeSoFar
    <2>4. x \in s..(e - 1) /\ x \in 0..(total - 1)
      BY <2>2, <2>3
    <2>5. M + 1 # 1 /\ first + (M + 1) - 2 = Len(image.chunks) /\ Len(image.chunks) \in 1..Len(image.chunks)
      BY <1>2, <1>3, <1>4
    <2>6. x = image.chunks[Len(image.chunks)].start + image.chunks[Len(image.chunks)].len
      BY <1>9, <2>1, <2>2, <2>5 DEF RangeSoFar
    <2>7. Len(image.chunks) + 1 \in 1..Len(image.chunks)
      BY <1>1, <2>4, <2>5, <2>6, NextChunk
    <2> QED BY <1>2, <2>7
  <1>11. (e - s) - 0 = e - s
    OBVIOUS
  <1> QED BY <1>5, <1>9, <1>10, <1>11 DEF RangeSoFar

(* One block with data. *)
LEMMA ReadBlockIs ==
  ASSUME NEW img \in Images, NEW total \in Nat, NEW file, NEW image, ImageIs(image, file, img, total),
         NEW b \in 0..(total - 1), img[b] # None
  PROVE  ReadContent(image, <<b, b + 1>>) = <<img[b]>>
  <1>1. PICK pieces : pieces = ReadRange(image, b, b + 1)
    OBVIOUS
  <1>2. HasRead(pieces, 1, b, img)
    <2>1. b \in Nat /\ b + 1 \in Nat /\ b < b + 1 /\ b + 1 <= total /\ (b + 1) - b = 1
      OBVIOUS
    <2>2. \A x \in b..((b + 1) - 1) : img[x] # None
      <3>1. \A x \in b..((b + 1) - 1) : x = b
        OBVIOUS
      <3> QED BY <3>1
    <2>3. HasRead(ReadRange(image, b, b + 1), (b + 1) - b, b, img)
      BY <2>1, <2>2, ReadRangeIs
    <2> QED BY <1>1, <2>1, <2>3
  <1>3. ReadRangeSet(image, <<b, b + 1>>) = pieces
    <2>1. PICK pairs : pairs = Pairs(<<b, b + 1>>)
      OBVIOUS
    <2>2. DOMAIN pairs = 1..1 /\ pairs[1][1] = b /\ pairs[1][2] = b + 1
      <3>1. Len(<<b, b + 1>>) = 2 /\ 2 \div 2 = 1 /\ 2 * 1 - 1 = 1 /\ 2 * 1 = 2
            /\ <<b, b + 1>>[1] = b /\ <<b, b + 1>>[2] = b + 1
        OBVIOUS
      <3> QED BY <2>1, <3>1 DEF Pairs
    <2>3. PICK parts : parts = [i \in DOMAIN pairs |-> ReadRange(image, pairs[i][1], pairs[i][2])]
      OBVIOUS
    <2>4. parts = <<pieces>>
      <3>1. parts = [i \in 1..1 |-> pieces]
        BY <1>1, <2>2, <2>3
      <3> QED BY <3>1
    <2>5. pieces \in Seq(Seq(Contents))
      BY <1>2 DEF HasRead
    <2>6. FlattenSeq(<<pieces>>) = pieces
      BY <2>5, FlattenOne
    <2> QED BY <2>1, <2>3, <2>4, <2>6 DEF ReadRangeSet
  <1>4. PICK v : v = FlattenSeq(pieces) /\ v \in Seq(Contents) /\ Len(v) = 1 /\ v[1] = img[b]
    <2>1. b + 1 - 1 = b /\ 1 \in 1..1
      OBVIOUS
    <2> QED BY <1>2, <2>1 DEF HasRead
  <1>5. v = <<img[b]>>
    BY <1>4
  <1> QED BY <1>3, <1>4, <1>5 DEF ReadContent

(* Without a block map there is nothing an image could fail on. *)
LEMMA LoadNoLines ==
  ASSUME NEW img \in Images, NEW total \in Nat, NEW file, FileOf(file, img, total)
  PROVE  /\ ImageIs(LoadImage(file, <<>>), file, img, total)
         /\ \E image : /\ ImageIs(image, file, img, total)
                       /\ LoadImage(file, <<>>).files = FileMap(image, <<>>, image.care)
  <1>1. PICK image : /\ ImageIs(image, file, img, total)
                     /\ \A lines : /\ LoadImage(file, lines).ok =>
                                         ImageIs(LoadImage(file, lines), file, img, total)
                                   /\ LoadLines(image, lines).ok =>
                                         /\ LoadImage(file, lines).ok
                                         /\ LoadImage(file, lines).files
                                              = FileMap(image, LoadLines(image, lines).files,
                                                        LoadLines(image, lines).remaining)
    BY LoadedIs
  <1>2. LoadLines(image, <<>>) = [ok |-> TRUE, files |-> <<>>, remaining |-> image.care]
    <2> DEFINE base == [ok |-> TRUE, files |-> <<>>, remaining |-> image.care]
               Same(iter) ==
                 iter = [u \in SUBSET DOMAIN <<>> |->
                           IF u = {} THEN base
                           ELSE LET x == Max(u) IN LoadLine(image.clobbered, iter[u \ {x}], <<>>[x])]
    <2>1. LoadLines(image, <<>>) = (CHOOSE iter : Same(iter))[DOMAIN <<>>]
      BY Zenon DEF LoadLines, FoldLeft, MapThenFoldSet
    <2>2. DOMAIN <<>> = {}
      OBVIOUS
    <2> HIDE DEF base
    <2>3. PICK it : it = [u \in SUBSET {} |-> base]
      OBVIOUS
    <2>4. Same(it)
      BY <2>2, <2>3
    <2>5. PICK iter : Same(iter) /\ LoadLines(image, <<>>) = iter[DOMAIN <<>>]
      <3> HIDE DEF Same
      <3> QED BY <2>1, <2>4, Zenon
    <2>6. iter[{}] = base
      BY <2>2, <2>5
    <2> QED BY <2>2, <2>5, <2>6 DEF base
  <1>3. /\ LoadLines(image, <<>>).ok /\ LoadLines(image, <<>>).files = <<>>
        /\ LoadLines(image, <<>>).remaining = image.care
    BY <1>2
  <1> QED BY <1>1, <1>3

Between(cuts, i, b) == cuts[i] <= b /\ b < cuts[i + 1]

(* Every block is between two cuts, and no other two. *)
LEMMA OneBetween ==
  ASSUME NEW cuts, NEW n \in Nat, CutsAt(cuts, n), Len(job.content) \in Nat,
         NEW b \in Nat, b < cuts[n + 1]
  PROVE  \E i \in 1..n : Between(cuts, i, b) /\ \A j \in 1..n : Between(cuts, j, b) => j = i
  <1>1. \A i \in 1..(n + 1) : cuts[i] \in Int
    BY DEF CutsAt
  <1>2. ASSUME NEW i \in 1..(n + 1) PROVE \A k \in Nat : i + k <= n + 1 => cuts[i] <= cuts[i + k]
    <2> DEFINE S == {k \in Nat : i + k <= n + 1 => cuts[i] <= cuts[i + k]}
    <2>1. 0 \in S
      <3>1. i + 0 = i /\ cuts[i] \in Int
        BY <1>1
      <3> QED BY <3>1
    <2>2. ASSUME NEW k \in Nat, k \in S PROVE k + 1 \in S
      <3>1. SUFFICES ASSUME i + (k + 1) <= n + 1 PROVE cuts[i] <= cuts[i + (k + 1)]
        OBVIOUS
      <3>2. PICK j : j = i + k /\ j \in 1..n /\ j + 1 = i + (k + 1) /\ j \in 1..(n + 1) /\ j + 1 \in 1..(n + 1)
        BY <3>1
      <3>3. cuts[i] <= cuts[j]
        BY <2>2, <3>2
      <3>4. cuts[j] <= cuts[j + 1]
        BY <3>2 DEF CutsAt
      <3>5. cuts[i] \in Int /\ cuts[j] \in Int /\ cuts[j + 1] \in Int
        BY <1>1, <3>2
      <3> QED BY <3>2, <3>3, <3>4, <3>5
    <2> HIDE DEF S
    <2>3. Nat \subseteq S
      BY <2>1, <2>2, SetInduction
    <2> QED BY <2>3 DEF S
  <1>3. ASSUME NEW i \in 1..(n + 1), NEW j \in 1..(n + 1), i <= j PROVE cuts[i] <= cuts[j]
    <2>1. PICK k \in Nat : k = j - i /\ i + k = j /\ i + k <= n + 1
      BY <1>3
    <2> QED BY <1>2, <2>1
  <1> DEFINE R == {m \in Nat : m <= n => (b < cuts[m + 1] => \E i \in 1..m : Between(cuts, i, b))}
  <1>4. 0 \in R
    <2>1. cuts[0 + 1] = 0
      BY DEF CutsAt
    <2> QED BY <2>1
  <1>5. ASSUME NEW m \in Nat, m \in R PROVE m + 1 \in R
    <2>1. SUFFICES ASSUME m + 1 <= n, b < cuts[(m + 1) + 1]
                   PROVE  \E i \in 1..(m + 1) : Between(cuts, i, b)
      OBVIOUS
    <2>2. CASE b < cuts[m + 1]
      <3>1. \E i \in 1..m : Between(cuts, i, b)
        BY <1>5, <2>1, <2>2
      <3> QED BY <3>1
    <2>3. CASE ~(b < cuts[m + 1])
      <3>1. cuts[m + 1] \in Int
        BY <1>1, <2>1
      <3>2. Between(cuts, m + 1, b)
        BY <2>1, <2>3, <3>1 DEF Between
      <3> QED BY <3>2
    <2> QED BY <2>2, <2>3
  <1> HIDE DEF R
  <1>6. n \in R
    BY <1>4, <1>5, SetInduction
  <1>7. PICK i \in 1..n : Between(cuts, i, b)
    BY <1>6 DEF R
  <1>8. ASSUME NEW k \in 1..n, NEW j \in 1..n, k < j, Between(cuts, k, b), Between(cuts, j, b) PROVE FALSE
    <2>1. k + 1 \in 1..(n + 1) /\ j \in 1..(n + 1) /\ k + 1 <= j
      BY <1>8
    <2>2. cuts[k + 1] <= cuts[j] /\ cuts[k + 1] \in Int /\ cuts[j] \in Int
      BY <1>1, <1>3, <2>1
    <2> QED BY <1>8, <2>2 DEF Between
  <1>9. ASSUME NEW j \in 1..n, Between(cuts, j, b) PROVE j = i
    <2>1. ~(i < j) /\ ~(j < i)
      BY <1>7, <1>8, <1>9
    <2> QED BY <2>1
  <1> QED BY <1>7, <1>9

(* What a part shows of a block. *)
LEMMA PartShows ==
  ASSUME job \in Jobs, NEW s \in Nat, NEW e \in Nat, e <= Len(job.content), NEW b \in 0..(Len(job.content) - 1)
  PROVE  LET p == Part(job.content, job.dontCare, s, e)
         IN  /\ p[b] # None <=> s <= b /\ b < e /\ HasData(b)
             /\ p[b] # None => p[b] = job.content[b + 1]
  <1>1. job.content \in Seq(Contents) /\ Len(job.content) \in Nat
    BY JobIs
  <1>2. b \in Nat /\ b < Len(job.content) /\ b + 1 \in 1..Len(job.content)
    BY <1>1
  <1>3. PICK v : v = job.content[b + 1] /\ v \in Contents
    BY <1>1, <1>2
  <1>4. v # None
    BY <1>3, ContentAssumption DEF Contents
  <1>5. Part(job.content, job.dontCare, s, e)[b] = IF s <= b /\ b < e THEN Shown(job.content[b + 1], job.dontCare) ELSE None
    BY <1>1, <1>2, PartIs
  <1>6. Part(job.content, job.dontCare, s, e)[b] = IF s <= b /\ b < e THEN Shown(v, job.dontCare) ELSE None
    BY <1>3, <1>5
  <1>7. Shown(v, job.dontCare) = IF v \in job.dontCare THEN None ELSE v
    BY DEF Shown
  <1>8. HasData(b) <=> v \notin job.dontCare
    BY <1>2, <1>3 DEF HasData
  <1> QED BY <1>3, <1>4, <1>6, <1>7, <1>8

LEMMA KeptFit == ASSUME Kept PROVE SplitFilesFit
  <1>1. SUFFICES ASSUME pc = "split" PROVE PartsFit([i \in DOMAIN files |-> LoadImage(files[i], <<>>)])
    BY DEF SplitFilesFit
  <1>2. job \in Jobs
    BY DEF Kept, FilesKept
  <1>3. PICK cuts : Filed(cuts, files) /\ cuts[Len(files) + 1] = Len(job.content)
    BY <1>1 DEF Kept, FilesKept
  <1>4. PICK n, L : n = Len(files) /\ n \in Nat /\ DOMAIN files = 1..n /\ L = Len(job.content) /\ L \in Nat
    <2>1. files \in Seq(Seq(Cells)) /\ Len(job.content) \in Nat
      BY <1>2, <1>3, JobIs DEF Filed
    <2>2. Len(files) \in Nat /\ DOMAIN files = 1..Len(files)
      BY <2>1, LenProperties
    <2> QED BY <2>1, <2>2
  <1>5. CutsAt(cuts, n) /\ cuts[n + 1] = L
    BY <1>3, <1>4 DEF Filed
  <1>6. PICK parts : parts = [i \in 1..n |-> LoadImage(files[i], <<>>)]
    OBVIOUS
  <1>7. ASSUME NEW i \in 1..n
        PROVE  /\ cuts[i] \in Nat /\ cuts[i + 1] \in Nat /\ cuts[i + 1] <= L
               /\ ImageIs(parts[i], files[i], Part(job.content, job.dontCare, cuts[i], cuts[i + 1]), L)
               /\ Part(job.content, job.dontCare, cuts[i], cuts[i + 1]) \in Images
    <2>1. i \in 1..(n + 1) /\ i + 1 \in 1..(n + 1)
      BY <1>4
    <2>2. cuts[i] \in Nat /\ cuts[i + 1] \in Nat /\ cuts[i + 1] <= L
      BY <1>4, <1>5, <2>1 DEF CutsAt
    <2>3. PICK img : img = Part(job.content, job.dontCare, cuts[i], cuts[i + 1]) /\ img \in Images
      BY <1>2, <1>4, <2>2, JobIs, PartIs
    <2>4. FileOf(files[i], img, L)
      BY <1>3, <1>4, <2>3 DEF Filed
    <2>5. ImageIs(LoadImage(files[i], <<>>), files[i], img, L)
      BY <1>4, <2>3, <2>4, LoadNoLines
    <2> QED BY <1>6, <2>2, <2>3, <2>5
  <1>8. ASSUME NEW b \in 0..(L - 1), NEW i \in 1..n
        PROVE  b \in Blocks(parts[i].care) <=> Between(cuts, i, b) /\ HasData(b)
    <2>1. PICK img : img = Part(job.content, job.dontCare, cuts[i], cuts[i + 1])
      OBVIOUS
    <2>2. Blocks(parts[i].care) = WithData(img, L)
      BY <1>7, <2>1 DEF ImageIs
    <2>3. img[b] # None <=> cuts[i] <= b /\ b < cuts[i + 1] /\ HasData(b)
      BY <1>2, <1>4, <1>7, <2>1, PartShows
    <2> QED BY <2>2, <2>3 DEF WithData, Between
  <1>9. ASSUME NEW b \in 0..(L - 1)
        PROVE  IF HasData(b)
               THEN \E i \in DOMAIN parts :
                       /\ Holders(parts, b) = {i}
                       /\ ReadContent(parts[i], <<b, b + 1>>) = <<job.content[b + 1]>>
               ELSE Holders(parts, b) = {}
    <2>1. Holders(parts, b) = {i \in 1..n : Between(cuts, i, b) /\ HasData(b)}
      BY <1>6, <1>8 DEF Holders
    <2>2. CASE ~HasData(b)
      BY <2>1, <2>2
    <2>3. CASE HasData(b)
      <3>1. PICK i \in 1..n : Between(cuts, i, b) /\ \A j \in 1..n : Between(cuts, j, b) => j = i
        <4>1. b \in Nat /\ b < cuts[n + 1]
          BY <1>4, <1>5
        <4> QED BY <1>4, <1>5, <4>1, OneBetween
      <3>2. Holders(parts, b) = {i}
        BY <2>1, <2>3, <3>1
      <3>3. PICK img : img = Part(job.content, job.dontCare, cuts[i], cuts[i + 1])
        OBVIOUS
      <3>4. img \in Images /\ ImageIs(parts[i], files[i], img, L)
        BY <1>7, <3>3
      <3>5. img[b] # None /\ img[b] = job.content[b + 1]
        <4>1. cuts[i] <= b /\ b < cuts[i + 1]
          BY <3>1 DEF Between
        <4> QED BY <1>2, <1>4, <1>7, <2>3, <3>3, <4>1, PartShows
      <3>6. ReadContent(parts[i], <<b, b + 1>>) = <<img[b]>>
        BY <1>4, <3>4, <3>5, ReadBlockIs
      <3>7. i \in DOMAIN parts
        BY <1>6
      <3> QED BY <2>3, <3>2, <3>5, <3>6, <3>7
    <2> QED BY <2>2, <2>3
  <1>10. ASSUME NEW i \in 1..n PROVE parts[i].ok /\ parts[i].total = L
    BY <1>7 DEF ImageIs
  <1>11. PartsFit(parts)
    BY <1>4, <1>6, <1>9, <1>10 DEF PartsFit
  <1> QED BY <1>4, <1>6, <1>11

(* The files of a split image fit together, for every image, every limit   *)
(* and every set of patterns that img2simg.py is to leave out: each file   *)
(* has the size of the whole image and the chunks its header says, and     *)
(* every block with data is in exactly one of them, at its place and with  *)
(* its content.                                                            *)
THEOREM FilesFit == Spec => []SplitFilesFit
  BY KeptAlways, KeptFit, PTL
===============================================================================
