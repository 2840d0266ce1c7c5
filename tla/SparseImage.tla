----------------------------- MODULE SparseImage -----------------------------
(***************************************************************************)
(* assets/scripts/sparse_img.py: class SparseImage, which reads a sparse   *)
(* image file into an image object for BlockImageDiff: the blocks that     *)
(* hold data (care_map), where in the file each of them is (offset_map),   *)
(* and which of them belong together (file_map).                           *)
(***************************************************************************)
EXTENDS SimgWriter, RangeSet

CONSTANTS
    ReadAhead,       \* 512: blocks around the data that are zeroed as well
    GroupBoundaries  \* MAX_BLOCKS_PER_GROUP, 1024: boundaries in a group

ASSUME GroupAssumption ==
    ReadAhead \in Nat /\ GroupBoundaries \in Nat \ {0}

(* A name of a file map: the path, its basename, and the basename with     *)
(* digits replaced.                                                        *)
Name(path, base, pattern) == [path |-> path, base |-> base, pattern |-> pattern]
Special(domain) == Name(domain, domain, domain)
Group(i) ==
    LET path == "__NONZERO-" \o ToString(i) IN Name(path, path, "__NONZERO-#")

(* A file map in the order of its dict: a sequence of name and ranges.     *)
Entry(name, ranges) == [name |-> name, ranges |-> ranges]

Broken == [ok |-> FALSE]

-------------------------------------------------------------------------------
(* __init__: the chunks, one after the other.                              *)

(* pos counts blocks of the image, at cells of the file.                   *)
ReadChunk(file, acc) ==
    IF ~acc.ok THEN acc
    ELSE LET h == file[acc.at]
             next == [acc EXCEPT !.pos = @ + h.blocks, !.at = @ + 1 + h.size]
             chunk(at, fill) == [start |-> acc.pos, len |-> h.blocks, at |-> at, fill |-> fill]
             cared == [next EXCEPT !.care = @ \o <<acc.pos, acc.pos + h.blocks>>]
         IN  CASE h.kind = "raw" /\ h.size = h.blocks ->
                    [cared EXCEPT !.chunks = Append(@, chunk(acc.at + 1, None))]
               [] h.kind = "fill" ->
                    [cared EXCEPT !.chunks = Append(@, chunk(0, file[acc.at + 1].content))]
               [] h.kind = "dontcare" /\ h.size = 0 -> next
               [] OTHER -> [acc EXCEPT !.ok = FALSE]

(* The chunk a block is in: bisect_right over the starts.                  *)
ChunkOf(chunks, b) == Max({k \in DOMAIN chunks : chunks[k].start <= b})

(* n blocks of a chunk, from its block number from on. *)
ReadPart(file, c, from, n) ==
    [i \in 1..n |-> IF c.fill = None THEN file[c.at + from + i - 1].content ELSE c.fill]

(* _GetRangeData for one range: the rest of the chunk it starts in, then   *)
(* the following chunks as far as they are needed.  The data comes in one  *)
(* piece per chunk.                                                        *)
ReadRange(image, s, e) ==
    LET first == ChunkOf(image.chunks, s)
        step(acc, k) ==
            LET c == image.chunks[k]
                from == IF k = first THEN s - c.start ELSE 0
                n == Min({c.len - from, acc.left})
            IN  IF acc.left = 0 THEN acc
                ELSE [left |-> acc.left - n,
                      pieces |-> Append(acc.pieces, ReadPart(image.file, c, from, n))]
    IN  FoldLeft(step, [left |-> e - s, pieces |-> <<>>],
                 [i \in 1..(Len(image.chunks) - first + 1) |-> first + i - 1]).pieces

ReadRangeSet(image, r) ==
    FlattenSeq([i \in DOMAIN Pairs(r) |-> ReadRange(image, Pairs(r)[i][1], Pairs(r)[i][2])])

(* The data itself, which is what a hash of it tells apart. *)
ReadContent(image, r) == FlattenSeq(ReadRangeSet(image, r))

-------------------------------------------------------------------------------
(* LoadFileBlockMap                                                        *)

LoadLine_TakesExtent(clobbered, acc, line) ==
    LET ranges == ParseRanges(line.pairs)
    IN  IF /\ acc.ok
           /\ Size(ranges) = Size(Intersect(ranges, acc.remaining))
           /\ ~Overlaps(clobbered, ranges)
        THEN [acc EXCEPT !.files = Append(@, Entry(line.name, ranges)),
                         !.remaining = Subtract(@, <<ranges[1], ranges[Len(ranges)]>>)]
        ELSE [acc EXCEPT !.ok = FALSE]

(* Every line takes blocks that hold data, no other line has and are not   *)
(* clobbered.                                                              *)
LoadLine(clobbered, acc, line) ==
    LET ranges == ParseRanges(line.pairs)
    IN  IF /\ acc.ok
           /\ Size(ranges) = Size(Intersect(ranges, acc.remaining))
           /\ ~Overlaps(clobbered, ranges)
        THEN [acc EXCEPT !.files = Append(@, Entry(line.name, ranges)),
                         !.remaining = Subtract(@, ranges)]
        ELSE [acc EXCEPT !.ok = FALSE]

IsZeroBlock(image, b) == ReadContent(image, <<b, b + 1>>) = <<Zero>>

(* Two boundaries a block: a group is full after half as many blocks.      *)
GroupBlocks == (GroupBoundaries + 1) \div 2

GroupsOf(blocks) ==
    [g \in 1..((Len(blocks) + GroupBlocks - 1) \div GroupBlocks) |->
        OfBlocks(SubSeq(blocks, (g - 1) * GroupBlocks + 1, Min({g * GroupBlocks, Len(blocks)})))]

(* The blocks no line names are divided into zero blocks and groups of the *)
(* others; the clobbered blocks are a domain of their own.                 *)
FileMap(image, files, remaining) ==
    LET rest == Blocks(Subtract(remaining, image.clobbered))
        zeros == {b \in rest : IsZeroBlock(image, b)}
        groups == GroupsOf(Ascending(rest \ zeros))
    IN  files \o (IF zeros = {} THEN <<>> ELSE <<Entry(Special("__ZERO"), OfBlocks(Ascending(zeros)))>>)
              \o [g \in DOMAIN groups |-> Entry(Group(g - 1), groups[g])]
              \o <<Entry(Special("__COPY"), image.clobbered)>>

ExtendedBlocks(care, total) ==
    Subtract(Intersect(Extend(care, ReadAhead), <<0, total>>), care)

ReadChunks(file) ==
    FoldLeft(LAMBDA acc, i : ReadChunk(file, acc),
             [ok |-> file[1].kind = "file", at |-> 2, pos |-> 0, care |-> <<>>, chunks |-> <<>>],
             [i \in 1..file[1].size |-> i])

ImageOf(file, chunks, care) ==
    [ok |-> TRUE, file |-> file, total |-> file[1].blocks, chunks |-> chunks, care |-> care,
     clobbered |-> <<0, 1>>, extended |-> ExtendedBlocks(care, file[1].blocks), files |-> <<>>]

LoadLines(image, lines) ==
    FoldLeft(LAMBDA acc, line : LoadLine(image.clobbered, acc, line),
             [ok |-> TRUE, files |-> <<>>, remaining |-> image.care], lines)

WithFiles(image, lined) ==
    IF lined.ok THEN [image EXCEPT !.files = FileMap(image, lined.files, lined.remaining)]
                ELSE Broken

WithLines(image, lines) == WithFiles(image, LoadLines(image, lines))

Loaded(file, read, lines) ==
    IF read.ok THEN WithLines(ImageOf(file, read.chunks, RemovePairs(read.care)), lines) ELSE Broken

(* SparseImage(simg_fn, file_map_fn, "0"): block 0 is always clobbered.    *)
LoadImage(file, lines) == Loaded(file, ReadChunks(file), lines)
===============================================================================
