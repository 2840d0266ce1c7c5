------------------------------ MODULE SimgWriter ------------------------------
(***************************************************************************)
(* assets/scripts/img2simg.py: class SimgWriter, which writes a sparse     *)
(* image block by block.  How many blocks a chunk has and how many chunks  *)
(* the file has is known only later: headers are filled in afterwards, by  *)
(* seeking back.  The build falls back to it when it finds no native       *)
(* img2simg (backends.py, convert_img_to_sparse).                          *)
(*                                                                         *)
(* A file is a sequence of cells: a file or chunk header, a block of data  *)
(* or a fill pattern.  A writer is a record, a method an operator from     *)
(* writers to writers.                                                     *)
(***************************************************************************)
EXTENDS Integers, Sequences

CONSTANTS
    Fills,   \* the contents of blocks that repeat one word
    Raws,    \* the contents of other blocks
    Zero     \* the block of zeros

None == "none"

ASSUME ContentAssumption ==
    Zero \in Fills /\ Fills \intersect Raws = {} /\ None \notin Fills \union Raws

Contents == Fills \union Raws

NoEnd == -1     \* no end_block_offset

FileHeader(total, chunks) == [kind |-> "file", blocks |-> total, size |-> chunks]

(* A chunk header: the type, the blocks it stands for, the cells it has.   *)
ChunkHeader(type, blocks, cells) == [kind |-> type, blocks |-> blocks, size |-> cells]

(* Zeros where a header goes that is not known yet. *)
Room == [kind |-> "room", blocks |-> 0, size |-> 0]

Data(v) == [kind |-> "data", content |-> v]

(* outf.write at the current position, which may be inside the file.       *)
Put(wr, cell) ==
    [wr EXCEPT !.pos = @ + 1,
               !.file = IF wr.pos <= Len(@) THEN [@ EXCEPT ![wr.pos] = cell]
                                            ELSE Append(@, cell)]

Seek(wr, pos) == [wr EXCEPT !.pos = pos]

SeekEnd_PastEnd(wr) == Seek(wr, Len(wr.file) + 2)

SeekEnd(wr) == Seek(wr, Len(wr.file) + 1)

(* What the header of the current chunk is followed by. *)
ChunkCells(wr) ==
    CASE wr.ctype = "raw" -> wr.csize
      [] wr.ctype = "dontcare" -> 0
      [] OTHER -> 1

CloseChunk_AtEnd(wr) ==
    IF wr.csize = 0 THEN wr
    ELSE LET header == ChunkHeader(wr.ctype, wr.csize, ChunkCells(wr))
             headed == Put(wr, header)
         IN  [IF wr.ctype = "fill" THEN Put(headed, Data(wr.cval)) ELSE headed
                EXCEPT !.csize = 0, !.nchunks = @ + 1]

(* _close_chunk: the room left in front of raw data is filled in; the      *)
(* other chunks are written only now.                                      *)
CloseChunk(wr) ==
    IF wr.csize = 0 THEN wr
    ELSE LET header == ChunkHeader(wr.ctype, wr.csize, ChunkCells(wr))
             written ==
               CASE wr.ctype = "raw" -> SeekEnd(Put(Seek(wr, wr.pos - wr.csize - 1), header))
                 [] wr.ctype = "dontcare" -> Put(wr, header)
                 [] OTHER -> Put(Put(wr, header), Data(wr.cval))
         IN  [written EXCEPT !.csize = 0, !.nchunks = @ + 1]

(* _add_pad_blocks *)
AddPadBlocks(wr, n) ==
    IF n <= 0 THEN wr
    ELSE [IF wr.ctype # "dontcare" THEN CloseChunk(wr) ELSE wr
            EXCEPT !.ctype = "dontcare", !.cval = None, !.csize = @ + n, !.nblocks = @ + n]

(* __init__ *)
NewWriter(start) ==
    AddPadBlocks(Put([file |-> <<>>, pos |-> 1, ctype |-> None, cval |-> None,
                      csize |-> 0, nchunks |-> 0, nblocks |-> 0], Room), start)

TypeOfBlock(v, dontCare) ==
    IF v \notin Fills THEN [ctype |-> "raw", cval |-> None]
    ELSE IF v \in dontCare THEN [ctype |-> "dontcare", cval |-> None]
    ELSE [ctype |-> "fill", cval |-> v]

(* _add_data_block: a block of another kind, or another fill value, ends   *)
(* the current chunk.  Raw data is written at once, after room for the     *)
(* header when the chunk is new.                                           *)
AddDataBlock(wr, v, dontCare) ==
    LET type == TypeOfBlock(v, dontCare)
        ready == IF <<wr.ctype, wr.cval>> # <<type.ctype, type.cval>> THEN CloseChunk(wr) ELSE wr
        written ==
          IF type.ctype # "raw" THEN ready
          ELSE Put(IF ready.ctype # "raw" THEN Put(ready, Room) ELSE ready, Data(v))
    IN  [written EXCEPT !.ctype = type.ctype, !.cval = type.cval,
                        !.csize = @ + 1, !.nblocks = @ + 1]

(* close: the last chunk, trailing blocks up to end, and the file header.  *)
Close(wr, end) ==
    LET closed == CloseChunk(wr)
        padded == IF end = NoEnd THEN closed
                  ELSE CloseChunk(AddPadBlocks(closed, end - closed.nblocks))
    IN  SeekEnd(Put(Seek(padded, 1), FileHeader(padded.nblocks, padded.nchunks)))
===============================================================================
