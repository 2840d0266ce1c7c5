------------------------------- MODULE Delivery -------------------------------
(***************************************************************************)
(* What becomes of the blocks of one partition: SimgWriter writes them     *)
(* into a sparse image, SparseImage reads it, BlockDiff turns it into      *)
(* new.dat and a transfer list, and block_image_update carries the list    *)
(* out on the device.                                                      *)
(*                                                                         *)
(* The build converts whole images: no source, no block map, no DONT_CARE  *)
(* patterns, one file, version 4, Python 3.  The other jobs are what the   *)
(* scripts offer besides: img2simg.py --split and --dont-care, block maps, *)
(* sources, older versions, Python 2; no entry point of the program asks   *)
(* for them (img2sdat.py passes neither a source nor a block map).         *)
(*                                                                         *)
(* The sparse file is the one SimgWriter makes.  The build takes a native  *)
(* img2simg where there is one and SimgWriter where there is none; of the  *)
(* native program nothing is known here, and it is not modelled.           *)
(*                                                                         *)
(* The device is not part of this code: its commands are modelled by what  *)
(* the comments and the format of the list say of them.                    *)
(***************************************************************************)
EXTENDS BlockDiff

CONSTANTS
    Jobs,       \* the conversions asked for
    MaxLosses   \* bound: how often the update is interrupted

Junk == "junk"       \* what nobody has written
Garbage == "garbage" \* what a patch makes of data it was not made for

NoSource == [content |-> <<>>, lines |-> <<>>]

(* content: the blocks of the image; tail: an incomplete block follows.    *)
(* split: a file is closed once it has this many cells, 0 for one file.    *)
ASSUME JobsAssumption ==
    \A j \in Jobs :
        /\ j.content \in Seq(Contents) \ {<<>>} /\ j.source.content \in Seq(Contents)
        /\ j.tail \in BOOLEAN /\ j.dontCare \subseteq Fills /\ j.split \in Nat
        /\ j.version \in 1..4 /\ j.python \in {2, 3}
        /\ j.cache = NoCache \/ (j.cache \in Nat /\ j.cache >= SplitDivisor)
ASSUME LossesAssumption == MaxLosses \in Nat

VARIABLES
    job,     \* the conversion
    wr,      \* the sparse writer
    cursor,  \* blocks read from the image so far
    files,   \* the sparse files that are closed
    flash,   \* the blocks of the partition on the device
    stash,   \* what the device has stashed, by name
    peak,    \* the most blocks it had stashed at a time
    at,      \* the next command
    dat,     \* how many blocks of new.dat it has used
    losses

conversion == <<job, wr, cursor, files>>
device == <<flash, stash, peak, at, dat, losses>>
vars == <<diffVars, conversion, device>>

Blank == [id \in {} |-> <<>>]

OnFlash(j) ==
    [b \in 0..(Max({Len(j.content), Len(j.source.content)}) - 1) |->
        IF b < Len(j.source.content) /\ j.source.content[b + 1] \notin j.dontCare
        THEN j.source.content[b + 1] ELSE Junk]

Init ==
    /\ DiffInit
    /\ job \in Jobs
    /\ config = [version |-> job.version, python |-> job.python, cache |-> job.cache]
    /\ tgt = NoImage /\ src = NoImage
    /\ pc = "write"
    /\ wr = NewWriter(0) /\ cursor = 0 /\ files = <<>>
    /\ flash = OnFlash(job) /\ stash = Blank /\ peak = 0 /\ at = 1 /\ dat = 0
    /\ losses = 0

TypeOK ==
    /\ job \in Jobs
    /\ cursor \in 0..Len(job.content)
    /\ wr.csize \in 0..wr.nblocks /\ wr.pos \in 1..(Len(wr.file) + 1)
    /\ DOMAIN flash = DOMAIN OnFlash(job)
    /\ \A b \in DOMAIN flash : flash[b] \in Contents \union {Junk, Garbage}
    /\ order \in Seq(Ids) /\ goes \subseteq Ids \X Ids
    /\ at \in 1..(Len(list.commands) + 1) /\ dat \in 0..Len(newDat)
    /\ losses \in 0..MaxLosses

-------------------------------------------------------------------------------
(* img2simg.py                                                             *)

(* Without --split nothing is padded, as in backends.py. *)
End == IF job.split = 0 THEN NoEnd ELSE Len(job.content)

(* After the block that fills a file, the next one starts with as many     *)
(* blocks of padding as were read.                                         *)
WriteBlock ==
    LET written == AddDataBlock(wr, job.content[cursor + 1], job.dontCare)
        full == job.split # 0 /\ written.pos - 1 >= job.split
    IN  /\ pc = "write"
        /\ cursor < Len(job.content)
        /\ cursor' = cursor + 1
        /\ wr' = IF full THEN NewWriter(cursor + 1) ELSE written
        /\ files' = IF full THEN Append(files, Close(CloseChunk(written), End).file) ELSE files
        /\ UNCHANGED <<diffVars, job, device>>

(* The bytes of an incomplete block are left over. *)
FinishImage ==
    /\ pc = "write"
    /\ cursor = Len(job.content)
    /\ IF job.tail
       THEN Raise("leftover") /\ UNCHANGED files
       ELSE /\ files' = Append(files, Close(CloseChunk(wr), End).file)
            /\ GoOn(IF job.split = 0 THEN "load" ELSE "split")
            /\ UNCHANGED <<graph, outputs>>
    /\ UNCHANGED <<job, wr, cursor, device>>

SparseOf(content) ==
    Close(FoldLeft(LAMBDA w, v : AddDataBlock(w, v, job.dontCare), NewWriter(0), content), NoEnd).file

(* img2sdat.py: the image, its block map, and no source image.             *)
LoadImages ==
    /\ pc = "load"
    /\ tgt' = LoadImage(files[1], job.lines)
    /\ src' = IF job.source = NoSource THEN NoImage
              ELSE LoadImage(SparseOf(job.source.content), job.source.lines)
    /\ pc' = IF tgt'.ok /\ src'.ok THEN "construct" ELSE "failed"
    /\ why' = IF tgt'.ok /\ src'.ok THEN None ELSE "image"
    /\ UNCHANGED <<config, graph, outputs, conversion, device>>

ComputeDiff == Compute /\ UNCHANGED <<conversion, device>>

(* Whole images, as the build has them converted. *)
OfBuild ==
    /\ job.source = NoSource /\ job.lines = <<>>
    /\ job.split = 0 /\ job.dontCare = {}
    /\ job.version = 4 /\ job.python = 3

(* convert_sparse_to_dat looks at the result: new.dat has to have data.    *)
CheckResult ==
    /\ pc = "written"
    /\ IF OfBuild /\ newDat = <<>>
       THEN Raise("empty new.dat")
       ELSE GoOn("ready") /\ UNCHANGED <<graph, outputs>>
    /\ UNCHANGED <<conversion, device>>

-------------------------------------------------------------------------------
(* The device.                                                             *)

Rank(s, i) == Cardinality({x \in s : x < i}) + 1

OnDevice(r) == [i \in 1..Size(r) |-> flash[Ascending(Blocks(r))[i]]]

Now == list.commands[at]

RefsHeld == \A i \in DOMAIN Now.refs : Now.refs[i].id \in DOMAIN stash

(* The data a command works on, from its places and its stashes. *)
Fetched ==
    LET here == Blocks(Now.directAt)
        there(i) == CHOOSE ref \in ToSet(Now.refs) : i - 1 \in Blocks(ref.at)
    IN  [i \in 1..(Size(Now.direct) + FoldLeft(LAMBDA n, ref : n + Size(ref.at), 0, Now.refs)) |->
            IF i - 1 \in here THEN OnDevice(Now.direct)[Rank(here, i - 1)]
            ELSE stash[there(i).id][Rank(Blocks(there(i).at), i - 1)]]

(* From version 3 on the list has the hashes of what is read. *)
Verified ==
    config.version >= 3 =>
        CASE Now.op = "stash" -> OnDevice(Now.tgt) = Now.id
          [] Now.op = "move" -> Fetched = ReadContent(tgt, Now.tgt)
          [] Now.op = "patch" -> Fetched = patches[Now.patch].old
          [] OTHER -> TRUE

Accepted ==
    /\ RefsHeld
    /\ Verified
    /\ Now.op = "new" => dat + Size(Now.tgt) <= Len(newDat)

DataOf ==
    CASE Now.op = "new" -> SubSeq(newDat, dat + 1, dat + Size(Now.tgt))
      [] Now.op = "zero" -> [i \in 1..Size(Now.tgt) |-> Zero]
      [] Now.op = "erase" -> [i \in 1..Size(Now.tgt) |-> Junk]
      [] Now.op = "move" -> Fetched
      [] Now.op = "patch" ->
           IF Fetched = patches[Now.patch].old THEN patches[Now.patch].new
           ELSE [i \in 1..Size(Now.tgt) |-> Garbage]

Stashed(s) == MapThenSumSet(LAMBDA id : Len(s[id]), DOMAIN s)

(* A source that overlaps the target is stashed while it is overwritten.   *)
Implicit ==
    IF config.version >= 3 /\ Overlaps(Now.direct, Now.tgt) THEN Len(Fetched) ELSE 0

Carry ==
    CASE Now.op = "stash" ->
           /\ stash' = [id \in DOMAIN stash \union {Now.id} |->
                          IF id = Now.id THEN OnDevice(Now.tgt) ELSE stash[id]]
           /\ peak' = Max({peak, Stashed(stash')})
           /\ UNCHANGED <<flash, dat>>
      [] Now.op = "free" ->
           /\ stash' = [id \in DOMAIN stash \ {Now.id} |-> stash[id]]
           /\ UNCHANGED <<flash, peak, dat>>
      [] OTHER ->
           /\ flash' = [b \in DOMAIN flash |->
                          IF b \in Blocks(Now.tgt) THEN DataOf[Rank(Blocks(Now.tgt), b)]
                          ELSE flash[b]]
           /\ peak' = Max({peak, Stashed(stash) + Implicit})
           /\ dat' = IF Now.op = "new" THEN dat + Size(Now.tgt) ELSE dat
           /\ UNCHANGED stash

RunCommand ==
    /\ pc = "ready"
    /\ at <= Len(list.commands)
    /\ IF Accepted
       THEN Carry /\ at' = at + 1 /\ UNCHANGED pc
       ELSE pc' = "refused" /\ UNCHANGED <<flash, stash, peak, at, dat>>
    /\ UNCHANGED <<inputs, why, graph, outputs, conversion, losses>>

Updated ==
    /\ pc = "ready"
    /\ at > Len(list.commands)
    /\ pc' = "updated"
    /\ UNCHANGED <<inputs, why, graph, outputs, conversion, device>>

(* The update is cut off in a command and the package is flashed again,    *)
(* from the first command on.  (How an updater resumes an update that      *)
(* reads a source is its own affair: only whole images are flashed again.) *)
CutOff ==
    /\ pc = "ready"
    /\ job.source = NoSource
    /\ losses < MaxLosses
    /\ at <= Len(list.commands)
    /\ losses' = losses + 1
    /\ \E hit \in SUBSET Blocks(Now.tgt) :
          flash' = [b \in DOMAIN flash |-> IF b \in hit THEN Junk ELSE flash[b]]
    /\ at' = 1 /\ dat' = 0 /\ stash' = Blank
    /\ UNCHANGED <<diffVars, conversion, peak>>

Over == pc \in {"failed", "split", "refused", "updated"} /\ UNCHANGED vars

Progress ==
    WriteBlock \/ FinishImage \/ LoadImages \/ ComputeDiff \/ CheckResult \/ RunCommand \/ Updated

Next == Progress \/ CutOff \/ Over

Spec == Init /\ [][Next]_vars

-------------------------------------------------------------------------------
(* What the chain guarantees.                                              *)

HasData(b) == b \in 0..(Len(job.content) - 1) /\ job.content[b + 1] \notin job.dontCare

(* After the update every block that holds data in the image holds the     *)
(* same on the device, and the blocks within the read-ahead of data are    *)
(* zero, whatever the device held, in whatever order the transfers came    *)
(* out and wherever the update was interrupted before; and new.dat is used *)
(* up.                                                                     *)
Delivered ==
    pc = "updated" =>
        /\ dat = Len(newDat)
        /\ \A b \in 0..(Len(job.content) - 1) :
              IF HasData(b) THEN flash[b] = job.content[b + 1]
              ELSE (\E d \in (b - ReadAhead)..(b + ReadAhead) : HasData(d)) => flash[b] = Zero

(* The device never meets a command it cannot carry out: no block is       *)
(* overwritten or erased before its last reader, no stash is missing or    *)
(* freed early, and new.dat has as much data as the new commands take.     *)
NeverRefused == pc # "refused"

(* The head of the list is right: its commands write as many blocks as it  *)
(* says, which is what the progress is measured by, and the device never   *)
(* needs more room for stashes than it declares, which is what the updater *)
(* makes sure of before it starts.                                         *)
Writing == {"new", "zero", "move", "patch"}

HeadTruthful ==
    /\ list.total = FoldLeft(LAMBDA n, c : IF c.op \in Writing THEN n + Size(c.tgt) ELSE n,
                             0, list.commands)
    /\ list.version >= 2 => peak <= list.maxStash

(* Why a conversion may fail, each cause a condition on what it was given. *)

(* A block map fits its image when its lines name blocks that hold data,   *)
(* none of them twice and not the first block, which is clobbered.         *)
HoldsData(content, b) == b \in 0..(Len(content) - 1) /\ content[b + 1] \notin job.dontCare

BlocksNamed(entry) == UNION {p[1]..p[2] : p \in ToSet(entry.pairs)}

MapFits(image) ==
    \A i \in DOMAIN image.lines :
        /\ \A b \in BlocksNamed(image.lines[i]) : b # 0 /\ HoldsData(image.content, b)
        /\ \A k \in 1..(i - 1) : BlocksNamed(image.lines[i]) \intersect BlocksNamed(image.lines[k]) = {}

(* Transfers wait for each other in a circle. *)
Waiting == {e \in Ids \X Ids : e[1] # e[2] /\ Blocks(xfs[e[1]].src) \intersect Blocks(xfs[e[2]].tgt) # {}}

InCircle ==
    \E s \in SUBSET Ids : s # {} /\ \A x \in s : \E u \in s : <<x, u>> \in Waiting

(* Two patches are to make the same data of the same data. *)
SameFilesTwice ==
    \E u, v \in Ids :
        /\ u # v
        /\ ReadContent(src, xfs[u].src) = ReadContent(src, xfs[v].src)
        /\ ReadContent(tgt, xfs[u].tgt) = ReadContent(tgt, xfs[v].tgt)
        /\ ReadContent(src, xfs[u].src) # ReadContent(tgt, xfs[u].tgt)

(* Version 1, which has no stash: the whole source of a patch has been     *)
(* overwritten when its turn comes.                                        *)
SourceOverwritten ==
    \E k \in DOMAIN order :
        /\ xfs[order[k]].style = "patch"
        /\ \A i \in DOMAIN src.files :
              src.files[i].name.path = xfs[order[k]].source =>
                Blocks(src.files[i].ranges) \subseteq UNION {Blocks(xfs[order[n]].tgt) : n \in 1..(k - 1)}

(* What the stash takes: the stashes made by the first k transfers that    *)
(* are used by the transfer at place from or later, shared by name from    *)
(* version 3 on; and what the device stashes by itself for the transfer at *)
(* place k.                                                                *)
InStash(k, from) ==
    {s \in UNION {ToSet(xfs[order[n]].stash) : n \in 1..k} : Position(UserOf(s.id)) >= from}

SizeInStash(stashes) ==
    IF job.version = 2 THEN MapThenSumSet(LAMBDA s : Cardinality(Blocks(s.ranges)), stashes)
    ELSE MapThenSumSet(Len, {ReadContent(src, s.ranges) : s \in stashes})

OwnStash(k) ==
    LET xf == xfs[order[k]]
    IN  IF /\ job.version >= 3 /\ xf.style \in {"move", "patch"} /\ xf.src # xf.tgt
           /\ Blocks(xf.src) \intersect Blocks(xf.tgt) # {}
        THEN Cardinality(Blocks(xf.src)) ELSE 0

(* The stash was brought down to the limit, four fifths of the cache,      *)
(* counting a transfer's own source after what it used is freed; but not   *)
(* below the limit, counting both.                                         *)
StashAtLimit ==
    LET places == DOMAIN order
    IN  /\ \A k \in places : /\ 5 * SizeInStash(InStash(k, k)) <= 4 * job.cache
                             /\ 5 * (SizeInStash(InStash(k, k + 1)) + OwnStash(k)) <= 4 * job.cache
        /\ \E k \in places : 5 * (SizeInStash(InStash(k, k)) + OwnStash(k)) >= 4 * job.cache

CauseInImage ==
    \/ why = "leftover" /\ job.tail
    \/ why = "image" /\ ~(MapFits(job) /\ MapFits(job.source))
    \/ /\ why = "partition"
       /\ \/ ~HoldsData(job.content, 0)
          \/ job.source # NoSource /\ ~HoldsData(job.source.content, 0)

CauseInChange ==
    /\ job.source # NoSource
    /\ \/ /\ why = "no cache size" /\ job.cache = NoCache /\ job.version >= 3
          /\ \E i \in DOMAIN tgt.files : HasSource(tgt.files[i])
       \/ why = "empty heap" /\ job.python = 3 /\ InCircle
       \/ why = "patch queue" /\ job.python = 3 /\ SameFilesTwice
       \/ why = "transfer list" /\ job.version = 1 /\ job.python = 3 /\ SourceOverwritten
       \/ why = "transfer list" /\ job.version >= 2 /\ job.cache # NoCache /\ StashAtLimit

(* A conversion fails only on input that has no conversion: an image with  *)
(* an incomplete block, without data in its first block (of which the      *)
(* update always makes a copy), or with a block map that does not fit.     *)
(* Where there is a source, it fails as well without a cache size, when    *)
(* the stash comes to just the limit or is over it only while a transfer   *)
(* reads its own, in version 1 when a patch has nothing left to read, and  *)
(* under Python 3 when transfers wait for each other in a circle or two    *)
(* patches are the same.  Every other check of the result succeeds, and    *)
(* every map that fits is loaded.                                          *)
FailureHasCause == pc = "failed" => CauseInImage \/ CauseInChange

(* The files of a split image fit together: each has the size of the whole *)
(* image and says rightly how many chunks it has, and every block with     *)
(* data is in one file, at its place.                                      *)
Holders(parts, b) == {i \in DOMAIN parts : b \in Blocks(parts[i].care)}

PartsFit(parts) ==
    /\ \A i \in DOMAIN parts : parts[i].ok /\ parts[i].total = Len(job.content)
    /\ \A b \in 0..(Len(job.content) - 1) :
          IF HasData(b)
          THEN \E i \in DOMAIN parts :
                  /\ Holders(parts, b) = {i}
                  /\ ReadContent(parts[i], <<b, b + 1>>) = <<job.content[b + 1]>>
          ELSE Holders(parts, b) = {}

SplitFilesFit == pc = "split" => PartsFit([i \in DOMAIN files |-> LoadImage(files[i], <<>>)])

(* rangelib is what its name says: on the care map of the image and any    *)
(* other set of blocks, every operation is the one on sets of integers,    *)
(* also where ranges touch, overlap or begin at block 0.                   *)
RangesAreSets ==
    pc = "construct" =>
        \A s \in SUBSET (0..tgt.total) : OperationsAgree(tgt.care, OfBlocks(Ascending(s)), ReadAhead)

===============
