------------------------------- MODULE BlockDiff -------------------------------
(***************************************************************************)
(* assets/scripts/blockimgdiff.py: class BlockImageDiff, which turns a     *)
(* target image, and possibly the source image the device holds, into      *)
(* transfers, puts them into an order in which no transfer overwrites what *)
(* a later one reads, or stashes what it does, and writes the data, the    *)
(* patches and the list of commands the device will carry out.             *)
(*                                                                         *)
(* img2sdat.py gives no source and version 4; versions 1 to 3 and a source *)
(* are the class's other uses.  The scripts run under Python 2 and 3,      *)
(* which differ in what is true: Python 3 knows no __nonzero__, Python 2   *)
(* no __bool__.  File maps are walked in the order of their lines, as the  *)
(* dicts of Python 3 are.  Sets of transfers are walked in the order of    *)
(* their addresses, that is, in any order.                                 *)
(***************************************************************************)
EXTENDS SparseImage, FiniteSets

CONSTANTS
    ZeroLimit,     \* zero_blocks_limit, 1024: blocks in one zero command
    SplitDivisor   \* 1 / split_threshold, 8: pieces the cache has room for

ASSUME LimitAssumption == ZeroLimit \in Nat \ {0} /\ SplitDivisor \in Nat \ {0}

NoCache == -1   \* OPTIONS.cache_size is None

VARIABLES
    config,    \* the version of the list, the Python, the cache in blocks
    tgt, src,  \* the images
    pc,        \* the method of Compute that is next
    why,       \* why Compute raised an exception, if it did
    xfs,       \* the transfers, by id
    goes,      \* <<b, a>>: transfer b has to go before transfer a
    line,      \* FindVertexSequence at work
    order,     \* self.transfers: ids in the order of the sequence
    newDat,    \* the data written to new.dat
    patches,   \* the patches written to patch.dat: old and new data
    list       \* the transfer list

inputs == <<config, tgt, src>>
graph == <<xfs, goes, line, order>>
outputs == <<newDat, patches, list>>
diffVars == <<inputs, pc, why, graph, outputs>>

(* EmptyImage: the source that is not there. *)
NoImage ==
    [ok |-> TRUE, file |-> <<>>, total |-> 0, chunks |-> <<>>, care |-> Empty,
     clobbered |-> Empty, extended |-> Empty, files |-> <<>>]

NoList == [version |-> 0, total |-> 0, slots |-> 0, maxStash |-> 0, commands |-> <<>>]

NoLine == [left |-> <<>>, right |-> <<>>, sinks |-> {}, newSinks |-> {}, sources |-> {},
           newSources |-> {}]

Transfer(name, source, t, s, style) ==
    [name |-> name, source |-> source, tgt |-> t, src |-> s, style |-> style,
     stash |-> <<>>, use |-> <<>>, patch |-> 0]

DiffInit ==
    /\ why = None
    /\ xfs = <<>> /\ goes = {} /\ line = NoLine /\ order = <<>>
    /\ newDat = <<>> /\ patches = <<>> /\ list = NoList

Raise(reason) ==
    /\ pc' = "failed"
    /\ why' = reason
    /\ UNCHANGED <<inputs, graph, outputs>>

GoOn(next) == pc' = next /\ UNCHANGED <<inputs, why>>

(* AssertPartition: the ranges are disjoint and together they are total.   *)
Partition(total, ranges) ==
    LET step(acc, r) ==
            [ok |-> acc.ok /\ ~Overlaps(acc.union, r), union |-> Union(acc.union, r)]
        end == FoldLeft(step, [ok |-> TRUE, union |-> Empty], ranges)
    IN  end.ok /\ end.union = total

RangesOf(image) == [i \in DOMAIN image.files |-> image.files[i].ranges]

(* __init__ *)
Construct ==
    /\ pc = "construct"
    /\ IF Partition(src.care, RangesOf(src)) /\ Partition(tgt.care, RangesOf(tgt))
       THEN GoOn("transfers") /\ UNCHANGED <<graph, outputs>>
       ELSE Raise("partition")

-------------------------------------------------------------------------------
(* FindTransfers, with the names from AbbreviateSourceNames.               *)

FilesWith(field, name) == {i \in DOMAIN src.files : src.files[i].name[field] = name[field]}

(* The same path, or the last file with the same basename, or the last one *)
(* whose basename differs in digits only.                                  *)
SourceFiles(name) ==
    IF FilesWith("path", name) # {} THEN FilesWith("path", name)
    ELSE IF FilesWith("base", name) # {} THEN FilesWith("base", name)
    ELSE FilesWith("pattern", name)

SourceZeros ==
    LET zeros == FilesWith("path", Special("__ZERO"))
    IN  IF zeros = {} THEN Empty ELSE src.files[Max(zeros)].ranges

BlocksPerTransfer == config.cache \div SplitDivisor

(* AddTransfer cuts a file in pieces while both sides are too large. *)
SplitTransfers(name, source, t, s) ==
    LET TooLarge(r) == Size(r) > BlocksPerTransfer
        Piece(a, b) == Transfer(name, source, a, b, "diff")
        step(acc, i) ==
            IF ~TooLarge(acc.t) \/ ~TooLarge(acc.s) THEN acc
            ELSE LET a == First(acc.t, BlocksPerTransfer)
                     b == First(acc.s, BlocksPerTransfer)
                 IN  [t |-> Subtract(acc.t, a), s |-> Subtract(acc.s, b),
                      out |-> Append(acc.out, Piece(a, b))]
        end == FoldLeft(step, [t |-> t, s |-> s, out |-> <<>>], [i \in 1..Size(t) |-> i])
    IN  Append(end.out, Piece(end.t, end.s))

TransfersOf(entry) ==
    LET sources == SourceFiles(entry.name)
        old == src.files[Max(sources)]
    IN  IF entry.name = Special("__ZERO")
        THEN <<Transfer(entry.name, "__ZERO", entry.ranges, SourceZeros, "zero")>>
        ELSE IF entry.name = Special("__COPY") \/ sources = {}
        THEN <<Transfer(entry.name, None, entry.ranges, Empty, "new")>>
        ELSE IF config.version >= 3
        THEN SplitTransfers(entry.name, old.name.path, entry.ranges, old.ranges)
        ELSE <<Transfer(entry.name, old.name.path, entry.ranges, old.ranges, "diff")>>

HasSource(entry) ==
    /\ entry.name \notin {Special("__ZERO"), Special("__COPY")}
    /\ SourceFiles(entry.name) # {}

(* From version 3 on files with a source are split by the cache size, of   *)
(* which there is no default.                                              *)
FindTransfers ==
    /\ pc = "transfers"
    /\ IF config.version >= 3 /\ config.cache = NoCache
          /\ \E i \in DOMAIN tgt.files : HasSource(tgt.files[i])
       THEN Raise("no cache size")
       ELSE /\ xfs' = FlattenSeq([i \in DOMAIN tgt.files |-> TransfersOf(tgt.files[i])])
            /\ GoOn("digraph")
            /\ UNCHANGED <<goes, line, order, outputs>>

-------------------------------------------------------------------------------
(* The digraph and its sequence.                                           *)

Ids == DOMAIN xfs

Reads(b, a) == Overlaps(xfs[a].tgt, xfs[b].src)

Digraph == {e \in Ids \X Ids : e[1] # e[2] /\ Reads(e[1], e[2])}

(* What it costs to give up an edge. *)
Weight(b, a) ==
    IF xfs[b].source = "__ZERO" THEN 0 ELSE Size(Intersect(xfs[a].tgt, xfs[b].src))

After(edges, u, within) == {a \in within : <<u, a>> \in edges}

Before(edges, u, within) == {b \in within : <<b, u>> \in edges}

GenerateDigraph ==
    /\ pc = "digraph"
    /\ goes' = Digraph
    /\ line' = [NoLine EXCEPT !.sinks = {u \in Ids : After(Digraph, u, Ids) = {}},
                              !.sources = {u \in Ids : Before(Digraph, u, Ids) = {}}]
    /\ GoOn("sequence")
    /\ UNCHANGED <<xfs, order, outputs>>

Placed == ToSet(line.left) \union ToSet(line.right)

Remaining == Ids \ Placed

(* The pass over a set goes on with the set of those found on the way.     *)
PassSinks(rest, found) ==
    IF rest = {} THEN [line EXCEPT !.sinks = found, !.newSinks = {}]
                 ELSE [line EXCEPT !.sinks = rest, !.newSinks = found]

PassSources(rest, found) ==
    IF rest = {} THEN [line EXCEPT !.sources = found, !.newSources = {}]
                 ELSE [line EXCEPT !.sources = rest, !.newSources = found]

NowSinks(u) ==
    {v \in Before(goes, u, Remaining) : After(goes, v, Remaining \ {u}) = {}}

NowSources(u) ==
    {v \in After(goes, u, Remaining) : Before(goes, v, Remaining \ {u}) = {}}

InSequence == pc = "sequence" /\ UNCHANGED <<inputs, pc, why, xfs, goes, order, outputs>>

(* Sinks go to the end of the sequence, and what then has become a sink.   *)
PlaceSink(u) ==
    /\ u \in line.sinks
    /\ line' = [PassSinks(line.sinks \ {u}, line.newSinks \union NowSinks(u))
                  EXCEPT !.right = <<u>> \o @, !.sources = @ \ {u}]
    /\ InSequence

PlaceSource(u) ==
    /\ line.sinks = {}
    /\ u \in line.sources
    /\ line' = [PassSources(line.sources \ {u}, line.newSources \union NowSources(u))
                  EXCEPT !.left = Append(@, u)]
    /\ InSequence

Stuck == line.sinks = {} /\ line.sources = {} /\ Remaining # {}

Score(u) ==
    MapThenSumSet(LAMBDA a : Weight(u, a), After(goes, u, Remaining))
      - MapThenSumSet(LAMBDA b : Weight(b, u), Before(goes, u, Remaining))

(* In a cycle the vertex with the best score comes next. *)
PlaceBest(u) ==
    /\ Stuck
    /\ config.python = 2
    /\ u \in Remaining
    /\ \A v \in Remaining : Score(v) <= Score(u)
    /\ line' = [line EXCEPT !.left = Append(@, u), !.sinks = NowSinks(u),
                            !.sources = NowSources(u)]
    /\ InSequence

(* HeapItem.__bool__, which only Python 3 calls, is true of the items that *)
(* were taken out: the loop that looks for a live one empties the heap.    *)
EmptyHeap ==
    /\ pc = "sequence"
    /\ Stuck
    /\ config.python = 3
    /\ Raise("empty heap")

SequenceFound ==
    /\ pc = "sequence"
    /\ Remaining = {}
    /\ order' = line.left \o line.right
    /\ line' = NoLine
    /\ GoOn(IF config.version = 1 THEN "remove" ELSE "reverse")
    /\ UNCHANGED <<xfs, goes, outputs>>

FindVertexSequence ==
    \/ \E u \in Ids : PlaceSink(u) \/ PlaceSource(u) \/ PlaceBest(u)
    \/ EmptyHeap
    \/ SequenceFound

-------------------------------------------------------------------------------
(* Edges against the sequence.                                             *)

Position(u) == CHOOSE k \in DOMAIN order : order[k] = u

Backward == {e \in goes : Position(e[1]) > Position(e[2])}

InOrder(s) ==
    LET places == Ascending({Position(u) : u \in s}) IN [k \in DOMAIN places |-> order[places[k]]]

(* The blocks that u writes and x reads later, kept under the name <<x, u>>. *)
Stash(x, u) == [id |-> <<x, u>>, ranges |-> Intersect(xfs[x].src, xfs[u].tgt)]

(* Version 2 and later: u stashes the blocks before it writes them, and    *)
(* now has to go first.                                                    *)
ReverseBackwardEdges ==
    LET readers(u) == InOrder({x \in Ids : <<x, u>> \in Backward})
        writers(x) == Ascending({u \in Ids : <<x, u>> \in Backward})
        stashes(u) == [k \in DOMAIN readers(u) |-> Stash(readers(u)[k], u)]
        uses(x) == [k \in DOMAIN writers(x) |-> Stash(x, writers(x)[k])]
    IN  /\ pc = "reverse"
        /\ xfs' = [u \in Ids |-> [xfs[u] EXCEPT !.stash = stashes(u), !.use = uses(u)]]
        /\ goes' = (goes \ Backward) \union {<<e[2], e[1]>> : e \in Backward}
        /\ GoOn("improve")
        /\ UNCHANGED <<line, order, outputs>>

(* Python 3 takes every RangeSet for true. *)
SeenEmpty(r) == config.python = 2 /\ r = Empty

(* Version 1: x does without the blocks that u has written by then.        *)
RemoveBackwardEdges ==
    LET kept(x) ==
            FoldLeft(LAMBDA r, u : IF <<x, u>> \in Backward THEN Subtract(r, xfs[u].tgt) ELSE r,
                     xfs[x].src, order)
    IN  /\ pc = "remove"
        /\ xfs' = [x \in Ids |->
                     [xfs[x] EXCEPT !.src = kept(x),
                        !.style = IF @ = "diff" /\ SeenEmpty(kept(x)) THEN "new" ELSE @]]
        /\ GoOn("assert")
        /\ UNCHANGED <<goes, line, order, outputs>>

(* ConvertToNew *)
AsNew(xf) == [xf EXCEPT !.use = <<>>, !.style = "new", !.src = Empty]

SizeOf(stashes) == FoldLeft(LAMBDA n, s : n + Size(s.ranges), 0, stashes)

NetStashChange(u) == SizeOf(xfs[u].stash) - SizeOf(xfs[u].use)

(* Of the transfers that may come next, the one that leaves the least in   *)
(* the stash, and among those the one that came first so far.              *)
Greedy ==
    LET ready(done) == {u \in Ids \ ToSet(done) : Before(goes, u, Ids) \subseteq ToSet(done)}
        Better(u, v) == \/ NetStashChange(u) < NetStashChange(v)
                        \/ NetStashChange(u) = NetStashChange(v) /\ Position(u) <= Position(v)
        step(done, i) ==
            IF ready(done) = {} THEN done
            ELSE Append(done, CHOOSE u \in ready(done) : \A v \in ready(done) : Better(u, v))
    IN  FoldLeft(step, <<>>, order)

ImproveVertexSequence ==
    /\ pc = "improve"
    /\ IF Len(Greedy) = Len(order)
       THEN /\ order' = Greedy
            /\ GoOn(IF config.cache = NoCache THEN "assert" ELSE "revise")
            /\ UNCHANGED <<xfs, goes, line, outputs>>
       ELSE Raise("cycle")

-------------------------------------------------------------------------------
(* The stash and the cache.                                                *)

(* More than stash_threshold, 0.8, of the cache. *)
TooMuch(blocks) == 5 * blocks > 4 * config.cache

UserOf(id) == id[1]

(* Without room for the stashes the device makes by itself. *)
Unaffordable_ExplicitOnly(all, stashed, u) ==
    LET step(acc, s) ==
            IF TooMuch(acc.stashed + Size(s.ranges))
            THEN [acc EXCEPT !.users = Append(@, UserOf(s.id))]
            ELSE [acc EXCEPT !.stashed = @ + Size(s.ranges)]
        kept == FoldLeft(step, [stashed |-> stashed, users |-> <<>>], all[u].stash)
    IN  [kept EXCEPT !.stashed = @ - SizeOf(all[u].use)]

(* The transfers that are to become new for want of cache, and what is in  *)
(* the stash, after a transfer stashes, frees, and has its overlapping     *)
(* source stashed by the device.                                           *)
Unaffordable(all, stashed, u) ==
    LET step(acc, s) ==
            IF TooMuch(acc.stashed + Size(s.ranges))
            THEN [acc EXCEPT !.users = Append(@, UserOf(s.id))]
            ELSE [acc EXCEPT !.stashed = @ + Size(s.ranges)]
        kept == FoldLeft(step, [stashed |-> stashed, users |-> <<>>], all[u].stash)
        freed == [kept EXCEPT !.stashed = @ - SizeOf(all[u].use)]
        implicit == /\ all[u].style = "diff" /\ config.version >= 3
                    /\ Overlaps(all[u].src, all[u].tgt)
                    /\ TooMuch(freed.stashed + Size(all[u].src))
    IN  IF implicit THEN [freed EXCEPT !.users = Append(@, u)] ELSE freed

(* A transfer that becomes new uses no stash, so no one need make it.      *)
Converted(all, x) ==
    [u \in DOMAIN all |->
        IF u = x THEN AsNew([all[u] EXCEPT !.stash = SelectSeq(@, LAMBDA s : UserOf(s.id) # x)])
        ELSE [all[u] EXCEPT !.stash = SelectSeq(@, LAMBDA s : UserOf(s.id) # x)]]

ReviseStashSize ==
    LET step(acc, u) ==
            LET found == Unaffordable(acc.all, acc.stashed, u)
            IN  [stashed |-> found.stashed, all |-> FoldLeft(Converted, acc.all, found.users)]
    IN  /\ pc = "revise"
        /\ xfs' = FoldLeft(step, [stashed |-> 0, all |-> xfs], order).all
        /\ GoOn("assert")
        /\ UNCHANGED <<goes, line, order, outputs>>

(* Nothing is read after it was written, except from the stash, and every  *)
(* block of the target is written once.                                    *)
SequenceGood ==
    LET unstashed(xf) == FoldLeft(LAMBDA r, s : Subtract(r, s.ranges), xf.src, xf.use)
        step(acc, u) ==
            [ok |-> /\ acc.ok
                    /\ ~Overlaps(unstashed(xfs[u]), acc.touched)
                    /\ ~Overlaps(xfs[u].tgt, acc.touched),
             touched |-> Union(acc.touched, xfs[u].tgt)]
        end == FoldLeft(step, [ok |-> TRUE, touched |-> Empty], order)
    IN  end.ok /\ Subtract(tgt.care, end.touched) = Empty

AssertSequenceGood ==
    /\ pc = "assert"
    /\ IF SequenceGood THEN GoOn("patches") /\ UNCHANGED <<graph, outputs>>
                       ELSE Raise("bad sequence")

-------------------------------------------------------------------------------
(* ComputePatches                                                          *)

OldPieces(u) == ReadRangeSet(src, xfs[u].src)

NewPieces(u) == ReadRangeSet(tgt, xfs[u].tgt)

Moved(u) == FlattenSeq(OldPieces(u)) = FlattenSeq(NewPieces(u))

NeedsPatch(u) == xfs[u].style = "diff" /\ ~Moved(u)

ToPatch == SelectSeq(order, NeedsPatch)

(* The queue of patches is sorted by size and data, and then by transfers, *)
(* which Python 3 cannot compare.                                          *)
QueueHasTies ==
    \E u, v \in {w \in ToSet(order) : NeedsPatch(w)} :
        u # v /\ OldPieces(u) = OldPieces(v) /\ NewPieces(u) = NewPieces(v)

NewData(sequence) ==
    FlattenSeq([k \in DOMAIN sequence |->
                  IF xfs[sequence[k]].style = "new" THEN FlattenSeq(NewPieces(sequence[k]))
                                                   ELSE <<>>])

DataOrder_ById == [k \in DOMAIN order |-> k]

(* new.dat holds the data in the order of the transfers. *)
DataOrder == order

(* Where in patch.dat the patch of a transfer is. *)
PatchOf(u) == CHOOSE k \in DOMAIN ToPatch : ToPatch[k] = u

ComputePatches ==
    /\ pc = "patches"
    /\ IF config.python = 3 /\ QueueHasTies
       THEN Raise("patch queue")
       ELSE /\ newDat' = NewData(DataOrder)
            /\ patches' = [k \in DOMAIN ToPatch |->
                             [old |-> FlattenSeq(OldPieces(ToPatch[k])),
                              new |-> FlattenSeq(NewPieces(ToPatch[k]))]]
            /\ xfs' = [u \in Ids |->
                         CASE xfs[u].style # "diff" -> xfs[u]
                           [] xfs[u].style = "diff" /\ Moved(u) -> [xfs[u] EXCEPT !.style = "move"]
                           [] OTHER -> [xfs[u] EXCEPT !.style = "patch", !.patch = PatchOf(u)]]
            /\ GoOn("list")
            /\ UNCHANGED <<goes, line, order, list>>

-------------------------------------------------------------------------------
(* WriteTransfers                                                          *)

(* A command and its operands, those it has none of left empty: the blocks *)
(* it writes (or stashes), the blocks it reads in place and where they go  *)
(* in the data it works on, the stashes it takes the rest from.            *)
Command(op, t) ==
    [op |-> op, tgt |-> t, id |-> None, direct |-> Empty, directAt |-> Empty,
     refs |-> <<>>, patch |-> 0]

(* WriteTransfersZero: in commands of a limited number of blocks each.     *)
ZeroCommands(r) ==
    LET step(acc, i) ==
            IF acc.left = Empty THEN acc
            ELSE [left |-> Subtract(acc.left, First(acc.left, ZeroLimit)),
                  out |-> Append(acc.out, Command("zero", First(acc.left, ZeroLimit)))]
    IN  FoldLeft(step, [left |-> r, out |-> <<>>], [i \in 1..Size(r) |-> i]).out

(* Version 2 names stashes by the lowest free number, later versions by    *)
(* the hash of what they hold; counts says how often each is waited for.   *)
Fresh(acc) == IF acc.free = {} THEN acc.next ELSE Min(acc.free)

Waits(acc, name) == IF name \in DOMAIN acc.counts THEN acc.counts[name] ELSE 0

WithCount(acc, name, n) ==
    [k \in DOMAIN acc.counts \union {name} |-> IF k = name THEN n ELSE acc.counts[k]]

(* The number and the name of a new stash. *)
Numbered(acc, s, sid) ==
    [acc EXCEPT !.sids = [k \in DOMAIN @ \union {s.id} |-> IF k = s.id THEN sid ELSE @[k]],
                !.free = @ \ {sid},
                !.next = IF acc.free = {} THEN @ + 1 ELSE @]

NameOf(s, sid) == IF config.version = 2 THEN <<sid>> ELSE ReadContent(src, s.ranges)

Stored(acc, s, name) ==
    [acc EXCEPT !.stashed = @ + Size(s.ranges),
                !.out = Append(@, [Command("stash", s.ranges) EXCEPT !.id = name])]

(* Under a hash that is stashed already nothing is stashed again.          *)
StoreNamed(acc, s, name) ==
    CASE config.version = 2 -> Stored(acc, s, name)
      [] config.version >= 3 /\ Waits(acc, name) > 0 ->
           [acc EXCEPT !.counts = WithCount(acc, name, Waits(acc, name) + 1)]
      [] OTHER ->
           [Stored(acc, s, name) EXCEPT !.counts = WithCount(acc, name, 1),
                                        !.touched = Union(@, s.ranges)]

MakeStash(acc, s) == StoreNamed(Numbered(acc, s, Fresh(acc)), s, NameOf(s, Fresh(acc)))

(* A stash is freed by the last transfer that waits for it. *)
LastWait(acc, name) == config.version = 2 \/ Waits(acc, name) = 1

FreeNamed(acc, s, name) ==
    IF LastWait(acc, name)
    THEN [acc EXCEPT !.freed = Append(@, [Command("free", Empty) EXCEPT !.id = name]),
                     !.freedSize = @ + Size(s.ranges)]
    ELSE acc

TakeNamed(xf, acc, s, name) ==
    [FreeNamed(acc, s, name) EXCEPT
       !.ok = @ /\ (config.version = 2 \/ Waits(acc, name) > 0),
       !.free = @ \union {acc.sids[s.id]},
       !.counts = IF config.version = 2 THEN @ ELSE WithCount(acc, name, Waits(acc, name) - 1),
       !.unstashed = Subtract(@, s.ranges),
       !.refs = Append(@, [id |-> name, at |-> MapWithin(xf.src, s.ranges)])]

TakeStash(xf, acc, s) == TakeNamed(xf, acc, s, NameOf(s, acc.sids[s.id]))

(* What is left of the transfer's source is read where it is. *)
Reading(xf) == xf.style \in {"move", "patch"}

Silent(xf) == xf.style = "move" /\ xf.src = xf.tgt

(* What is read from stashes and in place is the source, each block once.  *)
SourceMapped(xf, taken) ==
    xf.use # <<>> =>
      Partition(<<0, Size(xf.src)>>,
                Append([i \in DOMAIN taken.refs |-> taken.refs[i].at],
                       MapWithin(xf.src, taken.unstashed)))

CommandOf(xf, taken) ==
    IF Reading(xf)
    THEN [Command(xf.style, xf.tgt) EXCEPT
            !.direct = taken.unstashed, !.directAt = MapWithin(xf.src, taken.unstashed),
            !.refs = taken.refs, !.patch = xf.patch]
    ELSE Command(xf.style, xf.tgt)

CommandsOf(xf, taken) ==
    CASE xf.style = "zero" -> ZeroCommands(Subtract(xf.tgt, xf.src))
      [] Silent(xf) -> <<>>
      [] OTHER -> <<CommandOf(xf, taken)>>

ImplicitStash_PatchesOnly(xf) ==
    IF xf.style = "patch" /\ config.version >= 3 /\ Overlaps(xf.src, xf.tgt)
    THEN Size(xf.src) ELSE 0

(* Version 3 and later let the device stash a source that overlaps the     *)
(* target by itself.                                                       *)
ImplicitStash(xf) ==
    IF Reading(xf) /\ ~Silent(xf) /\ config.version >= 3 /\ Overlaps(xf.src, xf.tgt)
    THEN Size(xf.src) ELSE 0

(* The runtime stash size has to stay under the limit. *)
UnderLimit(most) == config.version = 1 \/ config.cache = NoCache \/ 5 * most < 4 * config.cache

(* How many blocks the commands of a transfer write. *)
Changed(xf) ==
    IF Silent(xf) THEN 0 ELSE Size(IF xf.style = "zero" THEN Subtract(xf.tgt, xf.src) ELSE xf.tgt)

Written(xf, taken, most) ==
    [taken EXCEPT
       !.out = @ \o CommandsOf(xf, taken) \o taken.freed,
       !.max = most,
       !.stashed = @ - taken.freedSize,
       !.total = @ + Changed(xf),
       !.touched = IF Reading(xf) /\ ~Silent(xf) /\ config.version >= 3
                   THEN Union(@, xf.src) ELSE @,
       !.ok = /\ @
              /\ ~(config.version = 1 /\ Reading(xf) /\ ~Silent(xf) /\ xf.src = Empty)
              /\ SourceMapped(xf, taken)
              /\ UnderLimit(most)]

WithMost(xf, taken) == Written(xf, taken, Max({taken.max, taken.stashed + ImplicitStash(xf)}))

Started(xf, acc) ==
    [acc EXCEPT !.unstashed = xf.src, !.refs = <<>>, !.freed = <<>>, !.freedSize = 0]

MakeStashes(xf, acc) == FoldLeft(MakeStash, acc, xf.stash)

TakeStashes(xf, acc) == FoldLeft(LAMBDA a, s : TakeStash(xf, a, s), acc, xf.use)

(* The commands of one transfer: it makes its stashes, takes those it      *)
(* uses, does its work and frees what no one waits for any longer.         *)
WriteTransfer(acc, u) ==
    WithMost(xfs[u], TakeStashes(xfs[u], MakeStashes(xfs[u], Started(xfs[u], acc))))

NothingWritten ==
    [out |-> <<>>, sids |-> <<>>, counts |-> <<>>, free |-> {}, next |-> 0, stashed |-> 0,
     max |-> 0, total |-> 0, touched |-> Empty, ok |-> TRUE,
     unstashed |-> Empty, refs |-> <<>>, freed |-> <<>>, freedSize |-> 0]

(* Blocks without data in the new image: the ones no command reads are     *)
(* erased first, the others at the end.                                    *)
DontCare == Subtract(Subtract(<<0, tgt.total>>, tgt.extended), tgt.care)

EraseFirst_All(touched) == DontCare

EraseFirst(touched) == Subtract(DontCare, touched)

EraseCommands(r) == IF r = Empty THEN <<>> ELSE <<Command("erase", r)>>

Commands(out, first) ==
    EraseCommands(first) \o out \o ZeroCommands(tgt.extended)
      \o EraseCommands(Subtract(DontCare, first))

ListOf(written) ==
    [version |-> config.version, total |-> written.total + Size(tgt.extended),
     slots |-> written.next, maxStash |-> written.max,
     commands |-> Commands(written.out, EraseFirst(written.touched))]

WriteList(written) ==
    IF written.ok
    THEN list' = ListOf(written) /\ GoOn("written") /\ UNCHANGED <<graph, newDat, patches>>
    ELSE Raise("transfer list")

WriteTransfers ==
    /\ pc = "list"
    /\ WriteList(FoldLeft(WriteTransfer, NothingWritten, order))

(* Compute *)
Compute ==
    \/ Construct \/ FindTransfers \/ GenerateDigraph \/ FindVertexSequence
    \/ ReverseBackwardEdges \/ RemoveBackwardEdges \/ ImproveVertexSequence
    \/ ReviseStashSize \/ AssertSequenceGood \/ ComputePatches \/ WriteTransfers
===============================================================================
