------------------------------- MODULE RangeSet -------------------------------
(***************************************************************************)
(* assets/scripts/rangelib.py: sets of block numbers as sequences of       *)
(* boundaries.  <<s1, e1, s2, e2, ...>> stands for s1..e1-1, s2..e2-1 and  *)
(* so on.  Every operation walks the boundaries of its arguments in        *)
(* ascending order; on the same block the lower step comes first, as in    *)
(* heapq.merge of (boundary, step) pairs.                                  *)
(***************************************************************************)
EXTENDS Integers, SequencesExt

Empty == <<>>

Nothing == -1

(* Two equal boundaries in a row are one range that goes on. *)
RemovePairs(source) ==
    LET step(acc, i) ==
            IF i = acc.last THEN [acc EXCEPT !.last = Nothing]
            ELSE [out |-> IF acc.last = Nothing THEN acc.out ELSE Append(acc.out, acc.last),
                  last |-> i]
        end == FoldLeft(step, [out |-> Empty, last |-> Nothing], source)
    IN  IF end.last = Nothing THEN end.out ELSE Append(end.out, end.last)

(* The text "s-e ..." names ranges with both their ends.                   *)
ParseRanges(pairs) ==
    RemovePairs(SortSeq(FlattenSeq([i \in DOMAIN pairs |-> <<pairs[i][1], pairs[i][2] + 1>>]), <))

(* The ranges, as <<start, end>> with the end excluded. *)
Pairs(r) == [i \in 1..(Len(r) \div 2) |-> <<r[2 * i - 1], r[2 * i]>>]

Blocks(r) == UNION {p[1]..(p[2] - 1) : p \in ToSet(Pairs(r))}

(* The boundaries of a and b in order, with what each adds to the depth.   *)
Boundaries(r, start, end) ==
    [i \in DOMAIN r |-> <<r[i], IF i % 2 = 1 THEN start ELSE end>>]

(* heapq.merge: the next boundary is the lower one of those that head what *)
(* is left of a and b.                                                     *)
Lower(x, y) == x[1] < y[1] \/ (x[1] = y[1] /\ x[2] < y[2])

Walk(a, b) ==
    LET fromA(k, i) == i < Len(a) /\ (k - i > Len(b) \/ ~Lower(b[k - i], a[i + 1]))
        step(acc, k) ==
            IF fromA(k, acc.taken)
            THEN [taken |-> acc.taken + 1, out |-> Append(acc.out, a[acc.taken + 1])]
            ELSE [taken |-> acc.taken, out |-> Append(acc.out, b[k - acc.taken])]
    IN  FoldLeft(step, [taken |-> 0, out |-> <<>>], [k \in 1..(Len(a) + Len(b)) |-> k]).out

(* An edge is a step d of the walk taken at a depth, as <<depth, d>>.      *)
Sweep(walk, edges) ==
    LET step(acc, at) ==
            [depth |-> acc.depth + at[2],
             out |-> IF <<acc.depth, at[2]>> \in edges THEN Append(acc.out, at[1]) ELSE acc.out]
    IN  RemovePairs(FoldLeft(step, [depth |-> 0, out |-> Empty], walk).out)

OutermostEdge == {<<0, 1>>, <<1, -1>>}

InnermostEdge_StartsOnly == {<<1, 1>>, <<1, -1>>}

InnermostEdge == {<<1, 1>>, <<2, -1>>}

Union(a, b) == Sweep(Walk(Boundaries(a, 1, -1), Boundaries(b, 1, -1)), OutermostEdge)

Intersect(a, b) == Sweep(Walk(Boundaries(a, 1, -1), Boundaries(b, 1, -1)), InnermostEdge)

Subtract(a, b) == Sweep(Walk(Boundaries(a, 1, -1), Boundaries(b, -1, 1)), OutermostEdge)

Overlaps(a, b) == Intersect(a, b) # Empty

Size(r) == FoldLeft(LAMBDA n, p : n + p[2] - p[1], 0, Pairs(r))

(* Where the blocks of other, a subset of r, are when those of r are       *)
(* numbered from 0.                                                        *)
MapWithin(r, other) ==
    LET step(acc, at) ==
            CASE at[2] = -5 -> [acc EXCEPT !.start = at[1]]
              [] at[2] = 5 -> [acc EXCEPT !.offset = @ + at[1] - acc.start]
              [] OTHER -> [acc EXCEPT !.out = Append(@, acc.offset + at[1] - acc.start)]
    IN  RemovePairs(FoldLeft(step, [offset |-> 0, start |-> 0, out |-> Empty],
                             Walk(Boundaries(r, -5, 5), Boundaries(other, -1, 1))).out)

(* n more blocks at both ends of every range, not below block 0.           *)
Extend(r, n) ==
    FoldLeft(LAMBDA out, p : Union(out, <<Max({0, p[1] - n}), p[2] + n>>), r, Pairs(r))

(* At most the first n blocks. *)
First(r, n) ==
    LET step(acc, p) ==
            IF acc.left = 0 THEN acc
            ELSE LET taken == Min({acc.left, p[2] - p[1]})
                 IN  [out |-> acc.out \o <<p[1], p[1] + taken>>, left |-> acc.left - taken]
    IN  IF Size(r) <= n THEN r
        ELSE RemovePairs(FoldLeft(step, [out |-> Empty, left |-> n], Pairs(r)).out)

(* The blocks of s in ascending order. *)
Ascending(s) ==
    [i \in 1..Cardinality(s) |-> CHOOSE x \in s : Cardinality({y \in s : y < x}) = i - 1]

(* RangeSet of a list of blocks given one by one, in ascending order.      *)
OfBlocks(blocks) == RemovePairs(FlattenSeq([i \in DOMAIN blocks |-> <<blocks[i], blocks[i] + 1>>]))

-------------------------------------------------------------------------------
(* What the operations mean.                                               *)

(* Normal form: an even number of boundaries, strictly ascending.          *)
Normal(r) ==
    /\ Len(r) % 2 = 0
    /\ \A i \in 1..(Len(r) - 1) : r[i] < r[i + 1]

(* The operations on a and b are those on the sets they stand for, and     *)
(* their results are in normal form, so that equal sets are equal values.  *)
OperationsAgree(a, b, n) ==
    LET A == Blocks(a)
        B == Blocks(b)
        results == {<<Union(a, b), A \union B>>, <<Intersect(a, b), A \intersect B>>,
                    <<Subtract(a, b), A \ B>>,
                    <<Extend(a, n), (UNION {(x - n)..(x + n) : x \in A}) \intersect Nat>>,
                    <<First(a, n), {x \in A : Cardinality({y \in A : y < x}) < n}>>,
                    <<OfBlocks(Ascending(A)), A>>}
                   \union (IF B \subseteq A
                           THEN {<<MapWithin(a, b),
                                   {Cardinality({y \in A : y < x}) : x \in B}>>}
                           ELSE {})
    IN  /\ \A r \in results : Normal(r[1]) /\ Blocks(r[1]) = r[2]
        /\ Size(a) = Cardinality(A)
        /\ Overlaps(a, b) <=> A \intersect B # {}
===============================================================================
