------------------------------ MODULE MCDelivery ------------------------------
(* Instances of Delivery for TLC. *)
EXTENDS Delivery

Whole == [content |-> <<>>, tail |-> FALSE, dontCare |-> {}, split |-> 0, lines |-> <<>>,
          source |-> NoSource, version |-> 4, python |-> 3, cache |-> NoCache]

(* What the build converts. *)
WholeImages ==
    {[Whole EXCEPT !.content = c] : c \in [1..5 -> {"zero", "x"}] \union [1..4 -> {"zero", "ones", "x"}]}
        \union {[Whole EXCEPT !.content = <<"x", "y">>, !.tail = TRUE]}

(* Images with holes, also in their first block. *)
HoledImages ==
    {[Whole EXCEPT !.content = c, !.dontCare = {"ones"}] :
        c \in {d \in [1..5 -> {"zero", "ones", "x"}] : d[3] = "ones"}}

(* Images in parts of few cells. *)
SplitImages ==
    {[Whole EXCEPT !.content = c, !.split = n, !.dontCare = d] :
        c \in [1..3 -> {"zero", "x", "y"}], n \in 2..4, d \in {{}, {"zero"}}}

(* Names of which two differ in the directory and two in a digit.          *)
A == Name("/a.1", "a.1", "a.#")
OldA == Name("/old/a.1", "a.1", "a.#")
OtherA == Name("/a.2", "a.2", "a.#")
B == Name("/b.1", "b.1", "b.#")
C == Name("/c.1", "c.1", "c.#")

Line(name, s, e) == [name |-> name, pairs |-> <<<<s, e>>>>]

(* Block maps, of which the last three do not fit: a block named twice, the *)
(* clobbered block, a block past the end.                                  *)
MappedImages ==
    {[Whole EXCEPT !.content = <<"x", "y", "y", "zero", "x">>, !.lines = l] :
        l \in {<<Line(A, 1, 2)>>, <<Line(A, 1, 1), Line(B, 2, 4)>>,
               <<[name |-> A, pairs |-> <<<<4, 4>>, <<1, 2>>>>], Line(B, 3, 3)>>,
               <<Line(A, 1, 2), Line(B, 2, 3)>>, <<Line(A, 0, 1)>>, <<Line(A, 4, 5)>>}}

Change(new, newLines, old, oldLines) ==
    [Whole EXCEPT !.content = new, !.lines = newLines,
                  !.source = [content |-> old, lines |-> oldLines]]

(* Three files of a block each that change places, and possibly contents.  *)
Exchanged(place, new, old) ==
    Change(<<"x">> \o new, <<Line(A, 1, 1), Line(B, 2, 2), Line(C, 3, 3)>>,
           <<"x">> \o [b \in 1..3 |-> old[CHOOSE i \in 1..3 : place[i] = b]],
           <<Line(A, place[1], place[1]), Line(B, place[2], place[2]),
             Line(C, place[3], place[3])>>)

Exchanges ==
    {Exchanged(place, new, old) :
        place \in {<<1, 2, 3>>, <<2, 1, 3>>, <<2, 3, 1>>, <<3, 1, 2>>},
        new \in {<<"x", "y", "y">>, <<"x", "y", "x">>},
        old \in {<<"x", "y", "y">>, <<"y", "x", "x">>}}

(* A file that moves by one block, with its old and its new place          *)
(* overlapping; one that is found under another name, and grows; zero      *)
(* blocks that move; groups of blocks no line names.                       *)
Others ==
    {Change(<<"x", "x", "x", "y", "y">>, <<Line(A, 2, 4)>>,
            <<"x", "x", "y", "y", "x">>, <<Line(name, 1, 3)>>) : name \in {A, OldA, OtherA, B}}
      \union
    {Change(<<"x", "x", "y", "y", "y">>, <<Line(A, 1, 2), Line(B, 3, 4)>>,
            <<"x", "y", last, "x", "y">>, <<Line(B, 1, 2), Line(A, 3, 4)>>) : last \in {"x", "y"}}
      \union
    {Change(<<"x", "zero", "y", "x", "zero">>, <<Line(A, 2, 2)>>,
            <<"x", "y", "zero", "zero", "x">>, <<Line(A, 1, 1)>>),
     Change(<<"x", "y", "y", "x", "x">>, <<>>, <<"x", "x", "x", "y", "y">>, <<>>)}

(* The first file waits for the two others, which both wait for it; then a *)
(* third one that goes before it.                                          *)
Knots ==
    {Change(<<"x", "x", "x", "y", "y">>, <<Line(A, 1, 2), Line(B, 3, 3), Line(C, 4, 4)>>,
            <<"x", "y", "y", "x", "x">>, <<Line(B, 1, 1), Line(C, 2, 2), Line(A, 3, 4)>>),
     Change(<<"x", "x", "x", "y", "y", "y">>, <<Line(A, 1, 2), Line(B, 3, 4), Line(C, 5, 5)>>,
            <<"x", "y", "y", "x", "x", "x">>, <<Line(B, 1, 1), Line(C, 2, 2), Line(A, 3, 4)>>)}

Settings == [version : 1..4, python : {2, 3}, cache : {NoCache, 2, 5, 20}]

Configured(j, s) == [j EXCEPT !.version = s.version, !.python = s.python, !.cache = s.cache]

Changes == {Configured(j, s) : j \in Exchanges \union Others \union Knots, s \in Settings}

(* A file moves out of blocks that hold nothing afterwards.  From version  *)
(* 3 on the list takes note of what is read before it erases blocks.       *)
Vacated ==
    {[Configured(Change(<<"x", "y", "x", "ones", "ones">>, <<Line(A, 1, 2)>>,
                        <<"x", "x", "y", "y", "x">>, <<Line(A, 3, 4)>>), s) EXCEPT !.dontCare = {"ones"}] :
        s \in [version : {3, 4}, python : {2, 3}, cache : {20}]}

Conversions == WholeImages \union HoledImages \union SplitImages \union MappedImages \union Changes \union Vacated

(* A definition of its own: TLC evaluates it once. *)
MCJobs == Conversions
===============================================================================
