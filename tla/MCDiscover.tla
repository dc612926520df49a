----------------------------- MODULE MCDiscover -----------------------------
(***************************************************************************)
(* Three pages in two sections: the second section begins on page 2, so    *)
(* page 3 is not at its start.  A page is read with or without leading     *)
(* text, and with no item, one or two.                                     *)
(***************************************************************************)
EXTENDS Discover

AnyReading(p, counts) == {PageExtract(p, lead, n) : lead \in BOOLEAN, n \in counts}

ThreePages ==
    <<{PageExtract(1, FALSE, n) : n \in {0, 2}}, AnyReading(2, {0, 1}),
      {PageExtract(3, TRUE, n) : n \in {0, 1}}>>

SliceOrAll == {<<1, PageCount>>, <<2, PageCount>>}

-----------------------------------------------------------------------------
(* For the tally: all surveys of two items whose lists hold up to two      *)
(* values, of four that list nothing, and of one with oddities.            *)

Value(word, padded) == [word |-> word, padded |-> padded]
Values == {Value(0, FALSE), Value(1, FALSE), Value(1, TRUE), Value(2, FALSE)}

Item(scalar, list, oddities) == [scalar |-> scalar, list |-> list, oddities |-> oddities]

AllSurveys ==
    LET lists == UNION {[1..n -> Values] : n \in 0..2}
    IN  [1..2 -> {Item(v, l, <<>>) : v \in Values, l \in lists}]
          \cup [1..4 -> {Item(v, <<>>, <<>>) : v \in Values}]
          \cup {<<Item(Value(1, FALSE), <<>>, o)>> : o \in lists}

(* A second reading that finds nothing, something of each kind (less than   *)
(* the first reading of some items), all there is, or blanks.               *)
SomeReadings ==
    {Item(Value(0, FALSE), <<>>, <<>>),
     Item(Value(2, FALSE), <<Value(2, FALSE)>>, <<Value(1, FALSE)>>),
     Item(Value(1, FALSE), <<Value(2, FALSE), Value(1, TRUE)>>, <<>>),
     Item(Value(0, TRUE), <<Value(0, TRUE)>>, <<>>)}
=============================================================================
