------------------------------- MODULE Stitch -------------------------------
(***************************************************************************)
(* internal/discovery/stitch.go: pages extracted independently are put     *)
(* back into items that run across page breaks.                            *)
(*                                                                         *)
(* Of a page extract only three things matter here: its page, whether it   *)
(* opens with text continued from the page before, and how many items it   *)
(* holds.  Text is known by the page it stands on, so the description of   *)
(* an item is the sequence of pages whose leading text was glued to it.    *)
(***************************************************************************)
EXTENDS Integers, Sequences, FiniteSets, SequencesExt

CONSTANT SectionStarts     \* pages on which a new stapled-in scan begins

PageExtract(p, lead, items) == [page |-> p, lead |-> lead, items |-> items]

StitchedItems(x) ==
    [i \in 1..x.items |->
       [name |-> <<x.page, i>>, glued |-> <<>>, start |-> x.page, end |-> x.page,
        relabeled |-> FALSE]]

Glue(items, p) ==
    ReplaceAt(items, Len(items), [Last(items) EXCEPT !.glued = Append(@, p), !.end = p])

(* Plausible bugs: a section start is not looked for; the text after a     *)
(* warning is glued as well; the range is not extended.                    *)
LeadNoBarrier(acc, x) ==
    IF ~x.lead THEN acc
    ELSE IF acc.items = <<>> THEN [acc EXCEPT !.warnings = Append(@, x.page)]
         ELSE [acc EXCEPT !.items = Glue(@, x.page)]

LeadDropped(acc, x) ==
    IF ~x.lead \/ acc.items = <<>> THEN acc
    ELSE IF x.page \in SectionStarts THEN [acc EXCEPT !.warnings = Append(@, x.page)]
         ELSE [acc EXCEPT !.items = Glue(@, x.page)]

(* The leading text of a page goes to the last item so far, or, on a page  *)
(* that starts a section or when there is no item yet, to a warning.       *)
Lead(acc, x) ==
    IF ~x.lead THEN acc
    ELSE IF x.page \in SectionStarts \/ acc.items = <<>>
         THEN [acc EXCEPT !.warnings = Append(@, x.page)]
         ELSE [acc EXCEPT !.items = Glue(@, x.page)]

StitchPage(acc, x) ==
    LET led == Lead(acc, x) IN [led EXCEPT !.items = @ \o StitchedItems(x)]

NoItems == [items |-> <<>>, warnings |-> <<>>]

(* The loop over the pages. *)
StitchPages(s) ==
    LET stitched[r \in 0..Len(s)] ==
          IF r = 0 THEN NoItems ELSE StitchPage(stitched[r - 1], s[r])
    IN  stitched[Len(s)]

(* A plausible bug: pages are taken in the order their calls returned. *)
StitchUnsorted(extracts) == StitchPages(extracts)

(* sort.Slice by page, of which there is one extract each: in place r is   *)
(* the one that has r - 1 before it.                                       *)
ByPage(extracts) ==
    LET before(i) == {j \in DOMAIN extracts : extracts[j].page < extracts[i].page}
    IN  [r \in DOMAIN extracts |->
           extracts[CHOOSE i \in DOMAIN extracts : Cardinality(before(i)) = r - 1]]

Stitch(extracts) == StitchPages(ByPage(extracts))

NeedsRelabel(item) == item.end > item.start
-----------------------------------------------------------------------------
(* The same result said without the loop: the reference the runs compare   *)
(* with.  Extracts are a set from here on.                                 *)

(* The pages before p, among those extracted, that hold an item. *)
Holders(extracts, p) == {x \in extracts : x.page < p /\ x.items > 0}

(* The item that text at the top of page p continues, if any. *)
Owner(extracts, p) ==
    {<<x.page, x.items>> : x \in {y \in Holders(extracts, p) :
                                    \A z \in Holders(extracts, p) : z.page <= y.page}}

GluedTo(extracts, name) ==
    {x.page : x \in {y \in extracts : /\ y.lead /\ y.page \notin SectionStarts
                                       /\ name \in Owner(extracts, y.page)}}

ItemNames(extracts) == UNION {{<<x.page, i>> : i \in 1..x.items} : x \in extracts}

InPageOrder(items) ==
    \A a, b \in DOMAIN items : a < b =>
       \/ items[a].start < items[b].start
       \/ items[a].start = items[b].start /\ items[a].name[2] < items[b].name[2]

Increasing(s) == \A a, b \in DOMAIN s : a < b => s[a] < s[b]

(* An item has the leading text of exactly the pages it runs on to. *)
HasItsText(it, extracts) ==
    /\ it.start = it.name[1]
    /\ ToSet(it.glued) = GluedTo(extracts, it.name)
    /\ Increasing(it.glued)
    /\ it.end = IF it.glued = <<>> THEN it.start ELSE Last(it.glued)

(* items is what the extracted pages amount to, in page order. *)
IsStitchOf(items, extracts) ==
    /\ {it.name : it \in ToSet(items)} = ItemNames(extracts)
    /\ InPageOrder(items)
    /\ \A it \in ToSet(items) : HasItsText(it, extracts)

(* Where the leading text of page p ended up: warnings, and pieces of items. *)
Warned(stitched, p) == {n \in DOMAIN stitched.warnings : stitched.warnings[n] = p}
Pieces(stitched, p) ==
    UNION {{<<j, n>> : n \in {m \in DOMAIN stitched.items[j].glued : stitched.items[j].glued[m] = p}}
             : j \in DOMAIN stitched.items}
Places(stitched, p) == Cardinality(Warned(stitched, p)) + Cardinality(Pieces(stitched, p))
=============================================================================
