------------------------------- MODULE Tally -------------------------------
(***************************************************************************)
(* What a survey says of its items and how often: Merge of relabel.go folds *)
(* the second reading of an item that crossed a page into the first, then   *)
(* tally.go counts every value of every field.  Both are functions of the  *)
(* items; module Discover says when they are called.  A survey is a        *)
(* sequence of items, and an item has one field of each kind: a scalar, a  *)
(* list, and the oddities, which are a list that Merge appends to.         *)
(*                                                                         *)
(* A value is [word, padded]: which string it is, in string order with 0   *)
(* for the empty one, and whether white space surrounds it.                *)
(***************************************************************************)
EXTENDS Integers, Sequences, SequencesExt, FiniteSets

CONSTANTS
    Surveys,          \* the surveys that are counted
    SecondReadings    \* the readings that are merged into an item

Strings == [word : Nat, padded : BOOLEAN]
SurveyItems == [scalar : Strings, list : Seq(Strings), oddities : Seq(Strings)]

ASSUME SurveyAssumption ==
    /\ \A s \in Surveys : s \in Seq(SurveyItems)
    /\ SecondReadings \subseteq SurveyItems

TrimSpace(v) == v.word
Empty == 0
Present == 1
-----------------------------------------------------------------------------

(* A plausible bug: lists are replaced by what the second reading found.   *)
MergedUnguarded(it, l) ==
    [scalar |-> IF TrimSpace(it.scalar) = Empty THEN l.scalar ELSE it.scalar,
     list |-> l.list,
     oddities |-> it.oddities \o l.oddities]

(* A list is replaced when the second reading found anything, a scalar is  *)
(* filled only if the page left it empty, oddities are appended.           *)
Merged(it, l) ==
    [scalar |-> IF TrimSpace(it.scalar) = Empty THEN l.scalar ELSE it.scalar,
     list |-> IF l.list # <<>> THEN l.list ELSE it.list,
     oddities |-> it.oddities \o l.oddities]
-----------------------------------------------------------------------------
(* What each counter is incremented for, item by item.                     *)

ScalarWords(s) == [i \in DOMAIN s |-> TrimSpace(s[i].scalar)]

PresenceWords(s) ==
    [i \in DOMAIN s |-> IF TrimSpace(s[i].scalar) # Empty THEN Present ELSE Empty]

(* A plausible bug: an item that lists nothing is not counted. *)
ListWordsStated(lists) ==
    FlattenSeq([i \in DOMAIN lists |-> [n \in DOMAIN lists[i] |-> TrimSpace(lists[i][n])]])

ListWords(lists) ==
    FlattenSeq([i \in DOMAIN lists |->
        IF lists[i] = <<>> THEN <<Empty>>
        ELSE [n \in DOMAIN lists[i] |-> TrimSpace(lists[i][n])]])

Lists(s) == [i \in DOMAIN s |-> s[i].list]
Oddities(s) == [i \in DOMAIN s |-> s[i].oddities]

Times(words, w) == Cardinality({n \in DOMAIN words : words[n] = w})
Rows(words) == {[val |-> w, count |-> Times(words, w)] : w \in ToSet(words)}

(* Most frequent first, then by value. *)
Before(a, b) == a.count > b.count \/ (a.count = b.count /\ a.val < b.val)

(* writeSection: the map is read in any order and sorted by an unstable     *)
(* sort: any order that Before does not forbid may be printed.              *)
Printed(rows) == {s \in SetToSeqs(rows) : \A m, n \in DOMAIN s : m < n => ~Before(s[n], s[m])}

(* The sections that may be printed for survey s, one of each kind. *)
Tally(s) ==
    [scalar: Printed(Rows(ScalarWords(s))), list: Printed(Rows(ListWords(Lists(s)))),
     oddities: Printed(Rows(ListWords(Oddities(s)))), presence: Printed(Rows(PresenceWords(s)))]
-----------------------------------------------------------------------------

CountOf(rows, w) == LET at == {n \in DOMAIN rows : rows[n].val = w}
                    IN  IF at = {} THEN 0 ELSE rows[CHOOSE n \in at : TRUE].count

(* The items that state a word in a list field; the empty word for none.    *)
Words(list) == IF list = <<>> THEN {Empty} ELSE {TrimSpace(v) : v \in ToSet(list)}
Stating(lists, w) == {i \in DOMAIN lists : w \in Words(lists[i])}
Repeats(list) == Len(list) > Cardinality(Words(list))

(* tally.md depends on the survey alone ("so output is deterministic",      *)
(* tally.go:81): neither on Go's map order nor on the sort.  And the        *)
(* ontology may be read off it: an item counts once in a scalar and in a    *)
(* presence field; in a list field a count is the number of items with the  *)
(* value, and only an item that lists a value twice (an oddity both         *)
(* readings remark on) can make it more.                                    *)
IsExact(s) ==
    Cardinality(Tally(s)) = 1 /\ \A t \in Tally(s) :
       /\ \A i \in DOMAIN s :
             LET w == TrimSpace(s[i].scalar)
             IN  CountOf(t.scalar, w) = Cardinality({j \in DOMAIN s : TrimSpace(s[j].scalar) = w})
       /\ CountOf(t.presence, Present) + CountOf(t.scalar, Empty) = Len(s)
       /\ \A i \in DOMAIN s : \A w \in Words(s[i].list) :
             LET items == Stating(Lists(s), w)
             IN  /\ CountOf(t.list, w) >= Cardinality(items)
                 /\ CountOf(t.list, w) > Cardinality(items) => \E j \in items : Repeats(s[j].list)

(* The survey in which item i has been read again.                          *)
Reread(s, i, l) == [s EXCEPT ![i] = Merged(s[i], l)]

(* What Merge takes for granted of a reading that lists anything: "its read *)
(* is a superset of the first page's" (relabel.go:180).                     *)
IsSuperset(l, it) == l.list # <<>> => Words(it.list) \ {Empty} \subseteq Words(l.list)

(* What rereading item i may take away.  Whatever the second reading says:  *)
(* of the scalars and the oddities nothing, and no list becomes empty       *)
(* unless the reading itself lists a blank.  Of the list values nothing     *)
(* either if the reading is a superset, and any of the item's own if not:   *)
(* a value may then be counted less often than items stated it.             *)
LosesNothing(s, i, l) ==
    \A t \in Tally(s), u \in Tally(Reread(s, i, l)) :
       /\ \A w \in ToSet(ScalarWords(s)) \ {Empty} : CountOf(u.scalar, w) >= CountOf(t.scalar, w)
       /\ \A w \in ToSet(ListWords(Oddities(s))) \ {Empty} :
             CountOf(u.oddities, w) >= CountOf(t.oddities, w)
       /\ CountOf(u.presence, Empty) <= CountOf(t.presence, Empty)
       /\ CountOf(u.list, Empty) > CountOf(t.list, Empty) =>
             l.list # <<>> /\ Empty \in Words(l.list)
       /\ IsSuperset(l, s[i]) =>
             \A w \in ToSet(ListWords(Lists(s))) \ {Empty} :
                CountOf(u.list, w) >= Cardinality(Stating(Lists(s), w))
=============================================================================
