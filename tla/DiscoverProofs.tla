-------------------------- MODULE DiscoverProofs --------------------------
(***************************************************************************)
(* Pass A for any number of pages, any readings of them and any number of  *)
(* runs: what the stitch loop makes of extracts that come in any order,    *)
(* and what the two files say of a run that ended.                         *)
(*                                                                         *)
(* The loop is taken page by page: Stitches(acc, P) says what it has made  *)
(* of the extracts P, and holds of P and the next page when it held of P.  *)
(* DiscoverInv carries the result through the relabel loop to the files.   *)
(*                                                                         *)
(* Last, what the tally of any survey counts: rows have one sorted order,  *)
(* and a list field counts the places at which its items say a word.       *)
(***************************************************************************)
EXTENDS Discover, Induction

PageRead == [page : Nat, lead : BOOLEAN, items : Nat]
StitchedItem == [name : Nat \X Nat, glued : Seq(Nat), start : Nat, end : Nat, relabeled : BOOLEAN]

OnePerPage(s) == \A i, j \in DOMAIN s : s[i].page = s[j].page => i = j
PagesRise(s) == \A i, j \in DOMAIN s : i < j => s[i].page < s[j].page

(* The number of pages before an extract is its place: on places it is one *)
(* to one, so every place is taken.                                        *)
LEMMA ByPageSorts ==
    ASSUME NEW s \in Seq(PageRead), OnePerPage(s)
    PROVE  /\ ByPage(s) \in Seq(PageRead)
           /\ ToSet(ByPage(s)) = ToSet(s)
           /\ PagesRise(ByPage(s))
<1>a. Len(s) \in Nat /\ DOMAIN s = 1..Len(s) /\ \A i \in DOMAIN s : s[i] \in PageRead
  OBVIOUS
<1>b. \A x \in PageRead : x.page \in Nat
  BY DEF PageRead
<1> SUFFICES ASSUME NEW D, D = DOMAIN s, NEW n \in Nat, D = 1..n, Len(s) = n,
                    \A i \in D : s[i] \in PageRead /\ s[i].page \in Nat
             PROVE  /\ ByPage(s) \in Seq(PageRead)
                    /\ ToSet(ByPage(s)) = ToSet(s)
                    /\ PagesRise(ByPage(s))
  BY <1>a, <1>b
<1> DEFINE before(i) == {j \in D : s[j].page < s[i].page}
           place == [i \in D |-> Cardinality(before(i)) + 1]
           w == [r \in D |-> CHOOSE i \in D : Cardinality(before(i)) = r - 1]
<1>1. IsFiniteSet(D) /\ Cardinality(D) = n
  BY FS_Interval
<1>2. ASSUME NEW i \in D
      PROVE  /\ IsFiniteSet(before(i)) /\ Cardinality(before(i)) \in Nat
             /\ Cardinality(before(i)) < n
  <2>1. before(i) \in SUBSET (D \ {i})
    OBVIOUS
  <2>2. IsFiniteSet(D \ {i}) /\ Cardinality(D \ {i}) = n - 1
    BY <1>1, FS_RemoveElement
  <2>3. IsFiniteSet(before(i)) /\ Cardinality(before(i)) <= n - 1
    BY <2>1, <2>2, FS_Subset
  <2>4. Cardinality(before(i)) \in Nat
    BY <2>3, FS_CardinalityType
  <2> QED BY <2>3, <2>4
<1>3. ASSUME NEW i \in D, NEW j \in D, s[i].page < s[j].page
      PROVE  Cardinality(before(i)) < Cardinality(before(j))
  <2>1. before(i) \cup {i} \in SUBSET before(j)
    BY <1>3
  <2>2. i \notin before(i)
    OBVIOUS
  <2>3. Cardinality(before(i) \cup {i}) = Cardinality(before(i)) + 1
    BY <1>2, <2>2, FS_AddElement
  <2>4. Cardinality(before(i) \cup {i}) <= Cardinality(before(j))
    BY <1>2, <2>1, FS_Subset
  <2> HIDE DEF before
  <2> QED BY <1>2, <2>3, <2>4
<1> HIDE DEF before
<1>4. place \in Injection(D, D)
  <2>1. \A i \in D : place[i] \in D
    BY <1>2
  <2>2. ASSUME NEW i \in D, NEW j \in D, place[i] = place[j] PROVE i = j
    <3>1. Cardinality(before(i)) = Cardinality(before(j))
      BY <1>2, <2>2
    <3>2. s[i].page = s[j].page
      BY <1>2, <1>3, <3>1
    <3> QED BY <3>2 DEF OnePerPage
  <2> QED BY <2>1, <2>2 DEF Injection, IsInjective
<1>5. place \in Surjection(D, D)
  BY <1>1, <1>4, FS_Injection
<1>6. ASSUME NEW r \in D PROVE w[r] \in D /\ Cardinality(before(w[r])) = r - 1
  <2>1. PICK i \in D : place[i] = r
    BY <1>5 DEF Surjection
  <2>2. Cardinality(before(i)) = r - 1
    BY <1>2, <2>1
  <2> QED BY <2>2
<1>7. ByPage(s) = [r \in D |-> s[w[r]]]
  BY DEF ByPage, before
<1>8. \A i \in D : w[Cardinality(before(i)) + 1] = i
  <2> SUFFICES ASSUME NEW i \in D PROVE w[Cardinality(before(i)) + 1] = i
    OBVIOUS
  <2> DEFINE r == Cardinality(before(i)) + 1
  <2>1. r \in D /\ r - 1 = Cardinality(before(i))
    BY <1>2
  <2>2. PICK j : j = w[r]
    OBVIOUS
  <2>3. j \in D /\ Cardinality(before(j)) = Cardinality(before(i))
    BY <1>6, <2>1, <2>2
  <2>4. s[i].page = s[j].page
    BY <1>2, <1>3, <2>3
  <2> QED BY <2>2, <2>3, <2>4 DEF OnePerPage
<1> HIDE DEF w
<1>9. ByPage(s) \in Seq(PageRead) /\ DOMAIN ByPage(s) = D
  BY <1>6, <1>7
<1>10. ToSet(ByPage(s)) = ToSet(s)
  <2>1. \A r \in D : ByPage(s)[r] \in ToSet(s)
    BY <1>6, <1>7 DEF ToSet
  <2>2. \A i \in D : s[i] \in ToSet(ByPage(s))
    <3> SUFFICES ASSUME NEW i \in D PROVE s[i] \in ToSet(ByPage(s))
      OBVIOUS
    <3>1. PICK r : r = Cardinality(before(i)) + 1
      OBVIOUS
    <3>2. r \in D /\ w[r] = i
      BY <1>2, <1>8, <3>1
    <3>3. ByPage(s)[r] = s[i]
      BY <1>7, <3>2
    <3> QED BY <1>9, <3>2, <3>3 DEF ToSet
  <2> QED BY <1>9, <2>1, <2>2 DEF ToSet
<1>11. PagesRise(ByPage(s))
  <2> SUFFICES ASSUME NEW p \in D, NEW q \in D, p < q PROVE s[w[p]].page < s[w[q]].page
    BY <1>7, <1>9 DEF PagesRise
  <2>1. PICK i, j : i = w[p] /\ j = w[q]
    OBVIOUS
  <2>2. /\ i \in D /\ Cardinality(before(i)) = p - 1
        /\ j \in D /\ Cardinality(before(j)) = q - 1
    BY <1>6, <2>1
  <2>3. ~(s[j].page < s[i].page) /\ s[i].page # s[j].page
    BY <1>3, <2>2 DEF OnePerPage
  <2> QED BY <2>1, <2>2, <2>3
<1> QED BY <1>9, <1>10, <1>11
-----------------------------------------------------------------------------
(* What the loop has made of the extracts so far.                          *)

Accumulator == [items : Seq(StitchedItem), warnings : Seq(Nat)]

(* Leading text that no item can take.                                     *)
Unplaced(P) ==
    {x.page : x \in {y \in P : y.lead /\ (y.page \in SectionStarts \/ Holders(P, y.page) = {})}}

(* What the loop has made of the extracts P.                               *)
Stitches(acc, P) ==
    /\ acc \in Accumulator
    /\ IsStitchOf(acc.items, P)
    /\ \A j \in DOMAIN acc.items : acc.items[j].relabeled = FALSE
    /\ Increasing(acc.warnings)
    /\ ToSet(acc.warnings) = Unplaced(P)

(* P has one extract of a page at most, and x comes after all of them.     *)
Later(P, x) ==
    /\ P \subseteq PageRead /\ x \in PageRead
    /\ \A y \in P : y.page < x.page
    /\ \A y, z \in P : y.page = z.page => y = z

(* What a later extract changes for the text at the top of a page.         *)
LEMMA OwnersStay ==
    ASSUME NEW P, NEW x, Later(P, x), NEW p, p = x.page \/ \E y \in P : p = y.page
    PROVE  Holders(P \cup {x}, p) = Holders(P, p) /\ Owner(P \cup {x}, p) = Owner(P, p)
<1>1. p \in Nat /\ x.page \in Nat /\ ~(x.page < p)
  BY DEF Later, PageRead
<1>2. Holders(P \cup {x}, p) = Holders(P, p)
  BY <1>1 DEF Holders
<1> QED BY <1>2 DEF Owner

(* The text glued to an item, with one page more.                          *)
LEMMA GlueNext ==
    ASSUME NEW P, NEW x, Later(P, x), NEW name
    PROVE  GluedTo(P \cup {x}, name) =
             GluedTo(P, name)
               \cup IF x.lead /\ x.page \notin SectionStarts /\ name \in Owner(P, x.page)
                    THEN {x.page} ELSE {}
<1>1. \A y \in P \cup {x} : Owner(P \cup {x}, y.page) = Owner(P, y.page)
  BY OwnersStay
<1> QED BY <1>1 DEF GluedTo

(* The text no item takes, with one page more.                             *)
LEMMA UnplacedNext ==
    ASSUME NEW P, NEW x, Later(P, x)
    PROVE  Unplaced(P \cup {x}) =
             Unplaced(P)
               \cup IF x.lead /\ (x.page \in SectionStarts \/ Holders(P, x.page) = {})
                    THEN {x.page} ELSE {}
<1>1. \A y \in P \cup {x} : Holders(P \cup {x}, y.page) = Holders(P, y.page)
  BY OwnersStay
<1> QED BY <1>1 DEF Unplaced

(* The names an item can have, and where.                                  *)
LEMMA NamedItems ==
    ASSUME NEW items \in Seq(StitchedItem), NEW P, P \subseteq PageRead, IsStitchOf(items, P)
    PROVE  /\ Len(items) \in Nat /\ DOMAIN items = 1..Len(items)
           /\ \A j \in DOMAIN items :
                 /\ items[j] \in StitchedItem
                 /\ items[j].name[1] \in Nat /\ items[j].name[2] \in Nat
                 /\ items[j].start = items[j].name[1]
                 /\ HasItsText(items[j], P)
                 /\ \E y \in P : \E i \in 1..y.items : items[j].name = <<y.page, i>>
           /\ \A y \in P : \A i \in 1..y.items : \E j \in DOMAIN items : items[j].name = <<y.page, i>>
           /\ \A a, b \in DOMAIN items : items[a].name = items[b].name => a = b
<1>1. Len(items) \in Nat /\ DOMAIN items = 1..Len(items) /\ \A j \in DOMAIN items : items[j] \in StitchedItem
  OBVIOUS
<1>2. ASSUME NEW j \in DOMAIN items
      PROVE  /\ items[j].name[1] \in Nat /\ items[j].name[2] \in Nat
             /\ items[j].start = items[j].name[1]
             /\ HasItsText(items[j], P)
             /\ \E y \in P : \E i \in 1..y.items : items[j].name = <<y.page, i>>
  <2>1. items[j] \in ToSet(items)
    BY DEF ToSet
  <2>2. items[j].name[1] \in Nat /\ items[j].name[2] \in Nat
    BY <1>1 DEF StitchedItem
  <2>3. HasItsText(items[j], P) /\ items[j].start = items[j].name[1]
    BY <2>1 DEF IsStitchOf, HasItsText
  <2>4. items[j].name \in ItemNames(P)
    BY <2>1 DEF IsStitchOf
  <2> QED BY <2>2, <2>3, <2>4 DEF ItemNames
<1>3. ASSUME NEW y \in P, NEW i \in 1..y.items PROVE \E j \in DOMAIN items : items[j].name = <<y.page, i>>
  <2>0. <<y.page, i>> \in ItemNames(P)
    BY DEF ItemNames
  <2>1. <<y.page, i>> \in {it.name : it \in ToSet(items)}
    BY <2>0 DEF IsStitchOf
  <2> QED BY <2>1 DEF ToSet
<1>4. \A a, b \in DOMAIN items : a < b => items[a].name # items[b].name
  BY <1>2 DEF IsStitchOf, InPageOrder
<1>5. \A a, b \in DOMAIN items : items[a].name = items[b].name => a = b
  BY <1>1, <1>4
<1> QED BY <1>1, <1>2, <1>3, <1>5

(* The item text runs on from is the last so far.                          *)
LEMMA OwnerIsLast ==
    ASSUME NEW items \in Seq(StitchedItem), NEW P, NEW x, Later(P, x), IsStitchOf(items, P)
    PROVE  IF items = <<>> THEN Holders(P, x.page) = {} /\ Owner(P, x.page) = {}
           ELSE Holders(P, x.page) # {} /\ Owner(P, x.page) = {items[Len(items)].name}
<1>0. /\ \A y \in P : y.page \in Nat /\ y.items \in Nat /\ y.page < x.page
      /\ x.page \in Nat
  BY DEF Later, PageRead
<1>1. P \subseteq PageRead
  BY DEF Later
<1>2. Holders(P, x.page) = {y \in P : y.items > 0}
  BY <1>0 DEF Holders
<1>3. \A y \in P : \A i \in 1..y.items : \E j \in DOMAIN items : items[j].name = <<y.page, i>>
  BY <1>1, NamedItems
<1>4. CASE items = <<>>
  <2>1. \A y \in P : ~(y.items > 0)
    <3> SUFFICES ASSUME NEW y \in P, y.items > 0 PROVE FALSE
      OBVIOUS
    <3>1. 1 \in 1..y.items
      BY <1>0
    <3> QED BY <1>3, <1>4, <3>1
  <2> QED BY <1>2, <1>4, <2>1 DEF Owner
<1>5. CASE items # <<>>
  <2> DEFINE n == Len(items)
  <2>1. n \in DOMAIN items /\ DOMAIN items = 1..n /\ n \in Nat
    BY <1>1, <1>5, NamedItems, EmptySeq
  <2>2. PICK y \in P : \E i \in 1..y.items : items[n].name = <<y.page, i>>
    BY <1>1, <2>1, NamedItems
  <2>3. PICK i \in 1..y.items : items[n].name = <<y.page, i>>
    BY <2>2
  <2>4. y \in Holders(P, x.page)
    BY <1>0, <1>2, <2>3
  <2>5. \A a \in DOMAIN items : a # n =>
           items[a].name[1] < y.page \/ (items[a].name[1] = y.page /\ items[a].name[2] < i)
    <3>1. ASSUME NEW a \in DOMAIN items, a # n
          PROVE  items[a].name[1] < y.page \/ (items[a].name[1] = y.page /\ items[a].name[2] < i)
      <4>1. a < n
        BY <2>1, <3>1
      <4>2. \/ items[a].start < items[n].start
            \/ items[a].start = items[n].start /\ items[a].name[2] < items[n].name[2]
        BY <2>1, <4>1 DEF IsStitchOf, InPageOrder
      <4>3. items[a].start = items[a].name[1] /\ items[n].start = items[n].name[1]
        BY <1>1, <2>1, NamedItems
      <4> QED BY <2>3, <4>2, <4>3
    <3> QED BY <3>1
  <2>6. ASSUME NEW z \in P, NEW h \in 1..z.items
        PROVE  z.page < y.page \/ (z.page = y.page /\ h <= i)
    <3>1. PICK a \in DOMAIN items : items[a].name = <<z.page, h>>
      BY <1>3
    <3>2. CASE a = n
      BY <1>0, <2>3, <3>1, <3>2
    <3>3. CASE a # n
      BY <1>0, <2>5, <3>1, <3>3
    <3> QED BY <3>2, <3>3
  <2>7. \A z \in Holders(P, x.page) : z.page <= y.page
    <3> SUFFICES ASSUME NEW z \in P, z.items > 0 PROVE z.page <= y.page
      BY <1>2
    <3>1. 1 \in 1..z.items
      BY <1>0
    <3> QED BY <1>0, <2>6, <3>1
  <2>8. ASSUME NEW z \in Holders(P, x.page), \A v \in Holders(P, x.page) : v.page <= z.page
        PROVE  <<z.page, z.items>> = <<y.page, i>>
    <3>1. z \in P /\ z.items \in 1..z.items
      BY <1>0, <1>2
    <3>2. z.page = y.page
      BY <1>0, <2>4, <2>7, <2>8, <3>1
    <3>3. z.items <= i
      BY <1>0, <2>6, <3>1, <3>2
    <3>4. z = y
      BY <3>1, <3>2 DEF Later
    <3>5. y.items \in Nat /\ i \in 1..y.items
      BY <1>0
    <3> QED BY <3>3, <3>4, <3>5
  <2>9. Owner(P, x.page) = {<<y.page, i>>}
    BY <2>4, <2>7, <2>8 DEF Owner
  <2> QED BY <1>5, <2>3, <2>4, <2>9
<1> QED BY <1>4, <1>5
-----------------------------------------------------------------------------
(* The leading text of the next page.                                      *)

(* A later page at the end of an increasing sequence.                      *)
LEMMA AppendRises ==
    ASSUME NEW s \in Seq(Nat), Increasing(s), NEW p \in Nat, \A e \in ToSet(s) : e < p
    PROVE  /\ Append(s, p) \in Seq(Nat) /\ Append(s, p) # <<>> /\ Last(Append(s, p)) = p
           /\ Increasing(Append(s, p)) /\ ToSet(Append(s, p)) = ToSet(s) \cup {p}
<1> DEFINE w == Append(s, p)
           n == Len(s)
<1>1. /\ n \in Nat /\ DOMAIN s = 1..n /\ w \in Seq(Nat) /\ Len(w) = n + 1 /\ DOMAIN w = 1..(n + 1)
      /\ w[n + 1] = p /\ \A j \in 1..n : w[j] = s[j] /\ s[j] \in Nat
  OBVIOUS
<1>2. \A j \in 1..n : s[j] < p
  BY <1>1 DEF ToSet
<1> HIDE DEF w, n
<1>3. Increasing(w)
  <2> SUFFICES ASSUME NEW a \in 1..(n + 1), NEW b \in 1..(n + 1), a < b PROVE w[a] < w[b]
    BY <1>1 DEF Increasing
  <2>1. a \in 1..n /\ (b = n + 1 \/ b \in 1..n)
    BY <1>1
  <2> QED BY <1>1, <1>2, <2>1 DEF Increasing
<1>4. ToSet(w) = ToSet(s) \cup {p}
  BY <1>1 DEF ToSet
<1>5. w # <<>> /\ Last(w) = p
  BY <1>1, EmptySeq DEF Last
<1> QED BY <1>1, <1>3, <1>4, <1>5 DEF w

(* An item keeps its text when a page adds none to it.                     *)
LEMMA TextStays ==
    ASSUME NEW it, NEW P, NEW R, HasItsText(it, P), GluedTo(R, it.name) = GluedTo(P, it.name)
    PROVE  HasItsText(it, R)
  BY DEF HasItsText

(* The leading text of the next page is where it belongs.                  *)
Led(led, acc, P, x) ==
    /\ led \in Accumulator
    /\ DOMAIN led.items = DOMAIN acc.items
    /\ \A j \in DOMAIN acc.items :
          /\ led.items[j].name = acc.items[j].name
          /\ led.items[j].start = acc.items[j].start
          /\ led.items[j].relabeled = FALSE
          /\ HasItsText(led.items[j], P \cup {x})
    /\ Increasing(led.warnings)
    /\ ToSet(led.warnings) = Unplaced(P \cup {x})

(* The leading text of the next page is glued to the last item, or warned  *)
(* about, as the reference has it.                                         *)
LEMMA LeadNext ==
    ASSUME NEW acc, NEW P, NEW x, Later(P, x), Stitches(acc, P)
    PROVE  Led(Lead(acc, x), acc, P, x)
<1>1. /\ acc = [items |-> acc.items, warnings |-> acc.warnings]
      /\ acc.items \in Seq(StitchedItem) /\ acc.warnings \in Seq(Nat)
  BY DEF Stitches, Accumulator
<1>2. x.page \in Nat /\ x.lead \in BOOLEAN /\ P \subseteq PageRead /\ \A y \in P : y.page < x.page
  BY DEF Later, PageRead
<1> DEFINE items == acc.items
           n == Len(items)
<1>3. /\ n \in Nat /\ DOMAIN items = 1..n
      /\ \A j \in DOMAIN items : items[j] \in StitchedItem /\ HasItsText(items[j], P)
                                 /\ items[j].relabeled = FALSE
      /\ \A a, b \in DOMAIN items : items[a].name = items[b].name => a = b
  BY <1>1, <1>2, NamedItems DEF Stitches
<1>4. IF items = <<>> THEN Holders(P, x.page) = {} /\ Owner(P, x.page) = {}
      ELSE Holders(P, x.page) # {} /\ Owner(P, x.page) = {items[n].name}
  BY <1>1, OwnerIsLast DEF Stitches
<1>5. \A name : GluedTo(P \cup {x}, name) =
             GluedTo(P, name)
               \cup IF x.lead /\ x.page \notin SectionStarts /\ name \in Owner(P, x.page)
                    THEN {x.page} ELSE {}
  BY GlueNext
<1>6. Unplaced(P \cup {x}) =
        Unplaced(P) \cup IF x.lead /\ (x.page \in SectionStarts \/ Holders(P, x.page) = {})
                         THEN {x.page} ELSE {}
  BY UnplacedNext
<1>7. CASE ~x.lead
  <2>1. Lead(acc, x) = acc
    BY <1>7 DEF Lead
  <2>2. \A name : GluedTo(P \cup {x}, name) = GluedTo(P, name)
    BY <1>5, <1>7
  <2>3. \A j \in DOMAIN items : HasItsText(items[j], P \cup {x})
    BY <1>3, <2>2, TextStays
  <2> QED BY <1>3, <1>6, <1>7, <2>1, <2>3 DEF Led, Stitches
<1>8. CASE x.lead /\ (x.page \in SectionStarts \/ items = <<>>)
  <2>1. Lead(acc, x) = [acc EXCEPT !.warnings = Append(@, x.page)]
    BY <1>8 DEF Lead
  <2>2. PICK led : led = Lead(acc, x)
    OBVIOUS
  <2>3. led = [items |-> items, warnings |-> Append(acc.warnings, x.page)]
    BY <1>1, <2>1, <2>2
  <2>4. led.items = items /\ led.warnings = Append(acc.warnings, x.page)
    BY <2>3
  <2>5. \A e \in ToSet(acc.warnings) : e < x.page
    BY <1>2 DEF Stitches, Unplaced
  <2>6. /\ led.warnings \in Seq(Nat) /\ Increasing(led.warnings)
        /\ ToSet(led.warnings) = Unplaced(P) \cup {x.page}
    BY <1>1, <1>2, <2>4, <2>5, AppendRises DEF Stitches
  <2>7. ToSet(led.warnings) = Unplaced(P \cup {x})
    BY <1>4, <1>6, <1>8, <2>6
  <2>8. \A j \in DOMAIN items : HasItsText(items[j], P \cup {x})
    <3>1. CASE x.page \in SectionStarts
      <4>1. \A name : GluedTo(P \cup {x}, name) = GluedTo(P, name)
        BY <1>5, <3>1
      <4> QED BY <1>3, <4>1, TextStays
    <3>2. CASE items = <<>>
      BY <3>2
    <3> QED BY <1>8, <3>1, <3>2
  <2>9. led \in Accumulator
    BY <1>1, <2>3, <2>4, <2>6 DEF Accumulator
  <2> QED BY <1>3, <2>2, <2>4, <2>6, <2>7, <2>8, <2>9 DEF Led
<1>9. CASE x.lead /\ x.page \notin SectionStarts /\ items # <<>>
  <2>1. PICK old : old = items[n]
    OBVIOUS
  <2>2. n \in DOMAIN items /\ old \in StitchedItem /\ HasItsText(old, P) /\ old.relabeled = FALSE
    BY <1>1, <1>3, <1>9, <2>1, EmptySeq
  <2>3. PICK new : new = [old EXCEPT !.glued = Append(@, x.page), !.end = x.page]
    OBVIOUS
  <2>4. PICK led : led = Lead(acc, x)
    OBVIOUS
  <2>5. led = [acc EXCEPT !.items = [items EXCEPT ![n] = new]]
    BY <1>9, <2>1, <2>3, <2>4 DEF Lead, Glue, ReplaceAt, Last
  <2>6. led = [items |-> [items EXCEPT ![n] = new], warnings |-> acc.warnings]
    BY <1>1, <2>5
  <2>7. led.items = [items EXCEPT ![n] = new] /\ led.warnings = acc.warnings
    BY <2>6
  <2>8. old.glued \in Seq(Nat) /\ \A e \in ToSet(old.glued) : e < x.page
    BY <1>2, <2>2 DEF StitchedItem, HasItsText, GluedTo
  <2>9. Increasing(old.glued)
    BY <2>2 DEF HasItsText
  <2>10. /\ Append(old.glued, x.page) \in Seq(Nat) /\ Append(old.glued, x.page) # <<>>
         /\ Last(Append(old.glued, x.page)) = x.page /\ Increasing(Append(old.glued, x.page))
         /\ ToSet(Append(old.glued, x.page)) = ToSet(old.glued) \cup {x.page}
    BY <1>2, <2>8, <2>9, AppendRises
  <2>11. /\ new.name = old.name /\ new.start = old.start /\ new.relabeled = FALSE
         /\ new.glued = Append(old.glued, x.page) /\ new.end = x.page /\ new \in StitchedItem
    BY <1>2, <2>2, <2>3, <2>10 DEF StitchedItem
  <2>12. GluedTo(P \cup {x}, old.name) = GluedTo(P, old.name) \cup {x.page}
    BY <1>4, <1>5, <1>9, <2>1
  <2>13. HasItsText(new, P \cup {x})
    BY <2>2, <2>10, <2>11, <2>12 DEF HasItsText
  <2>14. \A j \in DOMAIN items : led.items[j] = IF j = n THEN new ELSE items[j]
    BY <2>7
  <2>15. ASSUME NEW j \in DOMAIN items, j # n PROVE HasItsText(items[j], P \cup {x})
    <3>1. items[j].name # items[n].name
      BY <1>3, <2>2, <2>15
    <3>2. GluedTo(P \cup {x}, items[j].name) = GluedTo(P, items[j].name)
      BY <1>4, <1>5, <1>9, <3>1
    <3> QED BY <1>3, <3>2, TextStays
  <2>16. Unplaced(P \cup {x}) = Unplaced(P)
    BY <1>4, <1>6, <1>9
  <2>17. DOMAIN led.items = DOMAIN items
    BY <2>7
  <2>18. led.items \in Seq(StitchedItem)
    BY <1>1, <2>7, <2>11, <2>2
  <2>19. led \in Accumulator
    BY <1>1, <2>6, <2>7, <2>18 DEF Accumulator
  <2>20. \A j \in DOMAIN items :
           /\ led.items[j].name = items[j].name
           /\ led.items[j].start = items[j].start
           /\ led.items[j].relabeled = FALSE
           /\ HasItsText(led.items[j], P \cup {x})
    BY <1>3, <2>1, <2>11, <2>13, <2>14, <2>15
  <2> QED BY <2>4, <2>7, <2>16, <2>17, <2>19, <2>20 DEF Led, Stitches
<1> QED BY <1>2, <1>7, <1>8, <1>9
-----------------------------------------------------------------------------
(* The items of the next page, and the loop.                               *)

(* No text runs on yet to an item of the page itself.                      *)
LEMMA NothingGlued ==
    ASSUME NEW P, NEW x, Later(P, x), NEW i
    PROVE  GluedTo(P \cup {x}, <<x.page, i>>) = {}
<1>1. \A y \in P : y.page \in Nat /\ y.page < x.page
  BY DEF Later, PageRead
<1>2. \A p : <<x.page, i>> \notin Owner(P, p)
  BY <1>1 DEF Owner, Holders
<1>3. GluedTo(P, <<x.page, i>>) = {}
  BY <1>2 DEF GluedTo
<1> QED BY <1>2, <1>3, GlueNext

OfPage(it, x, i) ==
    /\ it.name = <<x.page, i>> /\ it.glued = <<>>
    /\ it.start = x.page /\ it.end = x.page /\ it.relabeled = FALSE

(* The items of the page follow those so far.                              *)
LEMMA NewItems ==
    ASSUME NEW x, x.page \in Nat, x.items \in Nat
    PROVE  /\ StitchedItems(x) \in Seq(StitchedItem) /\ Len(StitchedItems(x)) = x.items
           /\ \A i \in 1..x.items : OfPage(StitchedItems(x)[i], x, i)
<1> DEFINE new == StitchedItems(x)
<1>1. ASSUME NEW i \in 1..x.items PROVE new[i] \in StitchedItem /\ OfPage(new[i], x, i)
  <2>1. PICK name : name = <<x.page, i>>
    OBVIOUS
  <2>2. name \in Nat \X Nat
    BY <2>1
  <2>3. PICK it : it = new[i]
    OBVIOUS
  <2>4. it = [name |-> name, glued |-> <<>>, start |-> x.page, end |-> x.page, relabeled |-> FALSE]
    BY <2>1, <2>3 DEF StitchedItems
  <2>5. <<>> \in Seq(Nat)
    BY EmptySeq
  <2>6. it \in StitchedItem
    BY <2>2, <2>4, <2>5 DEF StitchedItem
  <2> QED BY <2>1, <2>3, <2>4, <2>6 DEF OfPage
<1>2. DOMAIN new = 1..x.items /\ new = [i \in 1..x.items |-> new[i]]
  BY DEF StitchedItems
<1> HIDE DEF new
<1>3. new \in Seq(StitchedItem) /\ Len(new) = x.items
  <2>1. \A i \in 1..x.items : new[i] \in StitchedItem
    BY <1>1
  <2>2. new \in [1..x.items -> StitchedItem]
    BY <1>2, <2>1
  <2> QED BY <2>2
<1> QED BY <1>1, <1>3 DEF new

(* One turn of the loop.                                                   *)
LEMMA StitchesNext ==
    ASSUME NEW acc, NEW P, NEW x, Later(P, x), Stitches(acc, P)
    PROVE  Stitches(StitchPage(acc, x), P \cup {x})
<1>1. PICK led : led = Lead(acc, x)
  OBVIOUS
<1>2. Led(led, acc, P, x)
  BY <1>1, LeadNext
<1>b. PICK items : items = acc.items
  OBVIOUS
<1> DEFINE n == Len(items)
<1>a. PICK new : new = StitchedItems(x)
  OBVIOUS
<1>3. PICK more : more = led.items \o new
  OBVIOUS
<1>4. x.page \in Nat /\ x.items \in Nat /\ P \subseteq PageRead /\ \A y \in P : y.page < x.page
  BY DEF Later, PageRead
<1>5. /\ items \in Seq(StitchedItem) /\ n \in Nat /\ DOMAIN items = 1..n
      /\ \A j \in DOMAIN items :
            /\ items[j].name[1] \in Nat /\ items[j].name[2] \in Nat
            /\ items[j].start = items[j].name[1]
            /\ \E y \in P : \E i \in 1..y.items : items[j].name = <<y.page, i>>
      /\ \A y \in P : \A i \in 1..y.items : \E j \in DOMAIN items : items[j].name = <<y.page, i>>
  <2>1. items \in Seq(StitchedItem) /\ IsStitchOf(items, P)
    BY <1>b DEF Stitches, Accumulator
  <2>2. n \in Nat /\ DOMAIN items = 1..n
    BY <2>1
  <2>3. \A j \in DOMAIN items :
            /\ items[j].name[1] \in Nat /\ items[j].name[2] \in Nat
            /\ items[j].start = items[j].name[1]
            /\ \E y \in P : \E i \in 1..y.items : items[j].name = <<y.page, i>>
    <3> SUFFICES ASSUME NEW j \in DOMAIN items
                 PROVE  /\ items[j].name[1] \in Nat /\ items[j].name[2] \in Nat
                        /\ items[j].start = items[j].name[1]
                        /\ \E y \in P : \E i \in 1..y.items : items[j].name = <<y.page, i>>
      OBVIOUS
    <3>1. items[j].name[1] \in Nat /\ items[j].name[2] \in Nat
      BY <1>4, <2>1, NamedItems
    <3>2. items[j].start = items[j].name[1]
      BY <1>4, <2>1, NamedItems
    <3>3. \E y \in P : \E i \in 1..y.items : items[j].name = <<y.page, i>>
      BY <1>4, <2>1, NamedItems
    <3> QED BY <3>1, <3>2, <3>3
  <2>4. \A y \in P : \A i \in 1..y.items : \E j \in DOMAIN items : items[j].name = <<y.page, i>>
    BY <1>4, <2>1, NamedItems
  <2> QED BY <2>1, <2>2, <2>3, <2>4
<1>6. /\ led = [items |-> led.items, warnings |-> led.warnings]
      /\ led.items \in Seq(StitchedItem) /\ led.warnings \in Seq(Nat)
  BY <1>2 DEF Led, Accumulator
<1>7. StitchPage(acc, x) = [items |-> more, warnings |-> led.warnings]
  <2>1. StitchPage(acc, x) = [led EXCEPT !.items = more]
    BY <1>1, <1>a, <1>3 DEF StitchPage
  <2> QED BY <1>6, <2>1
<1>8. DOMAIN led.items = 1..n /\ Len(led.items) = n
  BY <1>2, <1>5, <1>6, <1>b DEF Led
<1>9. /\ new \in Seq(StitchedItem) /\ Len(new) = x.items
      /\ \A i \in 1..x.items : OfPage(new[i], x, i)
  BY <1>4, <1>a, NewItems
<1>10. /\ more \in Seq(StitchedItem) /\ DOMAIN more = 1..(n + x.items)
       /\ \A j \in 1..n : more[j] = led.items[j]
       /\ \A i \in 1..x.items : more[n + i] = new[i]
       /\ \A j \in DOMAIN more : j \in 1..n \/ \E i \in 1..x.items : j = n + i
  <2>1. more \in Seq(StitchedItem) /\ Len(more) = n + x.items
    <3>1. led.items \in Seq(StitchedItem) /\ new \in Seq(StitchedItem) /\ Len(new) = x.items
      BY <1>6, <1>9
    <3>2. more \in Seq(StitchedItem)
      BY <1>3, <3>1
    <3>3. Len(more) = Len(led.items) + Len(new)
      <4>1. PICK u : u = led.items
        OBVIOUS
      <4>2. u \in Seq(StitchedItem) /\ more = u \o new
        BY <1>3, <3>1, <4>1
      <4> QED BY <3>1, <4>1, <4>2, ConcatProperties
    <3> QED BY <1>8, <3>1, <3>2, <3>3
  <2>2. DOMAIN more = 1..(n + x.items)
    BY <2>1
  <2>3. \A j \in 1..n : more[j] = led.items[j]
    BY <1>3, <1>4, <1>5, <1>6, <1>8, <1>9
  <2>4. \A i \in 1..x.items : more[n + i] = new[i]
    BY <1>3, <1>4, <1>5, <1>6, <1>8, <1>9
  <2>5. ASSUME NEW j \in 1..(n + x.items), j \notin 1..n PROVE \E i \in 1..x.items : j = n + i
    <3>1. j - n \in 1..x.items /\ j = n + (j - n)
      BY <1>4, <1>5, <2>5
    <3> QED BY <3>1
  <2> QED BY <2>1, <2>2, <2>3, <2>4, <2>5
<1>11. \A j \in 1..n :
         /\ more[j].name = items[j].name /\ more[j].start = items[j].start
         /\ more[j].relabeled = FALSE /\ HasItsText(more[j], P \cup {x})
  <2> SUFFICES ASSUME NEW j \in 1..n
               PROVE  /\ more[j].name = items[j].name /\ more[j].start = items[j].start
                      /\ more[j].relabeled = FALSE /\ HasItsText(more[j], P \cup {x})
    OBVIOUS
  <2>1. more[j] = led.items[j] /\ j \in DOMAIN acc.items
    BY <1>5, <1>10, <1>b
  <2> QED BY <1>2, <1>b, <2>1 DEF Led
<1>12. \A i \in 1..x.items : HasItsText(more[n + i], P \cup {x}) /\ more[n + i].relabeled = FALSE
  <2> SUFFICES ASSUME NEW i \in 1..x.items
               PROVE  HasItsText(more[n + i], P \cup {x}) /\ more[n + i].relabeled = FALSE
    OBVIOUS
  <2>1. PICK it : it = more[n + i]
    OBVIOUS
  <2>2. /\ it.name = <<x.page, i>> /\ it.glued = <<>> /\ it.start = x.page /\ it.end = x.page
        /\ it.relabeled = FALSE
    BY <1>9, <1>10, <2>1 DEF OfPage
  <2>3. GluedTo(P \cup {x}, it.name) = {}
    BY <2>2, NothingGlued
  <2>4. ToSet(it.glued) = {} /\ Increasing(it.glued)
    BY <2>2 DEF ToSet, Increasing
  <2>5. it.name[1] = x.page
    BY <2>2
  <2> QED BY <2>1, <2>2, <2>3, <2>4, <2>5 DEF HasItsText
<1>13. {it.name : it \in ToSet(more)} = ItemNames(P \cup {x})
  <2>1. \A j \in DOMAIN more : more[j].name \in ItemNames(P \cup {x})
    <3> SUFFICES ASSUME NEW j \in DOMAIN more PROVE more[j].name \in ItemNames(P \cup {x})
      OBVIOUS
    <3>1. CASE j \in 1..n
      <4>1. PICK y \in P : \E i \in 1..y.items : items[j].name = <<y.page, i>>
        BY <1>5, <3>1
      <4>2. PICK i \in 1..y.items : more[j].name = <<y.page, i>>
        BY <1>11, <3>1, <4>1
      <4>3. <<y.page, i>> \in {<<y.page, h>> : h \in 1..y.items}
        OBVIOUS
      <4> QED BY <4>2, <4>3 DEF ItemNames
    <3>2. CASE \E i \in 1..x.items : j = n + i
      <4>1. PICK i \in 1..x.items : j = n + i
        BY <3>2
      <4>2. more[j].name = <<x.page, i>>
        BY <1>9, <1>10, <4>1 DEF OfPage
      <4> QED BY <4>1, <4>2 DEF ItemNames
    <3> QED BY <1>10, <3>1, <3>2
  <2>2. \A y \in P \cup {x} : \A i \in 1..y.items : \E j \in DOMAIN more : more[j].name = <<y.page, i>>
    <3> SUFFICES ASSUME NEW y \in P \cup {x}, NEW i \in 1..y.items
                 PROVE  \E j \in DOMAIN more : more[j].name = <<y.page, i>>
      OBVIOUS
    <3>1. CASE y \in P
      <4>1. PICK j \in DOMAIN items : items[j].name = <<y.page, i>>
        BY <1>5, <3>1
      <4>2. j \in 1..n /\ j \in DOMAIN more
        BY <1>4, <1>5, <1>10, <4>1
      <4> QED BY <1>11, <4>1, <4>2
    <3>2. CASE y = x
      <4>1. n + i \in DOMAIN more
        BY <1>4, <1>5, <1>10, <3>2
      <4>2. more[n + i].name = <<x.page, i>>
        BY <1>9, <1>10, <3>2 DEF OfPage
      <4> QED BY <3>2, <4>1, <4>2
    <3> QED BY <3>1, <3>2
  <2> QED BY <2>1, <2>2 DEF ToSet, ItemNames
<1>14. InPageOrder(more)
  <2> SUFFICES ASSUME NEW a \in DOMAIN more, NEW b \in DOMAIN more, a < b
               PROVE  \/ more[a].start < more[b].start
                      \/ more[a].start = more[b].start /\ more[a].name[2] < more[b].name[2]
    BY DEF InPageOrder
  <2>1. CASE b \in 1..n
    <3>1. a \in 1..n
      BY <1>5, <1>10, <2>1
    <3>2. InPageOrder(items)
      BY <1>b DEF Stitches, IsStitchOf
    <3>3. \/ items[a].start < items[b].start
          \/ items[a].start = items[b].start /\ items[a].name[2] < items[b].name[2]
      BY <1>5, <2>1, <3>1, <3>2 DEF InPageOrder
    <3> QED BY <1>11, <2>1, <3>1, <3>3
  <2>2. CASE a \in 1..n /\ b \notin 1..n
    <3>1. PICK i \in 1..x.items : b = n + i
      BY <1>10, <2>2
    <3>2. more[b].start = x.page
      BY <1>9, <1>10, <3>1 DEF OfPage
    <3>3. PICK y \in P : \E h \in 1..y.items : items[a].name = <<y.page, h>>
      BY <1>5, <2>2
    <3>4. more[a].start = y.page
      BY <1>5, <1>11, <2>2, <3>3
    <3> QED BY <1>4, <3>2, <3>4
  <2>3. CASE a \notin 1..n
    <3>1. PICK h \in 1..x.items : a = n + h
      BY <1>10, <2>3
    <3>2. b \notin 1..n
      BY <1>4, <1>5, <3>1
    <3>3. PICK i \in 1..x.items : b = n + i
      BY <1>10, <3>2
    <3>4. h < i
      BY <1>4, <1>5, <3>1, <3>3
    <3>5. /\ more[a].start = x.page /\ more[a].name = <<x.page, h>>
          /\ more[b].start = x.page /\ more[b].name = <<x.page, i>>
      BY <1>9, <1>10, <3>1, <3>3 DEF OfPage
    <3> QED BY <3>4, <3>5
  <2> QED BY <2>1, <2>2, <2>3
<1>15. \A it \in ToSet(more) : HasItsText(it, P \cup {x})
  BY <1>10, <1>11, <1>12 DEF ToSet
<1>16. \A j \in DOMAIN more : more[j].relabeled = FALSE
  BY <1>10, <1>11, <1>12
<1>17. PICK done : done = StitchPage(acc, x)
  OBVIOUS
<1>18. done.items = more /\ done.warnings = led.warnings /\ done \in Accumulator
  BY <1>6, <1>7, <1>10, <1>17 DEF Accumulator
<1>19. IsStitchOf(done.items, P \cup {x})
  BY <1>13, <1>14, <1>15, <1>18 DEF IsStitchOf
<1>20. Increasing(done.warnings) /\ ToSet(done.warnings) = Unplaced(P \cup {x})
  BY <1>2, <1>18 DEF Led
<1> QED BY <1>16, <1>17, <1>18, <1>19, <1>20 DEF Stitches

(* Before the first page there is nothing.                                 *)
LEMMA NothingStitched == Stitches(NoItems, {})
<1>1. NoItems.items = <<>> /\ NoItems.warnings = <<>> /\ NoItems \in Accumulator
  BY EmptySeq DEF NoItems, Accumulator
<1>2. ToSet(<<>>) = {}
  BY DEF ToSet
<1> QED
  BY <1>1, <1>2
  DEF Stitches, IsStitchOf, InPageOrder, ItemNames, Increasing, Unplaced

(* The loop, over extracts in page order.                                  *)
LEMMA StitchPagesStitches ==
    ASSUME NEW s \in Seq(PageRead), PagesRise(s)
    PROVE  Stitches(StitchPages(s), ToSet(s))
<1> SUFFICES ASSUME NEW n \in Nat, n = Len(s) PROVE Stitches(StitchPages(s), ToSet(s))
  OBVIOUS
<1> DEFINE First(r) == {s[j] : j \in 1..r}
           Unfolds(f) == f = [r \in 0..n |-> IF r = 0 THEN NoItems ELSE StitchPage(f[r - 1], s[r])]
<1>1. /\ DOMAIN s = 1..n /\ \A j \in 1..n : s[j] \in PageRead /\ s[j].page \in Nat
      /\ \A i, j \in 1..n : i < j => s[i].page < s[j].page
  <2>1. DOMAIN s = 1..n /\ \A j \in 1..n : s[j] \in PageRead
    OBVIOUS
  <2>2. \A x \in PageRead : x.page \in Nat
    BY DEF PageRead
  <2> QED BY <2>1, <2>2 DEF PagesRise
<1>2. \A r \in 1..n : Later(First(r - 1), s[r]) /\ First(r) = First(r - 1) \cup {s[r]}
  <2> SUFFICES ASSUME NEW r \in 1..n
               PROVE  Later(First(r - 1), s[r]) /\ First(r) = First(r - 1) \cup {s[r]}
    OBVIOUS
  <2>1. \A j : j \in 1..r <=> j \in 1..(r - 1) \/ j = r
    OBVIOUS
  <2>2. \A j \in 1..(r - 1) : j \in 1..n /\ s[j].page < s[r].page
    BY <1>1
  <2>3. \A i, j \in 1..(r - 1) : s[i].page = s[j].page => i = j
    <3> SUFFICES ASSUME NEW i \in 1..(r - 1), NEW j \in 1..(r - 1), s[i].page = s[j].page PROVE i = j
      OBVIOUS
    <3>1. i \in 1..n /\ j \in 1..n
      OBVIOUS
    <3>2. ~(i < j) /\ ~(j < i)
      BY <1>1, <3>1
    <3> QED BY <3>2
  <2> QED BY <1>1, <2>1, <2>2, <2>3 DEF Later
<1> DEFINE Sound(acc, r) == Stitches(acc, First(r))
           V == Accumulator
           step == [p \in V \X (1..n) |->
                      IF StitchPage(p[1], s[p[2]]) \in V THEN StitchPage(p[1], s[p[2]]) ELSE NoItems]
<1>3. StaysIn(V, n, NoItems, step)
  <2>1. NoItems \in V
    BY NothingStitched DEF Stitches
  <2>2. \A v \in V, i \in 1..n : step[<<v, i>>] \in V
    BY <2>1
  <2> QED BY <2>1, <2>2 DEF StaysIn
<1>4. PICK g : Course(g, V, n, NoItems, step)
  <2> HIDE DEF V, step
  <2> QED BY <1>3, Recursion
<1>5. \A r \in 0..n : Sound(g[r], r)
  <2> DEFINE T == {r \in 0..n : Sound(g[r], r)}
  <2>1. 0 \in T
    <3>1. First(0) = {} /\ g[0] = NoItems
      BY <1>4 DEF Course
    <3> QED BY <3>1, NothingStitched
  <2>2. ASSUME NEW r \in 1..n, r - 1 \in T PROVE r \in T
    <3>1. Stitches(g[r - 1], First(r - 1))
      BY <2>2
    <3>2. Stitches(StitchPage(g[r - 1], s[r]), First(r))
      <4> HIDE DEF First
      <4> QED BY <1>2, <3>1, StitchesNext
    <3>3. StitchPage(g[r - 1], s[r]) \in V /\ g[r - 1] \in V
      BY <3>1, <3>2 DEF Stitches
    <3>4. g[r] = step[<<g[r - 1], r>>]
      BY <1>4 DEF Course
    <3>5. g[r] = StitchPage(g[r - 1], s[r])
      BY <3>3, <3>4
    <3>6. Sound(g[r], r)
      BY <3>2, <3>5
    <3> HIDE DEF Sound
    <3> QED BY <3>6
  <2>3. 0..n \subseteq T
    <3> HIDE DEF T
    <3> QED BY <2>1, <2>2, BoundedInduction
  <2> QED BY <2>3
<1>6. Unfolds(g)
  <2>1. g = [r \in 0..n |-> g[r]] /\ g[0] = NoItems
    BY <1>4 DEF Course
  <2>2. ASSUME NEW r \in 1..n PROVE g[r] = StitchPage(g[r - 1], s[r])
    <3>1. r - 1 \in 0..n
      OBVIOUS
    <3>2. Stitches(g[r - 1], First(r - 1))
      BY <1>5, <3>1
    <3>3. Stitches(StitchPage(g[r - 1], s[r]), First(r))
      <4> HIDE DEF First
      <4> QED BY <1>2, <3>2, StitchesNext
    <3>4. StitchPage(g[r - 1], s[r]) \in V /\ g[r - 1] \in V
      BY <3>2, <3>3 DEF Stitches
    <3>5. g[r] = step[<<g[r - 1], r>>]
      BY <1>4 DEF Course
    <3> QED BY <3>4, <3>5
  <2>3. \A r \in 0..n : r # 0 => r \in 1..n
    OBVIOUS
  <2>4. \A r \in 0..n : g[r] = IF r = 0 THEN NoItems ELSE StitchPage(g[r - 1], s[r])
    BY <2>1, <2>2, <2>3
  <2> QED BY <2>1, <2>4
<1>7. StitchPages(s) = (CHOOSE f : Unfolds(f))[n]
  BY DEF StitchPages
<1>8. PICK f : f = CHOOSE h : Unfolds(h)
  OBVIOUS
<1>9. Unfolds(f)
  <2> HIDE DEF Unfolds
  <2> QED BY <1>6, <1>8
<1>10. \A r \in 0..n : Sound(f[r], r)
  <2> DEFINE T == {r \in 0..n : Sound(f[r], r)}
  <2>1. 0 \in T
    <3>1. First(0) = {} /\ f[0] = NoItems
      BY <1>9
    <3> QED BY <3>1, NothingStitched
  <2>2. ASSUME NEW r \in 1..n, r - 1 \in T PROVE r \in T
    <3>1. Stitches(f[r - 1], First(r - 1))
      BY <2>2
    <3>2. f[r] = StitchPage(f[r - 1], s[r])
      BY <1>9
    <3>3. Stitches(StitchPage(f[r - 1], s[r]), First(r))
      <4> HIDE DEF First
      <4> QED BY <1>2, <3>1, StitchesNext
    <3> QED BY <3>2, <3>3
  <2>3. 0..n \subseteq T
    <3> HIDE DEF T
    <3> QED BY <2>1, <2>2, BoundedInduction
  <2> QED BY <2>3
<1>11. ToSet(s) = First(n)
  BY <1>1 DEF ToSet
<1>12. Stitches(f[n], First(n))
  <2>1. n \in 0..n
    OBVIOUS
  <2>2. Sound(f[n], n)
    <3> HIDE DEF Sound
    <3> QED BY <1>10, <2>1
  <2> HIDE DEF First
  <2> QED BY <2>2
<1>13. StitchPages(s) = f[n]
  BY <1>7, <1>8
<1> HIDE DEF First
<1> QED BY <1>11, <1>12, <1>13

(* Whatever order the extracts are in.                                     *)
LEMMA StitchStitches ==
    ASSUME NEW s \in Seq(PageRead), OnePerPage(s)
    PROVE  Stitches(Stitch(s), ToSet(s))
  BY ByPageSorts, StitchPagesStitches DEF Stitch
-----------------------------------------------------------------------------
(* The run.                                                                *)

(* The extracts read so far: one of a page at most, of the pages taken on. *)
ReadInv ==
    /\ range[1] \in 1..PageCount /\ range[2] \in range[1]..PageCount
    /\ arrived \in Seq(PageRead) /\ OnePerPage(arrived)
    /\ \A x \in ToSet(arrived) : x.page \in Pages

(* What is in memory is the extracts stitched, but for the labels.         *)
StitchedInv ==
    Stitching =>
      /\ stitched \in Accumulator
      /\ IsStitchOf(stitched.items, ToSet(arrived))
      /\ Increasing(stitched.warnings)
      /\ ToSet(stitched.warnings) = Unplaced(ToSet(arrived))

(* The relabel loop has labeled every item before its cursor that needs it *)
(* unless it failed, and none after.                                       *)
LabelInv ==
    /\ relabelFailed \in BOOLEAN /\ cursor \in Nat \ {0}
    /\ phase = "extracting" => cursor = 1
    /\ Stitching =>
         /\ phase # "relabeling" => cursor > Len(stitched.items)
         /\ \A j \in DOMAIN stitched.items :
               IF j < cursor THEN relabelFailed \/ (stitched.items[j].relabeled <=> NeedsRelabel(stitched.items[j]))
                             ELSE stitched.items[j].relabeled = FALSE

(* How a run may end.                                                      *)
EndInv ==
    /\ Stitching => \A p \in Pages : p \in failed \/ \E x \in ToSet(arrived) : x.page = p
    /\ phase = "clean" => failed = {} /\ ~relabelFailed
    /\ phase = "failures" => failed # {} \/ relabelFailed
    /\ entry = "survey" => failed = {} /\ ~relabelFailed

FilesInv ==
    /\ phase \in {"tallying", "clean", "failures"} => artifact = {Whole(stitched.items)}
    /\ phase \in {"clean", "failures"} => tally = {stitched.items}

DiscoverInv == ReadInv /\ StitchedInv /\ LabelInv /\ EndInv /\ FilesInv

(* A run begins, or ends before its items are whole.                       *)
LEMMA ResetKeeps ==
    ASSUME Forget, ~Stitching', range'[1] \in 1..PageCount, range'[2] \in range'[1]..PageCount
    PROVE  DiscoverInv'
<1>1. /\ arrived' = <<>> /\ failed' = {} /\ cursor' = 1 /\ relabelFailed' = FALSE
      /\ phase' \notin {"relabeling", "tallying", "clean", "failures"}
  BY DEF Forget, Stitching
<1>2. <<>> \in Seq(PageRead) /\ OnePerPage(<<>>) /\ ToSet(<<>>) = {}
  BY EmptySeq DEF OnePerPage, ToSet
<1>3. ReadInv'
  BY <1>1, <1>2 DEF ReadInv
<1>4. StitchedInv' /\ EndInv' /\ FilesInv'
  BY <1>1 DEF StitchedInv, EndInv, FilesInv, Stitching
<1>5. LabelInv'
  <2>1. relabelFailed' \in BOOLEAN
    BY <1>1
  <2>2. cursor' \in Nat \ {0} /\ cursor' = 1
    BY <1>1
  <2>3. ~Stitching'
    OBVIOUS
  <2> QED BY <2>1, <2>2, <2>3 DEF LabelInv
<1> QED BY <1>3, <1>4, <1>5 DEF DiscoverInv

Reset ==
    \/ StartDiscover \/ StartSurvey \/ LoadSurvey \/ Fatal \/ Crash
    \/ entry # "discover" /\ \E p \in Pages : PageFails(p)
    \/ entry # "discover" /\ RelabelFails

(* A run that begins or ends early has nothing in memory.                  *)
LEMMA ResetStep == DiscoverInv /\ Reset => DiscoverInv'
<1> SUFFICES ASSUME DiscoverInv, Reset PROVE DiscoverInv'
  OBVIOUS
<1>1. Forget /\ phase' \in {"extracting", "loaded", "fatal", "crashed"}
  BY DEF Reset, StartDiscover, StartSurvey, LoadSurvey, Fatal, Crash, PageFails, RelabelFails
<1>2. ~Stitching'
  BY <1>1 DEF Stitching
<1>3. PageCount \in Nat \ {0}
  BY DiscoverAssumption
<1>4. range'[1] \in 1..PageCount /\ range'[2] \in range'[1]..PageCount
  <2>1. CASE StartDiscover
    BY <2>1, DiscoverAssumption DEF StartDiscover
  <2>2. CASE StartSurvey \/ LoadSurvey
    <3>1. range' = <<1, PageCount>>
      BY <2>2 DEF StartSurvey, LoadSurvey
    <3> QED BY <1>3, <3>1
  <2>3. CASE range' = range
    BY <2>3 DEF DiscoverInv, ReadInv
  <2> QED BY <2>1, <2>2, <2>3 DEF Reset, Fatal, Crash, PageFails, RelabelFails, flags
<1> QED BY <1>1, <1>2, <1>4, ResetKeeps

(* The steps, by what the invariant needs of them.                         *)
LEMMA StepCases ==
    [Next]_vars => \/ Reset \/ (\E p \in Pages : PageArrives(p))
                   \/ (entry = "discover" /\ \E p \in Pages : PageFails(p))
                   \/ EndExtract \/ SkipSinglePage \/ Relabel
                   \/ (entry = "discover" /\ RelabelFails)
                   \/ WriteItems \/ WriteTally \/ UNCHANGED vars
  BY DEF Next, Work, Alone, Reset

(* Reading, a page at a time.                                              *)
LEMMA ArrivalStep == ASSUME DiscoverInv, NEW p \in Pages, PageArrives(p) PROVE DiscoverInv'
<1>0. PageCount \in Nat \ {0} /\ Pages \subseteq 1..PageCount
  BY DiscoverAssumption DEF DiscoverInv, ReadInv, Pages
<1>1. PICK x \in Readings[p] : arrived' = Append(arrived, x)
  BY DEF PageArrives
<1>2. x \in PageRead /\ x.page = p
  <2>1. x \in [page : {p}, lead : BOOLEAN, items : Nat] /\ p \in Nat
    BY <1>0, DiscoverAssumption
  <2> QED BY <2>1 DEF PageRead
<1>3. /\ Unread(p) /\ phase = "extracting"
      /\ UNCHANGED <<durable, flags, phase, failed, stitched, cursor, relabelFailed>>
  BY DEF PageArrives
<1>4. arrived \in Seq(PageRead) /\ OnePerPage(arrived) /\ \A y \in ToSet(arrived) : y.page # p
  BY <1>3 DEF DiscoverInv, ReadInv, Unread
<1> DEFINE n == Len(arrived)
<1>5. /\ n \in Nat /\ DOMAIN arrived = 1..n /\ DOMAIN arrived' = 1..(n + 1)
      /\ arrived'[n + 1] = x /\ \A j \in 1..n : arrived'[j] = arrived[j]
      /\ arrived' \in Seq(PageRead)
  BY <1>1, <1>2, <1>4
<1>6. \A j \in 1..n : arrived[j].page # p /\ arrived[j].page \in Pages
  BY <1>4, <1>5 DEF ToSet, DiscoverInv, ReadInv
<1>7. OnePerPage(arrived')
  <2>1. \A i \in 1..(n + 1) : i \in 1..n \/ i = n + 1
    BY <1>5
  <2> QED BY <1>2, <1>4, <1>5, <1>6, <2>1 DEF OnePerPage
<1>8. \A y \in ToSet(arrived') : y.page \in Pages
  <2>1. \A i \in 1..(n + 1) : i \in 1..n \/ i = n + 1
    BY <1>5
  <2> QED BY <1>2, <1>5, <1>6, <2>1 DEF ToSet
<1>9. Pages' = Pages
  BY <1>3 DEF Pages, flags
<1>10. ReadInv'
  BY <1>3, <1>5, <1>7, <1>8, <1>9 DEF ReadInv, DiscoverInv, flags
<1>11. StitchedInv' /\ LabelInv' /\ EndInv' /\ FilesInv'
  BY <1>3 DEF StitchedInv, LabelInv, EndInv, FilesInv, Stitching, DiscoverInv, flags
<1> QED BY <1>10, <1>11 DEF DiscoverInv

(* discover notes a failed page and goes on.                               *)
LEMMA FailureStep ==
    ASSUME DiscoverInv, NEW p \in Pages, entry = "discover", PageFails(p) PROVE DiscoverInv'
<1>1. /\ phase = "extracting" /\ failed' = failed \cup {p}
      /\ UNCHANGED <<durable, flags, phase, arrived, stitched, cursor, relabelFailed>>
  BY DEF PageFails
<1>2. ReadInv'
  BY <1>1 DEF DiscoverInv, ReadInv, Pages, flags
<1>3. StitchedInv' /\ LabelInv' /\ EndInv' /\ FilesInv'
  BY <1>1 DEF StitchedInv, LabelInv, EndInv, FilesInv, Stitching, DiscoverInv, flags
<1> QED BY <1>2, <1>3 DEF DiscoverInv

(* Every page has been read or has failed, and the loop stitches what was  *)
(* read.                                                                   *)
LEMMA EndExtractStep == ASSUME DiscoverInv, EndExtract PROVE DiscoverInv'
<1>1. /\ phase = "extracting" /\ phase' = "relabeling" /\ stitched' = Stitch(arrived)
      /\ \A p \in Pages : ~Unread(p)
      /\ UNCHANGED <<durable, flags, arrived, failed, cursor, relabelFailed>>
  BY DEF EndExtract
<1>2. ReadInv'
  BY <1>1 DEF DiscoverInv, ReadInv, Pages, flags
<1>3. Stitches(Stitch(arrived), ToSet(arrived))
  BY StitchStitches DEF DiscoverInv, ReadInv
<1>4. StitchedInv'
  BY <1>1, <1>3 DEF StitchedInv, Stitches
<1>5. stitched'.items \in Seq(StitchedItem) /\ \A j \in DOMAIN stitched'.items : stitched'.items[j].relabeled = FALSE
  BY <1>1, <1>3 DEF Stitches, Accumulator
<1>6. LabelInv'
  <2>1. DOMAIN stitched'.items \subseteq Nat \ {0}
    BY <1>5
  <2>2. relabelFailed' \in BOOLEAN /\ cursor' = 1
    BY <1>1 DEF DiscoverInv, LabelInv
  <2>3. \A j \in DOMAIN stitched'.items : ~(j < cursor')
    BY <2>1, <2>2
  <2> QED BY <1>1, <1>5, <2>2, <2>3 DEF LabelInv
<1>7. EndInv'
  BY <1>1 DEF EndInv, DiscoverInv, Pages, Unread, flags
<1>8. FilesInv'
  BY <1>1 DEF FilesInv
<1> QED BY <1>2, <1>4, <1>6, <1>7, <1>8 DEF DiscoverInv

(* An item of one page keeps its labels.                                   *)
LEMMA SkipStep == ASSUME DiscoverInv, SkipSinglePage PROVE DiscoverInv'
<1>1. /\ phase = "relabeling" /\ cursor <= Len(stitched.items) /\ cursor' = cursor + 1
      /\ ~NeedsRelabel(stitched.items[cursor])
      /\ UNCHANGED <<durable, flags, phase, arrived, failed, stitched, relabelFailed>>
  BY DEF SkipSinglePage, AtItem
<1>2. ReadInv' /\ StitchedInv' /\ EndInv' /\ FilesInv'
  BY <1>1
  DEF DiscoverInv, ReadInv, StitchedInv, EndInv, FilesInv, Stitching, Pages, flags, durable
<1>3. LabelInv'
  <2>1. /\ Stitching /\ cursor \in Nat \ {0} /\ cursor' \in Nat \ {0} /\ relabelFailed \in BOOLEAN
        /\ stitched.items \in Seq(StitchedItem)
    BY <1>1 DEF DiscoverInv, LabelInv, StitchedInv, Stitching, Accumulator
  <2>2. DOMAIN stitched.items \subseteq Nat
    BY <2>1
  <2>3. \A j \in DOMAIN stitched.items :
           IF j < cursor THEN relabelFailed \/ (stitched.items[j].relabeled <=> NeedsRelabel(stitched.items[j]))
                         ELSE stitched.items[j].relabeled = FALSE
    BY <2>1 DEF DiscoverInv, LabelInv
  <2>4. ASSUME NEW j \in DOMAIN stitched.items
        PROVE  IF j < cursor + 1 THEN relabelFailed \/ (stitched.items[j].relabeled <=> NeedsRelabel(stitched.items[j]))
                                 ELSE stitched.items[j].relabeled = FALSE
    <3>1. CASE j = cursor
      BY <1>1, <2>1, <2>3, <3>1
    <3>2. CASE j # cursor
      <4>1. j < cursor + 1 <=> j < cursor
        BY <2>1, <2>2, <3>2
      <4> QED BY <2>3, <4>1
    <3> QED BY <3>1, <3>2
  <2> QED BY <1>1, <2>1, <2>4 DEF LabelInv
<1> QED BY <1>2, <1>3 DEF DiscoverInv

(* discover goes on without the labels of the whole text.                  *)
LEMMA UnlabeledStep == ASSUME DiscoverInv, entry = "discover", RelabelFails PROVE DiscoverInv'
<1>1. /\ phase = "relabeling" /\ cursor <= Len(stitched.items) /\ cursor' = cursor + 1
      /\ relabelFailed' = TRUE
      /\ UNCHANGED <<durable, flags, phase, arrived, failed, stitched>>
  BY DEF RelabelFails, AtItem
<1>2. ReadInv' /\ StitchedInv' /\ EndInv' /\ FilesInv'
  BY <1>1
  DEF DiscoverInv, ReadInv, StitchedInv, EndInv, FilesInv, Stitching, Pages, flags, durable
<1>3. LabelInv'
  <2>1. /\ Stitching /\ cursor \in Nat \ {0} /\ cursor' \in Nat \ {0}
        /\ stitched.items \in Seq(StitchedItem)
    BY <1>1 DEF DiscoverInv, LabelInv, StitchedInv, Stitching, Accumulator
  <2>2. DOMAIN stitched.items \subseteq Nat
    BY <2>1
  <2>3. \A j \in DOMAIN stitched.items : ~(j < cursor) => stitched.items[j].relabeled = FALSE
    BY <2>1 DEF DiscoverInv, LabelInv
  <2>4. \A j \in DOMAIN stitched.items : ~(j < cursor + 1) => stitched.items[j].relabeled = FALSE
    BY <2>1, <2>2, <2>3
  <2> QED BY <1>1, <2>1, <2>4 DEF LabelInv
<1> QED BY <1>2, <1>3 DEF DiscoverInv

(* A label changes no text.                                                *)
LEMMA LabelsLeaveText ==
    ASSUME NEW items \in Seq(StitchedItem), NEW P, IsStitchOf(items, P), NEW c \in DOMAIN items,
           NEW more, more = [items EXCEPT ![c].relabeled = TRUE]
    PROVE  more \in Seq(StitchedItem) /\ IsStitchOf(more, P)
<1>1. Len(items) \in Nat /\ DOMAIN items = 1..Len(items) /\ \A j \in DOMAIN items : items[j] \in StitchedItem
  OBVIOUS
<1>2. PICK it : it = items[c]
  OBVIOUS
<1>3. PICK new : new = [it EXCEPT !.relabeled = TRUE]
  OBVIOUS
<1>4. /\ new \in StitchedItem /\ new.name = it.name /\ new.start = it.start
      /\ new.glued = it.glued /\ new.end = it.end
  BY <1>1, <1>2, <1>3 DEF StitchedItem
<1>5. more = [items EXCEPT ![c] = new]
  BY <1>2, <1>3
<1>6. /\ more \in Seq(StitchedItem) /\ DOMAIN more = DOMAIN items
      /\ \A j \in DOMAIN items : more[j] = IF j = c THEN new ELSE items[j]
  <2>1. DOMAIN more = DOMAIN items
    BY <1>5
  <2>2. \A j \in DOMAIN items : more[j] = IF j = c THEN new ELSE items[j]
    BY <1>5
  <2>3. \A j \in DOMAIN items : more[j] \in StitchedItem
    BY <1>1, <1>4, <2>2
  <2>4. more \in Seq(StitchedItem)
    <3>1. PICK n \in Nat : DOMAIN items = 1..n
      BY <1>1
    <3>2. more = [j \in 1..n |-> more[j]]
      BY <1>5, <3>1
    <3>3. more \in [1..n -> StitchedItem]
      BY <2>3, <3>1, <3>2
    <3> QED BY <3>3
  <2> QED BY <2>1, <2>2, <2>4
<1>7. \A j \in DOMAIN items :
        /\ more[j].name = items[j].name /\ more[j].start = items[j].start
        /\ more[j].glued = items[j].glued /\ more[j].end = items[j].end
  BY <1>2, <1>4, <1>6
<1>8. {u.name : u \in ToSet(more)} = {u.name : u \in ToSet(items)}
  <2>1. ASSUME NEW u \in ToSet(more) PROVE u.name \in {v.name : v \in ToSet(items)}
    <3>1. PICK j \in DOMAIN items : u = more[j]
      BY <1>6 DEF ToSet
    <3>2. items[j] \in ToSet(items) /\ items[j].name = u.name
      BY <1>7, <3>1 DEF ToSet
    <3> QED BY <3>2
  <2>2. ASSUME NEW u \in ToSet(items) PROVE u.name \in {v.name : v \in ToSet(more)}
    <3>1. PICK j \in DOMAIN items : u = items[j]
      BY DEF ToSet
    <3>2. more[j] \in ToSet(more) /\ more[j].name = u.name
      BY <1>6, <1>7, <3>1 DEF ToSet
    <3> QED BY <3>2
  <2> QED BY <2>1, <2>2
<1>9. InPageOrder(more)
  BY <1>6, <1>7 DEF IsStitchOf, InPageOrder
<1>10. \A j \in DOMAIN items : HasItsText(more[j], P)
  <2>1. \A j \in DOMAIN items : HasItsText(items[j], P)
    BY DEF IsStitchOf, ToSet
  <2> QED BY <1>7, <2>1 DEF HasItsText
<1> QED BY <1>6, <1>8, <1>9, <1>10 DEF IsStitchOf, ToSet

(* An item of several pages is labeled from its whole text.                *)
LEMMA RelabelStep == ASSUME DiscoverInv, Relabel PROVE DiscoverInv'
<1>1. /\ phase = "relabeling" /\ cursor <= Len(stitched.items) /\ cursor' = cursor + 1
      /\ NeedsRelabel(stitched.items[cursor])
      /\ stitched' = [stitched EXCEPT !.items[cursor].relabeled = TRUE]
      /\ UNCHANGED <<durable, flags, phase, arrived, failed, relabelFailed>>
  BY DEF Relabel, AtItem
<1>2. PICK items : items = stitched.items
  OBVIOUS
<1>3. PICK more : more = [items EXCEPT ![cursor].relabeled = TRUE]
  OBVIOUS
<1>4. /\ Stitching /\ cursor \in Nat \ {0} /\ cursor' \in Nat \ {0} /\ relabelFailed \in BOOLEAN
      /\ items \in Seq(StitchedItem) /\ IsStitchOf(items, ToSet(arrived))
      /\ stitched = [items |-> items, warnings |-> stitched.warnings]
      /\ stitched.warnings \in Seq(Nat)
  BY <1>1, <1>2 DEF DiscoverInv, LabelInv, StitchedInv, Stitching, Accumulator
<1>5. cursor \in DOMAIN items /\ DOMAIN items \subseteq Nat
  BY <1>1, <1>2, <1>4
<1>6. stitched' = [items |-> more, warnings |-> stitched.warnings]
  <2>1. stitched' = [stitched EXCEPT !.items = more]
    BY <1>1, <1>2, <1>3
  <2> QED BY <1>4, <2>1
<1>7. stitched'.items = more /\ stitched'.warnings = stitched.warnings
  BY <1>6
<1>8. more \in Seq(StitchedItem) /\ IsStitchOf(more, ToSet(arrived))
  BY <1>3, <1>4, <1>5, LabelsLeaveText
<1>9. stitched' \in Accumulator
  BY <1>4, <1>6, <1>8 DEF Accumulator
<1>10. StitchedInv'
  BY <1>1, <1>4, <1>7, <1>8, <1>9 DEF DiscoverInv, StitchedInv, Stitching
<1>11. ReadInv' /\ EndInv'
  BY <1>1 DEF DiscoverInv, ReadInv, EndInv, Stitching, Pages, flags
<1>12. FilesInv'
  BY <1>1 DEF FilesInv
<1>13. LabelInv'
  <2>1. \A j \in DOMAIN items :
           IF j < cursor THEN relabelFailed \/ (items[j].relabeled <=> NeedsRelabel(items[j]))
                         ELSE items[j].relabeled = FALSE
    BY <1>2, <1>4 DEF DiscoverInv, LabelInv
  <2>2. DOMAIN more = DOMAIN items /\ \A j \in DOMAIN items : j # cursor => more[j] = items[j]
    BY <1>3
  <2>3. more[cursor].relabeled = TRUE /\ NeedsRelabel(more[cursor])
    <3>1. PICK it : it = items[cursor]
      OBVIOUS
    <3>2. more[cursor] = [it EXCEPT !.relabeled = TRUE] /\ it \in StitchedItem
      BY <1>3, <1>4, <1>5, <3>1
    <3>3. /\ more[cursor].relabeled = TRUE /\ more[cursor].end = it.end
          /\ more[cursor].start = it.start
      BY <3>2 DEF StitchedItem
    <3> QED BY <1>1, <1>2, <3>1, <3>3 DEF NeedsRelabel
  <2>4. ASSUME NEW j \in DOMAIN more
        PROVE  IF j < cursor + 1 THEN relabelFailed \/ (more[j].relabeled <=> NeedsRelabel(more[j]))
                                 ELSE more[j].relabeled = FALSE
    <3>1. CASE j = cursor
      BY <1>4, <2>3, <3>1
    <3>2. CASE j # cursor
      <4>1. j < cursor + 1 <=> j < cursor
        BY <1>4, <1>5, <2>2, <3>2
      <4> QED BY <2>1, <2>2, <3>2, <4>1
    <3> QED BY <3>1, <3>2
  <2> QED BY <1>1, <1>4, <1>7, <2>4 DEF LabelInv
<1> QED BY <1>10, <1>11, <1>12, <1>13 DEF DiscoverInv

(* items.json, then tally.md and the exit status.                          *)
LEMMA WriteStep == ASSUME DiscoverInv, WriteItems \/ WriteTally PROVE DiscoverInv'
<1>1. /\ phase \in {"relabeling", "tallying"} /\ phase' \in {"tallying", "failures", "clean"}
      /\ UNCHANGED <<flags, arrived, failed, stitched, cursor, relabelFailed>>
      /\ phase = "relabeling" => cursor > Len(stitched.items)
  BY DEF WriteItems, WriteTally
<1>2. ReadInv' /\ StitchedInv'
  BY <1>1 DEF DiscoverInv, ReadInv, StitchedInv, Stitching, Pages, flags
<1>3. LabelInv'
  BY <1>1 DEF DiscoverInv, LabelInv, Stitching
<1>4. EndInv'
  <2>1. CASE WriteItems
    BY <1>1, <2>1 DEF DiscoverInv, EndInv, Stitching, Pages, flags, WriteItems
  <2>2. CASE WriteTally
    BY <1>1, <2>2 DEF DiscoverInv, EndInv, LabelInv, Stitching, Pages, flags, WriteTally
  <2> QED BY <2>1, <2>2
<1>5. FilesInv'
  BY DEF DiscoverInv, FilesInv, WriteItems, WriteTally
<1> QED BY <1>2, <1>3, <1>4, <1>5 DEF DiscoverInv

(* What is in memory is the extracts read, stitched; the labels are those  *)
(* of the whole text up to the cursor; the files hold what is in memory    *)
(* once they are written (cmd/discover/main.go, survey.go).                *)
THEOREM DiscoverHolds == Spec => []DiscoverInv
<1>1. Init => DiscoverInv
  <2> SUFFICES ASSUME Init PROVE DiscoverInv
    OBVIOUS
  <2>1. <<>> \in Seq(PageRead) /\ OnePerPage(<<>>) /\ ToSet(<<>>) = {}
    BY EmptySeq DEF OnePerPage, ToSet
  <2>2. ReadInv
    BY <2>1, DiscoverAssumption DEF Init, ReadInv
  <2>3. StitchedInv /\ EndInv /\ FilesInv
    BY DEF Init, StitchedInv, EndInv, FilesInv, Stitching
  <2>4. LabelInv
    <3>1. relabelFailed \in BOOLEAN
      BY DEF Init
    <3>2. cursor \in Nat \ {0} /\ cursor = 1
      BY DEF Init
    <3>3. ~Stitching
      BY DEF Init, Stitching
    <3> QED BY <3>1, <3>2, <3>3 DEF LabelInv
  <2> QED BY <2>2, <2>3, <2>4 DEF DiscoverInv
<1>2. DiscoverInv /\ [Next]_vars => DiscoverInv'
  <2> SUFFICES ASSUME DiscoverInv, [Next]_vars PROVE DiscoverInv'
    OBVIOUS
  <2>1. CASE UNCHANGED vars
    BY <2>1
    DEF vars, durable, flags, DiscoverInv, ReadInv, StitchedInv, LabelInv, EndInv, FilesInv,
        Stitching, Pages
  <2> QED
    BY <2>1, StepCases, ResetStep, ArrivalStep, FailureStep, EndExtractStep, SkipStep, RelabelStep,
       UnlabeledStep, WriteStep
<1> QED BY <1>1, <1>2, PTL DEF Spec

(* After a run that was not cut short items.json and tally.md are about    *)
(* the same items, those in memory, failures or not.                       *)
THEOREM FilesAgree == Spec => []ArtifactsAgree
<1>1. DiscoverInv => ArtifactsAgree
  BY DEF DiscoverInv, FilesInv, ArtifactsAgree
<1> QED BY <1>1, DiscoverHolds, PTL

(* An exit status of 0 means that every page was read and every item that  *)
(* crosses a page was labeled from its whole text; EnsureSurvey never goes *)
(* on after a failure.                                                     *)
THEOREM CleanRunsAreComplete == Spec => []CleanMeansComplete
<1>1. DiscoverInv => CleanMeansComplete
  <2> SUFFICES ASSUME DiscoverInv PROVE CleanMeansComplete
    OBVIOUS
  <2>1. ASSUME phase = "clean"
        PROVE  /\ {x.page : x \in ToSet(arrived)} = Pages
               /\ \A it \in ToSet(stitched.items) : it.relabeled <=> NeedsRelabel(it)
    <3>1. Stitching /\ failed = {} /\ ~relabelFailed /\ cursor > Len(stitched.items)
      BY <2>1 DEF Stitching, DiscoverInv, EndInv, LabelInv
    <3>2. {x.page : x \in ToSet(arrived)} = Pages
      BY <3>1 DEF DiscoverInv, ReadInv, EndInv
    <3>3. stitched.items \in Seq(StitchedItem) /\ cursor \in Nat
      BY <3>1 DEF DiscoverInv, StitchedInv, LabelInv, Accumulator
    <3>4. \A j \in DOMAIN stitched.items : j < cursor
      BY <3>1, <3>3
    <3>5. \A j \in DOMAIN stitched.items :
             stitched.items[j].relabeled <=> NeedsRelabel(stitched.items[j])
      BY <3>1, <3>4 DEF DiscoverInv, LabelInv
    <3> QED BY <3>2, <3>5 DEF ToSet
  <2>2. entry = "survey" => phase # "failures"
    BY DEF DiscoverInv, EndInv
  <2> QED BY <2>1, <2>2 DEF CleanMeansComplete
<1> QED BY <1>1, DiscoverHolds, PTL

(* Whatever order the page calls returned in and whichever failed, the     *)
(* items are those of the extracted pages in page order, and each has the  *)
(* leading text of exactly the pages it runs on to.                        *)
THEOREM StitchesInPageOrder == Spec => []StitchedInOrder
<1>1. DiscoverInv => StitchedInOrder
  BY DEF DiscoverInv, StitchedInv, StitchedInOrder
<1> QED BY <1>1, DiscoverHolds, PTL
-----------------------------------------------------------------------------
(* Where the text went.                                                    *)

(* The extracts read are typed, one of a page.                             *)
LEMMA ReadFacts ==
    ASSUME DiscoverInv
    PROVE  /\ ToSet(arrived) \subseteq PageRead
           /\ \A y \in ToSet(arrived) : y.page \in Nat /\ y.items \in Nat /\ y.lead \in BOOLEAN
           /\ \A y, z \in ToSet(arrived) : y.page = z.page => y = z
<1>1. arrived \in Seq(PageRead) /\ OnePerPage(arrived)
  BY DEF DiscoverInv, ReadInv
<1>2. ToSet(arrived) \subseteq PageRead
  BY <1>1 DEF ToSet
<1>3. \A y \in PageRead : y.page \in Nat /\ y.items \in Nat /\ y.lead \in BOOLEAN
  BY DEF PageRead
<1>4. \A y, z \in ToSet(arrived) : y.page = z.page => y = z
  BY <1>1 DEF ToSet, OnePerPage
<1> QED BY <1>2, <1>3, <1>4

(* An item runs across a section start only when no item was found on the  *)
(* section's first page: the page failed, or was read as holding none.     *)
THEOREM CrossingSkipsAStart == Spec => []CrossingNeedsEmptyStart
<1>1. DiscoverInv => CrossingNeedsEmptyStart
  <2> SUFFICES ASSUME DiscoverInv, Stitching, NEW it \in ToSet(stitched.items), NEW s \in SectionStarts,
                      it.start < s, s <= it.end
               PROVE  s # it.end /\ \A x \in ToSet(arrived) : x.page = s => x.items = 0
    BY DEF CrossingNeedsEmptyStart
  <2> DEFINE P == ToSet(arrived)
  <2>1. stitched.items \in Seq(StitchedItem) /\ HasItsText(it, P)
    BY DEF DiscoverInv, StitchedInv, Accumulator, IsStitchOf
  <2>2. it \in StitchedItem
    BY <2>1 DEF ToSet
  <2>3. it.start \in Nat /\ it.end \in Nat /\ it.glued \in Seq(Nat) /\ it.start = it.name[1]
    BY <2>1, <2>2 DEF StitchedItem, HasItsText
  <2>4. it.glued # <<>>
    <3>1. it.glued = <<>> => it.end = it.start
      BY <2>1 DEF HasItsText
    <3>2. s \in Nat
      BY DiscoverAssumption
    <3> QED BY <2>3, <3>1, <3>2
  <2>5. it.end \in GluedTo(P, it.name)
    <3>1. it.end = it.glued[Len(it.glued)]
      BY <2>1, <2>4 DEF HasItsText, Last
    <3>2. Len(it.glued) \in DOMAIN it.glued
      BY <2>3, <2>4, EmptySeq
    <3>3. it.end \in ToSet(it.glued)
      BY <3>1, <3>2 DEF ToSet
    <3> QED BY <2>1, <3>3 DEF HasItsText
  <2>6. it.end \notin SectionStarts /\ it.name \in Owner(P, it.end)
    BY <2>5 DEF GluedTo
  <2>7. s # it.end
    BY <2>6
  <2>8. PICK h \in Holders(P, it.end) :
           it.name = <<h.page, h.items>> /\ \A z \in Holders(P, it.end) : z.page <= h.page
    BY <2>6 DEF Owner
  <2>9. ASSUME NEW x \in P, x.page = s, x.items # 0 PROVE FALSE
    <3>1. x.page \in Nat /\ x.items \in Nat
      BY ReadFacts
    <3>2. x \in Holders(P, it.end)
      BY <2>3, <2>7, <2>9, <3>1 DEF Holders
    <3>3. x.page <= h.page /\ h.page = it.start
      BY <2>3, <2>8, <3>2
    <3> QED BY <2>3, <2>9, <3>1, <3>3
  <2> QED BY <2>7, <2>9
<1> QED BY <1>1, DiscoverHolds, PTL

Single(A) == \E e : A = {e}
At(s, p) == {m \in DOMAIN s : s[m] = p}

(* An increasing sequence holds a value at one place at most.              *)
LEMMA OnePlace ==
    ASSUME NEW s \in Seq(Nat), Increasing(s), NEW p
    PROVE  /\ p \in ToSet(s) => Single(At(s, p))
           /\ p \notin ToSet(s) => At(s, p) = {}
<1>1. DOMAIN s = 1..Len(s) /\ Len(s) \in Nat /\ \A m \in DOMAIN s : s[m] \in Nat
  OBVIOUS
<1>2. \A a, b \in DOMAIN s : s[a] = s[b] => a = b
  <2> SUFFICES ASSUME NEW a \in DOMAIN s, NEW b \in DOMAIN s, s[a] = s[b], a # b PROVE FALSE
    OBVIOUS
  <2>1. a < b \/ b < a
    BY <1>1
  <2>2. s[a] < s[b] \/ s[b] < s[a]
    BY <2>1 DEF Increasing
  <2> QED BY <1>1, <2>2
<1>3. ASSUME p \in ToSet(s) PROVE Single(At(s, p))
  <2>1. PICK n \in DOMAIN s : s[n] = p
    BY <1>3 DEF ToSet
  <2>2. At(s, p) = {n}
    BY <1>2, <2>1 DEF At
  <2> QED BY <2>2 DEF Single
<1>4. ASSUME p \notin ToSet(s) PROVE At(s, p) = {}
  BY <1>4 DEF ToSet, At
<1> QED BY <1>3, <1>4

(* There is a last page before p that holds an item if there is one.       *)
LEMMA OwnerExists ==
    ASSUME NEW P, P \subseteq PageRead, NEW p \in Nat
    PROVE  /\ Holders(P, p) = {} => Owner(P, p) = {}
           /\ Holders(P, p) # {} =>
                \E h \in P : h.items \in 1..h.items /\ <<h.page, h.items>> \in Owner(P, p)
<1>1. \A y \in P : y.page \in Nat /\ y.items \in Nat
  BY DEF PageRead
<1>2. Holders(P, p) = {} => Owner(P, p) = {}
  BY DEF Owner
<1>3. ASSUME Holders(P, p) # {}
      PROVE  \E h \in P : h.items \in 1..h.items /\ <<h.page, h.items>> \in Owner(P, p)
  <2> DEFINE S == {p - y.page : y \in Holders(P, p)}
  <2>1. \A y \in Holders(P, p) : y \in P /\ y.page < p /\ y.items > 0
    BY DEF Holders
  <2>2. S \subseteq Nat /\ S # {}
    BY <1>1, <1>3, <2>1
  <2>3. PICK d \in S : \A e \in S : d <= e
    <3> HIDE DEF S
    <3> QED BY <2>2, LeastExists
  <2>4. PICK h \in Holders(P, p) : d = p - h.page
    OBVIOUS
  <2>5. \A z \in Holders(P, p) : z.page <= h.page
    <3> SUFFICES ASSUME NEW z \in Holders(P, p) PROVE z.page <= h.page
      OBVIOUS
    <3>1. p - h.page <= p - z.page
      BY <2>3, <2>4
    <3>2. h.page \in Nat /\ z.page \in Nat
      BY <1>1, <2>1
    <3> QED BY <3>1, <3>2
  <2>6. <<h.page, h.items>> \in Owner(P, p)
    BY <2>5 DEF Owner
  <2>7. h \in P /\ h.items \in 1..h.items
    BY <1>1, <2>1
  <2> QED BY <2>6, <2>7
<1> QED BY <1>2, <1>3

(* An item's text from the top of page p, by place.                        *)
Here(items, j, p) == {<<j, n>> : n \in {m \in DOMAIN items[j].glued : items[j].glued[m] = p}}

(* The text of one page is in an item once, if it belongs there.           *)
LEMMA HereIsOne ==
    ASSUME NEW it \in StitchedItem, NEW P, HasItsText(it, P), NEW p
    PROVE  /\ p \in GluedTo(P, it.name) => Single(At(it.glued, p))
           /\ p \notin GluedTo(P, it.name) => At(it.glued, p) = {}
<1>1. it.glued \in Seq(Nat) /\ Increasing(it.glued) /\ ToSet(it.glued) = GluedTo(P, it.name)
  BY DEF StitchedItem, HasItsText
<1>2. PICK s \in Seq(Nat) : s = it.glued
  BY <1>1
<1>3. /\ p \in ToSet(s) => Single(At(s, p))
      /\ p \notin ToSet(s) => At(s, p) = {}
  BY <1>1, <1>2, OnePlace
<1> QED BY <1>1, <1>2, <1>3

(* The text of one page, in the items and in the warnings.                 *)
LEMMA PiecesOf ==
    ASSUME DiscoverInv, Stitching, NEW x \in ToSet(arrived)
    PROVE  LET taken == x.lead /\ x.page \notin SectionStarts
                          /\ Holders(ToSet(arrived), x.page) # {}
           IN  /\ taken => Single(Pieces(stitched, x.page))
               /\ ~taken => Pieces(stitched, x.page) = {}
<1> DEFINE P == ToSet(arrived)
           taken == x.lead /\ x.page \notin SectionStarts /\ Holders(P, x.page) # {}
<1> SUFFICES /\ taken => Single(Pieces(stitched, x.page))
             /\ ~taken => Pieces(stitched, x.page) = {}
  OBVIOUS
<1> USE DEF Here
<1>1. P \subseteq PageRead /\ x.page \in Nat /\ \A y, z \in P : y.page = z.page => y = z
  BY ReadFacts
<1>2. PICK items : items = stitched.items
  OBVIOUS
<1>3. items \in Seq(StitchedItem) /\ IsStitchOf(items, P)
  BY <1>2 DEF DiscoverInv, StitchedInv, Accumulator
<1>4. Pieces(stitched, x.page) = UNION {Here(items, j, x.page) : j \in DOMAIN items}
  BY <1>2 DEF Pieces
<1>5. \A j \in DOMAIN items : items[j] \in StitchedItem /\ HasItsText(items[j], P)
  BY <1>1, <1>3, NamedItems
<1>6. \A name : x.page \in GluedTo(P, name) <=>
                  x.lead /\ x.page \notin SectionStarts /\ name \in Owner(P, x.page)
  <2> SUFFICES ASSUME NEW name
               PROVE  x.page \in GluedTo(P, name) <=>
                        x.lead /\ x.page \notin SectionStarts /\ name \in Owner(P, x.page)
    OBVIOUS
  <2>1. ASSUME x.page \in GluedTo(P, name)
        PROVE  x.lead /\ x.page \notin SectionStarts /\ name \in Owner(P, x.page)
    <3>1. PICK y \in P : y.lead /\ y.page \notin SectionStarts /\ name \in Owner(P, y.page) /\ y.page = x.page
      BY <2>1 DEF GluedTo
    <3>2. y = x
      BY <1>1, <3>1
    <3> QED BY <3>1, <3>2
  <2>2. x.lead /\ x.page \notin SectionStarts /\ name \in Owner(P, x.page) => x.page \in GluedTo(P, name)
    BY DEF GluedTo
  <2> QED BY <2>1, <2>2
<1>7. /\ Holders(P, x.page) = {} => Owner(P, x.page) = {}
      /\ Holders(P, x.page) # {} =>
           \E h \in P : h.items \in 1..h.items /\ <<h.page, h.items>> \in Owner(P, x.page)
  BY <1>1, OwnerExists
<1>8. ASSUME ~taken PROVE Pieces(stitched, x.page) = {}
  <2>1. \A name : x.page \notin GluedTo(P, name)
    BY <1>6, <1>7, <1>8
  <2>2. \A j \in DOMAIN items : Here(items, j, x.page) = {}
    <3> SUFFICES ASSUME NEW j \in DOMAIN items PROVE Here(items, j, x.page) = {}
      OBVIOUS
    <3>1. At(items[j].glued, x.page) = {}
      BY <1>5, <2>1, HereIsOne
    <3> QED BY <3>1 DEF At
  <2> HIDE DEF Here
  <2> QED BY <1>4, <2>2
<1>9. ASSUME taken PROVE Single(Pieces(stitched, x.page))
  <2>1. PICK h \in P : h.items \in 1..h.items /\ <<h.page, h.items>> \in Owner(P, x.page)
    BY <1>7, <1>9
  <2>2. PICK name : name = <<h.page, h.items>>
    OBVIOUS
  <2>3. \A other : other \in Owner(P, x.page) => other = name
    <3> SUFFICES ASSUME NEW y \in Holders(P, x.page), NEW z \in Holders(P, x.page),
                        \A v \in Holders(P, x.page) : v.page <= y.page,
                        \A v \in Holders(P, x.page) : v.page <= z.page
                 PROVE  <<y.page, y.items>> = <<z.page, z.items>>
      BY <2>1, <2>2 DEF Owner
    <3>1. y \in P /\ z \in P /\ y.page \in Nat /\ z.page \in Nat
      BY ReadFacts DEF Holders
    <3>2. y.page = z.page
      BY <3>1
    <3> QED BY <1>1, <3>1, <3>2
  <2>4. PICK j \in DOMAIN items : items[j].name = name
    <3>1. \A y \in P : \A i \in 1..y.items : \E j \in DOMAIN items : items[j].name = <<y.page, i>>
      BY <1>1, <1>3, NamedItems
    <3>2. \E j \in DOMAIN items : items[j].name = <<h.page, h.items>>
      BY <2>1, <3>1
    <3> QED BY <2>2, <3>2
  <2>5. \A i \in DOMAIN items : x.page \in GluedTo(P, items[i].name) <=> i = j
    <3>1. \A i \in DOMAIN items : items[i].name = name => i = j
      BY <1>1, <1>3, <2>4, NamedItems
    <3> QED BY <1>6, <1>9, <2>1, <2>2, <2>3, <2>4, <3>1
  <2>6. PICK n : {m \in DOMAIN items[j].glued : items[j].glued[m] = x.page} = {n}
    <3>1. x.page \in GluedTo(P, items[j].name)
      BY <2>4, <2>5
    <3>2. Single(At(items[j].glued, x.page))
      BY <1>5, <2>4, <3>1, HereIsOne
    <3> QED BY <3>2 DEF Single, At
  <2>7. Here(items, j, x.page) = {<<j, n>>}
    BY <2>6
  <2>8. \A i \in DOMAIN items : i # j => Here(items, i, x.page) = {}
    <3> SUFFICES ASSUME NEW i \in DOMAIN items, i # j PROVE Here(items, i, x.page) = {}
      OBVIOUS
    <3>1. At(items[i].glued, x.page) = {}
      BY <1>5, <2>5, HereIsOne
    <3> QED BY <3>1 DEF At
  <2> HIDE DEF Here
  <2>9. Pieces(stitched, x.page) = {<<j, n>>}
    BY <1>4, <2>4, <2>7, <2>8
  <2> QED BY <2>9 DEF Single
<1> QED BY <1>8, <1>9

(* The leading text of a page is in exactly one place, an item or a        *)
(* warning; a page without one left no trace.                              *)
THEOREM TextIsConserved == Spec => []TextConserved
<1>1. DiscoverInv => TextConserved
  <2> SUFFICES ASSUME DiscoverInv, Stitching, NEW x \in ToSet(arrived)
               PROVE  Places(stitched, x.page) = IF x.lead THEN 1 ELSE 0
    BY DEF TextConserved
  <2> DEFINE P == ToSet(arrived)
             orphan == x.lead /\ (x.page \in SectionStarts \/ Holders(P, x.page) = {})
             taken == x.lead /\ x.page \notin SectionStarts /\ Holders(P, x.page) # {}
  <2>1. x.lead \in BOOLEAN /\ \A y, z \in P : y.page = z.page => y = z
    BY ReadFacts
  <2>2. PICK w : w = stitched.warnings
    OBVIOUS
  <2>3. w \in Seq(Nat) /\ Increasing(w) /\ ToSet(w) = Unplaced(P)
    BY <2>2 DEF DiscoverInv, StitchedInv, Accumulator
  <2>4. x.page \in Unplaced(P) <=> orphan
    <3>1. ASSUME x.page \in Unplaced(P) PROVE orphan
      <4>1. PICK y \in P : /\ y.lead /\ (y.page \in SectionStarts \/ Holders(P, y.page) = {})
                           /\ y.page = x.page
        BY <3>1 DEF Unplaced
      <4>2. y = x
        BY <2>1, <4>1
      <4> QED BY <4>1, <4>2
    <3>2. orphan => x.page \in Unplaced(P)
      BY DEF Unplaced
    <3> QED BY <3>1, <3>2
  <2>5. Warned(stitched, x.page) = At(w, x.page)
    BY <2>2 DEF Warned, At
  <2>6. /\ orphan => Single(Warned(stitched, x.page))
        /\ ~orphan => Warned(stitched, x.page) = {}
    <3>1. /\ x.page \in ToSet(w) => Single(At(w, x.page))
          /\ x.page \notin ToSet(w) => At(w, x.page) = {}
      BY <2>3, OnePlace
    <3> HIDE DEF orphan
    <3> QED BY <2>3, <2>4, <2>5, <3>1
  <2>7. /\ taken => Single(Pieces(stitched, x.page))
        /\ ~taken => Pieces(stitched, x.page) = {}
    BY PiecesOf
  <2>8. \A A : Single(A) => Cardinality(A) = 1
    BY FS_Singleton DEF Single
  <2>9. Cardinality({}) = 0
    BY FS_EmptySet
  <2>10. /\ orphan => Cardinality(Warned(stitched, x.page)) = 1
         /\ ~orphan => Cardinality(Warned(stitched, x.page)) = 0
    BY <2>6, <2>8, <2>9
  <2>11. /\ taken => Cardinality(Pieces(stitched, x.page)) = 1
         /\ ~taken => Cardinality(Pieces(stitched, x.page)) = 0
    BY <2>7, <2>8, <2>9
  <2>12. CASE ~x.lead
    BY <2>10, <2>11, <2>12 DEF Places
  <2>13. CASE x.lead
    <3>1. (orphan /\ ~taken) \/ (~orphan /\ taken)
      BY <2>13
    <3> QED BY <2>10, <2>11, <2>13, <3>1 DEF Places
  <2> QED BY <2>1, <2>12, <2>13
<1> QED BY <1>1, DiscoverHolds, PTL
-----------------------------------------------------------------------------
(* The tally of any survey.                                                *)

(* Rows of a table: no value has two.                                      *)
AreRows(R) ==
    /\ IsFiniteSet(R)
    /\ \A r \in R : r.val \in Nat /\ r.count \in Nat
    /\ \A q, r \in R : q.val = r.val => q = r

(* The number of rows before a row is its place: on places it is one to    *)
(* one, so every place is taken, and any order that Before does not forbid *)
(* puts each row at its place.                                             *)
LEMMA OneOrder ==
    ASSUME NEW R, AreRows(R)
    PROVE  \E rows \in SetToSeqs(R) : Printed(R) = {rows}
<1> DEFINE n == Cardinality(R)
           before(r) == {q \in R : Before(q, r)}
           place == [r \in R |-> Cardinality(before(r)) + 1]
           sorted == [k \in 1..n |-> CHOOSE r \in R : place[r] = k]
<1>1. n \in Nat /\ IsFiniteSet(1..n) /\ Cardinality(1..n) = n
  <2>1. n \in Nat
    BY FS_CardinalityType DEF AreRows
  <2> HIDE DEF n
  <2>2. IsFiniteSet(1..n) /\ Cardinality(1..n) = IF 1 > n THEN 0 ELSE n - 1 + 1
    BY <2>1, FS_Interval
  <2> QED BY <2>1, <2>2
<1>2. \A q, r \in R : q # r => Before(q, r) \/ Before(r, q)
  BY DEF AreRows, Before
<1>3. \A r \in R : ~Before(r, r)
  BY DEF AreRows, Before
<1>4. \A p, q, r \in R : Before(p, q) /\ Before(q, r) => Before(p, r)
  BY DEF AreRows, Before
<1>5. ASSUME NEW r \in R
      PROVE  IsFiniteSet(before(r)) /\ Cardinality(before(r)) \in 0..(n - 1)
  <2>1. before(r) \in SUBSET R /\ before(r) # R
    BY <1>3
  <2>2. IsFiniteSet(before(r)) /\ Cardinality(before(r)) <= n /\ Cardinality(before(r)) # n
    <3> HIDE DEF before
    <3> QED BY <2>1, FS_Subset DEF AreRows
  <2>3. Cardinality(before(r)) \in Nat
    BY <2>2, FS_CardinalityType
  <2> HIDE DEF before, n
  <2> QED BY <1>1, <2>2, <2>3
<1>6. ASSUME NEW q \in R, NEW r \in R, Before(q, r) PROVE place[q] < place[r]
  <2>1. before(q) \in SUBSET before(r) /\ before(q) # before(r)
    BY <1>3, <1>4, <1>6
  <2>2. Cardinality(before(q)) <= Cardinality(before(r)) /\ Cardinality(before(q)) # Cardinality(before(r))
    <3> HIDE DEF before
    <3> QED BY <1>5, <2>1, FS_Subset
  <2>3. Cardinality(before(q)) \in Int /\ Cardinality(before(r)) \in Int
    <3>1. \A x \in 0..(n - 1) : x \in Int
      OBVIOUS
    <3> HIDE DEF before, n
    <3> QED BY <1>5, <3>1
  <2>4. place[q] = Cardinality(before(q)) + 1 /\ place[r] = Cardinality(before(r)) + 1
    OBVIOUS
  <2> HIDE DEF before, place
  <2> QED BY <2>2, <2>3, <2>4
<1>7. place \in Injection(R, 1..n)
  <2>1. \A r \in R : place[r] \in 1..n
    <3> SUFFICES ASSUME NEW r \in R PROVE Cardinality(before(r)) + 1 \in 1..n
      OBVIOUS
    <3> HIDE DEF before, n
    <3> QED BY <1>1, <1>5
  <2>2. \A q, r \in R : place[q] = place[r] => q = r
    <3> SUFFICES ASSUME NEW q \in R, NEW r \in R, q # r PROVE place[q] # place[r]
      OBVIOUS
    <3>1. place[q] < place[r] \/ place[r] < place[q]
      BY <1>2, <1>6
    <3>2. place[q] \in Int /\ place[r] \in Int
      BY <1>1, <2>1
    <3> HIDE DEF place
    <3> QED BY <3>1, <3>2
  <2> QED BY <2>1, <2>2 DEF Injection, IsInjective
<1>8. place \in Surjection(R, 1..n)
  <2> HIDE DEF place, n
  <2> QED BY <1>1, <1>7, FS_Injection DEF n
<1>9. \A q, r \in R : place[q] = place[r] => q = r
  <2> HIDE DEF place
  <2>1. DOMAIN place = R
    BY <1>7 DEF Injection
  <2> QED BY <1>7, <2>1 DEF Injection, IsInjective
<1>10. ASSUME NEW k \in 1..n PROVE sorted[k] \in R /\ place[sorted[k]] = k
  <2>1. \E r \in R : place[r] = k
    BY <1>8 DEF Surjection
  <2> HIDE DEF place
  <2> QED BY <2>1
<1> HIDE DEF place, sorted
<1>11. sorted \in [1..n -> R]
  BY <1>10 DEF sorted
<1>12. sorted \in SetToSeqs(R)
  BY <1>10, <1>11 DEF SetToSeqs
<1>13. sorted \in Printed(R)
  <2> SUFFICES ASSUME NEW m \in 1..n, NEW k \in 1..n, m < k PROVE ~Before(sorted[k], sorted[m])
    BY <1>11, <1>12 DEF Printed
  <2> HIDE DEF n
  <2> QED BY <1>1, <1>6, <1>10
<1>14. ASSUME NEW t \in Printed(R) PROVE t = sorted
  <2>1. /\ t \in [1..n -> R]
        /\ \A i, j \in 1..n : i # j => t[i] # t[j]
        /\ \A m, k \in 1..n : m < k => ~Before(t[k], t[m])
    BY DEF Printed, SetToSeqs
  <2>2. t \in Injection(1..n, R)
    BY <2>1 DEF Injection, IsInjective
  <2>3. t \in Surjection(1..n, R)
    <3>1. Cardinality(1..n) = Cardinality(R)
      BY <1>1
    <3> HIDE DEF n
    <3> QED BY <2>2, <3>1, FS_Injection DEF AreRows
  <2>4. \A r \in R : \E m \in 1..n : t[m] = r
    BY <2>3 DEF Surjection
  <2>5. ASSUME NEW k \in 1..n PROVE place[t[k]] = k
    <3> DEFINE head == [m \in 1..(k - 1) |-> t[m]]
    <3>1. 1..(k - 1) \subseteq 1..n /\ k \in Int /\ \A m \in 1..n : m < k => m \in 1..(k - 1)
      <4> HIDE DEF n
      <4> QED BY <1>1
    <3>2. ASSUME NEW m \in 1..(k - 1) PROVE t[m] \in before(t[k])
      <4>1. m \in 1..n /\ m < k /\ m # k
        <5> HIDE DEF n
        <5> QED BY <1>1, <3>1
      <4>2. t[m] \in R /\ t[k] \in R /\ t[m] # t[k] /\ ~Before(t[k], t[m])
        <5> HIDE DEF n
        <5> QED BY <2>1, <4>1
      <4> QED BY <1>2, <4>2
    <3>3. ASSUME NEW q \in before(t[k]) PROVE \E m \in 1..(k - 1) : t[m] = q
      <4>1. q \in R /\ Before(q, t[k]) /\ t[k] \in R
        BY <2>1
      <4>2. PICK m \in 1..n : t[m] = q
        BY <2>4, <4>1
      <4>3. m # k
        BY <1>3, <4>1, <4>2
      <4>4. ~(k < m)
        BY <2>1, <4>1, <4>2
      <4>5. m < k
        <5> HIDE DEF n
        <5> QED BY <1>1, <4>3, <4>4
      <4> QED BY <3>1, <4>2, <4>5
    <3>4. head \in Bijection(1..(k - 1), before(t[k]))
      <4>1. \A m \in 1..(k - 1) : head[m] = t[m]
        OBVIOUS
      <4>2. head \in [1..(k - 1) -> before(t[k])]
        BY <3>2
      <4> HIDE DEF head, n, before
      <4>3. \A i, j \in 1..(k - 1) : head[i] = head[j] => i = j
        BY <2>1, <3>1, <4>1
      <4>4. \A q \in before(t[k]) : \E m \in 1..(k - 1) : head[m] = q
        BY <3>3, <4>1
      <4> QED BY <4>2, <4>3, <4>4 DEF Bijection, Injection, Surjection, IsInjective
    <3>5. Cardinality(before(t[k])) = Cardinality(1..(k - 1))
      <4>1. IsFiniteSet(1..(k - 1))
        BY <3>1, FS_Interval
      <4> HIDE DEF head, before
      <4> QED BY <3>4, <4>1, FS_Bijection DEF ExistsBijection
    <3>6. Cardinality(1..(k - 1)) = k - 1
      <4>1. 1 \in Int /\ k - 1 \in Int /\ k >= 1
        <5> HIDE DEF n
        <5> QED BY <1>1, <3>1
      <4>2. Cardinality(1..(k - 1)) = IF 1 > k - 1 THEN 0 ELSE (k - 1) - 1 + 1
        BY <4>1, FS_Interval
      <4> QED BY <4>1, <4>2
    <3>7. place[t[k]] = Cardinality(before(t[k])) + 1
      BY <2>1 DEF place
    <3> HIDE DEF before, n
    <3> QED BY <3>1, <3>5, <3>6, <3>7
  <2>6. \A k \in 1..n : t[k] = sorted[k]
    <3> HIDE DEF n, before
    <3> QED BY <1>9, <1>10, <2>1, <2>5
  <2> DEFINE N == 1..n
  <2>7. t \in [N -> R] /\ sorted \in [N -> R] /\ \A k \in N : t[k] = sorted[k]
    BY <1>11, <2>1, <2>6
  <2> HIDE DEF N
  <2> QED BY <2>7
<1> QED BY <1>12, <1>13, <1>14

(* Of a sequence of words there is one table, and it counts each.          *)
LEMMA TableCounts ==
    ASSUME NEW words \in Seq(Nat)
    PROVE  \E rows : /\ Printed(Rows(words)) = {rows}
                     /\ \A w \in Nat : CountOf(rows, w) = Times(words, w)
<1> DEFINE R == Rows(words)
           D == DOMAIN words
           at(w) == {n \in D : words[n] = w}
           row == [n \in D |-> [val |-> words[n], count |-> Times(words, words[n])]]
<1>1. IsFiniteSet(D)
  <2>1. D = 1..Len(words) /\ Len(words) \in Nat
    OBVIOUS
  <2> QED BY <2>1, FS_Interval
<1>2. ASSUME NEW w PROVE IsFiniteSet(at(w)) /\ Times(words, w) \in Nat
  <2>1. at(w) \in SUBSET D
    OBVIOUS
  <2>2. IsFiniteSet(at(w))
    <3> HIDE DEF at, D
    <3> QED BY <1>1, <2>1, FS_Subset
  <2>3. Times(words, w) = Cardinality(at(w))
    BY DEF Times
  <2> HIDE DEF at
  <2> QED BY <2>2, <2>3, FS_CardinalityType
<1>3. \A r \in R : \E n \in D : r = [val |-> words[n], count |-> Times(words, words[n])]
  BY DEF Rows, ToSet
<1>4. \A n \in D : [val |-> words[n], count |-> Times(words, words[n])] \in R
  BY DEF Rows, ToSet
<1>5. \A n \in D : words[n] \in Nat
  OBVIOUS
<1>6. AreRows(R)
  <2>1. row \in Surjection(D, R)
    BY <1>3, <1>4 DEF Surjection
  <2>2. IsFiniteSet(R)
    <3> HIDE DEF R, D, row
    <3> QED BY <1>1, <2>1, FS_Surjection
  <2>3. \A r \in R : r.val \in Nat /\ r.count = Times(words, r.val)
    <3> HIDE DEF R, D
    <3> QED BY <1>3, <1>5
  <2>4. \A r \in R : r = [val |-> r.val, count |-> r.count]
    <3> HIDE DEF R, D
    <3> QED BY <1>3
  <2>5. \A q, r \in R : q.val = r.val => q = r
    <3> HIDE DEF R, D
    <3> QED BY <2>3, <2>4
  <2>6. \A r \in R : r.count \in Nat
    <3> HIDE DEF R, D
    <3> QED BY <1>2, <2>3
  <2> HIDE DEF R
  <2> QED BY <2>2, <2>3, <2>5, <2>6 DEF AreRows
<1>7. PICK rows \in SetToSeqs(R) : Printed(R) = {rows}
  <2> HIDE DEF R
  <2> QED BY <1>6, OneOrder
<1> DEFINE n == Cardinality(R)
<1>8. rows \in [1..n -> R] /\ DOMAIN rows = 1..n /\ rows \in Injection(1..n, R)
  BY <1>7 DEF SetToSeqs, Injection, IsInjective
<1>9. \A r \in R : \E k \in 1..n : rows[k] = r
  <2>1. IsFiniteSet(R) /\ n \in Nat
    BY <1>6, FS_CardinalityType DEF AreRows
  <2>2. Cardinality(1..n) = n
    <3> HIDE DEF n
    <3>1. Cardinality(1..n) = IF 1 > n THEN 0 ELSE n - 1 + 1
      BY <2>1, FS_Interval
    <3> QED BY <2>1, <3>1
  <2>3. rows \in Surjection(1..n, R)
    <3>1. Cardinality(1..n) = Cardinality(R)
      BY <2>2
    <3> HIDE DEF n, R
    <3> QED BY <1>8, <2>1, <3>1, FS_Injection
  <2> QED BY <2>3 DEF Surjection
<1>10. ASSUME NEW w \in Nat PROVE CountOf(rows, w) = Times(words, w)
  <2> DEFINE here == {k \in DOMAIN rows : rows[k].val = w}
             k == CHOOSE m \in here : TRUE
  <2>1. CASE here = {}
    <3>1. at(w) = {}
      <4> SUFFICES ASSUME NEW m \in at(w) PROVE FALSE
        OBVIOUS
      <4>1. [val |-> words[m], count |-> Times(words, words[m])] \in R /\ words[m] = w
        BY <1>4
      <4>2. PICK j \in 1..n : rows[j] = [val |-> words[m], count |-> Times(words, words[m])]
        BY <1>9, <4>1
      <4>3. j \in here
        BY <1>8, <4>1, <4>2
      <4> QED BY <2>1, <4>3
    <3>2. Times(words, w) = 0
      BY <3>1, FS_EmptySet DEF Times
    <3>3. CountOf(rows, w) = 0
      BY <2>1 DEF CountOf
    <3> QED BY <3>2, <3>3
  <2>2. CASE here # {}
    <3>1. k \in here
      BY <2>2
    <3> HIDE DEF k
    <3>2. rows[k] \in R /\ rows[k].val = w
      BY <1>8, <3>1
    <3>3. rows[k].count = Times(words, w)
      <4> HIDE DEF R
      <4> QED BY <1>3, <3>2
    <3>4. CountOf(rows, w) = rows[k].count
      BY <2>2 DEF CountOf, k
    <3> QED BY <3>3, <3>4
  <2> QED BY <2>1, <2>2
<1> QED BY <1>7, <1>10

(* The words an item of a list field is counted for.                       *)
Spoken(lists) ==
    [i \in DOMAIN lists |->
        IF lists[i] = <<>> THEN <<Empty>>
        ELSE [n \in DOMAIN lists[i] |-> TrimSpace(lists[i][n])]]

(* Where a word is among them.                                             *)
Said(lists, w) ==
    {s \in Spots(Spoken(lists), Len(lists)) : Spoken(lists)[s[1]][s[2]] = w}

LEMMA StringWords == \A v \in Strings : TrimSpace(v) \in Nat
  BY DEF Strings, TrimSpace

LEMMA SpokenOnes ==
    ASSUME NEW lists \in Seq(Seq(Strings)), NEW i \in DOMAIN lists
    PROVE  /\ lists[i] = <<>> => Spoken(lists)[i] = <<Empty>> /\ DOMAIN Spoken(lists)[i] = {1}
           /\ lists[i] # <<>> =>
                 /\ DOMAIN Spoken(lists)[i] = 1..Len(lists[i])
                 /\ \A n \in 1..Len(lists[i]) : Spoken(lists)[i][n] = TrimSpace(lists[i][n])
           /\ Spoken(lists)[i] \in Seq(Nat)
           /\ ToSet(Spoken(lists)[i]) = Words(lists[i])
<1>1. lists[i] \in Seq(Strings) /\ DOMAIN lists[i] = 1..Len(lists[i]) /\ Len(lists[i]) \in Nat
  OBVIOUS
<1>2. Spoken(lists)[i] = IF lists[i] = <<>> THEN <<Empty>>
                         ELSE [n \in DOMAIN lists[i] |-> TrimSpace(lists[i][n])]
  BY DEF Spoken
<1>3. CASE lists[i] = <<>>
  <2>1. Spoken(lists)[i] = <<Empty>> /\ DOMAIN <<Empty>> = {1} /\ <<Empty>>[1] = Empty
    BY <1>2, <1>3
  <2>2. <<Empty>> \in Seq(Nat)
    BY DEF Empty
  <2> QED BY <1>3, <2>1, <2>2 DEF ToSet, Words
<1>4. CASE lists[i] # <<>>
  <2> DEFINE k == Len(lists[i])
             spoken == [n \in 1..k |-> TrimSpace(lists[i][n])]
  <2>1. Spoken(lists)[i] = spoken
    BY <1>1, <1>2, <1>4
  <2>2. \A n \in 1..k : TrimSpace(lists[i][n]) \in Nat
    BY <1>1, StringWords
  <2>3. spoken \in Seq(Nat)
    BY <1>1, <2>2
  <2>4. ToSet(spoken) = {TrimSpace(lists[i][n]) : n \in 1..k}
    BY DEF ToSet
  <2>5. Words(lists[i]) = {TrimSpace(lists[i][n]) : n \in 1..k}
    BY <1>1, <1>4 DEF Words, ToSet
  <2> QED BY <1>4, <2>1, <2>3, <2>4, <2>5
<1> QED BY <1>3, <1>4

LEMMA SpokenTypes ==
    ASSUME NEW lists \in Seq(Seq(Strings))
    PROVE  /\ Spoken(lists) \in Seq(Seq(Nat)) /\ Len(Spoken(lists)) = Len(lists)
           /\ ListWords(lists) = FlattenSeq(Spoken(lists))
<1>1. DOMAIN lists = 1..Len(lists) /\ Len(lists) \in Nat
  OBVIOUS
<1>2. \A i \in 1..Len(lists) : Spoken(lists)[i] \in Seq(Nat)
  BY <1>1, SpokenOnes
<1>3. Spoken(lists) = [i \in 1..Len(lists) |-> Spoken(lists)[i]]
  BY <1>1 DEF Spoken
<1>4. ListWords(lists) = FlattenSeq(Spoken(lists))
  BY DEF ListWords, Spoken
<1> DEFINE k == Len(lists)
           f == Spoken(lists)
<1>5. k \in Nat /\ f = [i \in 1..k |-> f[i]] /\ \A i \in 1..k : f[i] \in Seq(Nat)
  BY <1>1, <1>2, <1>3
<1> HIDE DEF k, f
<1>6. f \in [1..k -> Seq(Nat)]
  BY <1>5
<1>7. f \in Seq(Seq(Nat)) /\ Len(f) = k
  BY <1>5, <1>6
<1> QED BY <1>4, <1>7 DEF k, f

(* A list field counts a word as often as it is said.                      *)
LEMMA TimesSaid ==
    ASSUME NEW lists \in Seq(Seq(Strings)), NEW w
    PROVE  /\ ListWords(lists) \in Seq(Nat)
           /\ IsFiniteSet(Said(lists, w))
           /\ Times(ListWords(lists), w) = Cardinality(Said(lists, w))
<1> DEFINE ss == Spoken(lists)
           flat == FlattenSeq(ss)
           k == Len(flat)
           P == {p \in 1..k : flat[p] = w}
<1>1. ss \in Seq(Seq(Nat)) /\ Len(ss) = Len(lists) /\ ListWords(lists) = flat
  BY SpokenTypes
<1>2. flat \in Seq(Nat)
  <2> HIDE DEF ss
  <2> QED BY <1>1, FlattenProperties
<1>3. PICK at : SpotBySpot(at, flat, ss, Len(lists))
  <2>1. \E at : SpotBySpot(at, FlattenSeq(ss), ss, Len(ss))
    <3> HIDE DEF ss
    <3> QED BY <1>1, FlattenLists
  <2> QED BY <1>1, <2>1
<1> DEFINE all == Spots(ss, Len(lists))
           said == {s \in all : ss[s[1]][s[2]] = w}
           found == [p \in P |-> at[p]]
<1>4. Said(lists, w) = said
  BY DEF Said
<1>5. DOMAIN flat = 1..k /\ k \in Nat
  <2> HIDE DEF flat
  <2> QED BY <1>2
<1>6. /\ at \in [1..k -> all]
      /\ \A p, q \in 1..k : at[p] = at[q] => p = q
      /\ \A s \in all : \E p \in 1..k : at[p] = s
      /\ \A p \in 1..k : flat[p] = ss[at[p][1]][at[p][2]]
  <2> HIDE DEF ss, flat
  <2> QED BY <1>3 DEF SpotBySpot, Bijection, Injection, Surjection, IsInjective
<1> HIDE DEF all, ss, flat, k
<1>7. found \in Bijection(P, said)
  <2>1. found \in [P -> said]
    BY <1>6
  <2>2. \A p, q \in P : found[p] = found[q] => p = q
    BY <1>6
  <2>3. \A s \in said : \E p \in P : found[p] = s
    BY <1>6
  <2> HIDE DEF P, said, found
  <2> QED BY <2>1, <2>2, <2>3 DEF Bijection, Injection, Surjection, IsInjective
<1>8. IsFiniteSet(P)
  <2>1. IsFiniteSet(1..k) /\ P \in SUBSET (1..k)
    BY <1>5, FS_Interval
  <2> HIDE DEF P
  <2> QED BY <2>1, FS_Subset
<1>9. IsFiniteSet(said) /\ Cardinality(said) = Cardinality(P)
  <2> HIDE DEF P, said, found
  <2> QED BY <1>7, <1>8, FS_Bijection DEF ExistsBijection
<1>10. Times(ListWords(lists), w) = Cardinality(P)
  BY <1>1, <1>5 DEF Times
<1> QED BY <1>1, <1>2, <1>4, <1>9, <1>10

(* A list that says a word twice is longer than its set of words.          *)
LEMMA SaidTwice ==
    ASSUME NEW lists \in Seq(Seq(Strings)), NEW i \in DOMAIN lists,
           NEW m \in DOMAIN Spoken(lists)[i], NEW n \in DOMAIN Spoken(lists)[i], m # n,
           Spoken(lists)[i][m] = Spoken(lists)[i][n]
    PROVE  Repeats(lists[i])
<1> DEFINE list == lists[i]
           k == Len(list)
           words == Words(list)
           word == [x \in 1..k |-> TrimSpace(list[x])]
<1>1. list # <<>>
  BY SpokenOnes
<1>2. list \in Seq(Strings) /\ k \in Nat /\ DOMAIN list = 1..k
  OBVIOUS
<1>3. m \in 1..k /\ n \in 1..k /\ word[m] = word[n]
  BY <1>1, SpokenOnes
<1>4. words = {TrimSpace(list[x]) : x \in 1..k}
  BY <1>1, <1>2 DEF Words, ToSet
<1>5. word \in Surjection(1..k, words)
  BY <1>4 DEF Surjection
<1>6. word \notin Injection(1..k, words)
  BY <1>3 DEF Injection, IsInjective
<1>7. IsFiniteSet(1..k) /\ Cardinality(1..k) = k
  <2>0. k \in Nat
    BY <1>2
  <2> HIDE DEF k
  <2>1. Cardinality(1..k) = IF 1 > k THEN 0 ELSE k - 1 + 1
    BY <2>0, FS_Interval
  <2>2. IsFiniteSet(1..k)
    BY <2>0, FS_Interval
  <2> QED BY <1>2, <2>1, <2>2
<1> HIDE DEF word, words, k, list
<1>8. IsFiniteSet(words) /\ Cardinality(words) <= k /\ Cardinality(words) # k
  BY <1>5, <1>6, <1>7, FS_Surjection
<1>9. Cardinality(words) \in Nat
  BY <1>8, FS_CardinalityType
<1>10. k > Cardinality(words)
  BY <1>2, <1>8, <1>9
<1> QED BY <1>10 DEF Repeats, k, words, list

(* Of an item that states a word one place says it; of two places, two      *)
(* items or one that says it twice.                                        *)
LEMMA OncePerItem ==
    ASSUME NEW lists \in Seq(Seq(Strings)), NEW w
    PROVE  LET items == Stating(lists, w)
           IN  /\ Cardinality(Said(lists, w)) >= Cardinality(items)
               /\ Cardinality(Said(lists, w)) > Cardinality(items) => \E j \in items : Repeats(lists[j])
<1> DEFINE items == Stating(lists, w)
           said == Said(lists, w)
           ss == Spoken(lists)
           first == [j \in items |-> CHOOSE s \in said : s[1] = j]
           item == [s \in said |-> s[1]]
<1>1. DOMAIN lists = 1..Len(lists) /\ Len(lists) \in Nat
  OBVIOUS
<1>2. ASSUME NEW j \in items PROVE \E s \in said : s[1] = j
  <2>1. j \in DOMAIN lists /\ w \in ToSet(ss[j]) /\ ss[j] \in Seq(Nat)
    BY SpokenOnes DEF Stating
  <2>2. PICK n \in DOMAIN ss[j] : ss[j][n] = w
    BY <2>1 DEF ToSet
  <2>3. n \in Nat
    <3> HIDE DEF ss
    <3> QED BY <2>1
  <2>4. <<j, n>> \in said
    BY <1>1, <2>1, <2>2, <2>3 DEF Said, Spots
  <2> QED BY <2>4
<1>3. ASSUME NEW s \in said
      PROVE  s[1] \in items /\ s[2] \in DOMAIN ss[s[1]] /\ ss[s[1]][s[2]] = w /\ s = <<s[1], s[2]>>
  <2>1. s \in (1..Len(lists)) \X Nat /\ s[2] \in DOMAIN ss[s[1]] /\ ss[s[1]][s[2]] = w
    BY DEF Said, Spots
  <2>2. s[1] \in DOMAIN lists /\ s = <<s[1], s[2]>>
    BY <1>1, <2>1
  <2>3. w \in ToSet(ss[s[1]])
    BY <2>1 DEF ToSet
  <2>4. w \in Words(lists[s[1]])
    BY <2>2, <2>3, SpokenOnes
  <2> QED BY <2>1, <2>2, <2>4 DEF Stating
<1>4. IsFiniteSet(said)
  BY TimesSaid
<1>5. first \in Injection(items, said)
  <2>1. \A j \in items : first[j] \in said /\ first[j][1] = j
    <3> HIDE DEF said, items
    <3> QED BY <1>2
  <2>2. first = [j \in items |-> first[j]]
    OBVIOUS
  <2> HIDE DEF first, said, items
  <2>3. first \in [items -> said] /\ DOMAIN first = items
    BY <2>1, <2>2
  <2> QED BY <2>1, <2>3 DEF Injection, IsInjective
<1>6. IsFiniteSet(items) /\ Cardinality(items) <= Cardinality(said)
  <2> HIDE DEF first, said, items
  <2> QED BY <1>4, <1>5, FS_Injection
<1>7. Cardinality(items) \in Nat /\ Cardinality(said) \in Nat
  <2> HIDE DEF said, items
  <2> QED BY <1>4, <1>6, FS_CardinalityType
<1>8. ASSUME Cardinality(said) > Cardinality(items) PROVE \E j \in items : Repeats(lists[j])
  <2>1. item \in [said -> items]
    <3> HIDE DEF said, items
    <3> QED BY <1>3
  <2>2. \E x, y \in said : x # y /\ item[x] = item[y]
    <3>1. Cardinality(items) < Cardinality(said)
      <4> HIDE DEF said, items
      <4> QED BY <1>7, <1>8
    <3> HIDE DEF said, items, item
    <3> QED BY <1>4, <1>6, <2>1, <3>1, FS_PigeonHole
  <2>3. PICK x \in said, y \in said : x # y /\ x[1] = y[1]
    <3> HIDE DEF said
    <3> QED BY <2>2
  <2>4. x[2] # y[2] /\ x[1] \in items
    <3> HIDE DEF said, items
    <3> QED BY <1>3, <2>3
  <2>5. x[1] \in DOMAIN lists
    BY <2>4 DEF Stating
  <2>6. /\ x[2] \in DOMAIN ss[x[1]] /\ y[2] \in DOMAIN ss[x[1]]
        /\ ss[x[1]][x[2]] = ss[x[1]][y[2]]
    <3> HIDE DEF said, items, ss
    <3> QED BY <1>3, <2>3
  <2>7. Repeats(lists[x[1]])
    BY <2>4, <2>5, <2>6, SaidTwice
  <2> QED BY <2>4, <2>7
<1>9. Cardinality(said) >= Cardinality(items)
  <2> HIDE DEF said, items
  <2> QED BY <1>6, <1>7
<1> QED BY <1>8, <1>9

LEMMA SurveyWords ==
    ASSUME NEW s \in Seq(SurveyItems)
    PROVE  /\ ScalarWords(s) \in Seq(Nat) /\ PresenceWords(s) \in Seq(Nat)
           /\ Lists(s) \in Seq(Seq(Strings)) /\ Oddities(s) \in Seq(Seq(Strings))
           /\ ListWords(Lists(s)) \in Seq(Nat) /\ ListWords(Oddities(s)) \in Seq(Nat)
<1>1. DOMAIN s = 1..Len(s) /\ Len(s) \in Nat
  OBVIOUS
<1>2. \A i \in 1..Len(s) : /\ TrimSpace(s[i].scalar) \in Nat
                           /\ s[i].list \in Seq(Strings) /\ s[i].oddities \in Seq(Strings)
  <2> SUFFICES ASSUME NEW i \in 1..Len(s)
               PROVE  /\ TrimSpace(s[i].scalar) \in Nat
                      /\ s[i].list \in Seq(Strings) /\ s[i].oddities \in Seq(Strings)
    OBVIOUS
  <2>1. s[i] \in SurveyItems
    BY <1>1
  <2>2. s[i].scalar \in Strings /\ s[i].list \in Seq(Strings) /\ s[i].oddities \in Seq(Strings)
    BY <2>1 DEF SurveyItems
  <2> QED BY <2>2, StringWords
<1>3. ScalarWords(s) \in Seq(Nat)
  BY <1>1, <1>2 DEF ScalarWords
<1>4. PresenceWords(s) \in Seq(Nat)
  BY <1>1 DEF PresenceWords, Present, Empty
<1>5. Lists(s) \in Seq(Seq(Strings)) /\ Oddities(s) \in Seq(Seq(Strings))
  BY <1>1, <1>2 DEF Lists, Oddities
<1> QED BY <1>3, <1>4, <1>5, TimesSaid

(* A survey has one tally, and its counts are what is counted.             *)
LEMMA OneTally ==
    ASSUME NEW s \in Seq(SurveyItems)
    PROVE  \E t : /\ Tally(s) = {t}
                  /\ \A w \in Nat :
                        /\ CountOf(t.scalar, w) = Times(ScalarWords(s), w)
                        /\ CountOf(t.presence, w) = Times(PresenceWords(s), w)
                        /\ CountOf(t.list, w) = Cardinality(Said(Lists(s), w))
                        /\ CountOf(t.oddities, w) = Cardinality(Said(Oddities(s), w))
<1>1. PICK a : Printed(Rows(ScalarWords(s))) = {a}
               /\ \A w \in Nat : CountOf(a, w) = Times(ScalarWords(s), w)
  BY SurveyWords, TableCounts
<1>2. PICK b : Printed(Rows(ListWords(Lists(s)))) = {b}
               /\ \A w \in Nat : CountOf(b, w) = Times(ListWords(Lists(s)), w)
  BY SurveyWords, TableCounts
<1>3. PICK c : Printed(Rows(ListWords(Oddities(s)))) = {c}
               /\ \A w \in Nat : CountOf(c, w) = Times(ListWords(Oddities(s)), w)
  BY SurveyWords, TableCounts
<1>4. PICK d : Printed(Rows(PresenceWords(s))) = {d}
               /\ \A w \in Nat : CountOf(d, w) = Times(PresenceWords(s), w)
  BY SurveyWords, TableCounts
<1> DEFINE t == [scalar |-> a, list |-> b, oddities |-> c, presence |-> d]
<1>5. Tally(s) = [scalar : {a}, list : {b}, oddities : {c}, presence : {d}]
  BY <1>1, <1>2, <1>3, <1>4 DEF Tally
<1>6. Tally(s) = {t}
  <2>1. t \in Tally(s)
    BY <1>5
  <2>2. ASSUME NEW u \in Tally(s) PROVE u = t
    BY <1>5
  <2> QED BY <2>1, <2>2
<1>7. \A w : /\ Times(ListWords(Lists(s)), w) = Cardinality(Said(Lists(s), w))
             /\ Times(ListWords(Oddities(s)), w) = Cardinality(Said(Oddities(s), w))
  BY SurveyWords, TimesSaid
<1>8. t.scalar = a /\ t.list = b /\ t.oddities = c /\ t.presence = d
  OBVIOUS
<1>9. \A w \in Nat : /\ CountOf(t.scalar, w) = Times(ScalarWords(s), w)
                     /\ CountOf(t.presence, w) = Times(PresenceWords(s), w)
                     /\ CountOf(t.list, w) = Cardinality(Said(Lists(s), w))
                     /\ CountOf(t.oddities, w) = Cardinality(Said(Oddities(s), w))
  <2> HIDE DEF t
  <2> QED BY <1>1, <1>2, <1>3, <1>4, <1>7, <1>8
<1> HIDE DEF t
<1> QED BY <1>6, <1>9

(* An item is counted once in a scalar and in a presence field, present or *)
(* empty.                                                                  *)
LEMMA EachItemOnce ==
    ASSUME NEW s \in Seq(SurveyItems)
    PROVE  Times(PresenceWords(s), Present) + Times(ScalarWords(s), Empty) = Len(s)
<1> DEFINE D == DOMAIN s
           there == {i \in D : TrimSpace(s[i].scalar) # Empty}
           gone == {i \in D : TrimSpace(s[i].scalar) = Empty}
<1>1. D = 1..Len(s) /\ Len(s) \in Nat
  OBVIOUS
<1>2. IsFiniteSet(D) /\ Cardinality(D) = Len(s)
  <2>1. Cardinality(1..Len(s)) = IF 1 > Len(s) THEN 0 ELSE Len(s) - 1 + 1
    BY <1>1, FS_Interval
  <2>2. IsFiniteSet(1..Len(s))
    BY <1>1, FS_Interval
  <2> HIDE DEF D
  <2> QED BY <1>1, <2>1, <2>2
<1>3. Times(PresenceWords(s), Present) = Cardinality(there)
  <2>1. {i \in DOMAIN PresenceWords(s) : PresenceWords(s)[i] = Present} = there
    BY DEF PresenceWords, Present, Empty
  <2> QED BY <2>1 DEF Times
<1>4. Times(ScalarWords(s), Empty) = Cardinality(gone)
  <2>1. {i \in DOMAIN ScalarWords(s) : ScalarWords(s)[i] = Empty} = gone
    BY DEF ScalarWords
  <2> QED BY <2>1 DEF Times
<1>5. there \in SUBSET D /\ gone \in SUBSET D /\ there \cup gone = D /\ there \cap gone = {}
  OBVIOUS
<1> HIDE DEF there, gone, D
<1>6. IsFiniteSet(there) /\ IsFiniteSet(gone)
  BY <1>2, <1>5, FS_Subset
<1>7. Cardinality(D) = Cardinality(there) + Cardinality(gone) - Cardinality({})
  BY <1>5, <1>6, FS_Union
<1>8. Cardinality({}) = 0 /\ Cardinality(there) \in Nat /\ Cardinality(gone) \in Nat
  BY <1>6, FS_EmptySet, FS_CardinalityType
<1> QED BY <1>1, <1>2, <1>3, <1>4, <1>7, <1>8

LEMMA ScalarTimes ==
    ASSUME NEW s \in Seq(SurveyItems), NEW w
    PROVE  Times(ScalarWords(s), w) = Cardinality({j \in DOMAIN s : TrimSpace(s[j].scalar) = w})
<1>1. {n \in DOMAIN ScalarWords(s) : ScalarWords(s)[n] = w}
        = {j \in DOMAIN s : TrimSpace(s[j].scalar) = w}
  BY DEF ScalarWords
<1> QED BY <1>1 DEF Times

LEMMA ListedWords ==
    ASSUME NEW list \in Seq(Strings)
    PROVE  Words(list) \subseteq Nat
  BY StringWords DEF Words, ToSet, Empty

(* tally.md is a function of the survey and its counts are item counts,    *)
(* for a survey of any length.                                             *)
LEMMA EverySurveyIsExact ==
    ASSUME NEW s \in Seq(SurveyItems)
    PROVE  IsExact(s)
<1>1. PICK t : /\ Tally(s) = {t}
               /\ \A w \in Nat :
                     /\ CountOf(t.scalar, w) = Times(ScalarWords(s), w)
                     /\ CountOf(t.presence, w) = Times(PresenceWords(s), w)
                     /\ CountOf(t.list, w) = Cardinality(Said(Lists(s), w))
                     /\ CountOf(t.oddities, w) = Cardinality(Said(Oddities(s), w))
  BY OneTally
<1>2. Cardinality(Tally(s)) = 1
  BY <1>1, FS_Singleton
<1>3. ASSUME NEW i \in DOMAIN s
      PROVE  LET w == TrimSpace(s[i].scalar)
             IN  CountOf(t.scalar, w) = Cardinality({j \in DOMAIN s : TrimSpace(s[j].scalar) = w})
  <2>1. s[i] \in SurveyItems
    OBVIOUS
  <2>2. s[i].scalar \in Strings
    BY <2>1 DEF SurveyItems
  <2>3. TrimSpace(s[i].scalar) \in Nat
    BY <2>2, StringWords
  <2> QED BY <1>1, <2>3, ScalarTimes
<1>4. CountOf(t.presence, Present) + CountOf(t.scalar, Empty) = Len(s)
  <2>1. Present \in Nat /\ Empty \in Nat
    BY DEF Present, Empty
  <2> QED BY <1>1, <2>1, EachItemOnce
<1>5. ASSUME NEW i \in DOMAIN s, NEW w \in Words(s[i].list)
      PROVE  LET items == Stating(Lists(s), w)
             IN  /\ CountOf(t.list, w) >= Cardinality(items)
                 /\ CountOf(t.list, w) > Cardinality(items) => \E j \in items : Repeats(s[j].list)
  <2>1. s[i] \in SurveyItems
    OBVIOUS
  <2>2. s[i].list \in Seq(Strings)
    BY <2>1 DEF SurveyItems
  <2>3. w \in Nat
    BY <2>2, ListedWords
  <2>4. CountOf(t.list, w) = Cardinality(Said(Lists(s), w))
    BY <1>1, <2>3
  <2>5. Lists(s) \in Seq(Seq(Strings))
    BY SurveyWords
  <2>6. \A j \in Stating(Lists(s), w) : Lists(s)[j] = s[j].list
    BY DEF Stating, Lists
  <2> QED BY <2>4, <2>5, <2>6, OncePerItem
<1> QED BY <1>1, <1>2, <1>3, <1>4, <1>5 DEF IsExact

LEMMA RereadOnes ==
    ASSUME NEW s \in Seq(SurveyItems), NEW i \in DOMAIN s, NEW l \in SurveyItems
    PROVE  /\ Reread(s, i, l) \in Seq(SurveyItems) /\ DOMAIN Reread(s, i, l) = DOMAIN s
           /\ \A j \in DOMAIN s : j # i => Reread(s, i, l)[j] = s[j]
           /\ LET it == s[i]
                  new == Reread(s, i, l)[i]
              IN  /\ new.scalar = IF TrimSpace(it.scalar) = Empty THEN l.scalar ELSE it.scalar
                  /\ new.list = IF l.list # <<>> THEN l.list ELSE it.list
                  /\ new.oddities = it.oddities \o l.oddities
<1>1. s[i] \in SurveyItems
  OBVIOUS
<1>2. l.scalar \in Strings /\ l.list \in Seq(Strings) /\ l.oddities \in Seq(Strings)
  BY DEF SurveyItems
<1>3. Merged(s[i], l) \in SurveyItems
  <2>1. s[i].scalar \in Strings /\ s[i].list \in Seq(Strings) /\ s[i].oddities \in Seq(Strings)
    BY <1>1 DEF SurveyItems
  <2>2. s[i].oddities \o l.oddities \in Seq(Strings)
    BY <1>2, <2>1
  <2> QED BY <1>2, <2>1, <2>2 DEF Merged, SurveyItems
<1>4. \A it : /\ Merged(it, l).scalar = IF TrimSpace(it.scalar) = Empty THEN l.scalar ELSE it.scalar
              /\ Merged(it, l).list = IF l.list # <<>> THEN l.list ELSE it.list
              /\ Merged(it, l).oddities = it.oddities \o l.oddities
  BY DEF Merged
<1> DEFINE new == Merged(s[i], l)
<1>5. new \in SurveyItems /\ Reread(s, i, l) = [s EXCEPT ![i] = new]
  BY <1>3 DEF Reread
<1> HIDE DEF new
<1>6. /\ [s EXCEPT ![i] = new] \in Seq(SurveyItems)
      /\ DOMAIN [s EXCEPT ![i] = new] = DOMAIN s
      /\ [s EXCEPT ![i] = new][i] = new
      /\ \A j \in DOMAIN s : j # i => [s EXCEPT ![i] = new][j] = s[j]
  BY <1>5
<1>7. Reread(s, i, l)[i] = Merged(s[i], l)
  BY <1>5, <1>6 DEF new
<1> QED BY <1>4, <1>5, <1>6, <1>7

(* Words that are among more places are counted as often or more.          *)
LEMMA MoreTimes ==
    ASSUME NEW a, NEW b, NEW w, NEW v, NEW k \in Nat,
           DOMAIN a = 1..k, DOMAIN b = 1..k, \A n \in 1..k : a[n] = v => b[n] = w
    PROVE  Times(a, v) <= Times(b, w)
<1> DEFINE A == {n \in DOMAIN a : a[n] = v}
           B == {n \in DOMAIN b : b[n] = w}
<1>1. IsFiniteSet(1..k) /\ B \in SUBSET (1..k) /\ A \in SUBSET B
  BY FS_Interval
<1> HIDE DEF A, B
<1>2. IsFiniteSet(B)
  BY <1>1, FS_Subset
<1>3. Cardinality(A) <= Cardinality(B)
  BY <1>1, <1>2, FS_Subset
<1> QED BY <1>3 DEF Times, A, B

LEMMA TimesType ==
    ASSUME NEW words \in Seq(Nat), NEW w
    PROVE  Times(words, w) \in Nat
<1>1. DOMAIN words = 1..Len(words) /\ Len(words) \in Nat
  OBVIOUS
<1> DEFINE at == {n \in DOMAIN words : words[n] = w}
<1>2. IsFiniteSet(1..Len(words)) /\ at \in SUBSET (1..Len(words))
  BY <1>1, FS_Interval
<1> HIDE DEF at
<1>3. Cardinality(at) \in Nat
  BY <1>2, FS_Subset, FS_CardinalityType
<1> QED BY <1>3 DEF Times, at

(* What each item said of its oddities it still says.                      *)
LEMMA OdditiesStay ==
    ASSUME NEW s \in Seq(SurveyItems), NEW o \in DOMAIN s, NEW l \in SurveyItems,
           NEW w, w # Empty
    PROVE  Said(Oddities(s), w) \subseteq Said(Oddities(Reread(s, o, l)), w)
<1> DEFINE r == Reread(s, o, l)
           a == Oddities(s)
           b == Oddities(r)
<1>1. r \in Seq(SurveyItems) /\ DOMAIN r = DOMAIN s /\ l.oddities \in Seq(Strings)
  BY RereadOnes DEF SurveyItems
<1>2. a \in Seq(Seq(Strings)) /\ b \in Seq(Seq(Strings)) /\ DOMAIN a = DOMAIN s /\ DOMAIN b = DOMAIN s
  BY <1>1, SurveyWords DEF Oddities
<1>3. ASSUME NEW j \in DOMAIN s
      PROVE  \E more \in Seq(Strings) : b[j] = a[j] \o more
  <2>1. CASE j = o
    BY <1>1, <2>1, RereadOnes DEF Oddities
  <2>2. CASE j # o
    <3>1. b[j] = a[j]
      BY <1>1, <2>2, RereadOnes DEF Oddities
    <3>2. a[j] \in Seq(Strings)
      <4> HIDE DEF a
      <4> QED BY <1>2
    <3>3. a[j] = a[j] \o <<>> /\ <<>> \in Seq(Strings)
      <4> HIDE DEF a
      <4> QED BY <3>2
    <3> HIDE DEF a, b
    <3> QED BY <3>1, <3>3
  <2> QED BY <2>1, <2>2
<1>4. Len(a) = Len(b) /\ Len(a) \in Nat /\ DOMAIN a = 1..Len(a)
  <2> HIDE DEF a, b
  <2> QED BY <1>2
<1> HIDE DEF r, a, b
<1> SUFFICES ASSUME NEW x \in Said(a, w) PROVE x \in Said(b, w)
  BY DEF a, b, r
<1>5. x \in (1..Len(a)) \X Nat /\ x[2] \in DOMAIN Spoken(a)[x[1]] /\ Spoken(a)[x[1]][x[2]] = w
  BY DEF Said, Spots
<1> DEFINE i == x[1]
           n == x[2]
<1>6. i \in DOMAIN a /\ i \in DOMAIN b /\ i \in DOMAIN s
  BY <1>2, <1>4, <1>5
<1>7. a[i] # <<>>
  <2> SUFFICES ASSUME a[i] = <<>> PROVE FALSE
    OBVIOUS
  <2>1. Spoken(a)[i] = <<Empty>>
    BY <1>2, <1>6, SpokenOnes
  <2>2. n \in DOMAIN Spoken(a)[i] /\ Spoken(a)[i][n] = w
    BY <1>5
  <2>3. n \in DOMAIN <<Empty>> => <<Empty>>[n] = Empty
    <3> HIDE DEF n
    <3> QED OBVIOUS
  <2> QED BY <2>1, <2>2, <2>3
<1>8. n \in 1..Len(a[i]) /\ TrimSpace(a[i][n]) = w
  BY <1>2, <1>5, <1>6, <1>7, SpokenOnes
<1>9. PICK more \in Seq(Strings) : b[i] = a[i] \o more
  <2> HIDE DEF i
  <2> QED BY <1>3, <1>6
<1>10. n \in 1..Len(b[i]) /\ b[i][n] = a[i][n] /\ b[i] # <<>>
  <2>1. ASSUME NEW p \in Seq(Strings), NEW q \in Seq(Strings), NEW m \in 1..Len(p)
        PROVE  m \in 1..Len(p \o q) /\ (p \o q)[m] = p[m] /\ p \o q # <<>>
    <3>1. Len(p \o q) = Len(p) + Len(q) /\ Len(p) \in Nat /\ Len(q) \in Nat
      OBVIOUS
    <3>2. m \in 1..Len(p \o q) /\ (p \o q)[m] = p[m]
      BY <3>1
    <3>3. Len(p \o q) # 0
      BY <3>1, <3>2
    <3>4. Len(<<>>) = 0
      OBVIOUS
    <3> QED BY <3>2, <3>3, <3>4
  <2>2. a[i] \in Seq(Strings)
    <3> HIDE DEF i
    <3> QED BY <1>2, <1>6
  <2> HIDE DEF i, n
  <2> QED BY <1>8, <1>9, <2>1, <2>2
<1>11. n \in DOMAIN Spoken(b)[i] /\ Spoken(b)[i][n] = w
  BY <1>2, <1>6, <1>8, <1>10, SpokenOnes
<1>12. x \in Spots(Spoken(b), Len(b))
  BY <1>4, <1>5, <1>11 DEF Spots
<1> QED BY <1>11, <1>12 DEF Said

(* The lists of a survey, before and after item o is read again.           *)
LEMMA RereadLists ==
    ASSUME NEW s \in Seq(SurveyItems), NEW o \in DOMAIN s, NEW l \in SurveyItems
    PROVE  LET a == Lists(s)
               b == Lists(Reread(s, o, l))
           IN  /\ a \in Seq(Seq(Strings)) /\ b \in Seq(Seq(Strings))
               /\ DOMAIN a = DOMAIN s /\ DOMAIN b = DOMAIN s
               /\ Len(a) = Len(b) /\ Len(a) \in Nat /\ DOMAIN s = 1..Len(a)
               /\ \A j \in DOMAIN s : j # o => b[j] = a[j]
               /\ a[o] = s[o].list /\ b[o] = IF l.list # <<>> THEN l.list ELSE a[o]
<1> DEFINE r == Reread(s, o, l)
           a == Lists(s)
           b == Lists(r)
<1>1. r \in Seq(SurveyItems) /\ DOMAIN r = DOMAIN s
  BY RereadOnes
<1>2. a \in Seq(Seq(Strings)) /\ b \in Seq(Seq(Strings)) /\ DOMAIN a = DOMAIN s /\ DOMAIN b = DOMAIN s
  BY <1>1, SurveyWords DEF Lists
<1>3. \A j \in DOMAIN s : j # o => b[j] = a[j]
  BY <1>1, RereadOnes DEF Lists
<1>4. a[o] = s[o].list /\ b[o] = IF l.list # <<>> THEN l.list ELSE a[o]
  BY <1>1, RereadOnes DEF Lists
<1>5. Len(a) = Len(b) /\ Len(a) \in Nat /\ DOMAIN s = 1..Len(a)
  <2> HIDE DEF a, b
  <2> QED BY <1>2
<1> QED BY <1>2, <1>3, <1>4, <1>5

(* Only what the second reading lists as blank is newly empty.             *)
LEMMA NothingNewIsEmpty ==
    ASSUME NEW s \in Seq(SurveyItems), NEW o \in DOMAIN s, NEW l \in SurveyItems,
           ~(l.list # <<>> /\ Empty \in Words(l.list))
    PROVE  Said(Lists(Reread(s, o, l)), Empty) \subseteq Said(Lists(s), Empty)
<1> DEFINE a == Lists(s)
           b == Lists(Reread(s, o, l))
<1>1. /\ a \in Seq(Seq(Strings)) /\ b \in Seq(Seq(Strings))
      /\ DOMAIN a = DOMAIN s /\ DOMAIN b = DOMAIN s
      /\ Len(a) = Len(b) /\ Len(a) \in Nat /\ DOMAIN s = 1..Len(a)
      /\ \A j \in DOMAIN s : j # o => b[j] = a[j]
      /\ b[o] = IF l.list # <<>> THEN l.list ELSE a[o]
  BY RereadLists
<1> HIDE DEF a, b
<1> SUFFICES ASSUME NEW x \in Said(b, Empty) PROVE x \in Said(a, Empty)
  BY DEF a, b
<1>2. x \in (1..Len(b)) \X Nat /\ x[2] \in DOMAIN Spoken(b)[x[1]] /\ Spoken(b)[x[1]][x[2]] = Empty
  BY DEF Said, Spots
<1>3. x[1] \in DOMAIN s /\ x[1] \in DOMAIN b /\ x[1] \in DOMAIN a
  BY <1>1, <1>2
<1>4. ASSUME x[1] = o, l.list # <<>> PROVE FALSE
  <2>1. Empty \in ToSet(Spoken(b)[x[1]])
    BY <1>2 DEF ToSet
  <2>2. Empty \in Words(b[x[1]])
    BY <1>1, <1>3, <2>1, SpokenOnes
  <2> QED BY <1>1, <1>4, <2>2
<1>5. b[x[1]] = a[x[1]]
  BY <1>1, <1>3, <1>4
<1>6. Spoken(b)[x[1]] = Spoken(a)[x[1]]
  BY <1>3, <1>5 DEF Spoken
<1>7. x \in Spots(Spoken(a), Len(a))
  BY <1>1, <1>2, <1>6 DEF Spots
<1> QED BY <1>2, <1>6, <1>7 DEF Said

(* With a second reading that is a superset, an item that stated a value   *)
(* in its list still states it.                                            *)
LEMMA StatingStays ==
    ASSUME NEW s \in Seq(SurveyItems), NEW o \in DOMAIN s, NEW l \in SurveyItems,
           IsSuperset(l, s[o]), NEW w, w # Empty
    PROVE  Stating(Lists(s), w) \subseteq Stating(Lists(Reread(s, o, l)), w)
<1> DEFINE a == Lists(s)
           b == Lists(Reread(s, o, l))
<1>1. /\ DOMAIN a = DOMAIN s /\ DOMAIN b = DOMAIN s
      /\ \A j \in DOMAIN s : j # o => b[j] = a[j]
      /\ a[o] = s[o].list /\ b[o] = IF l.list # <<>> THEN l.list ELSE a[o]
  BY RereadLists
<1> HIDE DEF a, b
<1> SUFFICES ASSUME NEW j \in Stating(a, w) PROVE j \in Stating(b, w)
  BY DEF a, b
<1>2. j \in DOMAIN s /\ w \in Words(a[j])
  BY <1>1 DEF Stating
<1>3. w \in Words(b[j])
  BY <1>1, <1>2 DEF IsSuperset
<1> QED BY <1>1, <1>2, <1>3 DEF Stating

(* What a second reading of an item may take away, for a survey of any     *)
(* length and any reading.                                                 *)
LEMMA EveryRereadingKeeps ==
    ASSUME NEW s \in Seq(SurveyItems), NEW o \in DOMAIN s, NEW l \in SurveyItems
    PROVE  LosesNothing(s, o, l)
<1> DEFINE r == Reread(s, o, l)
<1>1. r \in Seq(SurveyItems) /\ DOMAIN r = DOMAIN s
  BY RereadOnes
<1>2. \A i \in DOMAIN s : TrimSpace(s[i].scalar) # Empty => r[i].scalar = s[i].scalar
  <2>1. \A i \in DOMAIN s : i # o => r[i] = s[i]
    BY RereadOnes
  <2>2. r[o].scalar = IF TrimSpace(s[o].scalar) = Empty THEN l.scalar ELSE s[o].scalar
    BY RereadOnes
  <2> HIDE DEF r
  <2> QED BY <2>1, <2>2
<1>3. DOMAIN s = 1..Len(s) /\ Len(s) \in Nat
  OBVIOUS
<1> HIDE DEF r
<1>5. PICK t : /\ Tally(s) = {t}
               /\ \A w \in Nat :
                     /\ CountOf(t.scalar, w) = Times(ScalarWords(s), w)
                     /\ CountOf(t.presence, w) = Times(PresenceWords(s), w)
                     /\ CountOf(t.list, w) = Cardinality(Said(Lists(s), w))
                     /\ CountOf(t.oddities, w) = Cardinality(Said(Oddities(s), w))
  BY OneTally
<1>6. PICK u : /\ Tally(r) = {u}
               /\ \A w \in Nat :
                     /\ CountOf(u.scalar, w) = Times(ScalarWords(r), w)
                     /\ CountOf(u.presence, w) = Times(PresenceWords(r), w)
                     /\ CountOf(u.list, w) = Cardinality(Said(Lists(r), w))
                     /\ CountOf(u.oddities, w) = Cardinality(Said(Oddities(r), w))
  BY <1>1, OneTally
<1>7. Empty \in Nat
  BY DEF Empty
<1>8. ASSUME NEW w \in ToSet(ScalarWords(s)) \ {Empty}
      PROVE  CountOf(u.scalar, w) >= CountOf(t.scalar, w)
  <2>1. w \in Nat
    BY SurveyWords DEF ToSet
  <2>2. Times(ScalarWords(s), w) <= Times(ScalarWords(r), w)
    <3>1. DOMAIN ScalarWords(s) = 1..Len(s) /\ DOMAIN ScalarWords(r) = 1..Len(s)
      BY <1>1, <1>3 DEF ScalarWords
    <3>2. \A n \in 1..Len(s) : ScalarWords(s)[n] = w => ScalarWords(r)[n] = w
      BY <1>1, <1>2, <1>3 DEF ScalarWords
    <3> QED BY <1>3, <3>1, <3>2, MoreTimes
  <2>3. Times(ScalarWords(s), w) \in Int /\ Times(ScalarWords(r), w) \in Int
    BY <1>1, TimesType, SurveyWords
  <2> QED BY <1>5, <1>6, <2>1, <2>2, <2>3
<1>9. ASSUME NEW w \in ToSet(ListWords(Oddities(s))) \ {Empty}
      PROVE  CountOf(u.oddities, w) >= CountOf(t.oddities, w)
  <2>1. w \in Nat
    BY SurveyWords DEF ToSet
  <2>2. Said(Oddities(s), w) \in SUBSET Said(Oddities(r), w)
    BY OdditiesStay DEF r
  <2>3. Oddities(r) \in Seq(Seq(Strings)) /\ Oddities(s) \in Seq(Seq(Strings))
    BY <1>1, SurveyWords
  <2>4. IsFiniteSet(Said(Oddities(r), w)) /\ IsFiniteSet(Said(Oddities(s), w))
    BY <2>3, TimesSaid
  <2>5. Cardinality(Said(Oddities(s), w)) <= Cardinality(Said(Oddities(r), w))
    BY <2>2, <2>4, FS_Subset
  <2>6. Cardinality(Said(Oddities(s), w)) \in Nat /\ Cardinality(Said(Oddities(r), w)) \in Nat
    BY <2>4, FS_CardinalityType
  <2> QED BY <1>5, <1>6, <2>1, <2>5, <2>6
<1>10. CountOf(u.presence, Empty) <= CountOf(t.presence, Empty)
  <2>1. DOMAIN PresenceWords(s) = 1..Len(s) /\ DOMAIN PresenceWords(r) = 1..Len(s)
    BY <1>1, <1>3 DEF PresenceWords
  <2>2. \A n \in 1..Len(s) : PresenceWords(r)[n] = Empty => PresenceWords(s)[n] = Empty
    BY <1>1, <1>2, <1>3 DEF PresenceWords, Present, Empty
  <2>3. Times(PresenceWords(r), Empty) <= Times(PresenceWords(s), Empty)
    BY <1>3, <2>1, <2>2, MoreTimes
  <2> QED BY <1>5, <1>6, <1>7, <2>3
<1>11. ASSUME CountOf(u.list, Empty) > CountOf(t.list, Empty)
       PROVE  l.list # <<>> /\ Empty \in Words(l.list)
  <2> SUFFICES ASSUME ~(l.list # <<>> /\ Empty \in Words(l.list)) PROVE FALSE
    OBVIOUS
  <2>1. Said(Lists(r), Empty) \in SUBSET Said(Lists(s), Empty)
    BY NothingNewIsEmpty DEF r
  <2>2. Lists(r) \in Seq(Seq(Strings)) /\ Lists(s) \in Seq(Seq(Strings))
    BY <1>1, SurveyWords
  <2>3. IsFiniteSet(Said(Lists(r), Empty)) /\ IsFiniteSet(Said(Lists(s), Empty))
    BY <2>2, TimesSaid
  <2>4. Cardinality(Said(Lists(r), Empty)) <= Cardinality(Said(Lists(s), Empty))
    BY <2>1, <2>3, FS_Subset
  <2>5. Cardinality(Said(Lists(r), Empty)) \in Nat /\ Cardinality(Said(Lists(s), Empty)) \in Nat
    BY <2>3, FS_CardinalityType
  <2>6. Cardinality(Said(Lists(r), Empty)) > Cardinality(Said(Lists(s), Empty))
    BY <1>5, <1>6, <1>7, <1>11
  <2> QED BY <2>4, <2>5, <2>6
<1>12. ASSUME IsSuperset(l, s[o]), NEW w \in ToSet(ListWords(Lists(s))) \ {Empty}
       PROVE  CountOf(u.list, w) >= Cardinality(Stating(Lists(s), w))
  <2> DEFINE before == Stating(Lists(s), w)
             after == Stating(Lists(r), w)
             said == Said(Lists(r), w)
  <2>1. w \in Nat
    BY SurveyWords DEF ToSet
  <2>2. Lists(r) \in Seq(Seq(Strings))
    BY <1>1, SurveyWords
  <2>3. before \in SUBSET after
    BY <1>12, StatingStays DEF r
  <2>4. Cardinality(said) >= Cardinality(after)
    BY <2>2, OncePerItem
  <2>5. IsFiniteSet(after)
    <3>1. IsFiniteSet(DOMAIN Lists(r)) /\ after \in SUBSET (DOMAIN Lists(r))
      <4>1. DOMAIN Lists(r) = 1..Len(s)
        BY <1>1, <1>3 DEF Lists
      <4>2. IsFiniteSet(1..Len(s))
        BY <1>3, FS_Interval
      <4> QED BY <4>1, <4>2 DEF Stating
    <3> HIDE DEF after
    <3> QED BY <3>1, FS_Subset
  <2>6. IsFiniteSet(said)
    BY <2>2, TimesSaid
  <2>7. CountOf(u.list, w) = Cardinality(said)
    BY <1>6, <2>1
  <2> HIDE DEF before, after, said
  <2>8. IsFiniteSet(before) /\ Cardinality(before) <= Cardinality(after)
    BY <2>3, <2>5, FS_Subset
  <2>9. Cardinality(before) \in Nat /\ Cardinality(after) \in Nat /\ Cardinality(said) \in Nat
    BY <2>5, <2>6, <2>8, FS_CardinalityType
  <2>10. CountOf(u.list, w) >= Cardinality(before)
    BY <2>4, <2>7, <2>8, <2>9
  <2> QED BY <2>10 DEF before
<1>13. \A v \in Tally(s) : v = t
  BY <1>5
<1>14. \A v \in Tally(Reread(s, o, l)) : v = u
  BY <1>6 DEF r
<1> QED BY <1>8, <1>9, <1>10, <1>11, <1>12, <1>13, <1>14 DEF LosesNothing

(* Of every survey, of any length: tally.md is a function of it, and its   *)
(* counts are item counts, repeats in one item's list apart.               *)
THEOREM CountsAreExact == Spec => []CountsAreItems
<1>1. \A s \in Surveys : IsExact(s)
  BY EverySurveyIsExact, SurveyAssumption
<1>2. CountsAreItems
  BY <1>1 DEF CountsAreItems
<1> QED BY <1>2, PTL

(* Whatever a second reading says of an item of any survey: no scalar and   *)
(* no oddity is counted less often afterwards, and nothing is newly counted *)
(* as empty but what it lists as blank; if it is a superset, each value of  *)
(* a list still counts for every item that stated it.                      *)
THEOREM RereadingLosesNothing == Spec => []RelabelLosesNothing
<1>1. \A s \in Surveys, l \in SecondReadings : \A i \in DOMAIN s : LosesNothing(s, i, l)
  BY EveryRereadingKeeps, SurveyAssumption
<1>2. RelabelLosesNothing
  BY <1>1 DEF RelabelLosesNothing
<1> QED BY <1>2, PTL
=============================================================================
