------------------------------- MODULE Browse -------------------------------
(***************************************************************************)
(* The browse queries of queries.sql over the catalog that cmd/extract has *)
(* loaded.  They only read, so they are functions of the tables, from      *)
(* their parameters to sets of item rows (their order is left out); the    *)
(* properties compare what they return with what the model said.           *)
(***************************************************************************)
EXTENDS Extract, FiniteSetsExt

(* Declaration order is comparison order (types.sql:20). *)
RarityOrder == <<"common", "uncommon", "rare", "very_rare", "legendary", "artifact">>
Rank(rarity) == CHOOSE n \in DOMAIN RarityOrder : RarityOrder[n] = rarity

(* r >= floor is not true of a NULL. *)
AtLeast(column, floor) == \E r \in column : Rank(r) >= Rank(floor)

Allowlist(t, row) == {a \in t.allowlist : a.item = row.id}

(* A plausible bug: an item without an allowlist is nobody's. *)
MayAttuneListed(t, row, who) ==
    ~row.requiresAttunement \/ \E a \in Allowlist(t, row) : a.kind = who

(* No attunement, nobody in particular, or this kind among others.         *)
MayAttune(t, row, who) ==
    \/ ~row.requiresAttunement
    \/ Allowlist(t, row) = {}
    \/ \E a \in Allowlist(t, row) : a.kind = who

ItemsAttunableBy(t, floor, who) ==
    {row \in t.item : AtLeast(row.rarity, floor) /\ MayAttune(t, row, who)}

ItemsForSlot(t, slot) == {row \in t.item : row.wornSlot = {slot}}

ItemsWithEffect(t, e) ==
    {row \in t.item : \E x \in t.effect : x.item = row.id /\ x.effect = e}

CountItemsByCategory(t) ==
    [c \in {row.category : row \in t.item} |->
        Cardinality({row \in t.item : row.category = c})]
-----------------------------------------------------------------------------

Loaded == phase \in {"clean", "quarantined"}

Sources(rows) == {row.src : row \in rows}

Named(i) == {Canonical(a.name) : a \in ToSet(Reply(i).attuners)}
Names == UNION {Named(i) : i \in Landed}

(* Who may attune an item is what the model said of it, through spelling,   *)
(* Dedupe, the shared attuner kinds and the joins: those it names, or       *)
(* anybody when it names none or the item needs no attunement.              *)
AttunableAsSaid ==
    Loaded => \A floor \in Rarities : \A who \in Names :
       Sources(ItemsAttunableBy(db, floor, who)) =
          {i \in Landed : /\ Reply(i).rarity # "" /\ Rank(Reply(i).rarity) >= Rank(floor)
                          /\ \/ ~Reply(i).requiresAttunement
                             \/ Named(i) = {} \/ who \in Named(i)}

(* Every item is found under each effect the model gave it and no other,    *)
(* though Dedupe merges the tags, and under its slot; and the categories    *)
(* count every item that landed.                                            *)
FoundAsSaid ==
    Loaded =>
       /\ \A e \in Effects :
             Sources(ItemsWithEffect(db, e)) =
                {i \in Landed : \E n \in normalized[i] : \E x \in ToSet(n.effects) : x.category = e}
       /\ \A slot \in WornSlots :
             Sources(ItemsForSlot(db, slot)) = {i \in Landed : Reply(i).wornSlot = slot}
       /\ MapThenSumSet(LAMBDA c : CountItemsByCategory(db)[c], DOMAIN CountItemsByCategory(db))
             = Cardinality(Landed)

(* Which taxonomy a name belongs to is what the last item in the survey     *)
(* that names it says, however the replies arrived and whatever was         *)
(* refused in between.                                                      *)
LatestKindWins ==
    Loaded => \A a \in DOMAIN db.attunerKind :
       LET last == Max({i \in Landed : a \in Named(i)})
       IN  \E x \in ToSet(Reply(last).attuners) :
              Canonical(x.name) = a /\ x.kind = db.attunerKind[a]
=============================================================================
