------------------------------ MODULE Catalog ------------------------------
(***************************************************************************)
(* The tables cmd/extract writes (database/schema/), the statements of its *)
(* write path (database/query/queries.sql) with every constraint that can  *)
(* refuse them, and the sequence of statements one item takes              *)
(* (internal/extraction/insert.go).                                        *)
(*                                                                         *)
(* A nullable column is the set of its value, {} for NULL.  A reference    *)
(* table is a function from its unique name to its other columns; an item  *)
(* is known by its generated id and keeps, as src, the index of the        *)
(* surveyed item it was made from.                                         *)
(***************************************************************************)
EXTENDS Normalized, FiniteSets

ChildTables == {"variant", "allowlist", "effect", "target", "limitation", "itemSpell"}

(* The tables right after provisioning. *)
EmptyCatalog ==
    [item |-> {}, baseItem |-> <<>>, attunerKind |-> <<>>, spell |-> <<>>,
     variant |-> {}, allowlist |-> {}, effect |-> {}, target |-> {}, limitation |-> {},
     itemSpell |-> {}]

EnumPtr(s) == IF s = "" THEN {} ELSE {s}
StrPtr(t) == IF IsBlank(t) THEN {} ELSE {t}
Int16(v) == ((v + 32768) % 65536) - 32768
SmallPtr(v) == IF v = 0 THEN {} ELSE {Int16(v)}
(* A plausible bug: coalesce(excluded.x, table.x). *)
CoalesceNew(old, new) == IF new = {} THEN old ELSE new

Coalesce(old, new) == IF old = {} THEN new ELSE old
-----------------------------------------------------------------------------
(* The statements of Insert for reply n to item src, i of the survey: the  *)
(* base item if the reply names one, the item row, then the children.      *)

Statement(table, row) == [table |-> table, row |-> row]

BaseItemStatement(n) == Statement("baseItem",
    [name |-> Canonical(n.baseItemName), category |-> n.category,
     family |-> EnumPtr(n.baseItemWeaponFamily), weight |-> EnumPtr(n.baseItemArmorWeight)])

ItemRow(id, i, src, n) ==
    [id |-> id, src |-> i, name |-> src.name, category |-> n.category,
     rarity |-> EnumPtr(n.rarity), requiresAttunement |-> n.requiresAttunement,
     wornSlot |-> EnumPtr(n.wornSlot), provenance |-> EnumPtr(n.slotProvenance),
     hands |-> SmallPtr(n.handsRequired), applicability |-> EnumPtr(n.applicability),
     baseItem |-> IF n.applicability = "specific" THEN {Canonical(n.baseItemName)} ELSE {},
     appliesFamily |-> EnumPtr(n.appliesWeaponFamily),
     appliesWeight |-> EnumPtr(n.appliesMinArmorWeight),
     typeLine |-> src.typeLine, pageStart |-> src.pageStart, pageEnd |-> src.pageEnd]

VariantStatement(id, v) ==
    Statement("variant", [item |-> id, key |-> v.variantKey, rarity |-> EnumPtr(v.rarity)])
AttunerKindStatement(a) == Statement("attunerKind", [name |-> Canonical(a.name), kind |-> a.kind])
AllowlistStatement(id, a) == Statement("allowlist", [item |-> id, kind |-> Canonical(a.name)])
EffectStatement(id, e) ==
    Statement("effect", [item |-> id, effect |-> e.category, label |-> e.sourceLabel])
TargetStatement(id, t) ==
    Statement("target", [item |-> id, family |-> t.family, role |-> t.role,
                         species |-> StrPtr(ToLower(t.species)), minCR |-> SmallPtr(t.minCR)])
LimitationStatement(id, l) ==
    Statement("limitation", [item |-> id, kind |-> l.kind, detail |-> l.detail])
SpellStatement(s) == Statement("spell", [name |-> Canonical(s.name), school |-> EnumPtr(s.school)])
ItemSpellStatement(id, s) == Statement("itemSpell", [item |-> id, spell |-> Canonical(s.name)])

ForEach(s, Make(_)) == FlattenSeq([k \in DOMAIN s |-> Make(s[k])])

(* What follows the item row, in order. *)
ChildStatements(id, n) ==
    ForEach(n.variants, LAMBDA v : <<VariantStatement(id, v)>>)
    \o ForEach(n.attuners, LAMBDA a : <<AttunerKindStatement(a), AllowlistStatement(id, a)>>)
    \o ForEach(n.effects, LAMBDA e : <<EffectStatement(id, e)>>)
    \o ForEach(n.creatureTargets, LAMBDA t : <<TargetStatement(id, t)>>)
    \o ForEach(n.limitations, LAMBDA l : <<LimitationStatement(id, l)>>)
    \o ForEach(n.spells, LAMBDA s : <<SpellStatement(s), ItemSpellStatement(id, s)>>)
-----------------------------------------------------------------------------
(* Constraints.  A CHECK refuses a row only when it is false, not NULL.    *)

(* base_item_family_is_weaponish and base_item_weight_is_armor. *)
FacetsFit(b) ==
    /\ b.family # {} => b.category \in {"weapon", "armor"}
    /\ b.weight # {} => b.category = "armor"

(* "on conflict (name) do update": a later row only fills what is missing. *)
MergedBaseItem(t, b) ==
    IF b.name \notin DOMAIN t.baseItem
    THEN [category |-> b.category, family |-> b.family, weight |-> b.weight]
    ELSE LET old == t.baseItem[b.name]
         IN  [category |-> old.category, family |-> Coalesce(old.family, b.family),
              weight |-> Coalesce(old.weight, b.weight)]

MergedSpell(t, s) ==
    IF s.name \notin DOMAIN t.spell THEN s.school ELSE Coalesce(t.spell[s.name], s.school)

(* A plausible bug: "on conflict (name) do nothing". *)
MergedKindFirst(t, a) == IF a.name \in DOMAIN t.attunerKind THEN t.attunerKind[a.name] ELSE a.kind

(* "on conflict (name) do update": the later kind replaces the earlier. *)
MergedKind(t, a) == a.kind

(* The CHECK constraints of database/schema/item.sql. *)
ItemChecks(r) ==
    /\ r.wornSlot = {} <=> r.provenance = {}
    /\ \A h \in r.hands : h \in 1..2
    /\ r.hands # {} => \E s \in r.wornSlot : s \in Wielded
    /\ r.pageStart > 0 /\ r.pageEnd > 0
    /\ r.pageEnd >= r.pageStart
    /\ r.applicability = {"specific"} <=> r.baseItem # {}
    /\ IF r.applicability = {"family_or_class"}
       THEN r.appliesFamily = {} <=> r.appliesWeight # {}
       ELSE r.appliesFamily = {} /\ r.appliesWeight = {}

(* The columns of each child table's unique key, after its item. *)
UniqueKey(table, r) ==
    CASE table = "variant" -> r.key
      [] table = "allowlist" -> r.kind
      [] table = "effect" -> r.effect
      [] table = "target" -> <<r.family, r.role, r.species>>
      [] table = "limitation" -> <<r.kind, r.detail>>
      [] table = "itemSpell" -> r.spell

Collides(t, s) ==
    /\ s.table \in ChildTables
    /\ \E r \in t[s.table] :
          r.item = s.row.item /\ UniqueKey(s.table, r) = UniqueKey(s.table, s.row)

(* nonempty_text, the CHECKs and the foreign keys of the statement's table. *)
RowFits(t, s) ==
    LET r == s.row
    IN  CASE s.table = "baseItem" ->
               ~IsBlank(r.name) /\ FacetsFit(r) /\ FacetsFit(MergedBaseItem(t, r))
          [] s.table = "item" ->
               /\ ~IsBlank(r.name) /\ ~IsBlank(r.typeLine)
               /\ ItemChecks(r)
               /\ \A b \in r.baseItem : t.baseItem[b].category = r.category
          [] s.table = "allowlist" ->
               \E m \in t.item : m.id = r.item /\ m.requiresAttunement
          [] s.table = "variant" -> ~IsBlank(r.key)
          [] s.table = "limitation" -> ~IsBlank(r.detail)
          [] s.table = "target" -> \A c \in r.minCR : c > 0
          [] s.table \in {"attunerKind", "spell"} -> ~IsBlank(r.name)
          [] OTHER -> TRUE

(* The statement succeeds on tables t. *)
Accepts(t, s) == RowFits(t, s) /\ ~Collides(t, s)

(* Function f with the value of x set to v. *)
Put(f, x, v) == [y \in DOMAIN f \cup {x} |-> IF y = x THEN v ELSE f[y]]

(* The tables after a statement that succeeded. *)
Execute(t, s) ==
    LET r == s.row
    IN  CASE s.table = "baseItem" ->
               [t EXCEPT !.baseItem = Put(@, r.name, MergedBaseItem(t, r))]
          [] s.table = "attunerKind" ->
               [t EXCEPT !.attunerKind = Put(@, r.name, MergedKind(t, r))]
          [] s.table = "spell" ->
               [t EXCEPT !.spell = Put(@, r.name, MergedSpell(t, r))]
          [] s.table \in ChildTables -> [t EXCEPT ![s.table] = @ \cup {r}]
          [] OTHER -> t

AddItem(t, row) == [t EXCEPT !.item = @ \cup {row}]

(* The id the item row of the next transaction gets. *)
NextId(t) == Cardinality(t.item) + 1
=============================================================================
