----------------------------- MODULE MCExtract -----------------------------
(***************************************************************************)
(* Surveys of two or three items and the replies the model may give, for   *)
(* TLC.  Each family of replies is chosen for the part of the write path   *)
(* it reaches; the names are the catalog's.                                *)
(***************************************************************************)
EXTENDS Browse

Padded(t) == [t EXCEPT !.padded = TRUE]
Caps(t) == [t EXCEPT !.caps = TRUE]

Surveyed(name) ==
    [name |-> Caps(Text(name)), typeLine |-> Text("weapon"), varies |-> FALSE,
     pageStart |-> 1, pageEnd |-> 2]

(* A reply that says nothing but the category. *)
Plain ==
    [category |-> "wondrous_item", rarity |-> "", requiresAttunement |-> FALSE,
     attuners |-> <<>>, wornSlot |-> "", slotProvenance |-> "", handsRequired |-> 0,
     applicability |-> "", baseItemName |-> NoText, baseItemWeaponFamily |-> "",
     baseItemArmorWeight |-> "", appliesWeaponFamily |-> "", appliesMinArmorWeight |-> "",
     variants |-> <<>>, effects |-> <<>>, creatureTargets |-> <<>>, limitations |-> <<>>,
     spells |-> <<>>]

Specific(category, base, family) ==
    [Plain EXCEPT !.category = category, !.applicability = "specific", !.baseItemName = base,
                  !.baseItemWeaponFamily = family]

Dagger == Text("dagger")
Target(family, role, species, cr) ==
    [family |-> family, role |-> role, species |-> species, minCR |-> cr]
Spell(name, school) == [name |-> name, school |-> school]
Effect(category, label) == [category |-> category, sourceLabel |-> {label}]

-----------------------------------------------------------------------------
(* Faults: short transactions, so that crashes, reruns and wipes can fall  *)
(* anywhere in them.                                                       *)

TwoItems == <<Surveyed("Fang"), Surveyed("Sting")>>

(* All (0 or less), a proper part, more than there are. *)
FlagValues == {-1, 0, 1, 3}

Unslotted == [Plain EXCEPT !.wornSlot = "neck"]
Tagged == [Plain EXCEPT !.effects = <<Effect("hazard", "burns")>>]

FaultReplies == << {Specific("weapon", Dagger, "")}, {Tagged, Unslotted} >>

-----------------------------------------------------------------------------
(* Catalog: three items whose replies meet in the shared tables.           *)

VariedItem == [Surveyed("Pouch") EXCEPT !.varies = TRUE]
ThreeItems == <<VariedItem, Surveyed("Sting"), Surveyed("Horn")>>

(* Sharing: they name one base item and one spell, spelled differently,    *)
(* and disagree on the facets and the category; the third has a child row  *)
(* that is counted before its spell may fail.                              *)
Shared(category, base, family, spell) ==
    [Specific(category, base, family) EXCEPT !.spells = <<spell>>]

Armored(weight) ==
    [Shared("armor", Dagger, "", Spell(Text("light"), "")) EXCEPT !.baseItemArmorWeight = weight]

SharingReplies ==
    << {Shared("weapon", Dagger, "", Spell(Text("light"), "evocation")),
        Shared("ring", Dagger, "", Spell(Text("light"), "")), Armored("")},
       {Shared("weapon", Caps(Padded(Dagger)), "sword", Spell(Caps(Text("light")), "")),
        Shared("weapon", Padded(Dagger), "axe", Spell(Padded(Text("light")), "illusion")),
        Armored("light")},
       {[Shared("weapon", Caps(Dagger), "pick", Spell(Text("light"), "necromancy"))
           EXCEPT !.effects = <<Effect("hazard", "burns")>>],
        Armored("heavy")} >>

(* Shapes: every kind of child row with duplicates in each list, and the   *)
(* replies that get a single rule wrong.                                   *)
Attuner(name, kind) == [name |-> name, kind |-> kind]
Variant(key, rarity) == [variantKey |-> key, rarity |-> rarity]
Limitation(kind, detail) == [kind |-> kind, detail |-> detail]

Bard == Text("bard")

Horn ==
    [Plain EXCEPT
        !.wornSlot = "main_hand", !.slotProvenance = "stated", !.handsRequired = 2,
        !.requiresAttunement = TRUE,
        !.attuners = <<Attuner(Bard, "class"), Attuner(Caps(Padded(Bard)), "other")>>,
        !.effects = <<Effect("healing", "soothes"), Effect("hazard", "burns"), Effect("healing", "mends")>>,
        !.creatureTargets = <<Target("dragon", "controls", Text("bronze"), 0),
                              Target("beast", "harms", Caps(Text("wolf")), 3),
                              Target("beast", "harms", Text("wolf"), 0),
                              Target("undead", "harms", Padded(NoText), 0),
                              Target("undead", "harms", NoText, 0)>>,
        !.limitations = <<Limitation("charges", Text("three")), Limitation("charges", Text("three"))>>,
        !.spells = <<Spell(Text("fear"), "illusion"), Spell(Caps(Padded(Text("fear"))), "")>>]

(* Without the two white-space species the horn lands. *)
GoodHorn == [Horn EXCEPT !.creatureTargets = SubSeq(@, 1, 3)]

HornReplies ==
    {Horn, GoodHorn,
     [GoodHorn EXCEPT !.slotProvenance = ""],
     [GoodHorn EXCEPT !.handsRequired = 3],
     [GoodHorn EXCEPT !.wornSlot = "neck"],
     [GoodHorn EXCEPT !.requiresAttunement = FALSE],
     [GoodHorn EXCEPT !.applicability = "any_in_category", !.appliesWeaponFamily = "sword"],
     [GoodHorn EXCEPT !.applicability = "family_or_class", !.appliesWeaponFamily = "sword"],
     [GoodHorn EXCEPT !.applicability = "family_or_class", !.appliesWeaponFamily = "sword",
                      !.appliesMinArmorWeight = "light"],
     [GoodHorn EXCEPT !.applicability = "specific"],
     [GoodHorn EXCEPT !.baseItemName = Dagger],
     [GoodHorn EXCEPT !.creatureTargets = <<Target("fey", "harms", NoText, 40000)>>],
     [GoodHorn EXCEPT !.category = "horn"]}

PouchReplies ==
    {[Plain EXCEPT !.variants = <<Variant(Text("gp"), "rare"), Variant(Text("cp"), "common"),
                                  Variant(Text("gp"), "common")>>],
     [Plain EXCEPT !.rarity = "rare"]}

(* Wares: what the browse queries ask for - grades, slots, effects, and    *)
(* attuners named in different spellings and of different kinds.           *)
Lute ==
    [Plain EXCEPT !.rarity = "rare", !.requiresAttunement = TRUE,
                  !.attuners = <<Attuner(Caps(Bard), "class"), Attuner(Text("elf"), "ancestry")>>,
                  !.wornSlot = "main_hand", !.slotProvenance = "stated"]

Harp ==
    [Plain EXCEPT !.rarity = "uncommon", !.requiresAttunement = TRUE,
                  !.attuners = <<Attuner(Padded(Bard), "other")>>]

Drum ==
    [Plain EXCEPT !.rarity = "legendary", !.requiresAttunement = TRUE, !.wornSlot = "main_hand",
                  !.slotProvenance = "inferred"]

Elves == [Harp EXCEPT !.attuners = <<Attuner(Text("elf"), "other")>>]

(* Refused after it has named its attuner. *)
Refused ==
    [Harp EXCEPT !.attuners = <<Attuner(Bard, "ancestry")>>,
                 !.creatureTargets = <<Target("undead", "harms", NoText, 0),
                                       Target("undead", "harms", Padded(NoText), 0)>>]

CatalogReplies ==
    << SharingReplies[1] \cup PouchReplies,
       SharingReplies[2] \cup {Lute, Harp, Refused},
       SharingReplies[3] \cup HornReplies \cup {Drum, Elves, Refused} >>

-----------------------------------------------------------------------------
(* Single replies that what the code says of itself does not cover.        *)

OneItem == <<Surveyed("Fang")>>

BlankBase == << {Specific("weapon", Padded(NoText), "")} >>
(* The least threshold beyond a smallint that becomes a positive one. *)
WideThreshold == << {[Plain EXCEPT !.creatureTargets = <<Target("undead", "harms", NoText, 65537)>>]} >>
=============================================================================
