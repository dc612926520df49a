----------------------------- MODULE Normalized -----------------------------
(***************************************************************************)
(* One model reply between normalization and insertion: the frozen         *)
(* vocabulary, Dedupe and Validate of internal/extraction/extraction.go.   *)
(* A closed field is one of its strings ("" when the model left it out).   *)
(* Open text is only what trimming and lowering can tell apart: which word *)
(* it is ("" for none), whether it is padded with white space, whether it  *)
(* has capitals.  A source label is the set of labels joined in it.        *)
(***************************************************************************)
EXTENDS Integers, Sequences, SequencesExt

Text(word) == [word |-> word, padded |-> FALSE, caps |-> FALSE]

(* The empty text has no capitals. *)
TextValue == {t \in [word : STRING, padded : BOOLEAN, caps : BOOLEAN] : t.word = "" => ~t.caps}

NoText == Text("")
TrimSpace(t) == [t EXCEPT !.padded = FALSE]
ToLower(t) == [t EXCEPT !.caps = FALSE]
IsBlank(t) == TrimSpace(t) = NoText
Canonical(t) == ToLower(TrimSpace(t))

(* The frozen vocabulary (database/schema/types.sql). *)
Categories == {"wondrous_item", "weapon", "armor", "ring", "potion"}
Rarities == {"common", "uncommon", "rare", "very_rare", "legendary", "artifact"}
Wielded == {"main_hand", "off_hand"}
WornSlots == Wielded \cup {"head", "neck", "back", "torso", "hands", "finger", "feet", "none"}
Provenances == {"stated", "inferred"}
Applicability == {"specific", "family_or_class", "any_in_category"}
WeaponFamilies == {"sword", "axe", "hammer", "pick", "shield"}
ArmorWeights == {"light", "medium", "heavy"}
AttunerKinds == {"class", "ancestry", "other"}
Effects ==
    {"attack_bonus", "damage_dealing", "defense_ac", "damage_mitigation", "saves_and_checks",
     "ability_score", "healing", "movement", "control_debuff", "stealth_concealment",
     "spellcasting", "summoning_conjuration", "senses_detection", "hazard", "utility_misc"}
LimitationKinds ==
    {"uses_per_period", "per_rest", "cooldown", "charges", "duration", "depletion",
     "exclusivity", "activation_condition", "proximity", "resistible",
     "target_restriction", "termination", "one_time"}
TargetRoles == {"harms", "controls", "summons", "protects_from", "other"}
CreatureFamilies ==
    {"beast", "construct", "dragon", "elemental", "fey", "fiend", "humanoid", "monstrosity", "undead"}
SpellSchools ==
    {"abjuration", "conjuration", "divination", "enchantment", "evocation", "illusion",
     "necromancy", "transmutation"}

OrEmpty(S) == S \cup {""}
-----------------------------------------------------------------------------
(* A surveyed item as Pass A leaves it; its pages fit a smallint. *)
PageNumbers == 1..32767

SurveyedItem ==
    {src \in [name : TextValue, typeLine : TextValue, varies : BOOLEAN,
              pageStart : PageNumbers, pageEnd : PageNumbers] : src.pageStart <= src.pageEnd}

AttunerRow == [name : TextValue, kind : STRING]
VariantRow == [variantKey : TextValue, rarity : STRING]
EffectRow == [category : STRING, sourceLabel : SUBSET STRING]
TargetRow == [family : STRING, role : STRING, species : TextValue, minCR : Int]
LimitationRow == [kind : STRING, detail : TextValue]
SpellRow == [name : TextValue, school : STRING]

(* What a reply decodes to: any strings, in the vocabulary or not. *)
NormalizedItem ==
    [category : STRING, rarity : STRING, requiresAttunement : BOOLEAN,
     attuners : Seq(AttunerRow), wornSlot : STRING, slotProvenance : STRING,
     handsRequired : Int, applicability : STRING, baseItemName : TextValue,
     baseItemWeaponFamily : STRING, baseItemArmorWeight : STRING,
     appliesWeaponFamily : STRING, appliesMinArmorWeight : STRING,
     variants : Seq(VariantRow), effects : Seq(EffectRow), creatureTargets : Seq(TargetRow),
     limitations : Seq(LimitationRow), spells : Seq(SpellRow)]
-----------------------------------------------------------------------------

(* The elements of s whose key no earlier element has; key[j] is s[j]'s.   *)
Firsts(s, key) ==
    LET kept[i \in 0..Len(s)] ==
          IF i = 0 THEN <<>>
          ELSE IF \E j \in 1..(i - 1) : key[j] = key[i] THEN kept[i - 1]
               ELSE Append(kept[i - 1], s[i])
    IN  kept[Len(s)]

KeepFirst(s, Key(_)) == Firsts(s, [j \in DOMAIN s |-> Key(s[j])])

(* A plausible bug: whatever the category, later tags go into the first. *)
MergeEffectsIntoFirst(s) ==
    IF s = <<>> THEN s
    ELSE << [Head(s) EXCEPT !.sourceLabel = UNION {e.sourceLabel : e \in ToSet(s)}] >>

(* One tag per effect category, carrying every label of that category. *)
MergeEffects(s) ==
    LET tags == KeepFirst(s, LAMBDA e : e.category)
        labels(c) == UNION {e.sourceLabel : e \in {x \in ToSet(s) : x.category = c}}
    IN  [k \in DOMAIN tags |-> [tags[k] EXCEPT !.sourceLabel = labels(tags[k].category)]]

(* A plausible bug: Insert lowers the species, Dedupe does not. *)
TargetKeyVerbatim(t) == <<t.family, t.role, t.species>>

(* The key of a creature target, as the insert lowers its species. *)
TargetKey(t) == <<t.family, t.role, ToLower(t.species)>>

(* The child lists brought to the unique keys of the schema's child tables. *)
Dedupe(n) ==
    [n EXCEPT
        !.effects = MergeEffects(n.effects),
        !.limitations = KeepFirst(n.limitations, LAMBDA l : <<l.kind, l.detail>>),
        !.creatureTargets = KeepFirst(n.creatureTargets, TargetKey),
        !.spells = KeepFirst(n.spells, LAMBDA s : Canonical(s.name)),
        !.attuners = KeepFirst(n.attuners, LAMBDA a : Canonical(a.name)),
        !.variants = KeepFirst(n.variants, LAMBDA v : v.variantKey)]
-----------------------------------------------------------------------------

(* A plausible bug: the slot and its provenance are checked one by one only. *)
ValidSlotUnpaired(n) ==
    /\ n.wornSlot \in OrEmpty(WornSlots)
    /\ n.slotProvenance \in OrEmpty(Provenances)
    /\ n.handsRequired # 0 => n.handsRequired \in 1..2 /\ n.wornSlot \in Wielded

(* Mirror of the slot and hands CHECKs. *)
ValidSlot(n) ==
    /\ n.wornSlot \in OrEmpty(WornSlots)
    /\ n.slotProvenance \in OrEmpty(Provenances)
    /\ n.wornSlot = "" <=> n.slotProvenance = ""
    /\ n.handsRequired # 0 => n.handsRequired \in 1..2 /\ n.wornSlot \in Wielded

(* Mirror of item_applicability_shape. *)
ValidApplicability(n) ==
    /\ n.applicability \in OrEmpty(Applicability)
    /\ n.baseItemWeaponFamily \in OrEmpty(WeaponFamilies)
    /\ n.baseItemArmorWeight \in OrEmpty(ArmorWeights)
    /\ n.appliesWeaponFamily \in OrEmpty(WeaponFamilies)
    /\ n.appliesMinArmorWeight \in OrEmpty(ArmorWeights)
    /\ n.applicability = "specific" <=> n.baseItemName # NoText
    /\ IF n.applicability = "family_or_class"
       THEN n.appliesWeaponFamily = "" <=> n.appliesMinArmorWeight # ""
       ELSE n.appliesWeaponFamily = "" /\ n.appliesMinArmorWeight = ""

ValidChildren(n) ==
    /\ n.attuners # <<>> => n.requiresAttunement
    /\ \A a \in ToSet(n.attuners) : a.kind \in AttunerKinds /\ ~IsBlank(a.name)
    /\ \A v \in ToSet(n.variants) : v.rarity \in OrEmpty(Rarities) /\ ~IsBlank(v.variantKey)
    /\ \A e \in ToSet(n.effects) : e.category \in Effects
    /\ \A t \in ToSet(n.creatureTargets) :
          t.family \in CreatureFamilies /\ t.role \in TargetRoles /\ t.minCR >= 0
    /\ \A l \in ToSet(n.limitations) : l.kind \in LimitationKinds /\ ~IsBlank(l.detail)
    /\ \A s \in ToSet(n.spells) : s.school \in OrEmpty(SpellSchools) /\ ~IsBlank(s.name)

(* Age brackets are one row's qualifier, not several rows. *)
DragonControlRows(n) ==
    {k \in DOMAIN n.creatureTargets :
        n.creatureTargets[k].family = "dragon" /\ n.creatureTargets[k].role = "controls"}

(* Validate returned no error for reply n to surveyed item src. *)
Valid(src, n) ==
    /\ n.category \in Categories
    /\ n.rarity \in OrEmpty(Rarities)
    /\ ValidSlot(n)
    /\ ValidApplicability(n)
    /\ ValidChildren(n)
    /\ src.varies => n.rarity = ""
    /\ \A k, l \in DragonControlRows(n) : k = l
=============================================================================
