------------------------------ MODULE Discover ------------------------------
(***************************************************************************)
(* Pass A, by its two entry points: cmd/discover/main.go, and EnsureSurvey *)
(* (internal/extraction/survey.go), which cmd/extract calls and which      *)
(* loads the artifact of an earlier run when there is one.  Pages are      *)
(* extracted in any order (module FanOut, which the worker pool            *)
(* implements); discover collects failures and goes on, EnsureSurvey       *)
(* returns on the first.  The artifact items.json and the tally of the     *)
(* same items are written one after the other; a crash may cut items.json  *)
(* short.                                                                  *)
(***************************************************************************)
EXTENDS Stitch, Tally

CONSTANTS
    PageCount,   \* pages of the PDF
    Readings,    \* for each page, the extracts a model call may return
    Ranges,      \* values of -pages, as <<first, last>>
    MaxRuns      \* bound on how often a command is started

ASSUME DiscoverAssumption ==
    /\ PageCount \in Nat \ {0}
    /\ SectionStarts \subseteq Nat
    /\ \A p \in 1..PageCount : \A x \in Readings[p] : x \in [page : {p}, lead : BOOLEAN, items : Nat]
    /\ \A r \in Ranges : r[1] \in 1..PageCount /\ r[2] \in r[1]..PageCount
    /\ MaxRuns \in Nat

(* The contents of items.json: all of the items, or cut short by a crash. *)
Whole(items) == [whole |-> TRUE, items |-> items]
CutShort == [whole |-> FALSE, items |-> <<>>]

VARIABLES
    \* durable
    artifact,    \* items.json: {} or {its contents}
    tally,       \* tally.md: {} (none, or cut short) or {the items it was computed from}
    \* one run
    runs,        \* how often a command has been started
    entry,       \* "discover" or "survey" (EnsureSurvey)
    range,       \* the pages of this run
    phase,       \* where it is, or how it ended
    arrived,     \* page extracts in the order their calls returned
    failed,      \* pages whose extraction failed
    stitched,    \* the items, and the warnings
    cursor,      \* the relabel loop's item
    relabelFailed

durable == <<artifact, tally>>
flags == <<runs, entry, range>>
vars == <<durable, flags, phase, arrived, failed, stitched, cursor, relabelFailed>>

Pages == range[1]..range[2]
Ended == {"off", "clean", "failures", "loaded", "fatal", "crashed"}
Running == phase \notin Ended

Forget ==
    /\ arrived' = <<>> /\ failed' = {} /\ stitched' = NoItems /\ cursor' = 1
    /\ relabelFailed' = FALSE

Init ==
    /\ artifact = {} /\ tally = {} /\ runs = 0 /\ phase = "off"
    /\ entry = "discover" /\ range = <<1, PageCount>>
    /\ arrived = <<>> /\ failed = {} /\ stitched = NoItems /\ cursor = 1
    /\ relabelFailed = FALSE
-----------------------------------------------------------------------------

StartDiscover ==
    /\ ~Running /\ runs < MaxRuns
    /\ runs' = runs + 1
    /\ entry' = "discover"
    /\ range' \in Ranges
    /\ phase' = "extracting"
    /\ Forget
    /\ UNCHANGED durable

(* EnsureSurvey without an artifact: the whole PDF. *)
StartSurvey ==
    /\ ~Running /\ runs < MaxRuns
    /\ artifact = {}
    /\ runs' = runs + 1
    /\ entry' = "survey"
    /\ range' = <<1, PageCount>>
    /\ phase' = "extracting"
    /\ Forget
    /\ UNCHANGED durable

(* EnsureSurvey with one: it is parsed and taken as it is, or refused. *)
LoadSurvey ==
    /\ ~Running /\ runs < MaxRuns
    /\ artifact # {}
    /\ runs' = runs + 1
    /\ entry' = "survey"
    /\ range' = <<1, PageCount>>
    /\ phase' = IF artifact = {CutShort} THEN "fatal" ELSE "loaded"
    /\ Forget
    /\ UNCHANGED durable
-----------------------------------------------------------------------------

Unread(p) == p \notin failed /\ \A x \in ToSet(arrived) : x.page # p

(* Plausible bugs, used only to show that the properties notice them:       *)
(* EnsureSurvey collecting failures as discover does; a loop that waits for *)
(* an extract of every page; a tally only of clean runs.                    *)
PageFailsGoesOn(p) ==
    /\ phase = "extracting" /\ Unread(p)
    /\ failed' = failed \cup {p}
    /\ UNCHANGED <<durable, flags, phase, arrived, stitched, cursor, relabelFailed>>

EndExtractWhole ==
    /\ phase = "extracting" /\ Len(arrived) = Cardinality(Pages)
    /\ stitched' = Stitch(arrived) /\ phase' = "relabeling"
    /\ UNCHANGED <<durable, flags, arrived, failed, cursor, relabelFailed>>

WriteTallyIfClean ==
    /\ phase = "tallying"
    /\ IF failed # {} \/ relabelFailed THEN phase' = "failures" /\ UNCHANGED tally
                                       ELSE phase' = "clean" /\ tally' = {stitched.items}
    /\ UNCHANGED <<artifact, flags, arrived, failed, stitched, cursor, relabelFailed>>

PageArrives(p) ==
    /\ phase = "extracting"
    /\ Unread(p)
    /\ \E x \in Readings[p] : arrived' = Append(arrived, x)
    /\ UNCHANGED <<durable, flags, phase, failed, stitched, cursor, relabelFailed>>

(* discover records the failure, EnsureSurvey returns it and extract exits. *)
PageFails(p) ==
    /\ phase = "extracting"
    /\ Unread(p)
    /\ IF entry = "discover"
       THEN failed' = failed \cup {p} /\ UNCHANGED <<phase, arrived, stitched, cursor, relabelFailed>>
       ELSE phase' = "fatal" /\ Forget
    /\ UNCHANGED <<durable, flags>>

EndExtract ==
    /\ phase = "extracting"
    /\ \A p \in Pages : ~Unread(p)
    /\ stitched' = Stitch(arrived)
    /\ phase' = "relabeling"
    /\ UNCHANGED <<durable, flags, arrived, failed, cursor, relabelFailed>>

AtItem == phase = "relabeling" /\ cursor <= Len(stitched.items)

SkipSinglePage ==
    /\ AtItem
    /\ ~NeedsRelabel(stitched.items[cursor])
    /\ cursor' = cursor + 1
    /\ UNCHANGED <<durable, flags, phase, arrived, failed, stitched, relabelFailed>>

(* The labels of the complete text are merged into the item. *)
Relabel ==
    /\ AtItem
    /\ NeedsRelabel(stitched.items[cursor])
    /\ stitched' = [stitched EXCEPT !.items[cursor].relabeled = TRUE]
    /\ cursor' = cursor + 1
    /\ UNCHANGED <<durable, flags, phase, arrived, failed, relabelFailed>>

(* discover keeps the labels of the opening page, EnsureSurvey returns. *)
RelabelFails ==
    /\ AtItem
    /\ NeedsRelabel(stitched.items[cursor])
    /\ IF entry = "discover"
       THEN relabelFailed' = TRUE /\ cursor' = cursor + 1
            /\ UNCHANGED <<phase, arrived, failed, stitched>>
       ELSE phase' = "fatal" /\ Forget
    /\ UNCHANGED <<durable, flags>>

WriteItems ==
    /\ phase = "relabeling"
    /\ cursor > Len(stitched.items)
    /\ artifact' = {Whole(stitched.items)}
    /\ phase' = "tallying"
    /\ UNCHANGED <<tally, flags, arrived, failed, stitched, cursor, relabelFailed>>

(* tally.md, then the exit status. *)
WriteTally ==
    /\ phase = "tallying"
    /\ tally' = {stitched.items}
    /\ phase' = IF failed # {} \/ relabelFailed THEN "failures" ELSE "clean"
    /\ UNCHANGED <<artifact, flags, arrived, failed, stitched, cursor, relabelFailed>>

(* A file being written may be left cut short: items.json, then tally.md,  *)
(* of which a part is as good as none.                                     *)
Writing == phase = "relabeling" /\ cursor > Len(stitched.items)

CutFiles ==
    /\ artifact' \in {artifact} \cup (IF Writing THEN {{CutShort}} ELSE {})
    /\ tally' \in {tally} \cup (IF phase = "tallying" THEN {{}} ELSE {})

(* Rendering, the backend of either pass or a file write fails and the     *)
(* process exits.                                                          *)
Fatal ==
    /\ \/ phase = "extracting" /\ arrived = <<>> /\ failed = {}
       \/ phase = "relabeling" /\ cursor = 1
       \/ Writing
       \/ phase = "tallying"
    /\ phase' = "fatal"
    /\ CutFiles
    /\ Forget
    /\ UNCHANGED flags

(* The process is killed, perhaps while it writes a file.                  *)
Crash ==
    /\ Running
    /\ phase' = "crashed"
    /\ CutFiles
    /\ Forget
    /\ UNCHANGED flags

(* What the program does without the model. *)
Alone == EndExtract \/ SkipSinglePage \/ WriteItems \/ WriteTally \/ Fatal

(* A call that nobody answers returns an error when its context ends.      *)
Deadline == RelabelFails \/ \E p \in Pages : PageFails(p)

Work ==
    \/ Alone
    \/ \E p \in Pages : PageArrives(p) \/ PageFails(p)
    \/ Relabel \/ RelabelFails

Next == StartDiscover \/ StartSurvey \/ LoadSurvey \/ Work \/ Crash

Spec == Init /\ [][Next]_vars

(* A started run takes its own steps, and every file write returns; the    *)
(* model owes no answer, but a call has a deadline.                        *)
FairSpec == Spec /\ WF_vars(Alone) /\ WF_vars(Deadline)
-----------------------------------------------------------------------------

(* While the items are in memory and complete. *)
Stitching == phase \in {"relabeling", "tallying", "clean", "failures"}

(* Whatever order the page calls returned in and whichever failed, the     *)
(* items are those of the extracted pages in page order, and each has the  *)
(* leading text of exactly the pages it runs on to.                        *)
StitchedInOrder == Stitching => IsStitchOf(stitched.items, ToSet(arrived))

(* Leading text is in exactly one place: one item or one warning.          *)
TextConserved ==
    Stitching => \A x \in ToSet(arrived) : Places(stitched, x.page) = IF x.lead THEN 1 ELSE 0

(* An item runs across a section start only when no item was found on the  *)
(* section's first page: it failed, or was read as holding none.           *)
CrossingNeedsEmptyStart ==
    Stitching =>
      \A it \in ToSet(stitched.items), s \in SectionStarts :
         it.start < s /\ s <= it.end =>
            s # it.end /\ \A x \in ToSet(arrived) : x.page = s => x.items = 0

(* "An item cannot straddle two different source documents"                *)
(* (internal/discovery/discovery.go:80-81).                                *)
NeverCrossesSections ==
    Stitching => \A it \in ToSet(stitched.items), s \in SectionStarts : ~(it.start < s /\ s <= it.end)

(* An exit status of 0 from a run that did the survey means every page of  *)
(* it was read and every item that crosses a page was labeled from its     *)
(* whole text; an EnsureSurvey that goes on has read the whole PDF.        *)
CleanMeansComplete ==
    /\ phase = "clean" =>
         /\ {x.page : x \in ToSet(arrived)} = Pages
         /\ \A it \in ToSet(stitched.items) : it.relabeled <=> NeedsRelabel(it)
    /\ entry = "survey" => phase # "failures"

(* After a run that was not cut short items.json and tally.md are about    *)
(* the same items, those in memory, failures or not.                       *)
ArtifactsAgree ==
    phase \in {"clean", "failures"} => artifact = {Whole(stitched.items)} /\ tally = {stitched.items}

(* The tally depends on the survey alone: one look at all surveys is       *)
(* enough, before the first run.                                           *)

(* The counts of every survey are item counts, and in one order only.      *)
CountsAreItems == runs = 0 => \A s \in Surveys : IsExact(s)

(* Whatever the second reading says of an item, the tally keeps the first  *)
(* reading's scalars and oddities, and no list is emptied; it keeps the    *)
(* values of the list too if the second reading is a superset, which       *)
(* nothing in the code checks: Merge replaces a list by a shorter one.     *)
RelabelLosesNothing ==
    runs = 0 =>
      \A s \in Surveys, l \in SecondReadings : \A i \in DOMAIN s : LosesNothing(s, i, l)

(* A started run ends.                                                     *)
EveryRunEnds == Running ~> ~Running
=============================================================================
