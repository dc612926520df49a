# A TLA+ model of the Arcane Oddities pipeline

The repository turns a scanned catalog into a typed PostgreSQL database in two
passes: `cmd/discover` (Pass A) reads the PDF page by page through a model and
writes a survey; `cmd/extract` (Pass B) normalizes every surveyed item through a
model, validates it and loads it, one transaction per item. These modules
describe what the program does when calls fail, answers come back in any order,
the process is killed between two statements and the commands are run again; TLC
checks them on small instances, and the TLA+ proof system proves the central
results for every instance.

Contents: [inventory](#inventory) - [modules](#modules) - [runs](#runs) -
[bounds](#bounds) - [fairness](#fairness) - [proofs](#proofs) -
[what the code says otherwise](#where-the-code-and-its-comments-disagree) -
[what is left out](#what-is-not-modelled) - [plan](#plan)

## Inventory

| component | code | state it keeps | operations |
|---|---|---|---|
| worker pools | `cmd/extract/main.go:93-140`, `cmd/discover/main.go:71-114`, `survey.go:45-73` | two unbuffered channels, wait group, the collector's slices | hand out, call, deliver, close, collect |
| extraction run | `cmd/extract/main.go` | collected replies, failed set, quarantine, counts; `report.md`, `quarantine.json` | provision, survey, normalize, load, reconcile, report |
| Dedupe, Validate | `internal/extraction/extraction.go` | none (pure) | the checks before the database |
| write path | `insert.go`, `queries.sql`, `schema/*.sql` | ten tables and their constraints | one SQL statement at a time in one transaction |
| provisioning | `db/db.go` | the schema; `applied` and `progress` of the pass | execute, next pass, cycle, commit |
| stitching | `internal/discovery/stitch.go` | none (pure: a sort and a loop) | glue, warn, append |
| Pass A | `cmd/discover/main.go`, `survey.go` | `items.json`, `tally.md`; the page extracts | extract, stitch, relabel, write, load |
| model passes, caches | `claude.go`, `relabel.go`, `normalize.go`, `cli.go` | `cache/discovery`, `cache/relabel`, `cache/normalize` | look up, call, decode, truncate, write |
| rendering | `render.go` | `cache/pages`: images and what converters left | reuse, convert, rename, check the size |
| tally | `tally.go`, `Merge` of `relabel.go` | none (pure) | fold in a second reading, count, sort |
| browse queries | `queries.sql:80-107` | none (read only) | four selects |
| operations | `cmd/verify`, `compose.yaml`, and the commands at once | the workspace and the database | ping, up, down -v, any number of extracts and discovers |

How they interact. `cmd/extract` calls `db.Apply`, then `EnsureSurvey`, which
either loads `items.json` or runs Pass A itself; then fans the items out over a
pool whose workers call `Normalize` (a cache file per item and input); then walks
the items in survey order through `Dedupe`, `Validate`, `Begin`, `Insert`, `Commit`.
The two commands share `items.json`, the caches on disk and nothing else; the
database is written by `cmd/extract` alone.

What is hard, and what each component must get right:

* **Pools.** Goroutines interleave; the channel of results is closed by a third
  party; one collector returns early. No job lost or answered twice, no send on
  the closed channel, an end in every case.
* **Extraction run.** A failure or a kill may fall between any two statements,
  the answer to a COMMIT may be lost, and the command will be run again. What is
  taken on is inserted or quarantined, never both, never twice; an item is whole
  or absent; the report is true; a database is loaded by one run only.
* **Dedupe, Validate, write path.** Three copies of the same rules (Go checks, Go
  canonicalization, SQL constraints) must agree, and rows that several items share
  must not depend on the order of the answers.
* **Provisioning.** Order by requirement, a cycle recognized exactly, all or nothing.
* **Pass A.** Pages arrive out of order and some not at all; text must reach the
  item it continues, and a run's exit status must not claim more than was read.
* **Caches and rendering.** Files are written in place, without a lock, by
  processes that are killed; a paid reply must not be lost, a part of a reply or of
  an image never be used, and an old prompt's reply not answer a new question.
* **Operations.** Several commands share `items.json` and one database, which may
  be reset under them.

The hazards are listed line by line in `PROJECT.json`, each with the properties
that would catch it or the reason none does yet.

## Modules

```
FanOut  <--implements--  WorkerPool  <- MCWorkerPool, WorkerPoolProofs
Oracle  <--implements--  PromptCache <- MCPromptCache, PromptCacheProofs
              Backend <- PromptCache
Ledger  <--implements--  Extract     <- Browse <- MCExtract, ExtractProofs
         Normalized <- Catalog <- Extract
Stitch, Tally <- Discover            <- MCDiscover, DiscoverProofs
Induction                            <- ExtractProofs, DiscoverProofs, PromptCacheProofs
Provision                            <- MCProvision, ProvisionProofs
Render                               <- MCRender, RenderProofs
Pipeline                             <- MCPipeline, PipelineProofs
```

**FanOut** (abstract) - what a fan-out promises its caller: a job is settled at
most once, the collection is complete only when every job is settled, or it is
abandoned at the first fatal outcome. **WorkerPool** implements it. A send on an
unbuffered channel and the receive that takes it are one action (`Hand`,
`Deliver`); `job[w]` and `answer[w]` are a worker's local variables;
`FatalOutcomes` is `{}` for the two commands, and the errors for `EnsureSurvey`.
`Deadline` is no further step but the one way of `Call` that is sure to come.
The goroutines that stay blocked after an early return are there: nothing forces
them to move. `Extract` and `Discover` use the promise, not the pool: they settle
items and pages in any order, and leave the phase when all are settled.

**Ledger** (abstract) - what `cmd/extract` promises about the catalog: a blank
database is opened by one run, which places each item it took on at most once, on
the shelf or among the refused; it is closed only when all are placed; once the
run is gone nothing is ever added; a wipe makes it blank again.

**Normalized** - the frozen vocabulary, `Dedupe` and `Validate`. Free text is a
record of word, padding and capitals: what `TrimSpace` and `ToLower` can tell
apart. Padding stands for spaces, which is where Go's `TrimSpace` and the schema's
`btrim` agree. Joined source labels are a set; that a label contained in another
is not joined again is abstracted.

**Catalog** - the tables, `Insert` as the sequence of its statements
(`BaseItemStatement`, the item row, `ChildStatements`), and for each statement
what can refuse it: `RowFits` (domain, CHECK and foreign key) and `Collides`
(unique keys, with `nulls not distinct` for creature targets). `RowFits` refuses a
CHECK only when it is false, as SQL does, and an upsert is checked both as
proposed and as merged. `Int16` wraps as the conversion does. Generated ids are
numbers in order of insertion.

**Extract** - `cmd/extract` as one process over durable state. `phase` is where
`main` is; every SQL statement is an action (`UpsertBaseItem`, `InsertItem`,
`InsertChild`), and so is COMMIT, apart from its answer (`Commit`,
`Acknowledge`): a `Fatal` or `Crash` in between leaves the row in the database
and the count behind. `InsertFails` is the rollback after a refused statement or
a lost connection. As this is the database's only writer, the open transaction is
a private copy of the tables (`txn`). `cache` is the normalize cache: a reply
kept, or none; a refresh that cannot write, or is killed while it writes, loses
the entry. `Provision` and `LoadSurvey` stand for `db.Apply` and `EnsureSurvey`,
which have modules of their own; that Apply applies the schema whole or not at
all, which that action presumes, is the property `AllOrNothing` of module Provision.

**Provision** - `db.Apply`: one action per file executed or skipped, per pass and
per way out (`ExecuteFails`, `Cycle`, `Commit`, `CommitUnknown`, `Crash`).

**Stitch** - `stitch.go`: the sort by page (`ByPage`) and the loop (`StitchPages`,
a recursive function over the sorted extracts), and beside them a definition of
the same result without a loop (`IsStitchOf`): which page's leading text belongs
to which item. Text is the number of the page it stands on.

**Discover** - both entry points of Pass A over `items.json` and `tally.md`.
`discover` collects failures and goes on; `EnsureSurvey` returns on the first, or
loads the artifact, whatever it holds, or refuses one that was cut short.

**Oracle** (abstract) - what a cached model call promises: the answer to a question
is a reply a model once gave to that very question, and with `-refresh` the reply
given to this call. **PromptCache** implements it. A file is its length and its
text, which is empty unless the file holds one whole entry: missing, cut short or
overwritten by a shorter entry are alike, as none of them parses. `Truncate`
and `Write` are the two steps of `os.WriteFile`; `WriteFails` leaves any part of
an entry; `Stop` is an exit or a kill at any step. `Key` is what the file name is
made of, `Question` what the reply depends on. `raced` records the keys that two
calls were asking the model for at once. `cache` in Extract is the same file seen
by one process.

**Backend** - from a backend's message to a reply or an error, for the three passes:
blocks of the API (`DecodeAPI`), text of the CLI (`DecodeCLI`). A tool call is the
fields it states, a text a sequence of tokens. What it accepts is the reply of
`ModelReplies`; an error is `CallFails`. The messages a backend may send are
constants.

**Render** - `RenderPages` called again and again over one `cache/pages`, with every
file it leaves. `output` is what the converter wrote under the name its version
chooses, `image` what stands under the stable name. `ConvertFails` leaves
nothing or a part.

**Tally** - `Merge` and the counters as functions of a survey. One scalar, one list
and the oddities stand for the fields of their kind; `Reread` is one round of the
relabel loop; `Printed` is the set of orders
that a random map order and an unstable sort may print. The surveys, and the second
readings that are merged into them, are constants.

**Browse** - the four selects as functions of Catalog's tables, and properties
that compare what they return, after a run of `cmd/extract`, with what the replies
said.

**Induction** - no part of the program: the induction the proofs use, and what
follows from it about recursion over a sequence and `FlattenSeq`
([below](#proofs)).

**Pipeline** - the commands at once. Results of the other modules are its steps:
`Provision` is one step by `AllOrNothing`, an item's transaction is one by
`WholeItems`, a run of Pass A yields a set of items. The two steps of writing
`items.json` are separate, since readers and other writers come in between.
`overrun` records the runs whose database was reset while they were under way.

The definitions named in `mutants` of `PROJECT.json` (such as `HandShared`) are
plausible bugs; no specification uses them. Each shows that a property notices
the mistake it is there for.

## Runs

| run | checks | shows |
|---|---|---|
| `pool` | TypeOK, ExactlyOnce, NoSendOnClosed, CompleteMeansAll, Termination, ImplementsFanOut | 3 workers, 4 jobs; failures that are collected and failures that end the collector |
| `extract_faults` | TypeOK, Reconciles, WholeItems, KeepsLedger, EveryRunEnds | 2 items, 3 starts, failures, kills and wipes anywhere |
| `extract_catalog` | NoOrphanReferences, FirstStatedWins, LatestKindWins, ReportIsTrue, ItemChecksMirrored, UniqueGrain, AttunableAsSaid, FoundAsSaid | 3 items with every kind of child row that share and contradict base item, spell and attuner; the queries afterwards |
| `discover` | StitchedInOrder, TextConserved, CrossingNeedsEmptyStart, CleanMeansComplete, ArtifactsAgree, EveryRunEnds, CountsAreItems, RelabelLosesNothing | 3 starts of either entry point, every reading of 3 pages in any order, failures, slices, cut files; the tally of every small survey, before and after an item is read again |
| `provision` | TypeOK, DependenciesFirst, CycleMeansKnot, AllOrNothing, CallReturns | every header relation over 3 files, 2 calls |
| `cache` | AnswersAreReplies, RerunIsFree, SpanFindsTheReply, OneCallOneReply | 3 programs, one with an edited prompt, at once or in turn, killed and refreshed; every message of 3 blocks or 5 tokens |
| `render` | ImagesWhole, ReturnedPagesFit | 4 calls at 2 resolutions with 2 converters, killed anywhere |
| `pipeline` | OneLoader, ReconciledIsTrue | 2 extracts and a discover at once, 3 starts, resets at any time |

SpanFindsTheReply, OneCallOneReply, CountsAreItems and RelabelLosesNothing are about
functions (FindsTheReply and IsOneCall of Backend, IsExact and LosesNothing of
Tally): TLC evaluates them on every message, or every survey, of the instance, once,
in the initial state.

Four more runs each find one counterexample (`blank_base_item`, `wide_threshold`,
`section_crossing`, `render_dpi`); see
[below](#where-the-code-and-its-comments-disagree). `CHECK_DEADLOCK FALSE` is set
where the system may stop for good: when the bound on starts is used up. The
pool's run checks for deadlock; its only final states are those in which the
collector has returned (`Returned`).

### Bounds

* `N = 4`, three workers: more jobs than workers, so a worker comes back for a
  second job while others are at their first, and the last jobs are fewer than
  the workers. Outcomes are `ok`, `error` (collected) and `fatal` (returned on); the
  commands meet the first two, `EnsureSurvey` the first and the last.
* `MaxRuns` (starts, calls): three in `extract_faults`, enough for a killed run, a
  run refused by the database it left, and a run after a wipe, with a cache filled
  by another; two in `provision`: on an empty database and on the one left.
* `FlagValues` (of `-limit`), -1, 0, 1 and 3 for two items: all, a proper part, more than
  there are.
* Replies: `FaultReplies` are short, so that faults fall at every statement;
  `SharingReplies` spell one name in several ways and contradict one another in
  family, weight, category and school; `PouchReplies`, Lute, Harp and Drum name attuners
  and slots; each member of `HornReplies` breaks one rule of a reply that
  otherwise has every kind of child row.
* Three pages, sections starting at 1 and 2: page 3 follows the first page of a
  section, which the barrier does not guard. Item counts of 0, 1 or 2 tell "no
  item", "the item" and "the last of several" apart; a slice leaves out page 1.
* Two entries of lengths 1 and 2: a shorter entry over a longer one, and a proper
  part of one. Two programs share a key, a third has the same page and another prompt.
* Text of five tokens: a nested object, fences on both sides of one, two objects,
  stray braces. Three blocks: text, the tool, another tool, in every order.
* Two resolutions, of which page 2 fits at the lower only; two names of output, so
  that one left behind makes the glob ambiguous.
* Surveys of two items whose lists hold up to two values, of four items that list
  nothing, and of one item with oddities: counts that tie, repeats, blanks. Second
  readings of an item that find nothing, less than the first, as much, or blanks.
* Two items in the whole PDF, one in a slice, so that surveys differ in length; three
  starts: two extracts that meet, and one after a reset.
* Three schema files: chains, forks, self-requirements, cycles of two and three,
  an unknown name; all 4096 header assignments.

### Fairness

`WorkerPool!Fairness`: weak fairness of each goroutine's step that does not
depend on a choice (an answer is delivered, a loop exits, the feeder goes on). The
Go scheduler is preemptive, so a step that stays possible is taken. A model owes no
answer: `Call` is not fair, only `Deadline` is, the error a call returns with when
its context ends and the CLI subprocess is killed after ten minutes (`cli.go:47`,
`normalize.go:290`, `relabel.go:248`; for the API the client's own timeout and its
four retries). Take `Deadline` away and Termination fails: that is its mutant. The
processes that the CLI itself may start are assumed to close its output when it is
killed, as `cmd.Run` waits for that. Which idle worker gets a job is not promised.

`Extract`, `Discover` and `Provision` are one process. In the first two `Alone` is
what the program does without a model, and `WF_vars(Alone)` says that a process that
is not killed takes its next step; a model's answer is fair only as far as its
`Deadline`, as in the pool, so that EveryRunEnds holds of a run in which no call is
ever answered. `Provision` calls no model, and has `WF_vars(Work)`. Nobody is obliged to
start a run, to kill or to wipe one. These
assumptions are used only for Termination, EveryRunEnds and CallReturns. `PromptCache`,
`Render` and `Pipeline` state no fairness: what they are checked for is safety.

## Proofs

| module | theorem | establishes, for every value of the constants |
|---|---|---|
| WorkerPoolProofs | TypeCorrect, ExactlyOnceHolds, NeverSendsOnClosed, CompleteHolds | the pool's invariants |
| | PoolImplementsFanOut | `Spec => FO!Spec` |
| ExtractProofs | TypeCorrect, AlwaysReconciles | types; the final comparisons never fail |
| | ExtractKeepsLedger | `Spec => L!Spec` |
| | ItemRowsPassTheirChecks | what `Validate` lets through no CHECK of `item.sql` refuses |
| | CollisionsAreBlankSpecies | after `Dedupe` only species of white space collide |
| | EveryItemWhole, NoReferenceIsOrphaned | an item is its reply's rows, all or none; shared rows are in use |
| | ReportMatchesDatabase | `report.md` is true |
| | FacetsStick, LastKindWins | who decides about a shared row |
| | AttunersAreThoseSaid, ItemsAreFoundAsSaid | the browse queries return what the replies said |
| DiscoverProofs | StitchesInPageOrder, TextIsConserved | the stitched items are those of the reference; text is in one place |
| | CrossingSkipsAStart | the one way to cross a section start |
| | CleanRunsAreComplete, FilesAgree | what exit status 0 and the two files mean |
| | CountsAreExact, RereadingLosesNothing | what `tally.md` counts, before and after `Merge` |
| ProvisionProofs | TypeCorrect, RequirementsComeFirst, CyclesAreReal, ProvisionsWhole | types, order, cycles, all or nothing |
| PromptCacheProofs | CacheImplementsOracle | `Spec => O!Spec` |
| | NothingPaidTwice | what was answered is not paid for again, races apart |
| | SpanIsTheReply, RepliesAreOneCall | what is decoded from any message of either backend |
| RenderProofs | StableImagesAreWhole, PagesReturnedFit | only finished conversions are used, and within the limit |
| PipelineProofs | OneRunLoads, ReconciledRunsAreTrue | one run's rows in a database, of one completed survey |

The assumptions are those the modules name (`PoolAssumption`,
`ExtractAssumption`, `DiscoverAssumption`, `SurveyAssumption`, `ProvisionAssumption`, `CacheAssumption`, `MessagesAssumption`,
`RenderAssumption`, `PipelineAssumption`): counts are naturals, the survey is a sequence of items with their page numbers in
order, the list of files is a sequence, flags are of their types, pages are an
interval, section starts are page numbers, a reply is any value of `NormalizedItem`
(the Go struct: any text, any enum value, any number, lists of any length), a page
is read as any number of items with or without leading text, entries have a length, a message's text is a sequence of
tokens, the input of a block is the fields it states, and a string that is counted is its
rank in string order.
Surveys, replies, readings, headers, numbers of workers, items and files are arbitrary (and the number of
starts is any bound).

*WorkerPool.* `ExactlyOnce` is inductive with the bookkeeping between feeder and
workers: a job in hand or received is below `next`, an idle worker has no
answer, a worker that has exited holds no job, closed jobs mean all handed out,
closed results mean all workers have exited. `CompleteMeansAll` follows at `Finish`: every job is let go, none is in
hand, so each has been received. For the refinement, `Deliver` is `Settle` (the
job was not settled, by ExactlyOnce), `Finish` is `Complete`, all else stutters.

*Extract.* "inserted + quarantined = taken on" is not inductive: it says nothing
while the run is under way, and counts two lists without saying what is in them.
The invariant ties the loop's index `k` to both: the items passed are those that
failed to normalize and those below `k`; the refused and the committed ones are
disjoint and together are the items passed (and, between `Commit` and
`Acknowledge`, item `k`); the quarantine has as many entries as `inserted` leaves
of them, so no item is in it twice; the committed rows have distinct sources and
ids counted from one, and the open transaction adds one row only. `Reconciles` is
the case `k = limit + 1`. For the Ledger, `Commit` is `Land`, the three ways to
quarantine are `Refuse`, `Provision` is `Open`, `Verdict` is `Close`, and `Fatal`
and `Crash` after provisioning are `Leave`, as is the next `Start` on a loaded
database.

*Induction.* The library states induction for a predicate, which needs a
higher-order prover. Here the predicate is a set: if a set of naturals holds 0 and
with each number the next but misses some `n`, adding one maps its members up to
`n` one to one into those members but 0, a smaller finite set (`SetInduction`, from the library's
`FS_Injection`). `BoundedInduction`, `LeastExists`, `Recursion` (a recursive
function over `0..n` exists, and what it satisfies) and `FlattenProperties` follow;
they are what the proofs below use wherever the code loops over data.

*Extract, the tables.* Everything rests on one fact about the pure functions, proved
for every reply: `ChildStatements` of a deduped reply are one statement per
distinct row, and no two of them have one unique key unless they are creature
targets, one with a species of white space (`ChildStretch`; `Dedupe` and the
`ForEach` of Insert are taken list by list). Then, layer by layer on `IInv`:
`RepliesInv` (a reply comes from the model; the load meets one for each item that
did not fail, and opens a transaction for a valid one), `ScriptInv` (`pending` is
the end of that list of statements), `OpenInv` (each open table is the committed
one and the rows of the statements done so far), `TablesInv`. The last two are
what make atomicity provable: at `Commit` the statements done are all of them, so
the new item is whole and each reference row it upserted is referred to by a
row beside it; a rollback leaves the committed tables alone. `CountInv` equates the
counters with the sizes of the tables, one statement at a time; that a row is
counted once needs that the statements are distinct. `SharedInv` says of every
shared row which landed item decided it: the first to state a facet, by the
coalescing upsert, and the last to name an attuner. That is the order of the
survey, since the load takes items in that order; the order in which the replies
came in plays no part. The queries follow from `TablesInv` and `SharedInv`;
`FoundAsSaid` compares with the reply before `Dedupe` and needs besides that an
item has one reply (`OneReply`), and that the sizes of the classes of a finite set
add up to its size.

*Discover.* `Stitches(acc, P)` says that the loop has made of the extracts `P` what
the reference asks for, and that the warnings are the text no item can take. It holds
of no extracts, and of `P` and a later page if it holds of `P`: a later page
changes no earlier page's owner, and the owner of its text is the last item
(`OwnerIsLast`). That `ByPage` sorts is a counting argument: on extracts of different
pages, the number of extracts before one is one to one, hence onto the places.
`DiscoverInv` carries this through the run: the extracts read are one of a page at
most, what is in memory is them stitched (a label changes no text), items before
the cursor have the labels of their whole text unless one failed, and the files
hold what is in memory once written. `TextConserved` then counts: a page's text
is in the warnings, which increase, or glued to its one owner, whose pages
increase.

*Tally.* That `tally.md` does not depend on map order or the sort: no two rows have one
value, so `Before` orders any two of them; the number of rows before a row is one to
one, so each row has its place, and in any sequence that `Before` does not forbid it
stands there. A list field is counted over a flattened sequence of lists, whose
places are, one to one, the places of the lists (`FlattenLists`). An item that states
a word has such a place, so no item is missed; with more places than items two
places are in one item (the pigeonhole principle), and its list is longer than its
set of words. Merging a second reading into an item keeps every place of a scalar
that is not empty and of an oddity, and adds a place of the empty word only where the
new list has one. A list value may lose its places, for a list that is replaced is
gone; under `IsSuperset`, which says of one reading what the comment of `Merge` says
of all, the item still states it, and so it counts for each item that stated it.

*Provision.* That a schema with a cycle is never provisioned does not follow from
`DependenciesFirst`, which a cycle of executed files satisfies. The invariant
adds that the executed files contain no knot (a set each of whose members
requires another of its members): executing a file whose requirements are all
executed cannot close one. Conversely a pass without progress has looked at every
file and left each that remains with a requirement not executed, so those that
remain are a knot.

*PromptCache.* For the Oracle: whatever a file holds has been given to the question
in its name, and is one reply at a time; whatever a call holds has been given to
its question; `-refresh` is common to a process. `Write` and `Hit` are `Answer`,
`ModelReplies` is `Speak`, `Start` and `Stop` are `Restart`, all file steps stutter.
For `NothingPaidTwice`: an entry that was paid for, under a key that never raced, is
whole in its file; and of the calls busy with that key there is at most one,
a refresh, which takes it off `paid` when it truncates. The two theorems on decoding
hold of every message, of any length, so of every state. An object opens with its
first token and closes with another, so it is a span; a text without a span is not
an object, for its first brace would stay open; and of the spans one contains all
others, from the first `{` to the last `}` (`LeastExists`, forwards and backwards).

*Render.* `ImagesWhole` is not inductive: `Rename` moves the one output there is, and
that it is this call's finished one follows from `Finished`: the conversion under
this call's name is whole, so no other name can be the only one. A page that was
returned has an image, so it is not converted again, and keeps it.

*Pipeline.* `OneLoader` needs that a run past `db.Apply` owns the schema or was
overrun, that two runs under way are different runs, and that a run without rows
of its own is not yet loading; `ReconciledIsTrue` adds that what parses in
`items.json`, or is on its way there, is a completed survey.

Model-checked only: the expected violations. Out of the prover's reach, and left to TLC: liveness under
fairness and ENABLED (Termination, EveryRunEnds, CallReturns). No module uses a
RECURSIVE operator; the loop of `Stitch` is a recursive function.

## Where the code and its comments disagree

* **A base item of white space** (`blank_base_item`): `Validate` compares the name
  with `""` (`extraction.go:248`), the insert trims it, the domain `nonempty_text`
  refuses it in the transaction - which `extraction.go:204-207` says does not
  happen. The item is still quarantined.
* **A threshold beyond a smallint** (`wide_threshold`): `int16(v)`
  (`insert.go:165`) wraps; 65537 is stored as 1, against "never bent to fit"
  (`cmd/extract/main.go:11`).
* **Section barriers** (`section_crossing`): only the section's first page is a
  barrier. If it yields no item, text on the next page goes to the last item of
  the section before, against `discovery.go:79-81`. `CrossingNeedsEmptyStart`
  shows that there is no other way to cross.

* **A second reading that lists less** (no run of its own): `Merge` replaces a list
  as soon as the second reading lists anything (`relabel.go:184-198`). That "its read
  is a superset of the first page's" (`relabel.go:179-180`) is a hope about a model's
  reply which nothing checks: what only the first reading listed is gone from
  `items.json` and `tally.md`. `RelabelLosesNothing` says what holds whatever the
  second reading says, and that the lists lose nothing if it is a superset; TLC
  refutes it without that assumption (`IsSuperset` replaced by `TRUE`).

* **A page over the limit** (`render_dpi`): the big image stays under the page's
  name, which does not say the resolution, so "lower -dpi" (`render.go:51`) fails
  in the same way until the file is removed.

Met on the way; a property states the exception, or why there is none:

* Species `""` and `" "` survive `Dedupe` (`extraction.go:163`) and collide as
  NULLs, against `extraction.go:125-130`; `UniqueGrain` shows it is the only collision.
* Two programs that miss at once: one may truncate the entry the other was
  answered from and be killed (`claude.go:189`), so "zero API calls"
  (`claude.go:101-102`) does not hold then; `RerunIsFree` excepts raced keys only.
* A tool call cut off by the token limit is accepted when it still parses
  (`claude.go:227-235`), though `claude.go:236-237` says a truncation "lands here".
* An oddity both readings remark on counts twice (`relabel.go:208`) where
  `tally.go:19` says "item counts"; `CountsAreItems` excepts repeats only.
* An item graded by variant has no rarity and is found at none
  (`queries.sql:85`); `AttunableAsSaid` is about the item's own rarity.
* A reset "at any time" (`SETUP.md:17`) under an extract makes it load the rest of
  its items into the next run's database; `OneLoader` excepts such runs only.
* A cut `items.json` (`survey.go:24`) makes every extract fail after provisioning,
  until it is removed; `ReconciledIsTrue` shows that it is never loaded.
* `compose.yaml:3-4` says `verify` reprovisions; `cmd/verify` only pings.
* Attuner kinds are overwritten by the latest item (`queries.sql:39`) while base
  items and spells keep the first: `LatestKindWins`, `FirstStatedWins`.
* `quarantine.json` of an earlier run survives a clean one; an invalid reply stays
  cached until `-refresh`; `EnsureSurvey` loads an `items.json` of a slice.

## What is not modelled

* The wording of prompts and JSON schemas: a prompt is a value in a question. Two
  JSON entries blended by overlapping writes are taken not to parse; a blend
  that happens to parse as a third is left out.
* Labels in `Discover` (an item is relabeled or it is not); `Merge` itself is in `Tally`.
* Text layout of `tally.md` and `report.md`; the order of a query's rows.
* Two commands that render the same page at once: one could rename the file the
  other's converter still writes. `Render` is one process called repeatedly.
* That an image which has its stable name is not converted again is the guard of
  `Convert`, and no property of its own.
* Columns no rule looks at (descriptions, drawbacks, qualifiers, consumable and
  cursed flags), triggers and timestamps; generated ids never collide.
* `report.md` and `quarantine.json` cut short by a kill: they are written whole or
  not at all. Nothing in the program reads them.
* In `Extract`: other writers to the database and changes to the survey between two
  runs; both are in `Pipeline`, with an item as one step.
* Schema embedding and sqlc's boilerplate (`schema.go`, `db.go` of `generated`).
* How `requiresOf` finds the header in a file's text.

## Plan

Done, in this order, most important first: the pool, the extraction run with its
write path and Ledger, Pass A, provisioning, with the proofs of pool, extraction and
provisioning; then the reply cache and its Oracle, the decoding of replies,
rendering, the tally, the queries, and the commands at once, with the proofs of
cache, rendering and pipeline. Every component with behaviour of its own has its
module.

Then the proofs of the extraction run's tables, report, shared rows and queries, of
the decoding of replies, and of Pass A and its tally, with `Stitch` and `Backend`
restated so that their sort, loop and searches can be reasoned about.

Every safety property that a run checks is now also a theorem. Next: the arithmetic of
`Int16` as lemmas.
