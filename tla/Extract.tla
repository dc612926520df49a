------------------------------ MODULE Extract ------------------------------
(***************************************************************************)
(* cmd/extract/main.go from start to exit, run again and again against one *)
(* database: provision, load the survey, normalize every item, load the    *)
(* catalog one transaction per item, reconcile, report.  The normalize     *)
(* phase settles the items in any order (module FanOut, which the worker   *)
(* pool implements); the load is sequential and every SQL statement is a   *)
(* step, so a failure or a crash may fall between any two.                 *)
(*                                                                         *)
(* Only this program writes to the database, so a transaction is a private *)
(* copy of the tables that replaces them at commit.                        *)
(***************************************************************************)
EXTENDS Catalog

CONSTANTS
    Survey,      \* notes/discovery/items.json: the surveyed items in order
    Replies,     \* for each item, the replies the model may give
    Limits,      \* values of -limit, 0 or less for all
    Refreshes,   \* values of -refresh
    MaxRuns      \* bound on how often the command is started

Items == 1..Len(Survey)

ASSUME ExtractAssumption ==
    /\ Survey \in Seq(SurveyedItem)
    /\ \A i \in Items : Replies[i] \subseteq NormalizedItem
    /\ Limits \subseteq Int
    /\ Refreshes \subseteq BOOLEAN
    /\ MaxRuns \in Nat

VARIABLES
    \* durable
    provisioned,     \* the schema has been applied
    db,              \* the committed tables
    cache,           \* cache/normalize: {} or the one reply kept for an item
    report,          \* notes/extraction/report.md: {} or its contents
    quarantineFile,  \* notes/extraction/quarantine.json: {} or its contents
    \* one run of the process
    runs,            \* how often the command has been started
    phase,           \* where main is, or how the last run ended
    limit,           \* how many items this run takes on
    refresh,         \* ignore the cache
    normalized,      \* {} or the reply collected for an item
    failed,          \* items whose normalization failed
    quarantine,      \* what did not land, in order
    k,               \* the load loop's item
    txn,             \* the open transaction's view of the tables
    pending,         \* the statements Insert has still to execute
    counts,          \* the child rows Insert has written in this transaction
    inserted,        \* items committed
    totals           \* child rows of the items committed

files == <<cache, report, quarantineFile>>
durable == <<provisioned, db, files>>
flags == <<runs, limit, refresh>>
outcomes == <<normalized, failed>>
tx == <<txn, pending, counts>>
tally == <<inserted, totals>>
vars == <<durable, flags, phase, outcomes, quarantine, k, tx, tally>>

NoCounts == [c \in ChildTables |-> 0]
Taken == 1..limit

Ended == {"off", "clean", "quarantined", "mismatch", "fatal", "crashed"}
Running == phase \notin Ended

(* What main starts with, and what is lost when the process ends early. *)
FreshMemory ==
    /\ normalized' = [i \in Items |-> {}] /\ failed' = {} /\ quarantine' = <<>>
    /\ k' = 1 /\ txn' = EmptyCatalog /\ pending' = <<>> /\ counts' = NoCounts
    /\ inserted' = 0 /\ totals' = NoCounts

Forget == limit' = 0 /\ refresh' = FALSE /\ FreshMemory

Init ==
    /\ provisioned = FALSE /\ db = EmptyCatalog
    /\ cache = [i \in Items |-> {}] /\ report = {} /\ quarantineFile = {}
    /\ runs = 0 /\ phase = "off" /\ limit = 0 /\ refresh = FALSE
    /\ normalized = [i \in Items |-> {}] /\ failed = {} /\ quarantine = <<>>
    /\ k = 1 /\ txn = EmptyCatalog /\ pending = <<>> /\ counts = NoCounts
    /\ inserted = 0 /\ totals = NoCounts
-----------------------------------------------------------------------------

(* Plausible bugs, used only to show that the properties notice them.      *)

(* items[:limit] without comparing with the length. *)
TakenOnUnchecked(flag) == IF flag > 0 THEN flag ELSE Len(Survey)

(* The schema files say "if not exists". *)
ProvisionAgain ==
    /\ phase = "provisioning"
    /\ provisioned' = TRUE
    /\ phase' = "surveying"
    /\ UNCHANGED <<db, files, flags, outcomes, quarantine, k, tx, tally>>

(* The collector waits for an answer to every item, not for a result. *)
EndNormalizeAnswered ==
    /\ phase = "normalizing"
    /\ \A i \in Taken : normalized[i] # {}
    /\ phase' = "loading"
    /\ UNCHANGED <<durable, flags, outcomes, quarantine, k, tx, tally>>

(* The child rows are written through the pool, not the transaction. *)
InsertChildAutocommit ==
    /\ phase = "inserting" /\ pending # <<>>
    /\ txn' = Execute(txn, Head(pending))
    /\ db' = IF Head(pending).table \in ChildTables THEN Execute(db, Head(pending)) ELSE db
    /\ counts' = [c \in ChildTables |-> counts[c] + (IF c = Head(pending).table THEN 1 ELSE 0)]
    /\ pending' = Tail(pending)
    /\ UNCHANGED <<provisioned, files, flags, phase, outcomes, quarantine, k, tally>>

(* The "continue" after the rollback is missing. *)
InsertFailsCounted ==
    /\ phase = "inserting" /\ pending # <<>>
    /\ quarantine' = Append(quarantine, [item |-> k, stage |-> "insert"])
    /\ txn' = EmptyCatalog /\ pending' = <<>> /\ counts' = NoCounts
    /\ phase' = "loading" /\ k' = k + 1 /\ inserted' = inserted + 1
    /\ UNCHANGED <<durable, flags, outcomes, totals>>

(* The counts of a failed Insert are added to the totals. *)
InsertFailsTallied ==
    /\ phase = "inserting" /\ pending # <<>>
    /\ quarantine' = Append(quarantine, [item |-> k, stage |-> "insert"])
    /\ txn' = EmptyCatalog /\ pending' = <<>> /\ counts' = NoCounts
    /\ phase' = "loading" /\ k' = k + 1
    /\ totals' = [c \in ChildTables |-> totals[c] + counts[c]]
    /\ UNCHANGED <<durable, flags, outcomes, inserted>>

(* What was written before the failure is committed. *)
InsertFailsKept ==
    /\ phase = "inserting" /\ pending # <<>>
    /\ quarantine' = Append(quarantine, [item |-> k, stage |-> "insert"])
    /\ db' = txn /\ txn' = EmptyCatalog /\ pending' = <<>> /\ counts' = NoCounts
    /\ phase' = "loading" /\ k' = k + 1
    /\ UNCHANGED <<provisioned, files, flags, outcomes, tally>>
-----------------------------------------------------------------------------

(* -limit cuts the survey only when it is positive and shorter. *)
TakenOn(flag) == IF flag > 0 /\ flag < Len(Survey) THEN flag ELSE Len(Survey)

Start ==
    /\ ~Running
    /\ runs < MaxRuns
    /\ runs' = runs + 1
    /\ phase' = "provisioning"
    /\ \E flag \in Limits : limit' = TakenOn(flag)
    /\ refresh' \in Refreshes
    /\ FreshMemory
    /\ UNCHANGED durable

(* db.Apply commits the schema; on a provisioned database it errors (Fatal). *)
Provision ==
    /\ phase = "provisioning"
    /\ ~provisioned
    /\ provisioned' = TRUE
    /\ phase' = "surveying"
    /\ UNCHANGED <<db, files, flags, outcomes, quarantine, k, tx, tally>>

(* The PDF is there, the survey loads, the backend is available. *)
LoadSurvey ==
    /\ phase = "surveying"
    /\ phase' = "normalizing"
    /\ UNCHANGED <<durable, flags, outcomes, quarantine, k, tx, tally>>
-----------------------------------------------------------------------------
(* Normalize(i), with the collector's step for its result.                 *)

Unsettled(i) == normalized[i] = {} /\ i \notin failed

Quarantine(i, stage) == quarantine' = Append(quarantine, [item |-> i, stage |-> stage])

Collected(i, n) ==
    /\ normalized' = [normalized EXCEPT ![i] = {n}]
    /\ UNCHANGED <<failed, quarantine>>

CacheHit(i) ==
    /\ phase = "normalizing"
    /\ Unsettled(i)
    /\ ~refresh
    /\ \E n \in cache[i] : Collected(i, n)
    /\ UNCHANGED <<durable, flags, phase, k, tx, tally>>

(* The call answers and the reply is kept for the next run. *)
LiveReply(i) ==
    /\ phase = "normalizing"
    /\ Unsettled(i)
    /\ refresh \/ cache[i] = {}
    /\ \E n \in Replies[i] :
          /\ cache' = [cache EXCEPT ![i] = {n}]
          /\ Collected(i, n)
    /\ UNCHANGED <<provisioned, db, report, quarantineFile, flags, phase, k, tx, tally>>

(* The call fails; or its reply cannot be written, which also discards what *)
(* the file held (a truncated entry is read as a miss).                     *)
LiveError(i) ==
    /\ phase = "normalizing"
    /\ Unsettled(i)
    /\ refresh \/ cache[i] = {}
    /\ cache' \in {cache, [cache EXCEPT ![i] = {}]}
    /\ Quarantine(i, "normalize")
    /\ failed' = failed \cup {i}
    /\ UNCHANGED <<provisioned, db, report, quarantineFile, flags, phase, normalized, k, tx,
                   tally>>

(* A call that nobody answers returns an error when its context ends.       *)
Deadline(i) == LiveError(i) /\ UNCHANGED cache

EndNormalize ==
    /\ phase = "normalizing"
    /\ \A i \in Taken : ~Unsettled(i)
    /\ phase' = "loading"
    /\ UNCHANGED <<durable, flags, outcomes, quarantine, k, tx, tally>>
-----------------------------------------------------------------------------
(* The load loop, at item k.                                               *)

Reply(i) == Dedupe(CHOOSE n \in normalized[i] : TRUE)

Loadable(i) == i \in Taken \ failed /\ Valid(Survey[i], Reply(i))

SkipFailed ==
    /\ phase = "loading"
    /\ k \in Taken \cap failed
    /\ k' = k + 1
    /\ UNCHANGED <<durable, flags, phase, outcomes, quarantine, tx, tally>>

RejectInvalid ==
    /\ phase = "loading"
    /\ k \in Taken \ failed
    /\ ~Valid(Survey[k], Reply(k))
    /\ Quarantine(k, "validate")
    /\ k' = k + 1
    /\ UNCHANGED <<durable, flags, phase, outcomes, tx, tally>>

Begin ==
    /\ phase = "loading"
    /\ Loadable(k)
    /\ txn' = db
    /\ pending' = ChildStatements(NextId(db), Reply(k))
    /\ counts' = NoCounts
    /\ phase' = IF Reply(k).applicability = "specific" THEN "begun" ELSE "based"
    /\ UNCHANGED <<durable, flags, outcomes, quarantine, k, tally>>

Row == ItemRow(NextId(db), k, Survey[k], Reply(k))

(* The statement Insert is at. *)
InTransaction ==
    \/ phase \in {"begun", "based"}
    \/ phase = "inserting" /\ pending # <<>>

Current ==
    CASE phase = "begun" -> BaseItemStatement(Reply(k))
      [] phase = "based" -> Statement("item", Row)
      [] OTHER -> Head(pending)

UpsertBaseItem ==
    /\ phase = "begun"
    /\ Accepts(txn, Current)
    /\ txn' = Execute(txn, Current)
    /\ phase' = "based"
    /\ UNCHANGED <<durable, flags, outcomes, quarantine, k, pending, counts, tally>>

InsertItem ==
    /\ phase = "based"
    /\ Accepts(txn, Current)
    /\ txn' = AddItem(txn, Row)
    /\ phase' = "inserting"
    /\ UNCHANGED <<durable, flags, outcomes, quarantine, k, pending, counts, tally>>

(* A child row, or the attuner kind or spell it is about to name. *)
InsertChild ==
    /\ phase = "inserting"
    /\ pending # <<>>
    /\ Accepts(txn, Current)
    /\ txn' = Execute(txn, Current)
    /\ counts' = [c \in ChildTables |-> counts[c] + (IF c = Current.table THEN 1 ELSE 0)]
    /\ pending' = Tail(pending)
    /\ UNCHANGED <<durable, flags, phase, outcomes, quarantine, k, tally>>

(* A constraint refuses the statement, or the connection fails: rollback. *)
InsertFails ==
    /\ InTransaction
    /\ Quarantine(k, "insert")
    /\ txn' = EmptyCatalog /\ pending' = <<>> /\ counts' = NoCounts
    /\ phase' = "loading"
    /\ k' = k + 1
    /\ UNCHANGED <<durable, flags, outcomes, tally>>

(* The server commits.  Until main has its answer, the answer may be lost. *)
Commit ==
    /\ phase = "inserting"
    /\ pending = <<>>
    /\ db' = txn
    /\ txn' = EmptyCatalog
    /\ phase' = "committed"
    /\ UNCHANGED <<provisioned, files, flags, outcomes, quarantine, k, pending, counts, tally>>

Acknowledge ==
    /\ phase = "committed"
    /\ inserted' = inserted + 1
    /\ totals' = [c \in ChildTables |-> totals[c] + counts[c]]
    /\ counts' = NoCounts
    /\ phase' = "loading"
    /\ k' = k + 1
    /\ UNCHANGED <<durable, flags, outcomes, quarantine, txn, pending>>

EndLoad ==
    /\ phase = "loading"
    /\ k \notin Taken
    /\ phase' = "counting"
    /\ UNCHANGED <<durable, flags, outcomes, quarantine, k, tx, tally>>
-----------------------------------------------------------------------------
(* CountItemsByCategory summed, the two files, the two comparisons.        *)

DbTotal == Cardinality(db.item)

WriteReport ==
    /\ phase = "counting"
    /\ report' = {[taken |-> limit, inserted |-> inserted, quarantine |-> quarantine,
                   database |-> DbTotal, children |-> totals]}
    /\ phase' = "reporting"
    /\ UNCHANGED <<provisioned, db, cache, quarantineFile, flags, outcomes, quarantine, k, tx,
                   tally>>

(* An empty quarantine leaves the file as it was. *)
WriteQuarantine ==
    /\ phase = "reporting"
    /\ quarantineFile' = IF quarantine # <<>> THEN {quarantine} ELSE quarantineFile
    /\ phase' = "verdict"
    /\ UNCHANGED <<provisioned, db, cache, report, flags, outcomes, quarantine, k, tx, tally>>

Verdict ==
    /\ phase = "verdict"
    /\ phase' = IF inserted + Len(quarantine) # limit \/ DbTotal # inserted THEN "mismatch"
                ELSE IF quarantine # <<>> THEN "quarantined" ELSE "clean"
    /\ UNCHANGED <<durable, flags, outcomes, quarantine, k, tx, tally>>
-----------------------------------------------------------------------------

(* fatal: the connection, Apply, the PDF, the survey, the backend, Begin,  *)
(* Commit, the count or a file write failed, and the process exits.        *)
Fatal ==
    /\ \/ phase \in {"provisioning", "surveying", "committed", "counting", "reporting"}
       \/ phase = "loading" /\ Loadable(k)
       \/ phase = "inserting" /\ pending = <<>>
    /\ phase' = "fatal"
    /\ Forget
    /\ UNCHANGED <<durable, runs>>

(* The process is killed: the server rolls an open transaction back, and   *)
(* the cache entries being rewritten may be cut short.                     *)
Crash ==
    /\ Running
    /\ phase' = "crashed"
    /\ \E torn \in SUBSET {i \in Taken : phase = "normalizing" /\ Unsettled(i) /\ refresh} :
          cache' = [i \in Items |-> IF i \in torn THEN {} ELSE cache[i]]
    /\ Forget
    /\ UNCHANGED <<provisioned, db, report, quarantineFile, runs>>

(* docker compose down -v && docker compose up -d.                         *)
Wipe ==
    /\ ~Running
    /\ provisioned
    /\ provisioned' = FALSE
    /\ db' = EmptyCatalog
    /\ phase' = "off"
    /\ Forget
    /\ UNCHANGED <<files, runs>>

(* What the program does without the model. *)
Alone ==
    \/ Provision \/ LoadSurvey
    \/ \E i \in Taken : CacheHit(i)
    \/ EndNormalize
    \/ SkipFailed \/ RejectInvalid \/ Begin \/ UpsertBaseItem \/ InsertItem \/ InsertChild
    \/ InsertFails \/ Commit \/ Acknowledge
    \/ EndLoad \/ WriteReport \/ WriteQuarantine \/ Verdict \/ Fatal

Work == Alone \/ \E i \in Taken : LiveReply(i) \/ LiveError(i)

Next == Start \/ Work \/ Crash \/ Wipe

Spec == Init /\ [][Next]_vars

(* A started process takes its own steps until it exits: every SQL         *)
(* statement and file write returns.  The model owes no answer, but a call *)
(* has a deadline.  Nobody has to start or wipe.                           *)
FairSpec == Spec /\ WF_vars(Alone) /\ WF_vars(\E i \in Taken : Deadline(i))
-----------------------------------------------------------------------------

Stages == {"normalize", "validate", "insert"}
Phases ==
    Ended \cup {"provisioning", "surveying", "normalizing", "loading", "begun", "based",
                "inserting", "committed", "counting", "reporting", "verdict"}

TypeOK ==
    /\ provisioned \in BOOLEAN
    /\ runs \in 0..MaxRuns
    /\ phase \in Phases
    /\ limit \in 0..Len(Survey)
    /\ refresh \in BOOLEAN
    /\ cache \in [Items -> SUBSET UNION {Replies[i] : i \in Items}]
    /\ normalized \in [Items -> SUBSET UNION {Replies[i] : i \in Items}]
    /\ failed \subseteq Items
    /\ quarantine \in Seq([item : Items, stage : Stages])
    /\ k \in 1..(limit + 1)
    /\ counts \in [ChildTables -> Nat]
    /\ inserted \in Nat
    /\ totals \in [ChildTables -> Nat]

(* Whose catalog the database holds: nobody's, that of the run under way,   *)
(* that of the run just completed, or one left by a run that is gone.      *)
book ==
    CASE ~provisioned -> "blank"
      [] provisioned /\ Running /\ phase # "provisioning" -> "open"
      [] provisioned /\ phase \in {"clean", "quarantined"} -> "closed"
      [] OTHER -> "shut"

LoadedHere == book \in {"open", "closed"}

(* The two comparisons main ends with never fail: whatever is refused,     *)
(* rolled back or skipped, inserted + quarantined is what was taken on and *)
(* the database holds what was counted.                                    *)
Reconciles == phase # "mismatch"

RowsOf(t, c, id) == {x \in t[c] : x.item = id}
StatementRows(c, ss) == {s.row : s \in {x \in ToSet(ss) : x.table = c}}

(* During and after the load every committed item is whole: its row and    *)
(* exactly the child rows its own reply asks for, with nothing left behind *)
(* by the transactions that were rolled back.                              *)
WholeItems ==
    /\ LoadedHere =>
         \A r \in db.item :
            LET ss == ChildStatements(r.id, Reply(r.src))
            IN  /\ r = ItemRow(r.id, r.src, Survey[r.src], Reply(r.src))
                /\ \A c \in ChildTables : RowsOf(db, c, r.id) = StatementRows(c, ss)
    /\ \A c \in ChildTables : \A x \in db[c] : \E r \in db.item : r.id = x.item

(* A reference row exists only because a committed item uses it: rollback  *)
(* takes back the base items, attuner kinds and spells upserted before the *)
(* statement that failed.                                                  *)
NoOrphanReferences ==
    /\ \A b \in DOMAIN db.baseItem : \E r \in db.item : b \in r.baseItem
    /\ \A a \in DOMAIN db.attunerKind : \E x \in db.allowlist : x.kind = a
    /\ \A s \in DOMAIN db.spell : \E x \in db.itemSpell : x.spell = s

(* What report.md says is what the database holds: the items, their child  *)
(* rows, and, for every item that is not there, one quarantine entry.      *)
ReportIsTrue ==
    phase \in {"clean", "quarantined"} =>
       \A r \in report :
          LET quarantined == {q.item : q \in ToSet(r.quarantine)}
          IN  /\ r.inserted = Cardinality(db.item)
              /\ \A c \in ChildTables : r.children[c] = Cardinality(db[c])
              /\ quarantined = 1..r.taken \ {m.src : m \in db.item}
              /\ Cardinality(quarantined) = Len(r.quarantine)

(* "Facets stick once curated": a base item's family and weight, and a     *)
(* spell's school, are those of the first committed item, in survey order, *)
(* that states one, however the results of the worker pool were ordered.   *)
Landed == {r.src : r \in db.item}

(* What the first of the items of S that state a facet states; {} if none. *)
FirstStated(S, facet) ==
    LET stating == {i \in S : facet[i] # {}}
    IN  IF stating = {} THEN {} ELSE facet[CHOOSE i \in stating : \A j \in stating : i <= j]

Naming(b) ==
    {i \in Landed : Reply(i).applicability = "specific" /\ Canonical(Reply(i).baseItemName) = b}
Families == [i \in Landed |-> EnumPtr(Reply(i).baseItemWeaponFamily)]
Weights == [i \in Landed |-> EnumPtr(Reply(i).baseItemArmorWeight)]
Schools(s) ==
    [i \in Landed |-> {x.school : x \in {y \in ToSet(Reply(i).spells) :
                                           Canonical(y.name) = s /\ y.school # ""}}]

FirstStatedWins ==
    phase \in {"clean", "quarantined"} =>
       /\ \A b \in DOMAIN db.baseItem :
             /\ db.baseItem[b].family = FirstStated(Naming(b), Families)
             /\ db.baseItem[b].weight = FirstStated(Naming(b), Weights)
       /\ \A s \in DOMAIN db.spell : db.spell[s] = FirstStated(Landed, Schools(s))

(* A reply Validate let through never fails a CHECK of item.sql.           *)
ItemChecksMirrored ==
    phase = "based" => ItemChecks(Row)

(* After Dedupe an item collides with itself on a unique key only through  *)
(* creature targets whose species is white space (stored as NULL).         *)
UniqueGrain ==
    InTransaction /\ Collides(txn, Current)
       => \E t \in ToSet(Reply(k).creatureTargets) : IsBlank(t.species) /\ t.species # NoText

(* A shape violation is caught by Validate instead of surfacing as a       *)
(* constraint error in the middle of a transaction (extraction.go:204-207).*)
ValidateComesFirst ==
    InTransaction => RowFits(txn, Current)

(* Items that do not fit are never bent to fit (cmd/extract/main.go:11):   *)
(* a threshold is stored as the reply has it.                              *)
NeverBentToFit ==
    LoadedHere =>
      \A r \in db.item : \A t \in ToSet(Reply(r.src).creatureTargets) :
         t.minCR # 0
           => \E x \in db.target : /\ x.item = r.id /\ x.family = t.family /\ x.role = t.role
                                   /\ x.minCR = {t.minCR}

(* A run that starts comes to an end.                                      *)
EveryRunEnds == Running ~> ~Running
-----------------------------------------------------------------------------
(* The run as the Ledger sees it.                                          *)

L == INSTANCE Ledger WITH
       taken <- IF LoadedHere THEN Taken ELSE {},
       shelf <- [i \in Items |-> Cardinality({r \in db.item : r.src = i})],
       refused <- IF LoadedHere THEN {q.item : q \in ToSet(quarantine)} ELSE {}

(* The load keeps the ledger, through every crash, retry and wipe.         *)
KeepsLedger == L!Spec
=============================================================================
