--------------------------- MODULE ExtractProofs ---------------------------
(***************************************************************************)
(* cmd/extract for any survey, any replies and any number of runs.         *)
(*                                                                         *)
(* The invariant grows by layers, each proved on top of the one before:    *)
(*   IInv        types, where main is, and the account of the items: the   *)
(*               reconciliation at the end of main, and the Ledger         *)
(*   (lemmas)    the statements Insert makes of a reply, for any reply:    *)
(*               one for each distinct row, no two with one unique key     *)
(*   RepliesInv  kept and collected replies are the model's, and what the  *)
(*               load inserts is valid: the CHECKs of item.sql             *)
(*   ScriptInv   what is left of the statements of the open transaction    *)
(*   OpenInv     what its tables hold, as far as the statements went       *)
(*   TablesInv   what the committed tables hold: every item whole, no      *)
(*               reference an orphan, ids and rows belonging together      *)
(*   CountInv    the counters are the sizes of the tables                  *)
(*   SharedInv   the rows items share: base items, spells, attuner kinds   *)
(*   OneReply    an item has one reply                                     *)
(* and from them what the browse queries return.                           *)
(***************************************************************************)
EXTENDS Browse, Induction, FiniteSetTheorems, TLAPS

Refused == {q.item : q \in ToSet(quarantine)}

(* The items main has dealt with: those that failed to normalize, and      *)
(* those the load loop has passed.                                         *)
Passed == failed \cup 1..(k - 1)

Before == {"surveying", "normalizing"}
InTxn == {"begun", "based", "inserting"}
After == {"counting", "reporting", "verdict", "clean", "quarantined"}
InRun == Before \cup {"loading", "committed"} \cup InTxn \cup After

(* The item rows have the ids 1, 2, ... and each its own surveyed item. *)
CatalogInv ==
    /\ "item" \in DOMAIN db
    /\ IsFiniteSet(db.item)
    /\ \A r \in db.item : r.id \in 1..Cardinality(db.item) /\ r.src \in Items
    /\ \A r, s \in db.item : r.src = s.src => r = s
    /\ ~provisioned => db.item = {}
    /\ phase \in Before => db.item = {}
    /\ phase \in InRun => provisioned

(* Where main is in its loops. *)
PositionInv ==
    /\ phase \in {"provisioning", "surveying"} => failed = {} /\ quarantine = <<>>
    /\ phase \in {"provisioning"} \cup Before => k = 1 /\ inserted = 0
    /\ phase \in InRun => failed \subseteq Taken
    /\ phase \in InTxn \cup {"committed"} => k \in Taken \ failed
    /\ phase \in After => k = limit + 1
    /\ phase # "mismatch"

(* What main has dealt with is refused or in the database, and counted. *)
AccountInv ==
    phase \in InRun =>
      /\ Refused \cap Landed = {}
      /\ Refused \cup Landed = IF phase = "committed" THEN Passed \cup {k} ELSE Passed
      /\ Len(quarantine) + inserted = Cardinality(Passed)
      /\ Cardinality(db.item) = IF phase = "committed" THEN inserted + 1 ELSE inserted

(* The open transaction adds one item row, and no other. *)
TxnInv ==
    /\ phase \in InTxn => "item" \in DOMAIN txn
    /\ phase \in {"begun", "based"} => txn.item = db.item
    /\ phase = "inserting" => txn.item = db.item \cup {Row}

IInv == TypeOK /\ CatalogInv /\ PositionInv /\ AccountInv /\ TxnInv
-----------------------------------------------------------------------------
(* The sizes and sets the invariant counts with.                           *)

LEMMA SurveyLength == Len(Survey) \in Nat /\ 0 \in 0..Len(Survey)
<1>1. Len(Survey) \in Nat
  BY ExtractAssumption
<1> QED BY <1>1

(* Appending to the quarantine adds one entry and one refused item. *)
LEMMA QuarantineStep ==
    ASSUME TypeOK, NEW i \in Items, NEW stage \in Stages, Quarantine(i, stage)
    PROVE  /\ quarantine' \in Seq([item : Items, stage : Stages])
           /\ Len(quarantine') = Len(quarantine) + 1
           /\ Refused' = Refused \cup {i}
<1> DEFINE e == [item |-> i, stage |-> stage]
<1>1. quarantine \in Seq([item : Items, stage : Stages]) /\ e \in [item : Items, stage : Stages]
  BY DEF TypeOK
<1>2. quarantine' = Append(quarantine, e)
  BY DEF Quarantine
<1>3. /\ quarantine' \in Seq([item : Items, stage : Stages])
      /\ Len(quarantine') = Len(quarantine) + 1
      /\ DOMAIN quarantine = 1..Len(quarantine)
      /\ DOMAIN quarantine' = 1..(Len(quarantine) + 1)
      /\ \A j \in 1..Len(quarantine) : quarantine'[j] = quarantine[j]
      /\ quarantine'[Len(quarantine) + 1] = e
      /\ Len(quarantine) \in Nat
  BY <1>1, <1>2
<1>4. ToSet(quarantine') = ToSet(quarantine) \cup {e}
  BY <1>3 DEF ToSet
<1> QED BY <1>3, <1>4 DEF Refused

(* In the load loop everything before item k has been passed. *)
LEMMA PassedFinite ==
    ASSUME TypeOK
    PROVE  IsFiniteSet(Passed) /\ Cardinality(Passed) \in Nat
<1>1. Len(Survey) \in Nat /\ IsFiniteSet(Items)
  BY SurveyLength, FS_Interval DEF Items
<1>2. Passed \subseteq Items
  BY SurveyLength DEF TypeOK, Passed, Items
<1> QED BY <1>1, <1>2, FS_Subset, FS_CardinalityType

(* Passing an item not passed before, without its having failed. *)
LEMMA PassOne ==
    ASSUME TypeOK, k \in Taken \ failed, k' = k + 1, failed' = failed
    PROVE  /\ Passed' = Passed \cup {k}
           /\ k \notin Passed
           /\ Cardinality(Passed') = Cardinality(Passed) + 1
<1>1. Passed' = Passed \cup {k} /\ k \notin Passed
  BY SurveyLength DEF TypeOK, Passed, Taken
<1> QED BY <1>1, PassedFinite, FS_AddElement

(* No statement but the insert of the item row touches the item table. *)
LEMMA ExecuteKeepsItems ==
    ASSUME NEW t, NEW s, "item" \in DOMAIN t
    PROVE  Execute(t, s).item = t.item /\ "item" \in DOMAIN Execute(t, s)
  BY DEF Execute, ChildTables

(* The row the open transaction adds. *)
LEMMA RowFields == Row.id = Cardinality(db.item) + 1 /\ Row.src = k
  BY DEF Row, ItemRow, NextId

LEMMA EmptyCatalogItems == "item" \in DOMAIN EmptyCatalog /\ EmptyCatalog.item = {}
  BY DEF EmptyCatalog
-----------------------------------------------------------------------------

LEMMA InitIInv == Init => IInv
<1> SUFFICES ASSUME Init PROVE IInv
  OBVIOUS
<1> USE DEF Init
<1>1. TypeOK
  <2>1. runs \in 0..MaxRuns /\ limit \in 0..Len(Survey) /\ k \in 1..(limit + 1)
    BY SurveyLength, ExtractAssumption
  <2>2. /\ cache \in [Items -> SUBSET UNION {Replies[i] : i \in Items}]
        /\ normalized \in [Items -> SUBSET UNION {Replies[i] : i \in Items}]
    OBVIOUS
  <2>3. counts \in [ChildTables -> Nat] /\ totals \in [ChildTables -> Nat] /\ inserted \in Nat
    BY DEF NoCounts
  <2>4. failed \subseteq Items /\ quarantine \in Seq([item : Items, stage : Stages])
    OBVIOUS
  <2>5. provisioned \in BOOLEAN /\ refresh \in BOOLEAN /\ phase \in Phases
    BY DEF Phases, Ended
  <2> QED BY <2>1, <2>2, <2>3, <2>4, <2>5 DEF TypeOK
<1>2. CatalogInv
  BY EmptyCatalogItems, FS_EmptySet DEF CatalogInv, Before, InRun, InTxn, After
<1>3. PositionInv
  BY DEF PositionInv, Before, InRun, InTxn, After
<1>4. AccountInv
  BY DEF AccountInv, Before, InRun, InTxn, After
<1>5. TxnInv
  BY DEF TxnInv, InTxn
<1> QED BY <1>1, <1>2, <1>3, <1>4, <1>5 DEF IInv
-----------------------------------------------------------------------------
(* What the steps leave alone, in terms of the ghosts of the invariant.    *)

LEMMA SameAccount ==
    ASSUME UNCHANGED <<db, failed, quarantine, k>>
    PROVE  Passed' = Passed /\ Refused' = Refused /\ Landed' = Landed
  BY DEF Passed, Refused, Landed

LEMMA SameRow ==
    ASSUME UNCHANGED <<db, normalized, k>>
    PROVE  Row' = Row
  BY DEF Row, Reply, NextId

(* Type correctness, action by action. *)
LEMMA TypeStep == IInv /\ [Next]_vars => TypeOK'
<1> SUFFICES ASSUME IInv, [Next]_vars PROVE TypeOK'
  OBVIOUS
<1> USE DEF files, durable, flags, outcomes, tx, tally
<1>0. TypeOK /\ PositionInv
  BY DEF IInv
<1>1. ASSUME FreshMemory, limit' \in 0..Len(Survey)
      PROVE  /\ k' \in 1..(limit' + 1)
             /\ normalized' \in [Items -> SUBSET UNION {Replies[i] : i \in Items}]
             /\ failed' \subseteq Items
             /\ quarantine' \in Seq([item : Items, stage : Stages])
             /\ counts' \in [ChildTables -> Nat]
             /\ inserted' \in Nat
             /\ totals' \in [ChildTables -> Nat]
  <2>1. /\ normalized' = [i \in Items |-> {}] /\ failed' = {} /\ quarantine' = <<>>
        /\ k' = 1 /\ counts' = NoCounts /\ inserted' = 0 /\ totals' = NoCounts
    BY <1>1 DEF FreshMemory
  <2>2. NoCounts \in [ChildTables -> Nat]
    BY DEF NoCounts
  <2>3. limit' \in Nat
    BY <1>1, SurveyLength
  <2>4. k' \in 1..(limit' + 1)
    <3>1. \A n \in Nat : 1 \in 1..(n + 1)
      OBVIOUS
    <3> QED BY <2>1, <2>3, <3>1
  <2> QED BY <2>1, <2>2, <2>4
<1>2. CASE Start
  <2>1. limit' \in 0..Len(Survey)
    <3>1. PICK flag \in Limits : limit' = TakenOn(flag)
      BY <1>2 DEF Start
    <3>2. flag \in Int
      BY ExtractAssumption
    <3> QED BY <3>1, <3>2, SurveyLength DEF TakenOn
  <2>2. FreshMemory
    BY <1>2 DEF Start
  <2>3. runs' \in 0..MaxRuns
    BY <1>0, <1>2, ExtractAssumption DEF Start, TypeOK
  <2>4. refresh' \in BOOLEAN /\ phase' \in Phases
    BY <1>2, ExtractAssumption DEF Start, Phases
  <2>5. UNCHANGED <<provisioned, cache>>
    BY <1>2 DEF Start
  <2> QED BY <1>0, <1>1, <2>1, <2>2, <2>3, <2>4, <2>5 DEF TypeOK
<1>3. CASE Provision
  BY <1>0, <1>3 DEF Provision, TypeOK, Phases
<1>4. CASE LoadSurvey
  BY <1>0, <1>4 DEF LoadSurvey, TypeOK, Phases
<1>5. ASSUME NEW i \in Taken, CacheHit(i) PROVE TypeOK'
  <2>1. PICK n \in cache[i] : Collected(i, n)
    BY <1>5 DEF CacheHit
  <2>2. i \in Items
    BY <1>0, SurveyLength DEF TypeOK, Taken, Items
  <2>3. {n} \in SUBSET UNION {Replies[j] : j \in Items}
    BY <1>0, <2>1, <2>2 DEF TypeOK
  <2>4. normalized' \in [Items -> SUBSET UNION {Replies[j] : j \in Items}]
    BY <1>0, <2>1, <2>2, <2>3 DEF TypeOK, Collected
  <2> QED BY <1>0, <1>5, <2>1, <2>4 DEF CacheHit, Collected, TypeOK
<1>6. ASSUME NEW i \in Taken, LiveReply(i) PROVE TypeOK'
  <2>1. PICK n \in Replies[i] : cache' = [cache EXCEPT ![i] = {n}] /\ Collected(i, n)
    BY <1>6 DEF LiveReply
  <2>2. i \in Items
    BY <1>0, SurveyLength DEF TypeOK, Taken, Items
  <2>3. {n} \in SUBSET UNION {Replies[j] : j \in Items}
    BY <2>1, <2>2
  <2>4. /\ normalized' \in [Items -> SUBSET UNION {Replies[j] : j \in Items}]
        /\ cache' \in [Items -> SUBSET UNION {Replies[j] : j \in Items}]
    BY <1>0, <2>1, <2>2, <2>3 DEF TypeOK, Collected
  <2> QED BY <1>0, <1>6, <2>1, <2>4 DEF LiveReply, Collected, TypeOK
<1>7. ASSUME NEW i \in Taken, LiveError(i) PROVE TypeOK'
  <2>1. i \in Items
    BY <1>0, SurveyLength DEF TypeOK, Taken, Items
  <2>2. quarantine' \in Seq([item : Items, stage : Stages])
    BY <1>0, <1>7, <2>1, QuarantineStep DEF LiveError, Stages
  <2>3. cache' \in [Items -> SUBSET UNION {Replies[j] : j \in Items}]
    BY <1>0, <1>7, <2>1 DEF LiveError, TypeOK
  <2> QED BY <1>0, <1>7, <2>1, <2>2, <2>3 DEF LiveError, TypeOK
<1>8. CASE EndNormalize
  BY <1>0, <1>8 DEF EndNormalize, TypeOK, Phases
<1>9. CASE SkipFailed
  BY <1>0, <1>9, SurveyLength DEF SkipFailed, TypeOK, Taken
<1>10. CASE RejectInvalid
  <2>1. k \in Items /\ k \in Taken
    BY <1>0, <1>10, SurveyLength DEF RejectInvalid, TypeOK, Taken, Items
  <2>2. quarantine' \in Seq([item : Items, stage : Stages])
    BY <1>0, <1>10, <2>1, QuarantineStep DEF RejectInvalid, Stages
  <2> QED BY <1>0, <1>10, <2>1, <2>2, SurveyLength DEF RejectInvalid, TypeOK, Taken
<1>11. CASE Begin
  BY <1>0, <1>11 DEF Begin, TypeOK, Phases, NoCounts
<1>12. CASE UpsertBaseItem
  BY <1>0, <1>12 DEF UpsertBaseItem, TypeOK, Phases
<1>13. CASE InsertItem
  BY <1>0, <1>13 DEF InsertItem, TypeOK, Phases
<1>14. CASE InsertChild
  BY <1>0, <1>14 DEF InsertChild, TypeOK
<1>15. CASE InsertFails
  <2>1. k \in Items /\ k \in Taken
    BY <1>0, <1>15, SurveyLength
    DEF InsertFails, InTransaction, PositionInv, InTxn, TypeOK, Taken, Items
  <2>2. quarantine' \in Seq([item : Items, stage : Stages])
    BY <1>0, <1>15, <2>1, QuarantineStep DEF InsertFails, Stages
  <2>3. k' \in 1..(limit' + 1)
    BY <1>0, <1>15, <2>1, SurveyLength DEF InsertFails, TypeOK, Taken
  <2> QED BY <1>0, <1>15, <2>2, <2>3 DEF InsertFails, TypeOK, NoCounts, Phases
<1>16. CASE Commit
  BY <1>0, <1>16 DEF Commit, TypeOK, Phases
<1>17. CASE Acknowledge
  <2>1. k \in Taken
    BY <1>0, <1>17 DEF Acknowledge, PositionInv
  <2>2. k' \in 1..(limit' + 1)
    BY <1>0, <1>17, <2>1, SurveyLength DEF Acknowledge, TypeOK, Taken
  <2> QED BY <1>0, <1>17, <2>2 DEF Acknowledge, TypeOK, NoCounts, Phases
<1>18. CASE EndLoad
  BY <1>0, <1>18 DEF EndLoad, TypeOK, Phases
<1>19. CASE WriteReport
  BY <1>0, <1>19 DEF WriteReport, TypeOK, Phases
<1>20. CASE WriteQuarantine
  BY <1>0, <1>20 DEF WriteQuarantine, TypeOK, Phases
<1>21. CASE Verdict
  BY <1>0, <1>21 DEF Verdict, TypeOK, Phases, Ended
<1>22. ASSUME Forget, UNCHANGED <<runs, cache>>, provisioned' \in BOOLEAN, phase' \in Phases
       PROVE  TypeOK'
  <2>1. limit' \in 0..Len(Survey) /\ refresh' \in BOOLEAN
    BY <1>22, SurveyLength DEF Forget
  <2> QED BY <1>0, <1>1, <1>22, <2>1 DEF Forget, TypeOK
<1>23. CASE Fatal
  BY <1>0, <1>22, <1>23 DEF Fatal, TypeOK, Phases, Ended
<1>24. CASE Crash
  <2>1. cache' \in [Items -> SUBSET UNION {Replies[j] : j \in Items}]
    BY <1>0, <1>24 DEF Crash, TypeOK
  <2>2. limit' \in 0..Len(Survey) /\ refresh' \in BOOLEAN
    BY <1>24, SurveyLength DEF Crash, Forget
  <2> QED BY <1>0, <1>1, <1>24, <2>1, <2>2 DEF Crash, Forget, TypeOK, Phases, Ended
<1>25. CASE Wipe
  BY <1>0, <1>22, <1>25 DEF Wipe, TypeOK, Phases, Ended
<1>26. CASE UNCHANGED vars
  BY <1>0, <1>26 DEF vars, TypeOK
<1> QED
  BY <1>2, <1>3, <1>4, <1>5, <1>6, <1>7, <1>8, <1>9, <1>10, <1>11, <1>12, <1>13, <1>14, <1>15,
     <1>16, <1>17, <1>18, <1>19, <1>20, <1>21, <1>23, <1>24, <1>25, <1>26 DEF Next, Work, Alone
-----------------------------------------------------------------------------
(* The steps by what they do to the tables: most leave the database and    *)
(* its provisioning as they were.                                          *)

Quiet ==
    \/ LoadSurvey \/ EndNormalize \/ SkipFailed \/ RejectInvalid \/ Begin \/ UpsertBaseItem
    \/ InsertItem \/ InsertChild \/ InsertFails \/ Acknowledge \/ EndLoad \/ WriteReport
    \/ WriteQuarantine \/ Verdict
    \/ \E i \in Taken : CacheHit(i) \/ LiveReply(i) \/ LiveError(i)

Gone == Fatal \/ Crash

LEMMA StepKinds ==
    ASSUME [Next]_vars
    PROVE  Start \/ Provision \/ Quiet \/ Commit \/ Gone \/ Wipe \/ UNCHANGED vars
  BY DEF Next, Work, Alone, Quiet, Gone

(* A quiet step stays within the run, and in it moves forward. *)
LEMMA QuietStep ==
    ASSUME PositionInv, Quiet
    PROVE  /\ UNCHANGED <<provisioned, db>>
           /\ phase \in InRun /\ phase' \in InRun \cup {"mismatch"}
           /\ phase' \in Before => phase \in Before
  BY DEF Quiet, PositionInv, InRun, Before, InTxn, After, files, durable, LoadSurvey, EndNormalize,
         SkipFailed, RejectInvalid, Begin, UpsertBaseItem, InsertItem, InsertChild, InsertFails,
         InTransaction, Acknowledge, EndLoad, WriteReport, WriteQuarantine, Verdict, CacheHit,
         LiveReply, LiveError

(* What Commit adds: one row, with the next id, for an item not yet there. *)
LEMMA CommitStep ==
    ASSUME IInv, Commit
    PROVE  /\ "item" \in DOMAIN db'
           /\ db'.item = db.item \cup {Row}
           /\ Row \notin db.item
           /\ k \in Items \ Landed
           /\ IsFiniteSet(db'.item)
           /\ Cardinality(db.item) \in Nat
           /\ Cardinality(db'.item) = Cardinality(db.item) + 1
           /\ Landed' = Landed \cup {k}
<1>1. db' = txn /\ "item" \in DOMAIN txn /\ txn.item = db.item \cup {Row}
  BY DEF Commit, IInv, TxnInv, InTxn
<1>2. k \in Taken \ failed /\ Landed \subseteq Passed
  BY DEF Commit, IInv, PositionInv, AccountInv, InRun, InTxn
<1>3. k \in Items \ Landed
  BY <1>2, SurveyLength DEF IInv, TypeOK, Taken, Items, Passed
<1>4. Row \notin db.item
  BY <1>3, RowFields DEF Landed
<1>5. IsFiniteSet(db.item)
  BY DEF IInv, CatalogInv
<1>6. /\ Cardinality(db.item) \in Nat /\ IsFiniteSet(db.item \cup {Row})
      /\ Cardinality(db.item \cup {Row}) = Cardinality(db.item) + 1
  BY <1>4, <1>5, FS_CardinalityType, FS_AddElement
<1>7. Landed' = Landed \cup {k}
  BY <1>1, RowFields DEF Landed
<1> QED BY <1>1, <1>3, <1>4, <1>6, <1>7

LEMMA CatalogStep == IInv /\ [Next]_vars => CatalogInv'
<1> SUFFICES ASSUME IInv, [Next]_vars PROVE CatalogInv'
  OBVIOUS
<1>0. TypeOK /\ CatalogInv /\ PositionInv
  BY DEF IInv
<1>1. CASE Start
  BY <1>0, <1>1 DEF Start, CatalogInv, durable, Before, InRun, InTxn, After
<1>2. CASE Provision
  BY <1>0, <1>2 DEF Provision, CatalogInv, Before, InRun, InTxn, After
<1>3. CASE Quiet
  <2>1. UNCHANGED <<provisioned, db>> /\ provisioned /\ (phase' \in Before => phase \in Before)
    BY <1>0, <1>3, QuietStep DEF CatalogInv
  <2> QED BY <1>0, <2>1 DEF CatalogInv
<1>4. CASE Commit
  <2>1. UNCHANGED provisioned /\ provisioned /\ phase' = "committed"
    BY <1>0, <1>4 DEF Commit, CatalogInv, InRun, InTxn
  <2>2. \A r \in db'.item : r.id \in 1..Cardinality(db'.item) /\ r.src \in Items
    BY <1>0, <1>4, CommitStep, RowFields DEF CatalogInv
  <2>3. \A r, s \in db'.item : r.src = s.src => r = s
    BY <1>0, <1>4, CommitStep, RowFields DEF CatalogInv, Landed
  <2> QED BY <1>4, <2>1, <2>2, <2>3, CommitStep DEF CatalogInv, Before
<1>5. CASE Gone
  BY <1>0, <1>5 DEF Gone, Fatal, Crash, durable, CatalogInv, Before, InRun, InTxn, After
<1>6. CASE Wipe
  BY <1>6, EmptyCatalogItems, FS_EmptySet DEF Wipe, CatalogInv, Before, InRun, InTxn, After
<1>7. CASE UNCHANGED vars
  BY <1>0, <1>7 DEF vars, durable, CatalogInv
<1> QED BY <1>1, <1>2, <1>3, <1>4, <1>5, <1>6, <1>7, StepKinds

(* The rows of the open transaction. *)
LEMMA TxnStep == IInv /\ [Next]_vars => TxnInv'
<1> SUFFICES ASSUME IInv, [Next]_vars PROVE TxnInv'
  OBVIOUS
<1>0. CatalogInv /\ TxnInv
  BY DEF IInv
<1> USE DEF files, durable, flags, outcomes, tx, tally
<1>1. CASE Begin
  BY <1>0, <1>1 DEF Begin, TxnInv, CatalogInv, InTxn
<1>2. CASE UpsertBaseItem
  BY <1>0, <1>2, ExecuteKeepsItems DEF UpsertBaseItem, TxnInv, InTxn
<1>3. CASE InsertItem
  <2>1. Row' = Row
    BY <1>3, SameRow DEF InsertItem
  <2>2. txn'.item = txn.item \cup {Row} /\ "item" \in DOMAIN txn'
    BY <1>0, <1>3 DEF InsertItem, TxnInv, InTxn, AddItem
  <2> QED BY <1>0, <1>3, <2>1, <2>2 DEF InsertItem, TxnInv, InTxn
<1>4. CASE InsertChild
  <2>1. Row' = Row
    BY <1>4, SameRow DEF InsertChild
  <2> QED BY <1>0, <1>4, <2>1, ExecuteKeepsItems DEF InsertChild, TxnInv, InTxn
<1>5. CASE UNCHANGED vars
  <2>1. Row' = Row
    BY <1>5, SameRow DEF vars
  <2> QED BY <1>0, <1>5, <2>1 DEF vars, TxnInv
<1>6. ASSUME phase' \notin InTxn PROVE TxnInv'
  BY <1>6 DEF TxnInv, InTxn
<1>7. ASSUME ~(Begin \/ UpsertBaseItem \/ InsertItem \/ InsertChild \/ UNCHANGED vars)
      PROVE  phase' \notin InTxn
  BY <1>7 DEF Next, Work, Alone, InTxn, Start, Provision, LoadSurvey, CacheHit, LiveReply, LiveError,
              EndNormalize, SkipFailed, RejectInvalid, InsertFails, Commit, Acknowledge, EndLoad,
              WriteReport, WriteQuarantine, Verdict, Fatal, Crash, Wipe
<1> QED BY <1>1, <1>2, <1>3, <1>4, <1>5, <1>6, <1>7
-----------------------------------------------------------------------------
(* The account: what main has passed is refused or landed, and counted.    *)

(* Refusing one item more. *)
LEMMA RefuseOne ==
    ASSUME TypeOK, AccountInv, phase \in InRun \ {"committed"}, phase' \in InRun \ {"committed"},
           NEW i \in Items \ Passed, NEW stage \in Stages, Quarantine(i, stage),
           Passed' = Passed \cup {i}, UNCHANGED <<db, inserted>>
    PROVE  AccountInv'
<1>1. Refused' = Refused \cup {i} /\ Len(quarantine') = Len(quarantine) + 1
  BY QuarantineStep
<1>2. Landed' = Landed /\ db' = db
  BY DEF Landed
<1>3. /\ Refused \cap Landed = {}
      /\ Refused \cup Landed = Passed
      /\ Len(quarantine) + inserted = Cardinality(Passed)
      /\ Cardinality(db.item) = inserted
  BY DEF AccountInv
<1>4. Cardinality(Passed') = Cardinality(Passed) + 1
  BY PassedFinite, FS_AddElement
<1>5. Refused' \cap Landed' = {} /\ Refused' \cup Landed' = Passed'
  BY <1>1, <1>2, <1>3
<1>6. Len(quarantine) \in Nat /\ inserted \in Nat /\ Cardinality(Passed) \in Nat
  BY PassedFinite DEF TypeOK
<1>7. Len(quarantine') + inserted' = Cardinality(Passed')
  BY <1>1, <1>3, <1>4, <1>6
<1> QED BY <1>2, <1>3, <1>5, <1>7 DEF AccountInv

LEMMA AccountStep == IInv /\ [Next]_vars => AccountInv'
<1> SUFFICES ASSUME IInv, [Next]_vars, phase' \in InRun PROVE AccountInv'
  BY DEF AccountInv
<1>0. TypeOK /\ CatalogInv /\ PositionInv /\ AccountInv
  BY DEF IInv
<1> USE DEF files, durable, flags, outcomes, tx, tally
<1>1. CASE Provision
  <2>1. k = 1 /\ inserted = 0 /\ failed = {} /\ quarantine = <<>> /\ db.item = {}
    BY <1>0, <1>1 DEF Provision, CatalogInv, PositionInv, Before
  <2>2. Passed = {} /\ Refused = {} /\ Landed = {}
    BY <2>1 DEF Passed, Refused, Landed, ToSet
  <2>3. Passed' = {} /\ Refused' = {} /\ Landed' = {}
    BY <1>1, <2>2, SameAccount DEF Provision
  <2>4. UNCHANGED <<db, inserted, quarantine>> /\ phase' # "committed"
    BY <1>1 DEF Provision
  <2>5. Cardinality(Passed') = 0 /\ Cardinality(db'.item) = 0
    BY <2>1, <2>3, <2>4, FS_EmptySet
  <2>6. Len(quarantine') + inserted' = 0
    BY <2>1, <2>4
  <2> QED BY <2>1, <2>3, <2>4, <2>5, <2>6 DEF AccountInv
<1>2. ASSUME phase \in InRun \ {"committed"}, phase' # "committed",
             UNCHANGED <<db, failed, quarantine, k, inserted>>
      PROVE  AccountInv'
  <2>1. Passed' = Passed /\ Refused' = Refused /\ Landed' = Landed
    BY <1>2, SameAccount
  <2> QED BY <1>0, <1>2, <2>1 DEF AccountInv
<1>3. CASE LoadSurvey \/ EndNormalize \/ EndLoad \/ WriteReport \/ WriteQuarantine \/ Verdict
  BY <1>2, <1>3 DEF LoadSurvey, EndNormalize, EndLoad, WriteReport, WriteQuarantine, Verdict,
                    InRun, Before, InTxn, After
<1>4. CASE Begin \/ UpsertBaseItem \/ InsertItem \/ InsertChild
  BY <1>2, <1>4 DEF Begin, UpsertBaseItem, InsertItem, InsertChild, InRun, InTxn
<1>5. ASSUME NEW i \in Taken, CacheHit(i) \/ LiveReply(i) PROVE AccountInv'
  BY <1>2, <1>5 DEF CacheHit, LiveReply, Collected, InRun, Before
<1>6. ASSUME NEW i \in Taken, LiveError(i) PROVE AccountInv'
  <2>1. k = 1 /\ i \notin failed /\ failed' = failed \cup {i} /\ k' = k
    BY <1>0, <1>6 DEF LiveError, Unsettled, PositionInv, Before
  <2>2. i \in Items \ Passed /\ Passed' = Passed \cup {i}
    BY <1>0, <2>1, SurveyLength DEF Passed, TypeOK, Taken, Items
  <2>3. /\ phase \in InRun \ {"committed"} /\ phase' \in InRun \ {"committed"}
        /\ UNCHANGED <<db, inserted>> /\ Quarantine(i, "normalize")
    BY <1>6 DEF LiveError, InRun, Before
  <2> QED BY <1>0, <2>2, <2>3, RefuseOne DEF Stages
<1>7. CASE SkipFailed
  <2>1. Passed' = Passed
    BY <1>0, <1>7, SurveyLength DEF SkipFailed, Passed, TypeOK
  <2>2. Refused' = Refused /\ Landed' = Landed
    BY <1>7 DEF SkipFailed, Refused, Landed
  <2>3. UNCHANGED <<db, quarantine, inserted>> /\ phase = "loading" /\ phase' = "loading"
    BY <1>7 DEF SkipFailed
  <2> QED BY <1>0, <2>1, <2>2, <2>3 DEF AccountInv, InRun
<1>8. ASSUME NEW stage \in Stages, Quarantine(k, stage), k \in Taken \ failed, k' = k + 1,
             phase \in InRun \ {"committed"}, phase' \in InRun \ {"committed"},
             UNCHANGED <<db, inserted, failed>>
      PROVE  AccountInv'
  <2>1. Passed' = Passed \cup {k} /\ k \notin Passed
    BY <1>0, <1>8, PassOne
  <2>2. k \in Items
    BY <1>0, <1>8, SurveyLength DEF TypeOK, Taken, Items
  <2> QED BY <1>0, <1>8, <2>1, <2>2, RefuseOne
<1>9. CASE RejectInvalid
  BY <1>8, <1>9 DEF RejectInvalid, Stages, InRun
<1>10. CASE InsertFails
  <2>1. phase \in InTxn /\ k \in Taken \ failed
    BY <1>0, <1>10 DEF InsertFails, InTransaction, PositionInv, InTxn
  <2> QED BY <1>8, <1>10, <2>1 DEF InsertFails, Stages, InRun, InTxn
<1>11. CASE Commit
  <2>1. k \notin Passed /\ Passed' = Passed /\ Refused' = Refused
    BY <1>0, <1>11, SurveyLength
    DEF Commit, PositionInv, InTxn, Passed, Refused, TypeOK, Taken
  <2>2. /\ phase \in InRun \ {"committed"} /\ phase' = "committed" /\ k' = k
        /\ UNCHANGED <<quarantine, inserted>>
    BY <1>11 DEF Commit, InRun, InTxn
  <2>3. Landed' = Landed \cup {k} /\ Cardinality(db'.item) = Cardinality(db.item) + 1
    BY <1>11, CommitStep
  <2> QED BY <1>0, <2>1, <2>2, <2>3 DEF AccountInv
<1>12. CASE Acknowledge
  <2>1. Passed' = Passed \cup {k} /\ Cardinality(Passed') = Cardinality(Passed) + 1
    BY <1>0, <1>12, PassOne DEF Acknowledge, PositionInv
  <2>2. Refused' = Refused /\ Landed' = Landed /\ UNCHANGED <<db, quarantine>>
    BY <1>12 DEF Acknowledge, Refused, Landed
  <2>3. /\ phase = "committed" /\ phase \in InRun /\ phase' # "committed"
        /\ inserted' = inserted + 1
    BY <1>12 DEF Acknowledge, InRun
  <2>4. Len(quarantine) \in Nat /\ inserted \in Nat /\ Cardinality(Passed) \in Nat
    BY <1>0, PassedFinite DEF TypeOK
  <2> QED BY <1>0, <2>1, <2>2, <2>3, <2>4 DEF AccountInv
<1>13. CASE UNCHANGED vars
  <2>1. Passed' = Passed /\ Refused' = Refused /\ Landed' = Landed
    BY <1>13, SameAccount DEF vars
  <2> QED BY <1>0, <1>13, <2>1 DEF vars, AccountInv
<1>14. ASSUME Start \/ Wipe \/ Gone PROVE FALSE
  BY <1>14 DEF Start, Wipe, Gone, Fatal, Crash, InRun, Before, InTxn, After
<1> QED
  BY <1>1, <1>3, <1>4, <1>5, <1>6, <1>7, <1>9, <1>10, <1>11, <1>12, <1>13, <1>14, StepKinds
  DEF Quiet
-----------------------------------------------------------------------------
(* Where main is; the verdict is where the account is needed.              *)

(* At the end of the load the account covers all that was taken on. *)
LEMMA AllPassed ==
    ASSUME IInv, phase \in After
    PROVE  /\ Passed = Taken
           /\ inserted + Len(quarantine) = limit
           /\ DbTotal = inserted
<1>0. TypeOK /\ PositionInv /\ AccountInv
  BY DEF IInv
<1>1. limit \in Nat /\ inserted \in Nat /\ Len(quarantine) \in Nat
  BY <1>0, SurveyLength DEF TypeOK
<1>2. phase \in InRun /\ phase # "committed"
  BY DEF InRun, After
<1>3. k = limit + 1 /\ failed \subseteq 1..limit
  BY <1>0, <1>2 DEF PositionInv, Taken
<1>4. Passed = 1..limit
  <2>1. k - 1 = limit
    BY <1>1, <1>3
  <2> QED BY <1>3, <2>1 DEF Passed
<1>5. Cardinality(Passed) = limit
  BY <1>1, <1>4, FS_Interval
<1>6. Len(quarantine) + inserted = Cardinality(Passed) /\ Cardinality(db.item) = inserted
  BY <1>0, <1>2 DEF AccountInv
<1> QED BY <1>1, <1>4, <1>5, <1>6 DEF DbTotal, Taken

LEMMA PositionStep == IInv /\ [Next]_vars => PositionInv'
<1> SUFFICES ASSUME IInv, [Next]_vars PROVE PositionInv'
  OBVIOUS
<1>0. TypeOK /\ PositionInv
  BY DEF IInv
<1> USE DEF files, durable, flags, outcomes, tx, tally
<1>1. CASE Start
  BY <1>1 DEF Start, FreshMemory, PositionInv, Before, InRun, InTxn, After
<1>2. CASE Provision \/ LoadSurvey
  BY <1>0, <1>2 DEF Provision, LoadSurvey, PositionInv, Before, InRun, InTxn, After, Taken
<1>3. ASSUME NEW i \in Taken, CacheHit(i) \/ LiveReply(i) \/ LiveError(i) PROVE PositionInv'
  BY <1>0, <1>3
  DEF CacheHit, LiveReply, LiveError, Collected, PositionInv, Before, InRun, InTxn, After, Taken
<1>4. CASE EndNormalize
  BY <1>0, <1>4 DEF EndNormalize, PositionInv, Before, InRun, InTxn, After, Taken
<1>5. CASE SkipFailed \/ RejectInvalid
  BY <1>0, <1>5 DEF SkipFailed, RejectInvalid, PositionInv, Before, InRun, InTxn, After, Taken
<1>6. CASE Begin
  BY <1>0, <1>6 DEF Begin, Loadable, PositionInv, Before, InRun, InTxn, After, Taken
<1>7. CASE UpsertBaseItem \/ InsertItem \/ InsertChild \/ Commit
  BY <1>0, <1>7 DEF UpsertBaseItem, InsertItem, InsertChild, Commit, PositionInv, Before, InRun,
                    InTxn, After, Taken
<1>8. CASE InsertFails \/ Acknowledge
  BY <1>0, <1>8 DEF InsertFails, InTransaction, Acknowledge, PositionInv, Before, InRun, InTxn,
                    After, Taken
<1>9. CASE EndLoad
  <2>1. k = limit + 1
    BY <1>0, <1>9, SurveyLength DEF EndLoad, TypeOK, Taken
  <2> QED BY <1>0, <1>9, <2>1 DEF EndLoad, PositionInv, Before, InRun, InTxn, After, Taken
<1>10. CASE WriteReport \/ WriteQuarantine
  BY <1>0, <1>10 DEF WriteReport, WriteQuarantine, PositionInv, Before, InRun, InTxn, After, Taken
<1>11. CASE Verdict
  <2>1. phase' \in {"quarantined", "clean"}
    BY <1>11, AllPassed DEF Verdict, After
  <2> QED BY <1>0, <1>11, <2>1 DEF Verdict, PositionInv, Before, InRun, InTxn, After, Taken
<1>12. CASE Gone \/ Wipe
  BY <1>12 DEF Gone, Fatal, Crash, Wipe, PositionInv, Before, InRun, InTxn, After
<1>13. CASE UNCHANGED vars
  BY <1>0, <1>13 DEF vars, PositionInv, Taken
<1> QED
  BY <1>1, <1>2, <1>3, <1>4, <1>5, <1>6, <1>7, <1>8, <1>9, <1>10, <1>11, <1>12, <1>13
  DEF Next, Work, Alone, Gone

(* The strengthened invariant holds in every reachable state. *)
THEOREM InvariantHolds == Spec => []IInv
<1>1. IInv /\ [Next]_vars => IInv'
  BY TypeStep, CatalogStep, PositionStep, AccountStep, TxnStep DEF IInv
<1> QED BY InitIInv, <1>1, PTL DEF Spec

(* Every variable keeps its type, whatever the survey, the replies and the *)
(* number of runs: the load loop never indexes past the items taken on.    *)
THEOREM TypeCorrect == Spec => []TypeOK
<1>1. IInv => TypeOK
  BY DEF IInv
<1> QED BY InvariantHolds, <1>1, PTL

(* main's last comparisons (cmd/extract/main.go:239-244) never fail: what  *)
(* was refused, rolled back or skipped is always counted exactly once.     *)
THEOREM AlwaysReconciles == Spec => []Reconciles
<1>1. IInv => Reconciles
  BY DEF IInv, PositionInv, Reconciles
<1> QED BY InvariantHolds, <1>1, PTL
-----------------------------------------------------------------------------
(* The refinement of the Ledger.                                           *)

TakenHere == IF LoadedHere THEN Taken ELSE {}
RefusedHere == IF LoadedHere THEN Refused ELSE {}
Shelf == [i \in Items |-> Cardinality({r \in db.item : r.src = i})]

(* The book, phase by phase. *)
BookByPhase ==
    /\ ~provisioned <=> book = "blank"
    /\ phase \in InRun \ {"clean", "quarantined"} <=> book = "open"
    /\ phase \in {"clean", "quarantined"} <=> book = "closed"
    /\ book \in {"blank", "open", "closed", "shut"}
    /\ LoadedHere <=> phase \in InRun

LEMMA BookOf == IInv => BookByPhase
<1> SUFFICES ASSUME IInv PROVE BookByPhase
  OBVIOUS
<1>1. /\ phase \in Phases /\ phase # "mismatch" /\ provisioned \in BOOLEAN
      /\ phase \in InRun => provisioned
  BY DEF IInv, TypeOK, PositionInv, CatalogInv
<1> QED
  BY <1>1
  DEF BookByPhase, book, LoadedHere, Running, Ended, Phases, InRun, Before, InTxn, After

LEMMA BookOfNext == IInv' => BookByPhase'
  BY BookOf, PTL

(* A row on the shelf for each item that landed, none for the others. *)
ShelfByItem == \A i \in Items : Shelf[i] = IF i \in Landed THEN 1 ELSE 0

LEMMA ShelfOf == IInv => ShelfByItem
<1> SUFFICES ASSUME IInv, NEW i \in Items PROVE Shelf[i] = IF i \in Landed THEN 1 ELSE 0
  BY DEF ShelfByItem
<1> DEFINE Rows == {r \in db.item : r.src = i}
<1>1. \A r, s \in db.item : r.src = s.src => r = s
  BY DEF IInv, CatalogInv
<1>2. CASE i \in Landed
  <2>1. PICK r \in db.item : r.src = i
    BY <1>2 DEF Landed
  <2>2. Rows = {r}
    BY <1>1, <2>1
  <2> QED BY <1>2, <2>2, FS_Singleton DEF Shelf
<1>3. CASE i \notin Landed
  <2>1. Rows = {}
    BY <1>3 DEF Landed
  <2> QED BY <1>3, <2>1, FS_EmptySet DEF Shelf
<1> QED BY <1>2, <1>3

LEMMA ShelfOfNext == IInv' => ShelfByItem'
  BY ShelfOf, PTL

(* An item taken on and not yet passed has no place in the ledger. *)
LEMMA NotPassedUnplaced ==
    ASSUME IInv, phase \in InRun \ {"committed"}, NEW i \in Taken, i \notin Passed
    PROVE  i \in Items /\ i \in TakenHere /\ Shelf[i] = 0 /\ i \notin RefusedHere
<1>1. i \notin Refused /\ i \notin Landed
  BY DEF IInv, AccountInv
<1>2. i \in Items
  BY SurveyLength DEF IInv, TypeOK, Taken, Items
<1> QED BY <1>1, <1>2, ShelfOf, BookOf DEF ShelfByItem, BookByPhase, TakenHere, RefusedHere

(* The Ledger's steps, in terms of the run. *)
LEMMA LedgerSteps ==
    /\ book = "blank" /\ book' = "open" /\ TakenHere' \subseteq Items
       /\ Shelf' = Shelf /\ RefusedHere' = RefusedHere
       => L!Next
    /\ \A i \in Items :
          /\ book = "open" /\ i \in TakenHere /\ Shelf[i] = 0 /\ i \notin RefusedHere
          /\ book' = book /\ TakenHere' = TakenHere
          /\ \/ Shelf' = [Shelf EXCEPT ![i] = 1] /\ RefusedHere' = RefusedHere
             \/ RefusedHere' = RefusedHere \cup {i} /\ Shelf' = Shelf
          => L!Next
    /\ book = "open" /\ (\A i \in TakenHere : Shelf[i] # 0 \/ i \in RefusedHere)
       /\ book' = "closed"
       /\ TakenHere' = TakenHere /\ Shelf' = Shelf /\ RefusedHere' = RefusedHere
       => L!Next
    /\ book \in {"open", "closed"} /\ book' = "shut" /\ TakenHere' = {} /\ RefusedHere' = {}
       /\ Shelf' = Shelf
       => L!Next
    /\ book \in {"closed", "shut"} /\ book' = "blank" /\ TakenHere' = {} /\ RefusedHere' = {}
       /\ Shelf' = [i \in Items |-> 0]
       => L!Next
    /\ UNCHANGED <<book, TakenHere, Shelf, RefusedHere>> => UNCHANGED L!vars
<1> USE DEF TakenHere, RefusedHere, Refused, Shelf, L!Next
<1>1. book = "blank" /\ book' = "open" /\ TakenHere' \subseteq Items
      /\ Shelf' = Shelf /\ RefusedHere' = RefusedHere => L!Open
  BY DEF L!Open
<1>2. ASSUME NEW i \in Items, book = "open", i \in TakenHere, Shelf[i] = 0, i \notin RefusedHere,
             book' = book, TakenHere' = TakenHere
      PROVE  /\ Shelf' = [Shelf EXCEPT ![i] = 1] /\ RefusedHere' = RefusedHere => L!Land(i)
             /\ RefusedHere' = RefusedHere \cup {i} /\ Shelf' = Shelf => L!Refuse(i)
  BY <1>2 DEF L!Land, L!Refuse, L!Unplaced
<1>3. book = "open" /\ (\A i \in TakenHere : Shelf[i] # 0 \/ i \in RefusedHere)
      /\ book' = "closed"
      /\ TakenHere' = TakenHere /\ Shelf' = Shelf /\ RefusedHere' = RefusedHere => L!Close
  BY DEF L!Close, L!Unplaced
<1>4. book \in {"open", "closed"} /\ book' = "shut" /\ TakenHere' = {} /\ RefusedHere' = {}
      /\ Shelf' = Shelf => L!Leave
  BY DEF L!Leave
<1>5. book \in {"closed", "shut"} /\ book' = "blank" /\ TakenHere' = {} /\ RefusedHere' = {}
      /\ Shelf' = [i \in Items |-> 0] => L!Wipe
  BY DEF L!Wipe, L!Empty
<1>6. UNCHANGED <<book, TakenHere, Shelf, RefusedHere>> => UNCHANGED L!vars
  BY DEF L!vars
<1> QED BY <1>1, <1>2, <1>3, <1>4, <1>5, <1>6

(* Within a run the ledger stays open, for the same items. *)
LEMMA StaysOpen ==
    ASSUME IInv, IInv', phase \in InRun \ {"clean", "quarantined"},
           phase' \in InRun \ {"clean", "quarantined"}, UNCHANGED limit
    PROVE  /\ book = "open" /\ book' = "open" /\ TakenHere' = TakenHere /\ TakenHere = Taken
           /\ RefusedHere = Refused /\ RefusedHere' = Refused'
<1>1. book = "open" /\ LoadedHere /\ book' = "open" /\ LoadedHere'
  BY BookOf, BookOfNext DEF BookByPhase
<1> QED BY <1>1 DEF TakenHere, RefusedHere, Taken

LEMMA LedgerStep == IInv /\ IInv' /\ [Next]_vars => L!Next \/ UNCHANGED L!vars
<1> SUFFICES ASSUME IInv, IInv', [Next]_vars PROVE L!Next \/ UNCHANGED L!vars
  OBVIOUS
<1>0. TypeOK /\ CatalogInv /\ PositionInv /\ AccountInv /\ BookByPhase /\ BookByPhase'
  BY BookOf, BookOfNext DEF IInv
<1> USE DEF files, durable, flags, outcomes, tx, tally
<1>1. ASSUME db' = db PROVE Shelf' = Shelf
  BY <1>1 DEF Shelf
<1>2. ASSUME phase' \notin InRun PROVE TakenHere' = {} /\ RefusedHere' = {}
  BY <1>0, <1>2 DEF BookByPhase, TakenHere, RefusedHere
<1>3. ASSUME phase' \notin InRun, UNCHANGED <<provisioned, db>>
      PROVE  L!Next \/ UNCHANGED L!vars
  <2>1. TakenHere' = {} /\ RefusedHere' = {} /\ Shelf' = Shelf
    BY <1>1, <1>2, <1>3
  <2>2. book' \in {"blank", "shut"} /\ (book' = "blank" <=> book = "blank")
    BY <1>0, <1>3 DEF BookByPhase, InRun, After
  <2>3. CASE book \in {"open", "closed"}
    BY <2>1, <2>2, <2>3, LedgerSteps
  <2>4. CASE book \in {"blank", "shut"}
    <3>1. TakenHere = {} /\ RefusedHere = {}
      BY <2>4 DEF LoadedHere, TakenHere, RefusedHere
    <3>2. book' = book
      BY <2>2, <2>4
    <3> QED BY <2>1, <3>1, <3>2, LedgerSteps
  <2> QED BY <1>0, <2>3, <2>4 DEF BookByPhase
<1>4. CASE Start \/ Gone
  BY <1>3, <1>4 DEF Start, Gone, Fatal, Crash, InRun, Before, InTxn, After
<1>5. CASE Wipe
  <2>1. book \in {"closed", "shut"} /\ book' = "blank"
    BY <1>0, <1>5 DEF Wipe, BookByPhase, Running, Ended, InRun, Before, InTxn, After
  <2>2. TakenHere' = {} /\ RefusedHere' = {}
    BY <1>2, <1>5 DEF Wipe, InRun, Before, InTxn, After
  <2>3. Shelf' = [i \in Items |-> 0]
    BY <1>5, EmptyCatalogItems, FS_EmptySet DEF Wipe, Shelf
  <2> QED BY <2>1, <2>2, <2>3, LedgerSteps
<1>6. CASE Provision
  <2>1. book = "blank" /\ book' = "open" /\ LoadedHere' /\ ~LoadedHere
    BY <1>0, <1>6 DEF Provision, BookByPhase, InRun, Before, LoadedHere
  <2>2. TakenHere' \subseteq Items
    BY <1>0, <1>6, <2>1, SurveyLength DEF Provision, TakenHere, Taken, TypeOK, Items
  <2>3. quarantine' = <<>>
    BY <1>0, <1>6 DEF Provision, PositionInv
  <2>4. RefusedHere' = {} /\ RefusedHere = {}
    BY <2>1, <2>3 DEF RefusedHere, Refused, ToSet
  <2>5. Shelf' = Shelf
    BY <1>1, <1>6 DEF Provision
  <2> QED BY <2>1, <2>2, <2>4, <2>5, LedgerSteps
<1>7. ASSUME phase \in InRun \ {"clean", "quarantined"}, phase' \in InRun \ {"clean", "quarantined"},
             UNCHANGED <<db, limit, quarantine>>
      PROVE  UNCHANGED L!vars
  <2>1. Refused' = Refused
    BY <1>7 DEF Refused
  <2> QED BY <1>1, <1>7, <2>1, StaysOpen, LedgerSteps
<1>8. CASE LoadSurvey \/ EndNormalize \/ EndLoad \/ WriteReport \/ WriteQuarantine
  BY <1>7, <1>8 DEF LoadSurvey, EndNormalize, EndLoad, WriteReport, WriteQuarantine, InRun, Before,
                    InTxn, After
<1>9. CASE SkipFailed \/ Begin \/ UpsertBaseItem \/ InsertItem \/ InsertChild \/ Acknowledge
  BY <1>7, <1>9 DEF SkipFailed, Begin, UpsertBaseItem, InsertItem, InsertChild, Acknowledge, InRun,
                    InTxn
<1>10. ASSUME NEW i \in Taken, CacheHit(i) \/ LiveReply(i) PROVE UNCHANGED L!vars
  BY <1>7, <1>10 DEF CacheHit, LiveReply, Collected, InRun, Before
<1>11. ASSUME NEW i \in Taken \ Passed, NEW stage \in Stages, Quarantine(i, stage),
              phase \in InRun \ {"committed", "clean", "quarantined"},
              phase' \in InRun \ {"clean", "quarantined"},
              UNCHANGED <<db, limit>>
       PROVE  L!Next
  <2>1. i \in Items /\ i \in TakenHere /\ Shelf[i] = 0 /\ i \notin RefusedHere
    BY <1>11, NotPassedUnplaced
  <2>2. Refused' = Refused \cup {i}
    BY <1>0, <1>11, <2>1, QuarantineStep
  <2>3. /\ book = "open" /\ book' = book /\ TakenHere' = TakenHere
        /\ RefusedHere' = RefusedHere \cup {i} /\ Shelf' = Shelf
    BY <1>1, <1>11, <2>2, StaysOpen
  <2> QED BY <2>1, <2>3, LedgerSteps
<1>12. ASSUME NEW i \in Taken, LiveError(i) PROVE L!Next
  <2>1. k = 1 /\ i \notin failed
    BY <1>0, <1>12 DEF LiveError, Unsettled, PositionInv, Before
  <2>2. i \notin Passed
    BY <2>1 DEF Passed
  <2> QED BY <1>11, <1>12, <2>2 DEF LiveError, Stages, InRun, Before
<1>13. ASSUME k \in Taken \ failed PROVE k \in Taken \ Passed
  BY <1>0, <1>13, SurveyLength DEF Passed, TypeOK, Taken
<1>14. CASE RejectInvalid
  BY <1>11, <1>13, <1>14 DEF RejectInvalid, Stages, InRun
<1>15. CASE InsertFails
  <2>1. phase \in InTxn /\ k \in Taken \ failed
    BY <1>0, <1>15 DEF InsertFails, InTransaction, PositionInv, InTxn
  <2> QED BY <1>11, <1>13, <1>15, <2>1 DEF InsertFails, Stages, InRun, InTxn
<1>16. CASE Commit
  <2>1. /\ phase \in InRun \ {"committed", "clean", "quarantined"}
        /\ phase' \in InRun \ {"clean", "quarantined"}
        /\ UNCHANGED <<limit, quarantine>> /\ phase \in InTxn
    BY <1>16 DEF Commit, InRun, InTxn
  <2>2. k \in Items /\ k \in TakenHere /\ Shelf[k] = 0 /\ k \notin RefusedHere
    BY <1>0, <1>13, <2>1, NotPassedUnplaced DEF PositionInv
  <2>3. Refused' = Refused
    BY <2>1 DEF Refused
  <2>4. /\ book = "open" /\ book' = book /\ TakenHere' = TakenHere
        /\ RefusedHere' = RefusedHere
    BY <2>1, <2>3, StaysOpen
  <2>5. \A i \in Items : Shelf'[i] = IF i \in Landed \cup {k} THEN 1 ELSE 0
    BY <1>16, CommitStep, ShelfOfNext DEF ShelfByItem
  <2>6. Shelf' = [Shelf EXCEPT ![k] = 1]
    BY <2>2, <2>5, ShelfOf DEF ShelfByItem, Shelf
  <2> QED BY <2>2, <2>4, <2>6, LedgerSteps
<1>17. CASE Verdict
  <2>1. phase = "verdict" /\ UNCHANGED <<db, limit, quarantine>>
    BY <1>17 DEF Verdict
  <2>2. phase' \in {"quarantined", "clean"}
    BY <1>17, AllPassed DEF Verdict, After
  <2>3. book = "open" /\ LoadedHere /\ book' = "closed" /\ LoadedHere'
    BY <1>0, <2>1, <2>2 DEF BookByPhase, InRun, After
  <2>4. /\ TakenHere' = TakenHere /\ RefusedHere' = RefusedHere /\ Shelf' = Shelf
        /\ TakenHere = Taken /\ RefusedHere = Refused
    BY <1>1, <2>1, <2>3 DEF TakenHere, RefusedHere, Taken, Refused
  <2>5. Refused \cup Landed = Taken
    BY <1>0, <2>1, AllPassed DEF AccountInv, InRun, After
  <2>6. \A i \in TakenHere : Shelf[i] # 0 \/ i \in RefusedHere
    <3>1. Taken \subseteq Items
      BY <1>0, SurveyLength DEF Taken, TypeOK, Items
    <3> QED BY <2>4, <2>5, <3>1, ShelfOf DEF ShelfByItem
  <2> QED BY <2>3, <2>4, <2>6, LedgerSteps
<1>18. CASE UNCHANGED vars
  <2>1. Shelf' = Shelf /\ Refused' = Refused /\ Taken' = Taken
    BY <1>1, <1>18 DEF vars, Refused, Taken
  <2>2. book' = book /\ LoadedHere' = LoadedHere
    BY <1>18 DEF vars, book, LoadedHere, Running
  <2> QED BY <2>1, <2>2, LedgerSteps DEF TakenHere, RefusedHere
<1> QED
  BY <1>4, <1>5, <1>6, <1>8, <1>9, <1>10, <1>12, <1>14, <1>15, <1>16, <1>17, <1>18, StepKinds
  DEF Quiet

LEMMA LedgerInit == Init => L!Init
<1> SUFFICES ASSUME Init PROVE L!Init
  OBVIOUS
<1>1. book = "blank" /\ ~LoadedHere
  BY DEF Init, book, LoadedHere
<1>2. Shelf = [i \in Items |-> 0]
  BY EmptyCatalogItems, FS_EmptySet DEF Init, Shelf
<1> QED BY <1>1, <1>2 DEF L!Init, L!Empty, Shelf

(* The load keeps the Ledger: through every failure, crash, rerun and wipe *)
(* an item lands at most once, never both lands and is refused, and the    *)
(* run reports only when each item has done one of the two.                *)
THEOREM ExtractKeepsLedger == Spec => KeepsLedger
<1>1. IInv /\ IInv' /\ [Next]_vars => [L!Next]_L!vars
  BY LedgerStep
<1> QED BY InvariantHolds, LedgerInit, <1>1, PTL DEF Spec, KeepsLedger, L!Spec
-----------------------------------------------------------------------------
(* What Firsts, a list without its later duplicates, keeps.                *)

(* What Firsts keeps of the first n elements. *)
Kept(r, s, key, n) ==
    /\ \A p \in DOMAIN r : \E i \in 1..n : r[p] = s[i]
    /\ \A p, q \in DOMAIN r : p < q =>
          \E i, j \in 1..n : r[p] = s[i] /\ r[q] = s[j] /\ key[i] # key[j]
    /\ \A i \in 1..n : \E p \in DOMAIN r, j \in 1..n : r[p] = s[j] /\ key[j] = key[i]

(* One more element: its key is new, and it is kept, or it is not.         *)
LEMMA KeptNext ==
    ASSUME NEW S, NEW s \in Seq(S), NEW key, NEW n \in 1..Len(s), NEW r \in Seq(S),
           Kept(r, s, key, n - 1)
    PROVE  IF \E j \in 1..(n - 1) : key[j] = key[n] THEN Kept(r, s, key, n)
           ELSE Append(r, s[n]) \in Seq(S) /\ Kept(Append(r, s[n]), s, key, n)
<1>1. /\ n \in 1..n /\ \A i \in 1..(n - 1) : i \in 1..n
      /\ \A i \in 1..n : i = n \/ i \in 1..(n - 1)
  OBVIOUS
<1>2. CASE \E j \in 1..(n - 1) : key[j] = key[n]
  <2>1. \A p \in DOMAIN r : \E i \in 1..n : r[p] = s[i]
    BY <1>1 DEF Kept
  <2>2. \A p, q \in DOMAIN r : p < q =>
          \E i, j \in 1..n : r[p] = s[i] /\ r[q] = s[j] /\ key[i] # key[j]
    BY <1>1 DEF Kept
  <2>3. ASSUME NEW i \in 1..n PROVE \E p \in DOMAIN r, j \in 1..n : r[p] = s[j] /\ key[j] = key[i]
    <3>1. PICK h \in 1..(n - 1) : key[h] = key[i]
      BY <1>1, <1>2
    <3>2. PICK p \in DOMAIN r, j \in 1..(n - 1) : r[p] = s[j] /\ key[j] = key[h]
      BY DEF Kept
    <3> QED BY <1>1, <3>1, <3>2
  <2> QED BY <1>2, <2>1, <2>2, <2>3 DEF Kept
<1>3. CASE \A j \in 1..(n - 1) : key[j] # key[n]
  <2> DEFINE more == Append(r, s[n])
  <2>1. /\ more \in Seq(S) /\ Len(r) \in Nat /\ DOMAIN r = 1..Len(r)
        /\ DOMAIN more = 1..(Len(r) + 1) /\ more[Len(r) + 1] = s[n]
        /\ \A p \in 1..Len(r) : more[p] = r[p] /\ p \in DOMAIN more
        /\ Len(r) + 1 \in DOMAIN more
        /\ \A p \in DOMAIN more : p \in DOMAIN r \/ p = Len(r) + 1
    OBVIOUS
  <2> HIDE DEF more
  <2>2. ASSUME NEW p \in DOMAIN more PROVE \E i \in 1..n : more[p] = s[i]
    <3>1. CASE p \in DOMAIN r
      <4>1. PICK i \in 1..(n - 1) : r[p] = s[i]
        BY <3>1 DEF Kept
      <4> QED BY <1>1, <2>1, <3>1, <4>1
    <3>2. CASE p = Len(r) + 1
      BY <1>1, <2>1, <3>2
    <3> QED BY <2>1, <3>1, <3>2
  <2>3. ASSUME NEW p \in DOMAIN more, NEW q \in DOMAIN more, p < q
        PROVE  \E i, j \in 1..n : more[p] = s[i] /\ more[q] = s[j] /\ key[i] # key[j]
    <3>1. p \in DOMAIN r
      BY <2>1, <2>3
    <3>2. CASE q \in DOMAIN r
      <4>1. PICK i \in 1..(n - 1), j \in 1..(n - 1) : r[p] = s[i] /\ r[q] = s[j] /\ key[i] # key[j]
        BY <2>3, <3>1, <3>2 DEF Kept
      <4> QED BY <1>1, <2>1, <3>1, <3>2, <4>1
    <3>3. CASE q = Len(r) + 1
      <4>1. PICK i \in 1..(n - 1) : r[p] = s[i]
        BY <3>1 DEF Kept
      <4> QED BY <1>1, <1>3, <2>1, <3>1, <3>3, <4>1
    <3> QED BY <2>1, <3>2, <3>3
  <2>4. ASSUME NEW i \in 1..n PROVE \E p \in DOMAIN more, j \in 1..n : more[p] = s[j] /\ key[j] = key[i]
    <3>1. CASE i = n
      BY <1>1, <2>1, <3>1
    <3>2. CASE i \in 1..(n - 1)
      <4>1. PICK p \in DOMAIN r, j \in 1..(n - 1) : r[p] = s[j] /\ key[j] = key[i]
        BY <3>2 DEF Kept
      <4> QED BY <1>1, <2>1, <4>1
    <3> QED BY <1>1, <3>1, <3>2
  <2>5. Kept(more, s, key, n)
    BY <2>2, <2>3, <2>4 DEF Kept
  <2> QED BY <1>3, <2>1, <2>5 DEF more
<1> QED BY <1>2, <1>3

(* So Firsts keeps the first element of each key, for every sequence.      *)
LEMMA FirstsKept ==
    ASSUME NEW S, NEW s \in Seq(S), NEW key
    PROVE  Firsts(s, key) \in Seq(S) /\ Kept(Firsts(s, key), s, key, Len(s))
<1> SUFFICES ASSUME NEW n \in Nat, n = Len(s)
             PROVE  Firsts(s, key) \in Seq(S) /\ Kept(Firsts(s, key), s, key, n)
  OBVIOUS
<1> DEFINE Seen(i) == \E j \in 1..(i - 1) : key[j] = key[i]
           Unfolds(f) == f = [i \in 0..n |-> IF i = 0 THEN <<>>
                                             ELSE IF Seen(i) THEN f[i - 1]
                                                  ELSE Append(f[i - 1], s[i])]
           step == [p \in Seq(S) \X (1..n) |-> IF Seen(p[2]) THEN p[1] ELSE Append(p[1], s[p[2]])]
<1>1. \A v \in Seq(S), i \in 1..n :
         step[<<v, i>>] = (IF Seen(i) THEN v ELSE Append(v, s[i])) /\ step[<<v, i>>] \in Seq(S)
  <2> SUFFICES ASSUME NEW v \in Seq(S), NEW i \in 1..n
               PROVE  step[<<v, i>>] = (IF Seen(i) THEN v ELSE Append(v, s[i]))
                      /\ step[<<v, i>>] \in Seq(S)
    OBVIOUS
  <2>1. <<v, i>> \in Seq(S) \X (1..n) /\ s[i] \in S
    OBVIOUS
  <2>2. step[<<v, i>>] = (IF Seen(i) THEN v ELSE Append(v, s[i]))
    BY <2>1
  <2> HIDE DEF Seen, step
  <2>3. Append(v, s[i]) \in Seq(S)
    BY <2>1
  <2> QED BY <2>2, <2>3
<1>2. \E f : Unfolds(f)
  <2>1. StaysIn(Seq(S), n, <<>>, step)
    <3> HIDE DEF step
    <3> QED BY <1>1, EmptySeq DEF StaysIn
  <2>2. PICK g : Course(g, Seq(S), n, <<>>, step)
    BY <2>1, Recursion
  <2>3. /\ g \in [0..n -> Seq(S)] /\ g[0] = <<>>
        /\ \A i \in 1..n : g[i] = step[<<g[i - 1], i>>]
    BY <2>2 DEF Course
  <2> HIDE DEF step
  <2>4. ASSUME NEW i \in 0..n
        PROVE  g[i] = IF i = 0 THEN <<>> ELSE IF Seen(i) THEN g[i - 1] ELSE Append(g[i - 1], s[i])
    <3>1. CASE i = 0
      BY <2>3, <3>1
    <3>2. CASE i # 0
      <4>1. i \in 1..n /\ i - 1 \in 0..n
        BY <3>2
      <4>2. g[i - 1] \in Seq(S) /\ g[i] = step[<<g[i - 1], i>>]
        BY <2>3, <4>1
      <4> HIDE DEF Seen
      <4> QED BY <1>1, <3>2, <4>1, <4>2
    <3> QED BY <3>1, <3>2
  <2>5. g = [i \in 0..n |-> g[i]]
    BY <2>3
  <2> HIDE DEF Seen
  <2>6. Unfolds(g)
    BY <2>4, <2>5
  <2> QED BY <2>6
<1> DEFINE kept == CHOOSE f : Unfolds(f)
<1>3. Unfolds(kept)
  BY <1>2
<1>4. Firsts(s, key) = kept[n]
  BY DEF Firsts
<1> HIDE DEF kept
<1>5. /\ kept[0] = <<>>
      /\ \A i \in 1..n : kept[i] = IF Seen(i) THEN kept[i - 1] ELSE Append(kept[i - 1], s[i])
  <2>1. \A i \in 0..n : kept[i] = IF i = 0 THEN <<>> ELSE IF Seen(i) THEN kept[i - 1]
                                                          ELSE Append(kept[i - 1], s[i])
    BY <1>3
  <2>2. 0 \in 0..n /\ \A i \in 1..n : i \in 0..n /\ i # 0
    OBVIOUS
  <2> HIDE DEF Seen
  <2> QED BY <2>1, <2>2
<1> DEFINE T == {i \in 0..n : kept[i] \in Seq(S) /\ Kept(kept[i], s, key, i)}
<1>6. 0 \in T
  <2>1. kept[0] \in Seq(S) /\ DOMAIN kept[0] = {} /\ 1..0 = {}
    BY <1>5
  <2>2. Kept(kept[0], s, key, 0)
    BY <2>1 DEF Kept
  <2> QED BY <2>1, <2>2
<1>7. ASSUME NEW i \in 1..n, i - 1 \in T PROVE i \in T
  <2>1. kept[i - 1] \in Seq(S) /\ Kept(kept[i - 1], s, key, i - 1)
    BY <1>7
  <2>2. IF Seen(i) THEN Kept(kept[i - 1], s, key, i)
        ELSE Append(kept[i - 1], s[i]) \in Seq(S) /\ Kept(Append(kept[i - 1], s[i]), s, key, i)
    BY <2>1, KeptNext
  <2> HIDE DEF Seen
  <2>3. kept[i] \in Seq(S) /\ Kept(kept[i], s, key, i)
    BY <1>5, <2>1, <2>2
  <2> QED BY <2>3
<1>8. 0..n \subseteq T
  <2> HIDE DEF T
  <2> QED BY <1>6, <1>7, BoundedInduction
<1>9. n \in T
  BY <1>8
<1> QED BY <1>4, <1>9

(* r holds elements of s, one for each key. *)
Deduped(r, s, key) ==
    /\ ToSet(r) \subseteq ToSet(s)
    /\ \A p, q \in DOMAIN r : p < q => key[r[p]] # key[r[q]]
    /\ {key[x] : x \in ToSet(r)} = {key[x] : x \in ToSet(s)}

(* In terms of the elements, where the key is a function of them.          *)
LEMMA FirstsDedupe ==
    ASSUME NEW S, NEW s \in Seq(S), NEW key
    PROVE  LET r == Firsts(s, [j \in DOMAIN s |-> key[s[j]]])
           IN  r \in Seq(S) /\ Deduped(r, s, key)
<1> DEFINE at == [j \in DOMAIN s |-> key[s[j]]]
           r == Firsts(s, at)
<1>1. DOMAIN s = 1..Len(s) /\ \A j \in 1..Len(s) : at[j] = key[s[j]] /\ s[j] \in ToSet(s)
  BY DEF ToSet
<1>2. r \in Seq(S) /\ Kept(r, s, at, Len(s))
  BY FirstsKept
<1> HIDE DEF at, r
<1>3. ASSUME NEW p \in DOMAIN r PROVE r[p] \in ToSet(s) /\ r[p] \in ToSet(r)
  <2>1. PICK i \in 1..Len(s) : r[p] = s[i]
    BY <1>2 DEF Kept
  <2> QED BY <1>1, <2>1 DEF ToSet
<1>4. ASSUME NEW p \in DOMAIN r, NEW q \in DOMAIN r, p < q PROVE key[r[p]] # key[r[q]]
  <2>1. PICK i \in 1..Len(s), j \in 1..Len(s) : r[p] = s[i] /\ r[q] = s[j] /\ at[i] # at[j]
    BY <1>2, <1>4 DEF Kept
  <2> QED BY <1>1, <2>1
<1>5. ASSUME NEW i \in 1..Len(s) PROVE \E p \in DOMAIN r : key[r[p]] = key[s[i]]
  <2>1. PICK p \in DOMAIN r, j \in 1..Len(s) : r[p] = s[j] /\ at[j] = at[i]
    BY <1>2 DEF Kept
  <2> QED BY <1>1, <2>1
<1>6. ToSet(r) \subseteq ToSet(s)
  BY <1>3 DEF ToSet
<1>7. {key[x] : x \in ToSet(s)} \subseteq {key[x] : x \in ToSet(r)}
  <2> SUFFICES ASSUME NEW x \in ToSet(s) PROVE key[x] \in {key[y] : y \in ToSet(r)}
    OBVIOUS
  <2>1. PICK i \in 1..Len(s) : x = s[i]
    BY <1>1 DEF ToSet
  <2>2. PICK p \in DOMAIN r : key[r[p]] = key[s[i]]
    BY <1>5
  <2>3. r[p] \in ToSet(r)
    BY <1>3
  <2> QED BY <2>1, <2>2, <2>3
<1>8. Deduped(r, s, key)
  BY <1>4, <1>6, <1>7 DEF Deduped
<1> QED BY <1>2, <1>8 DEF r, at

(* The keys of the child lists. *)
CanonicalName(S) == [x \in S |-> Canonical(x.name)]
EffectKey == [e \in EffectRow |-> e.category]
LimitationKey == [l \in LimitationRow |-> <<l.kind, l.detail>>]
TargetKeys == [t \in TargetRow |-> TargetKey(t)]
VariantKeys == [v \in VariantRow |-> v.variantKey]

(* The same with the keys listed by position, as KeepFirst has them.       *)
LEMMA KeepFirstBy ==
    ASSUME NEW S, NEW s \in Seq(S), NEW key, DOMAIN key = S, NEW at, DOMAIN at = DOMAIN s,
           at = [j \in DOMAIN s |-> at[j]],
           \A j \in DOMAIN s : at[j] = key[s[j]]
    PROVE  Firsts(s, at) \in Seq(S) /\ Deduped(Firsts(s, at), s, key)
<1>1. at = [j \in DOMAIN s |-> key[s[j]]]
  OBVIOUS
<1> QED BY <1>1, FirstsDedupe

(* MergeEffects keeps one effect of each category.                         *)
LEMMA MergeEffectsKeepsCategories ==
    ASSUME NEW s \in Seq(EffectRow)
    PROVE  /\ MergeEffects(s) \in Seq(EffectRow)
           /\ \A p, q \in DOMAIN MergeEffects(s) :
                 p < q => MergeEffects(s)[p].category # MergeEffects(s)[q].category
           /\ {e.category : e \in ToSet(MergeEffects(s))} = {e.category : e \in ToSet(s)}
<1> DEFINE at == [j \in DOMAIN s |-> s[j].category]
           tags == Firsts(s, at)
           labels(c) == UNION {e.sourceLabel : e \in {x \in ToSet(s) : x.category = c}}
           m == [h \in DOMAIN tags |-> [tags[h] EXCEPT !.sourceLabel = labels(tags[h].category)]]
<1>1. tags \in Seq(EffectRow) /\ Deduped(tags, s, EffectKey)
  BY KeepFirstBy DEF EffectKey
<1>2. MergeEffects(s) = m
  BY DEF MergeEffects, KeepFirst
<1>3. \A x \in ToSet(s) : x \in EffectRow
  BY DEF ToSet
<1>4. \A c : labels(c) \in SUBSET STRING
  BY <1>3 DEF EffectRow
<1> HIDE DEF tags, labels
<1>5. DOMAIN tags = 1..Len(tags) /\ Len(tags) \in Nat /\ \A h \in 1..Len(tags) : tags[h] \in EffectRow
  BY <1>1
<1>6. \A h \in 1..Len(tags) : m[h] \in EffectRow /\ m[h].category = tags[h].category
  BY <1>4, <1>5 DEF EffectRow
<1>7. DOMAIN m = 1..Len(tags)
  BY <1>5
<1> HIDE DEF m
<1>8. m \in Seq(EffectRow)
  <2>1. m = [h \in 1..Len(tags) |-> m[h]]
    BY <1>7 DEF m
  <2> QED BY <1>5, <1>6, <2>1
<1>9. {e.category : e \in ToSet(m)} = {e.category : e \in ToSet(tags)}
  BY <1>5, <1>6, <1>7 DEF ToSet
<1>10. \A e \in EffectRow : EffectKey[e] = e.category
  BY DEF EffectKey
<1>11. {e.category : e \in ToSet(tags)} = {e.category : e \in ToSet(s)}
  <2>1. \A x \in ToSet(tags) : x \in EffectRow
    BY <1>5 DEF ToSet
  <2>2. {EffectKey[x] : x \in ToSet(tags)} = {EffectKey[x] : x \in ToSet(s)}
    BY <1>1 DEF Deduped
  <2>3. {EffectKey[x] : x \in ToSet(tags)} = {e.category : e \in ToSet(tags)}
    BY <1>10, <2>1
  <2>4. {EffectKey[x] : x \in ToSet(s)} = {e.category : e \in ToSet(s)}
    BY <1>3, <1>10
  <2> QED BY <2>2, <2>3, <2>4
<1>12. \A p, q \in DOMAIN m : p < q => m[p].category # m[q].category
  BY <1>1, <1>5, <1>6, <1>7, <1>10 DEF Deduped
<1> QED BY <1>2, <1>8, <1>9, <1>11, <1>12

(* Dedupe returns a reply, one row for each key in every list, none made   *)
(* up; of an effect's tags the categories are kept.                        *)
DedupesTo(n, d) ==
    /\ d \in NormalizedItem
    /\ Deduped(d.attuners, n.attuners, CanonicalName(AttunerRow))
    /\ Deduped(d.spells, n.spells, CanonicalName(SpellRow))
    /\ Deduped(d.variants, n.variants, VariantKeys)
    /\ Deduped(d.limitations, n.limitations, LimitationKey)
    /\ Deduped(d.creatureTargets, n.creatureTargets, TargetKeys)
    /\ \A p, q \in DOMAIN d.effects : p < q => d.effects[p].category # d.effects[q].category
    /\ {e.category : e \in ToSet(d.effects)} = {e.category : e \in ToSet(n.effects)}

(* Dedupe leaves one row of each key in every list of a reply.             *)
LEMMA DedupeLists ==
    ASSUME NEW n \in NormalizedItem
    PROVE  DedupesTo(n, Dedupe(n))
<1> DEFINE d == Dedupe(n)
<1>0. /\ n.attuners \in Seq(AttunerRow) /\ n.spells \in Seq(SpellRow)
      /\ n.variants \in Seq(VariantRow) /\ n.limitations \in Seq(LimitationRow)
      /\ n.creatureTargets \in Seq(TargetRow) /\ n.effects \in Seq(EffectRow)
  BY DEF NormalizedItem
<1> DEFINE atts == Firsts(n.attuners, [j \in DOMAIN n.attuners |-> Canonical(n.attuners[j].name)])
           spls == Firsts(n.spells, [j \in DOMAIN n.spells |-> Canonical(n.spells[j].name)])
           vrs == Firsts(n.variants, [j \in DOMAIN n.variants |-> n.variants[j].variantKey])
           lims == Firsts(n.limitations,
                          [j \in DOMAIN n.limitations |-> <<n.limitations[j].kind, n.limitations[j].detail>>])
           tgts == Firsts(n.creatureTargets,
                          [j \in DOMAIN n.creatureTargets |-> TargetKey(n.creatureTargets[j])])
           effs == MergeEffects(n.effects)
<1>1. atts \in Seq(AttunerRow) /\ Deduped(atts, n.attuners, CanonicalName(AttunerRow))
  <2>1. ASSUME NEW s \in Seq(AttunerRow)
        PROVE  LET r == Firsts(s, [j \in DOMAIN s |-> Canonical(s[j].name)])
               IN  r \in Seq(AttunerRow) /\ Deduped(r, s, CanonicalName(AttunerRow))
    <3> DEFINE at == [j \in DOMAIN s |-> Canonical(s[j].name)]
    <3>1. DOMAIN CanonicalName(AttunerRow) = AttunerRow /\ \A j \in DOMAIN s : at[j] = CanonicalName(AttunerRow)[s[j]]
      BY DEF CanonicalName
    <3>2. DOMAIN at = DOMAIN s /\ at = [j \in DOMAIN s |-> at[j]]
      OBVIOUS
    <3> HIDE DEF at
    <3>3. Firsts(s, at) \in Seq(AttunerRow) /\ Deduped(Firsts(s, at), s, CanonicalName(AttunerRow))
      BY <3>1, <3>2, KeepFirstBy
    <3> QED BY <3>3 DEF at
  <2> QED BY <1>0, <2>1
<1>2. spls \in Seq(SpellRow) /\ Deduped(spls, n.spells, CanonicalName(SpellRow))
  <2>1. ASSUME NEW s \in Seq(SpellRow)
        PROVE  LET r == Firsts(s, [j \in DOMAIN s |-> Canonical(s[j].name)])
               IN  r \in Seq(SpellRow) /\ Deduped(r, s, CanonicalName(SpellRow))
    <3> DEFINE at == [j \in DOMAIN s |-> Canonical(s[j].name)]
    <3>1. DOMAIN CanonicalName(SpellRow) = SpellRow /\ \A j \in DOMAIN s : at[j] = CanonicalName(SpellRow)[s[j]]
      BY DEF CanonicalName
    <3>2. DOMAIN at = DOMAIN s /\ at = [j \in DOMAIN s |-> at[j]]
      OBVIOUS
    <3> HIDE DEF at
    <3>3. Firsts(s, at) \in Seq(SpellRow) /\ Deduped(Firsts(s, at), s, CanonicalName(SpellRow))
      BY <3>1, <3>2, KeepFirstBy
    <3> QED BY <3>3 DEF at
  <2> QED BY <1>0, <2>1
<1>3. vrs \in Seq(VariantRow) /\ Deduped(vrs, n.variants, VariantKeys)
  <2>1. ASSUME NEW s \in Seq(VariantRow)
        PROVE  LET r == Firsts(s, [j \in DOMAIN s |-> s[j].variantKey])
               IN  r \in Seq(VariantRow) /\ Deduped(r, s, VariantKeys)
    <3> DEFINE at == [j \in DOMAIN s |-> s[j].variantKey]
    <3>1. DOMAIN VariantKeys = VariantRow /\ \A j \in DOMAIN s : at[j] = VariantKeys[s[j]]
      BY DEF VariantKeys
    <3>2. DOMAIN at = DOMAIN s /\ at = [j \in DOMAIN s |-> at[j]]
      OBVIOUS
    <3> HIDE DEF at
    <3>3. Firsts(s, at) \in Seq(VariantRow) /\ Deduped(Firsts(s, at), s, VariantKeys)
      BY <3>1, <3>2, KeepFirstBy
    <3> QED BY <3>3 DEF at
  <2> QED BY <1>0, <2>1
<1>4. lims \in Seq(LimitationRow) /\ Deduped(lims, n.limitations, LimitationKey)
  <2>1. ASSUME NEW s \in Seq(LimitationRow)
        PROVE  LET r == Firsts(s, [j \in DOMAIN s |-> <<s[j].kind, s[j].detail>>])
               IN  r \in Seq(LimitationRow) /\ Deduped(r, s, LimitationKey)
    <3> DEFINE at == [j \in DOMAIN s |-> <<s[j].kind, s[j].detail>>]
    <3>1. DOMAIN LimitationKey = LimitationRow /\ \A j \in DOMAIN s : at[j] = LimitationKey[s[j]]
      BY DEF LimitationKey
    <3>2. DOMAIN at = DOMAIN s /\ at = [j \in DOMAIN s |-> at[j]]
      OBVIOUS
    <3> HIDE DEF at
    <3>3. Firsts(s, at) \in Seq(LimitationRow) /\ Deduped(Firsts(s, at), s, LimitationKey)
      BY <3>1, <3>2, KeepFirstBy
    <3> QED BY <3>3 DEF at
  <2> QED BY <1>0, <2>1
<1>5. tgts \in Seq(TargetRow) /\ Deduped(tgts, n.creatureTargets, TargetKeys)
  <2>1. ASSUME NEW s \in Seq(TargetRow)
        PROVE  LET r == Firsts(s, [j \in DOMAIN s |-> TargetKey(s[j])])
               IN  r \in Seq(TargetRow) /\ Deduped(r, s, TargetKeys)
    <3> DEFINE at == [j \in DOMAIN s |-> TargetKey(s[j])]
    <3>1. DOMAIN TargetKeys = TargetRow /\ \A j \in DOMAIN s : at[j] = TargetKeys[s[j]]
      BY DEF TargetKeys
    <3>2. DOMAIN at = DOMAIN s /\ at = [j \in DOMAIN s |-> at[j]]
      OBVIOUS
    <3> HIDE DEF at
    <3>3. Firsts(s, at) \in Seq(TargetRow) /\ Deduped(Firsts(s, at), s, TargetKeys)
      BY <3>1, <3>2, KeepFirstBy
    <3> QED BY <3>3 DEF at
  <2> QED BY <1>0, <2>1
<1>6. /\ effs \in Seq(EffectRow)
      /\ \A p, q \in DOMAIN effs : p < q => effs[p].category # effs[q].category
      /\ {e.category : e \in ToSet(effs)} = {e.category : e \in ToSet(n.effects)}
  BY <1>0, MergeEffectsKeepsCategories
<1>7. d = [n EXCEPT !.effects = effs, !.limitations = lims, !.creatureTargets = tgts,
                    !.spells = spls, !.attuners = atts, !.variants = vrs]
  BY DEF Dedupe, KeepFirst
<1> HIDE DEF d, atts, spls, vrs, lims, tgts, effs
<1>8. d \in NormalizedItem
  BY <1>1, <1>2, <1>3, <1>4, <1>5, <1>6, <1>7 DEF NormalizedItem
<1>9. /\ d.attuners = atts /\ d.spells = spls /\ d.variants = vrs /\ d.limitations = lims
      /\ d.creatureTargets = tgts /\ d.effects = effs
  BY <1>7 DEF NormalizedItem
<1>10. DedupesTo(n, d)
  BY <1>1, <1>2, <1>3, <1>4, <1>5, <1>6, <1>8, <1>9 DEF DedupesTo
<1> QED BY <1>10 DEF d
-----------------------------------------------------------------------------
(* Two statements of one item with one unique key are two creature targets, *)
(* one of them with a species of white space.                              *)

(* Two statements of one item do not meet in a unique key, unless they are *)
(* creature targets and one has a species of white space.                  *)
StatementKey(s) ==
    IF s.table \in {"attunerKind", "spell"} THEN s.row.name ELSE UniqueKey(s.table, s.row)

BlankSpecies(n) == \E t \in ToSet(n.creatureTargets) : IsBlank(t.species) /\ t.species # NoText

AreApart(n, s, t) ==
    s.table = t.table => StatementKey(s) # StatementKey(t) \/ (s.table = "target" /\ BlankSpecies(n))

(* A stretch of the statements for reply n: they are those of S.           *)
Stretch(n, u, S) ==
    /\ u \in Seq(S)
    /\ ToSet(u) = S
    /\ \A p, q \in DOMAIN u : p < q => AreApart(n, u[p], u[q])

(* Two stretches of statements that cannot meet make one.                  *)
LEMMA StretchConcat ==
    ASSUME NEW n, NEW S, NEW T, NEW u, NEW v, Stretch(n, u, S), Stretch(n, v, T),
           \A s \in S, t \in T : AreApart(n, s, t)
    PROVE  Stretch(n, u \o v, S \cup T)
<1> DEFINE w == u \o v
<1>1. u \in Seq(S) /\ v \in Seq(T) /\ u \in Seq(S \cup T) /\ v \in Seq(S \cup T)
  BY DEF Stretch
<1>2. /\ Len(u) \in Nat /\ Len(v) \in Nat /\ DOMAIN u = 1..Len(u) /\ DOMAIN v = 1..Len(v)
      /\ \A p \in 1..Len(u) : u[p] \in S
      /\ \A p \in 1..Len(v) : v[p] \in T
  BY <1>1
<1>3. /\ w \in Seq(S \cup T) /\ Len(w) = Len(u) + Len(v)
      /\ \A p \in 1..(Len(u) + Len(v)) : w[p] = IF p <= Len(u) THEN u[p] ELSE v[p - Len(u)]
  BY <1>1, ConcatProperties
<1> HIDE DEF w
<1>4. /\ DOMAIN w = 1..(Len(u) + Len(v))
      /\ \A p \in 1..Len(u) : p \in DOMAIN w /\ w[p] = u[p]
      /\ \A p \in 1..Len(v) : Len(u) + p \in DOMAIN w /\ w[Len(u) + p] = v[p]
      /\ \A p \in DOMAIN w : p \in 1..Len(u) \/ (p - Len(u) \in 1..Len(v) /\ w[p] = v[p - Len(u)])
  <2>1. DOMAIN w = 1..(Len(u) + Len(v))
    BY <1>3, LenProperties
  <2>2. \A p \in 1..Len(u) : p \in DOMAIN w /\ w[p] = u[p]
    BY <1>2, <1>3, <2>1
  <2>3. \A p \in 1..Len(v) : /\ Len(u) + p \in 1..(Len(u) + Len(v)) /\ ~(Len(u) + p <= Len(u))
                             /\ (Len(u) + p) - Len(u) = p
    BY <1>2
  <2>4. \A p \in 1..Len(v) : Len(u) + p \in DOMAIN w /\ w[Len(u) + p] = v[p]
    BY <1>3, <2>1, <2>3
  <2>5. \A p \in 1..(Len(u) + Len(v)) : p \in 1..Len(u) \/ (~(p <= Len(u)) /\ p - Len(u) \in 1..Len(v))
    BY <1>2
  <2> QED BY <1>3, <2>1, <2>2, <2>4, <2>5
<1>5. ToSet(w) = S \cup T
  <2>1. ToSet(w) \subseteq S \cup T
    BY <1>2, <1>4 DEF ToSet
  <2>2. S \subseteq ToSet(w)
    <3>1. S = {u[p] : p \in 1..Len(u)}
      BY <1>2 DEF Stretch, ToSet
    <3> QED BY <1>4, <3>1 DEF ToSet
  <2>3. T \subseteq ToSet(w)
    <3>1. T = {v[p] : p \in 1..Len(v)}
      BY <1>2 DEF Stretch, ToSet
    <3> QED BY <1>4, <3>1 DEF ToSet
  <2> QED BY <2>1, <2>2, <2>3
<1>6. ASSUME NEW p \in DOMAIN w, NEW q \in DOMAIN w, p < q PROVE AreApart(n, w[p], w[q])
  <2>1. CASE p \in 1..Len(u) /\ q \in 1..Len(u)
    BY <1>2, <1>4, <1>6, <2>1 DEF Stretch
  <2>2. CASE p \in 1..Len(u) /\ q \notin 1..Len(u)
    BY <1>2, <1>4, <2>2
  <2>3. CASE p \notin 1..Len(u)
    <3>1. q \notin 1..Len(u)
      BY <1>2, <1>4, <1>6, <2>3
    <3>2. p - Len(u) < q - Len(u)
      BY <1>2, <1>4, <1>6
    <3> QED BY <1>2, <1>4, <2>3, <3>1, <3>2 DEF Stretch
  <2> QED BY <2>1, <2>2, <2>3
<1>7. Stretch(n, w, S \cup T)
  BY <1>3, <1>5, <1>6 DEF Stretch
<1> QED BY <1>7 DEF w

(* What f makes of the elements of s stays apart; and from what g makes.   *)
Apart(n, s, f) == \A p, q \in DOMAIN s : p < q => AreApart(n, f[s[p]], f[s[q]])
Aside(n, s, f, g) ==
    \A p, q \in DOMAIN s : AreApart(n, f[s[p]], g[s[q]]) /\ AreApart(n, g[s[p]], f[s[q]])

(* One statement for each element of a list; two.                          *)
Singles(s, f) == FlattenSeq([h \in DOMAIN s |-> <<f[s[h]]>>])
Pairs(s, f, g) == FlattenSeq([h \in DOMAIN s |-> <<f[s[h]], g[s[h]]>>])
Made(s, f) == {f[x] : x \in ToSet(s)}

(* One statement for each element.                                         *)
LEMMA StretchOfSingles ==
    ASSUME NEW n, NEW X, NEW s \in Seq(X), NEW f, Apart(n, s, f)
    PROVE  Stretch(n, Singles(s, f), Made(s, f))
<1> DEFINE S == {f[x] : x \in ToSet(s)}
           ss == [h \in DOMAIN s |-> <<f[s[h]]>>]
           w == FlattenSeq(ss)
<1>1. /\ DOMAIN s = 1..Len(s) /\ Len(s) \in Nat /\ DOMAIN ss = 1..Len(s)
      /\ \A h \in 1..Len(s) : f[s[h]] \in S
  BY DEF ToSet
<1>2. \A h \in 1..Len(s) : ss[h] \in Seq(S) /\ DOMAIN ss[h] = {1} /\ ss[h][1] = f[s[h]]
  <2> SUFFICES ASSUME NEW h \in 1..Len(s)
               PROVE  ss[h] \in Seq(S) /\ DOMAIN ss[h] = {1} /\ ss[h][1] = f[s[h]]
    OBVIOUS
  <2>1. ss[h] = <<f[s[h]]>> /\ f[s[h]] \in S
    BY <1>1
  <2> HIDE DEF ss, S
  <2> QED BY <2>1
<1>3. ss \in Seq(Seq(S)) /\ Len(ss) = Len(s)
  <2>1. ss = [h \in 1..Len(s) |-> ss[h]]
    BY <1>1
  <2> HIDE DEF ss, S
  <2> QED BY <1>1, <1>2, <2>1
<1> HIDE DEF ss, S
<1>4. w \in Seq(S) /\ Gathers(w, ss, Len(s)) /\ ToSet(w) = UNION {ToSet(ss[i]) : i \in DOMAIN ss}
  BY <1>3, FlattenProperties, FlattenElements
<1> HIDE DEF w
<1>5. ToSet(w) = S
  <2>1. \A h \in 1..Len(s) : ToSet(ss[h]) = {f[s[h]]}
    BY <1>2 DEF ToSet
  <2>2. S = {f[s[h]] : h \in 1..Len(s)}
    BY <1>1 DEF S, ToSet
  <2> QED BY <1>1, <1>4, <2>1, <2>2
<1>6. ASSUME NEW p \in DOMAIN w, NEW q \in DOMAIN w, p < q PROVE AreApart(n, w[p], w[q])
  <2>1. PICK a \in 1..Len(s), b \in 1..Len(s) : \E x \in DOMAIN ss[a], y \in DOMAIN ss[b] :
           w[p] = ss[a][x] /\ w[q] = ss[b][y] /\ (a < b \/ (a = b /\ x < y))
    BY <1>4, <1>6 DEF Gathers
  <2>2. w[p] = f[s[a]] /\ w[q] = f[s[b]] /\ a < b
    BY <1>2, <2>1
  <2> QED BY <1>1, <2>2 DEF Apart
<1>7. Stretch(n, w, S)
  BY <1>4, <1>5, <1>6 DEF Stretch
<1> QED BY <1>7 DEF w, S, ss, Singles, Made

(* Two statements for each element of a list, on different tables. *)

(* Two statements for each element.                                        *)
LEMMA StretchOfPairs ==
    ASSUME NEW n, NEW X, NEW s \in Seq(X), NEW f, NEW g,
           Apart(n, s, f), Apart(n, s, g), Aside(n, s, f, g)
    PROVE  Stretch(n, Pairs(s, f, g), Made(s, f) \cup Made(s, g))
<1> DEFINE S == {f[x] : x \in ToSet(s)} \cup {g[x] : x \in ToSet(s)}
           ss == [h \in DOMAIN s |-> <<f[s[h]], g[s[h]]>>]
           w == FlattenSeq(ss)
<1>1. /\ DOMAIN s = 1..Len(s) /\ Len(s) \in Nat /\ DOMAIN ss = 1..Len(s)
      /\ \A h \in 1..Len(s) : f[s[h]] \in S /\ g[s[h]] \in S
  BY DEF ToSet
<1>2. \A h \in 1..Len(s) : ss[h] \in Seq(S) /\ DOMAIN ss[h] = {1, 2} /\ ss[h][1] = f[s[h]]
                           /\ ss[h][2] = g[s[h]]
  <2> SUFFICES ASSUME NEW h \in 1..Len(s)
               PROVE  ss[h] \in Seq(S) /\ DOMAIN ss[h] = {1, 2} /\ ss[h][1] = f[s[h]]
                      /\ ss[h][2] = g[s[h]]
    OBVIOUS
  <2>1. ss[h] = <<f[s[h]], g[s[h]]>> /\ f[s[h]] \in S /\ g[s[h]] \in S
    BY <1>1
  <2> HIDE DEF ss, S
  <2> QED BY <2>1
<1>3. ss \in Seq(Seq(S)) /\ Len(ss) = Len(s)
  <2>1. ss = [h \in 1..Len(s) |-> ss[h]]
    BY <1>1
  <2> HIDE DEF ss, S
  <2> QED BY <1>1, <1>2, <2>1
<1> HIDE DEF ss, S
<1>4. w \in Seq(S) /\ Gathers(w, ss, Len(s)) /\ ToSet(w) = UNION {ToSet(ss[i]) : i \in DOMAIN ss}
  BY <1>3, FlattenProperties, FlattenElements
<1> HIDE DEF w
<1>5. ToSet(w) = S
  <2>1. \A h \in 1..Len(s) : ToSet(ss[h]) = {f[s[h]], g[s[h]]}
    BY <1>2 DEF ToSet
  <2>2. S = {f[s[h]] : h \in 1..Len(s)} \cup {g[s[h]] : h \in 1..Len(s)}
    BY <1>1 DEF S, ToSet
  <2> QED BY <1>1, <1>4, <2>1, <2>2
<1>6. ASSUME NEW p \in DOMAIN w, NEW q \in DOMAIN w, p < q PROVE AreApart(n, w[p], w[q])
  <2>1. PICK a \in 1..Len(s), b \in 1..Len(s) : \E x \in DOMAIN ss[a], y \in DOMAIN ss[b] :
           w[p] = ss[a][x] /\ w[q] = ss[b][y] /\ (a < b \/ (a = b /\ x < y))
    BY <1>4, <1>6 DEF Gathers
  <2>2. PICK x \in {1, 2}, y \in {1, 2} :
           w[p] = ss[a][x] /\ w[q] = ss[b][y] /\ (a < b \/ (a = b /\ x < y))
    BY <1>2, <2>1
  <2>3. CASE x = 1 /\ y = 2
    BY <1>1, <1>2, <2>2, <2>3 DEF Aside
  <2>4. CASE x = 2 /\ y = 1
    BY <1>1, <1>2, <2>2, <2>4 DEF Aside
  <2>5. CASE x = y
    <3>1. a < b
      BY <2>2, <2>5
    <3>2. (w[p] = f[s[a]] /\ w[q] = f[s[b]]) \/ (w[p] = g[s[a]] /\ w[q] = g[s[b]])
      BY <1>2, <2>2, <2>5
    <3>3. a \in DOMAIN s /\ b \in DOMAIN s
      BY <1>1
    <3>4. AreApart(n, f[s[a]], f[s[b]]) /\ AreApart(n, g[s[a]], g[s[b]])
      BY <3>1, <3>3 DEF Apart
    <3> QED BY <3>2, <3>4
  <2> QED BY <2>3, <2>4, <2>5
<1>7. Stretch(n, w, S)
  BY <1>4, <1>5, <1>6 DEF Stretch
<1> QED BY <1>7 DEF w, S, ss, Pairs, Made
-----------------------------------------------------------------------------
(* The statements Insert makes of a reply.                                 *)

(* The statements of Insert, one kind at a time. *)
Variants(id, n) == {VariantStatement(id, v) : v \in ToSet(n.variants)}
Kinds(n) == {AttunerKindStatement(a) : a \in ToSet(n.attuners)}
Allows(id, n) == {AllowlistStatement(id, a) : a \in ToSet(n.attuners)}
Tags(id, n) == {EffectStatement(id, e) : e \in ToSet(n.effects)}
Targets(id, n) == {TargetStatement(id, t) : t \in ToSet(n.creatureTargets)}
Restraints(id, n) == {LimitationStatement(id, l) : l \in ToSet(n.limitations)}
Spells(n) == {SpellStatement(s) : s \in ToSet(n.spells)}
ItemSpells(id, n) == {ItemSpellStatement(id, s) : s \in ToSet(n.spells)}

AllChildren(id, n) ==
    Variants(id, n) \cup (Kinds(n) \cup Allows(id, n)) \cup Tags(id, n) \cup Targets(id, n)
    \cup Restraints(id, n) \cup (Spells(n) \cup ItemSpells(id, n))

(* The unique key of a statement of each kind.                             *)
LEMMA StatementKeys ==
    ASSUME NEW id
    PROVE  /\ \A v : StatementKey(VariantStatement(id, v)) = v.variantKey
           /\ \A a : StatementKey(AttunerKindStatement(a)) = Canonical(a.name)
           /\ \A a : StatementKey(AllowlistStatement(id, a)) = Canonical(a.name)
           /\ \A e : StatementKey(EffectStatement(id, e)) = e.category
           /\ \A t : StatementKey(TargetStatement(id, t))
                        = <<t.family, t.role, StrPtr(ToLower(t.species))>>
           /\ \A l : StatementKey(LimitationStatement(id, l)) = <<l.kind, l.detail>>
           /\ \A s : StatementKey(SpellStatement(s)) = Canonical(s.name)
           /\ \A s : StatementKey(ItemSpellStatement(id, s)) = Canonical(s.name)
  BY DEF StatementKey, UniqueKey, Statement, VariantStatement, AttunerKindStatement,
         AllowlistStatement, EffectStatement, TargetStatement, LimitationStatement, SpellStatement,
         ItemSpellStatement

(* The table of a statement of each kind.                                  *)
LEMMA StatementTables ==
    ASSUME NEW id, NEW n
    PROVE  /\ \A s \in Variants(id, n) : s.table = "variant"
           /\ \A s \in Kinds(n) : s.table = "attunerKind"
           /\ \A s \in Allows(id, n) : s.table = "allowlist"
           /\ \A s \in Tags(id, n) : s.table = "effect"
           /\ \A s \in Targets(id, n) : s.table = "target"
           /\ \A s \in Restraints(id, n) : s.table = "limitation"
           /\ \A s \in Spells(n) : s.table = "spell"
           /\ \A s \in ItemSpells(id, n) : s.table = "itemSpell"
  BY DEF Statement, VariantStatement, AttunerKindStatement,
         AllowlistStatement, EffectStatement, TargetStatement, LimitationStatement, SpellStatement,
         ItemSpellStatement, Variants, Kinds, Allows, Tags, Targets, Restraints, Spells, ItemSpells

(* Texts are their three fields.                                           *)
TextRecord == [word : STRING, padded : BOOLEAN, caps : BOOLEAN]

(* The fields of a text that is not absent.                                *)
LEMMA TextFields ==
    ASSUME NEW u \in TextRecord
    PROVE  /\ ToLower(u) \in TextRecord /\ ToLower(u).word = u.word
           /\ ToLower(u).padded = u.padded /\ ToLower(u).caps = FALSE
           /\ TrimSpace(u) \in TextRecord /\ TrimSpace(u).word = u.word
           /\ TrimSpace(u).padded = FALSE /\ TrimSpace(u).caps = u.caps
<1>1. ToLower(u) \in TextRecord /\ ToLower(u).word = u.word
  BY DEF ToLower, TextRecord
<1>2. ToLower(u).padded = u.padded
  BY DEF ToLower, TextRecord
<1>3. ToLower(u).caps = FALSE
  BY DEF ToLower, TextRecord
<1>4. TrimSpace(u) \in TextRecord /\ TrimSpace(u).word = u.word
  BY DEF TrimSpace, TextRecord
<1>5. TrimSpace(u).padded = FALSE
  BY DEF TrimSpace, TextRecord
<1>6. TrimSpace(u).caps = u.caps
  BY DEF TrimSpace, TextRecord
<1> QED BY <1>1, <1>2, <1>3, <1>4, <1>5, <1>6

(* NoText is the text without a word, padding or capitals.                 *)
LEMMA NoTextFields ==
    ASSUME NEW u \in TextRecord
    PROVE  u = NoText <=> (u.word = "" /\ u.padded = FALSE /\ u.caps = FALSE)
<1>1. ASSUME u.word = "", u.padded = FALSE, u.caps = FALSE PROVE u = NoText
  BY <1>1 DEF NoText, Text, TextRecord
<1>2. ASSUME u = NoText PROVE u.word = "" /\ u.padded = FALSE /\ u.caps = FALSE
  BY <1>2 DEF NoText, Text, TextRecord
<1> QED BY <1>1, <1>2

(* A text is its three fields.                                             *)
LEMMA SameText ==
    ASSUME NEW u \in TextRecord, NEW v \in TextRecord,
           u.word = v.word, u.padded = v.padded, u.caps = v.caps
    PROVE  u = v
  BY DEF TextRecord

(* White space is what has no word; it has no case.                        *)
LEMMA Blanks ==
    ASSUME NEW u \in TextValue
    PROVE  /\ u \in TextRecord
           /\ IsBlank(u) <=> u.word = ""
           /\ IsBlank(ToLower(u)) <=> u.word = ""
           /\ u.word = "" => u.caps = FALSE
<1>1. u \in TextRecord
  BY DEF TextValue, TextRecord
<1>2. u.word = "" => u.caps = FALSE
  BY DEF TextValue
<1>3. IsBlank(u) <=> u.word = ""
  BY <1>1, <1>2, TextFields, NoTextFields DEF IsBlank
<1>4. IsBlank(ToLower(u)) <=> u.word = ""
  BY <1>1, <1>2, TextFields, NoTextFields DEF IsBlank
<1> QED BY <1>1, <1>2, <1>3, <1>4

(* Lowered species that differ are stored apart, unless both are blank. *)
LEMMA SpeciesApart ==
    ASSUME NEW s \in TextValue, NEW t \in TextValue, ToLower(s) # ToLower(t),
           StrPtr(ToLower(s)) = StrPtr(ToLower(t))
    PROVE  (IsBlank(s) /\ s # NoText) \/ (IsBlank(t) /\ t # NoText)
<1>1. CASE IsBlank(ToLower(s)) /\ IsBlank(ToLower(t))
  <2>1. s.word = "" /\ t.word = "" /\ IsBlank(s) /\ IsBlank(t) /\ s \in TextRecord /\ t \in TextRecord
    BY <1>1, Blanks
  <2>2. ASSUME s.padded = t.padded PROVE FALSE
    <3>1. /\ ToLower(s) \in TextRecord /\ ToLower(s).word = "" /\ ToLower(s).padded = s.padded
          /\ ToLower(s).caps = FALSE
      BY <2>1, TextFields
    <3>2. /\ ToLower(t) \in TextRecord /\ ToLower(t).word = "" /\ ToLower(t).padded = t.padded
          /\ ToLower(t).caps = FALSE
      BY <2>1, TextFields
    <3>3. ToLower(s) = ToLower(t)
      BY <2>2, <3>1, <3>2, SameText
    <3> QED BY <3>3
  <2>3. s # t
    BY <2>2
  <2> QED BY <2>1, <2>3
<1>2. CASE ~(IsBlank(ToLower(s)) /\ IsBlank(ToLower(t)))
  BY <1>2 DEF StrPtr
<1> QED BY <1>1, <1>2

(* A list without two elements of the same key. *)
Distinct(s, key) == \A p, q \in DOMAIN s : p < q => key[s[p]] # key[s[q]]

(* Rows with different keys make statements that are apart.                *)
LEMMA ApartByKey ==
    ASSUME NEW n, NEW s, NEW key, NEW f, Distinct(s, key),
           \A p \in DOMAIN s : StatementKey(f[s[p]]) = key[s[p]]
    PROVE  Apart(n, s, f)
  BY DEF Distinct, Apart, AreApart
-----------------------------------------------------------------------------
(* The stretches of one list each. *)
LEMMA VariantStretch ==
    ASSUME NEW id, NEW n, NEW s \in Seq(VariantRow), Distinct(s, VariantKeys)
    PROVE  Stretch(n, ForEach(s, LAMBDA v : <<VariantStatement(id, v)>>), {VariantStatement(id, v) : v \in ToSet(s)})
<1> DEFINE f == [v \in VariantRow |-> VariantStatement(id, v)]
<1>1. \A p \in DOMAIN s : s[p] \in VariantRow /\ f[s[p]] = VariantStatement(id, s[p])
  OBVIOUS
<1>2. {f[x] : x \in ToSet(s)} = {VariantStatement(id, v) : v \in ToSet(s)}
  BY <1>1 DEF ToSet
<1>3. [h \in DOMAIN s |-> <<f[s[h]]>>] = [h \in DOMAIN s |-> <<VariantStatement(id, s[h])>>]
  BY <1>1
<1> HIDE DEF f
<1>4. \A p \in DOMAIN s : StatementKey(f[s[p]]) = VariantKeys[s[p]]
  BY <1>1, StatementKeys DEF VariantKeys
<1>5. Apart(n, s, f)
  BY <1>4, ApartByKey
<1>6. Stretch(n, Singles(s, f), Made(s, f))
  BY <1>5, StretchOfSingles
<1> QED BY <1>2, <1>3, <1>6 DEF ForEach, Singles, Made

(* The attuners, each with its kind first.                                 *)
LEMMA AttunerStretch ==
    ASSUME NEW id, NEW n, NEW s \in Seq(AttunerRow), Distinct(s, CanonicalName(AttunerRow))
    PROVE  Stretch(n, ForEach(s, LAMBDA a : <<AttunerKindStatement(a), AllowlistStatement(id, a)>>),
                   {AttunerKindStatement(a) : a \in ToSet(s)} \cup {AllowlistStatement(id, a) : a \in ToSet(s)})
<1> DEFINE f == [a \in AttunerRow |-> AttunerKindStatement(a)]
           g == [a \in AttunerRow |-> AllowlistStatement(id, a)]
<1>1. \A p \in DOMAIN s : /\ s[p] \in AttunerRow /\ f[s[p]] = AttunerKindStatement(s[p])
                         /\ g[s[p]] = AllowlistStatement(id, s[p])
  OBVIOUS
<1>2. {f[x] : x \in ToSet(s)} = {AttunerKindStatement(a) : a \in ToSet(s)}
  BY <1>1 DEF ToSet
<1>3. {g[x] : x \in ToSet(s)} = {AllowlistStatement(id, a) : a \in ToSet(s)}
  BY <1>1 DEF ToSet
<1>4. [h \in DOMAIN s |-> <<f[s[h]], g[s[h]]>>]
         = [h \in DOMAIN s |-> <<AttunerKindStatement(s[h]), AllowlistStatement(id, s[h])>>]
  BY <1>1
<1> HIDE DEF f, g
<1>5. \A p \in DOMAIN s : /\ StatementKey(f[s[p]]) = CanonicalName(AttunerRow)[s[p]]
                         /\ StatementKey(g[s[p]]) = CanonicalName(AttunerRow)[s[p]]
  <2>1. \A p \in DOMAIN s : CanonicalName(AttunerRow)[s[p]] = Canonical(s[p].name)
    BY <1>1 DEF CanonicalName
  <2>2. \A r : StatementKey(AttunerKindStatement(r)) = Canonical(r.name)
    BY StatementKeys
  <2>3. \A r : StatementKey(AllowlistStatement(id, r)) = Canonical(r.name)
    BY StatementKeys
  <2>4. \A p \in DOMAIN s : StatementKey(f[s[p]]) = CanonicalName(AttunerRow)[s[p]]
    BY <1>1, <2>1, <2>2
  <2>5. \A p \in DOMAIN s : StatementKey(g[s[p]]) = CanonicalName(AttunerRow)[s[p]]
    BY <1>1, <2>1, <2>3
  <2> QED BY <2>4, <2>5
<1>6. Apart(n, s, f) /\ Apart(n, s, g)
  BY <1>5, ApartByKey
<1>7. Aside(n, s, f, g)
  <2>1. ASSUME NEW p \in DOMAIN s, NEW q \in DOMAIN s
        PROVE  f[s[p]].table # g[s[q]].table /\ g[s[p]].table # f[s[q]].table
    <3>1. /\ f[s[p]] = AttunerKindStatement(s[p]) /\ g[s[q]] = AllowlistStatement(id, s[q])
          /\ g[s[p]] = AllowlistStatement(id, s[p]) /\ f[s[q]] = AttunerKindStatement(s[q])
      BY <1>1
    <3> QED BY <3>1 DEF Statement, AttunerKindStatement, AllowlistStatement
  <2> QED BY <2>1 DEF Aside, AreApart
<1>8. Stretch(n, Pairs(s, f, g), Made(s, f) \cup Made(s, g))
  BY <1>6, <1>7, StretchOfPairs
<1> QED BY <1>2, <1>3, <1>4, <1>8 DEF ForEach, Pairs, Made

(* The effects.                                                            *)
LEMMA EffectStretch ==
    ASSUME NEW id, NEW n, NEW s \in Seq(EffectRow), Distinct(s, EffectKey)
    PROVE  Stretch(n, ForEach(s, LAMBDA e : <<EffectStatement(id, e)>>), {EffectStatement(id, e) : e \in ToSet(s)})
<1> DEFINE f == [e \in EffectRow |-> EffectStatement(id, e)]
<1>1. \A p \in DOMAIN s : s[p] \in EffectRow /\ f[s[p]] = EffectStatement(id, s[p])
  OBVIOUS
<1>2. {f[x] : x \in ToSet(s)} = {EffectStatement(id, e) : e \in ToSet(s)}
  BY <1>1 DEF ToSet
<1>3. [h \in DOMAIN s |-> <<f[s[h]]>>] = [h \in DOMAIN s |-> <<EffectStatement(id, s[h])>>]
  BY <1>1
<1> HIDE DEF f
<1>4. \A p \in DOMAIN s : StatementKey(f[s[p]]) = EffectKey[s[p]]
  BY <1>1, StatementKeys DEF EffectKey
<1>5. Apart(n, s, f)
  BY <1>4, ApartByKey
<1>6. Stretch(n, Singles(s, f), Made(s, f))
  BY <1>5, StretchOfSingles
<1> QED BY <1>2, <1>3, <1>6 DEF ForEach, Singles, Made

(* The limitations.                                                        *)
LEMMA LimitationStretch ==
    ASSUME NEW id, NEW n, NEW s \in Seq(LimitationRow), Distinct(s, LimitationKey)
    PROVE  Stretch(n, ForEach(s, LAMBDA l : <<LimitationStatement(id, l)>>), {LimitationStatement(id, l) : l \in ToSet(s)})
<1> DEFINE f == [l \in LimitationRow |-> LimitationStatement(id, l)]
<1>1. \A p \in DOMAIN s : s[p] \in LimitationRow /\ f[s[p]] = LimitationStatement(id, s[p])
  OBVIOUS
<1>2. {f[x] : x \in ToSet(s)} = {LimitationStatement(id, l) : l \in ToSet(s)}
  BY <1>1 DEF ToSet
<1>3. [h \in DOMAIN s |-> <<f[s[h]]>>] = [h \in DOMAIN s |-> <<LimitationStatement(id, s[h])>>]
  BY <1>1
<1> HIDE DEF f
<1>4. \A p \in DOMAIN s : StatementKey(f[s[p]]) = LimitationKey[s[p]]
  BY <1>1, StatementKeys DEF LimitationKey
<1>5. Apart(n, s, f)
  BY <1>4, ApartByKey
<1>6. Stretch(n, Singles(s, f), Made(s, f))
  BY <1>5, StretchOfSingles
<1> QED BY <1>2, <1>3, <1>6 DEF ForEach, Singles, Made

(* The spells, each before the row that refers to it.                      *)
LEMMA SpellStretch ==
    ASSUME NEW id, NEW n, NEW s \in Seq(SpellRow), Distinct(s, CanonicalName(SpellRow))
    PROVE  Stretch(n, ForEach(s, LAMBDA r : <<SpellStatement(r), ItemSpellStatement(id, r)>>),
                   {SpellStatement(r) : r \in ToSet(s)} \cup {ItemSpellStatement(id, r) : r \in ToSet(s)})
<1> DEFINE f == [r \in SpellRow |-> SpellStatement(r)]
           g == [r \in SpellRow |-> ItemSpellStatement(id, r)]
<1>1. \A p \in DOMAIN s : /\ s[p] \in SpellRow /\ f[s[p]] = SpellStatement(s[p])
                         /\ g[s[p]] = ItemSpellStatement(id, s[p])
  OBVIOUS
<1>2. {f[x] : x \in ToSet(s)} = {SpellStatement(r) : r \in ToSet(s)}
  BY <1>1 DEF ToSet
<1>3. {g[x] : x \in ToSet(s)} = {ItemSpellStatement(id, r) : r \in ToSet(s)}
  BY <1>1 DEF ToSet
<1>4. [h \in DOMAIN s |-> <<f[s[h]], g[s[h]]>>]
         = [h \in DOMAIN s |-> <<SpellStatement(s[h]), ItemSpellStatement(id, s[h])>>]
  BY <1>1
<1> HIDE DEF f, g
<1>5. \A p \in DOMAIN s : /\ StatementKey(f[s[p]]) = CanonicalName(SpellRow)[s[p]]
                         /\ StatementKey(g[s[p]]) = CanonicalName(SpellRow)[s[p]]
  <2>1. \A p \in DOMAIN s : CanonicalName(SpellRow)[s[p]] = Canonical(s[p].name)
    BY <1>1 DEF CanonicalName
  <2>2. \A r : StatementKey(SpellStatement(r)) = Canonical(r.name)
    BY StatementKeys
  <2>3. \A r : StatementKey(ItemSpellStatement(id, r)) = Canonical(r.name)
    BY StatementKeys
  <2>4. \A p \in DOMAIN s : StatementKey(f[s[p]]) = CanonicalName(SpellRow)[s[p]]
    BY <1>1, <2>1, <2>2
  <2>5. \A p \in DOMAIN s : StatementKey(g[s[p]]) = CanonicalName(SpellRow)[s[p]]
    BY <1>1, <2>1, <2>3
  <2> QED BY <2>4, <2>5
<1>6. Apart(n, s, f) /\ Apart(n, s, g)
  BY <1>5, ApartByKey
<1>7. Aside(n, s, f, g)
  <2>1. ASSUME NEW p \in DOMAIN s, NEW q \in DOMAIN s
        PROVE  f[s[p]].table # g[s[q]].table /\ g[s[p]].table # f[s[q]].table
    <3>1. /\ f[s[p]] = SpellStatement(s[p]) /\ g[s[q]] = ItemSpellStatement(id, s[q])
          /\ g[s[p]] = ItemSpellStatement(id, s[p]) /\ f[s[q]] = SpellStatement(s[q])
      BY <1>1
    <3> QED BY <3>1 DEF Statement, SpellStatement, ItemSpellStatement
  <2> QED BY <2>1 DEF Aside, AreApart
<1>8. Stretch(n, Pairs(s, f, g), Made(s, f) \cup Made(s, g))
  BY <1>6, <1>7, StretchOfPairs
<1> QED BY <1>2, <1>3, <1>4, <1>8 DEF ForEach, Pairs, Made

(* The creature targets: the only ones that may meet.                      *)
LEMMA TargetStretch ==
    ASSUME NEW id, NEW n, NEW s \in Seq(TargetRow), s = n.creatureTargets, Distinct(s, TargetKeys)
    PROVE  Stretch(n, ForEach(s, LAMBDA t : <<TargetStatement(id, t)>>),
                   {TargetStatement(id, t) : t \in ToSet(s)})
<1> DEFINE f == [t \in TargetRow |-> TargetStatement(id, t)]
<1>1. \A p \in DOMAIN s : s[p] \in TargetRow /\ s[p] \in ToSet(s) /\ f[s[p]] = TargetStatement(id, s[p])
  BY DEF ToSet
<1>2. {f[x] : x \in ToSet(s)} = {TargetStatement(id, t) : t \in ToSet(s)}
  <2>1. \A x \in ToSet(s) : x \in TargetRow
    BY DEF ToSet
  <2> QED BY <2>1
<1>3. [h \in DOMAIN s |-> <<f[s[h]]>>] = [h \in DOMAIN s |-> <<TargetStatement(id, s[h])>>]
  BY <1>1
<1> HIDE DEF f
<1>4. ASSUME NEW p \in DOMAIN s, NEW q \in DOMAIN s, p < q
      PROVE  StatementKey(f[s[p]]) # StatementKey(f[s[q]])
             \/ (f[s[p]].table = "target" /\ BlankSpecies(n))
  <2> SUFFICES ASSUME StatementKey(f[s[p]]) = StatementKey(f[s[q]])
               PROVE  f[s[p]].table = "target" /\ BlankSpecies(n)
    OBVIOUS
  <2>0. f[s[p]].table = "target"
    <3>1. f[s[p]] = TargetStatement(id, s[p])
      BY <1>1
    <3> QED BY <3>1 DEF TargetStatement, Statement
  <2>1. /\ s[p].family = s[q].family /\ s[p].role = s[q].role
        /\ StrPtr(ToLower(s[p].species)) = StrPtr(ToLower(s[q].species))
    BY <1>1, StatementKeys
  <2>2. TargetKeys[s[p]] # TargetKeys[s[q]]
    BY <1>4 DEF Distinct
  <2>3. ToLower(s[p].species) # ToLower(s[q].species)
    BY <1>1, <2>1, <2>2 DEF TargetKeys, TargetKey
  <2>4. s[p].species \in TextValue /\ s[q].species \in TextValue
    BY <1>1 DEF TargetRow
  <2>5. \/ IsBlank(s[p].species) /\ s[p].species # NoText
        \/ IsBlank(s[q].species) /\ s[q].species # NoText
    BY <2>1, <2>3, <2>4, SpeciesApart
  <2>6. BlankSpecies(n)
    BY <1>1, <2>5 DEF BlankSpecies
  <2> QED BY <2>0, <2>6
<1>5. Apart(n, s, f)
  BY <1>4 DEF Apart, AreApart
<1>6. Stretch(n, Singles(s, f), Made(s, f))
  BY <1>5, StretchOfSingles
<1> QED BY <1>2, <1>3, <1>6 DEF ForEach, Singles, Made

(* The tables the statements of S go to. *)
On(S, tables) == \A s \in S : s.table \in tables

(* Two stretches that go to different tables make one.                     *)
LEMMA Join ==
    ASSUME NEW n, NEW S, NEW T, NEW u, NEW v, Stretch(n, u, S), Stretch(n, v, T),
           NEW A, NEW B, On(S, A), On(T, B), A \cap B = {}
    PROVE  Stretch(n, u \o v, S \cup T) /\ On(S \cup T, A \cup B)
<1>1. \A s \in S, t \in T : AreApart(n, s, t)
  BY DEF On, AreApart
<1>2. Stretch(n, u \o v, S \cup T)
  BY <1>1, StretchConcat
<1>3. On(S \cup T, A \cup B)
  BY DEF On
<1> QED BY <1>2, <1>3

(* The statements Insert executes after the item row, for a reply brought  *)
(* to the keys by Dedupe: one for each row, and no two meet in a key.      *)
LEMMA ChildStretch ==
    ASSUME NEW id, NEW m \in NormalizedItem, NEW n, n = Dedupe(m)
    PROVE  Stretch(n, ChildStatements(id, n), AllChildren(id, n))
<1>1. DedupesTo(m, n)
  BY DedupeLists
<1>2. /\ n.attuners \in Seq(AttunerRow) /\ n.spells \in Seq(SpellRow)
      /\ n.variants \in Seq(VariantRow) /\ n.limitations \in Seq(LimitationRow)
      /\ n.creatureTargets \in Seq(TargetRow) /\ n.effects \in Seq(EffectRow)
  BY <1>1 DEF DedupesTo, NormalizedItem
<1>3. /\ Distinct(n.attuners, CanonicalName(AttunerRow))
      /\ Distinct(n.spells, CanonicalName(SpellRow))
      /\ Distinct(n.variants, VariantKeys)
      /\ Distinct(n.limitations, LimitationKey)
      /\ Distinct(n.creatureTargets, TargetKeys)
  BY <1>1 DEF DedupesTo, Deduped, Distinct
<1>4. Distinct(n.effects, EffectKey)
  <2>1. \A p \in DOMAIN n.effects : EffectKey[n.effects[p]] = n.effects[p].category
    BY <1>2 DEF EffectKey
  <2> QED BY <1>1, <2>1 DEF DedupesTo, Distinct
<1> DEFINE a == ForEach(n.variants, LAMBDA v : <<VariantStatement(id, v)>>)
           b == ForEach(n.attuners, LAMBDA r : <<AttunerKindStatement(r), AllowlistStatement(id, r)>>)
           c == ForEach(n.effects, LAMBDA e : <<EffectStatement(id, e)>>)
           d == ForEach(n.creatureTargets, LAMBDA t : <<TargetStatement(id, t)>>)
           e == ForEach(n.limitations, LAMBDA l : <<LimitationStatement(id, l)>>)
           f == ForEach(n.spells, LAMBDA r : <<SpellStatement(r), ItemSpellStatement(id, r)>>)
<1>5. Stretch(n, a, Variants(id, n))
  BY <1>2, <1>3, VariantStretch DEF Variants
<1>6. Stretch(n, b, Kinds(n) \cup Allows(id, n))
  BY <1>2, <1>3, AttunerStretch DEF Kinds, Allows
<1>7. Stretch(n, c, Tags(id, n))
  BY <1>2, <1>4, EffectStretch DEF Tags
<1>8. Stretch(n, d, Targets(id, n))
  BY <1>2, <1>3, TargetStretch DEF Targets
<1>9. Stretch(n, e, Restraints(id, n))
  BY <1>2, <1>3, LimitationStretch DEF Restraints
<1>10. Stretch(n, f, Spells(n) \cup ItemSpells(id, n))
  BY <1>2, <1>3, SpellStretch DEF Spells, ItemSpells
<1>11. ChildStatements(id, n) = a \o b \o c \o d \o e \o f
  BY DEF ChildStatements
<1>12. /\ On(Variants(id, n), {"variant"}) /\ On(Kinds(n) \cup Allows(id, n), {"attunerKind", "allowlist"})
       /\ On(Tags(id, n), {"effect"}) /\ On(Targets(id, n), {"target"})
       /\ On(Restraints(id, n), {"limitation"})
       /\ On(Spells(n) \cup ItemSpells(id, n), {"spell", "itemSpell"})
  BY StatementTables DEF On
<1> HIDE DEF a, b, c, d, e, f
<1>13. /\ Stretch(n, a \o b, Variants(id, n) \cup (Kinds(n) \cup Allows(id, n)))
       /\ On(Variants(id, n) \cup (Kinds(n) \cup Allows(id, n)), {"variant", "attunerKind", "allowlist"})
  <2>1. {"variant"} \cap {"attunerKind", "allowlist"} = {}
        /\ {"variant"} \cup {"attunerKind", "allowlist"} = {"variant", "attunerKind", "allowlist"}
    OBVIOUS
  <2>2. /\ On(Variants(id, n), {"variant"})
        /\ On(Kinds(n) \cup Allows(id, n), {"attunerKind", "allowlist"})
    BY <1>12
  <2>3. /\ Stretch(n, a \o b, Variants(id, n) \cup (Kinds(n) \cup Allows(id, n)))
        /\ On(Variants(id, n) \cup (Kinds(n) \cup Allows(id, n)),
              {"variant"} \cup {"attunerKind", "allowlist"})
    BY <1>5, <1>6, <2>1, <2>2, Join
  <2> QED BY <2>1, <2>3
<1> DEFINE S == Variants(id, n) \cup (Kinds(n) \cup Allows(id, n)) \cup Tags(id, n)
           X == {"variant", "attunerKind", "allowlist", "effect"}
<1>14. Stretch(n, a \o b \o c, S) /\ On(S, X)
  <2>1. {"variant", "attunerKind", "allowlist"} \cap {"effect"} = {}
        /\ {"variant", "attunerKind", "allowlist"} \cup {"effect"} = X
    OBVIOUS
  <2> QED BY <1>7, <1>12, <1>13, <2>1, Join
<1>15. Stretch(n, a \o b \o c \o d, S \cup Targets(id, n)) /\ On(S \cup Targets(id, n), X \cup {"target"})
  <2>1. X \cap {"target"} = {}
    OBVIOUS
  <2> HIDE DEF S, X
  <2> QED BY <1>8, <1>12, <1>14, <2>1, Join
<1>16. /\ Stretch(n, a \o b \o c \o d \o e, S \cup Targets(id, n) \cup Restraints(id, n))
       /\ On(S \cup Targets(id, n) \cup Restraints(id, n), (X \cup {"target"}) \cup {"limitation"})
  <2>1. (X \cup {"target"}) \cap {"limitation"} = {}
    OBVIOUS
  <2> HIDE DEF S, X
  <2> QED BY <1>9, <1>12, <1>15, <2>1, Join
<1>17. Stretch(n, a \o b \o c \o d \o e \o f,
               S \cup Targets(id, n) \cup Restraints(id, n) \cup (Spells(n) \cup ItemSpells(id, n)))
  <2>1. ((X \cup {"target"}) \cup {"limitation"}) \cap {"spell", "itemSpell"} = {}
    OBVIOUS
  <2> HIDE DEF S, X
  <2> QED BY <1>10, <1>12, <1>16, <2>1, Join
<1> QED BY <1>11, <1>17 DEF AllChildren, S

(* The two statements of an attuner, and of a spell, go together; and the  *)
(* rows of the child tables name the item.                                 *)
LEMMA ChildFacts ==
    ASSUME NEW id, NEW n, NEW s \in AllChildren(id, n)
    PROVE  /\ s.table \in ChildTables \cup {"attunerKind", "spell"}
           /\ s.table \in ChildTables => s.row.item = id
           /\ s.table = "attunerKind" => \E t \in AllChildren(id, n) : t.table = "allowlist" /\ t.row.kind = s.row.name
           /\ s.table = "spell" => \E t \in AllChildren(id, n) : t.table = "itemSpell" /\ t.row.spell = s.row.name
<1> USE DEF Statement, ChildTables
<1>1. CASE s \in Variants(id, n) \cup Tags(id, n) \cup Targets(id, n) \cup Restraints(id, n)
  BY <1>1 DEF Variants, Tags, Targets, Restraints, VariantStatement, EffectStatement, TargetStatement,
              LimitationStatement
<1>2. CASE s \in Allows(id, n) \cup ItemSpells(id, n)
  BY <1>2 DEF Allows, ItemSpells, AllowlistStatement, ItemSpellStatement
<1>3. CASE s \in Kinds(n)
  <2>1. PICK a \in ToSet(n.attuners) : s = AttunerKindStatement(a)
    BY <1>3 DEF Kinds
  <2>2. AllowlistStatement(id, a) \in AllChildren(id, n)
    BY DEF Allows, AllChildren
  <2> QED BY <2>1, <2>2 DEF AttunerKindStatement, AllowlistStatement
<1>4. CASE s \in Spells(n)
  <2>1. PICK a \in ToSet(n.spells) : s = SpellStatement(a)
    BY <1>4 DEF Spells
  <2>2. ItemSpellStatement(id, a) \in AllChildren(id, n)
    BY DEF ItemSpells, AllChildren
  <2> QED BY <2>1, <2>2 DEF SpellStatement, ItemSpellStatement
<1> QED BY <1>1, <1>2, <1>3, <1>4 DEF AllChildren
-----------------------------------------------------------------------------
(* The replies.                                                            *)

(* The replies: kept and collected ones are the model's, every item the    *)
(* load meets has one unless it failed, and an open transaction's is valid.*)
RepliesKept == \A i \in Items : cache[i] \subseteq Replies[i] /\ normalized[i] \subseteq Replies[i]
Answered == phase \in InRun \ Before => \A i \in Taken \ failed : normalized[i] # {}
FailedRefused == phase \in InRun => failed \subseteq Refused
OpenValid == phase \in InTxn \cup {"committed"} => Valid(Survey[k], Reply(k))

RepliesInv == RepliesKept /\ Answered /\ FailedRefused /\ OpenValid

(* The items taken on are surveyed items.                                  *)
LEMMA ItemsTaken == IInv => Taken \subseteq Items
  BY SurveyLength DEF IInv, TypeOK, Taken, Items

(* A reply comes from the model, whatever the step.                        *)
LEMMA KeptStep == IInv /\ RepliesInv /\ [Next]_vars => RepliesKept'
<1> SUFFICES ASSUME IInv, RepliesInv, [Next]_vars PROVE RepliesKept'
  OBVIOUS
<1> USE DEF files, durable, flags, outcomes, tx, tally
<1>0. /\ cache \in [Items -> SUBSET UNION {Replies[i] : i \in Items}]
      /\ normalized \in [Items -> SUBSET UNION {Replies[i] : i \in Items}]
      /\ RepliesKept /\ Taken \subseteq Items
  BY ItemsTaken DEF IInv, TypeOK, RepliesInv
<1>1. ASSUME UNCHANGED <<cache, normalized>> PROVE RepliesKept'
  BY <1>0, <1>1 DEF RepliesKept
<1>2. ASSUME FreshMemory, \A i \in Items : cache'[i] \subseteq cache[i] PROVE RepliesKept'
  BY <1>0, <1>2 DEF RepliesKept, FreshMemory
<1>3. CASE Start \/ Wipe \/ Fatal
  BY <1>2, <1>3 DEF Start, Wipe, Fatal, Forget
<1>4. CASE Crash
  BY <1>2, <1>4 DEF Crash, Forget
<1>5. ASSUME NEW i \in Taken, CacheHit(i) PROVE RepliesKept'
  BY <1>0, <1>5 DEF CacheHit, Collected, RepliesKept
<1>6. ASSUME NEW i \in Taken, LiveReply(i) PROVE RepliesKept'
  BY <1>0, <1>6 DEF LiveReply, Collected, RepliesKept
<1>7. ASSUME NEW i \in Taken, LiveError(i) PROVE RepliesKept'
  BY <1>0, <1>7 DEF LiveError, RepliesKept
<1>8. CASE Provision \/ LoadSurvey \/ EndNormalize \/ SkipFailed \/ RejectInvalid \/ Begin
           \/ UpsertBaseItem \/ InsertItem \/ InsertChild \/ InsertFails
  BY <1>1, <1>8 DEF Provision, LoadSurvey, EndNormalize, SkipFailed, RejectInvalid, Begin,
                    UpsertBaseItem, InsertItem, InsertChild, InsertFails
<1>9. CASE Commit \/ Acknowledge \/ EndLoad \/ WriteReport \/ WriteQuarantine \/ Verdict
           \/ UNCHANGED vars
  BY <1>1, <1>9 DEF Commit, Acknowledge, EndLoad, WriteReport, WriteQuarantine, Verdict, vars
<1> QED BY <1>3, <1>4, <1>5, <1>6, <1>7, <1>8, <1>9 DEF Next, Work, Alone

(* The load begins when every item taken on has a reply or failed.         *)
LEMMA AnsweredStep == IInv /\ RepliesInv /\ [Next]_vars => Answered'
<1> SUFFICES ASSUME IInv, RepliesInv, [Next]_vars, phase' \in InRun \ Before PROVE Answered'
  BY DEF Answered
<1> USE DEF files, durable, flags, outcomes, tx, tally
<1>1. ASSUME phase \in InRun \ Before, UNCHANGED <<limit, failed, normalized>> PROVE Answered'
  BY <1>1 DEF RepliesInv, Answered, Taken
<1>2. CASE EndNormalize
  BY <1>2 DEF EndNormalize, Unsettled, Answered, Taken
<1>3. CASE SkipFailed \/ RejectInvalid \/ Begin \/ UpsertBaseItem \/ InsertItem \/ InsertChild
           \/ InsertFails
  BY <1>1, <1>3 DEF SkipFailed, RejectInvalid, Begin, UpsertBaseItem, InsertItem, InsertChild,
                    InsertFails, InTransaction, InRun, InTxn, Before
<1>4. CASE Commit \/ Acknowledge \/ EndLoad \/ WriteReport \/ WriteQuarantine \/ Verdict
  BY <1>1, <1>4 DEF Commit, Acknowledge, EndLoad, WriteReport, WriteQuarantine, Verdict, InRun,
                    InTxn, Before, After
<1>5. CASE UNCHANGED vars
  BY <1>1, <1>5 DEF vars
<1>6. ASSUME Start \/ Wipe \/ Fatal \/ Crash \/ Provision \/ LoadSurvey
             \/ \E i \in Taken : CacheHit(i) \/ LiveReply(i) \/ LiveError(i)
      PROVE  FALSE
  BY <1>6 DEF Start, Wipe, Fatal, Crash, Provision, LoadSurvey, CacheHit, LiveReply, LiveError,
              InRun, InTxn, Before, After
<1> QED BY <1>2, <1>3, <1>4, <1>5, <1>6 DEF Next, Work, Alone

(* An item without a reply is refused when the load passes it.             *)
LEMMA FailedStep == IInv /\ RepliesInv /\ [Next]_vars => FailedRefused'
<1> SUFFICES ASSUME IInv, RepliesInv, [Next]_vars, phase' \in InRun PROVE FailedRefused'
  BY DEF FailedRefused
<1> USE DEF files, durable, flags, outcomes, tx, tally
<1>0. TypeOK /\ PositionInv
  BY DEF IInv
<1>1. ASSUME phase \in InRun, UNCHANGED failed, Refused \subseteq Refused' PROVE FailedRefused'
  BY <1>1 DEF RepliesInv, FailedRefused
<1>2. ASSUME phase \in InRun, UNCHANGED <<failed, quarantine>> PROVE FailedRefused'
  BY <1>1, <1>2 DEF Refused
<1>3. CASE Provision
  BY <1>0, <1>3 DEF Provision, PositionInv, FailedRefused
<1>4. ASSUME NEW i \in Taken, LiveError(i) PROVE FailedRefused'
  <2>1. i \in Items /\ "normalize" \in Stages
    BY ItemsTaken DEF Stages
  <2>2. Refused' = Refused \cup {i} /\ failed' = failed \cup {i} /\ phase \in InRun
    BY <1>0, <1>4, <2>1, QuarantineStep DEF LiveError, InRun, Before
  <2> QED BY <2>2 DEF RepliesInv, FailedRefused
<1>5. CASE RejectInvalid \/ InsertFails
  <2>1. k \in Taken /\ phase \in InRun /\ UNCHANGED failed
    BY <1>0, <1>5 DEF RejectInvalid, InsertFails, InTransaction, PositionInv, InRun, InTxn
  <2>2. k \in Items /\ "validate" \in Stages /\ "insert" \in Stages
    BY <2>1, ItemsTaken DEF Stages
  <2>3. Refused' = Refused \cup {k}
    BY <1>0, <1>5, <2>2, QuarantineStep DEF RejectInvalid, InsertFails
  <2> QED BY <1>1, <2>1, <2>3
<1>6. ASSUME NEW i \in Taken, CacheHit(i) \/ LiveReply(i) PROVE FailedRefused'
  BY <1>2, <1>6 DEF CacheHit, LiveReply, Collected, InRun, Before
<1>7. CASE LoadSurvey \/ EndNormalize \/ SkipFailed \/ Begin \/ UpsertBaseItem \/ InsertItem
           \/ InsertChild
  BY <1>2, <1>7 DEF LoadSurvey, EndNormalize, SkipFailed, Begin, UpsertBaseItem, InsertItem,
                    InsertChild, InRun, InTxn, Before
<1>8. CASE Commit \/ Acknowledge \/ EndLoad \/ WriteReport \/ WriteQuarantine \/ Verdict
  BY <1>2, <1>8 DEF Commit, Acknowledge, EndLoad, WriteReport, WriteQuarantine, Verdict, InRun,
                    InTxn, Before, After
<1>9. CASE UNCHANGED vars
  BY <1>2, <1>9 DEF vars
<1>10. ASSUME Start \/ Wipe \/ Fatal \/ Crash PROVE FALSE
  BY <1>10 DEF Start, Wipe, Fatal, Crash, InRun, InTxn, Before, After
<1> QED BY <1>3, <1>4, <1>5, <1>6, <1>7, <1>8, <1>9, <1>10 DEF Next, Work, Alone

(* A transaction is opened for a valid reply only.                         *)
LEMMA ValidStep == IInv /\ RepliesInv /\ [Next]_vars => OpenValid'
<1> SUFFICES ASSUME IInv, RepliesInv, [Next]_vars, phase' \in InTxn \cup {"committed"}
             PROVE  OpenValid'
  BY DEF OpenValid
<1> USE DEF files, durable, flags, outcomes, tx, tally
<1>1. ASSUME Valid(Survey[k], Reply(k)), UNCHANGED <<k, normalized>> PROVE OpenValid'
  BY <1>1 DEF OpenValid, Reply
<1>2. CASE Begin
  BY <1>1, <1>2 DEF Begin, Loadable
<1>3. CASE UpsertBaseItem \/ InsertItem \/ InsertChild \/ Commit
  BY <1>1, <1>3 DEF UpsertBaseItem, InsertItem, InsertChild, Commit, RepliesInv, OpenValid, InTxn
<1>4. CASE UNCHANGED vars
  BY <1>1, <1>4 DEF vars, RepliesInv, OpenValid
<1>5. ASSUME ~(Begin \/ UpsertBaseItem \/ InsertItem \/ InsertChild \/ Commit \/ UNCHANGED vars)
      PROVE  FALSE
  BY <1>5 DEF Next, Work, Alone, InTxn, Start, Provision, LoadSurvey, CacheHit, LiveReply, LiveError,
              EndNormalize, SkipFailed, RejectInvalid, InsertFails, Acknowledge, EndLoad,
              WriteReport, WriteQuarantine, Verdict, Fatal, Crash, Wipe
<1> QED BY <1>2, <1>3, <1>4, <1>5

(* Replies, kept or collected, are those of the model, brought to the      *)
(* keys; the load finds one for each item that did not fail and opens a    *)
(* transaction only for a valid one (cmd/extract/main.go).                 *)
THEOREM RepliesHold == Spec => []RepliesInv
<1>1. Init => RepliesInv
  BY DEF Init, RepliesInv, RepliesKept, Answered, FailedRefused, OpenValid, InRun, InTxn, Before,
         After
<1>2. IInv /\ RepliesInv /\ [Next]_vars => RepliesInv'
  BY KeptStep, AnsweredStep, FailedStep, ValidStep DEF RepliesInv
<1> QED BY InvariantHolds, <1>1, <1>2, PTL DEF Spec
-----------------------------------------------------------------------------
(* What Insert is given, and what landed.                                  *)

(* The reply of the load is a collected one, without its duplicates.       *)
LEMMA ReplyIsDeduped ==
    ASSUME RepliesInv, NEW i \in Items, normalized[i] # {}
    PROVE  \E m \in normalized[i] : m \in NormalizedItem /\ Reply(i) = Dedupe(m)
<1>1. (CHOOSE m \in normalized[i] : TRUE) \in normalized[i]
  OBVIOUS
<1>2. normalized[i] \subseteq NormalizedItem
  BY ExtractAssumption DEF RepliesInv, RepliesKept
<1> QED BY <1>1, <1>2 DEF Reply

(* And a reply still.                                                      *)
LEMMA ReplyTyped ==
    ASSUME RepliesInv, NEW i \in Items, normalized[i] # {}
    PROVE  Reply(i) \in NormalizedItem
  BY ReplyIsDeduped, DedupeLists DEF DedupesTo

(* The item of an open transaction has a reply; so has every landed item.  *)
LEMMA OpenAnswered ==
    ASSUME IInv, RepliesInv, phase \in InTxn \cup {"committed"}
    PROVE  k \in Items /\ normalized[k] # {}
<1>1. k \in Taken \ failed /\ phase \in InRun \ Before
  BY DEF IInv, PositionInv, InTxn, InRun, Before
<1> QED BY <1>1, ItemsTaken DEF RepliesInv, Answered

(* An item that landed has a reply, and was not skipped.                   *)
LEMMA LandedAnswered ==
    ASSUME IInv, RepliesInv, phase \in InRun, NEW i \in Landed
    PROVE  i \in Items /\ i \in 1..k /\ normalized[i] # {} /\ phase \notin Before
<1>1. phase \notin Before
  BY DEF IInv, CatalogInv, Landed
<1>2. i \notin Refused /\ i \in Passed \cup {k}
  BY DEF IInv, AccountInv
<1>3. i \notin failed
  BY <1>2 DEF RepliesInv, FailedRefused
<1>4. k \in Nat /\ limit \in Nat /\ i \in 1..k
  BY <1>2, <1>3, SurveyLength DEF Passed, IInv, TypeOK
<1>5. i \in Items
  BY DEF Landed, IInv, CatalogInv
<1>6. i \in Taken
  <2>1. CASE phase = "committed"
    <3>1. k \in 1..limit
      BY <2>1 DEF IInv, PositionInv, Taken
    <3> QED BY <1>4, <3>1 DEF Taken
  <2>2. CASE phase # "committed"
    <3>1. i \in Passed
      BY <2>2 DEF IInv, AccountInv
    <3>2. k \in 1..(limit + 1) /\ i \in 1..(k - 1)
      BY <1>3, <3>1 DEF Passed, IInv, TypeOK
    <3> QED BY <1>4, <3>2 DEF Taken
  <2> QED BY <2>1, <2>2
<1> QED BY <1>1, <1>3, <1>4, <1>5, <1>6 DEF RepliesInv, Answered

(* While the catalog grows, nothing said of what landed changes. *)
LEMMA SaidStays ==
    ASSUME IInv, RepliesInv, phase \in InRun, Quiet \/ Commit, NEW i \in Landed
    PROVE  Reply(i)' = Reply(i)
<1>1. phase \notin Before
  BY LandedAnswered
<1>2. normalized' = normalized
  BY <1>1 DEF Quiet, Before, files, durable, flags, outcomes, tx, tally, LoadSurvey, EndNormalize,
         SkipFailed, RejectInvalid, Begin, UpsertBaseItem, InsertItem, InsertChild, InsertFails,
         InTransaction, Acknowledge, EndLoad, WriteReport, WriteQuarantine, Verdict, CacheHit,
         LiveReply, LiveError, Commit
<1> QED BY <1>2 DEF Reply
-----------------------------------------------------------------------------
(* The checks of the item row.                                             *)

(* The pages of a surveyed item are in order.                              *)
LEMMA SurveyedPages ==
    ASSUME NEW src \in SurveyedItem
    PROVE  src.pageStart > 0 /\ src.pageEnd > 0 /\ src.pageEnd >= src.pageStart
<1>1. /\ src.pageStart \in PageNumbers /\ src.pageEnd \in PageNumbers
      /\ src.pageStart <= src.pageEnd
  BY DEF SurveyedItem
<1>2. \A p \in PageNumbers : p \in Int /\ p > 0
  BY DEF PageNumbers
<1> QED BY <1>1, <1>2

(* Validate mirrors the CHECKs of item.sql. *)
LEMMA ValidRowFits ==
    ASSUME NEW src \in SurveyedItem, NEW n \in NormalizedItem, Valid(src, n), NEW id, NEW i
    PROVE  ItemChecks(ItemRow(id, i, src, n))
<1> DEFINE r == ItemRow(id, i, src, n)
<1>1. /\ r.wornSlot = EnumPtr(n.wornSlot) /\ r.provenance = EnumPtr(n.slotProvenance)
      /\ r.hands = SmallPtr(n.handsRequired) /\ r.applicability = EnumPtr(n.applicability)
      /\ r.baseItem = IF n.applicability = "specific" THEN {Canonical(n.baseItemName)} ELSE {}
      /\ r.appliesFamily = EnumPtr(n.appliesWeaponFamily)
      /\ r.appliesWeight = EnumPtr(n.appliesMinArmorWeight)
      /\ r.pageStart = src.pageStart /\ r.pageEnd = src.pageEnd
  BY DEF ItemRow
<1> HIDE DEF r
<1>2. ValidSlot(n) /\ ValidApplicability(n)
  BY DEF Valid
<1>3. r.wornSlot = {} <=> r.provenance = {}
  BY <1>1, <1>2 DEF ValidSlot, EnumPtr
<1>4. n.handsRequired \in Int
  BY DEF NormalizedItem
<1>5. (\A h \in r.hands : h \in 1..2) /\ (r.hands # {} => \E s \in r.wornSlot : s \in Wielded)
  <2>1. CASE n.handsRequired = 0
    BY <1>1, <2>1 DEF SmallPtr
  <2>2. CASE n.handsRequired \in 1..2 /\ n.wornSlot \in Wielded
    <3>1. SmallPtr(n.handsRequired) = {n.handsRequired}
      BY <1>4, <2>2 DEF SmallPtr, Int16
    <3>2. EnumPtr(n.wornSlot) = {n.wornSlot}
      BY <2>2 DEF EnumPtr, Wielded
    <3> QED BY <1>1, <2>2, <3>1, <3>2
  <2> QED BY <1>2, <2>1, <2>2 DEF ValidSlot
<1>6. r.pageStart > 0 /\ r.pageEnd > 0 /\ r.pageEnd >= r.pageStart
  BY <1>1, SurveyedPages
<1>7. r.applicability = {"specific"} <=> r.baseItem # {}
  BY <1>1 DEF EnumPtr
<1>8. IF r.applicability = {"family_or_class"}
      THEN r.appliesFamily = {} <=> r.appliesWeight # {}
      ELSE r.appliesFamily = {} /\ r.appliesWeight = {}
  <2>1. r.applicability = {"family_or_class"} <=> n.applicability = "family_or_class"
    BY <1>1 DEF EnumPtr
  <2> QED BY <1>1, <1>2, <2>1 DEF ValidApplicability, EnumPtr
<1> QED BY <1>3, <1>5, <1>6, <1>7, <1>8 DEF ItemChecks, r

(* Once Validate let a reply through, no CHECK of item.sql refuses its row *)
(* (item.sql, extraction.go): whatever the model said and the pages are.   *)
THEOREM ItemRowsPassTheirChecks == Spec => []ItemChecksMirrored
<1>1. IInv /\ RepliesInv => ItemChecksMirrored
  <2> SUFFICES ASSUME IInv, RepliesInv, phase = "based" PROVE ItemChecks(Row)
    BY DEF ItemChecksMirrored
  <2>1. k \in Items /\ normalized[k] # {} /\ Valid(Survey[k], Reply(k))
    BY OpenAnswered DEF RepliesInv, OpenValid, InTxn
  <2>2. Survey[k] \in SurveyedItem
    BY <2>1, ExtractAssumption DEF Items
  <2>3. Reply(k) \in NormalizedItem
    BY <2>1, ReplyTyped
  <2> QED BY <2>1, <2>2, <2>3, ValidRowFits DEF Row
<1> QED BY <1>1, InvariantHolds, RepliesHold, PTL
-----------------------------------------------------------------------------
(* The open transaction.                                                   *)

(* What Insert executes after the item row, and how far it is. *)
Script == ChildStatements(NextId(db), Reply(k))
Done == 1..(Len(Script) - Len(pending))

ScriptInv ==
    phase \in InTxn =>
      /\ pending \in Seq(ToSet(Script))
      /\ Len(pending) <= Len(Script)
      /\ \A j \in 1..Len(pending) : pending[j] = Script[Len(Script) - Len(pending) + j]
      /\ phase # "inserting" => pending = Script

(* The statements of the open transaction are those of one reply.          *)
LEMMA ScriptStretch ==
    ASSUME IInv, RepliesInv, phase \in InTxn
    PROVE  /\ Script \in Seq(AllChildren(NextId(db), Reply(k)))
           /\ ToSet(Script) = AllChildren(NextId(db), Reply(k))
           /\ \A p, q \in DOMAIN Script : p < q => AreApart(Reply(k), Script[p], Script[q])
           /\ Len(Script) \in Nat /\ DOMAIN Script = 1..Len(Script)
<1>1. PICK m \in normalized[k] : m \in NormalizedItem /\ Reply(k) = Dedupe(m)
  BY OpenAnswered, ReplyIsDeduped
<1>2. Stretch(Reply(k), Script, AllChildren(NextId(db), Reply(k)))
  BY <1>1, ChildStretch DEF Script
<1>3. Script \in Seq(AllChildren(NextId(db), Reply(k)))
  BY <1>2 DEF Stretch
<1>4. Len(Script) \in Nat /\ DOMAIN Script = 1..Len(Script)
  BY <1>3
<1> QED BY <1>2, <1>3, <1>4 DEF Stretch

(* They depend on the committed database and the reply alone.              *)
LEMMA SameScript == ASSUME UNCHANGED <<db, normalized, k>> PROVE Script' = Script
  BY DEF Script, NextId, Reply

(* Executing one statement leaves the ones after it.                       *)
LEMMA TailStep ==
    ASSUME NEW S, NEW s \in Seq(S), NEW u \in Seq(S), u # <<>>, Len(u) <= Len(s),
           \A j \in 1..Len(u) : u[j] = s[Len(s) - Len(u) + j]
    PROVE  /\ Tail(u) \in Seq(S) /\ Len(Tail(u)) = Len(u) - 1 /\ Len(Tail(u)) <= Len(s)
           /\ \A j \in 1..Len(Tail(u)) : Tail(u)[j] = s[Len(s) - Len(Tail(u)) + j]
           /\ Len(s) - Len(u) + 1 \in DOMAIN s /\ Head(u) = s[Len(s) - Len(u) + 1]
           /\ 1..(Len(s) - Len(Tail(u))) = 1..(Len(s) - Len(u)) \cup {Len(s) - Len(u) + 1}
<1>1. Len(u) \in Nat \ {0} /\ Len(s) \in Nat /\ DOMAIN s = 1..Len(s)
  BY EmptySeq
<1>2. Tail(u) \in Seq(S) /\ Len(Tail(u)) = Len(u) - 1 /\ Head(u) = u[1]
  BY <1>1, HeadTailProperties
<1>3. \A j \in 1..(Len(u) - 1) : Tail(u)[j] = u[j + 1]
  BY <1>1, <1>2, HeadTailProperties
<1>4. ASSUME NEW j \in 1..Len(Tail(u)) PROVE Tail(u)[j] = s[Len(s) - Len(Tail(u)) + j]
  <2>1. j + 1 \in 1..Len(u) /\ Len(s) - Len(Tail(u)) + j = Len(s) - Len(u) + (j + 1)
    BY <1>1, <1>2
  <2> QED BY <1>2, <1>3, <2>1
<1>5. 1 \in 1..Len(u) /\ Len(s) - Len(u) + 1 \in 1..Len(s)
  BY <1>1
<1>6. 1..(Len(s) - Len(Tail(u))) = 1..(Len(s) - Len(u)) \cup {Len(s) - Len(u) + 1}
  BY <1>1, <1>2
<1> QED BY <1>1, <1>2, <1>4, <1>5, <1>6

(* Insert takes its statements one after the other.                        *)
LEMMA ScriptStep == IInv /\ RepliesInv /\ ScriptInv /\ [Next]_vars => ScriptInv'
<1> SUFFICES ASSUME IInv, RepliesInv, ScriptInv, [Next]_vars, phase' \in InTxn PROVE ScriptInv'
  BY DEF ScriptInv
<1> USE DEF files, durable, flags, outcomes, tx, tally
<1>1. CASE Begin
  <2>1. UNCHANGED <<db, normalized, k>> /\ pending' = Script /\ Loadable(k) /\ phase = "loading"
        /\ phase' # "inserting"
    BY <1>1 DEF Begin, Script
  <2>2. k \in Items /\ normalized[k] # {}
    BY <2>1, ItemsTaken DEF Loadable, RepliesInv, Answered, InRun, Before
  <2>3. PICK m \in normalized[k] : m \in NormalizedItem /\ Reply(k) = Dedupe(m)
    BY <2>2, ReplyIsDeduped
  <2>4. Stretch(Reply(k), Script, AllChildren(NextId(db), Reply(k)))
    BY <2>3, ChildStretch DEF Script
  <2>5. Script \in Seq(ToSet(Script)) /\ Len(Script) \in Nat
    BY <2>4 DEF Stretch
  <2>6. Script' = Script
    BY <2>1, SameScript
  <2>7. \A j \in 1..Len(Script) : Len(Script) - Len(Script) + j = j
    BY <2>5
  <2> QED BY <2>1, <2>5, <2>6, <2>7 DEF ScriptInv
<1>2. CASE UpsertBaseItem \/ InsertItem
  <2>1. Script' = Script /\ pending' = pending /\ phase \in InTxn /\ phase # "inserting"
    BY <1>2, SameScript DEF UpsertBaseItem, InsertItem, InTxn
  <2>2. pending' = Script'
    BY <2>1 DEF ScriptInv
  <2> QED BY <2>1, <2>2 DEF ScriptInv
<1>3. CASE InsertChild
  <2>1. /\ Script' = Script /\ pending' = Tail(pending) /\ pending # <<>> /\ phase \in InTxn
        /\ phase' = "inserting"
    BY <1>3, SameScript DEF InsertChild, InTxn
  <2>2. Script \in Seq(ToSet(Script)) /\ pending \in Seq(ToSet(Script))
    BY <2>1, ScriptStretch DEF ScriptInv
  <2>3. /\ Len(pending) <= Len(Script)
        /\ \A j \in 1..Len(pending) : pending[j] = Script[Len(Script) - Len(pending) + j]
    BY <2>1 DEF ScriptInv
  <2>4. /\ Tail(pending) \in Seq(ToSet(Script)) /\ Len(Tail(pending)) <= Len(Script)
        /\ \A j \in 1..Len(Tail(pending)) :
              Tail(pending)[j] = Script[Len(Script) - Len(Tail(pending)) + j]
    <3> HIDE DEF ScriptInv
    <3> QED BY <2>1, <2>2, <2>3, TailStep
  <2> QED BY <2>1, <2>4 DEF ScriptInv
<1>4. CASE UNCHANGED vars
  <2>1. Script' = Script /\ UNCHANGED <<pending, phase>>
    BY <1>4, SameScript DEF vars
  <2> QED BY <2>1 DEF ScriptInv
<1>5. ASSUME ~(Begin \/ UpsertBaseItem \/ InsertItem \/ InsertChild \/ UNCHANGED vars)
      PROVE  FALSE
  BY <1>5 DEF Next, Work, Alone, InTxn, Start, Provision, LoadSurvey, CacheHit, LiveReply, LiveError,
              EndNormalize, SkipFailed, RejectInvalid, InsertFails, Commit, Acknowledge, EndLoad,
              WriteReport, WriteQuarantine, Verdict, Fatal, Crash, Wipe
<1> QED BY <1>1, <1>2, <1>3, <1>4, <1>5

(* What is left to execute is always the end of the list of statements the *)
(* item's reply makes (insert.go).                                         *)
THEOREM ScriptHolds == Spec => []ScriptInv
<1>1. Init => ScriptInv
  BY DEF Init, ScriptInv, InTxn
<1> QED BY InvariantHolds, RepliesHold, ScriptStep, <1>1, PTL DEF Spec
-----------------------------------------------------------------------------
(* The tables of the open transaction.                                     *)

(* The rows of the statements of u at positions J that go to table c.      *)
RowsIn(u, c, J) == {u[j].row : j \in {i \in J : u[i].table = c}}

Grown(c) ==
    /\ txn[c] = db[c] \cup RowsIn(Script, c, Done)
    /\ IsFiniteSet(txn[c])
    /\ Cardinality(txn[c]) = Cardinality(db[c]) + counts[c]

(* The open transaction's tables are the database's with what the          *)
(* statements executed so far have added, and the counts are the rows.     *)
OpenRows ==
    phase \in InTxn => DOMAIN txn = DOMAIN EmptyCatalog /\ \A c \in ChildTables : Grown(c)

OpenBase ==
    phase \in InTxn =>
      /\ phase = "begun" => Reply(k).applicability = "specific"
      /\ txn.baseItem = IF phase = "begun" \/ Reply(k).applicability # "specific"
                        THEN db.baseItem
                        ELSE LET b == BaseItemStatement(Reply(k)).row
                             IN  Put(db.baseItem, b.name, MergedBaseItem(db, b))

(* The attuner kinds (the spells) with the rows added to those of t.       *)
NamesOf(rows) == {r.name : r \in rows}
KindsGrown(new, t, added) ==
    /\ DOMAIN new = DOMAIN t.attunerKind \cup NamesOf(added)
    /\ \A a \in added : new[a.name] = a.kind
    /\ \A x \in DOMAIN t.attunerKind \ NamesOf(added) : new[x] = t.attunerKind[x]
SpellsGrown(new, t, added) ==
    /\ DOMAIN new = DOMAIN t.spell \cup NamesOf(added)
    /\ \A s \in added : new[s.name] = MergedSpell(t, s)
    /\ \A x \in DOMAIN t.spell \ NamesOf(added) : new[x] = t.spell[x]

OpenKinds ==
    phase \in InTxn => KindsGrown(txn.attunerKind, db, RowsIn(Script, "attunerKind", Done))
OpenSpells ==
    phase \in InTxn => SpellsGrown(txn.spell, db, RowsIn(Script, "spell", Done))

OpenInv == OpenRows /\ OpenBase /\ OpenKinds /\ OpenSpells

(* The committed tables have their columns and finitely many rows. *)
TablesTyped == DOMAIN db = DOMAIN EmptyCatalog /\ \A c \in ChildTables : IsFiniteSet(db[c])
-----------------------------------------------------------------------------

(* The tables of the catalog.                                              *)
LEMMA CatalogTables ==
    /\ ChildTables \subseteq DOMAIN EmptyCatalog
    /\ {"item", "baseItem", "attunerKind", "spell"} \subseteq DOMAIN EmptyCatalog
    /\ "item" \notin ChildTables /\ "baseItem" \notin ChildTables
    /\ "attunerKind" \notin ChildTables /\ "spell" \notin ChildTables
  BY DEF EmptyCatalog, ChildTables

(* A statement of a child table adds its row to that table.                *)
LEMMA ExecuteChildRow ==
    ASSUME NEW t, DOMAIN t = DOMAIN EmptyCatalog, NEW s, s.table \in ChildTables
    PROVE  /\ DOMAIN Execute(t, s) = DOMAIN t
           /\ Execute(t, s)[s.table] = t[s.table] \cup {s.row}
           /\ \A c \in DOMAIN t \ {s.table} : Execute(t, s)[c] = t[c]
<1>1. Execute(t, s) = [t EXCEPT ![s.table] = @ \cup {s.row}]
  BY DEF Execute, ChildTables
<1> QED BY <1>1, CatalogTables

(* A statement of a shared table changes that table alone.                 *)
LEMMA ExecuteReference ==
    ASSUME NEW t, DOMAIN t = DOMAIN EmptyCatalog, NEW s
    PROVE  /\ s.table = "baseItem" =>
                Execute(t, s) = [t EXCEPT !["baseItem"] = Put(@, s.row.name, MergedBaseItem(t, s.row))]
           /\ s.table = "attunerKind" =>
                Execute(t, s) = [t EXCEPT !["attunerKind"] = Put(@, s.row.name, s.row.kind)]
           /\ s.table = "spell" =>
                Execute(t, s) = [t EXCEPT !["spell"] = Put(@, s.row.name, MergedSpell(t, s.row))]
<1>1. ASSUME s.table = "baseItem"
      PROVE  Execute(t, s) = [t EXCEPT !["baseItem"] = Put(@, s.row.name, MergedBaseItem(t, s.row))]
  BY <1>1, CatalogTables DEF Execute
<1>2. ASSUME s.table = "attunerKind"
      PROVE  Execute(t, s) = [t EXCEPT !["attunerKind"] = Put(@, s.row.name, s.row.kind)]
  BY <1>2, CatalogTables DEF Execute, MergedKind
<1>3. ASSUME s.table = "spell"
      PROVE  Execute(t, s) = [t EXCEPT !["spell"] = Put(@, s.row.name, MergedSpell(t, s.row))]
  BY <1>3, CatalogTables DEF Execute
<1> QED BY <1>1, <1>2, <1>3

(* One statement more.                                                     *)
LEMMA RowsInNext ==
    ASSUME NEW u, NEW c, NEW J, NEW d
    PROVE  RowsIn(u, c, J \cup {d})
             = RowsIn(u, c, J) \cup (IF u[d].table = c THEN {u[d].row} ELSE {})
  BY DEF RowsIn

(* Before the first statement nothing has been added.                      *)
LEMMA NothingDone ==
    ASSUME ScriptInv, RepliesInv, IInv, phase \in {"begun", "based"}
    PROVE  Done = {} /\ \A c : RowsIn(Script, c, Done) = {}
<1>1. Len(Script) \in Nat /\ pending = Script
  BY ScriptStretch DEF ScriptInv, InTxn
<1>2. Done = {}
  BY <1>1 DEF Done
<1> QED BY <1>2 DEF RowsIn
-----------------------------------------------------------------------------
(* The statement InsertChild executes.                                     *)
At == Len(Script) - Len(pending) + 1

(* The statement the next step executes.                                   *)
LEMMA AtStatement ==
    ASSUME IInv, RepliesInv, ScriptInv, phase = "inserting", pending # <<>>
    PROVE  /\ At \in DOMAIN Script /\ Current = Script[At] /\ Done = 1..(At - 1)
           /\ 1..(Len(Script) - Len(Tail(pending))) = Done \cup {At}
           /\ Script[At] \in AllChildren(NextId(db), Reply(k))
<1>1. phase \in InTxn /\ Current = Head(pending)
  BY DEF InTxn, Current
<1>2. /\ Script \in Seq(ToSet(Script)) /\ pending \in Seq(ToSet(Script))
      /\ ToSet(Script) = AllChildren(NextId(db), Reply(k))
      /\ Len(pending) <= Len(Script)
      /\ \A j \in 1..Len(pending) : pending[j] = Script[Len(Script) - Len(pending) + j]
      /\ Len(Script) \in Nat
  BY <1>1, ScriptStretch DEF ScriptInv
<1>3. /\ At \in DOMAIN Script /\ Head(pending) = Script[At]
      /\ 1..(Len(Script) - Len(Tail(pending))) = Done \cup {At}
  BY <1>2, TailStep DEF At, Done
<1>4. Done = 1..(At - 1)
  <2>1. Len(pending) \in Nat
    BY <1>2
  <2> QED BY <1>2, <2>1 DEF Done, At
<1>5. Script[At] \in AllChildren(NextId(db), Reply(k))
  BY <1>2, <1>3 DEF ToSet
<1> QED BY <1>1, <1>3, <1>4, <1>5

(* What that step does to the open tables.                                 *)
LEMMA ChildStep ==
    ASSUME IInv, RepliesInv, ScriptInv, InsertChild
    PROVE  /\ At \in DOMAIN Script /\ Current = Script[At]
           /\ Script' = Script /\ Done = 1..(At - 1) /\ Done' = Done \cup {At}
           /\ Script[At] \in AllChildren(NextId(db), Reply(k))
           /\ Accepts(txn, Script[At]) /\ txn' = Execute(txn, Script[At])
           /\ counts' = [c \in ChildTables |-> counts[c] + (IF c = Script[At].table THEN 1 ELSE 0)]
           /\ UNCHANGED <<db, normalized, k>> /\ phase = "inserting" /\ phase' = "inserting"
<1> USE DEF files, durable, flags, outcomes, tx, tally
<1>1. /\ UNCHANGED <<db, normalized, k>> /\ phase = "inserting" /\ phase' = "inserting"
      /\ pending # <<>> /\ pending' = Tail(pending)
      /\ Accepts(txn, Current) /\ txn' = Execute(txn, Current)
      /\ counts' = [c \in ChildTables |-> counts[c] + (IF c = Current.table THEN 1 ELSE 0)]
  BY DEF InsertChild
<1>2. Script' = Script
  BY <1>1, SameScript
<1>3. Done' = Done \cup {At}
  BY <1>1, <1>2, AtStatement DEF Done
<1> QED BY <1>1, <1>2, <1>3, AtStatement

(* Which steps keep a transaction open, and how. *)
LEMMA OpenBefore ==
    ASSUME [Next]_vars, phase' \in InTxn
    PROVE  Begin \/ UpsertBaseItem \/ InsertItem \/ InsertChild \/ UNCHANGED vars
  BY DEF Next, Work, Alone, InTxn, Start, Provision, LoadSurvey, CacheHit, LiveReply, LiveError,
         EndNormalize, SkipFailed, RejectInvalid, InsertFails, Commit, Acknowledge, EndLoad,
         WriteReport, WriteQuarantine, Verdict, Fatal, Crash, Wipe, files, durable, flags, outcomes,
         tx, tally

(* The layers so far. *)
Known == IInv /\ RepliesInv /\ ScriptInv

NoneDone ==
    phase \in {"begun", "based"} =>
      Done = {} /\ \A c : RowsIn(Script, c, Done) = {}

(* The same for the state after a step.                                    *)
LEMMA NoneDoneNext == Known' => NoneDone'
<1>1. Known => NoneDone
  BY NothingDone DEF Known, NoneDone
<1> QED BY <1>1, PTL

(* The steps that execute no child statement. *)
LEMMA BaseStep ==
    ASSUME Known, OpenRows, UpsertBaseItem
    PROVE  /\ txn' = [txn EXCEPT !["baseItem"] =
                        LET b == BaseItemStatement(Reply(k)).row
                        IN  Put(@, b.name, MergedBaseItem(txn, b))]
           /\ DOMAIN txn = DOMAIN EmptyCatalog
<1> USE DEF files, durable, flags, outcomes, tx, tally
<1>1. DOMAIN txn = DOMAIN EmptyCatalog
  BY DEF UpsertBaseItem, OpenRows, InTxn
<1>2. txn' = Execute(txn, BaseItemStatement(Reply(k)))
  BY DEF UpsertBaseItem, Current
<1>3. BaseItemStatement(Reply(k)).table = "baseItem"
  BY DEF BaseItemStatement, Statement
<1> QED BY <1>1, <1>2, <1>3, ExecuteReference

(* The item row changes no other table.                                    *)
LEMMA RowStep ==
    ASSUME Known, OpenRows, InsertItem
    PROVE  /\ txn' = [txn EXCEPT !["item"] = @ \cup {Row}]
           /\ DOMAIN txn = DOMAIN EmptyCatalog
<1> USE DEF files, durable, flags, outcomes, tx, tally
<1>1. DOMAIN txn = DOMAIN EmptyCatalog
  BY DEF InsertItem, OpenRows, InTxn
<1> QED BY <1>1 DEF InsertItem, AddItem

(* A step that changes no table of the two leaves the difference.          *)
LEMMA SameGrown ==
    ASSUME UNCHANGED <<db, normalized, k, pending, counts>>, NEW c, txn'[c] = txn[c], Grown(c)
    PROVE  Grown(c)'
<1>1. Script' = Script
  BY SameScript
<1>2. Done' = Done /\ RowsIn(Script, c, Done)' = RowsIn(Script, c, Done)
  BY <1>1 DEF Done, RowsIn
<1>3. /\ txn'[c] = db'[c] \cup RowsIn(Script, c, Done)'
      /\ IsFiniteSet(txn'[c])
      /\ Cardinality(txn'[c]) = Cardinality(db'[c]) + counts'[c]
  BY <1>2 DEF Grown
<1> QED BY <1>3 DEF Grown

(* The child tables hold the rows of the statements so far.                *)
LEMMA OpenRowsStep == Known /\ Known' /\ TablesTyped /\ OpenRows /\ [Next]_vars => OpenRows'
<1> SUFFICES ASSUME Known, Known', TablesTyped, OpenRows, [Next]_vars, phase' \in InTxn
             PROVE  DOMAIN txn' = DOMAIN EmptyCatalog /\ \A c \in ChildTables : Grown(c)'
  BY DEF OpenRows
<1> USE DEF files, durable, flags, outcomes, tx, tally
<1>0. IInv /\ RepliesInv /\ ScriptInv /\ TypeOK
  BY DEF Known, IInv
<1>1. CASE Begin
  <2>1. txn' = db /\ db' = db /\ counts' = NoCounts /\ phase' \in {"begun", "based"}
    BY <1>1 DEF Begin
  <2>2. ASSUME NEW c \in ChildTables PROVE Grown(c)'
    <3>1. RowsIn(Script, c, Done)' = {}
      BY <2>1, NoneDoneNext DEF NoneDone
    <3>2. IsFiniteSet(db[c]) /\ Cardinality(db[c]) \in Nat
      BY FS_CardinalityType DEF TablesTyped
    <3>3. counts'[c] = 0
      BY <2>1 DEF NoCounts
    <3>4. Cardinality(txn'[c]) = Cardinality(db'[c]) + counts'[c]
      BY <2>1, <3>2, <3>3
    <3>5. txn'[c] = db'[c] \cup RowsIn(Script, c, Done)' /\ IsFiniteSet(txn'[c])
      BY <2>1, <3>1, <3>2
    <3> QED BY <3>4, <3>5 DEF Grown
  <2> QED BY <2>1, <2>2 DEF TablesTyped
<1>2. CASE UpsertBaseItem \/ InsertItem
  <2>1. UNCHANGED <<db, normalized, k, pending, counts>> /\ phase \in InTxn
    BY <1>2 DEF UpsertBaseItem, InsertItem, InTxn
  <2>2. DOMAIN txn' = DOMAIN EmptyCatalog /\ \A c \in ChildTables : txn'[c] = txn[c]
    BY <1>0, <1>2, BaseStep, RowStep, CatalogTables DEF Known
  <2>3. ASSUME NEW c \in ChildTables PROVE Grown(c)'
    <3>1. Grown(c)
      BY <2>1 DEF OpenRows
    <3> QED BY <2>1, <2>2, <3>1, SameGrown
  <2> QED BY <2>2, <2>3
<1>3. CASE InsertChild
  <2>1. PICK s : /\ s = Script[At] /\ s \in AllChildren(NextId(db), Reply(k))
                 /\ Script' = Script /\ Done' = Done \cup {At}
                 /\ Accepts(txn, s) /\ txn' = Execute(txn, s) /\ db' = db /\ phase = "inserting"
                 /\ counts' = [c \in ChildTables |-> counts[c] + (IF c = s.table THEN 1 ELSE 0)]
    BY <1>0, <1>3, ChildStep
  <2>2. DOMAIN txn = DOMAIN EmptyCatalog /\ \A c \in ChildTables : Grown(c)
    BY <2>1 DEF OpenRows, InTxn
  <2>3. \A c : RowsIn(Script, c, Done)'
                 = RowsIn(Script, c, Done) \cup (IF s.table = c THEN {s.row} ELSE {})
    <3>1. \A c : RowsIn(Script, c, Done \cup {At})
                   = RowsIn(Script, c, Done) \cup (IF s.table = c THEN {s.row} ELSE {})
      BY <2>1, RowsInNext
    <3>2. \A c : RowsIn(Script, c, Done)' = RowsIn(Script, c, Done \cup {At})
      BY <2>1 DEF RowsIn
    <3> QED BY <3>1, <3>2
  <2>4. s.table \in ChildTables \cup {"attunerKind", "spell"}
    BY <2>1, ChildFacts
  <2>5. ASSUME NEW c \in ChildTables, c # s.table, txn'[c] = txn[c]
        PROVE  Grown(c)'
    <3>1. counts[c] \in Nat
      BY <1>0 DEF TypeOK
    <3>2. counts'[c] = counts[c]
      BY <2>1, <2>5, <3>1
    <3>3. RowsIn(Script, c, Done)' = RowsIn(Script, c, Done) /\ Grown(c)
      BY <2>2, <2>3, <2>5
    <3> QED BY <2>1, <2>5, <3>2, <3>3 DEF Grown
  <2>6. CASE s.table \in ChildTables
    <3>1. /\ DOMAIN txn' = DOMAIN txn /\ txn'[s.table] = txn[s.table] \cup {s.row}
          /\ \A c \in DOMAIN txn \ {s.table} : txn'[c] = txn[c]
      <4>1. /\ DOMAIN Execute(txn, s) = DOMAIN txn
            /\ Execute(txn, s)[s.table] = txn[s.table] \cup {s.row}
            /\ \A c \in DOMAIN txn \ {s.table} : Execute(txn, s)[c] = txn[c]
        BY <2>2, <2>6, ExecuteChildRow
      <4>2. txn' = Execute(txn, s)
        BY <2>1
      <4> QED BY <4>1, <4>2
    <3>2. ASSUME NEW c \in ChildTables, c = s.table PROVE Grown(c)'
      <4>1. s.row \notin txn[c]
        BY <2>1, <2>6, <3>2 DEF Accepts, Collides
      <4>2. /\ IsFiniteSet(txn[c]) /\ txn[c] = db[c] \cup RowsIn(Script, c, Done)
            /\ Cardinality(txn[c]) = Cardinality(db[c]) + counts[c]
        BY <2>2 DEF Grown
      <4>3. IsFiniteSet(txn'[c]) /\ Cardinality(txn'[c]) = Cardinality(txn[c]) + 1
        <5>1. txn'[c] = txn[c] \cup {s.row}
          BY <3>1, <3>2
        <5>2. /\ IsFiniteSet(txn[c] \cup {s.row})
              /\ Cardinality(txn[c] \cup {s.row}) = Cardinality(txn[c]) + 1
          BY <4>1, <4>2, FS_AddElement
        <5> QED BY <5>1, <5>2
      <4>4. Cardinality(db[c]) \in Nat /\ counts[c] \in Nat
        BY <1>0, FS_CardinalityType DEF TablesTyped, TypeOK
      <4>5. counts'[c] = counts[c] + 1
        BY <2>1, <3>2
      <4>6. Cardinality(txn'[c]) = Cardinality(db'[c]) + counts'[c]
        BY <2>1, <4>2, <4>3, <4>4, <4>5
      <4>7. txn'[c] = db'[c] \cup RowsIn(Script, c, Done)'
        BY <2>1, <2>3, <3>1, <3>2, <4>2
      <4> QED BY <4>3, <4>6, <4>7 DEF Grown
    <3>3. \A c \in ChildTables : Grown(c)'
      BY <2>2, <2>5, <3>1, <3>2, CatalogTables
    <3> QED BY <2>2, <3>1, <3>3
  <2>7. CASE s.table \in {"attunerKind", "spell"}
    <3>1. DOMAIN txn' = DOMAIN txn /\ \A c \in ChildTables : txn'[c] = txn[c]
      BY <2>1, <2>2, <2>7, ExecuteReference, CatalogTables
    <3> QED BY <2>2, <2>5, <2>7, <3>1, CatalogTables
  <2> QED BY <2>4, <2>6, <2>7
<1>4. CASE UNCHANGED vars
  <2>1. UNCHANGED <<db, normalized, k, pending, counts, txn, phase>>
    BY <1>4 DEF vars
  <2> QED BY <2>1, SameGrown DEF OpenRows
<1> QED BY <1>1, <1>2, <1>3, <1>4, OpenBefore

(* The base items hold what the transaction upserted.                      *)
LEMMA OpenBaseStep == Known /\ OpenRows /\ OpenBase /\ [Next]_vars => OpenBase'
<1> SUFFICES ASSUME Known, OpenRows, OpenBase, [Next]_vars, phase' \in InTxn PROVE OpenBase'
  BY DEF OpenBase
<1> USE DEF files, durable, flags, outcomes, tx, tally
<1>1. CASE Begin
  <2>1. /\ txn' = db /\ UNCHANGED <<db, normalized, k>>
        /\ phase' = IF Reply(k).applicability = "specific" THEN "begun" ELSE "based"
    BY <1>1 DEF Begin
  <2>2. Reply(k)' = Reply(k)
    BY <2>1 DEF Reply
  <2> QED BY <2>1, <2>2 DEF OpenBase
<1>2. CASE UpsertBaseItem
  <2> DEFINE b == BaseItemStatement(Reply(k)).row
  <2>1. /\ phase = "begun" /\ phase' = "based" /\ UNCHANGED <<db, normalized, k>>
        /\ txn.baseItem = db.baseItem /\ Reply(k).applicability = "specific"
    BY <1>2 DEF UpsertBaseItem, OpenBase, InTxn
  <2>2. txn'.baseItem = Put(txn.baseItem, b.name, MergedBaseItem(txn, b))
    BY <1>2, BaseStep, CatalogTables
  <2>3. MergedBaseItem(txn, b) = MergedBaseItem(db, b)
    BY <2>1 DEF MergedBaseItem
  <2>4. Reply(k)' = Reply(k)
    BY <2>1 DEF Reply
  <2> QED BY <2>1, <2>2, <2>3, <2>4 DEF OpenBase
<1>3. ASSUME UNCHANGED <<db, normalized, k>>, phase \in InTxn, txn'.baseItem = txn.baseItem,
             phase' = phase \/ (phase # "begun" /\ phase' # "begun")
      PROVE  OpenBase'
  <2>1. Reply(k)' = Reply(k)
    BY <1>3 DEF Reply
  <2> QED BY <1>3, <2>1 DEF OpenBase
<1>4. CASE InsertItem
  <2>1. txn'.baseItem = txn.baseItem
    BY <1>4, RowStep, CatalogTables
  <2> QED BY <1>3, <1>4, <2>1 DEF InsertItem, InTxn
<1>5. CASE InsertChild
  <2>1. PICK s : /\ s \in AllChildren(NextId(db), Reply(k)) /\ txn' = Execute(txn, s)
                 /\ UNCHANGED <<db, normalized, k>> /\ phase = "inserting" /\ phase' = "inserting"
    BY <1>5, ChildStep DEF Known
  <2>2. DOMAIN txn = DOMAIN EmptyCatalog
    BY <2>1 DEF OpenRows, InTxn
  <2>3. s.table \in ChildTables \cup {"attunerKind", "spell"}
    BY <2>1, ChildFacts
  <2>4. CASE s.table \in ChildTables
    <3>1. Execute(txn, s)["baseItem"] = txn["baseItem"]
      BY <2>2, <2>4, ExecuteChildRow, CatalogTables
    <3> QED BY <1>3, <2>1, <3>1 DEF InTxn
  <2>5. CASE s.table \in {"attunerKind", "spell"}
    <3>1. Execute(txn, s)["baseItem"] = txn["baseItem"]
      BY <2>2, <2>5, ExecuteReference, CatalogTables
    <3> QED BY <1>3, <2>1, <3>1 DEF InTxn
  <2> QED BY <2>3, <2>4, <2>5
<1>6. CASE UNCHANGED vars
  BY <1>3, <1>6 DEF vars
<1> QED BY <1>1, <1>2, <1>4, <1>5, <1>6, OpenBefore
-----------------------------------------------------------------------------
(* A reference statement names what no earlier one of its table named.     *)
LEMMA FreshName ==
    ASSUME Known, phase \in InTxn, At \in DOMAIN Script, Done = 1..(At - 1),
           NEW c \in {"attunerKind", "spell"}, Script[At].table = c
    PROVE  Script[At].row.name \notin NamesOf(RowsIn(Script, c, Done))
<1>1. ASSUME NEW j \in Done, Script[j].table = c PROVE Script[j].row.name # Script[At].row.name
  <2>1. j \in DOMAIN Script /\ j < At
    BY ScriptStretch DEF Known
  <2>2. AreApart(Reply(k), Script[j], Script[At])
    BY <2>1, ScriptStretch DEF Known
  <2>3. StatementKey(Script[j]) # StatementKey(Script[At])
    BY <1>1, <2>2 DEF AreApart
  <2> QED BY <1>1, <2>3 DEF StatementKey
<1> QED BY <1>1 DEF NamesOf, RowsIn

(* One kind more, of a name the transaction has not upserted yet.          *)
LEMMA KindsGrownNext ==
    ASSUME NEW old, NEW t, NEW added, KindsGrown(old, t, added), NEW r, r.name \notin NamesOf(added)
    PROVE  KindsGrown(Put(old, r.name, r.kind), t, added \cup {r})
<1> DEFINE new == Put(old, r.name, r.kind)
<1>1. /\ DOMAIN new = DOMAIN old \cup {r.name} /\ new[r.name] = r.kind
      /\ \A y \in DOMAIN old \ {r.name} : new[y] = old[y]
  BY DEF Put
<1>2. NamesOf(added \cup {r}) = NamesOf(added) \cup {r.name}
  BY DEF NamesOf
<1> HIDE DEF new
<1>3. DOMAIN new = DOMAIN t.attunerKind \cup NamesOf(added \cup {r})
  BY <1>1, <1>2 DEF KindsGrown
<1>4. ASSUME NEW a \in added PROVE new[a.name] = a.kind
  <2>1. a.name \in NamesOf(added) /\ a.name # r.name /\ a.name \in DOMAIN old /\ old[a.name] = a.kind
    BY DEF NamesOf, KindsGrown
  <2> QED BY <1>1, <2>1
<1>5. \A x \in DOMAIN t.attunerKind \ NamesOf(added \cup {r}) : new[x] = t.attunerKind[x]
  BY <1>1, <1>2 DEF KindsGrown
<1>6. KindsGrown(new, t, added \cup {r})
  BY <1>1, <1>3, <1>4, <1>5 DEF KindsGrown
<1> QED BY <1>6 DEF new

(* One spell more, of a name the transaction has not upserted yet.         *)
LEMMA SpellsGrownNext ==
    ASSUME NEW u, NEW t, NEW added, SpellsGrown(u.spell, t, added), NEW r, r.name \notin NamesOf(added)
    PROVE  SpellsGrown(Put(u.spell, r.name, MergedSpell(u, r)), t, added \cup {r})
<1> DEFINE new == Put(u.spell, r.name, MergedSpell(u, r))
<1>1. /\ DOMAIN new = DOMAIN u.spell \cup {r.name} /\ new[r.name] = MergedSpell(u, r)
      /\ \A y \in DOMAIN u.spell \ {r.name} : new[y] = u.spell[y]
  BY DEF Put
<1>2. NamesOf(added \cup {r}) = NamesOf(added) \cup {r.name}
  BY DEF NamesOf
<1>3. MergedSpell(u, r) = MergedSpell(t, r)
  BY DEF MergedSpell, SpellsGrown
<1> HIDE DEF new
<1>4. DOMAIN new = DOMAIN t.spell \cup NamesOf(added \cup {r})
  BY <1>1, <1>2 DEF SpellsGrown
<1>5. ASSUME NEW a \in added PROVE new[a.name] = MergedSpell(t, a)
  <2>1. /\ a.name \in NamesOf(added) /\ a.name # r.name /\ a.name \in DOMAIN u.spell
        /\ u.spell[a.name] = MergedSpell(t, a)
    BY DEF NamesOf, SpellsGrown
  <2> QED BY <1>1, <2>1
<1>6. \A x \in DOMAIN t.spell \ NamesOf(added \cup {r}) : new[x] = t.spell[x]
  BY <1>1, <1>2 DEF SpellsGrown
<1>7. SpellsGrown(new, t, added \cup {r})
  BY <1>1, <1>3, <1>4, <1>5, <1>6 DEF SpellsGrown
<1> QED BY <1>7 DEF new

(* The attuner kinds and the spells hold what was upserted so far.         *)
LEMMA OpenReferencesStep ==
    Known /\ Known' /\ OpenRows /\ OpenKinds /\ OpenSpells /\ [Next]_vars => OpenKinds' /\ OpenSpells'
<1> SUFFICES ASSUME Known, Known', OpenRows, OpenKinds, OpenSpells, [Next]_vars, phase' \in InTxn
             PROVE  OpenKinds' /\ OpenSpells'
  BY DEF OpenKinds, OpenSpells
<1> USE DEF files, durable, flags, outcomes, tx, tally
<1>1. CASE Begin
  <2>1. txn' = db /\ db' = db /\ phase' \in {"begun", "based"}
    BY <1>1 DEF Begin
  <2>2. \A c : RowsIn(Script, c, Done)' = {}
    BY <2>1, NoneDoneNext DEF NoneDone
  <2>3. NamesOf({}) = {}
    BY DEF NamesOf
  <2>4. KindsGrown(db.attunerKind, db, {}) /\ SpellsGrown(db.spell, db, {})
    BY <2>3 DEF KindsGrown, SpellsGrown
  <2> QED BY <2>1, <2>2, <2>4 DEF OpenKinds, OpenSpells
<1>2. ASSUME UNCHANGED <<db, normalized, k, pending>>, phase \in InTxn,
             txn'.attunerKind = txn.attunerKind, txn'.spell = txn.spell
      PROVE  OpenKinds' /\ OpenSpells'
  <2>1. Script' = Script
    BY <1>2, SameScript
  <2>2. \A c : RowsIn(Script, c, Done)' = RowsIn(Script, c, Done)
    BY <1>2, <2>1 DEF Done, RowsIn
  <2> QED BY <1>2, <2>2 DEF OpenKinds, OpenSpells
<1>3. CASE UpsertBaseItem \/ InsertItem
  <2>1. UNCHANGED <<db, normalized, k, pending>> /\ phase \in InTxn
    BY <1>3 DEF UpsertBaseItem, InsertItem, InTxn
  <2>2. txn'.attunerKind = txn.attunerKind /\ txn'.spell = txn.spell
    BY <1>3, BaseStep, RowStep, CatalogTables
  <2> QED BY <1>2, <2>1, <2>2
<1>4. CASE InsertChild
  <2>1. PICK s : /\ s = Script[At] /\ s \in AllChildren(NextId(db), Reply(k))
                 /\ Script' = Script /\ Done' = Done \cup {At} /\ Done = 1..(At - 1)
                 /\ txn' = Execute(txn, s) /\ db' = db /\ phase = "inserting" /\ At \in DOMAIN Script
    BY <1>4, ChildStep DEF Known
  <2>2. DOMAIN txn = DOMAIN EmptyCatalog
    BY <2>1 DEF OpenRows, InTxn
  <2>3. \A c : RowsIn(Script, c, Done)'
                 = RowsIn(Script, c, Done) \cup (IF s.table = c THEN {s.row} ELSE {})
    <3>1. \A c : RowsIn(Script, c, Done \cup {At})
                   = RowsIn(Script, c, Done) \cup (IF s.table = c THEN {s.row} ELSE {})
      BY <2>1 DEF RowsIn
    <3>2. \A c : RowsIn(Script, c, Done)' = RowsIn(Script, c, Done \cup {At})
      BY <2>1 DEF RowsIn
    <3> QED BY <3>1, <3>2
  <2>4. s.table \in ChildTables \cup {"attunerKind", "spell"}
    BY <2>1, ChildFacts
  <2>5. /\ KindsGrown(txn.attunerKind, db, RowsIn(Script, "attunerKind", Done))
        /\ SpellsGrown(txn.spell, db, RowsIn(Script, "spell", Done))
    BY <2>1 DEF OpenKinds, OpenSpells, InTxn
  <2>6. CASE s.table \in ChildTables
    <3>1. Execute(txn, s)["attunerKind"] = txn["attunerKind"] /\ Execute(txn, s)["spell"] = txn["spell"]
      BY <2>2, <2>6, ExecuteChildRow, CatalogTables
    <3>2. s.table # "attunerKind" /\ s.table # "spell"
      BY <2>6, CatalogTables
    <3>3. \A c \in {"attunerKind", "spell"} : RowsIn(Script, c, Done)' = RowsIn(Script, c, Done)
      BY <2>3, <3>2
    <3> QED BY <2>1, <2>5, <3>1, <3>3 DEF OpenKinds, OpenSpells
  <2>7. CASE s.table = "attunerKind"
    <3>1. /\ Execute(txn, s)["attunerKind"] = Put(txn.attunerKind, s.row.name, s.row.kind)
          /\ Execute(txn, s)["spell"] = txn["spell"]
      BY <2>2, <2>7, ExecuteReference, CatalogTables
    <3>2. /\ RowsIn(Script, "attunerKind", Done)' = RowsIn(Script, "attunerKind", Done) \cup {s.row}
          /\ RowsIn(Script, "spell", Done)' = RowsIn(Script, "spell", Done)
      BY <2>3, <2>7
    <3>3. s.row.name \notin NamesOf(RowsIn(Script, "attunerKind", Done))
      BY <2>1, <2>7, FreshName DEF InTxn
    <3>4. KindsGrown(Put(txn.attunerKind, s.row.name, s.row.kind), db,
                     RowsIn(Script, "attunerKind", Done) \cup {s.row})
      BY <2>5, <3>3, KindsGrownNext
    <3> QED BY <2>1, <2>5, <3>1, <3>2, <3>4 DEF OpenKinds, OpenSpells
  <2>8. CASE s.table = "spell"
    <3>1. /\ Execute(txn, s)["spell"] = Put(txn.spell, s.row.name, MergedSpell(txn, s.row))
          /\ Execute(txn, s)["attunerKind"] = txn["attunerKind"]
      BY <2>2, <2>8, ExecuteReference, CatalogTables
    <3>2. /\ RowsIn(Script, "spell", Done)' = RowsIn(Script, "spell", Done) \cup {s.row}
          /\ RowsIn(Script, "attunerKind", Done)' = RowsIn(Script, "attunerKind", Done)
      BY <2>3, <2>8
    <3>3. s.row.name \notin NamesOf(RowsIn(Script, "spell", Done))
      BY <2>1, <2>8, FreshName DEF InTxn
    <3>4. SpellsGrown(Put(txn.spell, s.row.name, MergedSpell(txn, s.row)), db,
                      RowsIn(Script, "spell", Done) \cup {s.row})
      BY <2>5, <3>3, SpellsGrownNext
    <3> QED BY <2>1, <2>5, <3>1, <3>2, <3>4 DEF OpenKinds, OpenSpells
  <2> QED BY <2>4, <2>6, <2>7, <2>8
<1>5. CASE UNCHANGED vars
  <2>1. UNCHANGED <<db, normalized, k, pending, txn, phase>>
    BY <1>5 DEF vars
  <2> QED BY <1>2, <2>1
<1> QED BY <1>1, <1>3, <1>4, <1>5, OpenBefore

(* The tables of the open transaction, whatever the step.                  *)
LEMMA OpenStep == Known /\ Known' /\ TablesTyped /\ OpenInv /\ [Next]_vars => OpenInv'
  BY OpenRowsStep, OpenBaseStep, OpenReferencesStep DEF OpenInv
-----------------------------------------------------------------------------
(* The committed tables.                                                   *)

(* The committed tables: ids and rows belong together, nothing is left     *)
(* over, and within a run every item is whole.                             *)
OwnIds == \A r, s \in db.item : r.id = s.id => r = s
Owned == \A c \in ChildTables : \A x \in db[c] : \E r \in db.item : r.id = x.item
Blank == ~provisioned \/ phase \in Before => db = EmptyCatalog

Whole(r) ==
    /\ r = ItemRow(r.id, r.src, Survey[r.src], Reply(r.src))
    /\ \A c \in ChildTables :
          RowsOf(db, c, r.id) = StatementRows(c, ChildStatements(r.id, Reply(r.src)))
AllWhole == phase \in InRun => \A r \in db.item : Whole(r)

TablesInv == TablesTyped /\ OwnIds /\ Owned /\ NoOrphanReferences /\ Blank /\ AllWhole

EmptyTables ==
    /\ TablesTyped /\ OwnIds /\ Owned /\ NoOrphanReferences
    /\ \A c \in ChildTables : Cardinality(db[c]) = 0

(* An empty database has nothing wrong with it.                            *)
LEMMA EmptyIsFine == db = EmptyCatalog => EmptyTables
<1> SUFFICES ASSUME db = EmptyCatalog PROVE EmptyTables
  OBVIOUS
<1>1. \A c \in ChildTables : EmptyCatalog[c] = {}
  BY DEF EmptyCatalog, ChildTables
<1>2. /\ EmptyCatalog.item = {} /\ DOMAIN EmptyCatalog.baseItem = {}
      /\ DOMAIN EmptyCatalog.attunerKind = {} /\ DOMAIN EmptyCatalog.spell = {}
  BY DEF EmptyCatalog
<1>3. IsFiniteSet({}) /\ Cardinality({}) = 0
  BY FS_EmptySet
<1> QED BY <1>1, <1>2, <1>3 DEF EmptyTables, TablesTyped, OwnIds, Owned, NoOrphanReferences

(* The same for the state after a step.                                    *)
LEMMA EmptyIsFineNext == (db = EmptyCatalog)' => EmptyTables'
  BY EmptyIsFine, PTL

(* What Commit makes of the tables. *)
Added(c) == RowsIn(Script, c, DOMAIN Script)

Committed ==
    /\ db'.item = db.item \cup {Row} /\ DOMAIN db' = DOMAIN EmptyCatalog
    /\ \A c \in ChildTables :
          /\ db'[c] = db[c] \cup Added(c) /\ IsFiniteSet(db'[c])
          /\ Cardinality(db'[c]) = Cardinality(db[c]) + counts[c]
    /\ db'.baseItem = IF Reply(k).applicability # "specific" THEN db.baseItem
                      ELSE LET b == BaseItemStatement(Reply(k)).row
                           IN  Put(db.baseItem, b.name, MergedBaseItem(db, b))
    /\ KindsGrown(db'.attunerKind, db, Added("attunerKind"))
    /\ SpellsGrown(db'.spell, db, Added("spell"))

(* Commit makes the open tables, with all statements done, the database.   *)
LEMMA CommitTables == ASSUME Known, OpenInv, Commit PROVE Committed
<1>1. /\ phase = "inserting" /\ phase \in InTxn /\ pending = <<>> /\ db' = txn
  BY DEF Commit, InTxn
<1>2. Len(Script) \in Nat /\ DOMAIN Script = 1..Len(Script)
  BY <1>1, ScriptStretch DEF Known
<1>3. Done = DOMAIN Script
  BY <1>1, <1>2 DEF Done
<1>4. \A c : RowsIn(Script, c, Done) = Added(c)
  BY <1>3 DEF Added
<1>5. db'.item = db.item \cup {Row}
  BY CommitStep DEF Known
<1>6. DOMAIN txn = DOMAIN EmptyCatalog /\ \A c \in ChildTables : Grown(c)
  BY <1>1 DEF OpenInv, OpenRows
<1>7. \A c \in ChildTables :
         /\ db'[c] = db[c] \cup Added(c) /\ IsFiniteSet(db'[c])
         /\ Cardinality(db'[c]) = Cardinality(db[c]) + counts[c]
  BY <1>1, <1>4, <1>6 DEF Grown
<1>8. db'.baseItem = IF Reply(k).applicability # "specific" THEN db.baseItem
                     ELSE LET b == BaseItemStatement(Reply(k)).row
                          IN  Put(db.baseItem, b.name, MergedBaseItem(db, b))
  BY <1>1 DEF OpenInv, OpenBase
<1>9. /\ KindsGrown(db'.attunerKind, db, Added("attunerKind"))
      /\ SpellsGrown(db'.spell, db, Added("spell"))
  BY <1>1, <1>4 DEF OpenInv, OpenKinds, OpenSpells
<1> QED BY <1>1, <1>5, <1>6, <1>7, <1>8, <1>9 DEF Committed

(* The rows it adds. *)
LEMMA AddedRows ==
    ASSUME Known, phase \in InTxn
    PROVE  /\ \A c : Added(c) = StatementRows(c, Script)
           /\ \A c \in ChildTables : \A x \in Added(c) : x.item = NextId(db)
           /\ \A a \in NamesOf(Added("attunerKind")) : \E x \in Added("allowlist") : x.kind = a
           /\ \A a \in NamesOf(Added("spell")) : \E x \in Added("itemSpell") : x.spell = a
<1>1. /\ ToSet(Script) = AllChildren(NextId(db), Reply(k))
      /\ \A c : Added(c) = StatementRows(c, Script)
  BY ScriptStretch DEF Known, Added, RowsIn, StatementRows, ToSet
<1>2. \A c : Added(c) = {s.row : s \in {x \in AllChildren(NextId(db), Reply(k)) : x.table = c}}
  BY <1>1 DEF StatementRows
<1>3. \A c \in ChildTables : \A x \in Added(c) : x.item = NextId(db)
  BY <1>2, ChildFacts
<1>4. ASSUME NEW a \in NamesOf(Added("attunerKind")) PROVE \E x \in Added("allowlist") : x.kind = a
  <2>1. PICK s \in AllChildren(NextId(db), Reply(k)) : s.table = "attunerKind" /\ s.row.name = a
    BY <1>2 DEF NamesOf
  <2>2. PICK t \in AllChildren(NextId(db), Reply(k)) : t.table = "allowlist" /\ t.row.kind = a
    BY <2>1, ChildFacts
  <2> QED BY <1>2, <2>2
<1>5. ASSUME NEW a \in NamesOf(Added("spell")) PROVE \E x \in Added("itemSpell") : x.spell = a
  <2>1. PICK s \in AllChildren(NextId(db), Reply(k)) : s.table = "spell" /\ s.row.name = a
    BY <1>2 DEF NamesOf
  <2>2. PICK t \in AllChildren(NextId(db), Reply(k)) : t.table = "itemSpell" /\ t.row.spell = a
    BY <2>1, ChildFacts
  <2> QED BY <1>2, <2>2
<1> QED BY <1>1, <1>3, <1>4, <1>5

(* What it adds is one whole item, and what its rows refer to.             *)
LEMMA CommitKeepsTables ==
    ASSUME Known, OpenInv, TablesInv, Commit
    PROVE  TablesTyped' /\ OwnIds' /\ Owned' /\ NoOrphanReferences' /\ AllWhole'
<1>0. /\ IInv /\ RepliesInv /\ Committed /\ phase \in InTxn /\ phase \in InRun
      /\ UNCHANGED <<k, normalized>>
  BY CommitTables DEF Known, Commit, InTxn, InRun, flags, outcomes
<1>1. /\ db'.item = db.item \cup {Row} /\ Row.id = Cardinality(db.item) + 1 /\ Row.src = k
      /\ Row.id = NextId(db) /\ Cardinality(db.item) \in Nat
      /\ \A r \in db.item : r.id \in 1..Cardinality(db.item) /\ r.id # Row.id
  <2>1. Cardinality(db.item) \in Nat /\ \A r \in db.item : r.id \in 1..Cardinality(db.item)
    BY <1>0, FS_CardinalityType DEF IInv, CatalogInv
  <2>2. Row.id = Cardinality(db.item) + 1 /\ Row.src = k /\ db'.item = db.item \cup {Row}
    BY <1>0, RowFields DEF Committed
  <2> QED BY <2>1, <2>2 DEF NextId
<1>2. TablesTyped'
  BY <1>0 DEF Committed, TablesTyped
<1>3. OwnIds'
  BY <1>1 DEF OwnIds, TablesInv
<1>4. \A c \in ChildTables : db'[c] = db[c] \cup Added(c) /\ \A x \in Added(c) : x.item = Row.id
  BY <1>0, <1>1, AddedRows DEF Committed
<1>5. Owned'
  <2> SUFFICES ASSUME NEW c \in ChildTables, NEW x \in db'[c]
               PROVE  \E r \in db'.item : r.id = x.item
    BY DEF Owned
  <2>1. CASE x \in db[c]
    BY <1>1, <2>1 DEF TablesInv, Owned
  <2>2. CASE x \in Added(c)
    BY <1>1, <1>4, <2>2
  <2> QED BY <1>4, <2>1, <2>2
<1>6. NoOrphanReferences'
  <2>1. ASSUME NEW b \in DOMAIN db'.baseItem PROVE \E r \in db'.item : b \in r.baseItem
    <3>1. CASE b \in DOMAIN db.baseItem
      BY <1>1, <3>1 DEF TablesInv, NoOrphanReferences
    <3>2. CASE b \notin DOMAIN db.baseItem
      <4>1. Reply(k).applicability = "specific" /\ b = BaseItemStatement(Reply(k)).row.name
        BY <1>0, <3>2 DEF Committed, Put
      <4>2. b = Canonical(Reply(k).baseItemName)
        BY <4>1 DEF BaseItemStatement, Statement
      <4>3. Row.baseItem = {b}
        BY <4>1, <4>2 DEF Row, ItemRow
      <4> QED BY <1>1, <4>3
    <3> QED BY <3>1, <3>2
  <2>2. ASSUME NEW a \in DOMAIN db'.attunerKind PROVE \E x \in db'.allowlist : x.kind = a
    <3>0. "allowlist" \in ChildTables
      BY DEF ChildTables
    <3>1. CASE a \in DOMAIN db.attunerKind
      BY <1>4, <3>0, <3>1 DEF TablesInv, NoOrphanReferences
    <3>2. CASE a \notin DOMAIN db.attunerKind
      <4>1. a \in NamesOf(Added("attunerKind"))
        BY <1>0, <3>2 DEF Committed, KindsGrown
      <4> QED BY <1>0, <1>4, <3>0, <4>1, AddedRows
    <3> QED BY <3>1, <3>2
  <2>3. ASSUME NEW a \in DOMAIN db'.spell PROVE \E x \in db'.itemSpell : x.spell = a
    <3>0. "itemSpell" \in ChildTables
      BY DEF ChildTables
    <3>1. CASE a \in DOMAIN db.spell
      BY <1>4, <3>0, <3>1 DEF TablesInv, NoOrphanReferences
    <3>2. CASE a \notin DOMAIN db.spell
      <4>1. a \in NamesOf(Added("spell"))
        BY <1>0, <3>2 DEF Committed, SpellsGrown
      <4> QED BY <1>0, <1>4, <3>0, <4>1, AddedRows
    <3> QED BY <3>1, <3>2
  <2> QED BY <2>1, <2>2, <2>3 DEF NoOrphanReferences
<1>7. ASSUME NEW r \in db.item PROVE Whole(r)'
  <2>1. r.src \in Landed /\ Whole(r)
    BY <1>0 DEF Landed, TablesInv, AllWhole
  <2>2. Reply(r.src)' = Reply(r.src)
    BY <1>0 DEF Reply
  <2>3. \A c \in ChildTables : RowsOf(db', c, r.id) = RowsOf(db, c, r.id)
    BY <1>1, <1>4 DEF RowsOf
  <2> QED BY <2>1, <2>2, <2>3 DEF Whole
<1>8. PICK r : r = Row
  OBVIOUS
<1>9. Whole(r)'
  <2>1. r.id = NextId(db) /\ r.src = k /\ r = ItemRow(r.id, r.src, Survey[r.src], Reply(r.src))
    BY <1>1, <1>8 DEF Row
  <2>2. Reply(r.src)' = Reply(r.src)
    BY <1>0 DEF Reply
  <2>3. \A c \in ChildTables : RowsOf(db', c, r.id) = Added(c)
    <3> SUFFICES ASSUME NEW c \in ChildTables PROVE RowsOf(db', c, r.id) = Added(c)
      OBVIOUS
    <3>1. \A x \in db[c] : x.item # r.id
      BY <1>1, <1>8 DEF TablesInv, Owned
    <3>2. \A x \in Added(c) : x.item = r.id
      BY <1>4, <1>8
    <3> QED BY <1>4, <3>1, <3>2 DEF RowsOf
  <2>4. \A c \in ChildTables :
           Added(c) = StatementRows(c, ChildStatements(r.id, Reply(r.src)))
    BY <1>0, <2>1, AddedRows DEF Script
  <2> QED BY <2>1, <2>2, <2>3, <2>4 DEF Whole
<1>10. \A s \in db'.item : Whole(s)'
  <2>1. \A s \in db'.item : s \in db.item \/ s = r
    BY <1>1, <1>8
  <2> QED BY <1>7, <1>9, <2>1
<1> QED BY <1>2, <1>3, <1>5, <1>6, <1>10 DEF AllWhole

(* The committed tables, whatever the step.                                *)
LEMMA TablesStep == Known /\ OpenInv /\ TablesInv /\ [Next]_vars => TablesInv'
<1> SUFFICES ASSUME Known, OpenInv, TablesInv, [Next]_vars PROVE TablesInv'
  OBVIOUS
<1>0. IInv /\ RepliesInv /\ PositionInv /\ CatalogInv
  BY DEF Known, IInv
<1>1. ASSUME db' = db PROVE TablesTyped' /\ OwnIds' /\ Owned' /\ NoOrphanReferences'
  BY <1>1 DEF TablesInv, TablesTyped, OwnIds, Owned, NoOrphanReferences
<1>2. CASE Start \/ Gone
  <2>1. UNCHANGED <<provisioned, db>> /\ phase' \notin InRun
    BY <1>2 DEF Start, Gone, Fatal, Crash, durable, InRun, Before, InTxn, After
  <2>2. Blank' /\ AllWhole'
    BY <2>1 DEF TablesInv, Blank, AllWhole, InRun
  <2> QED BY <1>1, <2>1, <2>2 DEF TablesInv
<1>3. CASE Provision
  <2>1. db = EmptyCatalog /\ db' = db
    BY <1>3 DEF Provision, TablesInv, Blank
  <2>2. Blank' /\ AllWhole'
    BY <2>1, EmptyCatalogItems DEF Blank, AllWhole
  <2> QED BY <1>1, <2>1, <2>2 DEF TablesInv
<1>4. CASE Quiet
  <2>1. /\ UNCHANGED <<provisioned, db>> /\ provisioned /\ phase \in InRun
        /\ phase' \in Before => phase \in Before
    BY <1>0, <1>4, QuietStep DEF CatalogInv
  <2>2. Blank'
    BY <2>1 DEF TablesInv, Blank
  <2>3. ASSUME NEW r \in db.item PROVE Whole(r)'
    <3>1. r.src \in Landed /\ Whole(r)
      BY <2>1 DEF Landed, TablesInv, AllWhole
    <3>2. Reply(r.src)' = Reply(r.src)
      BY <1>0, <1>4, <2>1, <3>1, SaidStays
    <3> QED BY <2>1, <3>1, <3>2 DEF Whole
  <2>4. AllWhole'
    BY <2>1, <2>3 DEF AllWhole
  <2> QED BY <1>1, <2>1, <2>2, <2>4 DEF TablesInv
<1>5. CASE Commit
  <2>1. provisioned /\ provisioned' = provisioned /\ phase' = "committed"
    BY <1>0, <1>5 DEF Commit, CatalogInv, InRun, InTxn
  <2>2. Blank'
    BY <2>1 DEF Blank, Before
  <2> QED BY <1>5, <2>2, CommitKeepsTables DEF TablesInv
<1>6. CASE Wipe
  <2>1. (db = EmptyCatalog)' /\ phase' \notin InRun
    BY <1>6 DEF Wipe, InRun, Before, InTxn, After
  <2>2. Blank' /\ AllWhole'
    BY <2>1 DEF Blank, AllWhole
  <2> QED BY <2>1, <2>2, EmptyIsFineNext DEF TablesInv, EmptyTables
<1>7. CASE UNCHANGED vars
  <2>1. UNCHANGED <<db, phase, provisioned, normalized>>
    BY <1>7 DEF vars, durable, outcomes
  <2>2. Blank' /\ AllWhole'
    BY <2>1 DEF TablesInv, Blank, AllWhole, Whole, Reply
  <2> QED BY <1>1, <2>1, <2>2 DEF TablesInv
<1> QED BY <1>2, <1>3, <1>4, <1>5, <1>6, <1>7, StepKinds

(* An empty database to begin with.                                        *)
LEMMA InitTables == Init => OpenInv /\ TablesInv
<1> SUFFICES ASSUME Init PROVE OpenInv /\ TablesInv
  OBVIOUS
<1>1. db = EmptyCatalog /\ phase = "off"
  BY DEF Init
<1>2. phase \notin InTxn /\ phase \notin InRun
  BY <1>1 DEF InRun, InTxn, Before, After
<1>3. EmptyTables
  BY <1>1, EmptyIsFine
<1> QED
  BY <1>1, <1>2, <1>3
  DEF OpenInv, OpenRows, OpenBase, OpenKinds, OpenSpells, TablesInv, EmptyTables, Blank, AllWhole

(* The open transaction holds the committed tables and exactly what its    *)
(* statements have added so far (OpenInv); the committed tables hold       *)
(* exactly what the landed items stated (TablesInv).                       *)
THEOREM TablesHold == Spec => [](OpenInv /\ TablesInv)
<1>1. Known /\ Known' /\ OpenInv /\ TablesInv /\ [Next]_vars => OpenInv' /\ TablesInv'
  BY OpenStep, TablesStep DEF TablesInv
<1>2. IInv /\ RepliesInv /\ ScriptInv <=> Known
  BY DEF Known
<1> QED BY InitTables, InvariantHolds, RepliesHold, ScriptHolds, <1>1, <1>2, PTL DEF Spec

(* Every committed item is whole: its row and exactly the child rows its   *)
(* own reply asks for, whatever was rolled back around it.                 *)
THEOREM EveryItemWhole == Spec => []WholeItems
<1>1. IInv /\ TablesInv => WholeItems
  <2> SUFFICES ASSUME IInv, TablesInv PROVE WholeItems
    OBVIOUS
  <2>1. LoadedHere => phase \in InRun
    BY BookOf DEF IInv, BookByPhase
  <2>2. LoadedHere => \A r \in db.item : Whole(r)
    BY <2>1 DEF TablesInv, AllWhole
  <2> QED BY <2>2 DEF WholeItems, Whole, TablesInv, Owned
<1> QED BY <1>1, InvariantHolds, TablesHold, PTL

(* No reference row is left behind by a rolled-back item: each base item,  *)
(* attuner kind and spell is used by a committed item.                     *)
THEOREM NoReferenceIsOrphaned == Spec => []NoOrphanReferences
<1>1. TablesInv => NoOrphanReferences
  BY DEF TablesInv
<1> QED BY <1>1, TablesHold, PTL

(* After Dedupe an item collides with itself on a unique key only through  *)
(* creature targets whose species is white space; nothing else it has      *)
(* written, and nothing another item has, can be in the way.               *)
THEOREM CollisionsAreBlankSpecies == Spec => []UniqueGrain
<1>1. Known /\ OpenInv /\ TablesInv => UniqueGrain
  <2> SUFFICES ASSUME Known, OpenInv, TablesInv, InTransaction, Collides(txn, Current)
               PROVE  BlankSpecies(Reply(k))
    BY DEF UniqueGrain, BlankSpecies
  <2>1. phase = "inserting" /\ pending # <<>>
    <3>1. phase # "begun"
      BY CatalogTables DEF Collides, Current, BaseItemStatement, Statement
    <3>2. phase # "based"
      BY CatalogTables DEF Collides, Current, Statement
    <3> QED BY <3>1, <3>2 DEF InTransaction
  <2>2. /\ phase \in InTxn /\ At \in DOMAIN Script /\ Current = Script[At] /\ Done = 1..(At - 1)
        /\ Script[At] \in AllChildren(NextId(db), Reply(k))
    BY <2>1, AtStatement DEF Known, InTxn
  <2>3. PICK s : s = Script[At]
    OBVIOUS
  <2>4. s.table \in ChildTables /\ s.row.item = NextId(db)
    BY <2>2, <2>3, ChildFacts DEF Collides
  <2>5. PICK r \in txn[s.table] :
           r.item = NextId(db) /\ UniqueKey(s.table, r) = UniqueKey(s.table, s.row)
    BY <2>2, <2>3, <2>4 DEF Collides
  <2>6. r \notin db[s.table]
    <3>1. \A m \in db.item : m.id # NextId(db)
      BY FS_CardinalityType DEF Known, IInv, CatalogInv, NextId
    <3> QED BY <2>4, <2>5, <3>1 DEF TablesInv, Owned
  <2>7. r \in RowsIn(Script, s.table, Done)
    BY <2>2, <2>4, <2>5, <2>6 DEF OpenInv, OpenRows, Grown
  <2>8. PICK j \in Done : Script[j].table = s.table /\ r = Script[j].row
    BY <2>7 DEF RowsIn
  <2>9. j \in DOMAIN Script /\ j < At
    <3>1. DOMAIN Script = 1..Len(Script) /\ Len(Script) \in Nat
      BY <2>2, ScriptStretch DEF Known
    <3> QED BY <2>2, <2>8, <3>1
  <2>10. AreApart(Reply(k), Script[j], s)
    BY <2>2, <2>3, <2>9, ScriptStretch DEF Known
  <2>11. StatementKey(Script[j]) = StatementKey(s)
    BY <2>4, <2>5, <2>8, CatalogTables DEF StatementKey
  <2> QED BY <2>8, <2>10, <2>11 DEF AreApart
<1>2. IInv /\ RepliesInv /\ ScriptInv <=> Known
  BY DEF Known
<1> QED BY <1>1, <1>2, InvariantHolds, RepliesHold, ScriptHolds, TablesHold, PTL
-----------------------------------------------------------------------------
(* The counters and the report.                                            *)

(* The counters are the tables' sizes, and the report copies the counters. *)
ChildCounts ==
    phase \in InRun => \A c \in ChildTables :
       Cardinality(db[c]) = totals[c] + (IF phase = "committed" THEN counts[c] ELSE 0)
Reported ==
    phase \in {"reporting", "verdict", "clean", "quarantined"} =>
       report = {[taken |-> limit, inserted |-> inserted, quarantine |-> quarantine,
                  database |-> DbTotal, children |-> totals]}
FreshCounts == phase = "provisioning" => totals = NoCounts

CountInv == FreshCounts /\ ChildCounts /\ Reported

(* The totals grow with the tables, by what Insert counted.                *)
LEMMA ChildCountsStep == Known /\ OpenInv /\ TablesInv /\ CountInv /\ [Next]_vars => ChildCounts'
<1> SUFFICES ASSUME Known, OpenInv, TablesInv, CountInv, [Next]_vars, phase' \in InRun
             PROVE  \A c \in ChildTables :
                       Cardinality(db'[c])
                         = totals'[c] + (IF phase' = "committed" THEN counts'[c] ELSE 0)
  BY DEF ChildCounts
<1>0. IInv /\ PositionInv /\ totals \in [ChildTables -> Nat] /\ counts \in [ChildTables -> Nat]
  BY DEF Known, IInv, TypeOK
<1> USE DEF files, durable, flags, outcomes, tx, tally
<1>1. CASE Start \/ Gone \/ Wipe
  BY <1>1 DEF Start, Gone, Fatal, Crash, Wipe, InRun, Before, InTxn, After
<1>2. CASE Provision
  <2>1. db' = EmptyCatalog /\ totals' = NoCounts /\ phase' # "committed"
    BY <1>2 DEF Provision, TablesInv, Blank, CountInv, FreshCounts
  <2>2. \A c \in ChildTables : Cardinality(db'[c]) = 0 /\ NoCounts[c] = 0
    BY <2>1, EmptyIsFineNext DEF EmptyTables, NoCounts
  <2> QED BY <2>1, <2>2
<1>3. CASE Quiet /\ ~Acknowledge
  <2>1. UNCHANGED <<db, totals>> /\ phase # "committed" /\ phase' # "committed" /\ phase \in InRun
    BY <1>0, <1>3, QuietStep
    DEF Quiet, LoadSurvey, EndNormalize, SkipFailed, RejectInvalid, Begin, UpsertBaseItem,
        InsertItem, InsertChild, InsertFails, InTransaction, EndLoad, WriteReport, WriteQuarantine,
        Verdict, CacheHit, LiveReply, LiveError
  <2> QED BY <2>1 DEF CountInv, ChildCounts
<1>4. CASE Acknowledge
  <2>1. /\ db' = db /\ phase = "committed" /\ phase' = "loading"
        /\ totals' = [c \in ChildTables |-> totals[c] + counts[c]]
    BY <1>4 DEF Acknowledge
  <2>2. \A c \in ChildTables : Cardinality(db[c]) = totals[c] + counts[c]
    BY <2>1 DEF CountInv, ChildCounts, InRun
  <2>3. \A c \in ChildTables : totals'[c] + 0 = totals[c] + counts[c]
    BY <1>0, <2>1
  <2> QED BY <2>1, <2>2, <2>3
<1>5. CASE Commit
  <2>1. UNCHANGED <<totals, counts>> /\ phase = "inserting" /\ phase' = "committed"
    BY <1>5 DEF Commit
  <2>2. \A c \in ChildTables : Cardinality(db'[c]) = Cardinality(db[c]) + counts[c]
    BY <1>5, CommitTables DEF Committed
  <2>3. \A c \in ChildTables : Cardinality(db[c]) = totals[c] + 0
    BY <2>1 DEF CountInv, ChildCounts, InRun, InTxn
  <2> QED BY <1>0, <2>1, <2>2, <2>3
<1>6. CASE UNCHANGED vars
  BY <1>6 DEF vars, CountInv, ChildCounts
<1> QED BY <1>1, <1>2, <1>3, <1>4, <1>5, <1>6, StepKinds

(* The report copies them, and they do not change after that.              *)
LEMMA ReportedStep == Known /\ CountInv /\ [Next]_vars => FreshCounts' /\ Reported'
<1> SUFFICES ASSUME Known, CountInv, [Next]_vars PROVE FreshCounts' /\ Reported'
  OBVIOUS
<1> USE DEF files, durable, flags, outcomes, tx, tally
<1>1. phase' = "provisioning" => Start \/ UNCHANGED vars
  BY DEF Next, Work, Alone, Provision, LoadSurvey, CacheHit, LiveReply, LiveError,
         EndNormalize, SkipFailed, RejectInvalid, Begin, UpsertBaseItem, InsertItem, InsertChild,
         InsertFails, InTransaction, Commit, Acknowledge, EndLoad, WriteReport, WriteQuarantine,
         Verdict, Fatal, Crash, Wipe
<1>2. FreshCounts'
  BY <1>1 DEF FreshCounts, CountInv, Start, FreshMemory, vars
<1>3. phase' \in {"reporting", "verdict", "clean", "quarantined"}
        => WriteReport \/ WriteQuarantine \/ Verdict \/ UNCHANGED vars
  BY DEF Next, Work, Alone, Start, Provision, LoadSurvey, CacheHit, LiveReply, LiveError,
         EndNormalize, SkipFailed, RejectInvalid, Begin, UpsertBaseItem, InsertItem, InsertChild,
         InsertFails, InTransaction, Commit, Acknowledge, EndLoad, Fatal, Crash, Wipe
<1>4. CASE WriteReport
  BY <1>2, <1>4 DEF WriteReport, Reported, DbTotal
<1>5. CASE WriteQuarantine \/ Verdict
  BY <1>2, <1>5 DEF WriteQuarantine, Verdict, CountInv, Reported, DbTotal
<1>6. CASE UNCHANGED vars
  BY <1>2, <1>6 DEF vars, CountInv, Reported, DbTotal
<1> QED BY <1>2, <1>3, <1>4, <1>5, <1>6 DEF Reported

(* No counts to begin with.                                                *)
LEMMA InitCounts == Init => CountInv
  BY DEF Init, CountInv, FreshCounts, ChildCounts, Reported, InRun, Before, InTxn, After

(* What main counts is what the tables hold.                               *)
THEOREM CountsHold == Spec => []CountInv
<1>1. Known /\ OpenInv /\ TablesInv /\ CountInv /\ [Next]_vars => CountInv'
  BY ChildCountsStep, ReportedStep DEF CountInv
<1>2. IInv /\ RepliesInv /\ ScriptInv <=> Known
  BY DEF Known
<1> QED
  BY InitCounts, InvariantHolds, RepliesHold, ScriptHolds, TablesHold, <1>1, <1>2, PTL DEF Spec

(* A surveyed item has at most one row. *)
LEMMA LandedSize == IInv => IsFiniteSet(Landed) /\ Cardinality(Landed) = Cardinality(db.item)
<1> SUFFICES ASSUME IInv PROVE IsFiniteSet(Landed) /\ Cardinality(Landed) = Cardinality(db.item)
  OBVIOUS
<1> DEFINE src == [r \in db.item |-> r.src]
<1>1. IsFiniteSet(db.item) /\ \A r, s \in db.item : r.src = s.src => r = s
  BY DEF IInv, CatalogInv
<1>2. src \in Surjection(db.item, Landed)
  BY DEF Surjection, Landed
<1>3. src \in Injection(db.item, Landed)
  BY <1>1, <1>2 DEF Surjection, Injection, IsInjective
<1> HIDE DEF src
<1> QED BY <1>1, <1>2, <1>3, FS_Surjection

(* What report.md says is what the database holds: the items, their child  *)
(* rows, and one quarantine entry for each item taken on that is not there.*)
THEOREM ReportMatchesDatabase == Spec => []ReportIsTrue
<1>1. IInv /\ CountInv => ReportIsTrue
  <2> SUFFICES ASSUME IInv, CountInv, phase \in {"clean", "quarantined"}, NEW r \in report
               PROVE  /\ r.inserted = Cardinality(db.item)
                      /\ \A c \in ChildTables : r.children[c] = Cardinality(db[c])
                      /\ {q.item : q \in ToSet(r.quarantine)} = 1..r.taken \ {m.src : m \in db.item}
                      /\ Cardinality({q.item : q \in ToSet(r.quarantine)}) = Len(r.quarantine)
    BY DEF ReportIsTrue
  <2>1. r.taken = limit /\ r.inserted = inserted /\ r.quarantine = quarantine /\ r.children = totals
    BY DEF CountInv, Reported
  <2>2. phase \in After /\ phase \in InRun /\ phase # "committed"
    BY DEF After, InRun
  <2>3. /\ Refused \cap Landed = {} /\ Refused \cup Landed = Taken
        /\ Len(quarantine) + inserted = Cardinality(Taken)
        /\ Cardinality(db.item) = inserted
    BY <2>2, AllPassed DEF IInv, AccountInv
  <2>4. \A c \in ChildTables : totals[c] = Cardinality(db[c])
    <3>1. totals \in [ChildTables -> Nat]
      BY DEF IInv, TypeOK
    <3> QED BY <2>2, <3>1 DEF CountInv, ChildCounts
  <2>5. Refused = Taken \ Landed
    BY <2>3
  <2>6. Cardinality(Refused) = Len(quarantine)
    <3>1. IsFiniteSet(Passed) /\ Passed = Taken
      BY <2>2, AllPassed, PassedFinite DEF IInv
    <3>2. IsFiniteSet(Refused)
      BY <2>5, <3>1, FS_Subset
    <3>3. Cardinality(Taken) = Cardinality(Refused) + Cardinality(Landed) - Cardinality({})
      BY <2>3, <3>2, LandedSize, FS_Union
    <3>4. Cardinality({}) = 0 /\ Cardinality(Landed) = inserted
      BY <2>3, LandedSize, FS_EmptySet
    <3>5. Cardinality(Refused) \in Nat /\ inserted \in Nat /\ Len(quarantine) \in Nat
      BY <3>2, FS_CardinalityType DEF IInv, TypeOK
    <3> QED BY <2>3, <3>3, <3>4, <3>5
  <2> QED BY <2>1, <2>3, <2>4, <2>5, <2>6 DEF Refused, Landed, Taken
<1> QED BY <1>1, InvariantHolds, CountsHold, PTL
-----------------------------------------------------------------------------
(* The first to state a facet.                                             *)

(* i is the first of S that states the facet f.                            *)
FirstStating(S, f, i) == i \in S /\ f[i] # {} /\ \A j \in S : f[j] # {} => i <= j

(* What the first to state a facet states is FirstStated.                  *)
LEMMA FirstIs ==
    ASSUME NEW S, S \subseteq Nat, NEW f, NEW i, FirstStating(S, f, i)
    PROVE  FirstStated(S, f) = f[i]
<1> DEFINE stating == {j \in S : f[j] # {}}
           Least(m) == m \in stating /\ \A j \in stating : m <= j
<1>1. i \in stating /\ Least(i)
  BY DEF FirstStating
<1>2. \A m : Least(m) => m = i
  <2> SUFFICES ASSUME NEW m, Least(m) PROVE m = i
    OBVIOUS
  <2>1. m \in Nat /\ i \in Nat /\ m <= i /\ i <= m
    BY <1>1
  <2> QED BY <2>1
<1>3. (CHOOSE m \in stating : \A j \in stating : m <= j) = i
  BY <1>1, <1>2
<1> QED BY <1>1, <1>3 DEF FirstStated

(* When none states it there is none.                                      *)
LEMMA FirstNone ==
    ASSUME NEW S, NEW f, \A i \in S : f[i] = {}
    PROVE  FirstStated(S, f) = {}
<1>1. {i \in S : f[i] # {}} = {}
  OBVIOUS
<1> QED BY <1>1 DEF FirstStated

(* When one does, one is the first.                                        *)
LEMMA FirstSome ==
    ASSUME NEW S, S \subseteq Nat, NEW f, NEW n \in S, f[n] # {}
    PROVE  \E i : FirstStating(S, f, i)
<1> DEFINE stating == {j \in S : f[j] # {}}
<1>1. stating \subseteq Nat /\ stating # {}
  OBVIOUS
<1>2. PICK i \in stating : \A j \in stating : i <= j
  <2> HIDE DEF stating
  <2> QED BY <1>1, LeastExists
<1> QED BY <1>2 DEF FirstStating

(* One more item, after all of S: what was stated first sticks.            *)
Follows(S, f, n, g) ==
    S \subseteq Nat /\ n \in Nat /\ (\A i \in S : i < n) /\ \A i \in S : g[i] = f[i]

(* A later item changes what is stated first only if nothing was.          *)
LEMMA FirstNext ==
    ASSUME NEW S, NEW n, NEW f, NEW g, Follows(S, f, n, g)
    PROVE  FirstStated(S \cup {n}, g) = Coalesce(FirstStated(S, f), g[n])
<1> USE DEF Follows
<1>1. CASE \E i \in S : f[i] # {}
  <2>1. PICK i : FirstStating(S, f, i)
    BY <1>1, FirstSome
  <2>2. i \in S /\ i < n /\ i \in Nat /\ f[i] # {} /\ g[i] = f[i]
    BY <2>1 DEF FirstStating
  <2>3. FirstStating(S \cup {n}, g, i)
    BY <2>1, <2>2 DEF FirstStating
  <2>4. FirstStated(S, f) = f[i]
    BY <2>1, FirstIs
  <2>5. S \cup {n} \subseteq Nat
    OBVIOUS
  <2>6. FirstStated(S \cup {n}, g) = g[i]
    BY <2>3, <2>5, FirstIs
  <2> QED BY <2>2, <2>4, <2>6 DEF Coalesce
<1>2. CASE \A i \in S : f[i] = {}
  <2>1. FirstStated(S, f) = {}
    BY <1>2, FirstNone
  <2>2. CASE g[n] = {}
    <3>1. \A i \in S \cup {n} : g[i] = {}
      BY <1>2, <2>2
    <3>2. FirstStated(S \cup {n}, g) = {}
      BY <3>1, FirstNone
    <3> QED BY <2>1, <2>2, <3>2 DEF Coalesce
  <2>3. CASE g[n] # {}
    <3>1. FirstStating(S \cup {n}, g, n)
      BY <1>2, <2>3 DEF FirstStating
    <3>2. S \cup {n} \subseteq Nat
      OBVIOUS
    <3>3. FirstStated(S \cup {n}, g) = g[n]
      BY <3>1, <3>2, FirstIs
    <3> QED BY <2>1, <3>3 DEF Coalesce
  <2> QED BY <2>2, <2>3
<1> QED BY <1>1, <1>2

(* Items that state the same have the same first.                          *)
LEMMA FirstSame ==
    ASSUME NEW S, S \subseteq Nat, NEW f, NEW g, \A i \in S : g[i] = f[i]
    PROVE  FirstStated(S, g) = FirstStated(S, f)
<1>1. CASE \E i \in S : f[i] # {}
  <2>1. PICK i : FirstStating(S, f, i)
    BY <1>1, FirstSome
  <2>2. FirstStating(S, g, i)
    BY <2>1 DEF FirstStating
  <2>3. FirstStated(S, f) = f[i] /\ FirstStated(S, g) = g[i]
    BY <2>1, <2>2, FirstIs
  <2> QED BY <2>1, <2>3 DEF FirstStating
<1>2. CASE \A i \in S : f[i] = {}
  <2>1. \A i \in S : g[i] = {}
    BY <1>2
  <2> QED BY <1>2, <2>1, FirstNone
<1> QED BY <1>1, <1>2
-----------------------------------------------------------------------------
(* The rows items share: the first statement of a facet stays, the last kind *)
(* of an attuner does.                                                     *)

(* The shared rows, from the first commit on. *)
BasesFirst ==
    phase \in InRun =>
       /\ \A i \in Landed : Reply(i).applicability = "specific"
                              => Canonical(Reply(i).baseItemName) \in DOMAIN db.baseItem
       /\ \A b \in DOMAIN db.baseItem :
             /\ db.baseItem[b].family = FirstStated(Naming(b), Families)
             /\ db.baseItem[b].weight = FirstStated(Naming(b), Weights)
SpellsFirst ==
    phase \in InRun =>
       /\ \A i \in Landed : \A x \in ToSet(Reply(i).spells) : Canonical(x.name) \in DOMAIN db.spell
       /\ \A s \in DOMAIN db.spell : db.spell[s] = FirstStated(Landed, Schools(s))

(* What a step without a commit leaves as it was. *)
LEMMA SaidSame ==
    ASSUME IInv, UNCHANGED db, \A i \in Landed : Reply(i)' = Reply(i)
    PROVE  /\ Landed' = Landed
           /\ \A b : FirstStated(Naming(b), Families)' = FirstStated(Naming(b), Families)
           /\ \A b : FirstStated(Naming(b), Weights)' = FirstStated(Naming(b), Weights)
           /\ \A s : FirstStated(Landed, Schools(s))' = FirstStated(Landed, Schools(s))
<1>1. Landed' = Landed
  BY DEF Landed
<1>2. Families' = Families /\ Weights' = Weights /\ \A s : Schools(s)' = Schools(s)
  BY <1>1 DEF Families, Weights, Schools
<1>3. \A b : Naming(b)' = Naming(b)
  BY <1>1 DEF Naming
<1>4. \A b : /\ FirstStated(Naming(b), Families)' = FirstStated(Naming(b)', Families')
            /\ FirstStated(Naming(b), Weights)' = FirstStated(Naming(b)', Weights')
  BY DEF FirstStated
<1>5. \A s : FirstStated(Landed, Schools(s))' = FirstStated(Landed', Schools(s)')
  BY DEF FirstStated
<1> QED BY <1>1, <1>2, <1>3, <1>4, <1>5

(* A commit comes after all that landed before. *)
LEMMA LandedBefore ==
    ASSUME Known, Commit
    PROVE  /\ Landed' = Landed \cup {k} /\ k \in Nat /\ Landed \subseteq Nat
           /\ \A i \in Landed : i < k
           /\ \A i : Reply(i)' = Reply(i)
           /\ phase \in InRun /\ phase \in InTxn
<1>1. phase \in InRun /\ phase \in InTxn
  BY DEF Commit, InRun, InTxn
<1>2. k \in Items \ Landed /\ Landed' = Landed \cup {k}
  BY CommitStep DEF Known
<1>3. k \in Nat
  BY <1>2 DEF Items
<1>4. \A i \in Landed : i \in 1..k /\ i # k
  BY <1>1, <1>2, LandedAnswered DEF Known
<1>5. \A i : Reply(i)' = Reply(i)
  BY DEF Commit, outcomes, Reply
<1> QED BY <1>1, <1>2, <1>3, <1>4, <1>5

(* What a commit adds to what was stated. *)
LEMMA StatedNext ==
    ASSUME Known, Commit
    PROVE  /\ \A b : Reply(k).applicability = "specific" /\ Canonical(Reply(k).baseItemName) = b =>
                 /\ FirstStated(Naming(b), Families)'
                      = Coalesce(FirstStated(Naming(b), Families), EnumPtr(Reply(k).baseItemWeaponFamily))
                 /\ FirstStated(Naming(b), Weights)'
                      = Coalesce(FirstStated(Naming(b), Weights), EnumPtr(Reply(k).baseItemArmorWeight))
           /\ \A b : ~(Reply(k).applicability = "specific" /\ Canonical(Reply(k).baseItemName) = b) =>
                 /\ FirstStated(Naming(b), Families)' = FirstStated(Naming(b), Families)
                 /\ FirstStated(Naming(b), Weights)' = FirstStated(Naming(b), Weights)
           /\ \A s : FirstStated(Landed, Schools(s))'
                       = Coalesce(FirstStated(Landed, Schools(s)), Schools(s)'[k])
<1>0. /\ Landed' = Landed \cup {k} /\ k \in Nat /\ Landed \subseteq Nat
      /\ (\A i \in Landed : i < k) /\ \A i : Reply(i)' = Reply(i)
  BY LandedBefore
<1>1. /\ \A i \in Landed : Families'[i] = Families[i] /\ Weights'[i] = Weights[i]
      /\ Families'[k] = EnumPtr(Reply(k).baseItemWeaponFamily)
      /\ Weights'[k] = EnumPtr(Reply(k).baseItemArmorWeight)
  BY <1>0 DEF Families, Weights
<1>2. \A s : \A i \in Landed : Schools(s)'[i] = Schools(s)[i]
  BY <1>0 DEF Schools
<1>3. \A b : Naming(b) \subseteq Landed
  BY DEF Naming
<1>4. ASSUME NEW b, Reply(k).applicability = "specific", Canonical(Reply(k).baseItemName) = b
      PROVE  /\ FirstStated(Naming(b), Families)'
                  = Coalesce(FirstStated(Naming(b), Families), EnumPtr(Reply(k).baseItemWeaponFamily))
             /\ FirstStated(Naming(b), Weights)'
                  = Coalesce(FirstStated(Naming(b), Weights), EnumPtr(Reply(k).baseItemArmorWeight))
  <2>1. Naming(b)' = Naming(b) \cup {k}
    BY <1>0, <1>4 DEF Naming
  <2>2. Naming(b) \subseteq Nat /\ \A i \in Naming(b) : i < k
    BY <1>0, <1>3
  <2>3. FirstStated(Naming(b) \cup {k}, Families') = Coalesce(FirstStated(Naming(b), Families), Families'[k])
    <3>1. Follows(Naming(b), Families, k, Families')
      BY <1>0, <1>1, <1>3, <2>2 DEF Follows
    <3> QED BY <3>1, FirstNext
  <2>4. FirstStated(Naming(b) \cup {k}, Weights') = Coalesce(FirstStated(Naming(b), Weights), Weights'[k])
    <3>1. Follows(Naming(b), Weights, k, Weights')
      BY <1>0, <1>1, <1>3, <2>2 DEF Follows
    <3> QED BY <3>1, FirstNext
  <2>5. /\ FirstStated(Naming(b), Families)' = FirstStated(Naming(b)', Families')
        /\ FirstStated(Naming(b), Weights)' = FirstStated(Naming(b)', Weights')
    BY DEF FirstStated
  <2> QED BY <1>1, <2>1, <2>3, <2>4, <2>5
<1>5. ASSUME NEW b, ~(Reply(k).applicability = "specific" /\ Canonical(Reply(k).baseItemName) = b)
      PROVE  /\ FirstStated(Naming(b), Families)' = FirstStated(Naming(b), Families)
             /\ FirstStated(Naming(b), Weights)' = FirstStated(Naming(b), Weights)
  <2>1. Naming(b)' = Naming(b)
    BY <1>0, <1>5 DEF Naming
  <2>2. Naming(b) \subseteq Nat
    BY <1>0, <1>3
  <2>3. /\ FirstStated(Naming(b), Families') = FirstStated(Naming(b), Families)
        /\ FirstStated(Naming(b), Weights') = FirstStated(Naming(b), Weights)
    BY <1>1, <1>3, <2>2, FirstSame
  <2>4. /\ FirstStated(Naming(b), Families)' = FirstStated(Naming(b)', Families')
        /\ FirstStated(Naming(b), Weights)' = FirstStated(Naming(b)', Weights')
    BY DEF FirstStated
  <2> QED BY <2>1, <2>3, <2>4
<1>6. ASSUME NEW s
      PROVE  FirstStated(Landed, Schools(s))'
               = Coalesce(FirstStated(Landed, Schools(s)), Schools(s)'[k])
  <2>1. FirstStated(Landed \cup {k}, Schools(s)')
          = Coalesce(FirstStated(Landed, Schools(s)), Schools(s)'[k])
    <3>1. Follows(Landed, Schools(s), k, Schools(s)')
      BY <1>0, <1>2 DEF Follows
    <3> QED BY <3>1, FirstNext
  <2>2. FirstStated(Landed, Schools(s))' = FirstStated(Landed', Schools(s)')
    BY <1>0 DEF FirstStated
  <2> QED BY <1>0, <2>1, <2>2
<1> QED BY <1>4, <1>5, <1>6

(* In a reply brought to the keys a spell has one row. *)
LEMMA SpellsApart ==
    ASSUME RepliesInv, NEW i \in Items, normalized[i] # {}
    PROVE  \A x, y \in ToSet(Reply(i).spells) : Canonical(x.name) = Canonical(y.name) => x = y
<1>1. PICK m \in normalized[i] : m \in NormalizedItem /\ Reply(i) = Dedupe(m)
  BY ReplyIsDeduped
<1>2. DedupesTo(m, Reply(i))
  BY <1>1, DedupeLists
<1>3. PICK u : u = Reply(i).spells
  OBVIOUS
<1>4. u \in Seq(SpellRow)
  BY <1>2, <1>3 DEF DedupesTo, NormalizedItem
<1>5. \A p, q \in DOMAIN u :
         p < q => CanonicalName(SpellRow)[u[p]] # CanonicalName(SpellRow)[u[q]]
  BY <1>2, <1>3 DEF DedupesTo, Deduped
<1>6. \A p \in DOMAIN u : u[p] \in SpellRow /\ p \in Nat
  BY <1>4
<1>7. \A p \in DOMAIN u : CanonicalName(SpellRow)[u[p]] = Canonical(u[p].name)
  BY <1>6 DEF CanonicalName
<1>8. ASSUME NEW p \in DOMAIN u, NEW q \in DOMAIN u, Canonical(u[p].name) = Canonical(u[q].name)
      PROVE  u[p] = u[q]
  <2>1. ~(p < q) /\ ~(q < p)
    BY <1>5, <1>7, <1>8
  <2> QED BY <1>6, <2>1
<1> QED BY <1>3, <1>8 DEF ToSet

(* The reference rows a commit adds. *)
LEMMA AddedReferences ==
    ASSUME Known, phase \in InTxn
    PROVE  /\ Added("spell") = {SpellStatement(x).row : x \in ToSet(Reply(k).spells)}
           /\ Added("attunerKind") = {AttunerKindStatement(x).row : x \in ToSet(Reply(k).attuners)}
<1>1. /\ \A c : Added(c) = StatementRows(c, Script)
      /\ ToSet(Script) = AllChildren(NextId(db), Reply(k))
  BY AddedRows, ScriptStretch DEF Known
<1>2. \A c : Added(c) = {s.row : s \in {x \in AllChildren(NextId(db), Reply(k)) : x.table = c}}
  BY <1>1 DEF StatementRows
<1>3. {s \in AllChildren(NextId(db), Reply(k)) : s.table = "spell"} = Spells(Reply(k))
  BY StatementTables DEF AllChildren
<1>4. {s \in AllChildren(NextId(db), Reply(k)) : s.table = "attunerKind"} = Kinds(Reply(k))
  BY StatementTables DEF AllChildren
<1>5. Added("spell") = {s.row : s \in Spells(Reply(k))}
  BY <1>2, <1>3
<1>6. Added("attunerKind") = {s.row : s \in Kinds(Reply(k))}
  BY <1>2, <1>4
<1> QED BY <1>5, <1>6 DEF Spells, Kinds

(* The school item k states for spell s. *)
LEMMA SchoolStated ==
    ASSUME Known, Commit, NEW s
    PROVE  /\ \A r \in Added("spell") : r.name = s => Schools(s)'[k] = r.school
           /\ s \notin NamesOf(Added("spell")) => Schools(s)'[k] = {}
<1>0. PICK n : n = k
  OBVIOUS
<1>1. phase \in InTxn /\ n \in Landed' /\ Reply(n)' = Reply(n)
  BY <1>0, LandedBefore
<1>2. k \in Items /\ normalized[k] # {}
  BY <1>1, OpenAnswered DEF Known
<1>3. PICK S : S = ToSet(Reply(k).spells)
  OBVIOUS
<1>4. /\ \A x, y \in S : Canonical(x.name) = Canonical(y.name) => x = y
      /\ Added("spell") = {SpellStatement(x).row : x \in S}
  BY <1>1, <1>2, <1>3, SpellsApart, AddedReferences DEF Known
<1>5. Schools(s)'[k] = {x.school : x \in {y \in S : Canonical(y.name) = s /\ y.school # ""}}
  BY <1>0, <1>1, <1>3 DEF Schools
<1>6. ASSUME NEW x \in S, Canonical(x.name) = s PROVE Schools(s)'[k] = EnumPtr(x.school)
  <2>1. \A y \in S : Canonical(y.name) = s => y = x
    BY <1>4, <1>6
  <2>2. CASE x.school = ""
    <3>1. {y \in S : Canonical(y.name) = s /\ y.school # ""} = {}
      BY <2>1, <2>2
    <3> QED BY <1>5, <2>2, <3>1 DEF EnumPtr
  <2>3. CASE x.school # ""
    <3>1. {y \in S : Canonical(y.name) = s /\ y.school # ""} = {x}
      BY <1>6, <2>1, <2>3
    <3> QED BY <1>5, <2>3, <3>1 DEF EnumPtr
  <2> QED BY <2>2, <2>3
<1>7. \A x : SpellStatement(x).row.name = Canonical(x.name) /\ SpellStatement(x).row.school = EnumPtr(x.school)
  BY DEF SpellStatement, Statement
<1>8. ASSUME NEW r \in Added("spell"), r.name = s PROVE Schools(s)'[k] = r.school
  <2>1. PICK x \in S : r = SpellStatement(x).row
    BY <1>4
  <2> QED BY <1>6, <1>7, <1>8, <2>1
<1>9. ASSUME s \notin NamesOf(Added("spell")) PROVE Schools(s)'[k] = {}
  <2>1. \A x \in S : Canonical(x.name) # s
    BY <1>4, <1>7, <1>9 DEF NamesOf
  <2>2. {y \in S : Canonical(y.name) = s /\ y.school # ""} = {}
    BY <2>1
  <2> QED BY <1>5, <2>2
<1> QED BY <1>8, <1>9

(* Commit keeps the spells: the school said first stays.                   *)
LEMMA CommitSpells ==
    ASSUME Known, OpenInv, SpellsFirst, Commit
    PROVE  SpellsFirst'
<1>0. /\ Landed' = Landed \cup {k} /\ (\A i : Reply(i)' = Reply(i)) /\ phase \in InRun /\ phase \in InTxn
      /\ SpellsGrown(db'.spell, db, Added("spell"))
  BY LandedBefore, CommitTables DEF Committed
<1>1. DOMAIN db'.spell = DOMAIN db.spell \cup NamesOf(Added("spell"))
  BY <1>0 DEF SpellsGrown
<1>2. ASSUME NEW i \in Landed', NEW x \in ToSet(Reply(i).spells)
      PROVE  Canonical(x.name) \in DOMAIN db'.spell
  <2>1. CASE i \in Landed
    BY <1>0, <1>1, <1>2, <2>1 DEF SpellsFirst
  <2>2. CASE i = k
    <3>1. SpellStatement(x).row \in Added("spell") /\ SpellStatement(x).row.name = Canonical(x.name)
      BY <1>0, <1>2, <2>2, AddedReferences DEF SpellStatement, Statement
    <3> QED BY <1>1, <3>1 DEF NamesOf
  <2> QED BY <1>0, <2>1, <2>2
<1>3. ASSUME NEW s \in DOMAIN db'.spell
      PROVE  db'.spell[s] = Coalesce(FirstStated(Landed, Schools(s)), Schools(s)'[k])
  <2>1. s \in DOMAIN db.spell => db.spell[s] = FirstStated(Landed, Schools(s))
    BY <1>0 DEF SpellsFirst
  <2>2. s \notin DOMAIN db.spell => FirstStated(Landed, Schools(s)) = {}
    <3> SUFFICES ASSUME s \notin DOMAIN db.spell PROVE FirstStated(Landed, Schools(s)) = {}
      OBVIOUS
    <3>1. \A i \in Landed : \A x \in ToSet(Reply(i).spells) : Canonical(x.name) # s
      BY <1>0 DEF SpellsFirst
    <3>2. \A i \in Landed : Schools(s)[i] = {}
      BY <3>1 DEF Schools
    <3> QED BY <3>2, FirstNone
  <2>3. CASE s \in NamesOf(Added("spell"))
    <3>1. PICK r \in Added("spell") : r.name = s
      BY <2>3 DEF NamesOf
    <3>2. Schools(s)'[k] = r.school /\ db'.spell[s] = MergedSpell(db, r)
      BY <1>0, <3>1, SchoolStated DEF SpellsGrown
    <3> QED BY <2>1, <2>2, <3>1, <3>2 DEF MergedSpell, Coalesce
  <2>4. CASE s \notin NamesOf(Added("spell"))
    <3>1. Schools(s)'[k] = {} /\ s \in DOMAIN db.spell /\ db'.spell[s] = db.spell[s]
      BY <1>0, <1>1, <2>4, SchoolStated DEF SpellsGrown
    <3> QED BY <2>1, <3>1 DEF Coalesce
  <2> QED BY <2>3, <2>4
<1>4. \A s \in DOMAIN db'.spell : db'.spell[s] = FirstStated(Landed, Schools(s))'
  BY <1>3, StatedNext
<1>5. \A i \in Landed' : \A x \in ToSet(Reply(i)'.spells) : Canonical(x.name) \in DOMAIN db'.spell
  BY <1>0, <1>2
<1> QED BY <1>4, <1>5 DEF SpellsFirst

(* Commit keeps the base items: families and weights said first stay.      *)
LEMMA CommitBases ==
    ASSUME Known, OpenInv, BasesFirst, Commit
    PROVE  BasesFirst'
<1>0. /\ Landed' = Landed \cup {k} /\ (\A i : Reply(i)' = Reply(i)) /\ phase \in InRun
      /\ db'.baseItem = IF Reply(k).applicability # "specific" THEN db.baseItem
                        ELSE LET b == BaseItemStatement(Reply(k)).row
                             IN  Put(db.baseItem, b.name, MergedBaseItem(db, b))
  BY LandedBefore, CommitTables DEF Committed
<1>1. PICK row : row = BaseItemStatement(Reply(k)).row
  OBVIOUS
<1>2. /\ row.name = Canonical(Reply(k).baseItemName)
      /\ row.family = EnumPtr(Reply(k).baseItemWeaponFamily)
      /\ row.weight = EnumPtr(Reply(k).baseItemArmorWeight)
  BY <1>1 DEF BaseItemStatement, Statement
<1>3. CASE Reply(k).applicability # "specific"
  <2>1. db'.baseItem = db.baseItem
    BY <1>0, <1>3
  <2>2. \A b : /\ FirstStated(Naming(b), Families)' = FirstStated(Naming(b), Families)
               /\ FirstStated(Naming(b), Weights)' = FirstStated(Naming(b), Weights)
    BY <1>3, StatedNext
  <2>3. \A i \in Landed' : Reply(i)'.applicability = "specific"
                              => Canonical(Reply(i)'.baseItemName) \in DOMAIN db'.baseItem
    BY <1>0, <1>3, <2>1 DEF BasesFirst
  <2> QED BY <1>0, <2>1, <2>2, <2>3 DEF BasesFirst
<1>4. CASE Reply(k).applicability = "specific"
  <2>1. db'.baseItem = Put(db.baseItem, row.name, MergedBaseItem(db, row))
    BY <1>0, <1>1, <1>4
  <2>2. /\ DOMAIN db'.baseItem = DOMAIN db.baseItem \cup {row.name}
        /\ db'.baseItem[row.name] = MergedBaseItem(db, row)
        /\ \A b \in DOMAIN db.baseItem \ {row.name} : db'.baseItem[b] = db.baseItem[b]
    BY <2>1 DEF Put
  <2>3. \A i \in Landed' : Reply(i)'.applicability = "specific"
                              => Canonical(Reply(i)'.baseItemName) \in DOMAIN db'.baseItem
    BY <1>0, <1>2, <2>2 DEF BasesFirst
  <2>4. ASSUME NEW b \in DOMAIN db'.baseItem, b # row.name
        PROVE  /\ db'.baseItem[b].family = FirstStated(Naming(b), Families)'
               /\ db'.baseItem[b].weight = FirstStated(Naming(b), Weights)'
    <3>1. b \in DOMAIN db.baseItem /\ db'.baseItem[b] = db.baseItem[b]
      BY <2>2, <2>4
    <3>2. /\ FirstStated(Naming(b), Families)' = FirstStated(Naming(b), Families)
          /\ FirstStated(Naming(b), Weights)' = FirstStated(Naming(b), Weights)
      BY <1>2, <2>4, StatedNext
    <3> QED BY <1>0, <3>1, <3>2 DEF BasesFirst
  <2>5. /\ FirstStated(Naming(row.name), Families)'
             = Coalesce(FirstStated(Naming(row.name), Families), row.family)
        /\ FirstStated(Naming(row.name), Weights)'
             = Coalesce(FirstStated(Naming(row.name), Weights), row.weight)
    BY <1>2, <1>4, StatedNext
  <2>6. /\ MergedBaseItem(db, row).family = FirstStated(Naming(row.name), Families)'
        /\ MergedBaseItem(db, row).weight = FirstStated(Naming(row.name), Weights)'
    <3>1. CASE row.name \in DOMAIN db.baseItem
      <4>1. /\ MergedBaseItem(db, row).family = Coalesce(db.baseItem[row.name].family, row.family)
            /\ MergedBaseItem(db, row).weight = Coalesce(db.baseItem[row.name].weight, row.weight)
        BY <3>1 DEF MergedBaseItem
      <4> QED BY <1>0, <2>5, <3>1, <4>1 DEF BasesFirst
    <3>2. CASE row.name \notin DOMAIN db.baseItem
      <4>1. Naming(row.name) = {}
        BY <1>0, <3>2 DEF Naming, BasesFirst
      <4>2. FirstStated(Naming(row.name), Families) = {} /\ FirstStated(Naming(row.name), Weights) = {}
        BY <4>1, FirstNone
      <4>3. MergedBaseItem(db, row).family = row.family /\ MergedBaseItem(db, row).weight = row.weight
        BY <3>2 DEF MergedBaseItem
      <4> QED BY <2>5, <4>2, <4>3 DEF Coalesce
    <3> QED BY <3>1, <3>2
  <2>7. \A b \in DOMAIN db'.baseItem :
           /\ db'.baseItem[b].family = FirstStated(Naming(b), Families)'
           /\ db'.baseItem[b].weight = FirstStated(Naming(b), Weights)'
    BY <2>2, <2>4, <2>6
  <2> QED BY <2>3, <2>7 DEF BasesFirst
<1> QED BY <1>3, <1>4

(* An attuner kind is what the last item that names it says.               *)
LastNaming(a, i) ==
    /\ i \in Landed /\ a \in Named(i) /\ \A j \in Landed : a \in Named(j) => j <= i
    /\ \E x \in ToSet(Reply(i).attuners) : Canonical(x.name) = a /\ x.kind = db.attunerKind[a]
KindsLast == phase \in InRun => \A a \in DOMAIN db.attunerKind : \E i : LastNaming(a, i)

(* Commit keeps the attuner kinds: the kind said last stays.               *)
LEMMA CommitKinds ==
    ASSUME Known, OpenInv, KindsLast, Commit
    PROVE  KindsLast'
<1>0. /\ Landed' = Landed \cup {k} /\ (\A i : Reply(i)' = Reply(i)) /\ phase \in InRun /\ phase \in InTxn
      /\ KindsGrown(db'.attunerKind, db, Added("attunerKind"))
      /\ k \in Nat /\ Landed \subseteq Nat /\ \A i \in Landed : i < k
  BY LandedBefore, CommitTables DEF Committed
<1>1. \A i : Named(i)' = Named(i)
  BY <1>0 DEF Named
<1>2. PICK n : n = k
  OBVIOUS
<1>3. Added("attunerKind") = {AttunerKindStatement(x).row : x \in ToSet(Reply(n).attuners)}
  BY <1>0, <1>2, AddedReferences
<1>4. \A x : AttunerKindStatement(x).row.name = Canonical(x.name) /\ AttunerKindStatement(x).row.kind = x.kind
  BY DEF AttunerKindStatement, Statement
<1>5. NamesOf(Added("attunerKind")) = Named(n)
  BY <1>3, <1>4 DEF NamesOf, Named
<1>6. ASSUME NEW a \in DOMAIN db'.attunerKind PROVE \E i : LastNaming(a, i)'
  <2>1. CASE a \in Named(n)
    <3>1. PICK x \in ToSet(Reply(n).attuners) : AttunerKindStatement(x).row \in Added("attunerKind")
                                                /\ Canonical(x.name) = a
      BY <1>3, <2>1 DEF Named
    <3>2. db'.attunerKind[a] = x.kind
      BY <1>0, <1>4, <3>1 DEF KindsGrown
    <3>3. \A j \in Landed' : j <= n
      BY <1>0, <1>2
    <3>4. n \in Landed' /\ a \in Named(n)' /\ Reply(n)' = Reply(n)
      BY <1>0, <1>1, <1>2, <2>1
    <3>5. LastNaming(a, n)'
      BY <3>1, <3>2, <3>3, <3>4 DEF LastNaming
    <3> QED BY <3>5
  <2>2. CASE a \notin Named(n)
    <3>1. a \in DOMAIN db.attunerKind /\ db'.attunerKind[a] = db.attunerKind[a]
      BY <1>0, <1>5, <2>2 DEF KindsGrown
    <3>2. PICK i : LastNaming(a, i)
      BY <1>0, <3>1 DEF KindsLast
    <3>3. i \in Landed' /\ a \in Named(i)' /\ Reply(i)' = Reply(i)
      BY <1>0, <1>1, <3>2 DEF LastNaming
    <3>4. \A j \in Landed' : a \in Named(j)' => j <= i
      BY <1>0, <1>1, <1>2, <2>2, <3>2 DEF LastNaming
    <3>5. LastNaming(a, i)'
      BY <3>1, <3>2, <3>3, <3>4 DEF LastNaming
    <3> QED BY <3>5
  <2> QED BY <2>1, <2>2
<1> QED BY <1>6 DEF KindsLast

SharedInv == BasesFirst /\ SpellsFirst /\ KindsLast

(* The shared rows, whatever the step.                                     *)
LEMMA SharedStep == Known /\ OpenInv /\ TablesInv /\ SharedInv /\ [Next]_vars => SharedInv'
<1> SUFFICES ASSUME Known, OpenInv, TablesInv, SharedInv, [Next]_vars PROVE SharedInv'
  OBVIOUS
<1>0. IInv /\ RepliesInv /\ PositionInv
  BY DEF Known, IInv
<1>1. CASE Start \/ Gone \/ Wipe
  <2>1. phase' \notin InRun
    BY <1>1 DEF Start, Gone, Fatal, Crash, Wipe, InRun, Before, InTxn, After
  <2> QED BY <2>1 DEF SharedInv, BasesFirst, SpellsFirst, KindsLast
<1>2. CASE Provision
  <2>1. (db = EmptyCatalog)'
    BY <1>2 DEF Provision, TablesInv, Blank
  <2>2. /\ Landed' = {} /\ DOMAIN db'.baseItem = {} /\ DOMAIN db'.spell = {}
        /\ DOMAIN db'.attunerKind = {}
    BY <2>1 DEF EmptyCatalog, Landed
  <2> QED BY <2>2 DEF SharedInv, BasesFirst, SpellsFirst, KindsLast
<1>3. ASSUME UNCHANGED db, \A i \in Landed : Reply(i)' = Reply(i), phase' \in InRun => phase \in InRun
      PROVE  SharedInv'
  <2>1. /\ Landed' = Landed
        /\ \A b : FirstStated(Naming(b), Families)' = FirstStated(Naming(b), Families)
        /\ \A b : FirstStated(Naming(b), Weights)' = FirstStated(Naming(b), Weights)
        /\ \A s : FirstStated(Landed, Schools(s))' = FirstStated(Landed, Schools(s))
    BY <1>0, <1>3, SaidSame
  <2>2. BasesFirst'
    BY <1>3, <2>1 DEF SharedInv, BasesFirst
  <2>3. SpellsFirst'
    BY <1>3, <2>1 DEF SharedInv, SpellsFirst
  <2>4. \A i \in Landed : Named(i)' = Named(i)
    BY <1>3 DEF Named
  <2>5. \A a, i : LastNaming(a, i) => LastNaming(a, i)'
    BY <1>3, <2>1, <2>4 DEF LastNaming
  <2>6. KindsLast'
    BY <1>3, <2>5 DEF SharedInv, KindsLast
  <2> QED BY <2>2, <2>3, <2>6 DEF SharedInv
<1>4. CASE Quiet
  <2>1. UNCHANGED db /\ phase \in InRun
    BY <1>0, <1>4, QuietStep
  <2>2. \A i \in Landed : Reply(i)' = Reply(i)
    BY <1>0, <1>4, <2>1, SaidStays
  <2> QED BY <1>3, <2>1, <2>2
<1>5. CASE Commit
  BY <1>5, CommitBases, CommitSpells, CommitKinds DEF SharedInv
<1>6. CASE UNCHANGED vars
  <2>1. UNCHANGED <<db, phase, normalized>>
    BY <1>6 DEF vars, durable, outcomes
  <2> QED BY <1>3, <2>1 DEF Reply
<1> QED BY <1>1, <1>2, <1>4, <1>5, <1>6, StepKinds

(* What items state together about the rows they share.                    *)
THEOREM SharedHold == Spec => []SharedInv
<1>1. Init => SharedInv
  BY DEF Init, SharedInv, BasesFirst, SpellsFirst, KindsLast, InRun, Before, InTxn, After
<1>2. IInv /\ RepliesInv /\ ScriptInv <=> Known
  BY DEF Known
<1> QED
  BY <1>1, <1>2, SharedStep, InvariantHolds, RepliesHold, ScriptHolds, TablesHold, PTL DEF Spec

(* Facets stick once curated: family, weight and school are those of the   *)
(* first committed item in survey order that states one, whatever was      *)
(* refused and however the replies were ordered.                           *)
THEOREM FacetsStick == Spec => []FirstStatedWins
<1>1. SharedInv => FirstStatedWins
  BY DEF SharedInv, BasesFirst, SpellsFirst, FirstStatedWins, InRun, After
<1> QED BY <1>1, SharedHold, PTL

(* An attuner's taxonomy is what the last item that names it says.         *)
THEOREM LastKindWins == Spec => []LatestKindWins
<1>1. IInv /\ SharedInv => LatestKindWins
  <2> SUFFICES ASSUME IInv, SharedInv, Loaded, NEW a \in DOMAIN db.attunerKind
               PROVE  LET last == Max({i \in Landed : a \in Named(i)})
                      IN  \E x \in ToSet(Reply(last).attuners) :
                             Canonical(x.name) = a /\ x.kind = db.attunerKind[a]
    BY DEF LatestKindWins
  <2>1. PICK i : LastNaming(a, i)
    BY DEF Loaded, SharedInv, KindsLast, InRun, After
  <2> DEFINE S == {j \in Landed : a \in Named(j)}
  <2>2. Landed \subseteq Nat
    BY DEF IInv, CatalogInv, Landed, Items
  <2>3. i \in S /\ \A j \in S : i >= j
    BY <2>1, <2>2 DEF LastNaming
  <2>4. \A m : m \in S /\ (\A j \in S : m >= j) => m = i
    BY <2>2, <2>3
  <2>5. Max(S) = i
    BY <2>3, <2>4 DEF Max
  <2> QED BY <2>1, <2>5 DEF LastNaming
<1> QED BY <1>1, InvariantHolds, SharedHold, PTL
-----------------------------------------------------------------------------
(* What the reads of Browse return.                                        *)

(* The rows of a whole item, child table by child table.                   *)
LEMMA WholeRows ==
    ASSUME IInv, RepliesInv, TablesInv, phase \in InRun, NEW r \in db.item
    PROVE  /\ r = ItemRow(r.id, r.src, Survey[r.src], Reply(r.src))
           /\ \A c \in ChildTables :
                 RowsOf(db, c, r.id) = {s.row : s \in {x \in AllChildren(r.id, Reply(r.src)) : x.table = c}}
<1>1. Whole(r) /\ r.src \in Landed
  BY DEF TablesInv, AllWhole, Landed
<1>2. r.src \in Items /\ normalized[r.src] # {}
  BY <1>1, LandedAnswered
<1>3. PICK m \in NormalizedItem : Reply(r.src) = Dedupe(m)
  BY <1>2, ReplyIsDeduped
<1>4. PICK n : n = Reply(r.src)
  OBVIOUS
<1>5. Stretch(n, ChildStatements(r.id, n), AllChildren(r.id, n))
  BY <1>3, <1>4, ChildStretch
<1>6. \A c : StatementRows(c, ChildStatements(r.id, n))
               = {s.row : s \in {x \in AllChildren(r.id, n) : x.table = c}}
  BY <1>5 DEF Stretch, StatementRows
<1> QED BY <1>1, <1>4, <1>6 DEF Whole

(* Of those, the allowlist and the tags.                                   *)
LEMMA AllowlistSaid ==
    ASSUME IInv, RepliesInv, TablesInv, phase \in InRun, NEW r \in db.item
    PROVE  Allowlist(db, r) = {AllowlistStatement(r.id, a).row : a \in ToSet(Reply(r.src).attuners)}
<1> DEFINE n == Reply(r.src)
<1>1. Allowlist(db, r) = {s.row : s \in {x \in AllChildren(r.id, n) : x.table = "allowlist"}}
  BY WholeRows DEF Allowlist, RowsOf, ChildTables
<1>2. \A x : x \in AllChildren(r.id, n) /\ x.table = "allowlist" <=> x \in Allows(r.id, n)
  BY StatementTables DEF AllChildren
<1>3. {x \in AllChildren(r.id, n) : x.table = "allowlist"} = Allows(r.id, n)
  BY <1>2
<1> QED BY <1>1, <1>3 DEF Allows

(* An item has the effect tags its reply says.                             *)
LEMMA TagsSaid ==
    ASSUME IInv, RepliesInv, TablesInv, phase \in InRun, NEW r \in db.item
    PROVE  RowsOf(db, "effect", r.id) = {EffectStatement(r.id, e).row : e \in ToSet(Reply(r.src).effects)}
<1> DEFINE n == Reply(r.src)
<1>1. RowsOf(db, "effect", r.id) = {s.row : s \in {x \in AllChildren(r.id, n) : x.table = "effect"}}
  BY WholeRows DEF ChildTables
<1>2. \A x : x \in AllChildren(r.id, n) /\ x.table = "effect" <=> x \in Tags(r.id, n)
  BY StatementTables DEF AllChildren
<1>3. {x \in AllChildren(r.id, n) : x.table = "effect"} = Tags(r.id, n)
  BY <1>2
<1> QED BY <1>1, <1>3 DEF Tags

(* Who may attune an item is what the model said of it, for every floor of *)
(* rarity and every kind of attuner: the allowlist survives spelling,      *)
(* Dedupe, the shared attuner kinds and the joins.                         *)
THEOREM AttunersAreThoseSaid == Spec => []AttunableAsSaid
<1>1. IInv /\ RepliesInv /\ TablesInv => AttunableAsSaid
  <2> SUFFICES ASSUME IInv, RepliesInv, TablesInv, Loaded, NEW floor \in Rarities, NEW who \in Names
               PROVE  Sources(ItemsAttunableBy(db, floor, who)) =
                        {i \in Landed : /\ Reply(i).rarity # "" /\ Rank(Reply(i).rarity) >= Rank(floor)
                                        /\ \/ ~Reply(i).requiresAttunement
                                           \/ Named(i) = {} \/ who \in Named(i)}
    BY DEF AttunableAsSaid
  <2>1. phase \in InRun
    BY DEF Loaded, InRun, After
  <2> DEFINE Fits(i) == /\ Reply(i).rarity # "" /\ Rank(Reply(i).rarity) >= Rank(floor)
                        /\ \/ ~Reply(i).requiresAttunement
                           \/ Named(i) = {} \/ who \in Named(i)
  <2>2. ASSUME NEW r \in db.item
        PROVE  AtLeast(r.rarity, floor) /\ MayAttune(db, r, who) <=> Fits(r.src)
    <3>1. PICK n : n = Reply(r.src)
      OBVIOUS
    <3>2. r = ItemRow(r.id, r.src, Survey[r.src], n)
      BY <2>1, <3>1, WholeRows
    <3>3. r.rarity = EnumPtr(n.rarity) /\ r.requiresAttunement = n.requiresAttunement
      BY <3>2 DEF ItemRow
    <3>4. AtLeast(r.rarity, floor) <=> n.rarity # "" /\ Rank(n.rarity) >= Rank(floor)
      BY <3>3 DEF AtLeast, EnumPtr
    <3>5. Allowlist(db, r) = {AllowlistStatement(r.id, a).row : a \in ToSet(n.attuners)}
      BY <2>1, <3>1, AllowlistSaid
    <3>6. \A a : AllowlistStatement(r.id, a).row.kind = Canonical(a.name)
      BY DEF AllowlistStatement, Statement
    <3>7. Named(r.src) = {Canonical(a.name) : a \in ToSet(n.attuners)}
      BY <3>1 DEF Named
    <3>8. Allowlist(db, r) = {} <=> Named(r.src) = {}
      BY <3>5, <3>7
    <3>9. (\E a \in Allowlist(db, r) : a.kind = who) <=> who \in Named(r.src)
      BY <3>5, <3>6, <3>7
    <3>10. MayAttune(db, r, who) <=>
              ~n.requiresAttunement \/ Named(r.src) = {} \/ who \in Named(r.src)
      BY <3>3, <3>8, <3>9 DEF MayAttune
    <3> QED BY <3>1, <3>4, <3>10
  <2> HIDE DEF Fits
  <2>3. Sources(ItemsAttunableBy(db, floor, who)) = {i \in Landed : Fits(i)}
    BY <2>2 DEF Sources, ItemsAttunableBy, Landed
  <2> QED BY <2>3 DEF Fits
<1> QED BY <1>1, InvariantHolds, RepliesHold, TablesHold, PTL

(* An item has at most one reply, kept or collected.                       *)
OneReply ==
    \A i \in Items : /\ \A m, n \in normalized[i] : m = n
                     /\ \A m, n \in cache[i] : m = n

(* A reply is collected once, and kept once.                               *)
LEMMA OneReplyStep == IInv /\ OneReply /\ [Next]_vars => OneReply'
<1> SUFFICES ASSUME IInv, OneReply, [Next]_vars PROVE OneReply'
  OBVIOUS
<1> USE DEF files, durable, flags, outcomes, tx, tally
<1>0. /\ cache \in [Items -> SUBSET UNION {Replies[i] : i \in Items}]
      /\ normalized \in [Items -> SUBSET UNION {Replies[i] : i \in Items}]
      /\ Taken \subseteq Items
  BY ItemsTaken DEF IInv, TypeOK
<1>1. ASSUME UNCHANGED <<cache, normalized>> PROVE OneReply'
  BY <1>1 DEF OneReply
<1>2. ASSUME FreshMemory, \A i \in Items : cache'[i] \subseteq cache[i] PROVE OneReply'
  BY <1>0, <1>2 DEF OneReply, FreshMemory
<1>3. CASE Start \/ Wipe \/ Fatal
  BY <1>2, <1>3 DEF Start, Wipe, Fatal, Forget
<1>4. CASE Crash
  BY <1>2, <1>4 DEF Crash, Forget
<1>5. ASSUME NEW i \in Taken, CacheHit(i) PROVE OneReply'
  BY <1>0, <1>5 DEF CacheHit, Collected, OneReply
<1>6. ASSUME NEW i \in Taken, LiveReply(i) PROVE OneReply'
  BY <1>0, <1>6 DEF LiveReply, Collected, OneReply
<1>7. ASSUME NEW i \in Taken, LiveError(i) PROVE OneReply'
  BY <1>0, <1>7 DEF LiveError, OneReply
<1>8. CASE Provision \/ LoadSurvey \/ EndNormalize \/ SkipFailed \/ RejectInvalid \/ Begin
           \/ UpsertBaseItem \/ InsertItem \/ InsertChild \/ InsertFails
  BY <1>1, <1>8 DEF Provision, LoadSurvey, EndNormalize, SkipFailed, RejectInvalid, Begin,
                    UpsertBaseItem, InsertItem, InsertChild, InsertFails
<1>9. CASE Commit \/ Acknowledge \/ EndLoad \/ WriteReport \/ WriteQuarantine \/ Verdict
           \/ UNCHANGED vars
  BY <1>1, <1>9 DEF Commit, Acknowledge, EndLoad, WriteReport, WriteQuarantine, Verdict, vars
<1> QED BY <1>3, <1>4, <1>5, <1>6, <1>7, <1>8, <1>9 DEF Next, Work, Alone

(* An item never has two replies.                                          *)
LEMMA OneReplyHolds == Spec => []OneReply
<1>1. Init => OneReply
  BY DEF Init, OneReply
<1> QED BY <1>1, OneReplyStep, InvariantHolds, PTL DEF Spec
-----------------------------------------------------------------------------
(* Counting a finite set class by class counts all of it.                  *)
SizesOf(h, T, g) ==
    /\ DOMAIN h = {g[x] : x \in T}
    /\ \A c \in DOMAIN h : h[c] = Cardinality({x \in T : g[x] = c})

(* A finite set falls into finitely many classes.                          *)
LEMMA FiniteClasses ==
    ASSUME NEW T, IsFiniteSet(T), NEW g, DOMAIN g = T
    PROVE  IsFiniteSet({g[x] : x \in T})
<1> DEFINE V == {g[x] : x \in T}
           f == [x \in T |-> g[x]]
<1>1. f \in Surjection(T, V)
  BY DEF Surjection
<1> QED BY <1>1, FS_Surjection

(* The sizes of the classes add up to the size of the set.                 *)
LEMMA SumOfSizes ==
    ASSUME NEW T, IsFiniteSet(T), NEW g, DOMAIN g = T, NEW h, SizesOf(h, T, g)
    PROVE  MapThenSumSet(LAMBDA c : h[c], DOMAIN h) = Cardinality(T)
<1> DEFINE D == DOMAIN h
           Class(s) == {x \in T : g[x] \in s}
           Unfolds(f) == f = [s \in SUBSET D |->
                                IF s = {} THEN 0
                                ELSE h[CHOOSE x \in s : TRUE] + f[s \ {CHOOSE x \in s : TRUE}]]
           sizes == [s \in SUBSET D |-> Cardinality(Class(s))]
<1>1. IsFiniteSet(D) /\ \A s \in SUBSET D : IsFiniteSet(s)
  BY FiniteClasses, FS_Subset DEF SizesOf
<1>2. \A s : IsFiniteSet(Class(s)) /\ Cardinality(Class(s)) \in Nat
  <2> SUFFICES ASSUME NEW s PROVE IsFiniteSet(Class(s)) /\ Cardinality(Class(s)) \in Nat
    OBVIOUS
  <2>1. Class(s) \in SUBSET T
    OBVIOUS
  <2> QED BY <2>1, FS_Subset, FS_CardinalityType
<1>3. ASSUME NEW s \in SUBSET D, NEW x \in s
      PROVE  Cardinality(Class(s)) = h[x] + Cardinality(Class(s \ {x}))
  <2> DEFINE A == {y \in T : g[y] = x}
             B == Class(s \ {x})
  <2>1. Class(s) = A \cup B /\ A \cap B = {}
    OBVIOUS
  <2>2. A = Class({x})
    OBVIOUS
  <2>3. IsFiniteSet(A) /\ IsFiniteSet(B) /\ Cardinality(A) \in Nat /\ Cardinality(B) \in Nat
    BY <1>2, <2>2
  <2>4. Cardinality(A \cup B) = Cardinality(A) + Cardinality(B) - Cardinality(A \cap B)
    BY <2>3, FS_Union
  <2>5. h[x] = Cardinality(A)
    BY DEF SizesOf
  <2>6. Cardinality(A \cap B) = 0
    BY <2>1, FS_EmptySet
  <2>7. Cardinality(Class(s)) = Cardinality(A \cup B)
    BY <2>1
  <2> HIDE DEF A, B
  <2>8. Cardinality(Class(s)) = Cardinality(A) + Cardinality(B)
    BY <2>3, <2>4, <2>6, <2>7
  <2> QED BY <2>5, <2>8 DEF B
<1>4. Unfolds(sizes)
  <2>1. ASSUME NEW s \in SUBSET D
        PROVE  sizes[s] = IF s = {} THEN 0
                          ELSE h[CHOOSE x \in s : TRUE] + sizes[s \ {CHOOSE x \in s : TRUE}]
    <3>1. CASE s = {}
      <4>1. Class(s) = {}
        BY <3>1
      <4> QED BY <3>1, <4>1, FS_EmptySet
    <3>2. CASE s # {}
      <4>1. PICK x : x = CHOOSE y \in s : TRUE
        OBVIOUS
      <4>2. x \in s /\ s \ {x} \in SUBSET D
        BY <3>2, <4>1
      <4>3. Cardinality(Class(s)) = h[x] + Cardinality(Class(s \ {x}))
        BY <1>3, <4>2
      <4> QED BY <3>2, <4>1, <4>2, <4>3
    <3> QED BY <3>1, <3>2
  <2> QED BY <2>1
<1>5. MapThenSumSet(LAMBDA c : h[c], D) = (CHOOSE f : Unfolds(f))[D]
  BY DEF MapThenSumSet, MapThenFoldSet
<1>6. PICK f : f = CHOOSE r : Unfolds(r)
  OBVIOUS
<1>7. Unfolds(f)
  <2> HIDE DEF Unfolds, sizes
  <2> QED BY <1>4, <1>6
<1>8. \A s \in SUBSET D : f[s] = Cardinality(Class(s))
  <2> DEFINE S == {n \in Nat : \A s \in SUBSET D : Cardinality(s) = n => f[s] = Cardinality(Class(s))}
  <2>1. 0 \in S
    <3> SUFFICES ASSUME NEW s \in SUBSET D, Cardinality(s) = 0 PROVE f[s] = Cardinality(Class(s))
      OBVIOUS
    <3>1. s = {}
      BY <1>1, FS_EmptySet
    <3>2. Class(s) = {}
      BY <3>1
    <3> QED BY <1>7, <3>1, <3>2, FS_EmptySet
  <2>2. ASSUME NEW n \in Nat, n \in S PROVE n + 1 \in S
    <3> SUFFICES ASSUME NEW s \in SUBSET D, Cardinality(s) = n + 1 PROVE f[s] = Cardinality(Class(s))
      OBVIOUS
    <3>1. s # {}
      BY FS_EmptySet
    <3>2. PICK x : x = CHOOSE y \in s : TRUE
      OBVIOUS
    <3>3. x \in s /\ s \ {x} \in SUBSET D
      BY <3>1, <3>2
    <3>4. Cardinality(s \ {x}) = n
      <4>1. Cardinality(s \ {x}) = Cardinality(s) - 1
        BY <1>1, <3>3, FS_RemoveElement
      <4> QED BY <4>1
    <3>5. f[s \ {x}] = Cardinality(Class(s \ {x}))
      BY <2>2, <3>3, <3>4
    <3>6. f[s] = h[x] + f[s \ {x}]
      BY <1>7, <3>1, <3>2
    <3> QED BY <1>3, <3>3, <3>5, <3>6
  <2>3. Nat \subseteq S
    <3> HIDE DEF S
    <3> QED BY <2>1, <2>2, SetInduction
  <2> SUFFICES ASSUME NEW s \in SUBSET D PROVE f[s] = Cardinality(Class(s))
    OBVIOUS
  <2>4. Cardinality(s) \in Nat
    BY <1>1, FS_CardinalityType
  <2> QED BY <2>3, <2>4
<1>9. Class(D) = T
  BY DEF SizesOf
<1> QED BY <1>5, <1>6, <1>8, <1>9
-----------------------------------------------------------------------------
(* Every item is found under each effect the model gave it and no other,   *)
(* and under its slot; the categories count every item that landed.        *)
THEOREM ItemsAreFoundAsSaid == Spec => []FoundAsSaid
<1>1. IInv /\ RepliesInv /\ OneReply /\ TablesInv => FoundAsSaid
  <2> SUFFICES ASSUME IInv, RepliesInv, OneReply, TablesInv, Loaded PROVE FoundAsSaid
    BY DEF FoundAsSaid
  <2>1. phase \in InRun
    BY DEF Loaded, InRun, After
  <2>2. ASSUME NEW e \in Effects
        PROVE  Sources(ItemsWithEffect(db, e)) =
                 {i \in Landed : \E n \in normalized[i] : \E x \in ToSet(n.effects) : x.category = e}
    <3>1. ASSUME NEW r \in db.item
          PROVE  (\E x \in db.effect : x.item = r.id /\ x.effect = e)
                   <=> \E n \in normalized[r.src] : \E x \in ToSet(n.effects) : x.category = e
      <4>1. r.src \in Landed /\ r.src \in Items /\ normalized[r.src] # {}
        BY <2>1, LandedAnswered DEF Landed
      <4>2. PICK m \in normalized[r.src] : m \in NormalizedItem /\ Reply(r.src) = Dedupe(m)
        BY <4>1, ReplyIsDeduped
      <4>3. \A n \in normalized[r.src] : n = m
        BY <4>1, <4>2 DEF OneReply
      <4>4. PICK d : d = Reply(r.src)
        OBVIOUS
      <4>5. {x.category : x \in ToSet(d.effects)} = {x.category : x \in ToSet(m.effects)}
        BY <4>2, <4>4, DedupeLists DEF DedupesTo
      <4>6. RowsOf(db, "effect", r.id) = {EffectStatement(r.id, x).row : x \in ToSet(d.effects)}
        BY <2>1, <4>4, TagsSaid
      <4>7. \A x : EffectStatement(r.id, x).row.effect = x.category
        BY DEF EffectStatement, Statement
      <4>8. (\E x \in db.effect : x.item = r.id /\ x.effect = e)
              <=> \E y \in RowsOf(db, "effect", r.id) : y.effect = e
        BY DEF RowsOf
      <4>9. (\E y \in RowsOf(db, "effect", r.id) : y.effect = e)
              <=> e \in {x.category : x \in ToSet(d.effects)}
        BY <4>6, <4>7
      <4>10. e \in {x.category : x \in ToSet(m.effects)} <=> \E x \in ToSet(m.effects) : x.category = e
        OBVIOUS
      <4> QED BY <4>2, <4>3, <4>5, <4>8, <4>9, <4>10
    <3> QED BY <3>1 DEF Sources, ItemsWithEffect, Landed
  <2>3. ASSUME NEW slot \in WornSlots
        PROVE  Sources(ItemsForSlot(db, slot)) = {i \in Landed : Reply(i).wornSlot = slot}
    <3>1. ASSUME NEW r \in db.item PROVE r.wornSlot = {slot} <=> Reply(r.src).wornSlot = slot
      <4>1. r.wornSlot = EnumPtr(Reply(r.src).wornSlot)
        BY <2>1, WholeRows DEF ItemRow
      <4>2. slot # ""
        BY DEF WornSlots, Wielded
      <4> QED BY <4>1, <4>2 DEF EnumPtr
    <3> QED BY <3>1 DEF Sources, ItemsForSlot, Landed
  <2>4. MapThenSumSet(LAMBDA c : CountItemsByCategory(db)[c], DOMAIN CountItemsByCategory(db))
          = Cardinality(Landed)
    <3>1. PICK T : T = db.item
      OBVIOUS
    <3>2. IsFiniteSet(T)
      BY <3>1 DEF IInv, CatalogInv
    <3>3. PICK h : h = CountItemsByCategory(db)
      OBVIOUS
    <3> DEFINE g == [r \in T |-> r.category]
    <3>4. DOMAIN g = T /\ SizesOf(h, T, g)
      BY <3>1, <3>3 DEF CountItemsByCategory, SizesOf
    <3>5. MapThenSumSet(LAMBDA c : h[c], DOMAIN h) = Cardinality(T)
      <4> HIDE DEF g
      <4> QED BY <3>2, <3>4, SumOfSizes
    <3>6. MapThenSumSet(LAMBDA c : CountItemsByCategory(db)[c], DOMAIN CountItemsByCategory(db))
            = Cardinality(T)
      BY <3>3, <3>5 DEF MapThenSumSet, MapThenFoldSet
    <3> QED BY <3>1, <3>6, LandedSize
  <2> QED BY <2>2, <2>3, <2>4 DEF FoundAsSaid
<1> QED BY <1>1, InvariantHolds, RepliesHold, OneReplyHolds, TablesHold, PTL
=============================================================================
