----------------------------- MODULE Provision -----------------------------
(***************************************************************************)
(* db.Apply (db/db.go): the schema files are executed in one transaction,  *)
(* pass after pass over their sorted names, each once everything its       *)
(* "-- requires:" header names has been executed.  Every file creates      *)
(* objects, so on a provisioned database the first one fails.  Extract     *)
(* uses a call of Apply as one step, Provision.                            *)
(***************************************************************************)
EXTENDS Naturals, Sequences

CONSTANTS
    Files,      \* the stems of the *.sql files, in the order of their names
    Headers,    \* the headers the files may carry: the names each requires
    MaxRuns     \* bound on how often Apply is called

Stems == {Files[i] : i \in DOMAIN Files}

ASSUME ProvisionAssumption ==
    /\ Files \in Seq(Stems)
    /\ \A r \in Headers : DOMAIN r = Stems
    /\ MaxRuns \in Nat

VARIABLES
    requires,   \* the headers of this schema directory
    schema,     \* the files whose objects the database holds
    runs,       \* how often Apply has been called
    phase,      \* "applying", or how the last call returned
    applied,    \* the files executed in the open transaction
    at,         \* the file the pass is at
    progress    \* whether this pass has executed one

vars == <<requires, schema, runs, phase, applied, at, progress>>
pass == <<applied, at, progress>>

Running == phase = "applying"

Init ==
    /\ requires \in Headers
    /\ schema = {} /\ runs = 0 /\ phase = "off"
    /\ applied = {} /\ at = 1 /\ progress = FALSE

(* A header names only files that are there. *)
Known == \A f \in Stems : requires[f] \subseteq Stems

(* The loop is entered, or the schema directory is refused, or reading it  *)
(* or opening the transaction fails.                                       *)
Call ==
    /\ ~Running
    /\ runs < MaxRuns
    /\ runs' = runs + 1
    /\ phase' \in {"failed", IF Files # <<>> /\ Known THEN "applying" ELSE "refused"}
    /\ applied' = {} /\ at' = 1 /\ progress' = FALSE
    /\ UNCHANGED <<requires, schema>>
-----------------------------------------------------------------------------
(* Plausible bugs, used only to show that the properties notice them: one  *)
(* requirement is enough; each file commits by itself; one pass must do;   *)
(* progress is not reset; indices from zero.                               *)

ReadyAny(f) == requires[f] = {} \/ \E r \in requires[f] : r \in applied

ExecuteAutocommit ==
    /\ Running /\ at <= Len(Files) /\ Files[at] \notin applied
    /\ requires[Files[at]] \subseteq applied /\ Files[at] \notin schema
    /\ applied' = applied \cup {Files[at]} /\ schema' = schema \cup {Files[at]}
    /\ progress' = TRUE /\ at' = at + 1
    /\ UNCHANGED <<requires, runs, phase>>

CycleAfterOnePass ==
    /\ Running /\ at > Len(Files) /\ applied # Stems
    /\ phase' = "cycle" /\ applied' = {}
    /\ UNCHANGED <<requires, schema, runs, at, progress>>

NextPassKeepsProgress ==
    /\ Running /\ at > Len(Files) /\ progress /\ applied # Stems
    /\ at' = 1
    /\ UNCHANGED <<requires, schema, runs, phase, applied, progress>>

NextPassFromZero ==
    /\ Running /\ at > Len(Files) /\ progress /\ applied # Stems
    /\ at' = 0 /\ progress' = FALSE
    /\ UNCHANGED <<requires, schema, runs, phase, applied>>
-----------------------------------------------------------------------------

Ready(f) == requires[f] \subseteq applied

(* The pass is at a file it can execute. *)
Executable == at <= Len(Files) /\ Files[at] \notin applied /\ Ready(Files[at])

Skip ==
    /\ Running
    /\ at <= Len(Files)
    /\ Files[at] \in applied \/ ~Ready(Files[at])
    /\ at' = at + 1
    /\ UNCHANGED <<requires, schema, runs, phase, applied, progress>>

Execute ==
    /\ Running
    /\ Executable
    /\ Files[at] \notin schema
    /\ applied' = applied \cup {Files[at]}
    /\ progress' = TRUE
    /\ at' = at + 1
    /\ UNCHANGED <<requires, schema, runs, phase>>

(* The statement fails, on duplicate objects or otherwise: rollback.       *)
ExecuteFails ==
    /\ Running
    /\ Executable
    /\ phase' = "failed"
    /\ applied' = {}
    /\ UNCHANGED <<requires, schema, runs, at, progress>>

NextPass ==
    /\ Running
    /\ at > Len(Files)
    /\ progress
    /\ applied # Stems
    /\ at' = 1
    /\ progress' = FALSE
    /\ UNCHANGED <<requires, schema, runs, phase, applied>>

(* A pass without progress is reported as a dependency cycle. *)
Cycle ==
    /\ Running
    /\ at > Len(Files)
    /\ ~progress
    /\ phase' = "cycle"
    /\ applied' = {}
    /\ UNCHANGED <<requires, schema, runs, at, progress>>

Commit ==
    /\ Running
    /\ at > Len(Files)
    /\ applied = Stems
    /\ schema' = schema \cup applied
    /\ phase' = "provisioned"
    /\ UNCHANGED <<requires, runs, pass>>

(* The answer to the commit is lost: it took effect or it did not.         *)
CommitUnknown ==
    /\ Running
    /\ at > Len(Files)
    /\ applied = Stems
    /\ schema' \in {schema, schema \cup applied}
    /\ phase' = "failed"
    /\ applied' = {}
    /\ UNCHANGED <<requires, runs, at, progress>>

(* The process or its connection is gone: the server rolls back.           *)
Crash ==
    /\ Running
    /\ phase' = "crashed"
    /\ applied' = {}
    /\ UNCHANGED <<requires, schema, runs, at, progress>>

(* docker compose down -v.                                                 *)
Wipe ==
    /\ ~Running
    /\ schema # {}
    /\ schema' = {}
    /\ phase' = "off"
    /\ UNCHANGED <<requires, runs, pass>>

Work == Skip \/ Execute \/ ExecuteFails \/ NextPass \/ Cycle \/ Commit \/ CommitUnknown

Next == Call \/ Work \/ Crash \/ Wipe

Spec == Init /\ [][Next]_vars

(* Apply is a loop in one goroutine, and every statement returns.          *)
FairSpec == Spec /\ WF_vars(Work)
-----------------------------------------------------------------------------

TypeOK ==
    /\ requires \in Headers
    /\ schema \subseteq Stems
    /\ runs \in 0..MaxRuns
    /\ phase \in {"off", "applying", "refused", "failed", "cycle", "provisioned", "crashed"}
    /\ applied \subseteq Stems
    /\ at \in 1..(Len(Files) + 1)
    /\ progress \in BOOLEAN

(* "A file is applied only once every file it names has been applied"      *)
(* (db/db.go:40): at every moment what has been executed contains what it  *)
(* requires, so foreign keys see their parents.                            *)
DependenciesFirst == \A f \in applied : requires[f] \subseteq applied

(* Files that all require one another, directly or not: each of them has a *)
(* requirement among them.                                                 *)
Knot(S) == S # {} /\ \A f \in S : requires[f] \cap S # {}

(* Apply reports a cycle exactly when there is one: then a knot is in the  *)
(* headers, and a schema with a knot is never provisioned.                 *)
CycleMeansKnot ==
    /\ phase = "cycle" => \E S \in SUBSET Stems : Knot(S)
    /\ schema # {} => \A S \in SUBSET Stems : ~Knot(S)

(* One transaction: the database gets all of the schema or none of it, and *)
(* what it has is never added to or replaced, except by wiping it.         *)
AllOrNothing ==
    [][schema' # schema => \/ schema = {} /\ schema' = Stems
                           \/ ~Running /\ schema' = {}]_vars

(* A call returns: the passes do not go on for ever.                       *)
CallReturns == Running ~> ~Running
=============================================================================
