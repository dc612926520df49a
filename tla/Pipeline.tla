------------------------------ MODULE Pipeline ------------------------------
(***************************************************************************)
(* The commands together, over the one workspace and the one database they *)
(* share: cmd/discover and any number of cmd/extract at once, cmd/verify,  *)
(* and docker compose.  What a command does by itself is in the modules    *)
(* Discover, Provision and Extract, whose results are steps here: Apply is *)
(* one step because it is one transaction whose CREATE statements exclude  *)
(* those of another (AllOrNothing), an item is one step because it is one  *)
(* transaction (WholeItems).  A survey is the set of the items it found.   *)
(***************************************************************************)
EXTENDS Integers, FiniteSets

CONSTANTS
    Extracts,     \* the processes that run cmd/extract
    Slices,       \* what a cmd/discover over some pages may find
    Whole,        \* what Pass A over the whole PDF finds
    MaxRuns       \* bound on how often cmd/extract is started

Surveys == Slices \cup {Whole}

ASSUME PipelineAssumption ==
    /\ \A s \in Surveys : IsFiniteSet(s)
    /\ MaxRuns \in Nat

VARIABLES
    up,         \* the server runs
    schema,     \* {} or {the run that provisioned the database}
    rows,       \* the committed items, with the run that inserted them
    artifact,   \* items.json: {}, or {what it holds}
    saving,     \* discover is writing items.json: {} or {the items}
    verified,   \* what cmd/verify said of this database
    runs,       \* how often cmd/extract has been started
    id,         \* which of the runs a process is
    phase,      \* where it is, or how its last run ended
    took,       \* the survey it works on
    left,       \* the items it has still to load
    inserted,   \* how many it counts as inserted
    overrun     \* history: runs whose database was reset under them

database == <<up, schema, rows>>
workspace == <<artifact, saving>>
process == <<runs, id, phase, took, left, inserted>>
vars == <<database, workspace, verified, process, overrun>>

Parsing(items) == [parses |-> TRUE, items |-> items]
Torn == [parses |-> FALSE, items |-> {}]

Ended == {"off", "reconciled", "mismatch", "unreadable", "dead"}
Running(e) == phase[e] \notin Ended
At(e, p) == phase[e] = p
Go(e, p) == phase' = [phase EXCEPT ![e] = p]

Init ==
    /\ up = FALSE /\ schema = {} /\ rows = {}
    /\ artifact \in {{}} \cup {{Parsing(s)} : s \in Surveys}
    /\ saving = {} /\ verified = "never" /\ runs = 0
    /\ id = [e \in Extracts |-> 0]
    /\ phase = [e \in Extracts |-> "off"]
    /\ took = [e \in Extracts |-> {}]
    /\ left = [e \in Extracts |-> {}]
    /\ inserted = [e \in Extracts |-> 0]
    /\ overrun = {}
-----------------------------------------------------------------------------
(* docker compose, and the other commands.                                 *)

Up ==
    /\ ~up
    /\ up' = TRUE
    /\ UNCHANGED <<schema, rows, workspace, verified, process, overrun>>

(* docker compose down -v: the volume goes with the server. *)
DownV ==
    /\ up
    /\ up' = FALSE /\ schema' = {} /\ rows' = {} /\ verified' = "never"
    /\ overrun' = overrun \cup {id[e] : e \in {x \in Extracts : Running(x) /\ schema = {id[x]}}}
    /\ UNCHANGED <<workspace, process>>

(* cmd/verify pings, and does nothing else. *)
Verify ==
    /\ verified' = IF up THEN "ready" ELSE "unreachable"
    /\ UNCHANGED <<database, workspace, process, overrun>>

(* os.WriteFile truncates, then writes from the start over what another    *)
(* writer may have put there: a longer text's tail is left behind.         *)
Truncated == artifact' = {Torn}

Overwritten(items) ==
    artifact' = IF \E a \in artifact : Cardinality(a.items) > Cardinality(items)
                THEN {Torn} ELSE {Parsing(items)}

DiscoverOpens ==
    /\ saving = {}
    /\ \E s \in Surveys : saving' = {s}
    /\ Truncated
    /\ UNCHANGED <<database, verified, process, overrun>>

DiscoverWrites ==
    /\ \E s \in saving : Overwritten(s)
    /\ saving' = {}
    /\ UNCHANGED <<database, verified, process, overrun>>

DiscoverDies ==
    /\ saving # {}
    /\ saving' = {}
    /\ UNCHANGED <<database, artifact, verified, process, overrun>>

(* "Remove the survey artifact" (README.md). *)
Remove ==
    /\ artifact # {} /\ saving = {}
    /\ artifact' = {}
    /\ UNCHANGED <<database, saving, verified, process, overrun>>
-----------------------------------------------------------------------------
(* Plausible bugs, used only to show that the properties notice them: the  *)
(* schema files say "if not exists"; the error of the parser is ignored.   *)

ProvisionAgain(e) ==
    /\ At(e, "provisioning") /\ up
    /\ schema' = IF schema = {} THEN {id[e]} ELSE schema
    /\ Go(e, "surveying")
    /\ UNCHANGED <<up, rows, workspace, verified, runs, id, took, left, inserted, overrun>>

ReadSurveyUnchecked(e) ==
    /\ At(e, "surveying")
    /\ \E a \in artifact :
          /\ took' = [took EXCEPT ![e] = a.items] /\ left' = [left EXCEPT ![e] = a.items]
          /\ Go(e, "loading")
    /\ UNCHANGED <<database, workspace, verified, runs, id, inserted, overrun>>

-----------------------------------------------------------------------------
(* cmd/extract.                                                            *)

Start(e) ==
    /\ ~Running(e)
    /\ runs < MaxRuns
    /\ runs' = runs + 1
    /\ id' = [id EXCEPT ![e] = runs + 1]
    /\ took' = [took EXCEPT ![e] = {}]
    /\ left' = [left EXCEPT ![e] = {}]
    /\ inserted' = [inserted EXCEPT ![e] = 0]
    /\ Go(e, "provisioning")
    /\ UNCHANGED <<database, workspace, verified, overrun>>

Provision(e) ==
    /\ At(e, "provisioning")
    /\ up /\ schema = {}
    /\ schema' = {id[e]}
    /\ Go(e, "surveying")
    /\ UNCHANGED <<up, rows, workspace, verified, runs, id, took, left, inserted, overrun>>

(* EnsureSurvey finds items.json, and loads it as it is or refuses it. *)
ReadSurvey(e) ==
    /\ At(e, "surveying")
    /\ \E a \in artifact :
          /\ Go(e, IF a.parses THEN "loading" ELSE "unreadable")
          /\ took' = [took EXCEPT ![e] = a.items]
          /\ left' = [left EXCEPT ![e] = a.items]
    /\ UNCHANGED <<database, workspace, verified, runs, id, inserted, overrun>>

(* It finds none, reads the whole PDF, and saves what it found. *)
ReadPages(e) ==
    /\ At(e, "surveying")
    /\ artifact = {}
    /\ took' = [took EXCEPT ![e] = Whole]
    /\ Go(e, "surveyed")
    /\ UNCHANGED <<database, workspace, verified, runs, id, left, inserted, overrun>>

OpenArtifact(e) ==
    /\ At(e, "surveyed")
    /\ Truncated
    /\ Go(e, "saving")
    /\ UNCHANGED <<database, saving, verified, runs, id, took, left, inserted, overrun>>

SaveSurvey(e) ==
    /\ At(e, "saving")
    /\ Overwritten(took[e])
    /\ left' = [left EXCEPT ![e] = took[e]]
    /\ Go(e, "loading")
    /\ UNCHANGED <<database, saving, verified, runs, id, took, inserted, overrun>>

(* The load loop takes one item after the other; which is the next makes   *)
(* no difference here.  Its transaction commits in whatever database the   *)
(* server has now.                                                         *)
Insert(e) ==
    /\ At(e, "loading")
    /\ up /\ schema # {}
    /\ \E i \in left[e] :
          /\ rows' = rows \cup {[item |-> i, run |-> id[e]]}
          /\ left' = [left EXCEPT ![e] = @ \ {i}]
    /\ inserted' = [inserted EXCEPT ![e] = @ + 1]
    /\ UNCHANGED <<up, schema, workspace, verified, runs, id, phase, took, overrun>>

(* Or it fails: the reply, a constraint, the connection, a missing table.  *)
Quarantine(e) ==
    /\ At(e, "loading")
    /\ \E i \in left[e] : left' = [left EXCEPT ![e] = @ \ {i}]
    /\ UNCHANGED <<database, workspace, verified, runs, id, phase, took, inserted, overrun>>

(* The last check: the items the database counts are those inserted. *)
Verdict(e) ==
    /\ At(e, "loading") /\ left[e] = {}
    /\ up /\ schema # {}
    /\ Go(e, IF Cardinality(rows) = inserted[e] THEN "reconciled" ELSE "mismatch")
    /\ UNCHANGED <<database, workspace, verified, runs, id, took, left, inserted, overrun>>

(* fatal: a step before or after the load loop fails; or the run is killed. *)
Dies(e) ==
    /\ Running(e)
    /\ Go(e, "dead")
    /\ UNCHANGED <<database, workspace, verified, runs, id, took, left, inserted, overrun>>

Extract(e) ==
    \/ Start(e) \/ Provision(e) \/ ReadSurvey(e) \/ ReadPages(e) \/ OpenArtifact(e)
    \/ SaveSurvey(e) \/ Insert(e) \/ Quarantine(e) \/ Verdict(e) \/ Dies(e)

Next ==
    \/ Up \/ DownV \/ Verify
    \/ DiscoverOpens \/ DiscoverWrites \/ DiscoverDies \/ Remove
    \/ \E e \in Extracts : Extract(e)

Spec == Init /\ [][Next]_vars
-----------------------------------------------------------------------------

(* However many extracts run at once, are killed and run again, the rows of *)
(* a database are those of the run that provisioned it; except for a run    *)
(* whose own database was reset while it was under way (which SETUP.md:17   *)
(* says to do "at any time"): it goes on in the next one.                   *)
OneLoader == \A r \in rows : schema = {r.run} \/ r.run \in overrun

(* A run that exits reconciled leaves a database that holds its rows and    *)
(* no others, of a survey that somebody completed, whoever was rewriting    *)
(* items.json when it was read; unless a reset overran it or another.       *)
Reconciles(e) == ~At(e, "reconciled") /\ At(e, "reconciled")'

ReconciledIsTrue ==
    [][\A e \in Extracts : Reconciles(e) =>
          /\ took[e] \in Surveys
          /\ id[e] \notin overrun =>
                \A r \in rows : r.run \in overrun \/ (r.run = id[e] /\ r.item \in took[e])]_vars
=============================================================================
