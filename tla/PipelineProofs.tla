--------------------------- MODULE PipelineProofs ---------------------------
(***************************************************************************)
(* The commands together, for any number of extracts, surveys and items:   *)
(* one run loads a database, and a run that reconciles has loaded it with  *)
(* the items of one completed survey.                                      *)
(*                                                                         *)
(* The invariant: a run that got past db.Apply owns the schema or has been *)
(* overrun by a reset; no two runs under way are the same run; a run that  *)
(* does not load yet has no rows; and what parses in items.json, or is on  *)
(* its way there, is a survey.                                             *)
(***************************************************************************)
EXTENDS Pipeline, TLAPS

Phases == Ended \cup {"provisioning", "surveying", "surveyed", "saving", "loading"}
Working(e) == Running(e) /\ phase[e] # "provisioning"

Shape ==
    /\ runs \in Nat
    /\ id \in [Extracts -> 0..runs]
    /\ phase \in [Extracts -> Phases]
    /\ DOMAIN took = Extracts /\ DOMAIN left = Extracts
    /\ \A e \in Extracts : phase[e] = "off" \/ id[e] > 0
    /\ \A r \in rows : r.run \in 1..runs

Apart == \A e, f \in Extracts : e # f /\ Running(e) /\ Running(f) => id[e] # id[f]

Owned == \A e \in Extracts : Working(e) => schema = {id[e]} \/ id[e] \in overrun

Saved ==
    /\ \A a \in artifact : a.parses => a.items \in Surveys
    /\ saving \subseteq Surveys

Taken == \A e \in Extracts :
    /\ phase[e] \in {"surveyed", "saving", "loading"} => took[e] \in Surveys
    /\ phase[e] = "loading" => left[e] \subseteq took[e]

Own == \A e \in Extracts, r \in rows :
    Running(e) /\ r.run = id[e] => phase[e] = "loading" /\ r.item \in took[e]

IInv == Shape /\ Apart /\ Owned /\ OneLoader /\ Saved /\ Taken /\ Own

LEMMA InitIInv == Init => IInv
  BY DEF Init, IInv, Shape, Apart, Owned, OneLoader, Saved, Taken, Own, Working, Running, Ended,
         Phases, Parsing

(* What anybody writes to items.json is a survey or does not parse.        *)
LEMMA WritesSurveys ==
    ASSUME Saved, Truncated \/ \E s \in Surveys : Overwritten(s)
    PROVE  \A a \in artifact' : a.parses => a.items \in Surveys
  BY DEF Truncated, Overwritten, Parsing, Torn

LEMMA StepIInv == IInv /\ [Next]_vars => IInv'
<1> SUFFICES ASSUME IInv, [Next]_vars PROVE IInv'
  OBVIOUS
<1> USE DEF database, workspace, process
<1>1. CASE Up \/ Verify \/ UNCHANGED vars
  BY <1>1 DEF Up, Verify, vars, IInv, Shape, Apart, Owned, OneLoader, Saved, Taken, Own, Working,
              Running
<1>2. CASE DownV
  <2>1. Owned'
    BY <1>2 DEF DownV, IInv, Owned, Working, Running
  <2> QED BY <1>2, <2>1 DEF DownV, IInv, Shape, Apart, OneLoader, Saved, Taken, Own, Running
<1>3. CASE DiscoverOpens \/ DiscoverWrites \/ DiscoverDies \/ Remove
  <2>1. Saved'
    BY <1>3, WritesSurveys
       DEF DiscoverOpens, DiscoverWrites, DiscoverDies, Remove, IInv, Saved
  <2> QED BY <1>3, <2>1 DEF DiscoverOpens, DiscoverWrites, DiscoverDies, Remove, IInv, Shape, Apart,
                            Owned, OneLoader, Taken, Own, Working, Running
<1>4. ASSUME NEW e \in Extracts, Start(e) PROVE IInv'
  <2>1. /\ runs' = runs + 1 /\ id' = [id EXCEPT ![e] = runs + 1]
        /\ phase' = [phase EXCEPT ![e] = "provisioning"]
        /\ UNCHANGED <<rows, schema, overrun, artifact, saving>>
    BY <1>4 DEF Start, Go
  <2>2. /\ id'[e] = runs + 1 /\ phase'[e] = "provisioning"
        /\ \A f \in Extracts : f # e => id'[f] = id[f] /\ phase'[f] = phase[f]
    BY <2>1 DEF IInv, Shape
  <2>3. Shape'
    BY <1>4, <2>1 DEF Start, IInv, Shape, Phases
  <2>4. Apart'
    BY <2>2 DEF IInv, Shape, Apart, Running
  <2>5. Owned'
    BY <2>1, <2>2 DEF IInv, Owned, Working, Running
  <2>6. Taken'
    BY <1>4, <2>2 DEF Start, IInv, Shape, Taken
  <2>7. Own'
    BY <1>4, <2>1, <2>2 DEF Start, IInv, Shape, Own, Running
  <2> QED BY <2>1, <2>3, <2>4, <2>5, <2>6, <2>7 DEF IInv, OneLoader, Saved
<1>5. ASSUME NEW e \in Extracts, Provision(e) PROVE IInv'
  <2>1. /\ schema = {} /\ schema' = {id[e]} /\ phase[e] = "provisioning"
        /\ phase' = [phase EXCEPT ![e] = "surveying"]
        /\ UNCHANGED <<rows, overrun, artifact, saving, runs, id, took, left>>
    BY <1>5 DEF Provision, At, Go
  <2>2. phase'[e] = "surveying" /\ \A f \in Extracts : f # e => phase'[f] = phase[f]
    BY <2>1 DEF IInv, Shape
  <2>3. Shape'
    BY <2>1 DEF IInv, Shape, Phases
  <2>4. Apart'
    BY <2>1, <2>2 DEF IInv, Apart, Running, Ended
  <2>5. Owned'
    BY <2>1, <2>2 DEF IInv, Owned, Working, Running, Ended
  <2>6. OneLoader'
    BY <2>1 DEF IInv, OneLoader
  <2>7. Taken' /\ Own'
    BY <2>1, <2>2 DEF IInv, Taken, Own, Running, Ended
  <2> QED BY <2>1, <2>3, <2>4, <2>5, <2>6, <2>7 DEF IInv, Saved
<1>6. ASSUME NEW e \in Extracts,
             ReadSurvey(e) \/ ReadPages(e) \/ OpenArtifact(e) \/ SaveSurvey(e) PROVE IInv'
  <2>1. PICK p \in Phases :
           /\ p \in {"loading", "unreadable", "surveyed", "saving"}
           /\ phase' = [phase EXCEPT ![e] = p]
    BY <1>6 DEF ReadSurvey, ReadPages, OpenArtifact, SaveSurvey, Go, Phases, Ended
  <2>2. phase'[e] = p /\ \A f \in Extracts : f # e => phase'[f] = phase[f]
    BY <2>1 DEF IInv, Shape
  <2>3. phase[e] \in {"surveying", "surveyed", "saving"}
    BY <1>6 DEF ReadSurvey, ReadPages, OpenArtifact, SaveSurvey, At
  <2>4. UNCHANGED <<runs, id, schema, rows, overrun, saving>>
    BY <1>6 DEF ReadSurvey, ReadPages, OpenArtifact, SaveSurvey
  <2>5. /\ DOMAIN took' = Extracts /\ DOMAIN left' = Extracts
        /\ \A f \in Extracts : f # e => took'[f] = took[f] /\ left'[f] = left[f]
    BY <1>6 DEF ReadSurvey, ReadPages, OpenArtifact, SaveSurvey, IInv, Shape
  <2>6. Shape'
    BY <2>1, <2>2, <2>3, <2>4, <2>5 DEF IInv, Shape
  <2>7. Running(e) /\ Working(e)
    BY <2>3 DEF Running, Working, Ended
  <2>8. Apart'
    BY <2>2, <2>4, <2>7 DEF IInv, Apart, Running
  <2>9. Owned' /\ OneLoader'
    BY <2>2, <2>4, <2>7 DEF IInv, Owned, OneLoader, Working, Running
  <2>10. Saved'
    <3>1. CASE ReadSurvey(e) \/ ReadPages(e)
      BY <3>1 DEF ReadSurvey, ReadPages, IInv, Saved
    <3>2. CASE OpenArtifact(e)
      BY <3>2, WritesSurveys DEF OpenArtifact, IInv, Saved
    <3>3. CASE SaveSurvey(e)
      BY <3>3, WritesSurveys DEF SaveSurvey, At, IInv, Saved, Taken
    <3> QED BY <1>6, <3>1, <3>2, <3>3
  <2>11. Taken'
    <3>1. phase'[e] \in {"surveyed", "saving", "loading"} => took'[e] \in Surveys
      BY <1>6 DEF ReadSurvey, ReadPages, OpenArtifact, SaveSurvey, At, Go, IInv, Shape, Saved, Taken,
                  Surveys
    <3>2. phase'[e] = "loading" => left'[e] \subseteq took'[e]
      BY <1>6 DEF ReadSurvey, ReadPages, OpenArtifact, SaveSurvey, At, Go, IInv, Shape
    <3> QED BY <2>2, <2>5, <3>1, <3>2 DEF IInv, Taken
  <2>12. Own'
    <3>1. \A r \in rows : r.run # id[e]
      BY <2>3, <2>7 DEF IInv, Own
    <3> QED BY <2>2, <2>4, <2>5, <3>1 DEF IInv, Own, Running
  <2> QED BY <2>6, <2>8, <2>9, <2>10, <2>11, <2>12 DEF IInv
<1>7. ASSUME NEW e \in Extracts, Insert(e) PROVE IInv'
  <2>1. PICK i \in left[e] :
           /\ rows' = rows \cup {[item |-> i, run |-> id[e]]}
           /\ left' = [left EXCEPT ![e] = left[e] \ {i}]
    BY <1>7 DEF Insert
  <2>2. phase[e] = "loading" /\ UNCHANGED <<schema, artifact, saving, runs, id, phase, took, overrun>>
    BY <1>7 DEF Insert, At
  <2>3. i \in took[e] /\ Working(e)
    BY <2>1, <2>2 DEF IInv, Taken, Working, Running, Ended
  <2>4. schema = {id[e]} \/ id[e] \in overrun
    BY <2>3 DEF IInv, Owned
  <2>5. id[e] \in 1..runs
    BY <1>7, <2>4, <2>2 DEF Insert, IInv, Shape
  <2>6. Shape'
    BY <2>1, <2>2, <2>5 DEF IInv, Shape
  <2>7. Own'
    BY <2>1, <2>2, <2>3 DEF IInv, Own, Apart, Working, Running
  <2>8. Taken'
    BY <2>1, <2>2 DEF IInv, Shape, Taken
  <2> QED BY <2>1, <2>2, <2>4, <2>6, <2>7, <2>8
          DEF IInv, Apart, Owned, OneLoader, Saved, Working, Running
<1>8. ASSUME NEW e \in Extracts, Quarantine(e) PROVE IInv'
  <2>1. Taken' /\ Shape'
    BY <1>8 DEF Quarantine, IInv, Shape, Taken
  <2> QED BY <1>8, <2>1 DEF Quarantine, IInv, Apart, Owned, OneLoader, Saved, Own, Working, Running
<1>9. ASSUME NEW e \in Extracts, Verdict(e) \/ Dies(e) PROVE IInv'
  <2>1. PICK p \in Ended : phase' = [phase EXCEPT ![e] = p]
    BY <1>9 DEF Verdict, Dies, Go, Ended
  <2>2. UNCHANGED <<schema, rows, artifact, saving, runs, id, took, left, overrun>>
    BY <1>9 DEF Verdict, Dies
  <2>3. phase'[e] = p /\ \A f \in Extracts : f # e => phase'[f] = phase[f]
    BY <2>1 DEF IInv, Shape
  <2>4. Shape'
    <3>1. phase[e] # "off"
      BY <1>9 DEF Verdict, Dies, At, Running, Ended
    <3> QED BY <2>1, <2>2, <2>3, <3>1 DEF IInv, Shape, Phases
  <2>5. Apart' /\ Owned' /\ Own'
    BY <2>2, <2>3 DEF IInv, Apart, Owned, Own, Working, Running
  <2>6. Taken'
    BY <2>2, <2>3 DEF IInv, Taken, Ended
  <2> QED BY <2>2, <2>4, <2>5, <2>6 DEF IInv, OneLoader, Saved
<1> QED BY <1>1, <1>2, <1>3, <1>4, <1>5, <1>6, <1>7, <1>8, <1>9 DEF Next, Extract

LEMMA InvariantHolds == Spec => []IInv
<1> QED BY InitIInv, StepIInv, PTL DEF Spec

(* The rows of a database are those of the run that provisioned it, and of *)
(* runs whose own database was reset under them, however many extracts     *)
(* run, are killed and are started again.                                  *)
THEOREM OneRunLoads == Spec => []OneLoader
<1>1. IInv => OneLoader
  BY DEF IInv
<1> QED BY <1>1, InvariantHolds, PTL

(* Only the last check of a run reconciles it, with its own rows there.    *)
LEMMA VerdictIsTrue ==
    ASSUME IInv, Next, NEW e \in Extracts, Reconciles(e)
    PROVE  /\ took[e] \in Surveys
           /\ id[e] \notin overrun =>
                 \A r \in rows : r.run \in overrun \/ (r.run = id[e] /\ r.item \in took[e])
<1>1. phase[e] # "reconciled" /\ phase'[e] = "reconciled"
  BY DEF Reconciles, At
<1>2. phase[e] = "loading"
  BY <1>1 DEF Next, Extract, Up, DownV, Verify, DiscoverOpens, DiscoverWrites, DiscoverDies, Remove,
              Start, Provision, ReadSurvey, ReadPages, OpenArtifact, SaveSurvey, Insert, Quarantine,
              Verdict, Dies, At, Go, workspace, process, IInv, Shape
<1>3. Running(e) /\ Working(e)
  BY <1>2 DEF Running, Working, Ended
<1>4. schema = {id[e]} \/ id[e] \in overrun
  BY <1>3 DEF IInv, Owned
<1> QED BY <1>2, <1>3, <1>4 DEF IInv, OneLoader, Taken, Own

(* A reconciled run has loaded, of a completed survey, all its database    *)
(* holds.                                                                  *)
THEOREM ReconciledRunsAreTrue == Spec => ReconciledIsTrue
<1>1. IInv /\ [Next]_vars
        => [\A e \in Extracts : Reconciles(e) =>
              /\ took[e] \in Surveys
              /\ id[e] \notin overrun =>
                    \A r \in rows : r.run \in overrun \/ (r.run = id[e] /\ r.item \in took[e])]_vars
  BY VerdictIsTrue
<1> QED BY <1>1, InvariantHolds, PTL DEF Spec, ReconciledIsTrue
=============================================================================
