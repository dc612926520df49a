-------------------------- MODULE ProvisionProofs --------------------------
(***************************************************************************)
(* db.Apply for any number of schema files and any headers: files are      *)
(* executed after what they require, a cycle is reported exactly when the  *)
(* headers have one, and the database gets all of the schema or nothing.   *)
(*                                                                         *)
(* That a schema with a knot is never provisioned does not follow from     *)
(* DependenciesFirst, which a knot of executed files satisfies; the        *)
(* invariant says that what has been executed holds no knot.               *)
(***************************************************************************)
EXTENDS Provision, SequenceTheorems, TLAPS

NoKnotIn(T) == \A S \in SUBSET T : ~Knot(S)

(* What the loop knows while it runs. *)
PassInv ==
    Running =>
      /\ Known
      /\ ~progress => /\ applied # Stems
                      /\ \A i \in 1..(at - 1) : Files[i] \in applied \/ ~Ready(Files[i])

SchemaInv == schema # {} => schema = Stems /\ NoKnotIn(Stems)

CycleInv == phase = "cycle" => ~NoKnotIn(Stems)

IInv ==
    TypeOK /\ DependenciesFirst /\ NoKnotIn(applied) /\ PassInv /\ SchemaInv /\ CycleInv

LEMMA FilesFacts ==
    /\ Len(Files) \in Nat /\ DOMAIN Files = 1..Len(Files)
    /\ Stems = {Files[i] : i \in 1..Len(Files)}
    /\ Files # <<>> => Stems # {}
<1>1. Files \in Seq(Stems)
  BY ProvisionAssumption
<1>2. Len(Files) \in Nat /\ DOMAIN Files = 1..Len(Files)
  BY <1>1
<1>3. Files # <<>> => 1 \in DOMAIN Files
  BY <1>1
<1> QED BY <1>2, <1>3 DEF Stems

LEMMA FirstIndex == 1 \in 1..(Len(Files) + 1)
  BY FilesFacts

(* Executing a file whose requirements are met makes no knot. *)
LEMMA ExecuteMakesNoKnot ==
    ASSUME DependenciesFirst, NoKnotIn(applied), NEW f, f \notin applied, requires[f] \subseteq applied
    PROVE  NoKnotIn(applied \cup {f})
<1> SUFFICES ASSUME NEW S \in SUBSET (applied \cup {f}), Knot(S) PROVE FALSE
  BY DEF NoKnotIn
<1>1. CASE f \notin S
  <2>1. S \in SUBSET applied
    BY <1>1
  <2> QED BY <2>1 DEF NoKnotIn
<1>2. CASE f \in S
  <2> DEFINE T == S \ {f}
  <2>1. T \in SUBSET applied
    OBVIOUS
  <2>2. T # {}
    <3>1. PICK g \in requires[f] : g \in S
      BY <1>2 DEF Knot
    <3> QED BY <3>1
  <2>3. \A h \in T : requires[h] \cap T # {}
    <3> SUFFICES ASSUME NEW h \in T PROVE requires[h] \cap T # {}
      OBVIOUS
    <3>1. requires[h] \subseteq applied
      BY <2>1 DEF DependenciesFirst
    <3>2. PICK g \in requires[h] : g \in S
      BY DEF Knot
    <3> QED BY <3>1, <3>2
  <2>4. Knot(T)
    BY <2>2, <2>3 DEF Knot
  <2> QED BY <2>1, <2>4 DEF NoKnotIn
<1> QED BY <1>1, <1>2

(* A pass without progress leaves files that wait for one another. *)
LEMMA StuckPassHasKnot ==
    ASSUME IInv, Cycle
    PROVE  Knot(Stems \ applied)
<1>1. Known /\ applied # Stems /\ applied \subseteq Stems
      /\ \A i \in 1..(at - 1) : Files[i] \in applied \/ ~Ready(Files[i])
  BY DEF Cycle, Running, IInv, PassInv, TypeOK
<1>2. at - 1 = Len(Files)
  BY FilesFacts DEF Cycle, IInv, TypeOK
<1>3. \A f \in Stems \ applied : ~(requires[f] \subseteq applied) /\ requires[f] \subseteq Stems
  BY <1>1, <1>2, FilesFacts DEF Ready, Known
<1> QED BY <1>1, <1>3 DEF Knot
-----------------------------------------------------------------------------

LEMMA InitIInv == Init => IInv
<1> SUFFICES ASSUME Init PROVE IInv
  OBVIOUS
<1>1. TypeOK
  <2>1. at \in 1..(Len(Files) + 1)
    BY FirstIndex DEF Init
  <2>2. runs \in 0..MaxRuns
    BY ProvisionAssumption DEF Init
  <2>3. schema \subseteq Stems /\ applied \subseteq Stems /\ progress \in BOOLEAN
    BY DEF Init
  <2> QED BY <2>1, <2>2, <2>3 DEF Init, TypeOK
<1>2. NoKnotIn(applied)
  BY DEF Init, NoKnotIn, Knot
<1> QED BY <1>1, <1>2 DEF Init, IInv, DependenciesFirst, PassInv, SchemaInv, CycleInv, Running

LEMMA StepIInv == IInv /\ [Next]_vars => IInv'
<1> SUFFICES ASSUME IInv, [Next]_vars PROVE IInv'
  OBVIOUS
<1>0. /\ TypeOK /\ DependenciesFirst /\ NoKnotIn(applied) /\ PassInv /\ SchemaInv /\ CycleInv
      /\ Len(Files) \in Nat
  BY FilesFacts DEF IInv
<1>1. requires' = requires
  BY DEF Next, Work, Call, Skip, Execute, ExecuteFails, NextPass, Cycle, Commit, CommitUnknown,
         Crash, Wipe, vars
<1>2. \A T : NoKnotIn(T)' <=> \A S \in SUBSET T' : ~Knot(S)
  BY <1>1 DEF NoKnotIn, Knot
<1>3. NoKnotIn(Stems)' <=> NoKnotIn(Stems)
  BY <1>1 DEF NoKnotIn, Knot, Stems
<1>4. ASSUME applied' = {} PROVE DependenciesFirst' /\ NoKnotIn(applied)'
  BY <1>4 DEF DependenciesFirst, NoKnotIn, Knot
<1>5. ASSUME applied' = applied PROVE DependenciesFirst' /\ NoKnotIn(applied)'
  BY <1>0, <1>1, <1>5 DEF DependenciesFirst, NoKnotIn, Knot
<1>6. CASE Call
  <2>1. TypeOK'
    <3>1. runs' \in 0..MaxRuns
      BY <1>0, <1>6, ProvisionAssumption DEF Call, TypeOK
    <3>2. at' \in 1..(Len(Files) + 1)
      BY <1>6, FirstIndex DEF Call
    <3>3. applied' \subseteq Stems /\ progress' \in BOOLEAN
      BY <1>6 DEF Call
    <3> QED BY <1>0, <1>6, <3>1, <3>2, <3>3 DEF Call, TypeOK
  <2>2. PassInv'
    BY <1>1, <1>6, FilesFacts DEF Call, PassInv, Known, Running
  <2>3. SchemaInv' /\ CycleInv'
    BY <1>0, <1>3, <1>6 DEF Call, SchemaInv, CycleInv
  <2> QED BY <1>4, <1>6, <2>1, <2>2, <2>3 DEF Call, IInv
<1>7. CASE Skip
  <2>1. TypeOK'
    BY <1>0, <1>7 DEF Skip, TypeOK
  <2>2. PassInv'
    BY <1>0, <1>1, <1>7 DEF Skip, PassInv, Known, Ready, Running, TypeOK
  <2>3. SchemaInv' /\ CycleInv'
    BY <1>0, <1>3, <1>7 DEF Skip, SchemaInv, CycleInv
  <2> QED BY <1>5, <1>7, <2>1, <2>2, <2>3 DEF Skip, IInv
<1>8. CASE Execute
  <2>1. Files[at] \in Stems /\ Files[at] \notin applied /\ requires[Files[at]] \subseteq applied
        /\ applied' = applied \cup {Files[at]}
    BY <1>0, <1>8, FilesFacts DEF Execute, Executable, Ready, TypeOK
  <2>2. TypeOK'
    BY <1>0, <1>8, <2>1 DEF Execute, Executable, TypeOK
  <2>3. DependenciesFirst'
    BY <1>0, <1>1, <2>1 DEF DependenciesFirst
  <2>4. NoKnotIn(applied)'
    <3>1. NoKnotIn(applied \cup {Files[at]})
      BY <1>0, <2>1, ExecuteMakesNoKnot
    <3> QED BY <1>1, <2>1, <3>1 DEF NoKnotIn, Knot
  <2>5. PassInv'
    BY <1>0, <1>1, <1>8 DEF Execute, PassInv, Known, Running
  <2>6. SchemaInv' /\ CycleInv'
    BY <1>0, <1>3, <1>8 DEF Execute, SchemaInv, CycleInv
  <2> QED BY <2>2, <2>3, <2>4, <2>5, <2>6 DEF IInv
<1>9. ASSUME ExecuteFails \/ Crash PROVE IInv'
  <2>1. TypeOK'
    BY <1>0, <1>9 DEF ExecuteFails, Crash, TypeOK
  <2>2. PassInv' /\ SchemaInv' /\ CycleInv'
    BY <1>0, <1>3, <1>9 DEF ExecuteFails, Crash, PassInv, SchemaInv, CycleInv, Running
  <2> QED BY <1>4, <1>9, <2>1, <2>2 DEF ExecuteFails, Crash, IInv
<1>10. CASE NextPass
  <2>1. TypeOK'
    <3>1. at' \in 1..(Len(Files) + 1)
      BY <1>10, FirstIndex DEF NextPass
    <3>2. progress' \in BOOLEAN
      BY <1>10 DEF NextPass
    <3> QED BY <1>0, <1>10, <3>1, <3>2 DEF NextPass, TypeOK
  <2>2. PassInv'
    BY <1>0, <1>1, <1>10 DEF NextPass, PassInv, Known, Running
  <2>3. SchemaInv' /\ CycleInv'
    BY <1>0, <1>3, <1>10 DEF NextPass, SchemaInv, CycleInv
  <2> QED BY <1>5, <1>10, <2>1, <2>2, <2>3 DEF NextPass, IInv
<1>11. CASE Cycle
  <2>1. TypeOK'
    BY <1>0, <1>11 DEF Cycle, TypeOK
  <2>2. ~NoKnotIn(Stems)
    BY <1>11, StuckPassHasKnot DEF NoKnotIn
  <2>3. PassInv' /\ SchemaInv' /\ CycleInv'
    BY <1>0, <1>3, <1>11, <2>2 DEF Cycle, PassInv, SchemaInv, CycleInv, Running
  <2> QED BY <1>4, <1>11, <2>1, <2>3 DEF Cycle, IInv
<1>12. ASSUME Commit \/ CommitUnknown PROVE IInv'
  <2>1. applied = Stems /\ schema' \in {schema, schema \cup Stems} /\ phase' \in {"provisioned", "failed"}
    BY <1>12 DEF Commit, CommitUnknown
  <2>2. applied' = applied \/ applied' = {}
    BY <1>12 DEF Commit, CommitUnknown, pass
  <2>3. TypeOK'
    BY <1>0, <1>12, <2>1, <2>2 DEF Commit, CommitUnknown, TypeOK, pass
  <2>4. PassInv' /\ CycleInv'
    BY <2>1 DEF PassInv, CycleInv, Running
  <2>5. SchemaInv'
    BY <1>0, <1>3, <2>1 DEF SchemaInv
  <2> QED BY <1>4, <1>5, <2>2, <2>3, <2>4, <2>5 DEF IInv
<1>13. CASE Wipe
  <2>1. TypeOK'
    BY <1>0, <1>13 DEF Wipe, TypeOK, pass
  <2>2. PassInv' /\ SchemaInv' /\ CycleInv'
    BY <1>13 DEF Wipe, PassInv, SchemaInv, CycleInv, Running
  <2> QED BY <1>5, <1>13, <2>1, <2>2 DEF Wipe, IInv, pass
<1>14. CASE UNCHANGED vars
  <2>1. TypeOK'
    BY <1>0, <1>14 DEF vars, TypeOK
  <2>2. PassInv' /\ SchemaInv' /\ CycleInv'
    BY <1>0, <1>3, <1>14 DEF vars, PassInv, SchemaInv, CycleInv, Known, Ready, Running
  <2> QED BY <1>5, <1>14, <2>1, <2>2 DEF vars, IInv
<1> QED
  BY <1>6, <1>7, <1>8, <1>9, <1>10, <1>11, <1>12, <1>13, <1>14 DEF Next, Work

THEOREM InvariantHolds == Spec => []IInv
  BY InitIInv, StepIInv, PTL DEF Spec

(* The passes over the files keep every variable in its type: at stops at  *)
(* the end of the list, and what is applied are schema files.              *)
THEOREM TypeCorrect == Spec => []TypeOK
<1>1. IInv => TypeOK
  BY DEF IInv
<1> QED BY InvariantHolds, <1>1, PTL

(* For any schema directory a file is executed after all it requires.      *)
THEOREM RequirementsComeFirst == Spec => []DependenciesFirst
<1>1. IInv => DependenciesFirst
  BY DEF IInv
<1> QED BY InvariantHolds, <1>1, PTL

(* For any headers, the cycle error is right, and a schema with a cycle is *)
(* never provisioned.                                                      *)
THEOREM CyclesAreReal == Spec => []CycleMeansKnot
<1>1. IInv => CycleMeansKnot
  BY DEF IInv, SchemaInv, CycleInv, NoKnotIn, CycleMeansKnot
<1> QED BY InvariantHolds, <1>1, PTL

(* The database goes from empty to the whole schema in one step, or stays. *)
THEOREM ProvisionsWhole == Spec => AllOrNothing
<1> DEFINE Whole == schema' # schema => \/ schema = {} /\ schema' = Stems
                                        \/ ~Running /\ schema' = {}
<1>1. IInv /\ [Next]_vars => [Whole]_vars
  <2> SUFFICES ASSUME IInv, Next PROVE Whole
    OBVIOUS
  <2>1. schema # {} => schema = Stems
    BY DEF IInv, SchemaInv
  <2>2. CASE Commit \/ CommitUnknown
    BY <2>1, <2>2 DEF Commit, CommitUnknown
  <2>3. CASE Wipe
    BY <2>3 DEF Wipe
  <2>4. CASE ~(Commit \/ CommitUnknown \/ Wipe)
    BY <2>4 DEF Next, Work, Call, Skip, Execute, ExecuteFails, NextPass, Cycle, Crash
  <2> QED BY <2>2, <2>3, <2>4
<1> QED BY InvariantHolds, <1>1, PTL DEF Spec, AllOrNothing
=============================================================================
