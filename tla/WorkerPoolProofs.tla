-------------------------- MODULE WorkerPoolProofs --------------------------
(***************************************************************************)
(* The worker pool for any number of jobs and any set of workers: type     *)
(* correctness, exactly-once settlement, no send on the closed results     *)
(* channel, completeness, and that it implements FanOut.                   *)
(*                                                                         *)
(* IInv adds to the properties what they need to be inductive: a job that  *)
(* is out is below the feeder's loop variable (so the next one handed out  *)
(* is fresh), an answer belongs to a worker on a job, and each close is    *)
(* preceded by what it waits for.                                          *)
(***************************************************************************)
EXTENDS WorkerPool, SequenceTheorems, TLAPS

Handed ==
    /\ \A w \in Workers : job[w] < next
    /\ \A k \in DOMAIN received : received[k].job < next

Ordered ==
    /\ \A w \in Workers : answer[w] # {} => job[w] # 0
    /\ ~jobsOpen => next = N + 1
    /\ \A w \in exited : ~jobsOpen /\ job[w] = 0
    /\ ~resultsOpen => ~jobsOpen /\ exited = Workers
    /\ main = "complete" => ~resultsOpen

IInv == TypeOK /\ Handed /\ Ordered /\ ExactlyOnce

(* Appending one result keeps the earlier ones and adds exactly it. *)
LEMMA AppendResult ==
    ASSUME NEW s \in Seq(Results), NEW r \in Results
    PROVE  /\ Append(s, r) \in Seq(Results)
           /\ DOMAIN s = 1..Len(s)
           /\ Len(s) \in Nat
           /\ DOMAIN Append(s, r) = 1..(Len(s) + 1)
           /\ \A k \in 1..Len(s) : Append(s, r)[k] = s[k]
           /\ Append(s, r)[Len(s) + 1] = r
  OBVIOUS

(* What TypeOK says of the results one by one. *)
LEMMA ReceivedTyped ==
    ASSUME TypeOK
    PROVE  \A k \in DOMAIN received : received[k].job \in 1..N
<1> SUFFICES ASSUME NEW k \in DOMAIN received PROVE received[k].job \in 1..N
  OBVIOUS
<1>1. received[k] \in Results
  BY DEF TypeOK
<1> QED BY <1>1 DEF Results, Jobs

LEMMA InitIInv == Init => IInv
  BY PoolAssumption DEF Init, IInv, TypeOK, Handed, Ordered, ExactlyOnce, Jobs, Results

LEMMA StepIInv == IInv /\ [Next]_vars => IInv'
<1> SUFFICES ASSUME IInv, [Next]_vars PROVE IInv'
  OBVIOUS
<1> USE PoolAssumption
<1>1. ASSUME NEW w \in Workers, Hand(w) PROVE IInv'
  <2> USE DEF Hand
  <2>1. TypeOK'
    BY <1>1 DEF IInv, TypeOK, Ordered
  <2>2. Handed'
    BY <1>1, ReceivedTyped DEF IInv, TypeOK, Handed
  <2>3. Ordered'
    BY <1>1 DEF IInv, TypeOK, Ordered
  <2>4. ExactlyOnce'
    <3>1. \A v, u \in Workers : job'[v] # 0 /\ job'[v] = job'[u] => v = u
      BY <1>1 DEF IInv, TypeOK, Handed, ExactlyOnce
    <3>2. \A u \in Workers, k \in DOMAIN received' : received'[k].job # job'[u]
      BY <1>1, ReceivedTyped DEF IInv, TypeOK, Handed, ExactlyOnce
    <3>3. \A j \in 1..(next' - 1) : \/ \E u \in Workers : job'[u] = j
                                    \/ \E k \in DOMAIN received' : received'[k].job = j
      <4> TAKE j \in 1..(next' - 1)
      <4>1. CASE j = next
        BY <4>1, <1>1 DEF IInv, TypeOK
      <4>2. CASE \E u \in Workers : job[u] = j
        BY <4>2, <1>1 DEF IInv, TypeOK
      <4>3. CASE \E k \in DOMAIN received : received[k].job = j
        BY <4>3, <1>1
      <4>4. j = next \/ j \in 1..(next - 1)
        BY <1>1 DEF IInv, TypeOK
      <4> QED BY <4>1, <4>2, <4>3, <4>4 DEF IInv, ExactlyOnce
    <3> QED BY <3>1, <3>2, <3>3, <1>1 DEF IInv, ExactlyOnce
  <2> QED BY <2>1, <2>2, <2>3, <2>4 DEF IInv
<1>2. ASSUME NEW w \in Workers, Call(w) PROVE IInv'
  BY <1>2 DEF Call, IInv, TypeOK, Handed, Ordered, ExactlyOnce
<1>3. ASSUME NEW w \in Workers, Deliver(w) PROVE IInv'
  <2> PICK o \in answer[w] :
        /\ received' = Append(received, [job |-> job[w], outcome |-> o])
        /\ main' = IF o \in FatalOutcomes THEN "abandoned" ELSE "collecting"
    BY <1>3 DEF Deliver
  <2> DEFINE r == [job |-> job[w], outcome |-> o]
  <2>1. r \in Results /\ job[w] # 0 /\ r.job = job[w]
    BY DEF IInv, TypeOK, Ordered, Results, Jobs
  <2>2. /\ DOMAIN received = 1..Len(received) /\ Len(received) \in Nat
        /\ DOMAIN received' = 1..(Len(received) + 1)
        /\ \A k \in 1..Len(received) : received'[k] = received[k]
        /\ received'[Len(received) + 1] = r
        /\ received' \in Seq(Results)
    BY <2>1, AppendResult DEF IInv, TypeOK
  <2>3. /\ job' = [job EXCEPT ![w] = 0]
        /\ answer' = [answer EXCEPT ![w] = {}]
        /\ UNCHANGED <<next, jobsOpen, resultsOpen, exited>>
        /\ main = "collecting"
    BY <1>3 DEF Deliver
  <2> HIDE DEF r
  <2>4. TypeOK'
    BY <2>2, <2>3 DEF IInv, TypeOK
  <2>5. Handed'
    BY <2>1, <2>2, <2>3 DEF IInv, TypeOK, Handed, Results, Jobs
  <2>6. Ordered'
    BY <2>1, <2>3 DEF IInv, TypeOK, Ordered
  <2>7. ExactlyOnce'
    <3>1. \A v, u \in Workers : job'[v] # 0 /\ job'[v] = job'[u] => v = u
      BY <2>3 DEF IInv, TypeOK, ExactlyOnce
    <3>2. \A k, l \in DOMAIN received' : received'[k].job = received'[l].job => k = l
      BY <2>1, <2>2 DEF IInv, TypeOK, ExactlyOnce
    <3>3. \A u \in Workers, k \in DOMAIN received' : received'[k].job # job'[u]
      <4> TAKE u \in Workers, k \in DOMAIN received'
      <4>1. /\ job'[u] = IF u = w THEN 0 ELSE job[u]
            /\ u # w => job[u] # job[w]
        BY <2>1, <2>3 DEF IInv, TypeOK, ExactlyOnce
      <4>2. CASE k = Len(received) + 1
        BY <4>1, <4>2, <2>1, <2>2
      <4>3. CASE k \in 1..Len(received)
        <5>1. received'[k].job = received[k].job /\ received[k].job \in 1..N
          BY <4>3, <2>2, ReceivedTyped DEF IInv
        <5>2. received[k].job # job[u]
          BY <4>3, <2>2 DEF IInv, ExactlyOnce
        <5> QED BY <4>1, <5>1, <5>2
      <4> QED BY <4>2, <4>3, <2>2
    <3>4. \A j \in 1..(next' - 1) : \/ \E u \in Workers : job'[u] = j
                                    \/ \E k \in DOMAIN received' : received'[k].job = j
      <4> TAKE j \in 1..(next' - 1)
      <4>1. CASE \E u \in Workers : job[u] = j /\ u # w
        BY <4>1, <2>3 DEF IInv, TypeOK
      <4>2. CASE job[w] = j
        BY <4>2, <2>1, <2>2
      <4>3. CASE \E k \in DOMAIN received : received[k].job = j
        BY <4>3, <2>2
      <4> QED BY <4>1, <4>2, <4>3, <2>3 DEF IInv, ExactlyOnce
    <3> QED BY <3>1, <3>2, <3>3, <3>4 DEF ExactlyOnce
  <2> QED BY <2>4, <2>5, <2>6, <2>7 DEF IInv
<1>4. ASSUME NEW w \in Workers, Exit(w) PROVE IInv'
  BY <1>4 DEF Exit, IInv, TypeOK, Handed, Ordered, ExactlyOnce
<1>5. CASE CloseJobs
  <2>1. next = N + 1
    BY <1>5 DEF CloseJobs, IInv, TypeOK
  <2> QED BY <1>5, <2>1 DEF CloseJobs, IInv, TypeOK, Handed, Ordered, ExactlyOnce
<1>6. CASE CloseResults
  BY <1>6 DEF CloseResults, IInv, TypeOK, Handed, Ordered, ExactlyOnce
<1>7. CASE Finish
  BY <1>7 DEF Finish, IInv, TypeOK, Handed, Ordered, ExactlyOnce
<1>8. CASE UNCHANGED vars
  BY <1>8 DEF vars, IInv, TypeOK, Handed, Ordered, ExactlyOnce
<1> QED
  BY <1>1, <1>2, <1>3, <1>4, <1>5, <1>6, <1>7, <1>8 DEF Next, Returned

(* Every reachable state is well formed and satisfies the strengthening. *)
THEOREM InvariantHolds == Spec => []IInv
  BY InitIInv, StepIInv, PTL DEF Spec

(* The variables keep their types: with any number of workers, none included. *)
THEOREM TypeCorrect == Spec => []TypeOK
  BY InvariantHolds, PTL DEF IInv

(* No job is lost or settled twice, in cmd/extract, cmd/discover and         *)
(* EnsureSurvey alike.                                                       *)
THEOREM ExactlyOnceHolds == Spec => []ExactlyOnce
  BY InvariantHolds, PTL DEF IInv

(* close(results) never overtakes a worker that still has a result to send.  *)
THEOREM NeverSendsOnClosed == Spec => []NoSendOnClosed
<1>1. IInv => NoSendOnClosed
  BY DEF IInv, Ordered, NoSendOnClosed
<1> QED BY <1>1, InvariantHolds, PTL

(* With the results closed, every job has been received. *)
LEMMA ClosedMeansAll ==
    ASSUME IInv, ~resultsOpen
    PROVE  \A j \in Jobs : \E k \in DOMAIN received : received[k].job = j
<1>1. next = N + 1 /\ \A w \in Workers : job[w] = 0
  BY DEF IInv, Ordered
<1>2. \A j \in 1..N : \E k \in DOMAIN received : received[k].job = j
  BY <1>1, PoolAssumption DEF IInv, ExactlyOnce
<1> QED BY <1>2 DEF Jobs

(* The collector's loop ends by itself only with an answer for every job.    *)
THEOREM CompleteHolds == Spec => []CompleteMeansAll
<1>1. IInv => CompleteMeansAll
  BY ClosedMeansAll DEF IInv, Ordered, CompleteMeansAll
<1> QED BY <1>1, InvariantHolds, PTL

-----------------------------------------------------------------------------
(* The refinement: Deliver is FanOut's Settle, Finish its Complete, every    *)
(* other step leaves what the caller sees unchanged.                         *)

LEMMA InitRefines == Init => FO!Init
  BY DEF Init, FO!Init, settledBar, Settled

LEMMA DeliverRefines ==
    ASSUME IInv, NEW w \in Workers, Deliver(w)
    PROVE  \E j \in Jobs, o \in Outcomes : FO!Settle(j, o)
<1> USE PoolAssumption
<1> PICK o \in answer[w] :
      /\ received' = Append(received, [job |-> job[w], outcome |-> o])
      /\ main' = IF o \in FatalOutcomes THEN "abandoned" ELSE "collecting"
  BY DEF Deliver
<1>0. job[w] \in Jobs
  BY DEF IInv, TypeOK, Ordered, Jobs
<1> PICK j \in Jobs : j = job[w]
  BY <1>0
<1> DEFINE r == [job |-> j, outcome |-> o]
<1>1. o \in Outcomes /\ r \in Results
  BY DEF IInv, TypeOK, Results
<1>2. /\ DOMAIN received = 1..Len(received) /\ Len(received) \in Nat
      /\ DOMAIN received' = 1..(Len(received) + 1)
      /\ \A k \in 1..Len(received) : received'[k] = received[k]
      /\ received'[Len(received) + 1] = r
  BY <1>1, AppendResult DEF IInv, TypeOK
<1>3. \A k \in DOMAIN received : received[k].job # j
  BY DEF IInv, ExactlyOnce
<1>4. Settled(j) = {}
  BY <1>3 DEF Settled
<1>5. Settled(j)' = {o}
  <2>1. \A k \in DOMAIN received' : received'[k].job = j => received'[k] = r
    BY <1>2, <1>3
  <2> QED BY <1>1, <1>2, <2>1 DEF Settled
<1>6. \A i \in Jobs : i # j => Settled(i)' = Settled(i)
  BY <1>2 DEF Settled
<1>7. settledBar' = [settledBar EXCEPT ![j] = {o}]
  BY <1>5, <1>6, Zenon DEF settledBar
<1>8. main = "collecting"
  BY DEF Deliver
<1>9. FO!Settle(j, o)
  BY <1>1, <1>4, <1>7, <1>8 DEF FO!Settle, settledBar
<1> QED BY <1>1, <1>9

LEMMA StepRefines == IInv /\ [Next]_vars => [FO!Next]_(FO!vars)
<1> SUFFICES ASSUME IInv, [Next]_vars PROVE [FO!Next]_(FO!vars)
  OBVIOUS
<1>1. ASSUME NEW w \in Workers, Deliver(w) PROVE FO!Next
  BY <1>1, DeliverRefines DEF FO!Next
<1>2. ASSUME Finish PROVE FO!Next
  <2>1. \A j \in Jobs : \E k \in DOMAIN received : received[k].job = j
    BY <1>2, ClosedMeansAll DEF Finish
  <2>2. \A j \in Jobs : Settled(j) # {}
    <3> TAKE j \in Jobs
    <3> PICK k \in DOMAIN received : received[k].job = j
      BY <2>1
    <3>1. received[k] \in Results
      BY DEF IInv, TypeOK
    <3>2. /\ received[k].outcome \in Outcomes
          /\ received[k] = [job |-> j, outcome |-> received[k].outcome]
      BY <3>1 DEF Results
    <3> QED BY <3>2 DEF Settled
  <2>3. UNCHANGED settledBar
    BY <1>2 DEF Finish, settledBar, Settled
  <2> QED BY <1>2, <2>2, <2>3 DEF Finish, FO!Next, FO!Complete, settledBar
<1>3. ASSUME UNCHANGED <<received, main>> PROVE UNCHANGED FO!vars
  BY <1>3 DEF FO!vars, settledBar, Settled
<1>4. ASSUME NEW w \in Workers, Hand(w) \/ Call(w) \/ Exit(w)
      PROVE UNCHANGED <<received, main>>
  BY <1>4 DEF Hand, Call, Exit
<1>5. CloseJobs \/ CloseResults \/ Returned \/ UNCHANGED vars => UNCHANGED <<received, main>>
  BY DEF CloseJobs, CloseResults, Returned, vars
<1> QED BY <1>1, <1>2, <1>3, <1>4, <1>5 DEF Next

(* The pool the program writes out three times is a FanOut. *)
THEOREM PoolImplementsFanOut == Spec => ImplementsFanOut
<1>1. Spec => []IInv
  BY InvariantHolds
<1> QED BY <1>1, InitRefines, StepRefines, PTL DEF Spec, FO!Spec, ImplementsFanOut
=============================================================================
