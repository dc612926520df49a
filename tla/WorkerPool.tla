----------------------------- MODULE WorkerPool -----------------------------
(***************************************************************************)
(* The worker pool that the program writes out three times: over items in  *)
(* cmd/extract/main.go, over pages in cmd/discover/main.go, and over pages *)
(* again in internal/extraction/survey.go, whose collector alone returns   *)
(* on the first error.  A feeder goroutine hands the jobs over an          *)
(* unbuffered channel, the workers answer over another, and the feeder     *)
(* closes the results once the wait group says every worker has returned.  *)
(* Both channels are unbuffered, so a send and the receive that takes it   *)
(* are one step (Hand, Deliver).                                           *)
(***************************************************************************)
EXTENDS Integers, Sequences

CONSTANTS
    N,               \* number of jobs (items, or pages first..last)
    Workers,         \* the goroutines started; -workers may be 0
    Outcomes,        \* what one model call can return
    Failures,        \* the outcomes that are errors
    FatalOutcomes    \* outcomes on which the collector returns: {} in the
                     \* commands, the errors in EnsureSurvey

ASSUME PoolAssumption ==
    N \in Nat /\ Failures \subseteq Outcomes /\ FatalOutcomes \subseteq Failures

Jobs == 1..N
Results == [job : Jobs, outcome : Outcomes]

VARIABLES
    next,            \* the feeder's loop variable
    jobsOpen,        \* close(jobs) not yet called
    resultsOpen,     \* close(results) not yet called
    job,             \* the job each worker is on, 0 when it waits for one
    answer,          \* {} while the call runs, then its one outcome
    exited,          \* workers that have returned (wg.Done)
    received,        \* the results in order of arrival
    main             \* "collecting", "complete" or "abandoned"

vars == <<next, jobsOpen, resultsOpen, job, answer, exited, received, main>>

Init ==
    /\ next = 1
    /\ jobsOpen = TRUE
    /\ resultsOpen = TRUE
    /\ job = [w \in Workers |-> 0]
    /\ answer = [w \in Workers |-> {}]
    /\ exited = {}
    /\ received = <<>>
    /\ main = "collecting"

-----------------------------------------------------------------------------
(* Plausible bugs, used only to show that the properties below notice them. *)

(* The feeder runs one index too far. *)
HandPastEnd(w) ==
    /\ next <= N + 1 /\ job[w] = 0 /\ w \notin exited
    /\ job' = [job EXCEPT ![w] = next] /\ next' = next + 1
    /\ UNCHANGED <<jobsOpen, resultsOpen, answer, exited, received, main>>

(* Two workers are handed the same loop variable. *)
HandShared(w) ==
    /\ next <= N /\ job[w] = 0 /\ w \notin exited
    /\ job' = [job EXCEPT ![w] = next] /\ next' \in {next, next + 1}
    /\ UNCHANGED <<jobsOpen, resultsOpen, answer, exited, received, main>>

(* The error is collected but the collector does not return. *)
DeliverAndGoOn(w) ==
    /\ main = "collecting"
    /\ \E o \in answer[w] : received' = Append(received, [job |-> job[w], outcome |-> o])
    /\ job' = [job EXCEPT ![w] = 0] /\ answer' = [answer EXCEPT ![w] = {}]
    /\ UNCHANGED <<next, jobsOpen, resultsOpen, exited, main>>

(* The call is made without a deadline. *)
NoDeadline(w) == FALSE

(* wg.Wait is missing. *)
CloseResultsNoWait ==
    /\ ~jobsOpen /\ resultsOpen /\ resultsOpen' = FALSE
    /\ UNCHANGED <<next, jobsOpen, job, answer, exited, received, main>>

(* The collector stops with the jobs, not with the results. *)
FinishOnJobsClosed ==
    /\ main = "collecting" /\ ~jobsOpen /\ main' = "complete"
    /\ UNCHANGED <<next, jobsOpen, resultsOpen, job, answer, exited, received>>

-----------------------------------------------------------------------------
(* jobs <- i meets a worker waiting in "range jobs". *)
Hand(w) ==
    /\ next <= N
    /\ job[w] = 0
    /\ w \notin exited
    /\ job' = [job EXCEPT ![w] = next]
    /\ next' = next + 1
    /\ UNCHANGED <<jobsOpen, resultsOpen, answer, exited, received, main>>

(* The model call of worker w returns. *)
Call(w) ==
    /\ job[w] # 0
    /\ answer[w] = {}
    /\ \E o \in Outcomes : answer' = [answer EXCEPT ![w] = {o}]
    /\ UNCHANGED <<next, jobsOpen, resultsOpen, job, exited, received, main>>

(* A call that nobody answers returns an error when its context ends: the  *)
(* subprocess is killed.                                                   *)
Deadline(w) == Call(w) /\ answer'[w] \subseteq Failures

(* results <- r meets the collector, which may return on what it got. *)
Deliver(w) ==
    /\ main = "collecting"
    /\ \E o \in answer[w] :
          /\ received' = Append(received, [job |-> job[w], outcome |-> o])
          /\ main' = IF o \in FatalOutcomes THEN "abandoned" ELSE "collecting"
    /\ job' = [job EXCEPT ![w] = 0]
    /\ answer' = [answer EXCEPT ![w] = {}]
    /\ UNCHANGED <<next, jobsOpen, resultsOpen, exited>>

(* close(jobs), after the last job was taken. *)
CloseJobs ==
    /\ next > N
    /\ jobsOpen
    /\ jobsOpen' = FALSE
    /\ UNCHANGED <<next, resultsOpen, job, answer, exited, received, main>>

(* "range jobs" ends and the deferred wg.Done runs. *)
Exit(w) ==
    /\ ~jobsOpen
    /\ job[w] = 0
    /\ w \notin exited
    /\ exited' = exited \cup {w}
    /\ UNCHANGED <<next, jobsOpen, resultsOpen, job, answer, received, main>>

(* wg.Wait() returns, and the feeder closes the results. *)
CloseResults ==
    /\ ~jobsOpen
    /\ resultsOpen
    /\ exited = Workers
    /\ resultsOpen' = FALSE
    /\ UNCHANGED <<next, jobsOpen, job, answer, exited, received, main>>

(* "range results" ends. *)
Finish ==
    /\ main = "collecting"
    /\ ~resultsOpen
    /\ main' = "complete"
    /\ UNCHANGED <<next, jobsOpen, resultsOpen, job, answer, exited, received>>

(* The collector has returned: goroutines still blocked stay blocked until *)
(* the process ends.                                                       *)
Returned == main # "collecting" /\ UNCHANGED vars

Next ==
    \/ \E w \in Workers : Hand(w) \/ Call(w) \/ Deliver(w) \/ Exit(w)
    \/ CloseJobs \/ CloseResults \/ Finish \/ Returned

Spec == Init /\ [][Next]_vars

(* The Go scheduler runs every goroutine that can run.  The model owes     *)
(* nobody an answer: what ends a call is its deadline, and only that is    *)
(* fair.  Which idle worker gets a job is not promised.                    *)
Fairness ==
    /\ WF_vars(\E w \in Workers : Hand(w))
    /\ \A w \in Workers : WF_vars(Deadline(w)) /\ WF_vars(Deliver(w)) /\ WF_vars(Exit(w))
    /\ WF_vars(CloseJobs) /\ WF_vars(CloseResults) /\ WF_vars(Finish)

FairSpec == Spec /\ Fairness
-----------------------------------------------------------------------------

TypeOK ==
    /\ next \in 1..(N + 1)
    /\ jobsOpen \in BOOLEAN
    /\ resultsOpen \in BOOLEAN
    /\ job \in [Workers -> 0..N]
    /\ answer \in [Workers -> SUBSET Outcomes]
    /\ exited \subseteq Workers
    /\ received \in Seq(Results)
    /\ main \in {"collecting", "complete", "abandoned"}

(* A job the feeder has let go is in exactly one place: held by one worker *)
(* or received once.  Losing one makes an item vanish from the report,     *)
(* receiving one twice makes the reconciliation of cmd/extract fail.       *)
ExactlyOnce ==
    /\ \A v, w \in Workers : job[v] # 0 /\ job[v] = job[w] => v = w
    /\ \A k, l \in DOMAIN received : received[k].job = received[l].job => k = l
    /\ \A w \in Workers, k \in DOMAIN received : received[k].job # job[w]
    /\ \A j \in 1..(next - 1) :
          \/ \E w \in Workers : job[w] = j
          \/ \E k \in DOMAIN received : received[k].job = j

(* close(results) comes after the last send: a send on a closed channel    *)
(* panics and takes the whole run down.                                    *)
NoSendOnClosed == ~resultsOpen => \A w \in Workers : job[w] = 0

(* The collector's loop ends by itself only after an answer for every job. *)
CompleteMeansAll ==
    main = "complete" => \A j \in Jobs : \E k \in DOMAIN received : received[k].job = j

(* With at least one worker the collector's loop ends, even if no call is  *)
(* ever answered: with a result for every job, or at the first fatal one.  *)
Termination == <>(main # "collecting")

-----------------------------------------------------------------------------
(* The outcomes collected for a job. *)
Settled(j) ==
    {o \in Outcomes : \E k \in DOMAIN received : received[k] = [job |-> j, outcome |-> o]}

settledBar == [j \in Jobs |-> Settled(j)]

FO == INSTANCE FanOut WITH settled <- settledBar, stage <- main

(* The pool implements the fan-out its callers rely on. *)
ImplementsFanOut == FO!Spec
=============================================================================
