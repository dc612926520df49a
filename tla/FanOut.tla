------------------------------- MODULE FanOut -------------------------------
(***************************************************************************)
(* What a fan-out over a worker pool promises its caller, whichever        *)
(* goroutine does the work and in whatever order the answers arrive: every *)
(* job is settled at most once, and the collection is reported complete    *)
(* only when every job has been settled.  A collector that gives up on a   *)
(* failure (internal/extraction/survey.go) abandons the collection         *)
(* instead.  WorkerPool implements this; Extract and Discover use it as    *)
(* the meaning of "normalize every item" and "extract every page".         *)
(***************************************************************************)
CONSTANTS
    Jobs,            \* the indices fed to the jobs channel
    Outcomes,        \* what one call can return
    FatalOutcomes    \* the outcomes on which the collector returns at once

VARIABLES
    settled,         \* for each job, {} or the one outcome collected for it
    stage            \* "collecting", "complete" or "abandoned"

vars == <<settled, stage>>

Init ==
    /\ settled = [j \in Jobs |-> {}]
    /\ stage = "collecting"

(* One result is collected for a job that has none. *)
Settle(j, o) ==
    /\ stage = "collecting"
    /\ settled[j] = {}
    /\ settled' = [settled EXCEPT ![j] = {o}]
    /\ stage' = IF o \in FatalOutcomes THEN "abandoned" ELSE "collecting"

(* The loop over the results ends by itself only when nothing is missing. *)
Complete ==
    /\ stage = "collecting"
    /\ \A j \in Jobs : settled[j] # {}
    /\ stage' = "complete"
    /\ UNCHANGED settled

Next == Complete \/ \E j \in Jobs, o \in Outcomes : Settle(j, o)

Spec == Init /\ [][Next]_vars
=============================================================================
