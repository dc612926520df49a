\* The collectors of cmd/extract and cmd/discover meet "ok" and "error" and collect both;
\* that of survey.go meets "ok" and "fatal" and returns on the first "fatal".
SPECIFICATION FairSpec
CONSTANTS
    N = 4
    Workers = {w1, w2, w3}
    Outcomes = {"ok", "error", "fatal"}
    Failures = {"error", "fatal"}
    FatalOutcomes = {"fatal"}
INVARIANTS
    TypeOK
    ExactlyOnce
    NoSendOnClosed
    CompleteMeansAll
PROPERTIES
    Termination
    ImplementsFanOut
