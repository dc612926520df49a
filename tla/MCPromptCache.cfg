\* Programs that share the cache, at the same time or one after the other, across an
\* edit of the prompt.
SPECIFICATION Spec
CONSTANTS
    Calls <- EditedPrompt
    Replies = {"brief", "long"}
    Size <- Sizes
    Refreshes = {FALSE, TRUE}
    MaxRuns = 3
    Blocks <- SomeBlocks
    APIMessages <- AnyBlocks
    CLIMessages <- AnyText
INVARIANTS
    SpanFindsTheReply
    OneCallOneReply
PROPERTIES
    AnswersAreReplies
    RerunIsFree
CHECK_DEADLOCK FALSE
