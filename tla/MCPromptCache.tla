--------------------------- MODULE MCPromptCache ---------------------------
(* Pass A run twice at once or one after the other (cmd/discover and        *)
(* EnsureSurvey), and once more after an edit of the prompt.                *)
EXTENDS PromptCache

Page(p, number, prompt) ==
    [process |-> p, pass |-> "page", name |-> number, model |-> "claude-cli",
     prompt |-> prompt, input |-> "scan"]

(* Two programs read page 1, a third is built after the prompt was edited. *)
EditedPrompt ==
    {Page("discover", 1, "v1"), Page("extract", 1, "v1"), Page("rebuilt", 1, "v2")}

(* Two replies whose entries differ in length. *)
Sizes == [brief |-> 1, long |-> 2]

-----------------------------------------------------------------------------
(* The messages a reply is decoded from.                                   *)

Block(type, name, input) == [type |-> type, name |-> name, parses |-> TRUE, input |-> input]

(* A tool call with two fields, with one, one that is empty because it was *)
(* cut off, one that does not unmarshal, another tool's, and plain text.   *)
SomeBlocks ==
    {Block("tool_use", Tool, [items |-> "A", lead |-> "x"]),
     Block("tool_use", Tool, [items |-> "B"]),
     Block("tool_use", Tool, Zero),
     [Block("tool_use", Tool, Zero) EXCEPT !.parses = FALSE],
     Block("tool_use", "other", [items |-> "C"]),
     Block("text", "", Zero)}

AnyBlocks ==
    [failed : BOOLEAN, content : UNION {[1..n -> SomeBlocks] : n \in 0..3}]

Texts == UNION {[1..n -> Tokens] : n \in 0..5}

AnyText ==
    [exit : {0}, wrapper : {"result"}, text : Texts]
      \cup [exit : 0..1, wrapper : {"result", "is_error", "garbled"},
            text : {<<"{", "field", "}">>}]
=============================================================================
