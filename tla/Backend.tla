------------------------------ MODULE Backend ------------------------------
(***************************************************************************)
(* How a model's message becomes a reply: callAPI and callCLI of           *)
(* ExtractPage, and their siblings in Relabel and Normalize, which differ  *)
(* in one point.  Decoding keeps no state: it is a function of the pass    *)
(* and the message, and what it accepts is the reply of PromptCache's      *)
(* ModelReplies, an error its CallFails.                                   *)
(*                                                                         *)
(* From the API comes a sequence of blocks; the input of a tool call is    *)
(* the fields it states, unless it does not unmarshal.  From the CLI comes *)
(* a wrapper around text; text is a sequence of tokens: braces, the inside *)
(* of an object ("field"), words, and the JSON literal null.               *)
(***************************************************************************)
EXTENDS Integers, Sequences, FiniteSets

CONSTANTS
    Blocks,        \* the blocks an API message may have
    APIMessages,   \* [failed, content] of each answer of the API
    CLIMessages    \* [exit, wrapper, text] of each end of the subprocess

Tool == "record"       \* the name of the pass's own tool
Zero == <<>>           \* the zero value: no field set

OK(r) == [ok |-> TRUE, reply |-> r]
Error == [ok |-> FALSE]
-----------------------------------------------------------------------------
(* The API: forced tool use.                                               *)

(* A plausible bug: any tool call will do. *)
AnyToolUse(content) == {n \in DOMAIN content : content[n].type = "tool_use"}

ToolUses(content) ==
    {n \in DOMAIN content : content[n].type = "tool_use" /\ content[n].name = Tool}

(* callAPI unmarshals every one of them, in order, into one extract: each  *)
(* field has the value of the last call that states it.                    *)
Stating(content, f) == {n \in ToolUses(content) : f \in DOMAIN content[n].input}

AllInputs(content) ==
    IF \E n \in ToolUses(content) : ~content[n].parses THEN Error
    ELSE OK([f \in UNION {DOMAIN content[n].input : n \in ToolUses(content)} |->
               LET last == CHOOSE n \in Stating(content, f) :
                              \A m \in Stating(content, f) : m <= n
               IN  content[last].input[f]])

(* relabelAPI and normalizeAPI return the first. *)
FirstInput(content) ==
    LET first == CHOOSE n \in ToolUses(content) : \A m \in ToolUses(content) : n <= m
    IN  IF content[first].parses THEN OK(content[first].input) ELSE Error

DecodeAPI(p, msg) ==
    IF msg.failed \/ ToolUses(msg.content) = {} THEN Error
    ELSE IF p = "page" THEN AllInputs(msg.content) ELSE FirstInput(msg.content)
-----------------------------------------------------------------------------
(* The CLI: bare JSON, perhaps in fences or behind a stray sentence.       *)

Open == "{"
Close == "}"
Tokens == {Open, Close, "field", "word", "null"}

(* An input is the fields it states. *)
ASSUME MessagesAssumption ==
    /\ \A b \in Blocks : b.input = [f \in DOMAIN b.input |-> b.input[f]]
    /\ \A msg \in APIMessages : msg.content \in Seq(Blocks)
    /\ \A msg \in CLIMessages : msg.text \in Seq(Tokens)

Depth(text, n) ==
    Cardinality({m \in 1..n : text[m] = Open}) - Cardinality({m \in 1..n : text[m] = Close})

(* What encoding/json accepts: one object, nothing around it, and objects  *)
(* inside it only as the value of a field.                                 *)
IsObject(text) ==
    /\ text # <<>>
    /\ \A n \in DOMAIN text :
          /\ text[n] \in {Open, Close, "field"}
          /\ text[n] = Open <=> n = 1 \/ (text[n] = Open /\ text[n - 1] = "field")
          /\ Depth(text, n) = 0 <=> n = Len(text)

Positions(text, t) == {n \in DOMAIN text : text[n] = t}

Spans(text) == {s \in Positions(text, Open) \X Positions(text, Close) : s[1] < s[2]}

(* A plausible bug: up to the first closing brace. *)
SpanToFirst(text) ==
    IF Spans(text) = {} THEN text
    ELSE LET span == CHOOSE s \in Spans(text) :
                        \A t \in Spans(text) : s[1] <= t[1] /\ (s[1] = t[1] => s[2] <= t[2])
         IN  SubSeq(text, span[1], span[2])

(* The outermost {...} span, or the whole text when there is none. *)
Span(text) ==
    IF Spans(text) = {} THEN text
    ELSE LET span == CHOOSE s \in Spans(text) :
                        \A t \in Spans(text) : s[1] <= t[1] /\ t[2] <= s[2]
         IN  SubSeq(text, span[1], span[2])

(* null unmarshals into a struct without an error and sets nothing. *)
Unmarshal(body) ==
    IF IsObject(body) THEN OK(body)
    ELSE IF body = <<"null">> THEN OK(Zero) ELSE Error

(* The subprocess failed or was killed after ten minutes, or its wrapper    *)
(* does not parse or reports an error; else the text is unmarshalled.       *)
DecodeCLI(msg) ==
    IF msg.exit # 0 \/ msg.wrapper # "result" THEN Error ELSE Unmarshal(Span(msg.text))
-----------------------------------------------------------------------------

Accepted(outcome) == IF outcome.ok THEN {outcome.reply} ELSE {}

ObjectAt(text, a, b) == IsObject(SubSeq(text, a, b))

(* "Take the outermost {...} span before parsing" (cli.go:64-66): an object *)
(* in fences or a stray sentence is found; and a reply is never a part of   *)
(* an object nor one object of several (null apart, which stands for none). *)
FindsTheReply(msg) ==
    LET text == msg.text
        corners == Positions(text, Open) \X Positions(text, Close)
        braces == Positions(text, Open) \cup Positions(text, Close)
        objects == {o \in corners : ObjectAt(text, o[1], o[2])}
        found == Accepted(DecodeCLI(msg))
    IN  /\ msg.exit = 0 /\ msg.wrapper = "result" =>
              \A o \in objects : braces \subseteq o[1]..o[2] => found = {SubSeq(text, o[1], o[2])}
        /\ \A r \in found : r = Zero \/
              \E o \in objects :
                 /\ r = SubSeq(text, o[1], o[2])
                 /\ \A x \in objects : o[1] <= x[1] /\ x[2] <= o[2]

(* An accepted reply is the whole input of one call of the pass's own      *)
(* tool, never another tool's and never a blend of several; callAPI alone  *)
(* blends, and only when the model called the tool more than once.         *)
IsOneCall(p, msg) ==
    LET own == {n \in DOMAIN msg.content : msg.content[n].name = Tool}
    IN  \A r \in Accepted(DecodeAPI(p, msg)) :
           \/ \E n \in own : r = msg.content[n].input
           \/ p = "page" /\ Cardinality(own) > 1
=============================================================================
