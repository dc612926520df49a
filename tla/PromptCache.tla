---------------------------- MODULE PromptCache ----------------------------
(***************************************************************************)
(* The read-through cache on disk that ExtractPage, Relabel and Normalize  *)
(* share: one file per call, named by a hash of everything the reply       *)
(* depends on.  A call looks for the file, asks the model when there is    *)
(* none that parses, and writes the reply in place: os.WriteFile truncates *)
(* the file, then writes from its start.  Nothing locks, so the calls of   *)
(* all running processes interleave, and a process may end at any step.    *)
(*                                                                         *)
(* A file is its length and its text: {} unless it holds one whole entry.  *)
(* No file, an empty one, one cut short and one with a longer entry's tail *)
(* behind a shorter entry are alike: none of them parses.                  *)
(***************************************************************************)
EXTENDS Integers, FiniteSets, Backend

CONSTANTS
    Calls,       \* [process, pass, name, model, prompt, input] of each call
    Replies,     \* what the model may reply
    Size,        \* the length of the entry that holds a reply
    Refreshes,   \* values of -refresh
    MaxRuns      \* bound on how often a process is started

Processes == {c.process : c \in Calls}

(* A plausible bug: an edited prompt finds the replies to the old one. *)
KeyWithoutPrompt(c) ==
    [pass |-> c.pass, model |-> c.model, input |-> c.input, name |-> c.name]

(* The question put to the model, and the name of the file: the directory  *)
(* of the pass, the page or the item's slug, and the hash.                 *)
Question(c) == [pass |-> c.pass, model |-> c.model, prompt |-> c.prompt, input |-> c.input]
Key(c) == [question |-> Question(c), name |-> c.name]

Keys == {Key(c) : c \in Calls}
Questions == {Question(c) : c \in Calls}

ASSUME CacheAssumption ==
    /\ Size \in [Replies -> Nat \ {0}]
    /\ Refreshes \subseteq BOOLEAN
    /\ MaxRuns \in Nat

VARIABLES
    file,     \* the cache directory
    given,    \* the replies the model has given to each question
    runs,     \* how often a process has been started
    alive,    \* the processes that run
    anew,     \* the calls made with -refresh
    stage,    \* how far a call has come
    reply,    \* {} or the reply the model gave to a call
    answer,   \* {} or what a call returned
    paid,     \* history: keys answered for, and not refreshed since
    raced     \* history: keys that two calls were asking for at once

vars == <<file, given, runs, alive, anew, stage, reply, answer, paid, raced>>
process == <<runs, alive, anew>>

Blank == [size |-> 0, text |-> {}]
Nothing == [c \in Calls |-> {}]

Init ==
    /\ file = [k \in Keys |-> Blank]
    /\ given = [q \in Questions |-> {}]
    /\ runs = 0 /\ alive = {} /\ anew = {}
    /\ stage = [c \in Calls |-> "idle"]
    /\ reply = Nothing /\ answer = Nothing
    /\ paid = {} /\ raced = {}

At(c, from) == c.process \in alive /\ stage[c] = from
Go(c, to) == stage' = [stage EXCEPT ![c] = to]
Put(c, f) == file' = [file EXCEPT ![Key(c)] = f]

(* On the way from a look-up that found nothing to the end of the write. *)
Busy(c) == stage[c] \in {"calling", "replied", "writing"}
-----------------------------------------------------------------------------
(* Plausible bugs, used only to show that the properties notice them.      *)

(* The cache is best effort: its error is logged, the reply returned. *)
WriteFailsIgnored(c) ==
    /\ At(c, "writing")
    /\ answer' = [answer EXCEPT ![c] = reply[c]]
    /\ paid' = paid \cup {Key(c)}
    /\ Go(c, "answered")
    /\ UNCHANGED <<file, given, process, reply, raced>>
-----------------------------------------------------------------------------

(* The first n bytes of the entry for r written over what the file holds.  *)
Written(f, r, n) ==
    IF n = 0 \/ f.text = {r} THEN f
    ELSE IF n = Size[r] /\ f.size <= n THEN [size |-> n, text |-> {r}]
    ELSE [size |-> IF f.size > n THEN f.size ELSE n, text |-> {}]

(* The calls of p begin again from nothing, or are gone. *)
Reset(p, to) ==
    LET of(c) == c.process = p
    IN  /\ stage' = [c \in Calls |-> IF of(c) THEN to ELSE stage[c]]
        /\ reply' = [c \in Calls |-> IF of(c) THEN {} ELSE reply[c]]
        /\ answer' = [c \in Calls |-> IF of(c) THEN {} ELSE answer[c]]

Start(p) ==
    /\ p \notin alive
    /\ runs < MaxRuns
    /\ runs' = runs + 1
    /\ alive' = alive \cup {p}
    /\ \E refresh \in Refreshes :
          anew' = {c \in Calls : IF c.process = p THEN refresh ELSE c \in anew}
    /\ Reset(p, "asked")
    /\ UNCHANGED <<file, given, paid, raced>>

(* The process exits or is killed. *)
Stop(p) ==
    /\ p \in alive
    /\ alive' = alive \ {p}
    /\ Reset(p, "idle")
    /\ UNCHANGED <<file, given, runs, anew, paid, raced>>
-----------------------------------------------------------------------------
(* One call.                                                               *)

Hit(c) ==
    /\ At(c, "asked")
    /\ c \notin anew
    /\ file[Key(c)].text # {}
    /\ answer' = [answer EXCEPT ![c] = file[Key(c)].text]
    /\ Go(c, "answered")
    /\ UNCHANGED <<file, given, process, reply, paid, raced>>

Miss(c) ==
    /\ At(c, "asked")
    /\ c \in anew \/ file[Key(c)].text = {}
    /\ Go(c, "calling")
    /\ raced' = IF \E d \in Calls \ {c} : Key(d) = Key(c) /\ Busy(d) THEN raced \cup {Key(c)}
                                                                  ELSE raced
    /\ UNCHANGED <<file, given, process, reply, answer, paid>>

(* The backend returns a reply it could decode (module Backend). *)
ModelReplies(c, r) ==
    /\ At(c, "calling")
    /\ given' = [given EXCEPT ![Question(c)] = @ \cup {r}]
    /\ reply' = [reply EXCEPT ![c] = {r}]
    /\ Go(c, "replied")
    /\ UNCHANGED <<file, process, answer, paid, raced>>

(* The call fails or is killed after ten minutes, or the file cannot be opened. *)
CallFails(c) ==
    /\ At(c, "calling") \/ At(c, "replied")
    /\ Go(c, "failed")
    /\ UNCHANGED <<file, given, process, reply, answer, paid, raced>>

(* os.WriteFile opens the file with O_TRUNC ... *)
Truncate(c) ==
    /\ At(c, "replied")
    /\ Put(c, Blank)
    /\ paid' = IF c \in anew THEN paid \ {Key(c)} ELSE paid
    /\ Go(c, "writing")
    /\ UNCHANGED <<given, process, reply, answer, raced>>

(* ... and writes the entry from its start: *)
Write(c) ==
    /\ At(c, "writing")
    /\ \E r \in reply[c] : Put(c, Written(file[Key(c)], r, Size[r]))
    /\ answer' = [answer EXCEPT ![c] = reply[c]]
    /\ paid' = paid \cup {Key(c)}
    /\ Go(c, "answered")
    /\ UNCHANGED <<given, process, reply, raced>>

(* or only a part of it, and the call returns the error. *)
WriteFails(c) ==
    /\ At(c, "writing")
    /\ \E r \in reply[c] : \E n \in 0..Size[r] - 1 : Put(c, Written(file[Key(c)], r, n))
    /\ Go(c, "failed")
    /\ UNCHANGED <<given, process, reply, answer, paid, raced>>

Step(c) ==
    \/ Hit(c) \/ Miss(c) \/ CallFails(c) \/ Truncate(c) \/ Write(c) \/ WriteFails(c)
    \/ \E r \in Replies : ModelReplies(c, r)

Next == (\E p \in Processes : Start(p) \/ Stop(p)) \/ \E c \in Calls : Step(c)

Spec == Init /\ [][Next]_vars
-----------------------------------------------------------------------------

(* What ModelReplies is given, decoded from whatever message.  Decoding    *)
(* depends on the message alone: one look at them all is enough, before    *)
(* the first program starts.                                               *)

(* Every CLI text yields the object it carries, or an error.               *)
SpanFindsTheReply == runs = 0 => \A msg \in CLIMessages : FindsTheReply(msg)

(* Every API message yields the input of one call of the pass's own tool.  *)
OneCallOneReply ==
    runs = 0 => \A msg \in APIMessages, p \in {"page", "relabel", "normalize"} : IsOneCall(p, msg)

(* "Re-running with nothing changed costs zero API calls"                  *)
(* (claude.go:101-102): a call that was answered, by this process or by    *)
(* another, is not paid for again unless a refresh came in between,        *)
(* whoever is killed and whatever fails; except where two calls with one   *)
(* key were asking the model at once, and one may then have emptied the    *)
(* file that holds the other's reply.                                      *)
PaidAgain(c) == stage[c] = "asked" /\ stage'[c] = "calling" /\ c \notin anew /\ Key(c) \in paid
RerunIsFree == [][\A c \in Calls : PaidAgain(c) => Key(c) \in raced]_vars

(* Whatever is cut short, overwritten or lost, and whoever wrote the file: *)
(* an answer is a reply to the very question, a fresh one after -refresh.  *)
O == INSTANCE Oracle
AnswersAreReplies == O!Spec
=============================================================================
