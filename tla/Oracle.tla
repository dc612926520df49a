------------------------------- MODULE Oracle -------------------------------
(***************************************************************************)
(* What a cached model call promises its caller, however the processes     *)
(* that share the cache interleave, fail or die: the answer to a question  *)
(* is one of the replies a model has given to that very question; and if   *)
(* the caller asked for a fresh one, it is the reply given to this call.   *)
(***************************************************************************)
CONSTANTS Calls, Replies, Question(_)

VARIABLES
    given,    \* for each question, the replies the model has given so far
    anew,     \* the calls that must not be answered from an earlier reply
    reply,    \* what the model replied to a call: {} or one reply
    answer    \* what a call returned to its caller: {} or one reply

vars == <<given, anew, reply, answer>>

Questions == {Question(c) : c \in Calls}
Nothing == [c \in Calls |-> {}]

Init ==
    /\ given = [q \in Questions |-> {}]
    /\ anew = {}
    /\ reply = Nothing
    /\ answer = Nothing

(* The calls S are made, or made again, or their process ends. *)
Restart(S) ==
    /\ anew' \in {anew \cup S, anew \ S}
    /\ reply' = [c \in Calls |-> IF c \in S THEN {} ELSE reply[c]]
    /\ answer' = [c \in Calls |-> IF c \in S THEN {} ELSE answer[c]]
    /\ UNCHANGED given

Speak(c, r) ==
    /\ answer[c] = {}
    /\ given' = [given EXCEPT ![Question(c)] = @ \cup {r}]
    /\ reply' = [reply EXCEPT ![c] = {r}]
    /\ UNCHANGED <<anew, answer>>

Answer(c, r) ==
    /\ answer[c] = {}
    /\ r \in given[Question(c)]
    /\ c \in anew => r \in reply[c]
    /\ answer' = [answer EXCEPT ![c] = {r}]
    /\ UNCHANGED <<given, anew, reply>>

Next ==
    \/ \E S \in SUBSET Calls : Restart(S)
    \/ \E c \in Calls, r \in Replies : Speak(c, r) \/ Answer(c, r)

Spec == Init /\ [][Next]_vars
=============================================================================
