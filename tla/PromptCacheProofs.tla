------------------------- MODULE PromptCacheProofs -------------------------
(***************************************************************************)
(* The reply cache for any set of calls, replies and entry lengths, shared *)
(* by any processes: a call's answer is a reply to its own question (the   *)
(* cache implements Oracle), and nothing is paid for twice unless two      *)
(* calls with one key race.                                                *)
(*                                                                         *)
(* The invariant of the first: whatever a file or a call holds has been    *)
(* given to its question, one reply at a time; an answer exists from the   *)
(* moment a call is "answered"; -refresh is common to a process.  That of  *)
(* the second: an entry paid for is there, unless the one call under way   *)
(* for it is a refresh.                                                    *)
(*                                                                         *)
(* Last, what is decoded from any message a backend may send.              *)
(***************************************************************************)
EXTENDS PromptCache, Induction, FiniteSetTheorems, TLAPS

Stages == {"idle", "asked", "calling", "replied", "writing", "answered", "failed"}

One(S) == \A x, y \in S : x = y

Shape ==
    /\ file \in [Keys -> [size : Nat, text : SUBSET Replies]]
    /\ given \in [Questions -> SUBSET Replies]
    /\ anew \subseteq Calls
    /\ stage \in [Calls -> Stages]
    /\ reply \in [Calls -> SUBSET Replies]
    /\ answer \in [Calls -> SUBSET Replies]

Kept == \A k \in Keys : file[k].text \subseteq given[k.question] /\ One(file[k].text)

Held == \A c \in Calls :
    /\ reply[c] \subseteq given[Question(c)]
    /\ One(reply[c])
    /\ stage[c] \in {"replied", "writing"} => reply[c] # {}
    /\ stage[c] # "answered" => answer[c] = {}

Common == \A c, d \in Calls : c.process = d.process => (c \in anew <=> d \in anew)

IInv == Shape /\ Kept /\ Held /\ Common

(* A call's key and question are among the keys and questions. *)
LEMMA OwnKey ==
    ASSUME NEW c \in Calls
    PROVE  Key(c) \in Keys /\ Question(c) \in Questions /\ Key(c).question = Question(c)
  BY DEF Keys, Questions, Key

LEMMA KeyQuestions == \A k \in Keys : k.question \in Questions
  BY DEF Keys, Questions, Key

(* Writing any part of an entry leaves what was there, that entry, or      *)
(* nothing.                                                                *)
LEMMA WrittenHolds ==
    ASSUME NEW f \in [size : Nat, text : SUBSET Replies], NEW r \in Replies,
           NEW n \in 0..Size[r]
    PROVE  /\ Written(f, r, n) \in [size : Nat, text : SUBSET Replies]
           /\ Written(f, r, n).text \in {f.text, {r}, {}}
<1>1. Size[r] \in Nat
  BY CacheAssumption
<1>2. n \in Nat
  BY <1>1
<1>3. CASE n = 0 \/ f.text = {r}
  BY <1>3 DEF Written
<1>4. CASE ~(n = 0 \/ f.text = {r})
  <2>1. CASE n = Size[r] /\ f.size <= n
    BY <1>2, <1>4, <2>1 DEF Written
  <2>2. CASE ~(n = Size[r] /\ f.size <= n)
    BY <1>2, <1>4, <2>2 DEF Written
  <2> QED BY <2>1, <2>2
<1> QED BY <1>3, <1>4

LEMMA InitIInv == Init => IInv
<1> SUFFICES ASSUME Init PROVE IInv
  OBVIOUS
<1>1. Shape
  BY DEF Init, Shape, Blank, Nothing, Stages
<1>2. Kept
  BY DEF Init, Kept, One, Blank
<1>3. Held
  BY OwnKey DEF Init, Held, One, Nothing
<1>4. Common
  BY DEF Init, Common
<1> QED BY <1>1, <1>2, <1>3, <1>4 DEF IInv

(* The calls of a process are reset together; the files do not change.     *)
LEMMA ResetKeeps ==
    ASSUME IInv, NEW p, NEW to \in {"asked", "idle"}, Reset(p, to),
           UNCHANGED <<file, given>>, anew' \subseteq Calls, Common'
    PROVE  IInv'
<1>1. Shape'
  BY DEF IInv, Shape, Reset, Stages
<1>2. Kept'
  BY DEF IInv, Kept
<1>3. Held'
  BY DEF IInv, Shape, Held, One, Reset
<1> QED BY <1>1, <1>2, <1>3 DEF IInv

(* A file changes to what it held, the reply in hand, or nothing.          *)
LEMMA PutKeeps ==
    ASSUME IInv, NEW c \in Calls, NEW f \in [size : Nat, text : SUBSET Replies], Put(c, f),
           f.text \in {file[Key(c)].text, reply[c], {}}, UNCHANGED given
    PROVE  Kept' /\ file' \in [Keys -> [size : Nat, text : SUBSET Replies]]
<1>1. file' \in [Keys -> [size : Nat, text : SUBSET Replies]]
  BY DEF IInv, Shape, Put
<1>2. ASSUME NEW k \in Keys PROVE file'[k].text \subseteq given[k.question] /\ One(file'[k].text)
  <2>1. CASE k # Key(c)
    BY <2>1 DEF IInv, Shape, Kept, Put
  <2>2. CASE k = Key(c)
    <3>1. file'[k] = f
      BY <2>2 DEF IInv, Shape, Put
    <3> QED BY <2>2, <3>1, OwnKey DEF IInv, Kept, Held, One
  <2> QED BY <2>1, <2>2
<1> QED BY <1>1, <1>2 DEF Kept

LEMMA StepIInv == IInv /\ [Next]_vars => IInv'
<1> SUFFICES ASSUME IInv, [Next]_vars PROVE IInv'
  OBVIOUS
<1>1. ASSUME NEW p \in Processes, Start(p) PROVE IInv'
  <2>1. anew' \subseteq Calls /\ Common'
    BY <1>1 DEF Start, IInv, Common
  <2> QED BY <1>1, <2>1, ResetKeeps DEF Start
<1>2. ASSUME NEW p \in Processes, Stop(p) PROVE IInv'
  <2>1. anew' \subseteq Calls /\ Common'
    BY <1>2 DEF Stop, IInv, Shape, Common
  <2> QED BY <1>2, <2>1, ResetKeeps DEF Stop
<1>3. ASSUME NEW c \in Calls, Hit(c) PROVE IInv'
  <2>1. file[Key(c)].text \subseteq Replies
    BY OwnKey DEF IInv, Shape
  <2>2. Shape'
    BY <1>3, <2>1 DEF Hit, Go, process, IInv, Shape, Stages
  <2>3. Held'
    BY <1>3 DEF Hit, At, Go, IInv, Shape, Held, One
  <2> QED BY <1>3, <2>2, <2>3 DEF Hit, process, IInv, Kept, Common
<1>4. ASSUME NEW c \in Calls, Miss(c) \/ CallFails(c) PROVE IInv'
  <2>1. Shape'
    BY <1>4 DEF Miss, CallFails, Go, process, IInv, Shape, Stages
  <2>2. Held'
    BY <1>4 DEF Miss, CallFails, At, Go, IInv, Shape, Held, One
  <2> QED BY <1>4, <2>1, <2>2 DEF Miss, CallFails, process, IInv, Kept, Common
<1>5. ASSUME NEW c \in Calls, NEW r \in Replies, ModelReplies(c, r) PROVE IInv'
  <2>1. /\ given' = [given EXCEPT ![Question(c)] = given[Question(c)] \cup {r}]
        /\ reply' = [reply EXCEPT ![c] = {r}]
        /\ UNCHANGED <<file, anew, answer>>
    BY <1>5 DEF ModelReplies, process
  <2>2. \A q \in Questions : given[q] \subseteq given'[q]
    BY <2>1, OwnKey DEF IInv, Shape
  <2>3. r \in given'[Question(c)]
    BY <2>1, OwnKey DEF IInv, Shape
  <2>4. Shape'
    <3>1. given' \in [Questions -> SUBSET Replies]
      BY <2>1, OwnKey DEF IInv, Shape
    <3> QED BY <1>5, <2>1, <3>1 DEF ModelReplies, Go, IInv, Shape, Stages
  <2>5. Kept'
    BY <2>1, <2>2, KeyQuestions DEF IInv, Kept
  <2>6. Held'
    <3> SUFFICES ASSUME NEW d \in Calls
        PROVE /\ reply'[d] \subseteq given'[Question(d)] /\ One(reply'[d])
              /\ stage'[d] \in {"replied", "writing"} => reply'[d] # {}
              /\ stage'[d] # "answered" => answer'[d] = {}
      BY DEF Held
    <3>1. CASE d = c
      BY <1>5, <2>1, <2>3, <3>1 DEF ModelReplies, At, Go, IInv, Shape, Held, One
    <3>2. CASE d # c
      BY <1>5, <2>1, <2>2, <3>2, OwnKey DEF ModelReplies, Go, IInv, Shape, Held, One
    <3> QED BY <3>1, <3>2
  <2> QED BY <2>1, <2>4, <2>5, <2>6 DEF IInv, Common
<1>6. ASSUME NEW c \in Calls, Truncate(c) PROVE IInv'
  <2>1. Kept' /\ file' \in [Keys -> [size : Nat, text : SUBSET Replies]]
    BY <1>6, PutKeeps DEF Truncate, Blank
  <2>2. Shape'
    BY <1>6, <2>1 DEF Truncate, Go, process, IInv, Shape, Stages
  <2>3. Held'
    BY <1>6 DEF Truncate, At, Go, IInv, Shape, Held, One
  <2> QED BY <1>6, <2>1, <2>2, <2>3 DEF Truncate, process, IInv, Common
<1>7. ASSUME NEW c \in Calls, Write(c) \/ WriteFails(c) PROVE IInv'
  <2>1. PICK r \in reply[c] : \E n \in 0..Size[r] : Put(c, Written(file[Key(c)], r, n))
    <3>1. \A r \in reply[c] : Size[r] \in Nat
      BY CacheAssumption DEF IInv, Shape
    <3> QED BY <1>7, <3>1 DEF Write, WriteFails
  <2>2. PICK n \in 0..Size[r] : Put(c, Written(file[Key(c)], r, n))
    BY <2>1
  <2> DEFINE f == Written(file[Key(c)], r, n)
  <2>3. r \in Replies /\ reply[c] = {r}
    BY DEF IInv, Shape, Held, One
  <2>4. f \in [size : Nat, text : SUBSET Replies] /\ f.text \in {file[Key(c)].text, {r}, {}}
    BY <2>3, OwnKey, WrittenHolds DEF IInv, Shape
  <2>5. UNCHANGED <<given, anew, reply>>
    BY <1>7 DEF Write, WriteFails, process
  <2>6. Kept' /\ file' \in [Keys -> [size : Nat, text : SUBSET Replies]]
    BY <2>2, <2>3, <2>4, <2>5, PutKeeps
  <2>7. Shape'
    BY <1>7, <2>5, <2>6 DEF Write, WriteFails, Go, IInv, Shape, Stages
  <2>8. Held'
    BY <1>7, <2>5 DEF Write, WriteFails, At, Go, IInv, Shape, Held, One
  <2> QED BY <2>5, <2>6, <2>7, <2>8 DEF IInv, Common
<1>8. ASSUME UNCHANGED vars PROVE IInv'
  BY <1>8 DEF vars, IInv, Shape, Kept, Held, Common
<1> QED BY <1>1, <1>2, <1>3, <1>4, <1>5, <1>6, <1>7, <1>8 DEF Next, Step

(* Whatever is held has been given to its question. *)
LEMMA InvariantHolds == Spec => []IInv
<1> QED BY InitIInv, StepIInv, PTL DEF Spec
-----------------------------------------------------------------------------

LEMMA InitRefines == Init => O!Init
  BY DEF Init, O!Init, O!Questions, O!Nothing, Questions, Nothing

LEMMA ResetRefines ==
    ASSUME NEW p, NEW to, Reset(p, to), UNCHANGED given,
           anew' \in {anew \cup {c \in Calls : c.process = p}, anew \ {c \in Calls : c.process = p}}
    PROVE  O!Restart({c \in Calls : c.process = p})
  BY DEF Reset, O!Restart

LEMMA StepRefines == IInv /\ [Next]_vars => [O!Next]_(O!vars)
<1> SUFFICES ASSUME IInv, [Next]_vars PROVE [O!Next]_(O!vars)
  OBVIOUS
<1> DEFINE Own(p) == {c \in Calls : c.process = p}
<1>0. \A p : Own(p) \in SUBSET Calls
  OBVIOUS
<1>1. ASSUME NEW p \in Processes, Start(p) PROVE O!Next
  <2>1. anew' \in {anew \cup Own(p), anew \ Own(p)}
    BY <1>1 DEF Start, IInv, Shape
  <2> QED BY <1>0, <1>1, <2>1, ResetRefines DEF Start, O!Next
<1>2. ASSUME NEW p \in Processes, Stop(p) PROVE O!Next
  <2>1. anew' \in {anew \cup Own(p), anew \ Own(p)}
    BY <1>2 DEF Stop, IInv, Shape, Common
  <2> QED BY <1>0, <1>2, <2>1, ResetRefines DEF Stop, O!Next
<1>3. ASSUME NEW c \in Calls, Hit(c) PROVE O!Next
  <2>1. PICK r \in Replies : file[Key(c)].text = {r} /\ r \in given[Question(c)]
    BY <1>3, OwnKey DEF Hit, IInv, Shape, Kept, One
  <2>2. O!Answer(c, r)
    BY <1>3, <2>1 DEF Hit, At, process, IInv, Held, O!Answer
  <2> QED BY <2>2 DEF O!Next
<1>4. ASSUME NEW c \in Calls, NEW r \in Replies, ModelReplies(c, r) PROVE O!Next
  <2>1. O!Speak(c, r)
    BY <1>4 DEF ModelReplies, At, process, IInv, Held, O!Speak
  <2> QED BY <2>1 DEF O!Next
<1>5. ASSUME NEW c \in Calls, Write(c) PROVE O!Next
  <2>1. PICK r \in Replies : reply[c] = {r} /\ r \in given[Question(c)]
    BY <1>5 DEF Write, IInv, Shape, Held, One
  <2>2. O!Answer(c, r)
    BY <1>5, <2>1 DEF Write, At, process, IInv, Held, O!Answer
  <2> QED BY <2>2 DEF O!Next
<1>6. ASSUME NEW c \in Calls, Miss(c) \/ CallFails(c) \/ Truncate(c) \/ WriteFails(c)
      PROVE UNCHANGED O!vars
  BY <1>6 DEF Miss, CallFails, Truncate, WriteFails, process, O!vars
<1>7. UNCHANGED vars => UNCHANGED O!vars
  BY DEF vars, O!vars
<1> QED BY <1>1, <1>2, <1>3, <1>4, <1>5, <1>6, <1>7 DEF Next, Step

(* An answer is a reply to the very question, a fresh one after -refresh,  *)
(* however the processes interleave and whatever is cut short or lost.     *)
THEOREM CacheImplementsOracle == Spec => AnswersAreReplies
<1> QED BY InvariantHolds, InitRefines, StepRefines, PTL DEF Spec, O!Spec, AnswersAreReplies
-----------------------------------------------------------------------------

Alone(c) == \A d \in Calls \ {c} : Key(d) = Key(c) => ~Busy(d)

Safe(c) ==
    /\ Alone(c)
    /\ stage[c] = "writing" => file[Key(c)] = Blank /\ Key(c) \notin paid
    /\ c \notin anew => Key(c) \notin paid

Paid ==
    /\ paid \subseteq Keys
    /\ \A k \in paid : k \notin raced => file[k].text # {}
    /\ \A c \in Calls : Busy(c) /\ Key(c) \notin raced => Safe(c)

LEMMA InitPaid == Init => Paid
  BY DEF Init, Paid, Busy

(* A process starts over or ends: calls become idle, files stay.           *)
LEMMA ResetPaid ==
    ASSUME IInv, Paid, NEW p, NEW to \in {"asked", "idle"}, Reset(p, to),
           UNCHANGED <<file, paid, raced>>,
           \A c \in Calls : c.process # p => (c \in anew <=> c \in anew')
    PROVE  Paid'
<1>1. \A c \in Calls : Busy(c)' => Busy(c) /\ c.process # p /\ stage'[c] = stage[c]
  BY DEF Reset, Busy, IInv, Shape
<1>2. ASSUME NEW c \in Calls, Busy(c)', Key(c) \notin raced' PROVE Safe(c)'
  <2>1. Safe(c)
    BY <1>1, <1>2 DEF Paid
  <2> QED BY <1>1, <1>2, <2>1 DEF Safe, Alone
<1> QED BY <1>2 DEF Paid

(* A call goes on from a step to the next and leaves files and accounts.   *)
LEMMA GoPaid ==
    ASSUME IInv, Paid, NEW c \in Calls, NEW to \in Stages, Go(c, to), to # "writing",
           UNCHANGED <<file, paid, raced, anew>>,
           to \in {"calling", "replied", "writing"} => Busy(c)
    PROVE  Paid'
<1>1. \A d \in Calls : d # c => stage'[d] = stage[d]
  BY DEF Go, IInv, Shape
<1>2. stage'[c] = to
  BY DEF Go, IInv, Shape
<1>3. \A d \in Calls : Busy(d)' => Busy(d)
  BY <1>1, <1>2 DEF Busy
<1>4. ASSUME NEW d \in Calls, Busy(d)', Key(d) \notin raced' PROVE Safe(d)'
  <2>1. Safe(d)
    BY <1>3, <1>4 DEF Paid
  <2> QED BY <1>1, <1>2, <1>3, <2>1 DEF Safe, Alone
<1> QED BY <1>4 DEF Paid

(* The call that is alone with its key truncates, writes or fails to.      *)
LEMMA PutPaid ==
    ASSUME IInv, Paid, NEW c \in Calls, Busy(c), NEW f, Put(c, f), NEW to \in Stages, Go(c, to),
           UNCHANGED <<raced, anew>>,
           \A k \in Keys \ {Key(c)} : k \in paid' <=> k \in paid, paid' \subseteq Keys,
           Key(c) \notin raced =>
              \/ Key(c) \in paid' /\ f.text # {} /\ to = "answered"
              \/ Key(c) \notin paid' /\ (to = "writing" => f = Blank)
    PROVE  Paid'
<1>1. \A d \in Calls : d # c => stage'[d] = stage[d]
  BY DEF Go, IInv, Shape
<1>2. stage'[c] = to
  BY DEF Go, IInv, Shape
<1>3. file'[Key(c)] = f /\ \A k \in Keys : k # Key(c) => file'[k] = file[k]
  BY OwnKey DEF Put, IInv, Shape
<1>4. ASSUME NEW k \in paid', k \notin raced' PROVE file'[k].text # {}
  <2>1. CASE k = Key(c)
    BY <1>3, <1>4, <2>1
  <2>2. CASE k # Key(c)
    BY <1>3, <1>4, <2>2 DEF Paid
  <2> QED BY <2>1, <2>2
<1>5. ASSUME NEW d \in Calls, Busy(d)', Key(d) \notin raced' PROVE Safe(d)'
  <2>1. CASE d = c
    <3>1. Alone(c)
      BY <1>5, <2>1 DEF Paid, Safe
    <3>2. Alone(c)'
      BY <1>1, <3>1 DEF Alone, Busy
    <3>3. to # "answered"
      BY <1>2, <1>5, <2>1 DEF Busy
    <3> QED BY <1>2, <1>3, <1>5, <2>1, <3>2, <3>3 DEF Safe
  <2>2. CASE d # c
    <3>1. Busy(d)
      BY <1>1, <1>5, <2>2 DEF Busy
    <3>2. Safe(d)
      BY <1>5, <3>1 DEF Paid
    <3>3. Key(d) # Key(c)
      BY <2>2, <3>2 DEF Safe, Alone
    <3>4. Alone(d)'
      BY <1>1, <3>2, <3>3 DEF Safe, Alone, Busy
    <3> QED BY <1>1, <1>3, <2>2, <3>2, <3>3, <3>4, OwnKey DEF Safe
  <2> QED BY <2>1, <2>2
<1> QED BY <1>4, <1>5 DEF Paid

LEMMA StepPaid == IInv /\ Paid /\ [Next]_vars => Paid'
<1> SUFFICES ASSUME IInv, Paid, [Next]_vars PROVE Paid'
  OBVIOUS
<1>1. ASSUME NEW p \in Processes, Start(p) PROVE Paid'
  <2>1. \A c \in Calls : c.process # p => (c \in anew <=> c \in anew')
    BY <1>1 DEF Start
  <2> QED BY <1>1, <2>1, ResetPaid DEF Start
<1>2. ASSUME NEW p \in Processes, Stop(p) PROVE Paid'
  BY <1>2, ResetPaid DEF Stop
<1>3. ASSUME NEW c \in Calls, Hit(c) PROVE Paid'
  BY <1>3, GoPaid DEF Hit, process, Stages
<1>4. ASSUME NEW c \in Calls, Miss(c) PROVE Paid'
  <2>1. UNCHANGED <<file, anew, paid>> /\ stage' = [stage EXCEPT ![c] = "calling"]
    BY <1>4 DEF Miss, Go, process
  <2>2. stage'[c] = "calling" /\ \A d \in Calls : d # c => stage'[d] = stage[d]
    BY <2>1 DEF IInv, Shape
  <2>3. raced \subseteq raced'
    BY <1>4 DEF Miss
  <2>4. ASSUME NEW d \in Calls, Busy(d)', Key(d) \notin raced' PROVE Safe(d)'
    <3>1. CASE d = c
      <4>1. \A e \in Calls \ {c} : Key(e) = Key(c) => ~Busy(e)
        BY <1>4, <2>4, <3>1 DEF Miss
      <4>2. Alone(c)'
        BY <2>2, <4>1 DEF Alone, Busy
      <4>3. c \notin anew => Key(c) \notin paid
        BY <1>4, <2>3, <2>4, <3>1 DEF Miss, Paid
      <4> QED BY <2>1, <2>2, <3>1, <4>2, <4>3 DEF Safe
    <3>2. CASE d # c
      <4>1. Busy(d) /\ Key(d) \notin raced
        BY <2>2, <2>3, <2>4, <3>2 DEF Busy
      <4>2. Safe(d)
        BY <4>1 DEF Paid
      <4>3. Key(d) # Key(c)
        BY <1>4, <2>4, <3>2, <4>1 DEF Miss
      <4>4. Alone(d)'
        BY <2>2, <4>2, <4>3 DEF Safe, Alone, Busy
      <4> QED BY <2>1, <2>2, <3>2, <4>2, <4>4 DEF Safe
    <3> QED BY <3>1, <3>2
  <2> QED BY <2>1, <2>3, <2>4 DEF Paid
<1>5. ASSUME NEW c \in Calls, NEW r \in Replies, ModelReplies(c, r) PROVE Paid'
  BY <1>5, GoPaid DEF ModelReplies, At, Busy, process, Stages
<1>6. ASSUME NEW c \in Calls, CallFails(c) PROVE Paid'
  BY <1>6, GoPaid DEF CallFails, process, Stages
<1>7. ASSUME NEW c \in Calls, Truncate(c) PROVE Paid'
  <2>1. Busy(c) /\ Put(c, Blank) /\ Go(c, "writing") /\ UNCHANGED <<raced, anew>>
    BY <1>7 DEF Truncate, At, Busy, process
  <2>2. paid' = IF c \in anew THEN paid \ {Key(c)} ELSE paid
    BY <1>7 DEF Truncate
  <2>3. Key(c) \notin raced => Key(c) \notin paid'
    BY <2>1, <2>2 DEF Paid, Safe
  <2> QED BY <2>1, <2>2, <2>3, PutPaid DEF Paid, Stages
<1>8. ASSUME NEW c \in Calls, Write(c) PROVE Paid'
  <2>1. PICK r \in reply[c] : Put(c, Written(file[Key(c)], r, Size[r]))
    BY <1>8 DEF Write
  <2>2. Busy(c) /\ stage[c] = "writing" /\ Go(c, "answered") /\ UNCHANGED <<raced, anew>>
        /\ paid' = paid \cup {Key(c)}
    BY <1>8 DEF Write, At, Busy, process
  <2>3. Key(c) \notin raced => Written(file[Key(c)], r, Size[r]).text # {}
    <3>1. Size[r] \in Nat \ {0}
      BY CacheAssumption DEF IInv, Shape
    <3>2. Key(c) \notin raced => file[Key(c)] = Blank
      BY <2>2 DEF Paid, Safe
    <3>3. Written(Blank, r, Size[r]).text = {r}
      BY <3>1 DEF Written, Blank
    <3> QED BY <3>2, <3>3
  <2> QED BY <2>1, <2>2, <2>3, OwnKey, PutPaid DEF Paid, Stages
<1>9. ASSUME NEW c \in Calls, WriteFails(c) PROVE Paid'
  <2>1. PICK f : Put(c, f)
    BY <1>9 DEF WriteFails
  <2>2. Busy(c) /\ stage[c] = "writing" /\ Go(c, "failed") /\ UNCHANGED <<raced, anew, paid>>
    BY <1>9 DEF WriteFails, At, Busy, process
  <2>3. Key(c) \notin raced => Key(c) \notin paid'
    BY <2>2 DEF Paid, Safe
  <2> QED BY <2>1, <2>2, <2>3, PutPaid DEF Paid, Stages
<1>10. ASSUME UNCHANGED vars PROVE Paid'
  BY <1>10 DEF vars, Paid, Safe, Alone, Busy
<1> QED BY <1>1, <1>2, <1>3, <1>4, <1>5, <1>6, <1>7, <1>8, <1>9, <1>10 DEF Next, Step

(* Only a call that finds nothing asks the model.                          *)
LEMMA MissPays ==
    ASSUME IInv, Paid, Next
    PROVE  \A c \in Calls : PaidAgain(c) => Key(c) \in raced
<1> SUFFICES ASSUME NEW c \in Calls, PaidAgain(c) PROVE Key(c) \in raced
  OBVIOUS
<1>1. stage[c] = "asked" /\ stage'[c] = "calling" /\ c \notin anew /\ Key(c) \in paid
  BY DEF PaidAgain
<1>2. ASSUME NEW p \in Processes, Start(p) \/ Stop(p) PROVE FALSE
  BY <1>1, <1>2 DEF Start, Stop, Reset, IInv, Shape
<1>3. PICK d \in Calls : Step(d)
  BY <1>2 DEF Next
<1>4. d = c /\ Miss(d)
  BY <1>1, <1>3 DEF Step, Hit, Miss, CallFails, Truncate, Write, WriteFails, ModelReplies, Go, At,
       IInv, Shape
<1>5. file[Key(c)].text = {}
  BY <1>1, <1>4 DEF Miss
<1> QED BY <1>1, <1>5 DEF Paid

(* An answered call is not paid for again, for any number of programs that *)
(* share the cache, fail and die, unless two raced for its entry.          *)
THEOREM NothingPaidTwice == Spec => RerunIsFree
<1>1. Spec => []Paid
  BY InvariantHolds, InitPaid, StepPaid, PTL DEF Spec
<1>2. IInv /\ Paid /\ [Next]_vars => [\A c \in Calls : PaidAgain(c) => Key(c) \in raced]_vars
  BY MissPays
<1> QED BY <1>1, <1>2, InvariantHolds, PTL DEF Spec, RerunIsFree
-----------------------------------------------------------------------------
(* Decoding, for messages of any length.                                   *)

LEMMA BracesDiffer == Open # Close
  BY Zenon DEF Open, Close

(* An object opens with its first token and closes with another, so its    *)
(* corners are a span.                                                     *)
LEMMA ObjectsAreSpans ==
    ASSUME NEW text \in Seq(Tokens), NEW a \in Positions(text, Open), NEW b \in Positions(text, Close),
           ObjectAt(text, a, b)
    PROVE  <<a, b>> \in Spans(text)
<1>1. a \in 1..Len(text) /\ b \in 1..Len(text) /\ text[a] = Open /\ text[b] = Close
  BY DEF Positions
<1>2. SubSeq(text, a, b) # <<>>
  BY DEF ObjectAt, IsObject
<1>3. a <= b
  BY <1>1, <1>2
<1> QED BY <1>1, <1>3, BracesDiffer DEF Spans

(* A text that is an object has a span.                                    *)
LEMMA ObjectHasASpan ==
    ASSUME NEW text \in Seq(Tokens), IsObject(text)
    PROVE  Spans(text) # {}
<1> DEFINE k == Len(text)
           opening == {m \in 1..k : text[m] = Open}
           closing == {m \in 1..k : text[m] = Close}
<1>1. k \in Nat \ {0} /\ DOMAIN text = 1..k
  BY DEF IsObject
<1>2. text[1] = Open /\ Depth(text, k) = 0
  BY <1>1 DEF IsObject
<1>3. IsFiniteSet(opening) /\ IsFiniteSet(closing)
  <2>1. IsFiniteSet(1..k)
    BY <1>1, FS_Interval
  <2>2. opening \in SUBSET (1..k) /\ closing \in SUBSET (1..k)
    OBVIOUS
  <2> QED BY <2>1, <2>2, FS_Subset
<1>4. Cardinality(opening) = Cardinality(closing)
  <2>1. Cardinality(opening) \in Nat /\ Cardinality(closing) \in Nat
    BY <1>3, FS_CardinalityType
  <2>2. Cardinality(opening) - Cardinality(closing) = 0
    BY <1>2 DEF Depth
  <2> HIDE DEF opening, closing
  <2> QED BY <2>1, <2>2
<1>5. closing # {}
  <2>1. opening # {}
    BY <1>1, <1>2
  <2>2. Cardinality(opening) # 0
    BY <2>1, <1>3, FS_EmptySet
  <2> QED BY <2>2, <1>4, FS_EmptySet
<1>6. PICK m \in 1..k : text[m] = Close
  BY <1>5
<1>7. 1 < m
  BY <1>1, <1>2, <1>6, BracesDiffer
<1>8. <<1, m>> \in Spans(text)
  BY <1>1, <1>2, <1>6, <1>7 DEF Spans, Positions
<1> QED BY <1>8

Outermost(text, s) == \A t \in Spans(text) : s[1] <= t[1] /\ t[2] <= s[2]

(* Spans have an outermost, from the first opening brace to the last       *)
(* closing one.                                                            *)
LEMMA OutermostExists ==
    ASSUME NEW text \in Seq(Tokens), Spans(text) # {}
    PROVE  \E s \in Spans(text) : Outermost(text, s)
<1> DEFINE k == Len(text)
           opening == Positions(text, Open)
           closing == Positions(text, Close)
           mirrored == {k - b : b \in closing}
<1>1. PICK s \in Spans(text) : s = <<s[1], s[2]>> /\ s[1] \in opening /\ s[2] \in closing /\ s[1] < s[2]
  BY DEF Spans
<1>2. opening \subseteq 1..k /\ closing \subseteq 1..k /\ k \in Nat
  BY DEF Positions
<1>3. PICK a \in opening : \A x \in opening : a <= x
  BY <1>1, <1>2, LeastExists
<1>4. PICK b \in closing : \A y \in closing : y <= b
  <2>1. mirrored \subseteq Nat /\ mirrored # {}
    BY <1>1, <1>2
  <2>2. PICK i \in mirrored : \A j \in mirrored : i <= j
    BY <2>1, LeastExists
  <2>3. PICK y \in closing : i = k - y
    BY <2>2
  <2>4. ASSUME NEW z \in closing PROVE z <= y
    <3>1. k - y <= k - z
      BY <2>2, <2>3
    <3>2. y \in Int /\ z \in Int
      BY <1>2
    <3> HIDE DEF k
    <3> QED BY <3>1, <3>2, <1>2
  <2> QED BY <2>3, <2>4
<1>5. a < b
  BY <1>1, <1>2, <1>3, <1>4
<1>6. <<a, b>> \in Spans(text)
  BY <1>3, <1>4, <1>5 DEF Spans
<1>7. Outermost(text, <<a, b>>)
  <2> SUFFICES ASSUME NEW t \in Spans(text) PROVE a <= t[1] /\ t[2] <= b
    BY DEF Outermost
  <2>1. t[1] \in opening /\ t[2] \in closing
    BY DEF Spans
  <2> QED BY <2>1, <1>3, <1>4
<1> QED BY <1>6, <1>7

(* There is one outermost span, and it is what Span cuts out.              *)
LEMMA SpanIsOutermost ==
    ASSUME NEW text \in Seq(Tokens), NEW s \in Spans(text), Outermost(text, s)
    PROVE  Span(text) = SubSeq(text, s[1], s[2])
<1> DEFINE c == CHOOSE t \in Spans(text) : Outermost(text, t)
<1>1. c \in Spans(text) /\ Outermost(text, c)
  OBVIOUS
<1>2. s[1] \in Int /\ s[2] \in Int /\ c[1] \in Int /\ c[2] \in Int
  BY <1>1 DEF Spans, Positions
<1>3. c[1] = s[1] /\ c[2] = s[2]
  <2>1. s[1] <= c[1] /\ c[2] <= s[2] /\ c[1] <= s[1] /\ s[2] <= c[2]
    BY <1>1 DEF Outermost
  <2> HIDE DEF c
  <2> QED BY <2>1, <1>2
<1>4. Span(text) = SubSeq(text, c[1], c[2])
  BY DEF Span, Outermost
<1> QED BY <1>3, <1>4

(* An object that has all braces inside it is what is accepted; and what   *)
(* is accepted is an object that has every other inside it, or null.       *)
LEMMA ReplyIsWhole ==
    ASSUME NEW msg, msg.text \in Seq(Tokens)
    PROVE  FindsTheReply(msg)
<1> DEFINE text == msg.text
           corners == Positions(text, Open) \X Positions(text, Close)
           braces == Positions(text, Open) \cup Positions(text, Close)
           objects == {o \in corners : ObjectAt(text, o[1], o[2])}
           found == Accepted(DecodeCLI(msg))
<1>1. objects \subseteq Spans(text)
  <2> SUFFICES ASSUME NEW o \in objects PROVE o \in Spans(text)
    OBVIOUS
  <2>1. o = <<o[1], o[2]>> /\ o[1] \in Positions(text, Open) /\ o[2] \in Positions(text, Close)
        /\ ObjectAt(text, o[1], o[2])
    OBVIOUS
  <2> HIDE DEF objects
  <2> QED BY <2>1, ObjectsAreSpans
<1>2. ASSUME msg.exit = 0, msg.wrapper = "result", NEW o \in objects, braces \subseteq o[1]..o[2]
      PROVE  found = {SubSeq(text, o[1], o[2])}
  <2>1. o \in Spans(text) /\ ObjectAt(text, o[1], o[2])
    BY <1>1, <1>2
  <2>2. Outermost(text, o)
    <3> SUFFICES ASSUME NEW t \in Spans(text) PROVE o[1] <= t[1] /\ t[2] <= o[2]
      BY DEF Outermost
    <3>1. t[1] \in braces /\ t[2] \in braces
      BY DEF Spans
    <3> QED BY <3>1, <1>2
  <2>3. Span(text) = SubSeq(text, o[1], o[2])
    BY <2>1, <2>2, SpanIsOutermost
  <2>4. IsObject(Span(text))
    BY <2>1, <2>3 DEF ObjectAt
  <2>5. DecodeCLI(msg) = OK(Span(text))
    BY <1>2, <2>4 DEF DecodeCLI, Unmarshal
  <2> QED BY <2>3, <2>5 DEF Accepted, OK
<1>3. ASSUME NEW r \in found, r # Zero
      PROVE  \E o \in objects :
                /\ r = SubSeq(text, o[1], o[2])
                /\ \A x \in objects : o[1] <= x[1] /\ x[2] <= o[2]
  <2>1. IsObject(Span(text)) /\ r = Span(text)
    BY <1>3 DEF Accepted, DecodeCLI, Unmarshal, OK, Error
  <2>2. Spans(text) # {}
    BY <2>1, ObjectHasASpan DEF Span
  <2>3. PICK o \in Spans(text) : Outermost(text, o)
    BY <2>2, OutermostExists
  <2>4. r = SubSeq(text, o[1], o[2])
    BY <2>1, <2>3, SpanIsOutermost
  <2>5. o \in objects
    BY <2>1, <2>4, <2>3 DEF ObjectAt, Spans
  <2>6. \A x \in objects : o[1] <= x[1] /\ x[2] <= o[2]
    BY <1>1, <2>3 DEF Outermost
  <2> HIDE DEF objects
  <2> QED BY <2>4, <2>5, <2>6
<1> QED BY <1>2, <1>3 DEF FindsTheReply

(* A page's calls merge into the input of the only one.                    *)
LEMMA OneUseIsItsInput ==
    ASSUME NEW content, NEW n, ToolUses(content) = {n}, AllInputs(content).ok,
           content[n].input = [f \in DOMAIN content[n].input |-> content[n].input[f]]
    PROVE  AllInputs(content).reply = content[n].input
<1> DEFINE input == content[n].input
           last(f) == CHOOSE m \in Stating(content, f) : \A i \in Stating(content, f) : i <= m
<1>1. UNION {DOMAIN content[m].input : m \in ToolUses(content)} = DOMAIN input
  OBVIOUS
<1>2. ASSUME NEW f \in DOMAIN input PROVE last(f) = n
  <2>1. Stating(content, f) = {n}
    BY <1>2 DEF Stating
  <2> QED BY <2>1
<1> QED BY <1>1, <1>2 DEF AllInputs, OK, Error

(* The page pass apart, the first call's input is the reply; the page pass *)
(* merges one input when there is one call.                                *)
LEMMA ReplyIsOneCall ==
    ASSUME NEW p, NEW msg, msg.content \in Seq(Blocks)
    PROVE  IsOneCall(p, msg)
<1> DEFINE content == msg.content
           uses == ToolUses(content)
           own == {n \in DOMAIN content : content[n].name = Tool}
<1> SUFFICES ASSUME NEW r \in Accepted(DecodeAPI(p, msg)), ~(p = "page" /\ Cardinality(own) > 1)
             PROVE  \E n \in own : r = content[n].input
  BY DEF IsOneCall
<1>1. uses \subseteq own /\ uses # {} /\ own \subseteq 1..Len(content) /\ Len(content) \in Nat
  BY DEF ToolUses, Accepted, DecodeAPI, Error
<1>2. CASE p # "page"
  <2> DEFINE first == CHOOSE n \in uses : \A m \in uses : n <= m
  <2>1. \E n \in uses : \A m \in uses : n <= m
    BY <1>1, LeastExists
  <2>2. first \in uses
    BY <2>1
  <2>3. r = content[first].input
    BY <1>2 DEF Accepted, DecodeAPI, FirstInput, OK, Error
  <2> QED BY <1>1, <2>2, <2>3
<1>3. CASE p = "page"
  <2>1. PICK n \in uses : TRUE
    BY <1>1
  <2>2. IsFiniteSet(own)
    BY <1>1, FS_Interval, FS_Subset
  <2>3. own = {n}
    <3> SUFFICES ASSUME NEW m \in own, m # n PROVE FALSE
      BY <1>1, <2>1
    <3>1. {m, n} \in SUBSET own
      BY <1>1, <2>1
    <3>2. Cardinality({m, n}) = 2
      <4>1. IsFiniteSet({n}) /\ Cardinality({n}) = 1
        BY FS_Singleton
      <4>2. m \notin {n}
        OBVIOUS
      <4>3. Cardinality({n} \cup {m}) = 1 + 1
        BY <4>1, <4>2, FS_AddElement, Zenon
      <4>4. {n} \cup {m} = {m, n}
        OBVIOUS
      <4>5. 1 + 1 = 2
        OBVIOUS
      <4> QED BY <4>3, <4>4, <4>5, Zenon
    <3>3. Cardinality({m, n}) <= Cardinality(own) /\ Cardinality(own) \in Nat
      BY <3>1, <2>2, FS_Subset, FS_CardinalityType
    <3> QED BY <3>2, <3>3, <1>3
  <2>4. uses = {n}
    BY <1>1, <2>1, <2>3
  <2>5. content[n].input = [f \in DOMAIN content[n].input |-> content[n].input[f]]
    BY <1>1, <2>1, MessagesAssumption
  <2>6. AllInputs(content).ok /\ r = AllInputs(content).reply
    BY <1>3 DEF Accepted, DecodeAPI, Error
  <2>7. r = content[n].input
    BY <2>4, <2>5, <2>6, OneUseIsItsInput
  <2> QED BY <2>3, <2>7
<1> QED BY <1>2, <1>3

(* Whatever text the CLI answers with, of any length: the object in it is  *)
(* found, and a part of an object or one of several is never accepted.     *)
THEOREM SpanIsTheReply == Spec => []SpanFindsTheReply
<1>1. \A msg \in CLIMessages : FindsTheReply(msg)
  BY ReplyIsWhole, MessagesAssumption
<1>2. SpanFindsTheReply
  BY <1>1 DEF SpanFindsTheReply
<1> QED BY <1>2, PTL

(* Whatever blocks the API answers with, in any number: the reply is one   *)
(* call of the pass's own tool, unless the page pass met several.          *)
THEOREM RepliesAreOneCall == Spec => []OneCallOneReply
<1>1. \A msg \in APIMessages, p \in {"page", "relabel", "normalize"} : IsOneCall(p, msg)
  BY ReplyIsOneCall, MessagesAssumption
<1>2. OneCallOneReply
  BY <1>1 DEF OneCallOneReply
<1> QED BY <1>2, PTL
=============================================================================
