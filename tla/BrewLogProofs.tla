--------------------------- MODULE BrewLogProofs ---------------------------
(***************************************************************************)
(* Proofs about BrewLog, for any processes, brews, catalogue and limit.    *)
(*                                                                         *)
(* The argument.  A call belongs to one process from its start to its end  *)
(* (Turns), and only that process inserts its row, once: before the insert *)
(* there is none and after it there is one (Booked).  So a call has at     *)
(* most one row (Rows), and one that was told "recorded" has it            *)
(* (Promised).  A brew is called for again only after its last call has    *)
(* failed (Retries).                                                       *)
(***************************************************************************)
EXTENDS BrewLog, FiniteSetTheorems, SequenceTheorems, TLAPS

CallRecords == [proc : Procs, brew : Brews, answer : Answers]
RowRecords  == [call : 1 .. Len(calls), pair : Coffees \X Methods, at : Nat]

(* Who works on which call, and what it has checked. *)
Turns ==
  \A p \in Procs :
    /\ pc[p] = "idle" <=> current[p] = 0
    /\ pc[p] # "idle" => CallOf(p).proc = p /\ CallOf(p).answer = "pending"
    /\ pc[p] \notin {"idle", "look-up"} => Recordable(BrewOf(p))

(* A row is of one call and of its pairing, and no call has two. *)
Rows ==
  /\ \A i \in DOMAIN log : log[i].pair = Pairing(calls[log[i].call].brew)
  /\ \A i, j \in DOMAIN log : log[i].call = log[j].call => i = j

(* Before its insert a call has no row, after it it has one. *)
Booked ==
  \A p \in Procs :
    /\ pc[p] \in {"look-up", "stamp", "execute", "insert"} =>
         \A i \in DOMAIN log : log[i].call # current[p]
    /\ pc[p] \in {"read-back", "answer"} => \E i \in DOMAIN log : log[i].call = current[p]

Promised ==
  \A c \in DOMAIN calls :
    calls[c].answer = "recorded" => \E i \in DOMAIN log : log[i].call = c

(* Of two calls for one brew the earlier one has failed. *)
Retries ==
  \A c, d \in DOMAIN calls :
    c < d /\ calls[c].brew = calls[d].brew => calls[c].answer \in {"error", "lost"}

IInv ==
  /\ TypeOK
  /\ Turns
  /\ Rows
  /\ Booked
  /\ Promised
  /\ Retries
  /\ HistoryShown

-----------------------------------------------------------------------------
(* Calls.                                                                  *)

(* A call in work is one of calls, and of no other process. *)
LEMMA CallInWork ==
  ASSUME TypeOK, Turns, NEW p \in Procs, pc[p] # "idle"
  PROVE  /\ current[p] \in 1 .. Len(calls) /\ current[p] \in DOMAIN calls
         /\ CallOf(p) \in CallRecords
         /\ \A q \in Procs : current[q] = current[p] => q = p
<1>1. current[p] \in 0 .. Len(calls) /\ calls \in Seq(CallRecords)
  BY DEF TypeOK, CallRecords
<1>2. current[p] # 0
  BY DEF Turns
<1>3. current[p] \in 1 .. Len(calls) /\ current[p] \in DOMAIN calls
  BY <1>1, <1>2
<1>4. CallOf(p) \in CallRecords
  BY <1>1, <1>3 DEF CallOf
<1>5. ASSUME NEW q \in Procs, current[q] = current[p]
      PROVE  q = p
  <2>1. pc[q] # "idle"
    BY <1>2, <1>5 DEF Turns
  <2>2. CallOf(q).proc = q /\ CallOf(p).proc = p
    BY <2>1 DEF Turns
  <2> QED  BY <1>5, <2>2 DEF CallOf
<1> QED  BY <1>3, <1>4, <1>5

(* What the end of a call does to calls. *)
LEMMA CallEnds ==
  ASSUME TypeOK, Turns, NEW p \in Procs, NEW a \in Answers,
         Finish(p, a), pc[p] # "idle"
  PROVE  /\ calls' \in Seq(CallRecords)
         /\ Len(calls') = Len(calls) /\ DOMAIN calls' = DOMAIN calls
         /\ \A c \in DOMAIN calls :
              /\ calls'[c].proc = calls[c].proc /\ calls'[c].brew = calls[c].brew
              /\ calls'[c].answer = IF c = current[p] THEN a ELSE calls[c].answer
<1> DEFINE n == current[p]
           r == [calls[n] EXCEPT !.answer = a]
<1>1. calls \in Seq(CallRecords) /\ n \in 1 .. Len(calls) /\ calls[n] \in CallRecords
  BY CallInWork DEF TypeOK, CallRecords, CallOf
<1>2. /\ r \in CallRecords
      /\ r.proc = calls[n].proc /\ r.brew = calls[n].brew /\ r.answer = a
  BY <1>1 DEF CallRecords
<1>3. calls' = [calls EXCEPT ![n] = r]
  BY DEF Finish
<1> HIDE DEF n, r
<1>4. calls' \in Seq(CallRecords) /\ Len(calls') = Len(calls) /\ DOMAIN calls' = DOMAIN calls
  BY <1>1, <1>2, <1>3
<1>5. \A c \in DOMAIN calls : calls'[c] = IF c = n THEN r ELSE calls[c]
  BY <1>1, <1>3
<1> QED  BY <1>2, <1>4, <1>5 DEF n

(* What a new call does to calls. *)
LEMMA CallBegins ==
  ASSUME TypeOK, NEW p \in Procs, NEW b \in Brews, Call(p, b)
  PROVE  /\ calls' \in Seq(CallRecords)
         /\ Len(calls') = Len(calls) + 1 /\ DOMAIN calls' = 1 .. Len(calls) + 1
         /\ \A c \in DOMAIN calls : calls'[c] = calls[c]
         /\ \A c \in DOMAIN calls' : c \in DOMAIN calls \/ c = Len(calls) + 1
         /\ LET new == calls'[Len(calls) + 1]
            IN  new.proc = p /\ new.brew = b /\ new.answer = "pending"
<1> DEFINE r == [proc |-> p, brew |-> b, answer |-> "pending"]
<1>1. calls \in Seq(CallRecords)
  BY DEF TypeOK, CallRecords
<1>2. r \in CallRecords /\ r.proc = p /\ r.brew = b /\ r.answer = "pending"
  BY DEF CallRecords, Answers
<1>3. calls' = Append(calls, r)
  BY DEF Call
<1> HIDE DEF r
<1>4. /\ calls' \in Seq(CallRecords)
      /\ Len(calls') = Len(calls) + 1 /\ DOMAIN calls' = 1 .. Len(calls) + 1
      /\ \A c \in DOMAIN calls : calls'[c] = calls[c]
      /\ calls'[Len(calls) + 1] = r
  BY <1>1, <1>2, <1>3
<1>5. \A c \in DOMAIN calls' : c \in DOMAIN calls \/ c = Len(calls) + 1
  BY <1>1, <1>4
<1> QED  BY <1>2, <1>4, <1>5

(* What an insert does to log. *)
LEMMA RowInserted ==
  ASSUME TypeOK, Turns, NEW p \in Procs, Insert(p)
  PROVE  /\ log' \in Seq(RowRecords)
         /\ DOMAIN log' = 1 .. Len(log) + 1 /\ Len(log') = Len(log) + 1
         /\ \A i \in DOMAIN log : i \in DOMAIN log' /\ log'[i] = log[i]
         /\ \A i \in DOMAIN log' : i \in DOMAIN log \/ i = Len(log) + 1
         /\ log'[Len(log) + 1].call = current[p]
         /\ log'[Len(log) + 1].pair = Pairing(BrewOf(p))
<1> DEFINE row == [call |-> current[p], pair |-> Pairing(BrewOf(p)), at |-> stamp[p]]
<1>1. log \in Seq(RowRecords)
  BY DEF TypeOK, RowRecords
<1>2. row \in RowRecords
  <2>1. pc[p] = "insert"
    BY DEF Insert
  <2>2. Recordable(BrewOf(p)) /\ current[p] \in 1 .. Len(calls)
    BY <2>1, CallInWork DEF Turns
  <2>3. Pairing(BrewOf(p)) \in Coffees \X Methods
    BY <2>2 DEF Recordable, Pairing
  <2>4. stamp[p] \in Nat
    BY DEF TypeOK
  <2> QED  BY <2>2, <2>3, <2>4 DEF RowRecords
<1>3. log' = Append(log, row)
  BY DEF Insert
<1>4. row.call = current[p] /\ row.pair = Pairing(BrewOf(p))
  OBVIOUS
<1> HIDE DEF row
<1>5. /\ log' \in Seq(RowRecords)
      /\ DOMAIN log' = 1 .. Len(log) + 1 /\ Len(log') = Len(log) + 1
      /\ \A i \in DOMAIN log : log'[i] = log[i]
      /\ log'[Len(log) + 1] = row
  BY <1>1, <1>2, <1>3
<1>6. \A i \in DOMAIN log' : i \in DOMAIN log \/ i = Len(log) + 1
  BY <1>1, <1>5
<1>7. \A i \in DOMAIN log : i \in DOMAIN log'
  BY <1>1, <1>5
<1> QED  BY <1>4, <1>5, <1>6, <1>7

(* A row is of a call that was made. *)
LEMMA RowsOfCalls ==
  ASSUME TypeOK
  PROVE  \A i \in DOMAIN log : log[i].call \in 1 .. Len(calls) /\ log[i].call \in DOMAIN calls
<1>1. log \in Seq(RowRecords) /\ calls \in Seq(CallRecords)
  BY DEF TypeOK, RowRecords, CallRecords
<1>2. \A i \in DOMAIN log : log[i] \in RowRecords
  BY <1>1
<1>3. \A i \in DOMAIN log : log[i].call \in 1 .. Len(calls)
  BY <1>2 DEF RowRecords
<1> QED  BY <1>1, <1>3

-----------------------------------------------------------------------------
(* Typing.                                                                 *)

LEMMA WholeSeconds ==
  ASSUME NEW ticks \in Nat, NEW perSecond \in Nat \ {0}
  PROVE  ticks \div perSecond \in Nat
  BY SMT

(* What may be shown are rows of log, of the pairing. *)
LEMMA LatestAreRows ==
  ASSUME TypeOK, NEW pair, NEW limit, NEW T \in Latest(pair, limit)
  PROVE  T \subseteq RowsOf(pair) /\ T \subseteq 1 .. Len(log)
<1>1. T \in SUBSET RowsOf(pair)
  BY DEF Latest
<1>2. RowsOf(pair) \subseteq DOMAIN log
  BY DEF RowsOf
<1>3. DOMAIN log = 1 .. Len(log)
  BY DEF TypeOK
<1> QED  BY <1>1, <1>2, <1>3

(* The end of a call keeps every variable in its set. *)
LEMMA EndTyped ==
  ASSUME TypeOK, Turns, NEW p \in Procs, NEW a \in Answers,
         Finish(p, a), pc[p] # "idle", UNCHANGED <<clock, log>>
  PROVE  TypeOK'
<1>1. calls' \in Seq(CallRecords) /\ Len(calls') = Len(calls)
  BY CallEnds
<1>2. Len(calls) \in Nat
  BY DEF TypeOK
<1>3. current' \in [Procs -> 0 .. Len(calls)]
  BY <1>2 DEF TypeOK, Finish
<1>4. /\ pc' \in [Procs -> {"idle", "look-up", "stamp", "execute", "insert", "read-back", "answer"}]
      /\ stamp' \in [Procs -> Nat] /\ shown' \in [Procs -> SUBSET (1 .. Len(log))]
      /\ cancelled' \in [Procs -> BOOLEAN]
  BY DEF TypeOK, Finish, Goto
<1> QED  BY <1>1, <1>3, <1>4 DEF TypeOK, CallRecords

(* Every step keeps every variable in its set. *)
LEMMA TypeStep ==
  ASSUME TypeOK, Turns, [Next]_vars
  PROVE  TypeOK'
<1>1. CASE Tick \/ StepBack
  <2>1. clock' \in 0 .. MaxTicks
    BY <1>1, BoundsAssumption DEF Tick, StepBack, TypeOK
  <2> QED  BY <1>1, <2>1 DEF Tick, StepBack, TypeOK
<1>2. ASSUME NEW p \in Procs, NEW b \in Brews, Call(p, b)
      PROVE  TypeOK'
  <2>1. calls' \in Seq(CallRecords) /\ Len(calls') = Len(calls) + 1
    BY <1>2, CallBegins
  <2>2. Len(calls) \in Nat /\ Len(calls') <= MaxCalls
    BY <1>2, <2>1, BoundsAssumption DEF Call, TypeOK
  <2>3. current' \in [Procs -> 0 .. Len(calls')]
    BY <1>2, <2>1, <2>2 DEF Call, TypeOK
  <2>4. /\ pc' \in [Procs -> {"idle", "look-up", "stamp", "execute", "insert", "read-back", "answer"}]
        /\ cancelled' \in [Procs -> BOOLEAN]
    BY <1>2 DEF Call, Goto, TypeOK
  <2>5. log \in Seq([call : 1 .. Len(calls'), pair : Coffees \X Methods, at : Nat])
    <3>1. log \in Seq(RowRecords)
      BY DEF TypeOK, RowRecords
    <3>2. RowRecords \subseteq [call : 1 .. Len(calls'), pair : Coffees \X Methods, at : Nat]
      BY <2>1, <2>2 DEF RowRecords
    <3> QED  BY <3>1, <3>2, SeqMonotonic
  <2> QED  BY <1>2, <2>1, <2>2, <2>3, <2>4, <2>5 DEF Call, TypeOK, CallRecords
<1>3. ASSUME NEW p \in Procs, Signal(p) \/ LookUp(p) \/ Execute(p)
      PROVE  TypeOK'
  BY <1>3 DEF Signal, LookUp, Execute, Goto, TypeOK
<1>4. ASSUME NEW p \in Procs, Stamp(p)
      PROVE  TypeOK'
  <2>1. Seconds(clock) \in Nat
    <3>1. clock \in Nat /\ TicksPerSecond \in Nat \ {0}
      BY BoundsAssumption DEF TypeOK
    <3> QED  BY <3>1, WholeSeconds DEF Seconds
  <2> QED  BY <1>4, <2>1 DEF Stamp, Goto, TypeOK
<1>5. ASSUME NEW p \in Procs, Insert(p)
      PROVE  TypeOK'
  <2>1. log' \in Seq(RowRecords) /\ Len(log') = Len(log) + 1
    BY <1>5, RowInserted
  <2>2. shown \in [Procs -> SUBSET (1 .. Len(log'))]
    BY <2>1 DEF TypeOK
  <2>3. pc' \in [Procs -> {"idle", "look-up", "stamp", "execute", "insert", "read-back", "answer"}]
    BY <1>5 DEF Insert, Goto, TypeOK
  <2> QED  BY <1>5, <2>1, <2>2, <2>3 DEF Insert, TypeOK, RowRecords
<1>6. ASSUME NEW p \in Procs, ReadBack(p)
      PROVE  TypeOK'
  <2>1. PICK T \in Latest(Pairing(BrewOf(p)), HistoryLimit) : shown' = [shown EXCEPT ![p] = T]
    BY <1>6 DEF ReadBack
  <2>2. T \in SUBSET (1 .. Len(log))
    BY <2>1, LatestAreRows
  <2>3. shown' \in [Procs -> SUBSET (1 .. Len(log))]
    BY <2>1, <2>2 DEF TypeOK
  <2> QED  BY <1>6, <2>3 DEF ReadBack, Goto, TypeOK
<1>7. ASSUME NEW p \in Procs, Refuse(p) \/ Answer(p) \/ StoreFails(p) \/ Crash(p)
      PROVE  TypeOK'
  <2>1. pc[p] # "idle" /\ UNCHANGED <<clock, log>>
    BY <1>7 DEF Refuse, Answer, StoreFails, Crash
  <2>2. \E a \in Answers : Finish(p, a)
    BY <1>7 DEF Refuse, Answer, StoreFails, Crash, Answers
  <2> QED  BY <2>1, <2>2, EndTyped
<1>8. CASE UNCHANGED vars
  BY <1>8 DEF vars, TypeOK
<1> QED
  BY <1>1, <1>2, <1>3, <1>4, <1>5, <1>6, <1>7, <1>8 DEF Next, Step

-----------------------------------------------------------------------------
(* What every step keeps.                                                  *)

(* Only Insert touches the table. *)
LEMMA LogStep ==
  ASSUME [Next]_vars
  PROVE  log' = log \/ \E p \in Procs : Insert(p)
BY DEF Next, Step, vars, Tick, StepBack, Call, Signal, LookUp, Refuse, Stamp, Execute, ReadBack,
   Answer, StoreFails, Crash

(* Calls change by a new one, or by the end of one. *)
LEMMA CallsStep ==
  ASSUME [Next]_vars
  PROVE  \/ calls' = calls /\ current' = current
         \/ \E p \in Procs, b \in Brews : Call(p, b)
         \/ \E p \in Procs, a \in Answers :
              /\ pc[p] # "idle" /\ Finish(p, a) /\ UNCHANGED <<clock, log>>
              /\ a # "pending" /\ (a = "recorded" => pc[p] = "answer")
<1>1. ASSUME NEW p \in Procs, Refuse(p) \/ Answer(p) \/ StoreFails(p) \/ Crash(p)
      PROVE  \E a \in Answers :
               /\ pc[p] # "idle" /\ Finish(p, a) /\ UNCHANGED <<clock, log>>
               /\ a # "pending" /\ (a = "recorded" => pc[p] = "answer")
  <2>1. CASE Refuse(p)
    <3>1. "error" \in Answers
      BY DEF Answers
    <3>2. pc[p] # "idle" /\ Finish(p, "error") /\ UNCHANGED <<clock, log>>
      BY <2>1 DEF Refuse
    <3> QED  BY <3>1, <3>2
  <2>2. CASE Answer(p)
    <3>1. "recorded" \in Answers
      BY DEF Answers
    <3>2. pc[p] # "idle" /\ Finish(p, "recorded") /\ UNCHANGED <<clock, log>>
      BY <2>2 DEF Answer
    <3>3. pc[p] = "answer"
      BY <2>2 DEF Answer
    <3> QED  BY <3>1, <3>2, <3>3
  <2>3. CASE StoreFails(p)
    <3>1. "error" \in Answers
      BY DEF Answers
    <3>2. pc[p] # "idle" /\ Finish(p, "error") /\ UNCHANGED <<clock, log>>
      BY <2>3 DEF StoreFails
    <3> QED  BY <3>1, <3>2
  <2>4. CASE Crash(p)
    <3>1. "lost" \in Answers
      BY DEF Answers
    <3>2. pc[p] # "idle" /\ Finish(p, "lost") /\ UNCHANGED <<clock, log>>
      BY <2>4 DEF Crash
    <3> QED  BY <3>1, <3>2
  <2> QED  BY <1>1, <2>1, <2>2, <2>3, <2>4
<1>2. CASE \E p \in Procs, b \in Brews : Call(p, b)
  BY <1>2
<1>3. ASSUME NEW p \in Procs, Signal(p) \/ LookUp(p) \/ Stamp(p) \/ Execute(p) \/ Insert(p) \/ ReadBack(p)
      PROVE  calls' = calls /\ current' = current
  BY <1>3 DEF Signal, LookUp, Stamp, Execute, Insert, ReadBack
<1>4. CASE Tick \/ StepBack \/ UNCHANGED vars
  BY <1>4 DEF Tick, StepBack, vars
<1> QED  BY <1>1, <1>2, <1>3, <1>4 DEF Next, Step

(* A row that is there stays as it is. *)
LEMMA RowsStay ==
  ASSUME TypeOK, Turns, [Next]_vars, NEW i \in DOMAIN log
  PROVE  i \in DOMAIN log' /\ log'[i] = log[i]
<1>1. ASSUME NEW p \in Procs, Insert(p)
      PROVE  i \in DOMAIN log' /\ log'[i] = log[i]
  BY <1>1, RowInserted
<1> QED  BY <1>1, LogStep

(* A call keeps its brew, and an answer that it was given. *)
LEMMA CallsStay ==
  ASSUME TypeOK, Turns, [Next]_vars, NEW c \in DOMAIN calls
  PROVE  /\ c \in DOMAIN calls' /\ calls'[c].brew = calls[c].brew
         /\ calls[c].answer # "pending" => calls'[c].answer = calls[c].answer
<1>1. ASSUME NEW p \in Procs, NEW b \in Brews, Call(p, b)
      PROVE  c \in DOMAIN calls' /\ calls'[c] = calls[c]
  <2>1. calls \in Seq(CallRecords)
    BY DEF TypeOK, CallRecords
  <2>2. DOMAIN calls = 1 .. Len(calls) /\ Len(calls) \in Nat
    BY <2>1
  <2>3. DOMAIN calls' = 1 .. Len(calls) + 1 /\ calls'[c] = calls[c]
    BY <1>1, CallBegins
  <2> QED  BY <2>2, <2>3
<1>2. ASSUME NEW p \in Procs, NEW a \in Answers, pc[p] # "idle", Finish(p, a)
      PROVE  /\ c \in DOMAIN calls' /\ calls'[c].brew = calls[c].brew
             /\ calls[c].answer # "pending" => calls'[c].answer = calls[c].answer
  <2>1. calls[current[p]].answer = "pending"
    BY <1>2 DEF Turns, CallOf
  <2> QED  BY <1>2, <2>1, CallEnds
<1>3. CASE calls' = calls
  BY <1>3
<1> QED  BY <1>1, <1>2, <1>3, CallsStep

-----------------------------------------------------------------------------
(* The invariant, step by step.                                            *)

(* A call in work stays in the hands of its process, unanswered. *)
LEMMA TurnsStep ==
  ASSUME TypeOK, Turns, [Next]_vars
  PROVE  Turns'
<1>1. CASE Tick \/ StepBack \/ UNCHANGED vars
  BY <1>1 DEF Tick, StepBack, vars, Turns, CallOf, BrewOf
<1>2. ASSUME NEW p \in Procs, NEW b \in Brews, Call(p, b), NEW q \in Procs
      PROVE  /\ pc'[q] = "idle" <=> current'[q] = 0
             /\ pc'[q] # "idle" => CallOf(q)'.proc = q /\ CallOf(q)'.answer = "pending"
             /\ pc'[q] \notin {"idle", "look-up"} => Recordable(BrewOf(q)')
  <2>1. calls \in Seq(CallRecords) /\ Len(calls) \in Nat
    BY DEF TypeOK, CallRecords
  <2>2. CASE q = p
    <3>1. pc'[p] = "look-up" /\ current'[p] = Len(calls) + 1
      BY <1>2 DEF Call, Goto, TypeOK
    <3>2. calls'[current'[p]].proc = p /\ calls'[current'[p]].answer = "pending"
      BY <1>2, <3>1, CallBegins
    <3> QED  BY <2>1, <2>2, <3>1, <3>2 DEF CallOf
  <2>3. CASE q # p
    <3>1. pc'[q] = pc[q] /\ current'[q] = current[q]
      BY <1>2, <2>3 DEF Call, Goto, TypeOK
    <3>2. pc[q] # "idle" => CallOf(q)' = CallOf(q)
      BY <1>2, <3>1, CallInWork, CallBegins DEF CallOf
    <3> QED  BY <3>1, <3>2 DEF Turns, BrewOf
  <2> QED  BY <2>2, <2>3
<1>3. ASSUME NEW p \in Procs,
             Signal(p) \/ LookUp(p) \/ Stamp(p) \/ Execute(p) \/ Insert(p) \/ ReadBack(p)
      PROVE  Turns'
  <2>1. calls' = calls /\ current' = current /\ pc[p] # "idle"
    BY <1>3 DEF Signal, LookUp, Stamp, Execute, Insert, ReadBack
  <2>2. /\ \A q \in Procs : q # p => pc'[q] = pc[q]
        /\ pc'[p] # "idle"
        /\ pc'[p] \notin {"idle", "look-up"} => Recordable(BrewOf(p))
    BY <1>3 DEF Signal, LookUp, Stamp, Execute, Insert, ReadBack, Goto, Turns, TypeOK
  <2>3. \A q \in Procs : CallOf(q)' = CallOf(q) /\ BrewOf(q)' = BrewOf(q)
    BY <2>1 DEF CallOf, BrewOf
  <2>4. ASSUME NEW q \in Procs
        PROVE  /\ pc'[q] = "idle" <=> current'[q] = 0
               /\ pc'[q] # "idle" => CallOf(q)'.proc = q /\ CallOf(q)'.answer = "pending"
               /\ pc'[q] \notin {"idle", "look-up"} => Recordable(BrewOf(q)')
    BY <2>1, <2>2, <2>3 DEF Turns
  <2> QED  BY <2>4 DEF Turns, Recordable
<1>4. ASSUME NEW p \in Procs, NEW a \in Answers, pc[p] # "idle", Finish(p, a), NEW q \in Procs
      PROVE  /\ pc'[q] = "idle" <=> current'[q] = 0
             /\ pc'[q] # "idle" => CallOf(q)'.proc = q /\ CallOf(q)'.answer = "pending"
             /\ pc'[q] \notin {"idle", "look-up"} => Recordable(BrewOf(q)')
  <2>1. CASE q = p
    BY <1>4, <2>1 DEF Finish, Goto, TypeOK
  <2>2. CASE q # p
    <3>1. pc'[q] = pc[q] /\ current'[q] = current[q]
      BY <1>4, <2>2 DEF Finish, Goto, TypeOK
    <3>2. pc[q] # "idle" => current[q] \in DOMAIN calls /\ current[q] # current[p]
      BY <1>4, <2>2, CallInWork
    <3>3. pc[q] # "idle" =>
            /\ calls'[current[q]].proc = calls[current[q]].proc
            /\ calls'[current[q]].brew = calls[current[q]].brew
            /\ calls'[current[q]].answer = calls[current[q]].answer
      BY <1>4, <3>2, CallEnds
    <3> QED  BY <3>1, <3>3 DEF Turns, CallOf, BrewOf
  <2> QED  BY <2>1, <2>2
<1> QED
  <2>1. CASE \E p \in Procs, b \in Brews : Call(p, b)
    BY <1>2, <2>1 DEF Turns, Recordable
  <2>2. CASE \E p \in Procs, a \in Answers : pc[p] # "idle" /\ Finish(p, a)
    BY <1>4, <2>2 DEF Turns, Recordable
  <2>3. CASE \E p \in Procs : Signal(p) \/ LookUp(p) \/ Stamp(p) \/ Execute(p) \/ Insert(p) \/ ReadBack(p)
    BY <1>3, <2>3
  <2>4. ASSUME NEW p \in Procs, Refuse(p) \/ Answer(p) \/ StoreFails(p) \/ Crash(p)
        PROVE  \E a \in Answers : pc[p] # "idle" /\ Finish(p, a)
    BY <2>4 DEF Refuse, Answer, StoreFails, Crash, Answers
  <2> QED  BY <1>1, <2>1, <2>2, <2>3, <2>4 DEF Next, Step

(* Rows are of their call's pairing, and only one is of a call. *)
LEMMA RowsStep ==
  ASSUME TypeOK, Turns, Rows, Booked, [Next]_vars
  PROVE  Rows'
<1>3. \A i \in DOMAIN log : calls'[log[i].call].brew = calls[log[i].call].brew
  BY RowsOfCalls, CallsStay
<1>4. CASE log' = log
  BY <1>3, <1>4 DEF Rows, Pairing
<1>5. ASSUME NEW p \in Procs, Insert(p)
      PROVE  Rows'
  <2> DEFINE n == Len(log) + 1
  <2>1. /\ \A i \in DOMAIN log : log'[i] = log[i]
        /\ log'[n].call = current[p] /\ log'[n].pair = Pairing(BrewOf(p))
    BY <1>5, RowInserted
  <2>2. calls' = calls
    BY <1>5 DEF Insert
  <2>3. \A i \in DOMAIN log : log[i].call # current[p]
    BY <1>5 DEF Insert, Booked
  <2>4. \A i \in DOMAIN log' : i \in DOMAIN log \/ i = n
    BY <1>5, RowInserted
  <2> HIDE DEF n
  <2>5. \A i \in DOMAIN log' : log'[i].pair = Pairing(calls'[log'[i].call].brew)
    BY <2>1, <2>2, <2>4 DEF Rows, BrewOf, CallOf
  <2>6. \A i, j \in DOMAIN log' : log'[i].call = log'[j].call => i = j
    BY <2>1, <2>3, <2>4 DEF Rows
  <2> QED  BY <2>5, <2>6 DEF Rows
<1> QED  BY <1>4, <1>5, LogStep

(* A call that has inserted has its row, one that has not has none. *)
LEMMA BookedStep ==
  ASSUME TypeOK, Turns, Booked, [Next]_vars
  PROVE  Booked'
<1> DEFINE Before(q) == pc[q] \in {"look-up", "stamp", "execute", "insert"} =>
                          \A i \in DOMAIN log : log[i].call # current[q]
           After(q)  == pc[q] \in {"read-back", "answer"} =>
                          \E i \in DOMAIN log : log[i].call = current[q]
<1>2. ASSUME NEW p \in Procs, Insert(p), NEW q \in Procs
      PROVE  Before(q)' /\ After(q)'
  <2>1. /\ \A i \in DOMAIN log : i \in DOMAIN log' /\ log'[i] = log[i]
        /\ \A i \in DOMAIN log' : i \in DOMAIN log \/ log'[i].call = current[p]
        /\ Len(log) + 1 \in DOMAIN log' /\ log'[Len(log) + 1].call = current[p]
    <3>1. Len(log) \in Nat
      BY DEF TypeOK
    <3> QED  BY <1>2, <3>1, RowInserted
  <2>2. current' = current /\ pc[p] = "insert"
    BY <1>2 DEF Insert
  <2>3. CASE q = p
    <3>1. pc'[p] = "read-back"
      BY <1>2 DEF Insert, Goto, TypeOK
    <3> QED  BY <2>1, <2>2, <2>3, <3>1
  <2>4. CASE q # p
    <3>1. pc'[q] = pc[q]
      BY <1>2, <2>4 DEF Insert, Goto, TypeOK
    <3>2. current[q] # current[p]
      BY <2>2, <2>4, CallInWork
    <3> QED  BY <2>1, <2>2, <3>1, <3>2 DEF Booked
  <2> QED  BY <2>3, <2>4
<1>3. ASSUME NEW p \in Procs, NEW b \in Brews, Call(p, b), NEW q \in Procs
      PROVE  Before(q)' /\ After(q)'
  <2>1. log' = log
    BY <1>3 DEF Call
  <2>2. CASE q = p
    <3>1. pc'[p] = "look-up" /\ current'[p] = Len(calls) + 1
      BY <1>3 DEF Call, Goto, TypeOK
    <3>2. Len(calls) \in Nat
      BY DEF TypeOK
    <3>3. \A i \in DOMAIN log : log[i].call # Len(calls) + 1
      BY <3>2, RowsOfCalls
    <3> QED  BY <2>1, <2>2, <3>1, <3>3
  <2>3. CASE q # p
    BY <1>3, <2>1, <2>3 DEF Call, Goto, TypeOK, Booked
  <2> QED  BY <2>2, <2>3
<1>4. ASSUME NEW p \in Procs, Signal(p) \/ LookUp(p) \/ Stamp(p) \/ Execute(p) \/ ReadBack(p), NEW q \in Procs
      PROVE  Before(q)' /\ After(q)'
  BY <1>4 DEF Signal, LookUp, Stamp, Execute, ReadBack, Goto, TypeOK, Booked
<1>5. ASSUME NEW p \in Procs, Refuse(p) \/ Answer(p) \/ StoreFails(p) \/ Crash(p), NEW q \in Procs
      PROVE  Before(q)' /\ After(q)'
  <2>1. \E a \in Answers : Finish(p, a)
    BY <1>5 DEF Refuse, Answer, StoreFails, Crash, Answers
  <2>2. log' = log
    BY <1>5 DEF Refuse, Answer, StoreFails, Crash
  <2> QED  BY <2>1, <2>2 DEF Finish, Goto, TypeOK, Booked
<1>6. CASE Tick \/ StepBack \/ UNCHANGED vars
  BY <1>6 DEF Tick, StepBack, vars, Booked
<1>7. CASE \E p \in Procs : Next /\ ~Tick /\ ~StepBack
  BY <1>2, <1>3, <1>4, <1>5, <1>7 DEF Next, Step, Booked
<1> QED  BY <1>6, <1>7 DEF Next

(* No answer says "recorded" of a call without a row. *)
LEMMA PromisedStep ==
  ASSUME TypeOK, Turns, Booked, Promised, [Next]_vars
  PROVE  Promised'
<1>1. \A i \in DOMAIN log : i \in DOMAIN log' /\ log'[i] = log[i]
  BY RowsStay
<1>3. CASE calls' = calls
  BY <1>1, <1>3 DEF Promised
<1>4. ASSUME NEW p \in Procs, NEW b \in Brews, Call(p, b),
             NEW c \in DOMAIN calls', calls'[c].answer = "recorded"
      PROVE  \E i \in DOMAIN log' : log'[i].call = c
  <2>1. c \in DOMAIN calls \/ c = Len(calls) + 1
    BY <1>4, CallBegins
  <2>2. c # Len(calls) + 1
    BY <1>4, CallBegins
  <2>3. calls[c].answer = "recorded"
    BY <1>4, <2>1, <2>2, CallBegins
  <2> QED  BY <1>1, <2>1, <2>2, <2>3 DEF Promised
<1>5. ASSUME NEW p \in Procs, NEW a \in Answers,
             pc[p] # "idle", Finish(p, a), a = "recorded" => pc[p] = "answer",
             NEW c \in DOMAIN calls', calls'[c].answer = "recorded"
      PROVE  \E i \in DOMAIN log' : log'[i].call = c
  <2>1. c \in DOMAIN calls
    BY <1>5, CallEnds
  <2>2. CASE c = current[p]
    <3>1. pc[p] = "answer"
      BY <1>5, <2>1, <2>2, CallEnds
    <3> QED  BY <1>1, <2>2, <3>1 DEF Booked
  <2>3. CASE c # current[p]
    <3>1. calls[c].answer = "recorded"
      BY <1>5, <2>1, <2>3, CallEnds
    <3> QED  BY <1>1, <2>1, <3>1 DEF Promised
  <2> QED  BY <2>2, <2>3
<1> QED  BY <1>3, <1>4, <1>5, CallsStep DEF Promised

(* A brew is called for again only after a failure. *)
LEMMA RetriesStep ==
  ASSUME TypeOK, Turns, Retries, [Next]_vars
  PROVE  Retries'
<1>1. calls \in Seq(CallRecords) /\ DOMAIN calls = 1 .. Len(calls) /\ Len(calls) \in Nat
  BY DEF TypeOK, CallRecords
<1>2. CASE calls' = calls
  BY <1>2 DEF Retries
<1>3. ASSUME NEW p \in Procs, NEW b \in Brews, Call(p, b),
             NEW c \in DOMAIN calls', NEW d \in DOMAIN calls',
             c < d, calls'[c].brew = calls'[d].brew
      PROVE  calls'[c].answer \in {"error", "lost"}
  <2>1. c \in DOMAIN calls
    <3>1. DOMAIN calls' = 1 .. Len(calls) + 1
      BY <1>3, CallBegins
    <3> QED  BY <1>1, <1>3, <3>1
  <2>2. calls'[c] = calls[c]
    BY <1>3, <2>1, CallBegins
  <2>3. CASE d \in DOMAIN calls
    <3>1. calls'[d] = calls[d]
      BY <1>3, <2>3, CallBegins
    <3> QED  BY <1>3, <2>1, <2>2, <2>3, <3>1 DEF Retries
  <2>4. CASE d \notin DOMAIN calls
    <3>1. d = Len(calls) + 1
      BY <1>3, <2>4, CallBegins
    <3>2. calls'[d].brew = b
      BY <1>3, <3>1, CallBegins
    <3> QED  BY <1>3, <2>1, <2>2, <3>2 DEF Call
  <2> QED  BY <2>3, <2>4
<1>4. ASSUME NEW p \in Procs, NEW a \in Answers, pc[p] # "idle", Finish(p, a),
             NEW c \in DOMAIN calls', NEW d \in DOMAIN calls',
             c < d, calls'[c].brew = calls'[d].brew
      PROVE  calls'[c].answer \in {"error", "lost"}
  <2>1. c \in DOMAIN calls /\ d \in DOMAIN calls
    BY <1>4, CallEnds
  <2>2. calls[c].brew = calls[d].brew
    BY <1>4, <2>1, CallEnds
  <2>3. calls[c].answer \in {"error", "lost"}
    BY <1>4, <2>1, <2>2 DEF Retries
  <2>4. calls[current[p]].answer = "pending"
    BY <1>4 DEF Turns, CallOf
  <2>5. c # current[p]
    BY <2>3, <2>4
  <2>6. calls'[c].answer = calls[c].answer
    BY <1>4, <2>1, <2>5, CallEnds
  <2> QED  BY <2>3, <2>6
<1> QED  BY <1>2, <1>3, <1>4, CallsStep DEF Retries

(* Who is about to answer has just read back, or has lost nothing since. *)
LEMMA AboutToAnswer ==
  ASSUME TypeOK, Turns, [Next]_vars, NEW q \in Procs, pc'[q] = "answer"
  PROVE  \/ ReadBack(q)
         \/ pc[q] = "answer" /\ current'[q] = current[q] /\ shown'[q] = shown[q]
<1>1. CASE Tick \/ StepBack \/ UNCHANGED vars
  BY <1>1 DEF Tick, StepBack, vars
<1>2. ASSUME NEW p \in Procs, NEW b \in Brews, Call(p, b)
      PROVE  pc[q] = "answer" /\ current'[q] = current[q] /\ shown'[q] = shown[q]
  BY <1>2 DEF Call, Goto, TypeOK
<1>3. ASSUME NEW p \in Procs, Signal(p) \/ LookUp(p) \/ Stamp(p) \/ Execute(p) \/ Insert(p)
      PROVE  pc[q] = "answer" /\ current'[q] = current[q] /\ shown'[q] = shown[q]
  BY <1>3 DEF Signal, LookUp, Stamp, Execute, Insert, Goto, TypeOK
<1>4. ASSUME NEW p \in Procs, ReadBack(p), p # q
      PROVE  pc[q] = "answer" /\ current'[q] = current[q] /\ shown'[q] = shown[q]
  BY <1>4 DEF ReadBack, Goto, TypeOK
<1>5. ASSUME NEW p \in Procs, NEW a \in Answers, Finish(p, a)
      PROVE  pc[q] = "answer" /\ current'[q] = current[q] /\ shown'[q] = shown[q]
  BY <1>5 DEF Finish, Goto, TypeOK
<1>6. ASSUME NEW p \in Procs, Refuse(p) \/ Answer(p) \/ StoreFails(p) \/ Crash(p)
      PROVE  \E a \in Answers : Finish(p, a)
  BY <1>6 DEF Refuse, Answer, StoreFails, Crash, Answers
<1> QED  BY <1>1, <1>2, <1>3, <1>4, <1>5, <1>6 DEF Next, Step

(* The limit that the store puts on the history of a call. *)
EffLimit == EffectiveLimit(HistoryLimit)

LEMMA LimitPositive == EffLimit \in Nat \ {0}
BY BoundsAssumption DEF EffLimit, EffectiveLimit

(* What is shown is the latest of the pairing, with the own row among it   *)
(* unless enough others are no earlier.                                    *)
LEMMA HistoryOf ==
  ASSUME TypeOK, Turns, Rows, Booked, NEW q \in Procs, pc[q] = "read-back",
         NEW T \in Latest(Pairing(BrewOf(q)), HistoryLimit)
  PROVE  /\ \A i \in T : log[i].pair = Pairing(BrewOf(q))
         /\ Cardinality(T) \in 1 .. EffLimit
         /\ \A own \in RowsFor(current[q]) \ T :
              Cardinality({ i \in T : log[i].at >= log[own].at }) = EffLimit
<1> DEFINE pair == Pairing(BrewOf(q))
<1>1. /\ T \in SUBSET RowsOf(pair)
      /\ \/ T = RowsOf(pair) /\ Cardinality(T) <= EffLimit
         \/ Cardinality(T) = EffLimit
      /\ \A i \in T, j \in RowsOf(pair) \ T : log[i].at >= log[j].at
  BY DEF Latest, EffLimit
<1>2. \A own \in RowsFor(current[q]) : own \in RowsOf(pair)
  BY DEF Rows, RowsFor, RowsOf, BrewOf, CallOf
<1>3. PICK mine \in DOMAIN log : mine \in RowsOf(pair)
  BY <1>2 DEF Booked, RowsFor
<1> HIDE DEF pair
<1>4. IsFiniteSet(T)
  <2>1. T \subseteq 1 .. Len(log)
    BY LatestAreRows
  <2>2. IsFiniteSet(1 .. Len(log))
    <3>1. Len(log) \in Nat
      BY DEF TypeOK
    <3> QED  BY <3>1, FS_Interval
  <2> QED  BY <2>1, <2>2, FS_Subset
<1>5. Cardinality(T) \in 1 .. EffLimit
  <2>1. Cardinality(T) \in Nat /\ (Cardinality(T) = 0 <=> T = {})
    BY <1>4, FS_CardinalityType, FS_EmptySet
  <2>2. CASE T = RowsOf(pair) /\ Cardinality(T) <= EffLimit
    <3>1. T # {}
      BY <1>3, <2>2
    <3> QED  BY <2>1, <2>2, <3>1, LimitPositive
  <2>3. CASE Cardinality(T) = EffLimit
    BY <2>3, LimitPositive
  <2> QED  BY <1>1, <2>2, <2>3
<1>6. \A i \in T : log[i].pair = pair
  BY <1>1 DEF RowsOf
<1>7. ASSUME NEW own \in RowsFor(current[q]) \ T
      PROVE  Cardinality({ i \in T : log[i].at >= log[own].at }) = EffLimit
  <2>1. own \in RowsOf(pair) \ T
    BY <1>2, <1>7
  <2>2. { i \in T : log[i].at >= log[own].at } = T
    BY <1>1, <2>1
  <2>3. Cardinality(T) = EffLimit
    BY <1>1, <2>1
  <2> QED  BY <2>2, <2>3
<1> QED  BY <1>5, <1>6, <1>7 DEF pair

(* Nothing that others do takes back what a call has read. *)
LEMMA HistoryStep ==
  ASSUME TypeOK, Turns, Rows, Booked, HistoryShown, [Next]_vars
  PROVE  HistoryShown'
<1> DEFINE Told(rows, q) ==
             /\ \A i \in rows : log[i].pair = Pairing(BrewOf(q))
             /\ Cardinality(rows) \in 1 .. EffLimit
             /\ \A own \in RowsFor(current[q]) \ rows :
                  Cardinality({ i \in rows : log[i].at >= log[own].at }) = EffLimit
<1>1. ASSUME NEW q \in Procs, ReadBack(q)
      PROVE  Told(shown[q], q)'
  <2>1. PICK T \in Latest(Pairing(BrewOf(q)), HistoryLimit) : shown' = [shown EXCEPT ![q] = T]
    BY <1>1 DEF ReadBack
  <2>2. shown'[q] = T
    BY <2>1 DEF TypeOK
  <2>3. Told(T, q)
    BY <1>1, <2>1, HistoryOf DEF ReadBack
  <2>4. log' = log /\ calls' = calls /\ current' = current
    BY <1>1 DEF ReadBack
  <2> QED  BY <2>2, <2>3, <2>4 DEF RowsFor, BrewOf, CallOf, EffLimit
<1>2. ASSUME NEW q \in Procs, pc'[q] = "answer",
             pc[q] = "answer", current'[q] = current[q], shown'[q] = shown[q]
      PROVE  Told(shown[q], q)'
  <2>1. Told(shown[q], q)
    BY <1>2 DEF HistoryShown, EffLimit
  <2>2. BrewOf(q)' = BrewOf(q)
    BY <1>2, CallInWork, CallsStay DEF BrewOf, CallOf
  <2>3. \A i \in shown[q] : log'[i] = log[i]
    <3>1. shown[q] \subseteq DOMAIN log
      BY DEF TypeOK
    <3> QED  BY <3>1, RowsStay
  <2>4. RowsFor(current[q])' = RowsFor(current[q])
    <3>1. CASE log' = log
      BY <1>2, <3>1 DEF RowsFor
    <3>2. ASSUME NEW p \in Procs, Insert(p)
          PROVE  RowsFor(current[q])' = RowsFor(current[q])
      <4>1. current[q] # current[p]
        BY <1>2, <3>2, CallInWork DEF Insert
      <4>2. /\ \A i \in DOMAIN log : i \in DOMAIN log' /\ log'[i] = log[i]
            /\ \A i \in DOMAIN log' : i \in DOMAIN log \/ log'[i].call = current[p]
        BY <3>2, RowInserted
      <4> QED  BY <1>2, <4>1, <4>2 DEF RowsFor
    <3> QED  BY <3>1, <3>2, LogStep
  <2>5. \A i \in RowsFor(current[q]) : log'[i] = log[i]
    BY RowsStay DEF RowsFor
  <2>6. \A own \in RowsFor(current[q]) :
          { i \in shown[q] : log'[i].at >= log'[own].at }
            = { i \in shown[q] : log[i].at >= log[own].at }
    BY <2>3, <2>5
  <2>7. Pairing(BrewOf(q))' = Pairing(BrewOf(q))
    BY <2>2 DEF Pairing
  <2> QED  BY <1>2, <2>1, <2>3, <2>4, <2>6, <2>7 DEF EffLimit
<1>3. \A q \in Procs : pc'[q] = "answer" => Told(shown[q], q)'
  BY <1>1, <1>2, AboutToAnswer
<1> QED  BY <1>3 DEF HistoryShown, EffLimit

-----------------------------------------------------------------------------
(* Theorems.                                                               *)

LEMMA InvariantAtStart == Init => IInv
<1> SUFFICES ASSUME Init PROVE IInv
  OBVIOUS
<1>1. TypeOK
  <2>1. clock \in 0 .. MaxTicks
    BY BoundsAssumption DEF Init
  <2>2. /\ calls \in Seq([proc : Procs, brew : Brews, answer : Answers])
        /\ Len(calls) = 0 /\ Len(log) = 0
        /\ log \in Seq([call : 1 .. Len(calls), pair : Coffees \X Methods, at : Nat])
    BY EmptySeq DEF Init
  <2>3. Len(calls) <= MaxCalls
    BY <2>2, BoundsAssumption
  <2> QED  BY <2>1, <2>2, <2>3 DEF Init, TypeOK
<1>2. DOMAIN calls = {} /\ DOMAIN log = {}
  BY EmptySeq DEF Init
<1>3. \A p \in Procs : pc[p] = "idle" /\ current[p] = 0
  BY DEF Init
<1> QED
  BY <1>1, <1>2, <1>3 DEF IInv, Turns, Rows, Booked, Promised, Retries, HistoryShown

LEMMA InvariantStep == IInv /\ [Next]_vars => IInv'
BY TypeStep, TurnsStep, RowsStep, BookedStep, PromisedStep, RetriesStep, HistoryStep DEF IInv

LEMMA Invariance == Spec => []IInv
BY InvariantAtStart, InvariantStep, PTL DEF Spec

(* Every variable stays in its set: a call in work is a call that was      *)
(* made, and what is shown are rows of the table.                          *)
THEOREM TypeCorrect == Spec => []TypeOK
BY Invariance, PTL DEF IInv

(* recordExtraction: a call that was told "recorded" has exactly one row,  *)
(* of its own pairing, whatever other processes, signals and crashes do.   *)
THEOREM RecordedExactlyOnce == Spec => []RecordedOnce
<1>1. IInv => RecordedOnce
  <2> SUFFICES ASSUME IInv, NEW c \in DOMAIN calls, calls[c].answer = "recorded"
               PROVE  /\ Cardinality(RowsFor(c)) = 1
                      /\ \A i \in RowsFor(c) : log[i].pair = Pairing(calls[c].brew)
    BY DEF RecordedOnce
  <2>1. PICK i \in DOMAIN log : log[i].call = c
    BY DEF IInv, Promised
  <2>2. RowsFor(c) = {i}
    BY <2>1 DEF IInv, Rows, RowsFor
  <2>3. Cardinality(RowsFor(c)) = 1
    BY <2>2, FS_Singleton
  <2> QED  BY <2>1, <2>2, <2>3 DEF IInv, Rows
<1> QED  BY <1>1, Invariance, PTL

(* A brew is in the table twice only if a call for it ended, after its     *)
(* insert, without saying so: retries are the one source of duplicates.    *)
THEOREM RetriesAreTheOnlyDuplicates == Spec => []DuplicatesOnlyAfterLateFailure
<1>1. IInv => DuplicatesOnlyAfterLateFailure
  <2> SUFFICES ASSUME IInv, NEW i \in DOMAIN log, NEW j \in DOMAIN log,
                      i # j, calls[log[i].call].brew = calls[log[j].call].brew
               PROVE  /\ log[i].call # log[j].call
                      /\ \E c \in {log[i].call, log[j].call} : calls[c].answer \in {"error", "lost"}
    BY DEF DuplicatesOnlyAfterLateFailure
  <2>1. log[i].call # log[j].call
    BY DEF IInv, Rows
  <2>2. /\ log[i].call \in DOMAIN calls /\ log[j].call \in DOMAIN calls
        /\ log[i].call \in 1 .. Len(calls) /\ log[j].call \in 1 .. Len(calls)
    BY RowsOfCalls DEF IInv
  <2>3. log[i].call < log[j].call \/ log[j].call < log[i].call
    BY <2>1, <2>2
  <2> QED  BY <2>1, <2>2, <2>3 DEF IInv, Retries
<1> QED  BY <1>1, Invariance, PTL

(* RecentExtractions: the history that a call answers with is of its       *)
(* pairing, within the limit, and holds the call's own brew unless as many *)
(* as the limit are stamped no earlier.                                    *)
THEOREM HistoryHasOwnBrew == Spec => []HistoryShown
BY Invariance, PTL DEF IInv

(* Only a process that is at work on a call adds a row of it. *)
LEMMA RowsOfOthers ==
  ASSUME TypeOK, Turns, [Next]_vars, NEW c \in DOMAIN calls, calls[c].answer # "pending"
  PROVE  RowsFor(c)' = RowsFor(c)
<1>1. CASE log' = log
  BY <1>1 DEF RowsFor
<1>2. ASSUME NEW p \in Procs, Insert(p)
      PROVE  RowsFor(c)' = RowsFor(c)
  <2>1. calls[current[p]].answer = "pending"
    BY <1>2 DEF Insert, Turns, CallOf
  <2>2. c # current[p]
    BY <2>1
  <2>3. /\ \A i \in DOMAIN log : i \in DOMAIN log' /\ log'[i] = log[i]
        /\ \A i \in DOMAIN log' : i \in DOMAIN log \/ log'[i].call = current[p]
    BY <1>2, RowInserted
  <2> QED  BY <2>2, <2>3 DEF RowsFor
<1> QED  BY <1>1, <1>2, LogStep

(* RecordExtraction: what the table says of a call is final once the call  *)
(* was answered, or its answer was lost in a crash: its statement is over, *)
(* and no other process, and no retry, touches its rows.                   *)
THEOREM AnsweredIsSettled == Spec => SettledOnceAnswered
<1>1. IInv /\ [Next]_vars =>
        [ \A c \in DOMAIN calls :
            calls[c].answer # "pending" =>
              /\ RowsFor(c)' = RowsFor(c)
              /\ \A i \in RowsFor(c) : log'[i] = log[i] ]_vars
  <2> SUFFICES ASSUME IInv, [Next]_vars, NEW c \in DOMAIN calls,
                      calls[c].answer # "pending"
               PROVE  /\ RowsFor(c)' = RowsFor(c)
                      /\ \A i \in RowsFor(c) : log'[i] = log[i]
    OBVIOUS
  <2>1. TypeOK /\ Turns
    BY DEF IInv
  <2>2. \A i \in RowsFor(c) : i \in DOMAIN log
    BY DEF RowsFor
  <2> QED  BY <2>1, <2>2, RowsOfOthers, RowsStay
<1> QED  BY <1>1, Invariance, PTL DEF Spec, SettledOnceAnswered

(* The processes and their table implement the book of Ledger: an insert   *)
(* books a call, an answer of success promises it, and every other step    *)
(* changes neither.                                                        *)
THEOREM ImplementsLedger == Spec => LedgerSpec
<1> DEFINE booked   == { log[i].call : i \in DOMAIN log }
           promised == { c \in DOMAIN calls : calls[c].answer = "recorded" }
<1>1. Init => Book!Init
  <2> SUFFICES ASSUME Init PROVE Book!Init
    OBVIOUS
  <2>1. DOMAIN calls = {} /\ DOMAIN log = {}
    BY EmptySeq DEF Init
  <2> QED  BY <2>1 DEF Book!Init
<1>2. IInv /\ [Next]_vars => [Book!Next]_(Book!ledgerVars)
  <2> SUFFICES ASSUME IInv, [Next]_vars
               PROVE  [Book!Next]_(Book!ledgerVars)
    OBVIOUS
  <2>1. TypeOK /\ Turns /\ Booked
    BY DEF IInv
  <2>2. calls' = calls => promised' = promised
    OBVIOUS
  <2>3. log' = log => booked' = booked
    OBVIOUS
  <2>4. \A p \in Procs : pc[p] # "idle" => current[p] \in 1 .. MaxCalls
    <3>1. Len(calls) \in Nat /\ Len(calls) <= MaxCalls /\ MaxCalls \in Nat
      BY BoundsAssumption DEF IInv, TypeOK
    <3>2. \A p \in Procs : pc[p] # "idle" => current[p] \in 1 .. Len(calls)
      BY <2>1, CallInWork
    <3> QED  BY <3>1, <3>2
  <2>5. ASSUME NEW p \in Procs, Insert(p)
        PROVE  Book!Next
    <3>1. current[p] \in 1 .. MaxCalls
      BY <2>4, <2>5 DEF Insert
    <3>2. current[p] \notin booked
      BY <2>1, <2>5 DEF Insert, Booked
    <3>3. booked' = booked \cup {current[p]}
      <4>1. /\ \A i \in DOMAIN log : i \in DOMAIN log' /\ log'[i] = log[i]
            /\ \A i \in DOMAIN log' : i \in DOMAIN log \/ log'[i].call = current[p]
        BY <2>1, <2>5, RowInserted
      <4>2. Len(log) + 1 \in DOMAIN log' /\ log'[Len(log) + 1].call = current[p]
        <5>1. Len(log) \in Nat
          BY DEF IInv, TypeOK
        <5> QED  BY <2>1, <2>5, <5>1, RowInserted
      <4> QED  BY <4>1, <4>2
    <3>4. promised' = promised
      BY <2>2, <2>5 DEF Insert
    <3> QED  BY <3>1, <3>2, <3>3, <3>4 DEF Book!Next, Book!Book
  <2>6. ASSUME NEW p \in Procs, NEW a \in Answers, log' = log, pc[p] # "idle", Finish(p, a),
               a # "pending", a = "recorded" => pc[p] = "answer"
        PROVE  Book!Next \/ promised' = promised
    <3>1. /\ current[p] \in DOMAIN calls /\ calls[current[p]].answer = "pending"
          /\ current[p] \in 1 .. MaxCalls
      BY <2>1, <2>4, <2>6, CallInWork DEF Turns, CallOf
    <3>2. /\ DOMAIN calls' = DOMAIN calls
          /\ \A c \in DOMAIN calls :
               calls'[c].answer = IF c = current[p] THEN a ELSE calls[c].answer
      BY <2>1, <2>6, CallEnds
    <3>3. CASE a = "recorded"
      <4>1. current[p] \in booked
        BY <2>1, <2>6, <3>3 DEF Booked
      <4>2. current[p] \notin promised
        BY <3>1
      <4>3. promised' = promised \cup {current[p]}
        BY <3>1, <3>2, <3>3
      <4> QED  BY <2>3, <2>6, <3>1, <4>1, <4>2, <4>3 DEF Book!Next, Book!Promise
    <3>4. CASE a # "recorded"
      BY <3>1, <3>2, <3>4
    <3> QED  BY <3>3, <3>4
  <2>7. ASSUME NEW p \in Procs, NEW b \in Brews, Call(p, b)
        PROVE  log' = log /\ promised' = promised
    <3>1. /\ \A c \in DOMAIN calls : calls'[c] = calls[c]
          /\ \A c \in DOMAIN calls' : c \in DOMAIN calls \/ c = Len(calls) + 1
          /\ calls'[Len(calls) + 1].answer = "pending"
          /\ DOMAIN calls' = 1 .. Len(calls) + 1
      BY <2>1, <2>7, CallBegins
    <3>2. DOMAIN calls \subseteq DOMAIN calls'
      BY <2>1, CallsStay
    <3> QED  BY <2>7, <3>1, <3>2 DEF Call
  <2>8. CASE \E p \in Procs : Insert(p)
    BY <2>5, <2>8
  <2>9. CASE log' = log
    <3>1. CASE calls' = calls
      BY <2>2, <2>3, <2>9, <3>1 DEF Book!ledgerVars
    <3>2. CASE promised' = promised
      BY <2>3, <2>9, <3>2 DEF Book!ledgerVars
    <3> QED  BY <2>6, <2>7, <2>9, <3>1, <3>2, CallsStep
  <2> QED  BY <2>8, <2>9, LogStep
<1> QED  BY <1>1, <1>2, Invariance, PTL DEF Spec, LedgerSpec, Book!Spec

=============================================================================
