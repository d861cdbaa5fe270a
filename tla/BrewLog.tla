------------------------------ MODULE BrewLog ------------------------------
(***************************************************************************)
(* The record_extraction tool: recordExtraction of the tools package with  *)
(* RecordExtraction and RecentExtractions of the store, run by several     *)
(* server processes over one database file.                                *)
(*                                                                         *)
(* A call takes the time, inserts its row, reads the pairing's history     *)
(* back and answers with it.  The store looks at the context before each   *)
(* statement; an INSERT that runs when the signal comes may still commit.  *)
(* It commits by itself, so a failure, a signal or a crash after it leaves *)
(* a row behind a call that was not told so.  The client may repeat a call *)
(* that failed.  The clock is the host's wall clock: it may be set back.   *)
(***************************************************************************)
EXTENDS Integers, Sequences, FiniteSets

CONSTANTS
  Procs,            \* server processes over the same database
  Brews,            \* the brews that a client wants on record
  Coffees, Methods, \* the catalogue
  HistoryLimit,     \* the limit recordExtraction gives RecentExtractions
  TicksPerSecond,   \* resolution of the clock, finer than that of a stamp
  MaxTicks,         \* bound: the clock
  MaxCalls          \* bound: calls in a behaviour

(* A brew is what recordExtraction tells apart: the names it is looked up  *)
(* by, whether time, dose and water are all there, and the rating.         *)
ASSUME BrewsAssumption ==
  \A b \in Brews :
    /\ DOMAIN b = {"id", "coffee", "method", "measured", "rating"}
    /\ b.measured \in BOOLEAN
    /\ b.rating \in Int

ASSUME BoundsAssumption ==
  /\ HistoryLimit \in Int
  /\ TicksPerSecond \in Nat \ {0}
  /\ MaxTicks \in Nat
  /\ MaxCalls \in Nat

VARIABLES
  clock,      \* the wall clock, in ticks
  calls,      \* history: every call made, [proc, brew, answer]
  pc,         \* where each process is in its current call
  current,    \* the call a process works on: an index of calls
  stamp,      \* the time that its call took, in seconds
  shown,      \* the rows of log that its call read back
  cancelled,  \* the process's context is cancelled
  log         \* the extractions table, in order of insertion: [call, pair, at]

vars == <<clock, calls, pc, current, stamp, shown, cancelled, log>>

Answers == {"pending", "recorded", "error", "lost"}

TypeOK ==
  /\ clock \in 0 .. MaxTicks
  /\ calls \in Seq([proc : Procs, brew : Brews, answer : Answers])
  /\ Len(calls) <= MaxCalls
  /\ pc \in [Procs -> {"idle", "look-up", "stamp", "execute", "insert", "read-back", "answer"}]
  /\ current \in [Procs -> 0 .. Len(calls)]
  /\ stamp \in [Procs -> Nat]
  /\ shown \in [Procs -> SUBSET (1 .. Len(log))]
  /\ cancelled \in [Procs -> BOOLEAN]
  /\ log \in Seq([call : 1 .. Len(calls), pair : Coffees \X Methods, at : Nat])

Init ==
  /\ clock = 0
  /\ calls = <<>>
  /\ pc = [p \in Procs |-> "idle"]
  /\ current = [p \in Procs |-> 0]
  /\ stamp = [p \in Procs |-> 0]
  /\ shown = [p \in Procs |-> {}]
  /\ cancelled = [p \in Procs |-> FALSE]
  /\ log = <<>>

-----------------------------------------------------------------------------
(* Helpers.                                                                *)

CallOf(p) == calls[current[p]]
BrewOf(p) == CallOf(p).brew
Pairing(b) == <<b.coffee, b.method>>

Goto(p, step) == pc' = [pc EXCEPT ![p] = step]

(* FindCoffee and FindMethod find the names, and the two checks of the     *)
(* arguments pass.  A rating of 0 is what the absent one decodes to.       *)
Recordable(b) ==
  /\ b.coffee \in Coffees
  /\ b.method \in Methods
  /\ b.measured
  /\ b.rating \in 0 .. 10

(* A plausible slip: half a second is taken off to round down. *)
SecondsBefore(t) == (t - 1) \div TicksPerSecond

(* brewed_at is written with RFC 3339's seconds. *)
Seconds(t) == t \div TicksPerSecond

RowsOf(pair) == { i \in DOMAIN log : log[i].pair = pair }

EffectiveLimit(limit) == IF limit <= 0 THEN 10 ELSE limit

(* A plausible slip: ORDER BY brewed_at without DESC. *)
LatestAscending(pair, limit) ==
  { T \in SUBSET RowsOf(pair) :
      /\ \/ T = RowsOf(pair) /\ Cardinality(T) <= EffectiveLimit(limit)
         \/ Cardinality(T) = EffectiveLimit(limit)
      /\ \A i \in T, j \in RowsOf(pair) \ T : log[i].at <= log[j].at }

(* What ORDER BY brewed_at DESC LIMIT n may return, as sets of rows: SQL   *)
(* leaves open which of several rows with one stamp come first.            *)
Latest(pair, limit) ==
  { T \in SUBSET RowsOf(pair) :
      /\ \/ T = RowsOf(pair) /\ Cardinality(T) <= EffectiveLimit(limit)
         \/ Cardinality(T) = EffectiveLimit(limit)
      /\ \A i \in T, j \in RowsOf(pair) \ T : log[i].at >= log[j].at }

(* The call is over for the process.  A process that was signalled leaves  *)
(* ServeStdio after this answer, and the host starts another in its place. *)
Finish(p, answer) ==
  /\ calls' = [calls EXCEPT ![current[p]].answer = answer]
  /\ Goto(p, "idle")
  /\ current' = [current EXCEPT ![p] = 0]
  /\ stamp' = [stamp EXCEPT ![p] = 0]
  /\ shown' = [shown EXCEPT ![p] = {}]
  /\ cancelled' = [cancelled EXCEPT ![p] = FALSE]

-----------------------------------------------------------------------------
(* The clients and the clock.                                              *)

(* A client asks for a brew to be recorded: a new one, or one whose        *)
(* earlier call failed or was never answered.  A signal that found the     *)
(* process waiting for this call is noticed in it.                         *)
Call(p, b) ==
  /\ pc[p] = "idle"
  /\ Len(calls) < MaxCalls
  /\ \A c \in DOMAIN calls : calls[c].brew = b => calls[c].answer \in {"error", "lost"}
  /\ calls' = Append(calls, [proc |-> p, brew |-> b, answer |-> "pending"])
  /\ current' = [current EXCEPT ![p] = Len(calls) + 1]
  /\ Goto(p, "look-up")
  /\ \E signalled \in BOOLEAN : cancelled' = [cancelled EXCEPT ![p] = signalled]
  /\ UNCHANGED <<clock, stamp, shown, log>>

Tick ==
  /\ clock < MaxTicks
  /\ clock' = clock + 1
  /\ UNCHANGED <<calls, pc, current, stamp, shown, cancelled, log>>

(* The host's clock is corrected. *)
StepBack ==
  /\ clock > 0
  /\ \E t \in 0 .. clock - 1 : clock' = t
  /\ UNCHANGED <<calls, pc, current, stamp, shown, cancelled, log>>

(* SIGINT or SIGTERM during a call. *)
Signal(p) ==
  /\ pc[p] # "idle"
  /\ ~cancelled[p]
  /\ cancelled' = [cancelled EXCEPT ![p] = TRUE]
  /\ UNCHANGED <<clock, calls, pc, current, stamp, shown, log>>

-----------------------------------------------------------------------------
(* recordExtraction.  The store's calls are given the context.             *)

LookUp(p) ==
  /\ pc[p] = "look-up"
  /\ ~cancelled[p]
  /\ Recordable(BrewOf(p))
  /\ Goto(p, "stamp")
  /\ UNCHANGED <<clock, calls, current, stamp, shown, cancelled, log>>

(* An unknown name or a senseless number: an error before any effect. *)
Refuse(p) ==
  /\ pc[p] = "look-up"
  /\ ~Recordable(BrewOf(p))
  /\ Finish(p, "error")
  /\ UNCHANGED <<clock, log>>

Stamp(p) ==
  /\ pc[p] = "stamp"
  /\ stamp' = [stamp EXCEPT ![p] = Seconds(clock)]
  /\ Goto(p, "execute")
  /\ UNCHANGED <<clock, calls, current, shown, cancelled, log>>

(* ExecContext looks at the context, and the INSERT begins. *)
Execute(p) ==
  /\ pc[p] = "execute"
  /\ ~cancelled[p]
  /\ Goto(p, "insert")
  /\ UNCHANGED <<clock, calls, current, stamp, shown, cancelled, log>>

(* A plausible slip: an INSERT that reported "busy" is tried once more,    *)
(* though its row may be there.                                            *)
InsertTwice(p) ==
  /\ pc[p] = "insert"
  /\ LET row == [call |-> current[p], pair |-> Pairing(BrewOf(p)), at |-> stamp[p]]
     IN  log' \in { Append(log, row), log \o <<row, row>> }
  /\ Goto(p, "read-back")
  /\ UNCHANGED <<clock, calls, current, stamp, shown, cancelled>>

(* The INSERT commits, whatever became of the context meanwhile. *)
Insert(p) ==
  /\ pc[p] = "insert"
  /\ log' = Append(log, [call |-> current[p],
                         pair |-> Pairing(BrewOf(p)),
                         at   |-> stamp[p]])
  /\ Goto(p, "read-back")
  /\ UNCHANGED <<clock, calls, current, stamp, shown, cancelled>>

ReadBack(p) ==
  /\ pc[p] = "read-back"
  /\ ~cancelled[p]
  /\ \E T \in Latest(Pairing(BrewOf(p)), HistoryLimit) :
       shown' = [shown EXCEPT ![p] = T]
  /\ Goto(p, "answer")
  /\ UNCHANGED <<clock, calls, current, stamp, cancelled, log>>

Answer(p) ==
  /\ pc[p] = "answer"
  /\ Finish(p, "recorded")
  /\ UNCHANGED <<clock, log>>

(* A plausible slip: a store that is busy is taken for one that has done   *)
(* its work.                                                               *)
StoreFailureIgnored(p) ==
  /\ pc[p] \in {"look-up", "execute", "insert", "read-back"}
  /\ Finish(p, IF pc[p] = "look-up" THEN "error" ELSE "recorded")
  /\ UNCHANGED <<clock, log>>

(* A plausible slip: the INSERT has a goroutine of its own, and a handler   *)
(* whose context is cancelled does not wait for it.                        *)
StoreFailsUnawaited(p) ==
  \/ /\ pc[p] \in {"look-up", "execute", "read-back"}
     /\ Finish(p, "error")
     /\ UNCHANGED <<clock, log>>
  \/ /\ pc[p] = "insert" /\ cancelled[p]
     /\ calls' = [calls EXCEPT ![current[p]].answer = "error"]
     /\ UNCHANGED <<clock, pc, current, stamp, shown, cancelled, log>>

(* A call of the store fails, on a cancelled context, a busy database or a *)
(* bad disk, and the handler returns the error whatever came before it.    *)
(* An INSERT that fails before its commit leaves nothing; the context can  *)
(* also turn the success of one that has committed into an error, which is *)
(* the failure at "read-back".                                             *)
StoreFails(p) ==
  /\ pc[p] \in {"look-up", "execute", "insert", "read-back"}
  /\ Finish(p, "error")
  /\ UNCHANGED <<clock, log>>

(* The process dies, or its answer cannot be written; the host starts it   *)
(* again.                                                                  *)
Crash(p) ==
  /\ pc[p] # "idle"
  /\ Finish(p, "lost")
  /\ UNCHANGED <<clock, log>>

-----------------------------------------------------------------------------

Step(p) ==
  \/ LookUp(p) \/ Refuse(p) \/ Stamp(p) \/ Execute(p) \/ Insert(p) \/ ReadBack(p)
  \/ Answer(p) \/ StoreFails(p)

Next ==
  \/ Tick \/ StepBack
  \/ \E p \in Procs :
       \/ \E b \in Brews : Call(p, b)
       \/ Step(p) \/ Signal(p) \/ Crash(p)

Spec == Init /\ [][Next]_vars

-----------------------------------------------------------------------------
(* Properties.                                                             *)

RowsFor(c) == { i \in DOMAIN log : log[i].call = c }

(* A call that was told "recorded" has exactly one row, of its own         *)
(* pairing, however its steps mix with those of other calls.               *)
RecordedOnce ==
  \A c \in DOMAIN calls :
    calls[c].answer = "recorded" =>
      /\ Cardinality(RowsFor(c)) = 1
      /\ \A i \in RowsFor(c) : log[i].pair = Pairing(calls[c].brew)

(* A brew is in the book twice only if a call for it ended after its       *)
(* insert without saying so.                                               *)
DuplicatesOnlyAfterLateFailure ==
  \A i, j \in DOMAIN log :
    i # j /\ calls[log[i].call].brew = calls[log[j].call].brew =>
      /\ log[i].call # log[j].call
      /\ \E c \in {log[i].call, log[j].call} : calls[c].answer \in {"error", "lost"}

(* The history a call shows holds brews of its own pairing only, at most   *)
(* the limit, and its own brew unless that many brews are stamped no       *)
(* earlier: later ones of other processes, or a clock that was set back.   *)
HistoryShown ==
  \A p \in Procs :
    pc[p] = "answer" =>
      LET pair == Pairing(BrewOf(p)) IN
      /\ \A i \in shown[p] : log[i].pair = pair
      /\ Cardinality(shown[p]) \in 1 .. EffectiveLimit(HistoryLimit)
      /\ \A own \in RowsFor(current[p]) \ shown[p] :
           Cardinality({ i \in shown[p] : log[i].at >= log[own].at })
             = EffectiveLimit(HistoryLimit)

(* Once a call was answered, or its answer was lost, what the table says   *)
(* of it is final: no row of it comes later, none goes, and none is        *)
(* changed by a retry.  So a client without an answer can look before it   *)
(* repeats the call, and what it sees is not about to change               *)
(* (RecordExtraction, which returns only when its statement is over).      *)
SettledOnceAnswered ==
  [][ \A c \in DOMAIN calls :
        calls[c].answer # "pending" =>
          /\ RowsFor(c)' = RowsFor(c)
          /\ \A i \in RowsFor(c) : log'[i] = log[i] ]_vars

(* "Returning an error means the tool failed" (Handler): a call that was   *)
(* answered with an error has recorded nothing.                            *)
ErrorMeansNotRecorded ==
  \A c \in DOMAIN calls : calls[c].answer = "error" => RowsFor(c) = {}

(* The table is the book of Ledger. *)
Book ==
  INSTANCE Ledger
    WITH CallIds  <- 1 .. MaxCalls,
         booked   <- { log[i].call : i \in DOMAIN log },
         promised <- { c \in DOMAIN calls : calls[c].answer = "recorded" }

LedgerSpec == Book!Spec
=============================================================================
