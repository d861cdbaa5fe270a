----------------------------- MODULE ShopStore -----------------------------
(***************************************************************************)
(* Opening the shop's database: store.Open, seedIfEmpty and the part of    *)
(* main.run around them.                                                   *)
(*                                                                         *)
(* An MCP host starts one server process per session, so several processes *)
(* may open one database file at the same time; each goes through the      *)
(* statements of Open on its own.  SQLite is the only thing they share: it *)
(* commits a statement outside a transaction at once, lets one connection  *)
(* write at a time, and gives a writer the lock at its first write, not at *)
(* BEGIN.  A signal cancels the context that every statement is given; a   *)
(* crash may come between any two steps and rolls back what was not        *)
(* committed.                                                              *)
(***************************************************************************)
EXTENDS Integers, Sequences

CONSTANTS
  Procs,        \* server processes that share the database file
  NoProc,       \* nobody: the write lock is free
  Schema,       \* the objects the schema creates, in statement order
  Seed,         \* the rows of seedStatements(), in statement order
  MaxLaunches   \* bound: process starts in a behaviour

ASSUME NoProcAssumption == NoProc \notin Procs

(* A row is the table it goes to, the key that must be new and the keys of *)
(* the rows that its INSERT looks up.                                      *)
RowOK(r) == DOMAIN r = {"table", "key", "refs"}

ASSUME SchemaAssumption == Schema \in Seq(STRING) /\ Len(Schema) > 0

ASSUME SeedAssumption ==
  /\ Seed \in Seq({ Seed[i] : i \in DOMAIN Seed })
  /\ \A i \in DOMAIN Seed : RowOK(Seed[i])
  /\ \A i, j \in DOMAIN Seed : Seed[i].key = Seed[j].key => i = j
  /\ \E i \in DOMAIN Seed : Seed[i].table = "coffees"

ASSUME LaunchesAssumption == MaxLaunches \in Nat

VARIABLES
  objects,      \* indices of the schema's objects that exist
  rows,         \* the committed catalogue rows, in insertion order
  lock,         \* the process that holds SQLite's write lock, or NoProc
  pc,           \* where each process is
  done,         \* statements of the current batch that a process has run
  cancelled,    \* the process's context is cancelled
  outcome,      \* why the last run of a process ended
  launches      \* process starts so far (bounded by MaxLaunches)

vars == <<objects, rows, lock, pc, done, cancelled, outcome, launches>>

(* The statements of Open that a process can be about to run. *)
OpenSteps == {"pragma", "schema", "count", "begin", "insert", "commit"}

Outcomes ==
  {"none", "conflict", "dangling", "busy", "io", "cancelled", "eof", "crash"}

TypeOK ==
  /\ objects \in SUBSET (1 .. Len(Schema))
  /\ rows \in Seq({ Seed[i] : i \in DOMAIN Seed })
  /\ lock \in Procs \cup {NoProc}
  /\ pc \in [Procs -> OpenSteps \cup {"down", "register", "serving"}]
  /\ done \in [Procs -> Nat]
  /\ cancelled \in [Procs -> BOOLEAN]
  /\ outcome \in [Procs -> Outcomes]
  /\ launches \in 0 .. MaxLaunches

Init ==
  /\ objects = {}
  /\ rows = <<>>
  /\ lock = NoProc
  /\ pc = [p \in Procs |-> "down"]
  /\ done = [p \in Procs |-> 0]
  /\ cancelled = [p \in Procs |-> FALSE]
  /\ outcome = [p \in Procs |-> "none"]
  /\ launches = 0

-----------------------------------------------------------------------------
(* Helpers.                                                                *)

Opening(p) == pc[p] \in OpenSteps
Running(p) == pc[p] # "down"

(* A statement runs only while the process's context is live. *)
At(p, step) == pc[p] = step /\ ~cancelled[p]

Goto(p, step) == pc' = [pc EXCEPT ![p] = step]

LockFree(p) == lock \in {NoProc, p}

(* A plausible slip for Exit: the transaction is not rolled back.          *)
ExitKeepsLock(p, why) ==
  /\ pc' = [pc EXCEPT ![p] = "down"]
  /\ done' = [done EXCEPT ![p] = 0]
  /\ outcome' = [outcome EXCEPT ![p] = why]
  /\ lock' = lock

(* Leaving the process: its connection closes, so its transaction is       *)
(* rolled back and its lock is given up.                                   *)
Exit(p, why) ==
  /\ pc' = [pc EXCEPT ![p] = "down"]
  /\ done' = [done EXCEPT ![p] = 0]
  /\ outcome' = [outcome EXCEPT ![p] = why]
  /\ lock' = IF lock = p THEN NoProc ELSE lock

(* A plausible slip: counting a table that the seed leaves empty. *)
CatalogueEmptyByBrews == \A i \in DOMAIN rows : rows[i].table # "extractions"

CatalogueEmpty == \A i \in DOMAIN rows : rows[i].table # "coffees"

(* What the transaction that has run n statements of the seed can see. *)
KeysVisible(n) ==
  { rows[i].key : i \in DOMAIN rows } \cup { Seed[i].key : i \in 1 .. n }

NextRow(p) == Seed[done[p] + 1]

Insertable(p) ==
  /\ NextRow(p).refs \subseteq KeysVisible(done[p])
  /\ NextRow(p).key \notin KeysVisible(done[p])

-----------------------------------------------------------------------------
(* The steps of one process.                                               *)

(* main: the host starts the server.  run makes the context and the data   *)
(* directory; sql.Open connects to nothing yet.                            *)
Launch(p) ==
  /\ ~Running(p)
  /\ launches < MaxLaunches
  /\ launches' = launches + 1
  /\ pc' = [pc EXCEPT ![p] = "pragma"]
  /\ cancelled' = [cancelled EXCEPT ![p] = FALSE]
  /\ outcome' = [outcome EXCEPT ![p] = "none"]
  /\ UNCHANGED <<objects, rows, lock, done>>

EnableForeignKeys(p) ==
  /\ At(p, "pragma")
  /\ Goto(p, "schema")
  /\ UNCHANGED <<objects, rows, lock, done, cancelled, outcome, launches>>

(* A plausible slip: one statement too many. *)
ApplySchemaPastEnd(p) ==
  /\ At(p, "schema")
  /\ done[p] <= Len(Schema)
  /\ done[p] + 1 \in objects \/ LockFree(p)
  /\ objects' = objects \cup {done[p] + 1}
  /\ done' = [done EXCEPT ![p] = @ + 1]
  /\ UNCHANGED <<rows, lock, pc, cancelled, outcome, launches>>

(* One CREATE ... IF NOT EXISTS.  Each commits by itself; creating an      *)
(* object is a write and needs the lock, finding it there does not.        *)
ApplySchema(p) ==
  /\ At(p, "schema")
  /\ done[p] < Len(Schema)
  /\ done[p] + 1 \in objects \/ LockFree(p)
  /\ objects' = objects \cup {done[p] + 1}
  /\ done' = [done EXCEPT ![p] = @ + 1]
  /\ UNCHANGED <<rows, lock, pc, cancelled, outcome, launches>>

(* A plausible slip: the schema counts as applied when its tables start to *)
(* exist.                                                                  *)
SchemaAppliedEarly(p) ==
  /\ At(p, "schema")
  /\ objects # {}
  /\ done' = [done EXCEPT ![p] = 0]
  /\ Goto(p, "count")
  /\ UNCHANGED <<objects, rows, lock, cancelled, outcome, launches>>

SchemaApplied(p) ==
  /\ At(p, "schema")
  /\ done[p] = Len(Schema)
  /\ done' = [done EXCEPT ![p] = 0]
  /\ Goto(p, "count")
  /\ UNCHANGED <<objects, rows, lock, cancelled, outcome, launches>>

(* SELECT COUNT( * ) FROM coffees: read outside the transaction that the   *)
(* answer decides about.                                                   *)
CountCoffees(p) ==
  /\ At(p, "count")
  /\ Goto(p, IF CatalogueEmpty THEN "begin" ELSE "register")
  /\ UNCHANGED <<objects, rows, lock, done, cancelled, outcome, launches>>

(* BeginTx: a deferred BEGIN takes no lock. *)
BeginSeed(p) ==
  /\ At(p, "begin")
  /\ Goto(p, "insert")
  /\ UNCHANGED <<objects, rows, lock, done, cancelled, outcome, launches>>

(* A plausible slip: the INSERT goes to the database, not to the           *)
(* transaction, and commits by itself.                                     *)
InsertSeedAutocommit(p) ==
  /\ At(p, "insert")
  /\ LockFree(p)
  /\ Insertable(p)
  /\ rows' = Append(rows, NextRow(p))
  /\ done' = [done EXCEPT ![p] = @ + 1]
  /\ Goto(p, IF done[p] + 1 = Len(Seed) THEN "commit" ELSE "insert")
  /\ UNCHANGED <<objects, lock, cancelled, outcome, launches>>

(* One INSERT of the seed; the first one takes the write lock, or waits    *)
(* for it inside SQLite's busy handler.                                    *)
InsertSeed(p) ==
  /\ At(p, "insert")
  /\ LockFree(p)
  /\ Insertable(p)
  /\ lock' = p
  /\ done' = [done EXCEPT ![p] = @ + 1]
  /\ Goto(p, IF done[p] + 1 = Len(Seed) THEN "commit" ELSE "insert")
  /\ UNCHANGED <<objects, rows, cancelled, outcome, launches>>

(* The INSERT is refused: a name it looks up is not there (NULL in a NOT   *)
(* NULL column), or its key is taken.  seedIfEmpty returns the error, the  *)
(* deferred Rollback runs, Open closes the database and main exits.        *)
SeedRejected(p) ==
  /\ At(p, "insert")
  /\ LockFree(p)
  /\ ~Insertable(p)
  /\ Exit(p, IF NextRow(p).refs \subseteq KeysVisible(done[p])
             THEN "conflict" ELSE "dangling")
  /\ UNCHANGED <<objects, rows, cancelled, launches>>

(* tx.Commit: the seed becomes visible as a whole. *)
CommitSeed(p) ==
  /\ At(p, "commit")
  /\ rows' = rows \o SubSeq(Seed, 1, done[p])
  /\ lock' = NoProc
  /\ done' = [done EXCEPT ![p] = 0]
  /\ Goto(p, "register")
  /\ UNCHANGED <<objects, cancelled, outcome, launches>>

(* Open returned: run registers the tools and enters ServeStdio.  Nothing  *)
(* here looks at the context.                                              *)
RegisterTools(p) ==
  /\ pc[p] = "register"
  /\ Goto(p, "serving")
  /\ UNCHANGED <<objects, rows, lock, done, cancelled, outcome, launches>>

-----------------------------------------------------------------------------
(* What ends a process early.                                              *)

(* SIGINT or SIGTERM: signal.NotifyContext cancels the context. *)
Signal(p) ==
  /\ Running(p)
  /\ ~cancelled[p]
  /\ cancelled' = [cancelled EXCEPT ![p] = TRUE]
  /\ UNCHANGED <<objects, rows, lock, pc, done, outcome, launches>>

(* The next statement finds the context cancelled, and Open fails. *)
Interrupted(p) ==
  /\ Opening(p)
  /\ cancelled[p]
  /\ Exit(p, "cancelled")
  /\ UNCHANGED <<objects, rows, cancelled, launches>>

(* A plausible slip: somebody else is writing, so somebody else is seeding *)
(* and this process may carry on.                                          *)
BusyCarriesOn(p) ==
  /\ At(p, "insert")
  /\ ~LockFree(p)
  /\ done' = [done EXCEPT ![p] = 0]
  /\ Goto(p, "register")
  /\ UNCHANGED <<objects, rows, lock, cancelled, outcome, launches>>

(* The busy handler gives up: somebody else held the lock for too long. *)
BusyTimeout(p) ==
  /\ At(p, "schema") \/ At(p, "insert")
  /\ ~LockFree(p)
  /\ Exit(p, "busy")
  /\ UNCHANGED <<objects, rows, cancelled, launches>>

(* A statement fails for a reason of its own: a full disk, a bad file.     *)
IOFailure(p) ==
  /\ Opening(p)
  /\ Exit(p, "io")
  /\ UNCHANGED <<objects, rows, cancelled, launches>>

(* ServeStdio returns: the client closed its end, or the loop came round   *)
(* to its look at the context after a signal.  A read in progress is not   *)
(* interrupted, so neither is owed.                                        *)
LeaveServing(p) ==
  /\ pc[p] = "serving"
  /\ \/ Exit(p, "eof")
     \/ cancelled[p] /\ Exit(p, "cancelled")
  /\ UNCHANGED <<objects, rows, cancelled, launches>>

(* The process dies with no chance to clean up; SQLite's journal rolls its *)
(* transaction back.                                                       *)
Crash(p) ==
  /\ Running(p)
  /\ Exit(p, "crash")
  /\ UNCHANGED <<objects, rows, cancelled, launches>>

-----------------------------------------------------------------------------

(* The steps a process takes by itself, which the scheduler owes it. *)
OwnStep(p) ==
  \/ EnableForeignKeys(p) \/ ApplySchema(p) \/ SchemaApplied(p)
  \/ CountCoffees(p) \/ BeginSeed(p) \/ InsertSeed(p) \/ SeedRejected(p)
  \/ CommitSeed(p) \/ RegisterTools(p)

Disturbance(p) ==
  \/ Signal(p) \/ BusyTimeout(p) \/ IOFailure(p) \/ Crash(p)

Next ==
  \E p \in Procs :
    \/ Launch(p) \/ OwnStep(p) \/ Interrupted(p) \/ LeaveServing(p)
    \/ Disturbance(p)

(* A launched process is scheduled, and a cancelled one notices it at its  *)
(* next statement.  Nobody owes a launch, a signal, a failure or a crash.  *)
Fairness == \A p \in Procs : WF_vars(OwnStep(p) \/ Interrupted(p))

Spec == Init /\ [][Next]_vars

FairSpec == Spec /\ Fairness

-----------------------------------------------------------------------------
(* Properties.                                                             *)

(* Whatever processes, signals and crashes do, the committed catalogue is  *)
(* empty or exactly the seed: no half-filled shop and no shop filled twice *)
(* (the transaction of seedIfEmpty).                                       *)
AllOrNothing == rows \in {<<>>, Seed}

(* A process that serves, or is about to, does so on a complete schema and *)
(* a complete catalogue: count > 0 and a successful commit both imply it   *)
(* (Open returns a Store only then).                                       *)
ServingSeeded ==
  \A p \in Procs :
    pc[p] \in {"register", "serving"} =>
      rows = Seed /\ objects = 1 .. Len(Schema)

(* A process that loses the race to fill the catalogue is refused for a    *)
(* row that is really there: its failed Open leaves a shop that the next   *)
(* launch can serve from.                                                  *)
LoserFindsSeeded ==
  \A p \in Procs : outcome[p] = "conflict" => rows = Seed

(* No INSERT of the seed looks up a coffee or a method that is not there   *)
(* yet: the statements of seedStatements come in an order in which every   *)
(* sub-select finds its row.                                               *)
NoDangling == \A p \in Procs : outcome[p] # "dangling"

(* The write lock is given back: while somebody holds it, its holder is in *)
(* the middle of its seed transaction and the catalogue is still empty.    *)
LockMeansSeeding ==
  lock # NoProc =>
    /\ pc[lock] \in {"insert", "commit"}
    /\ done[lock] > 0
    /\ rows = <<>>

(* Open does not hang: every launched process ends up serving or down,     *)
(* even behind another process's seed transaction (the lock is only waited *)
(* for, never deadlocked on).                                              *)
EveryOpenSettles == \A p \in Procs : Opening(p) ~> ~Opening(p)

(* A launch on a database that is already filled is never refused for the  *)
(* catalogue's sake: it serves, or it was signalled, killed, kept waiting  *)
(* or let down by the disk ("opening an existing database is a no-op").    *)
RelaunchServes ==
  \A p \in Procs :
    pc[p] = "pragma" /\ rows = Seed ~>
      \/ pc[p] = "serving"
      \/ outcome[p] \in {"busy", "io", "cancelled", "crash"}

(* Open "prepares a database at path, creating and seeding it if it is     *)
(* new": an Open that nothing disturbed does not fail.                     *)
UndisturbedOpenServes == \A p \in Procs : outcome[p] # "conflict"

(* The database is to its processes what Catalogue says: prepared, then    *)
(* filled once and as a whole, then served from.                           *)
Shared ==
  INSTANCE Catalogue
    WITH Contents <- Seed,
         prepared <- objects = 1 .. Len(Schema),
         filled   <- rows,
         servers  <- { p \in Procs : pc[p] = "serving" }

CatalogueSpec == Shared!Spec
=============================================================================
