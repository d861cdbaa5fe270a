# BrewOps, specified and checked

TLA+ specifications of `brewops-mcp`, an MCP server that keeps a coffee shop's
catalogue, recipes, roast profiles and brew log in a SQLite file and answers a
language model's tool calls over stdio. Modules (`*.tla`) model the program,
`MC*.tla` and `*.cfg` are small instances that TLC checks, and
`*Proofs.tla` hold theorems checked by TLAPS. `PROJECT.json` lists the
runs, the mutants that show each property can fail, the map from definitions to
source lines, the hazards and the findings.

## The system

| Component | Source | State | Operations | Interacts with |
| --- | --- | --- | --- | --- |
| program | `src/main.go` | context cancelled by SIGINT/SIGTERM | start, stop | opens the store, registers the tools, enters the loop |
| transport | `internal/server/stdio.go` | position in the stream, last read error | read a line, handle it, write the answer | host's pipes, dispatcher |
| dispatcher | `internal/server/server.go`, `jsonrpc.go` | table of tools (fixed before serving) | initialize, tools/list, tools/call | transport, tool handlers |
| store: opening | `internal/store/store.go`, `schema.go`, `seed.go` | tables, catalogue rows, SQLite's lock | Open: pragma, schema, count, seed | other processes on the same file |
| store: lookups | `internal/store/store.go` | none of its own | FindCoffee, FindMethod, Recipe, MethodsFor, RoastProfiles | handlers |
| brew log | `store.go`, `internal/tools/handlers.go` | extractions table | record_extraction: stamp, insert, read back | wall clock, other processes, retrying client |
| diagnosis | `internal/brew/diagnose.go` | none (pure) | Diagnose, decide | recipe, coffee's rest, the barista who follows it |
| scaling | `internal/brew/recipe.go` | none (pure) | ScaleToWater, ScaleToDose, pours | recipe |
| roast comparison | `internal/brew/roast.go` | none (pure) | CompareProfiles, summarise | two profiles |
| rest windows | `internal/brew/coffee.go` | none (pure) | DaysOffRoast, Rest | clock |
| flavours | `internal/brew/coffee.go`, `notes.go` | none (pure) | expand, MatchesNotes; recommend_coffee's ranking | catalogue, rest |

One process is sequential: the loop reads a frame, runs its tool to the end,
writes the answer and reads on. Concurrency comes from outside. A host starts
one process per session, so several share the database file; signals and
crashes come at any step; the client sends, reads and retries at its own pace;
the wall clock belongs to the host.

Hard behaviours, by component, and what makes each correct:

- *Opening.* The decision to seed is made outside the transaction that seeds,
  and 26 inserts can be cut short anywhere. Correct: the catalogue is empty or
  complete, and nobody serves from less.
- *Transport.* Blank lines, notifications, garbage, a last line without a
  newline, a slow reader, a signal while blocked in a read. Correct: one
  fitting answer for each frame that is owed one, in order, and none else.
- *Brew log.* Insert, read-back and answer are separate; stamps are taken
  before the insert and have whole seconds. Correct: what was acknowledged is
  on record once; a duplicate needs a failure that came after an insert; and
  once a client has its answer, or has lost it, the table is done with the call,
  so that looking there is a safe way to find out.
- *Diagnosis.* Three variables, two bands and one change at a time. Correct:
  outside the window is never on target, nothing off is lost, and following
  the advice ends.
- *A whole server.* The tool runs inside the loop, on the loop's context, and a
  signal reaches both. Correct: what the client can read agrees with what is on
  record; after a signal no recording begins, and nobody is told of one that was
  not on record.
- *Lookups.* A name is part of a name, and the query reads two rows. Correct: a
  name finds one lot, or is refused because there is none or because it says
  too little.
- *Scaling, comparison, rest, flavours.* Rounding and band edges; local times
  beside dates of UTC; which word answers which request. Correct: pours add
  up, the summary names the largest movement, a coffee only ages forward and
  its age is known in every zone, and no lot that carries what was asked for
  makes way for one that answers less.

## Modules

### ShopStore, Catalogue, SeedData

`ShopStore` models `store.Open`, `seedIfEmpty` and the part of `main.run`
around them, for a set `Procs` of processes over one file. A process's `pc`
names the statement it is about to run, `done` its position in the schema or in
the seed.

| Code | Action |
| --- | --- |
| host starts the server; `run` up to `Open` | `Launch` |
| `PRAGMA foreign_keys = ON` | `EnableForeignKeys` |
| one `CREATE ... IF NOT EXISTS` | `ApplySchema`, then `SchemaApplied` |
| `SELECT COUNT(*) FROM coffees` | `CountCoffees` |
| `BeginTx` (deferred) | `BeginSeed` |
| one `INSERT`, or its refusal | `InsertSeed`, `SeedRejected` |
| `tx.Commit` | `CommitSeed` |
| `Register`, `ServeStdio` | `RegisterTools`, `LeaveServing` |
| signal; the next statement's `ctx` error | `Signal`, `Interrupted` |
| SQLite busy, I/O error, `kill -9` | `BusyTimeout`, `IOFailure`, `Crash` |

SQLite is modelled by what the code relies on: a statement outside a
transaction commits at once; the first write of a transaction takes the one
write lock, or waits in the busy handler and may give up; readers see committed
rows only; a closed connection or a journal recovery rolls back. A row is its
table, the key that must be new and the keys its sub-selects look up;
`SeedData` gives the real 26 rows in that form. `Catalogue` is what all this
promises (prepared, filled once and as a whole, then served from), and
`ShopStore` implements it under the mapping in `Shared`.

### Stdio

`ServeStdio`'s loop, one action per step: `CheckContext`, `ReadLine`,
`ReadEnd` or `ReadFails`, then `IgnoreFrame`, `AnswerFrame` or `StartTool`/`FinishTool`,
then `WriteAnswer` or `WriteFails`, then `EndOfTurn`, where the error beside the
line is looked at. `ReadFails` may come beside what there was of a line
(`NextLine`), which is handled like any other before the error ends the loop.
A frame is what the code tells apart: blank, refused by
`json.Unmarshal`, or a message with an id (or none), a method and params. The
client (`Send`, `Close`, `TakeAnswer`) is external. A tool that is started on a
cancelled context fails, since every handler asks the store before it can
succeed.

### BrewLog, Ledger, BrewOps

`recordExtraction` in several processes: `LookUp` or `Refuse`, `Stamp`,
`Execute`, `Insert`, `ReadBack`, `Answer`, and `StoreFails` at each call of the
store. `Execute` is where `ExecContext` looks at the context and `Insert` the
commit that follows; a signal fits in between, and then the row is committed
all the same or `StoreFails` leaves none. That the driver reports an error
although it has committed is `StoreFails` behind the insert: the handler goes
the same way. The client may repeat a call that failed or was lost (`Call`); `StepBack` sets the
clock back. `Latest` is the set of rows that `ORDER BY brewed_at DESC LIMIT n`
may return; SQL leaves the order of ties open and so does the model. A process
that was signalled leaves after its answer, so `Finish` puts a fresh one in its
place. `Ledger` is the promise: booked once, never promised before it is
booked, never taken out.

`BrewOps` composes a server: the loop of `Stdio` and the tool of `BrewLog`, each
an INSTANCE, in one process with its client. They meet where the code has them
meet. `StartTool` hands the tool its brew and its context (`callTool`),
`ToolStep` is a step of the handler while the loop waits for it, `FinishTool`
turns the handler's text or error into the answer that is written, and `Signal`
cancels the one context that both look at. What `Stdio` assumes of any tool
(it comes to an end, and fails if it was started on a cancelled context) is
shown of this one: `LoopSpec` is the refinement of `Stdio`, fairness included.
`WireLedger` is `Ledger` again, as the client sees it: promised is what it can
read on the wire without `isError`.

### Diagnose, DialIn

`Diagnose` has the functions of `diagnose.go` as operators over integers
(tenths of grams, degrees and ratio), comparing quotients by
cross-multiplication. float64 agrees except for a ratio that is off by exactly
a band's edge, where the code's answer depends on rounding; the instance has no
such brew. `DialIn` is the loop around it: brew, ask, make the one change that
is named, brew again. What a change does to the next brew is an assumption
about the barista and the grinder, stated at the head of the module: the named
lever moves and nothing else does, one step of the grinder moves the time by
`StepSeconds`, and after a change of ratio the time may be anything.

### Scale, Roast, RestWindows, Notes, Lookup, Desk

`Desk` has the handlers of the eight tools that look something up or work
something out: a question, an answer or a refusal, and the next question. None
of them writes, so the catalogue is a constant, and a handler is one step
whatever other processes do. `HandlerFails` is the error of a call of the store
or of arguments that cannot be decoded. What the handlers call is in modules of
their own, as operators:

- `Scale` has `ScaleToWater`, `ScaleToDose`, `scale` and `buildPours` in tenths
  of a gram. float64 may put half a tenth on either side, so `Nearest` is a set
  and an operator returns every card that the code may. Without a usable ratio
  there is none, which is the refusal of `ScaleToWater` and `ScaleToDose`.
- `Roast` has `CompareProfiles`: `Reading` is a landmark of a profile, recorded
  or derived, `Compared` those that both batches have, `Grade` the three bands,
  `summarise` the landmark that the summary names.
- `RestWindows` has `DaysOffRoast`, `Rest` and `restRank`. Time is in hours from
  a midnight of UTC; a roast date is a day of the shop's calendar that the code
  reads back as midnight UTC, so the zone of the shop is part of the age.
- `Notes` has the whole of `notes.go` and `MatchesNotes`. A text is a sequence
  of words and a word a sequence of its parts, which is as much spelling as
  "contains" needs: grape is in grapefruit, apple in pineapple, and texts that
  share no part share nothing. The score of the code is a share of the wishes;
  all lots have the same number of wishes, so `Score` is the count.
- `Lookup` has `FindCoffee`, `FindMethod`, `Recipe`, `MethodsFor` and `pairing`
  as sets of possible results: the rows that `ORDER BY exact, LENGTH(name)
  LIMIT 2` may leave (`FirstRows`), with names of one length in any order, and
  the one, none or two that the handler makes of them (`LotOf`).

`recommend_coffee` restricts, scores, ranks and cuts (`Brewable`, `Ranked`,
`Offers`); the stable sort of the code is a sort by position in the menu last.
`InOrder` does the sorting: a member stands behind as many as come before it,
which unlike the library's sort is a definition that can be reasoned about.

## Runs

Every property of a passing run has a mutant, a plausible slip in the code that
makes TLC find the property violated under the same configuration. Mutated
forms stand before the definitions they replace, marked "a plausible slip".

| Run | Bounds | Shows |
| --- | --- | --- |
| `ShopStore_race` | 3 processes, 4 launches, 2 schema objects, 3 rows, symmetric | all-or-nothing seeding, complete catalogue under every server, losers leave a filled shop, lock discipline |
| `ShopStore_catalogue` | 2 processes, 3 launches, the real 8 objects and 26 rows | the seed's order satisfies its sub-selects; every `Open` ends; a launch on a filled database is not refused; the refinement of `Catalogue` |
| `ShopStore_undisturbed` | 2 processes, 2 launches | *violated*: the race of two first launches |
| `Stdio` | 3 frames of 8 kinds, 1 answer in the pipe | order, fit, completeness, drain at the end of input, at most one frame after a signal; requests are served, a signalled server stops at the next frame or end |
| `BrewLog_history` | 2 processes, 3 calls, 4 brews (one is refused), limit 1, 2 seconds, symmetric | recorded once, duplicates only after late failures, the history shown, what the table says of an answered or lost call is final, the refinement of `Ledger` |
| `BrewLog_lateerror` | 2 processes, 2 calls | *violated*: an error after the insert |
| `BrewOps` | 2 frames of 5 kinds (three calls, one of them refused by the tool, one that nobody waits for, garbage), 1 answer in the pipe, 1 tick | the loop with its tool implements `Stdio` under fairness; what is read on the wire is on record; no recording begins after a signal, whatever the tool was doing, and nobody is told of what was not on record |
| `DialIn` | 3 seeded recipes, one per kind, and one that gives no more than its ratio; times, ratios and temperatures on both sides of every band | nothing outside its window is on target, nothing off is lost, following the advice ends |
| `DialIn_truthful` | the same | *violated*: a lone minor ratio |
| `DialIn_yield` | the same | *violated*: an espresso's yield |
| `Desk` | the 6 seeded lots and 2 more, 12 names, 8 methods as they may be said, 13 requests, 30 times; 6 seeded ratios with every tenth from 12.6 g of water or 1.9 g of coffee up to 40 g and 20 g, then whole grams to a litre; about 200 batches around every threshold, recorded or not | a name finds one lot; ages are known and a day off at most; what is offered is the best there is; pours add up, a card brews on its own ratio by `Diagnose`'s measure and scales back; the phases account for the whole roast; the order of the batches only changes signs |
| `Desk_summary` | the two seeded Guji batches | *violated*: what the summary says moved most |

Why the bounds are enough. The race needs one process between another's count
and commit; a third adds one that arrives later, and a fourth launch a restart
of a loser or a crashed seeder. Three rows keep what the code distinguishes
(two tables, a row that looks up the others); the real rows run in
`ShopStore_catalogue`. In `Stdio` three frames give every frame a
predecessor and a successor, one slot in the pipe makes every second write block. A limit of 1
is reached with two rows, which the limit of 5 in the code would need six for;
three calls are two that compete and one that repeats. In `BrewOps` two frames are two
calls of which the second may repeat the first, a call beside a frame that runs
no tool, an answer that waits for the pipe behind another, and the two calls
that a signal concerns: the one at work and the one that a blocked read lets
in; the loop by itself has its third frame in `Stdio`. The two lots that `Desk` adds to
the seed are the ones that the seed lacks: a name that is part of another's and
was roasted today, and a lot without a date, notes or recipes. One recipe has no ratio. Its times are
both ends of a day in the zones furthest from UTC, before and after the windows
close; its requests have every family that a seeded bag belongs to, phrases,
fillers and a wish that nobody answers. The smallest amounts of
`Desk` are the smallest at which `CardBrewsOnRatio` holds: with less, the whole
grams of water or the tenths of coffee that a card shows are ten percent of the
brew. In `DialIn`, three recipes cover the three kinds of method, and the fourth
the early returns of `appendTiming` and `appendTemperature` for a recipe
without a window or a temperature. No brew or batch of an instance sits where float64 would decide a band
(`NoRatioOnTheEdge`).

Deadlock checking is off where the modelled system may stop, because launches,
frames, calls and advice are finite. `Desk` always has a next question and is
checked for deadlock.

### Fairness

`ShopStore.FairSpec` is weak fairness of each process's own steps and of its
noticing a cancelled context: the operating system schedules it. Signals,
failures, crashes, busy timeouts and launches are owed by nobody. `Stdio` has
weak fairness of the loop and of the client taking answers, never of a failing
stream (`Failure`); without the client a full pipe rightly blocks the server. Nothing obliges the client to send or to
close, so a signalled server on a silent client does not stop, and
`CancelledServerStops` says exactly that. `BrewOps` has the same two: of the
process, whatever its current step is (loop or tool), and of the client taking
answers; that the tool comes to an end is then shown, not assumed. In `DialIn` the barista goes on as long as there is
something to change.

## Findings

1. Two first launches at once: `seedIfEmpty` (`seed.go:17`) counts outside its
   transaction; the second process fails on the first one's rows and exits.
   The catalogue is intact and the next launch works (`LoserFindsSeeded`).
2. `record_extraction` returns an error after its insert has committed when the
   read-back fails (`handlers.go:397`); a retry records the brew twice.
3. A ratio off by 10 to 25 percent, alone, is neither recommended on nor
   watched, and the report says every variable is within its window
   (`diagnose.go:240`).
4. The yield subtracts absorbed water from an espresso's beverage
   (`diagnose.go:315`), so a 1:2 shot gets none.
5. `summarise` takes the first landmark of the highest grade (`roast.go:199`):
   for the seeded L-2401 and L-2408 it says that maillard moved most (58 s),
   though the total roast moved by 90 s.
More behaviours that the models have, and that no run is spent on:

- after the clock is set back the brew just recorded may be missing from the
  history shown after it (`HistoryShown` says when);
- west of Greenwich a lot may be called a day older in the evening than the
  calendar says, and east of it a day younger in the morning
  (`coffee.go:64`; `AgeTracksCalendar` allows the day);
- a frame with an id and a field of the wrong type is answered under the null
  id (`stdio.go:52`; the frame `Misshapen`);
- a pairing without a recipe is refused with "none for any other method
  either" also when the list of the others could not be read (`tools.go:212`;
  `Joint`);
- a request is also matched word by word, so "orange blossom" is answered by a
  lot with orange, and "not too acidic" by a bright one (`notes.go:78`); a lot
  whose note is "low acidity" answers a request for acidity; a member of a
  family that is itself a family is not expanded further (`notes.go:52`).

## Proofs

Constants are assumed to be what the code's types and tables make them, in
named assumptions that TLC evaluates on every run. Everything else that a
theorem needs is a hypothesis in its statement.

`ShopStoreProofs` proves, for every set of processes, every schema and every
seed that satisfies `SeedAssumption` (a sequence of rows with distinct keys, at
least one of them a coffee): `TypeCorrect`, `SeedAtomic`,
`ServersFindCatalogue`, `LosersFindCatalogue`, `LockDiscipline`, and
`ImplementsCatalogue` (the refinement of `Catalogue`). The launch bound is
arbitrary too. `SeedNeverDangles` has a hypothesis of its own, `SeedInOrder`: a
row looks up only rows that come before it. The real seed is such a list.

All rest on one inductive invariant, `IInv`. `AllOrNothing` is not inductive by
itself: a commit appends what its process has run, so one needs that a
committing process has run the whole seed (`CursorOK`) and that the catalogue
is still empty. The latter follows from who may hold the lock: a process holds
it exactly while it has an uncommitted part of the seed (`LockOwned`), and it
can only have got it on an empty catalogue, because on a filled one its first
row's key is taken (`KeyTakenMeansFilled`, from the uniqueness of the keys);
`SeedingAlone` records this. `CountTellsFilled` is where the coffee in the seed
is needed. `SchemaFirst` and `ServersSeeded` carry what a serving process
stands on. Every way out of a process is one lemma, `ExitIInv`.

`StdioProofs` proves the safety of the loop for every set of frames that
satisfies `FramesAssumption`, every number of them and every pipe that holds at
least one answer: `TypeCorrect`, `InOrder`, `Fitting`, `ToolsAnswer`,
`Complete`, `Drained` and `OneLateFrame`. The properties say nothing of the
answer that is still in the loop's hands, so `IInv` adds where the loop is with
its frame (`Turns`): what is on the wire is of frames whose turn is over, and
the response about to be written fits the current frame, hence each write
extends the order. Answers that fit go on to fit because frames do not change
and a tool is only run for the current one (`HistoryKept`, `FitsKept`).
`Endings` says that the end of the input is only seen behind the last frame,
which gives `Drained`; `Lateness` that the late frame came from a read that the
signal found waiting.

`BrewLogProofs` is about `BrewLog`, for every set of processes and brews, every
catalogue, limit and resolution of the clock: `TypeCorrect`,
`RecordedExactlyOnce`, `RetriesAreTheOnlyDuplicates`, `HistoryHasOwnBrew`,
`AnsweredIsSettled`, and `ImplementsLedger` (the refinement of `Ledger`). `RecordedOnce`
is not inductive: it says nothing of a call that is still in work. `Turns` says
that such a call belongs to one process and has no answer yet, `Booked` that it
has a row exactly when its process is past the insert, `Rows` that no call has
two; `Promised` and `RecordedOnce` follow, since only a process past the insert
says "recorded". `Retries` carries the guard of `Call` (of two calls for one
brew the earlier one failed), which with `Rows` leaves no other source of
duplicates. `AnsweredIsSettled` is an action property: a row comes only from a
process whose call is still without an answer (`Turns`), so the calls that have
one keep their rows (`RowsOfOthers`). `HistoryShown` is kept because rows stay (`RowsStay`) and the rows
of a call in work are its own process's doing. The sets of the brews need not be
finite; that the history has a size comes from the table being a sequence.

`RestProofs` is about `RestWindows`, for every date, hour, zone and roast:
`DaysOnlyGrow` and `AgesForward` (a lot never becomes younger or goes back to an
earlier state), `DarkerNeverBehind` (a darker roast is never behind a lighter
one of its age, which is what the comment on the windows says) and
`KnownSinceRoasted`, the bound behind `AgeTracksCalendar`. The work is in
`TruncatedDays`: `int()` cuts towards zero, so a lot roasted today is 0 days old
up to a whole day before midnight UTC, and no zone is further away than that.

`BrewOpsProofs` is about the composition, for any frames, brews, catalogue and
bounds. `LoopIsStdio` and `ToolIsBrewLog` say that a step of the whole is a step
of the loop or leaves it alone, and the same of the tool, so that everything
proved in `StdioProofs` and `BrewLogProofs` holds of a server; both modules are
instantiated and their invariants are part of this one. The rest of the invariant is what the two know of
each other. `Coupled`: the tool is at work exactly while the loop waits for it,
on the newest call, and has seen the signal if there was one. `Numbered`: tools run and calls made go one to one, in
the order of their frames, so that the call behind an answer can be counted
off. `Backed`: an answer on its way that does not say `isError` has its row.
The last two give `ImplementsWireLedger`, where a write puts the answer and its
promise on the wire at once.

`SignalEndsRecording` is a temporal theorem over each frame. After a signal two
predicates stay true once they are (`CutStays`, `UntoldStays`): that a frame is
not on record and its insert is not running (`Cut`), because `Coupled` has the
tool see the signal when it comes to execute; and that it was not told of and
no answer of it without `isError` is on its way (`Untold`), because the history
is not read back either. A frame that is not on record when the signal comes is
`Untold` by `Backed`.

`DialInProofs` is about `Diagnose` and `DialIn`, for every recipe, brew, rest
and change. `TypeCorrect`, `OutsideIsOff` and `NoneForgotten` are the run's
invariants. A diagnosis is typed by its brew alone, but that there is a brew to
diagnose after `FollowRatio` needs that the ratio's water is not rounded away
(`Weighable`), which no step undoes because the dose stays. `GrindMovesTheRightWay`,
`LargerMissIsNoLess` and `RatioFollowedIsOnTarget` say more: the grinder is only
moved against the miss, a larger miss is never graded lower, and following the
ratio to the tenth of a gram is on target for more than a few grams.

`ToolProofs` is about the operators behind `Desk`, for every argument:

- *Cards.* `NearestIsNear` is all that is used of rounding, so the theorems hold
  whichever way every half tenth goes: `PoursOfAddUp` and `CardScalesBack` for
  every recipe and amount. `AmpleCardOnRatio` is for amounts that the rounding
  of a card is small against (`IsAmpleWater`, `IsAmpleDose`): more than
  5 g of water and the water of 0.55 g of coffee, or a dose that asks for more
  than 5.5 g of water.
  That is enough and not necessary; TLC covers every tenth of a gram below it,
  down to where the property fails.
- *Batches.* `PhasesOfRoast`, `ComparedInOrder` and `ComparedBothWays` for every
  two batches, whatever was recorded. The grades forget signs (`GradeForgetsSign`), and
  `summarise` depends on grades and order alone (`SummaryOfGrades`).
- *Names.* `NameFindsOne` for every menu, name and order of rows of one length:
  a lot that is named in full is among the two rows if it is there at all,
  because it precedes all others and is part of itself (`ContainsItself`); and
  with two rows or more left neither is the only one that fits.
- *Ranking.* `InOrderIs`: `InOrder` lists a finite set under a strict order, each
  member once and none before one that precedes it. `CarriedIsAnswered`: a bag
  answers a wish in its own words, if `normalise` leaves these alone (`IsPlain`).

Where a lemma needs induction (`Counting`, `FlattenedIsSeq`), it is done on sets:
`SmallestNumber` says that a non-empty set of naturals has a least member, from
the well-foundedness of `<`, and the smallest counterexample is refuted.

`DeskProofs` lifts these to every answer. One lemma per handler says what it may
answer, `StepAnswers` puts them together, and the invariant `WorkedOut` says of
an answer what it was worked out from: a card from a recipe of the menu and one
positive amount, offers from a ranking, a comparison from two batches, an age
from a lot and a time, a lot from its name. No handler keeps anything from one
question to the next, so `WorkedOut` holds after every step by itself. From it
follow all nine invariants of the run. `AgesTrackCalendar`, `NamesFindOneLot`,
`CardsAddUp`, `CardsScaleBack`, `PhasesAddUp` and `EitherWayAlike` need nothing
more than the assumptions on the constants. The other three have a hypothesis:

- `CardsBrewOnRatio` needs `AmpleAmounts`, for the bound above;
- `TypeCorrect` needs `MeasurableAmounts`: an amount that asks for less than half
  a tenth of coffee or of water gives a card without any. The instance of the
  run satisfies it;
- `BestAreOffered` needs `PlainBags`: a note like "a bit of" would be taken for
  filler in a request and answer nothing. The seeded bags are plain.

Not proved but model-checked: liveness (`EveryOpenSettles`, `RelaunchServes`,
`RequestsServed`, `CancelledServerStops`, `AdviceConverges`), which is out of the
prover's reach, and with it the fairness in `LoopSpec`, whose safety is
`LoopIsStdio`; and that the text that `normalise` leaves, the families of `expand`
and the seeded rows are the ones in the code, which are data and not theorems.
The properties of the violated runs are false and have no theorem.

## Plan

In this order:

1. Hazards that no property covers yet: wildcards in names, and a bloom that is
   no less than the water of its card.
2. More about the scores of `Notes`: that a wish for a family is answered by
   every bag that carries a member of it, for every menu.
3. Of `Diagnose`: what a sequence of steps of the grinder brings about, as far as it
   can be said without fairness (a step never overshoots to the other side by
   more than a step of the grinder).

## Not modelled

Wording, layout and numbers of answers, and the JSON of results; the database
driver's connection pool; `Dockerfile` and module files. Tool registration is a
single step of `ShopStore`, since it runs once, in one goroutine, before the
first frame. In a name that is looked up, `%` and `_`, which LIKE reads as
wildcards, are left out, as is a filler of `normalise` inside of a longer word.
Two processes share the database in `BrewLog`, and `BrewOps` has one of them with
its loop: the other's rows would only lengthen the history.
