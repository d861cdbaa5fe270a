------------------------------ MODULE BrewOps -------------------------------
(***************************************************************************)
(* A server process as a whole, as far as it changes anything: the loop of *)
(* Stdio with the record_extraction of BrewLog as the tool behind it.      *)
(*                                                                         *)
(* The two meet in three places.  callTool hands the tool its arguments    *)
(* and its context, the tool's text or error becomes the answer, and a     *)
(* signal is seen by both: by the loop between frames, by the tool at its  *)
(* next call of the store.  Everything else is a step of the one with the  *)
(* other left as it is.                                                    *)
(***************************************************************************)
EXTENDS Integers, Sequences, FiniteSets

CONSTANTS
  Frames, NoId, NullId, MaxFrames, OutCap,                      \* as in Stdio
  Coffees, BrewMethods, HistoryLimit, TicksPerSecond, MaxTicks,   \* as in BrewLog
  Asked      \* from the ids of calls of the tool to the brews they carry

VARIABLES
  (* the loop and its client *)
  sent, closed, openEnded, taken, cancelled, pc, read, readErr, doomed, response,
  wire, ran, late, outcome,
  (* the tool: its step, call and context are pc, current and cancelled of BrewLog *)
  clock, calls, step, call, stamp, shown, context, log

serverVars == <<sent, closed, openEnded, taken, cancelled, pc, read, readErr, doomed,
                response, wire, ran, late, outcome>>
logVars == <<clock, calls, step, call, stamp, shown, context, log>>
vars == <<serverVars, logVars>>

Server == INSTANCE Stdio

Process == "server"

Log == INSTANCE BrewLog
         WITH Procs <- {Process}, Brews <- { Asked[id] : id \in DOMAIN Asked },
              MaxCalls <- MaxFrames, Methods <- BrewMethods,
              pc <- step, current <- call, cancelled <- context

(* The parts' own assumptions, and that a call of the tool carries a brew. *)
ASSUME PartsAssumption ==
  /\ Server!FramesAssumption /\ Server!BoundsAssumption
  /\ Log!BrewsAssumption /\ Log!BoundsAssumption

ASSUME AskedAssumption ==
  \A f \in Frames : Server!RunsTool(f) => f.id \in DOMAIN Asked

Init == Server!Init /\ Log!Init

-----------------------------------------------------------------------------
(* The client: it sends a brew again only if it was told that it failed.   *)

ToldItFailed(n) ==
  \E i \in 1 .. taken : wire[i].frame = n /\ wire[i].kind = "tool-failure"

Send(f) ==
  /\ Server!RunsTool(f) => \A n \in DOMAIN sent : sent[n] = f => ToldItFailed(n)
  /\ Server!Send(f)
  /\ UNCHANGED logVars

Close == Server!Close /\ UNCHANGED logVars

TakeAnswer == Server!TakeAnswer /\ UNCHANGED logVars

(* A plausible slip: tools run on a context of their own. *)
ToolContextDetached(signalled) == FALSE

(* What the tool sees of the context of the server. *)
ToolContext(signalled) == signalled

Signal ==
  /\ Server!Signal
  /\ IF step[Process] # "idle" /\ ToolContext(TRUE) THEN Log!Signal(Process)
     ELSE UNCHANGED logVars

(* Time passes; BrewLog is where it is also set back. *)
Tick == Log!Tick /\ UNCHANGED serverVars

-----------------------------------------------------------------------------
(* The process.                                                            *)

LoopStep ==
  /\ \/ Server!CheckContext \/ Server!ReadLine \/ Server!ReadEnd
     \/ Server!IgnoreFrame \/ Server!AnswerFrame
     \/ Server!WriteAnswer \/ Server!EndOfTurn
  /\ UNCHANGED logVars

StreamFails ==
  /\ Server!Failure
  /\ UNCHANGED logVars

StartTool ==
  /\ Server!StartTool
  /\ Log!Call(Process, Asked[sent[read].id])
  /\ context' = [p \in {Process} |-> ToolContext(cancelled)]

ToolStep ==
  /\ \/ Log!LookUp(Process) \/ Log!Stamp(Process) \/ Log!Execute(Process)
     \/ Log!Insert(Process) \/ Log!ReadBack(Process)
  /\ UNCHANGED serverVars

(* A plausible slip: an error of the store is answered like a success. *)
FinishToolUnflagged ==
  /\ Log!Refuse(Process) \/ Log!Answer(Process) \/ Log!StoreFails(Process)
  /\ response' = Server!Answer(read, sent[read].id, "tool-output")
  /\ doomed' = FALSE
  /\ pc' = "write"
  /\ UNCHANGED <<sent, closed, openEnded, taken, cancelled, read, readErr, wire, ran, late,
                 outcome>>

(* The handler returns a text or an error, and callTool makes it a result  *)
(* that says which.                                                        *)
FinishTool ==
  /\ Log!Refuse(Process) \/ Log!Answer(Process) \/ Log!StoreFails(Process)
  /\ response' = Server!Answer(read, sent[read].id,
                   IF calls'[call[Process]].answer = "recorded" THEN "tool-output"
                   ELSE "tool-failure")
  /\ doomed' = FALSE
  /\ pc' = "write"
  /\ UNCHANGED <<sent, closed, openEnded, taken, cancelled, read, readErr, wire, ran, late,
                 outcome>>

Progress == LoopStep \/ StartTool \/ ToolStep \/ FinishTool

Next ==
  \/ \E f \in Frames : Send(f)
  \/ Close \/ TakeAnswer \/ Signal \/ Tick \/ StreamFails
  \/ Progress

Spec == Init /\ [][Next]_vars

(* As in Stdio: the process runs, and the client keeps taking answers. *)
FairSpec == Spec /\ WF_vars(Progress) /\ WF_vars(TakeAnswer)

-----------------------------------------------------------------------------
(* Properties.                                                             *)

(* With record_extraction behind it the loop is still the loop of Stdio:   *)
(* a tool that was started on a cancelled context fails, every tool comes  *)
(* to an end whatever the store does, and whatever it returned is answered *)
(* (Stdio assumes this of any tool).                                       *)
LoopSpec == Server!FairSpec

(* The frame that made call c: the c-th whose tool was run. *)
FrameOf(c) == CHOOSE n \in ran : Cardinality({ m \in ran : m <= n }) = c

(* The frames whose brew is on record, and those that were answered with a *)
(* text that does not say isError.                                         *)
OnRecord == { FrameOf(log[i].call) : i \in DOMAIN log }
Told     == { wire[i].frame : i \in { j \in DOMAIN wire : wire[j].kind = "tool-output" } }

(* What the client can read is the book of Ledger: an answer on the wire   *)
(* that does not say isError is of a brew that is on record, once, under   *)
(* the frame that it answers.                                              *)
Wire == INSTANCE Ledger WITH CallIds <- 1 .. MaxFrames, booked <- OnRecord, promised <- Told

WireLedger == Wire!Spec

(* The INSERT of frame n is running. *)
Inserting(n) == n = read /\ step[Process] = "insert"

(* What a signal cuts off, of the call that the server is working on and   *)
(* of the one that its blocked read still lets in: what was not on record  *)
(* when the signal came is not recorded any more, unless its INSERT was    *)
(* running and commits; and in no case is anybody told that it was         *)
(* recorded, for the history is not read back on a cancelled context.      *)
RecordingEndsWithSignal ==
  \A n \in 1 .. MaxFrames :
    /\ [](cancelled /\ n \notin OnRecord /\ ~Inserting(n) => [](n \notin OnRecord))
    /\ [](cancelled /\ n \notin OnRecord => [](n \notin Told))
=============================================================================
