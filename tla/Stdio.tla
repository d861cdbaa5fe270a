------------------------------- MODULE Stdio -------------------------------
(***************************************************************************)
(* The stdio transport and the dispatcher behind it: ServeStdio,           *)
(* handleFrame, Handle and callTool.                                       *)
(*                                                                         *)
(* One loop reads a line, handles it, writes at most one answer and only   *)
(* then reads the next line.  The client writes frames and takes answers   *)
(* at its own pace, can leave its last line without a newline, and can     *)
(* close its end.  A signal cancels the context, which the loop looks at   *)
(* only between frames and the tools at their next call of the store.      *)
(*                                                                         *)
(* A frame is what the code tells apart: whether it is blank, whether      *)
(* json.Unmarshal accepts it, the id and method it carries, and, for a     *)
(* tools/call, what its params are good for.                               *)
(***************************************************************************)
EXTENDS Integers, Sequences

CONSTANTS
  Frames,       \* the frames that a client may send
  NoId,         \* the frame has no id
  NullId,       \* the id of an answer to a frame that would not parse
  MaxFrames,    \* bound: frames sent in a behaviour
  OutCap        \* answers that stdout holds before a write blocks

Shapes  == {"blank", "unreadable", "message"}
(* An "absent" method is a missing one or an empty one: decoded into a      *)
(* string, the two are the same to handleFrame.                             *)
Methods == {"absent", "initialize", "tools/list", "tools/call", "other"}
Params  == {"malformed", "unknown-tool", "known-tool"}

ASSUME FramesAssumption ==
  \A f \in Frames :
    /\ DOMAIN f = {"shape", "id", "method", "params"}
    /\ f.shape \in Shapes
    /\ f.id # NullId
    /\ f.method \in Methods
    /\ f.params \in Params

ASSUME BoundsAssumption == MaxFrames \in Nat /\ OutCap \in Nat \ {0}

VARIABLES
  sent,         \* every frame the client has sent
  closed,       \* the client has closed its end
  openEnded,    \* ... and the last frame has no newline
  taken,        \* answers the client has read
  cancelled,    \* the context is cancelled
  pc,           \* where the loop is
  read,         \* frames the loop has read: sent[read] is the current one
  readErr,      \* what ReadBytes returned beside the line
  doomed,       \* the running tool was started on a cancelled context
  response,     \* the answer about to be written
  wire,         \* every answer written to stdout
  ran,          \* history: the frames whose tool was run
  late,         \* history: frames read after the context was cancelled
  outcome          \* why ServeStdio returned

clientVars == <<sent, closed, openEnded, taken>>
historyVars == <<ran, late>>
loopVars == <<pc, read, readErr, doomed, response, wire, outcome>>
vars == <<clientVars, cancelled, loopVars, historyVars>>

AnswerKinds ==
  {"parse-error", "method-not-found", "invalid-params", "result",
   "tool-output", "tool-failure"}

(* An answer: the frame it is for (history), the id it carries, its kind.  *)
Answer(n, id, kind) == [frame |-> n, id |-> id, kind |-> kind]

Answers ==
  [frame : Nat \ {0}, id : { f.id : f \in Frames } \cup {NullId}, kind : AnswerKinds]

TypeOK ==
  /\ sent \in Seq(Frames)
  /\ closed \in BOOLEAN
  /\ openEnded \in BOOLEAN
  /\ taken \in 0 .. Len(wire)
  /\ cancelled \in BOOLEAN
  /\ pc \in {"check", "read", "handle", "tool", "write", "tail", "stopped"}
  /\ read \in 0 .. Len(sent)
  /\ readErr \in {"nil", "eof", "failed"}
  /\ doomed \in BOOLEAN
  /\ response \in Answers \cup {<<>>}
  /\ wire \in Seq(Answers)
  /\ ran \in SUBSET (1 .. read)
  /\ late \in Nat
  /\ outcome \in {"none", "cancelled", "eof", "read-failed", "write-failed"}

Init ==
  /\ sent = <<>> /\ closed = FALSE /\ openEnded = FALSE /\ taken = 0
  /\ cancelled = FALSE
  /\ pc = "check" /\ read = 0 /\ readErr = "nil"
  /\ doomed = FALSE /\ response = <<>> /\ wire = <<>> /\ outcome = "none"
  /\ ran = {} /\ late = 0

-----------------------------------------------------------------------------
(* Frames.                                                                 *)

current == sent[read]

(* A plausible slip: a frame with a method is taken for a request. *)
IsRequestByMethod(f) == f.shape = "message" /\ f.method # "absent"

IsRequest(f) == f.shape = "message" /\ f.method # "absent" /\ f.id # NoId

(* A plausible slip: the call is dispatched before it is classified. *)
RunsToolUnclassified(f) ==
  f.method = "tools/call" /\ f.params = "known-tool"

RunsTool(f) ==
  IsRequest(f) /\ f.method = "tools/call" /\ f.params = "known-tool"

(* Frames that are owed an answer: requests, and those nobody could parse. *)
Answerable(f) == f.shape = "unreadable" \/ IsRequest(f)

(* What handleFrame, Handle and callTool answer without running a tool. *)
DirectAnswer(n) ==
  LET f == sent[n] IN
  IF f.shape = "unreadable" THEN Answer(n, NullId, "parse-error")
  ELSE Answer(n, f.id,
         CASE f.method \in {"initialize", "tools/list"} -> "result"
           [] f.method = "tools/call" -> "invalid-params"
           [] OTHER -> "method-not-found")

-----------------------------------------------------------------------------
(* The client, from how ServeStdio uses its two streams.                   *)

Send(f) ==
  /\ ~closed
  /\ Len(sent) < MaxFrames
  /\ sent' = Append(sent, f)
  /\ UNCHANGED <<closed, openEnded, taken, cancelled, loopVars, historyVars>>

(* The client closes its end, after the newline of its last frame or       *)
(* before it.                                                              *)
Close ==
  /\ ~closed
  /\ closed' = TRUE
  /\ openEnded' \in BOOLEAN
  /\ openEnded' => read < Len(sent)
  /\ UNCHANGED <<sent, taken, cancelled, loopVars, historyVars>>

TakeAnswer ==
  /\ taken < Len(wire)
  /\ taken' = taken + 1
  /\ UNCHANGED <<sent, closed, openEnded, cancelled, loopVars, historyVars>>

(* SIGINT or SIGTERM. *)
Signal ==
  /\ ~cancelled
  /\ pc # "stopped"
  /\ cancelled' = TRUE
  /\ UNCHANGED <<clientVars, loopVars, historyVars>>

-----------------------------------------------------------------------------
(* The loop of ServeStdio.                                                 *)

Stop(why) ==
  /\ pc' = "stopped"
  /\ outcome' = why

(* A plausible slip: the context is never looked at between frames. *)
CheckContextNever ==
  /\ pc = "check"
  /\ pc' = "read" /\ outcome' = outcome
  /\ UNCHANGED <<clientVars, cancelled, read, readErr, doomed, response, wire,
                 historyVars>>

CheckContext ==
  /\ pc = "check"
  /\ IF cancelled THEN Stop("cancelled") ELSE pc' = "read" /\ outcome' = outcome
  /\ UNCHANGED <<clientVars, cancelled, read, readErr, doomed, response, wire,
                 historyVars>>

(* A plausible slip: a line that came with an error is thrown away. *)
ReadLineDropsTail ==
  /\ pc = "read"
  /\ read < Len(sent)
  /\ read' = read + 1
  /\ readErr' = IF openEnded /\ read' = Len(sent) THEN "eof" ELSE "nil"
  /\ pc' = IF sent[read'].shape = "blank" \/ readErr' = "eof"
           THEN "tail" ELSE "handle"
  /\ late' = IF cancelled THEN late + 1 ELSE late
  /\ UNCHANGED <<clientVars, cancelled, doomed, response, wire, outcome, ran>>

(* The loop has a line in hands.  A blank one is skipped. *)
NextLine ==
  /\ read < Len(sent)
  /\ read' = read + 1
  /\ pc' = IF sent[read'].shape = "blank" THEN "tail" ELSE "handle"
  /\ late' = IF cancelled THEN late + 1 ELSE late

(* ReadBytes returns a line, with io.EOF beside it when the line is the    *)
(* last one and has no newline.                                            *)
ReadLine ==
  /\ pc = "read"
  /\ NextLine
  /\ readErr' = IF openEnded /\ read' = Len(sent) THEN "eof" ELSE "nil"
  /\ UNCHANGED <<clientVars, cancelled, doomed, response, wire, outcome, ran>>

(* A plausible slip: the end of the input counts as a line. *)
ReadEndCounts ==
  /\ pc = "read"
  /\ closed /\ read = Len(sent)
  /\ readErr' = "eof"
  /\ pc' = "tail"
  /\ read' = read + 1
  /\ UNCHANGED <<clientVars, cancelled, doomed, response, wire, outcome, historyVars>>

(* ReadBytes returns nothing but io.EOF. *)
ReadEnd ==
  /\ pc = "read"
  /\ closed /\ read = Len(sent)
  /\ readErr' = "eof"
  /\ pc' = "tail"
  /\ UNCHANGED <<clientVars, cancelled, read, doomed, response, wire, outcome,
                 historyVars>>

(* ReadBytes returns an error of the stream, alone or beside what came of  *)
(* a line before it, which is handled all the same.  A frame that was cut  *)
(* off is an unreadable one of Frames, or whole but for its newline.       *)
ReadFails ==
  /\ pc = "read"
  /\ readErr' = "failed"
  /\ \/ NextLine
     \/ pc' = "tail" /\ UNCHANGED <<read, late>>
  /\ UNCHANGED <<clientVars, cancelled, doomed, response, wire, outcome, ran>>

(* Handle returns nil for what is not a request. *)
IgnoreFrame ==
  /\ pc = "handle"
  /\ ~Answerable(current)
  /\ pc' = "tail"
  /\ UNCHANGED <<clientVars, cancelled, read, readErr, doomed, response, wire, outcome,
                 historyVars>>

(* A plausible slip: the error for a frame that would not parse is dropped *)
(* together with the frame.                                                *)
AnswerFrameUnlessUnreadable ==
  /\ pc = "handle"
  /\ Answerable(current) /\ ~RunsTool(current)
  /\ response' = DirectAnswer(read)
  /\ pc' = IF current.shape = "unreadable" THEN "tail" ELSE "write"
  /\ UNCHANGED <<clientVars, cancelled, read, readErr, doomed, wire, outcome, historyVars>>

AnswerFrame ==
  /\ pc = "handle"
  /\ Answerable(current) /\ ~RunsTool(current)
  /\ response' = DirectAnswer(read)
  /\ pc' = "write"
  /\ UNCHANGED <<clientVars, cancelled, read, readErr, doomed, wire, outcome, historyVars>>

(* callTool hands the context to the tool's handler. *)
StartTool ==
  /\ pc = "handle"
  /\ RunsTool(current)
  /\ doomed' = cancelled
  /\ ran' = ran \cup {read}
  /\ pc' = "tool"
  /\ UNCHANGED <<clientVars, cancelled, read, readErr, response, wire, outcome, late>>

(* The handler returns text or an error.  Every tool asks the store before *)
(* it can succeed, and the store refuses a cancelled context.              *)
FinishTool ==
  /\ pc = "tool"
  /\ \E kind \in {"tool-output", "tool-failure"} :
       /\ doomed => kind = "tool-failure"
       /\ response' = Answer(read, current.id, kind)
  /\ doomed' = FALSE
  /\ pc' = "write"
  /\ UNCHANGED <<clientVars, cancelled, read, readErr, wire, outcome, historyVars>>

(* A plausible slip: an answer that did not fit at once is written again   *)
(* from its start.                                                         *)
WriteAnswerRetried ==
  /\ pc = "write"
  /\ Len(wire) - taken < OutCap
  /\ wire' = Append(wire, response)
  /\ \/ response' = <<>> /\ pc' = "tail"
     \/ UNCHANGED <<response, pc>>
  /\ UNCHANGED <<clientVars, cancelled, read, readErr, doomed, outcome, historyVars>>

(* A plausible slip: a write that would block drops the answer. *)
WriteAnswerOrDrop ==
  /\ pc = "write"
  /\ wire' = IF Len(wire) - taken < OutCap THEN Append(wire, response) ELSE wire
  /\ response' = <<>>
  /\ pc' = "tail"
  /\ UNCHANGED <<clientVars, cancelled, read, readErr, doomed, outcome, historyVars>>

(* out.Write blocks while the client's end of the pipe is full. *)
WriteAnswer ==
  /\ pc = "write"
  /\ Len(wire) - taken < OutCap
  /\ wire' = Append(wire, response)
  /\ response' = <<>>
  /\ pc' = "tail"
  /\ UNCHANGED <<clientVars, cancelled, read, readErr, doomed, outcome, historyVars>>

(* The client's end is gone: the answer is lost and ServeStdio returns. *)
WriteFails ==
  /\ pc = "write"
  /\ response' = <<>>
  /\ Stop("write-failed")
  /\ UNCHANGED <<clientVars, cancelled, read, readErr, doomed, wire, historyVars>>

(* What ReadBytes returned beside the line is looked at only now. *)
EndOfTurn ==
  /\ pc = "tail"
  /\ CASE readErr = "nil"    -> pc' = "check" /\ outcome' = outcome
       [] readErr = "eof"    -> Stop("eof")
       [] readErr = "failed" -> Stop("read-failed")
  /\ UNCHANGED <<clientVars, cancelled, read, readErr, doomed, response, wire,
                 historyVars>>

-----------------------------------------------------------------------------

Client == (\E f \in Frames : Send(f)) \/ Close \/ TakeAnswer \/ Signal

Loop ==
  \/ CheckContext \/ ReadLine \/ ReadEnd
  \/ IgnoreFrame \/ AnswerFrame \/ StartTool \/ FinishTool
  \/ WriteAnswer \/ EndOfTurn

Failure == ReadFails \/ WriteFails

Next == Client \/ Loop \/ Failure

Spec == Init /\ [][Next]_vars

(* The loop runs whenever it can, every tool returns, and the client keeps *)
(* taking answers.  The client owes no frame, no close and no signal, and  *)
(* the streams owe no failure: a read that waits may wait for ever.        *)
FairSpec == Spec /\ WF_vars(Loop) /\ WF_vars(TakeAnswer)

-----------------------------------------------------------------------------
(* Properties.                                                             *)

(* Frames whose turn is over. *)
Finished(n) == n < read \/ (n = read /\ pc \in {"check", "read", "tail", "stopped"})

(* Answers leave in the order in which their frames arrived, and no frame  *)
(* is answered twice: the loop is strictly one frame at a time.            *)
AnswersInOrder ==
  \A i, j \in DOMAIN wire : i < j => wire[i].frame < wire[j].frame

(* Every answer fits its frame: only requests and unreadable frames are    *)
(* answered, never a notification or a response; under the frame's own id, *)
(* or null when it could not be parsed; and with a tool's result exactly   *)
(* when the tool was run for it (handleFrame, Handle, callTool).           *)
AnswersFit ==
  \A i \in DOMAIN wire :
    LET a == wire[i]
        f == sent[a.frame]
    IN  /\ f.shape = "unreadable" \/ (f.method # "absent" /\ f.id # NoId)
        /\ a.id = IF f.shape = "unreadable" THEN NullId ELSE f.id
        /\ a.kind \in {"tool-output", "tool-failure"} <=> a.frame \in ran

(* No tool is run behind anybody's back: the frame of every tool that was  *)
(* run is a request whose answer is on the wire or on its way, unless the  *)
(* client's end was gone.                                                  *)
ToolsAnswerForThemselves ==
  \A n \in ran :
    /\ sent[n].method = "tools/call" /\ sent[n].id # NoId
    /\ \/ \E i \in DOMAIN wire : wire[i].frame = n
       \/ n = read /\ pc \in {"tool", "write"}
       \/ outcome = "write-failed"

(* Nothing is skipped: when a frame's turn is over and its answer could be *)
(* written, the answer is on the wire.                                     *)
NothingSkipped ==
  outcome # "write-failed" =>
    \A n \in 1 .. Len(sent) :
      Finished(n) /\ Answerable(sent[n]) => \E i \in DOMAIN wire : wire[i].frame = n

(* A client that closes its end still gets every answer: an ordinary       *)
(* shutdown comes after the last frame, newline or not, was handled.       *)
DrainedOnEOF ==
  outcome = "eof" =>
    /\ read = Len(sent)
    /\ \A n \in 1 .. Len(sent) :
         Answerable(sent[n]) => \E i \in DOMAIN wire : wire[i].frame = n

(* After a signal the loop handles at most the one frame that its blocked  *)
(* read was waiting for.                                                   *)
AtMostOneLateFrame == late <= 1

(* Every frame that is owed an answer gets it into the client's hands,     *)
(* unless the server was told to stop or lost a stream first.              *)
RequestsServed ==
  \A n \in 1 .. MaxFrames :
    n <= Len(sent) /\ Answerable(sent[n]) ~>
      \/ \E i \in 1 .. taken : wire[i].frame = n
      \/ outcome \in {"cancelled", "read-failed", "write-failed"}

(* A cancelled server stops as soon as its client sends one more frame or  *)
(* closes its end; on a silent client it stays in its read.                *)
CancelledServerStops ==
  cancelled /\ (closed \/ read < Len(sent)) ~> pc = "stopped"
=============================================================================
