---------------------------- MODULE StdioProofs ----------------------------
(***************************************************************************)
(* Proofs about Stdio, for any frames, any number of them and any pipe.    *)
(*                                                                         *)
(* The argument.  Every answer on the wire is for a frame whose turn is    *)
(* over, and the answer about to be written is for the current one, so     *)
(* each write extends the order (Turns).  What fits a frame once fits for  *)
(* ever: frames do not change, and a tool is only run for the current one. *)
(* The end of the input is only ever seen behind its last frame (Endings). *)
(***************************************************************************)
EXTENDS Stdio, TLAPS

ToolKinds == {"tool-output", "tool-failure"}

(* One conjunct of AnswersFit. *)
Fits(a) ==
  LET f == sent[a.frame] IN
  /\ f.shape = "unreadable" \/ (f.method # "absent" /\ f.id # NoId)
  /\ a.id = IF f.shape = "unreadable" THEN NullId ELSE f.id
  /\ a.kind \in ToolKinds <=> a.frame \in ran

Busy == pc \in {"handle", "tool", "write"}

(* A read that gives the loop a line, whatever came beside it. *)
TakesLine == ReadLine \/ (ReadFails /\ NextLine)

(* How far the loop has come with its current frame. *)
Turns ==
  /\ Busy => read > 0
  /\ \A i \in DOMAIN wire :
       wire[i].frame <= read /\ (Busy => wire[i].frame < read)
  /\ pc = "handle" => read \notin ran
  /\ pc = "tool" => read \in ran /\ RunsTool(sent[read])
  /\ pc = "write" => /\ response \in Answers
                     /\ response.frame = read
                     /\ Fits(response)

(* What is known of the ends of the streams. *)
Endings ==
  /\ openEnded => closed
  /\ readErr = "eof" => closed /\ read = Len(sent)
  /\ outcome = "eof" => readErr = "eof"
  /\ pc # "stopped" <=> outcome = "none"
  /\ pc \in {"check", "read"} => readErr = "nil"

(* The one late frame was read by a read that the signal found waiting. *)
Lateness ==
  /\ AtMostOneLateFrame
  /\ late > 0 => cancelled /\ pc # "read"

IInv ==
  /\ TypeOK
  /\ Turns
  /\ Endings
  /\ Lateness
  /\ AnswersInOrder
  /\ AnswersFit
  /\ ToolsAnswerForThemselves
  /\ NothingSkipped

-----------------------------------------------------------------------------
(* Frames and answers.                                                     *)

(* An answer built from a frame is one of Answers. *)
LEMMA AnswerTyped ==
  ASSUME NEW n \in Nat \ {0}, NEW f \in Frames, NEW kind \in AnswerKinds
  PROVE  /\ Answer(n, f.id, kind) \in Answers
         /\ Answer(n, NullId, kind) \in Answers
BY DEF Answer, Answers

(* The answer without a tool is of the frame's id, and not of a tool. *)
LEMMA DirectAnswerFits ==
  ASSUME TypeOK, NEW n \in 1 .. Len(sent),
         Answerable(sent[n]), ~RunsTool(sent[n]), n \notin ran
  PROVE  /\ DirectAnswer(n) \in Answers
         /\ DirectAnswer(n).frame = n
         /\ Fits(DirectAnswer(n))
<1> DEFINE f == sent[n]
<1>1. f \in Frames
  BY DEF TypeOK
<1>2. CASE f.shape = "unreadable"
  <2>1. DirectAnswer(n) = Answer(n, NullId, "parse-error")
    BY <1>2 DEF DirectAnswer
  <2>2. "parse-error" \in AnswerKinds \ ToolKinds
    BY DEF AnswerKinds, ToolKinds
  <2>3. Answer(n, NullId, "parse-error") \in Answers
    BY <1>1, <2>2, AnswerTyped
  <2>4. Fits(Answer(n, NullId, "parse-error"))
    BY <1>2, <2>2 DEF Answer, Fits
  <2> QED  BY <2>1, <2>3, <2>4 DEF Answer
<1>3. CASE f.shape # "unreadable"
  <2>1. PICK kind \in AnswerKinds \ ToolKinds : DirectAnswer(n) = Answer(n, f.id, kind)
    <3> DEFINE kind == CASE f.method \in {"initialize", "tools/list"} -> "result"
                         [] f.method = "tools/call" -> "invalid-params"
                         [] OTHER -> "method-not-found"
    <3>1. kind \in AnswerKinds \ ToolKinds
      BY DEF AnswerKinds, ToolKinds
    <3>2. DirectAnswer(n) = Answer(n, f.id, kind)
      BY <1>3 DEF DirectAnswer
    <3> QED  BY <3>1, <3>2
  <2>2. f.method # "absent" /\ f.id # NoId
    BY <1>3 DEF Answerable, IsRequest
  <2>3. Answer(n, f.id, kind) \in Answers
    BY <1>1, AnswerTyped
  <2>4. Fits(Answer(n, f.id, kind))
    BY <1>3, <2>2 DEF Answer, Fits
  <2> QED  BY <2>1, <2>3, <2>4 DEF Answer
<1> QED  BY <1>2, <1>3

(* Every answer on the wire is for a frame that was sent. *)
LEMMA WireOfSent ==
  ASSUME TypeOK, Turns, NEW i \in DOMAIN wire
  PROVE  wire[i] \in Answers /\ wire[i].frame \in 1 .. read /\ read <= Len(sent)
<1>1. wire[i] \in Answers /\ read \in 0 .. Len(sent)
  BY DEF TypeOK
<1>2. wire[i].frame \in Nat \ {0}
  BY <1>1 DEF Answers
<1>3. wire[i].frame <= read
  BY DEF Turns
<1> QED  BY <1>1, <1>2, <1>3

-----------------------------------------------------------------------------
(* Typing.                                                                 *)

(* Every step keeps every variable in its set. *)
LEMMA TypeStep ==
  ASSUME IInv, [Next]_vars
  PROVE  TypeOK'
<1> USE DEF IInv, clientVars, loopVars, historyVars
<1>1. CASE \E f \in Frames : Send(f)
  BY <1>1 DEF Send, TypeOK
<1>2. CASE Close
  BY <1>2 DEF Close, TypeOK
<1>3. CASE TakeAnswer
  <2>1. taken \in 0 .. Len(wire) /\ wire \in Seq(Answers)
    BY DEF TypeOK
  <2>2. taken' \in 0 .. Len(wire)
    BY <1>3, <2>1 DEF TakeAnswer
  <2> QED  BY <1>3, <2>2 DEF TakeAnswer, TypeOK
<1>4. CASE Signal
  BY <1>4 DEF Signal, TypeOK
<1>5. CASE CheckContext
  BY <1>5 DEF CheckContext, Stop, TypeOK
<1>6. CASE ReadLine
  BY <1>6 DEF ReadLine, NextLine, TypeOK
<1>7. CASE ReadEnd
  BY <1>7 DEF ReadEnd, TypeOK
<1>8. CASE ReadFails
  <2>1. CASE NextLine
    BY <1>8, <2>1 DEF ReadFails, NextLine, TypeOK
  <2>2. CASE ~NextLine
    BY <1>8, <2>2 DEF ReadFails, TypeOK
  <2> QED  BY <2>1, <2>2
<1>9. CASE IgnoreFrame
  BY <1>9 DEF IgnoreFrame, TypeOK
<1>10. CASE AnswerFrame
  <2>1. read \in 1 .. Len(sent) /\ read \notin ran
    BY <1>10 DEF AnswerFrame, TypeOK, Turns, Busy
  <2>2. response' \in Answers
    BY <1>10, <2>1, DirectAnswerFits DEF AnswerFrame, current
  <2> QED  BY <1>10, <2>2 DEF AnswerFrame, TypeOK
<1>11. CASE StartTool
  BY <1>11 DEF StartTool, TypeOK, Turns, Busy
<1>12. CASE FinishTool
  <2>1. read \in Nat \ {0} /\ current \in Frames
    BY <1>12 DEF FinishTool, TypeOK, Turns, Busy, current
  <2>2. response' \in Answers
    BY <1>12, <2>1, AnswerTyped DEF FinishTool, AnswerKinds
  <2> QED  BY <1>12, <2>2 DEF FinishTool, TypeOK
<1>13. CASE WriteAnswer
  <2>1. response \in Answers
    BY <1>13 DEF WriteAnswer, Turns
  <2> QED  BY <1>13, <2>1 DEF WriteAnswer, TypeOK
<1>14. CASE WriteFails
  BY <1>14 DEF WriteFails, Stop, TypeOK
<1>15. CASE EndOfTurn
  BY <1>15 DEF EndOfTurn, Stop, TypeOK
<1>16. CASE UNCHANGED vars
  BY <1>16 DEF vars, TypeOK
<1> QED
  BY <1>1, <1>2, <1>3, <1>4, <1>5, <1>6, <1>7, <1>8, <1>9, <1>10, <1>11, <1>12,
     <1>13, <1>14, <1>15, <1>16 DEF Next, Client, Loop, Failure

-----------------------------------------------------------------------------
(* What every step keeps.                                                  *)

(* Frames already sent, and tools already run, stay as they are. *)
LEMMA HistoryKept ==
  ASSUME TypeOK, [Next]_vars
  PROVE  /\ Len(sent) <= Len(sent')
         /\ \A n \in 1 .. Len(sent) : sent'[n] = sent[n]
         /\ \/ ran' = ran
            \/ StartTool
<1> USE DEF clientVars, loopVars, historyVars
<1>1. CASE \E f \in Frames : Send(f)
  BY <1>1 DEF Send, TypeOK
<1>2. CASE Close \/ TakeAnswer \/ Signal
  <2>1. sent' = sent /\ ran' = ran
    BY <1>2 DEF Close, TakeAnswer, Signal
  <2> QED  BY <2>1 DEF TypeOK
<1>3. CASE CheckContext \/ ReadLine \/ ReadEnd \/ ReadFails \/ IgnoreFrame \/ AnswerFrame
  BY <1>3 DEF CheckContext, ReadLine, ReadEnd, ReadFails, NextLine,
     IgnoreFrame, AnswerFrame, TypeOK
<1>4. CASE StartTool
  BY <1>4 DEF StartTool, TypeOK
<1>5. CASE FinishTool \/ WriteAnswer \/ WriteFails \/ EndOfTurn
  <2>1. sent' = sent /\ ran' = ran
    BY <1>5 DEF FinishTool, WriteAnswer, WriteFails, EndOfTurn
  <2> QED  BY <2>1 DEF TypeOK
<1>6. CASE UNCHANGED vars
  BY <1>6 DEF vars, TypeOK
<1> QED
  BY <1>1, <1>2, <1>3, <1>4, <1>5, <1>6 DEF Next, Client, Loop, Failure

(* An answer that fits goes on to fit, unless it is for the frame whose    *)
(* tool is just being started.                                             *)
LEMMA FitsKept ==
  ASSUME TypeOK, [Next]_vars,
         NEW a \in Answers, a.frame \in 1 .. Len(sent),
         a.frame # read \/ pc # "handle",
         Fits(a)
  PROVE  Fits(a)'
<1>1. sent'[a.frame] = sent[a.frame]
  BY HistoryKept
<1>2. a.frame \in ran' <=> a.frame \in ran
  BY HistoryKept DEF StartTool
<1> QED  BY <1>1, <1>2 DEF Fits

(* EndOfTurn follows what the read returned. *)
LEMMA EndOfTurnGoes ==
  ASSUME TypeOK, EndOfTurn
  PROVE  /\ \/ readErr = "nil" /\ pc' = "check" /\ outcome' = outcome
            \/ readErr = "eof" /\ pc' = "stopped" /\ outcome' = "eof"
            \/ readErr = "failed" /\ pc' = "stopped" /\ outcome' = "read-failed"
         /\ pc = "tail"
         /\ UNCHANGED <<sent, closed, openEnded, cancelled, read, readErr, response,
                        wire, ran, late>>
BY DEF EndOfTurn, Stop, TypeOK, clientVars, historyVars

(* Only WriteAnswer touches the wire, and it appends the answer to it. *)
LEMMA WireStep ==
  ASSUME TypeOK, [Next]_vars
  PROVE  WriteAnswer \/ wire' = wire
BY EndOfTurnGoes DEF Next, vars, Client, Loop, Failure, Send, Close, TakeAnswer,
   Signal, CheckContext, ReadLine, NextLine, ReadEnd, ReadFails, IgnoreFrame, AnswerFrame,
   StartTool, FinishTool, WriteFails, clientVars, loopVars, historyVars

(* What is on the wire stays there. *)
LEMMA WireGrows ==
  ASSUME TypeOK, [Next]_vars, NEW i \in DOMAIN wire
  PROVE  i \in DOMAIN wire' /\ wire'[i] = wire[i]
<1>1. wire \in Seq(Answers)
  BY DEF TypeOK
<1>2. CASE WriteAnswer
  BY <1>1, <1>2 DEF WriteAnswer
<1> QED  BY <1>1, <1>2, WireStep

(* After WriteAnswer the current frame has its answer on the wire. *)
LEMMA WrittenNow ==
  ASSUME TypeOK, Turns, WriteAnswer
  PROVE  \E i \in DOMAIN wire' : wire'[i].frame = read
<1>1. /\ wire \in Seq(Answers) /\ response \in Answers /\ response.frame = read
      /\ wire' = Append(wire, response)
  BY DEF TypeOK, Turns, WriteAnswer
<1>2. Len(wire) + 1 \in DOMAIN wire' /\ wire'[Len(wire) + 1] = response
  BY <1>1
<1> QED  BY <1>1, <1>2

(* A stopped loop goes nowhere. *)
LEMMA OutcomeStays ==
  ASSUME TypeOK, Endings, [Next]_vars, outcome # "none"
  PROVE  outcome' = outcome
BY EndOfTurnGoes DEF Endings, Next, vars, Client, Loop, Failure, Send, Close, TakeAnswer,
   Signal, CheckContext, ReadLine, NextLine, ReadEnd, ReadFails, IgnoreFrame, AnswerFrame,
   StartTool, FinishTool, WriteAnswer, WriteFails, clientVars, loopVars, historyVars

(* The answer about to be written is a fitting one for the current frame.  *)
LEMMA ResponseStep ==
  ASSUME IInv, [Next]_vars, pc' = "write"
  PROVE  response' \in Answers /\ response'.frame = read' /\ Fits(response)'
<1> USE DEF IInv, clientVars, loopVars, historyVars
<1>1. CASE AnswerFrame
  <2>1. read \in 1 .. Len(sent) /\ read \notin ran
    BY <1>1 DEF AnswerFrame, TypeOK, Turns, Busy
  <2>2. /\ response' \in Answers
        /\ response'.frame = read
        /\ Fits(response')
    BY <1>1, <2>1, DirectAnswerFits DEF AnswerFrame, current
  <2>3. sent' = sent /\ ran' = ran /\ read' = read
    BY <1>1 DEF AnswerFrame
  <2> QED  BY <2>2, <2>3 DEF Fits
<1>2. CASE FinishTool
  <2>1. /\ read \in 1 .. Len(sent) /\ current \in Frames
        /\ read \in ran /\ RunsTool(current)
    BY <1>2 DEF FinishTool, TypeOK, Turns, Busy, current
  <2>2. PICK kind \in ToolKinds : response' = Answer(read, current.id, kind)
    BY <1>2 DEF FinishTool, ToolKinds
  <2>3. sent' = sent /\ ran' = ran /\ read' = read
    BY <1>2 DEF FinishTool
  <2>4. response' \in Answers
    BY <2>1, <2>2, AnswerTyped DEF ToolKinds, AnswerKinds
  <2>5. Fits(response)'
    BY <2>1, <2>2, <2>3 DEF Fits, Answer, RunsTool, IsRequest, current
  <2> QED  BY <2>2, <2>3, <2>4, <2>5 DEF Answer
<1>3. CASE pc = "write" /\ response' = response /\ read' = read
  <2>1. /\ response \in Answers /\ response.frame = read
        /\ read \in 1 .. Len(sent) /\ Fits(response)
    BY <1>3 DEF Turns, Busy, TypeOK
  <2>2. \A a \in Answers :
          a.frame \in 1 .. Len(sent) /\ Fits(a) => Fits(a)'
    BY <1>3, FitsKept
  <2> QED  BY <1>3, <2>1, <2>2 DEF Fits
<1>4. ASSUME \/ \E f \in Frames : Send(f)
             \/ Close \/ TakeAnswer \/ Signal \/ UNCHANGED vars
      PROVE  pc = "write" /\ response' = response /\ read' = read
  BY <1>4 DEF vars, Send, Close, TakeAnswer, Signal
<1>5. ~(CheckContext \/ ReadLine \/ ReadEnd \/ ReadFails \/ IgnoreFrame \/ StartTool)
  BY DEF CheckContext, Stop, ReadLine, NextLine, ReadEnd, ReadFails, IgnoreFrame, StartTool
<1>6. ~(WriteAnswer \/ WriteFails)
  BY DEF WriteAnswer, WriteFails, Stop
<1>7. ~EndOfTurn
  BY DEF EndOfTurn, Stop, TypeOK
<1> QED
  BY <1>1, <1>2, <1>3, <1>4, <1>5, <1>6, <1>7 DEF Next, Client, Loop, Failure

-----------------------------------------------------------------------------
(* The conjuncts of the invariant, one by one.                             *)

(* Every step keeps the turn in order: see Turns. *)
LEMMA TurnsStep ==
  ASSUME IInv, [Next]_vars
  PROVE  Turns'
<1> USE DEF IInv, clientVars, loopVars, historyVars
<1>r. read \in Nat /\ wire \in Seq(Answers) /\ \A i \in DOMAIN wire : wire[i].frame \in Nat
  BY WireOfSent DEF TypeOK
<1>1. (pc = "write" => /\ response \in Answers
                       /\ response.frame = read
                       /\ Fits(response))'
  BY ResponseStep
<1>2. (Busy => read > 0)'
  BY <1>r, EndOfTurnGoes DEF Next, vars, Client, Loop, Failure, Send, Close, TakeAnswer, Signal,
         CheckContext, Stop, ReadLine, NextLine, ReadEnd, ReadFails, IgnoreFrame, AnswerFrame,
         StartTool, FinishTool, WriteAnswer, WriteFails, Turns, Busy
<1>3. (\A i \in DOMAIN wire :
         wire[i].frame <= read /\ (Busy => wire[i].frame < read))'
  <2>1. CASE WriteAnswer
    <3>1. response \in Answers /\ response.frame = read
      BY <2>1 DEF WriteAnswer, Turns
    <3>2. wire' = Append(wire, response) /\ read' = read /\ ~Busy'
      BY <2>1 DEF WriteAnswer, Busy
    <3> QED  BY <1>r, <3>1, <3>2 DEF Turns
  <2>2. CASE TakesLine
    <3>1. wire' = wire /\ read' = read + 1
      BY <2>2 DEF TakesLine, ReadLine, ReadFails, NextLine
    <3> QED  BY <1>r, <3>1 DEF Turns
  <2>3. CASE ~(WriteAnswer \/ TakesLine)
    <3>1. wire' = wire /\ read' = read /\ (Busy' => Busy)
      BY <2>3, EndOfTurnGoes DEF TakesLine, Next, vars, Client, Loop, Failure, Send, Close, TakeAnswer, Signal,
           CheckContext, Stop, ReadEnd, ReadFails, IgnoreFrame, AnswerFrame,
           StartTool, FinishTool, WriteFails, Busy
    <3> QED  BY <3>1 DEF Turns
  <2> QED  BY <2>1, <2>2, <2>3
<1>4. (pc = "handle" => read \notin ran)'
  <2>1. CASE TakesLine
    <3>1. read' = read + 1 /\ ran' = ran
      BY <2>1 DEF TakesLine, ReadLine, ReadFails, NextLine
    <3> QED  BY <3>1, <1>r DEF TypeOK
  <2>2. CASE ~TakesLine /\ pc' = "handle"
    <3>1. pc = "handle" /\ read' = read /\ ran' = ran
      BY <2>2, EndOfTurnGoes DEF TakesLine, Next, vars, Client, Loop, Failure, Send, Close, TakeAnswer, Signal,
           CheckContext, Stop, ReadEnd, ReadFails, IgnoreFrame, AnswerFrame,
           StartTool, FinishTool, WriteAnswer, WriteFails
    <3> QED  BY <3>1 DEF Turns
  <2> QED  BY <2>1, <2>2
<1>5. (pc = "tool" => read \in ran /\ RunsTool(sent[read]))'
  <2>1. CASE StartTool
    BY <2>1 DEF StartTool, current, RunsTool, IsRequest
  <2>2. CASE ~StartTool /\ pc' = "tool"
    <3>1. pc = "tool" /\ read' = read /\ ran' = ran
      BY <2>2, EndOfTurnGoes DEF Next, vars, Client, Loop, Failure, Send, Close, TakeAnswer, Signal,
           CheckContext, Stop, ReadLine, NextLine, ReadEnd, ReadFails, IgnoreFrame, AnswerFrame,
           FinishTool, WriteAnswer, WriteFails
    <3>2. read \in 1 .. Len(sent)
      BY <3>1 DEF Turns, Busy, TypeOK
    <3>3. sent'[read] = sent[read]
      BY <3>2, HistoryKept
    <3> QED  BY <3>1, <3>3 DEF Turns, RunsTool, IsRequest
  <2> QED  BY <2>1, <2>2
<1> QED  BY <1>1, <1>2, <1>3, <1>4, <1>5 DEF Turns

(* Every step keeps the answers in the order of their frames. *)
LEMMA OrderStep ==
  ASSUME IInv, [Next]_vars
  PROVE  AnswersInOrder'
<1> USE DEF IInv
<1>1. wire \in Seq(Answers) /\ \A i \in DOMAIN wire : wire[i].frame \in Nat
  BY WireOfSent DEF TypeOK
<1>2. CASE WriteAnswer
  <2>1. wire' = Append(wire, response) /\ response \in Answers /\ response.frame = read
    BY <1>2 DEF WriteAnswer, Turns
  <2>2. \A i \in DOMAIN wire : wire[i].frame < response.frame
    BY <1>2, <2>1 DEF WriteAnswer, Turns, Busy
  <2> QED  BY <1>1, <2>1, <2>2 DEF AnswersInOrder
<1>3. CASE wire' = wire
  BY <1>3 DEF AnswersInOrder
<1> QED
  BY <1>2, <1>3, EndOfTurnGoes DEF Next, vars, Client, Loop, Failure, Send, Close, TakeAnswer, Signal,
     CheckContext, ReadLine, NextLine, ReadEnd, ReadFails, IgnoreFrame, AnswerFrame,
     StartTool, FinishTool, WriteFails, clientVars, loopVars, historyVars

(* Every step keeps the answers on the wire fitting their frames. *)
LEMMA FitStep ==
  ASSUME IInv, [Next]_vars
  PROVE  AnswersFit'
<1> USE DEF IInv
<1> SUFFICES ASSUME NEW i \in DOMAIN wire'
             PROVE  Fits(wire[i])'
  BY DEF AnswersFit, Fits, ToolKinds
<1>1. CASE i \in DOMAIN wire /\ wire'[i] = wire[i]
  <2> DEFINE a == wire[i]
  <2>1. a \in Answers /\ a.frame \in 1 .. Len(sent)
    BY <1>1, WireOfSent DEF TypeOK
  <2>2. a.frame # read \/ pc # "handle"
    BY <1>1, <2>1 DEF Turns, Busy
  <2>3. Fits(a)
    BY <1>1 DEF AnswersFit, Fits, ToolKinds
  <2> HIDE DEF a
  <2>4. \A b \in Answers :
          /\ b.frame \in 1 .. Len(sent)
          /\ b.frame # read \/ pc # "handle"
          /\ Fits(b)
          => Fits(b)'
    BY FitsKept
  <2> QED  BY <1>1, <2>1, <2>2, <2>3, <2>4 DEF a, Fits
<1>2. CASE WriteAnswer /\ wire'[i] = response
  <2>1. response \in Answers /\ response.frame \in 1 .. Len(sent) /\ Fits(response)
    BY <1>2 DEF WriteAnswer, Turns, Busy, TypeOK
  <2>2. sent' = sent /\ ran' = ran
    BY <1>2 DEF WriteAnswer, historyVars, clientVars
  <2> QED  BY <1>2, <2>1, <2>2 DEF Fits
<1>3. wire \in Seq(Answers)
  BY DEF TypeOK
<1>4. CASE WriteAnswer
  <2>1. wire' = Append(wire, response)
    BY <1>4 DEF WriteAnswer
  <2>2. (i \in DOMAIN wire /\ wire'[i] = wire[i]) \/ wire'[i] = response
    BY <1>3, <2>1
  <2> QED  BY <1>1, <1>2, <1>4, <2>2
<1>5. CASE wire' = wire
  BY <1>1, <1>5
<1> QED
  BY <1>4, <1>5, WireStep

(* Every step keeps tool answers and tool runs together. *)
LEMMA ToolsStep ==
  ASSUME IInv, [Next]_vars
  PROVE  ToolsAnswerForThemselves'
<1> USE DEF IInv
<1> SUFFICES ASSUME NEW n \in ran'
             PROVE  (/\ sent[n].method = "tools/call" /\ sent[n].id # NoId
                     /\ \/ \E i \in DOMAIN wire : wire[i].frame = n
                        \/ n = read /\ pc \in {"tool", "write"}
                        \/ outcome = "write-failed")'
  BY DEF ToolsAnswerForThemselves
<1>1. CASE StartTool /\ n = read
  BY <1>1 DEF StartTool, RunsTool, IsRequest, current, clientVars
<1>2. CASE n \in ran
  <2>1. n \in 1 .. Len(sent)
    BY <1>2 DEF TypeOK
  <2>2. sent'[n] = sent[n]
    BY <2>1, HistoryKept
  <2>3. /\ sent[n].method = "tools/call" /\ sent[n].id # NoId
        /\ \/ \E i \in DOMAIN wire : wire[i].frame = n
           \/ n = read /\ pc \in {"tool", "write"}
           \/ outcome = "write-failed"
    BY <1>2 DEF ToolsAnswerForThemselves
  <2> SUFFICES (\/ \E i \in DOMAIN wire : wire[i].frame = n
                \/ n = read /\ pc \in {"tool", "write"}
                \/ outcome = "write-failed")'
    BY <2>2, <2>3
  <2>4. CASE \E i \in DOMAIN wire : wire[i].frame = n
    BY <2>4, WireGrows
  <2>5. CASE n = read /\ pc \in {"tool", "write"}
    <3>1. CASE WriteAnswer
      BY <2>5, <3>1, WrittenNow
    <3>2. CASE WriteFails
      BY <3>2 DEF WriteFails, Stop
    <3>3. CASE ~(WriteAnswer \/ WriteFails)
      BY <2>5, <3>3, EndOfTurnGoes DEF Next, vars, Client, Loop, Failure, Send, Close,
         TakeAnswer, Signal, CheckContext, ReadLine, NextLine, ReadEnd, ReadFails, IgnoreFrame,
         AnswerFrame, StartTool, FinishTool, clientVars, loopVars, historyVars
    <3> QED  BY <3>1, <3>2, <3>3
  <2>6. CASE outcome = "write-failed"
    BY <2>6, OutcomeStays
  <2> QED  BY <2>3, <2>4, <2>5, <2>6
<1> QED
  BY <1>1, <1>2, HistoryKept DEF StartTool

(* Every step keeps the outcome in agreement with how the loop ended. *)
LEMMA EndingsStep ==
  ASSUME IInv, [Next]_vars
  PROVE  Endings'
<1> USE DEF IInv, Endings, clientVars, loopVars, historyVars
<1>1. CASE \E f \in Frames : Send(f)
  BY <1>1 DEF Send
<1>2. CASE Close \/ TakeAnswer \/ Signal
  BY <1>2 DEF Close, TakeAnswer, Signal
<1>3. CASE CheckContext
  BY <1>3 DEF CheckContext, Stop
<1>4. CASE ReadLine
  <2>1. openEnded => closed
    OBVIOUS
  <2>2. readErr' = "eof" => openEnded /\ read' = Len(sent)
    BY <1>4 DEF ReadLine
  <2>3. /\ pc # "stopped" /\ pc' \notin {"stopped", "check", "read"}
        /\ outcome' = outcome /\ UNCHANGED <<sent, closed, openEnded>>
    BY <1>4 DEF ReadLine, NextLine
  <2> QED  BY <2>1, <2>2, <2>3
<1>5. CASE ReadEnd \/ ReadFails
  BY <1>5 DEF ReadEnd, ReadFails, NextLine
<1>6. CASE IgnoreFrame \/ AnswerFrame \/ StartTool \/ FinishTool
  BY <1>6 DEF IgnoreFrame, AnswerFrame, StartTool, FinishTool
<1>7. CASE WriteAnswer \/ WriteFails
  BY <1>7 DEF WriteAnswer, WriteFails, Stop
<1>8. CASE EndOfTurn
  BY <1>8, EndOfTurnGoes
<1>9. CASE UNCHANGED vars
  BY <1>9 DEF vars
<1> QED
  BY <1>1, <1>2, <1>3, <1>4, <1>5, <1>6, <1>7, <1>8, <1>9 DEF Next, Client, Loop, Failure

(* Every step keeps at most one frame read after the signal. *)
LEMMA LatenessStep ==
  ASSUME IInv, [Next]_vars
  PROVE  Lateness'
<1> USE DEF IInv, Lateness, AtMostOneLateFrame, clientVars, loopVars, historyVars
<1>1. CASE TakesLine
  <2>1. late = 0
    BY <1>1 DEF TakesLine, ReadLine, ReadFails, TypeOK
  <2>2. /\ late' = IF cancelled THEN late + 1 ELSE late
        /\ cancelled' = cancelled /\ pc' # "read"
    BY <1>1 DEF TakesLine, ReadLine, ReadFails, NextLine
  <2> QED  BY <2>1, <2>2
<1>2. CASE CheckContext
  BY <1>2 DEF CheckContext, Stop
<1>3. CASE ~(TakesLine \/ CheckContext)
  <2>1. late' = late /\ (cancelled => cancelled') /\ (pc' = "read" => pc = "read")
    BY <1>3, EndOfTurnGoes DEF TakesLine, Next, vars, Client, Loop, Failure, Send, Close,
       TakeAnswer, Signal, ReadEnd, ReadFails, IgnoreFrame, AnswerFrame, StartTool,
       FinishTool, WriteAnswer, WriteFails, Stop
  <2> QED  BY <2>1
<1> QED  BY <1>1, <1>2, <1>3

(* A turn is over when its frame was written for, or was owed nothing. *)
LEMMA SkippedStep ==
  ASSUME IInv, [Next]_vars
  PROVE  NothingSkipped'
<1> USE DEF IInv
<1> SUFFICES ASSUME outcome' # "write-failed",
                    NEW n \in 1 .. Len(sent'),
                    Finished(n)', Answerable(sent[n])'
             PROVE  \E i \in DOMAIN wire' : wire'[i].frame = n
  BY DEF NothingSkipped
<1>1. /\ read \in Nat /\ Len(sent) \in Nat /\ read <= Len(sent)
      /\ read' \in Nat /\ read' <= Len(sent')
  <2>1. TypeOK'
    BY TypeStep
  <2> QED  BY <2>1 DEF TypeOK
<1>2. outcome # "write-failed"
  BY OutcomeStays
<1>3. CASE n \in 1 .. Len(sent) /\ Finished(n)
  <2>1. Answerable(sent[n])
    BY <1>3, HistoryKept DEF Answerable, IsRequest
  <2>2. \E i \in DOMAIN wire : wire[i].frame = n
    BY <1>2, <1>3, <2>1 DEF NothingSkipped
  <2> QED  BY <2>2, WireGrows
<1>4. CASE \E f \in Frames : Send(f)
  <2>1. read' = read /\ pc' = pc
    BY <1>4 DEF Send, loopVars
  <2>2. n <= read
    BY <1>1, <2>1 DEF Finished
  <2> QED  BY <1>1, <1>3, <2>1, <2>2 DEF Finished
<1>5. CASE TakesLine
  <2>1. /\ pc = "read" /\ read' = read + 1 /\ sent' = sent
        /\ pc' = IF sent[read'].shape = "blank" THEN "tail" ELSE "handle"
    BY <1>5 DEF TakesLine, ReadLine, ReadFails, NextLine, clientVars
  <2>2. CASE n = read'
    BY <2>1, <2>2 DEF Finished, Answerable, IsRequest
  <2>3. CASE n # read'
    BY <1>1, <1>3, <2>1, <2>3 DEF Finished
  <2> QED  BY <2>2, <2>3
<1>6. CASE IgnoreFrame
  <2>1. ~Answerable(sent[read]) /\ UNCHANGED <<sent, read>>
    BY <1>6 DEF IgnoreFrame, current, clientVars
  <2> QED  BY <1>1, <1>3, <2>1 DEF Finished, Answerable, IsRequest
<1>7. CASE WriteAnswer
  <2>1. \E i \in DOMAIN wire' : wire'[i].frame = read
    BY <1>7, WrittenNow
  <2>2. UNCHANGED <<sent, read>>
    BY <1>7 DEF WriteAnswer, clientVars
  <2> QED  BY <1>1, <1>3, <2>1, <2>2 DEF Finished
<1>8. CASE WriteFails
  BY <1>8 DEF WriteFails, Stop
<1>9. CASE \/ Close \/ TakeAnswer \/ Signal \/ CheckContext \/ ReadEnd
           \/ (ReadFails /\ ~NextLine) \/ AnswerFrame \/ StartTool \/ FinishTool
           \/ EndOfTurn \/ UNCHANGED vars
  <2>1. sent' = sent /\ read' = read
    BY <1>9, EndOfTurnGoes DEF vars, Close, TakeAnswer, Signal, CheckContext, ReadEnd,
       ReadFails, AnswerFrame, StartTool, FinishTool, clientVars, loopVars
  <2>2. Finished(n)
    BY <1>9, <2>1, EndOfTurnGoes DEF vars, Close, TakeAnswer, Signal, CheckContext,
       ReadEnd, ReadFails, AnswerFrame, StartTool, FinishTool, loopVars, Finished
  <2> QED  BY <1>3, <2>1, <2>2
<1> QED
  BY <1>4, <1>5, <1>6, <1>7, <1>8, <1>9 DEF Next, Client, Loop, Failure, TakesLine

(* The loop starts in the invariant. *)
LEMMA InitIInv == Init => IInv
<1> SUFFICES ASSUME Init
             PROVE  IInv
  OBVIOUS
<1> USE DEF Init
<1>1. TypeOK
  <2>1. <<>> \in Seq(Frames) /\ <<>> \in Seq(Answers)
    OBVIOUS
  <2>2. sent \in Seq(Frames) /\ read \in 0 .. Len(sent)
    BY <2>1
  <2>3. wire \in Seq(Answers) /\ taken \in 0 .. Len(wire)
    BY <2>1
  <2>4. response \in Answers \cup {<<>>}
    OBVIOUS
  <2>5. ran \in SUBSET (1 .. read) /\ late \in Nat
    OBVIOUS
  <2>6. /\ closed \in BOOLEAN /\ openEnded \in BOOLEAN
        /\ cancelled \in BOOLEAN /\ doomed \in BOOLEAN
    OBVIOUS
  <2> QED  BY <2>2, <2>3, <2>4, <2>5, <2>6 DEF TypeOK
<1>2. Turns /\ Endings /\ Lateness
  BY DEF Turns, Busy, Endings, Lateness, AtMostOneLateFrame
<1>3. AnswersInOrder /\ AnswersFit /\ ToolsAnswerForThemselves /\ NothingSkipped
  BY DEF AnswersInOrder, AnswersFit, ToolsAnswerForThemselves, NothingSkipped
<1> QED  BY <1>1, <1>2, <1>3 DEF IInv

(* No step leaves the invariant. *)
LEMMA NextIInv == IInv /\ [Next]_vars => IInv'
BY TypeStep, TurnsStep, EndingsStep, LatenessStep, OrderStep, FitStep, ToolsStep,
   SkippedStep DEF IInv

(* Every reachable state of ServeStdio and its client is in the invariant:  *)
(* turns are taken in order, answers fit, and endings are truthful.         *)
THEOREM Invariance == Spec => []IInv
BY InitIInv, NextIInv, PTL DEF Spec

-----------------------------------------------------------------------------
(* What follows.                                                           *)

(* Every variable of the loop and its client stays in its set. *)
THEOREM TypeCorrect == Spec => []TypeOK
<1>1. IInv => TypeOK
  BY DEF IInv
<1> QED  BY <1>1, Invariance, PTL

(* Answers leave in the order of their frames, at most one for each        *)
(* (ServeStdio).                                                           *)
THEOREM InOrder == Spec => []AnswersInOrder
<1>1. IInv => AnswersInOrder
  BY DEF IInv
<1> QED  BY <1>1, Invariance, PTL

(* An answer fits its frame in its id and its kind, and there is none for  *)
(* a notification or a response (handleFrame, Handle, callTool).           *)
THEOREM Fitting == Spec => []AnswersFit
<1>1. IInv => AnswersFit
  BY DEF IInv
<1> QED  BY <1>1, Invariance, PTL

(* A tool is run for a request only, and its answer follows (callTool).    *)
THEOREM ToolsAnswer == Spec => []ToolsAnswerForThemselves
<1>1. IInv => ToolsAnswerForThemselves
  BY DEF IInv
<1> QED  BY <1>1, Invariance, PTL

(* A frame whose turn is over has its answer, if it was owed one           *)
(* (ServeStdio).                                                           *)
THEOREM Complete == Spec => []NothingSkipped
<1>1. IInv => NothingSkipped
  BY DEF IInv
<1> QED  BY <1>1, Invariance, PTL

(* A loop that ended with its input has answered all of it, the line       *)
(* without a newline included (ServeStdio).                                *)
THEOREM Drained == Spec => []DrainedOnEOF
<1>1. IInv => DrainedOnEOF
  <2> SUFFICES ASSUME IInv, outcome = "eof"
               PROVE  /\ read = Len(sent)
                      /\ \A n \in 1 .. Len(sent) :
                           Answerable(sent[n]) => \E i \in DOMAIN wire : wire[i].frame = n
    BY DEF DrainedOnEOF
  <2>1. read = Len(sent) /\ pc = "stopped" /\ Len(sent) \in Nat
    BY DEF IInv, Endings, TypeOK
  <2>2. \A n \in 1 .. Len(sent) : Finished(n)
    BY <2>1 DEF Finished
  <2> QED  BY <2>1, <2>2 DEF IInv, NothingSkipped
<1> QED  BY <1>1, Invariance, PTL

(* After a signal at most one more frame is read (ServeStdio).             *)
THEOREM OneLateFrame == Spec => []AtMostOneLateFrame
<1>1. IInv => AtMostOneLateFrame
  BY DEF IInv, Lateness
<1> QED  BY <1>1, Invariance, PTL
=============================================================================
