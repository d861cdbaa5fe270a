--------------------------- MODULE BrewOpsProofs ---------------------------
(***************************************************************************)
(* Proofs about BrewOps, for any frames, brews, catalogue and bounds.      *)
(*                                                                         *)
(* The argument.  Every step of the whole is a step of the loop or leaves  *)
(* it alone, and the same of the tool, so what is proved about each in     *)
(* StdioProofs and BrewLogProofs holds of both together.  That the tool's  *)
(* part of a step fits the loop's needs what they know of each other: the  *)
(* tool works exactly while the loop waits for it, on the newest call, and *)
(* has seen the signal if there was one (Coupled).  What the client reads  *)
(* on the wire is in the book because calls and tools run go one to one,   *)
(* in the order of their frames (Numbered), and an answer on its way that  *)
(* does not say isError has its row (Backed).                              *)
(***************************************************************************)
EXTENDS BrewOps, FiniteSetTheorems, SequenceTheorems, TLAPS

SP == INSTANCE StdioProofs

LP == INSTANCE BrewLogProofs
        WITH Procs <- {Process}, Brews <- { Asked[id] : id \in DOMAIN Asked },
             MaxCalls <- MaxFrames, Methods <- BrewMethods,
             pc <- step, current <- call, cancelled <- context

(* What loop and tool know of each other. *)
Coupled ==
  /\ Len(sent) <= MaxFrames
  /\ pc = "tool" <=> step[Process] # "idle"
  /\ pc = "tool" => /\ call[Process] = Len(calls)
                    /\ context[Process] <=> cancelled
                    /\ doomed => context[Process] /\ step[Process] = "look-up"

(* How many of the frames R are no later than n. *)
Position(R, n) == Cardinality({ m \in R : m <= n })

(* The c-th tool run made call c. *)
Numbered ==
  /\ Cardinality(ran) = Len(calls)
  /\ \A c \in 1 .. Len(calls) : \E n \in ran : Position(ran, n) = c

(* An answer on its way that does not say isError is of a brew on record. *)
Backed ==
  pc = "write" /\ response.kind = "tool-output" =>
    \E i \in DOMAIN log : log[i].call = Len(calls)

IInv ==
  /\ SP!IInv
  /\ LP!IInv
  /\ Coupled
  /\ Numbered
  /\ Backed

-----------------------------------------------------------------------------
(* The parts' proofs, at hand.                                             *)

(* The assumptions of the parts hold of what BrewOps gives them. *)
LEMMA PartsAssumed ==
  /\ SP!FramesAssumption /\ SP!BoundsAssumption
  /\ LP!BrewsAssumption /\ LP!BoundsAssumption
BY PartsAssumption
   DEF SP!FramesAssumption, SP!BoundsAssumption, SP!Shapes, SP!Methods, SP!Params,
       Server!FramesAssumption, Server!BoundsAssumption, Server!Shapes, Server!Methods,
       Server!Params, LP!BrewsAssumption, LP!BoundsAssumption, Log!BrewsAssumption,
       Log!BoundsAssumption

(* What the loop of BrewOps does is what StdioProofs is about. *)
LEMMA SameLoop ==
  /\ Server!Init <=> SP!Init
  /\ Server!StartTool <=> SP!StartTool
  /\ [Server!Next]_Server!vars <=> [SP!Next]_SP!vars
BY DEF Server!Init, SP!Init, Server!Next, SP!Next, Server!vars, SP!vars,
   Server!Client, SP!Client, Server!Loop, SP!Loop, Server!Failure, SP!Failure,
   Server!Send, SP!Send, Server!Close, SP!Close, Server!TakeAnswer,
   SP!TakeAnswer, Server!Signal, SP!Signal, Server!CheckContext,
   SP!CheckContext, Server!ReadLine, SP!ReadLine, Server!NextLine, SP!NextLine,
   Server!ReadEnd, SP!ReadEnd,
   Server!ReadFails, SP!ReadFails, Server!WriteFails, SP!WriteFails,
   Server!IgnoreFrame, SP!IgnoreFrame, Server!AnswerFrame, SP!AnswerFrame,
   Server!StartTool, SP!StartTool, Server!FinishTool, SP!FinishTool,
   Server!WriteAnswer, SP!WriteAnswer, Server!EndOfTurn, SP!EndOfTurn,
   Server!Stop, SP!Stop, Server!Answerable, SP!Answerable, Server!RunsTool,
   SP!RunsTool, Server!IsRequest, SP!IsRequest, Server!DirectAnswer,
   SP!DirectAnswer, Server!Answer, SP!Answer, Server!current, SP!current,
   Server!clientVars, SP!clientVars, Server!loopVars, SP!loopVars,
   Server!historyVars, SP!historyVars

(* What its tool does is what BrewLogProofs is about. *)
LEMMA SameTool ==
  /\ Log!Init <=> LP!Init
  /\ \A b : Log!Call(Process, b) <=> LP!Call(Process, b)
  /\ \A a : Log!Finish(Process, a) <=> LP!Finish(Process, a)
  /\ Log!Insert(Process) <=> LP!Insert(Process)
  /\ [Log!Next]_Log!vars <=> [LP!Next]_LP!vars
BY DEF Log!Init, LP!Init, Log!Next, LP!Next, Log!vars, LP!vars, Log!Step,
   LP!Step, Log!Tick, LP!Tick, Log!StepBack, LP!StepBack, Log!Call, LP!Call,
   Log!Signal, LP!Signal, Log!LookUp, LP!LookUp, Log!Refuse, LP!Refuse,
   Log!Stamp, LP!Stamp, Log!Execute, LP!Execute, Log!Insert, LP!Insert, Log!ReadBack, LP!ReadBack,
   Log!Answer, LP!Answer, Log!StoreFails, LP!StoreFails, Log!Crash, LP!Crash,
   Log!Finish, LP!Finish, Log!Goto, LP!Goto, Log!Latest, LP!Latest,
   Log!Recordable, LP!Recordable, Log!Seconds, LP!Seconds, Log!RowsOf,
   LP!RowsOf, Log!EffectiveLimit, LP!EffectiveLimit, Log!CallOf, LP!CallOf,
   Log!BrewOf, LP!BrewOf, Log!Pairing, LP!Pairing, Log!Cardinality,
   LP!Cardinality

LEMMA LoopKeeps == SP!IInv /\ [Server!Next]_Server!vars => SP!IInv'
<1>1. SP!IInv /\ [SP!Next]_SP!vars => SP!IInv'
  BY PartsAssumed, SP!NextIInv
<1> QED  BY <1>1, SameLoop

LEMMA ToolKeeps == LP!IInv /\ [Log!Next]_Log!vars => LP!IInv'
<1>1. LP!IInv /\ [LP!Next]_LP!vars => LP!IInv'
  BY PartsAssumed, LP!InvariantStep
<1> QED  BY <1>1, SameTool

-----------------------------------------------------------------------------
(* Steps.                                                                  *)

(* What a step needs to know of the state before it. *)
LEMMA Typed ==
  ASSUME IInv
  PROVE  /\ pc \in {"check", "read", "handle", "tool", "write", "tail", "stopped"}
         /\ step[Process] \in {"idle", "look-up", "stamp", "execute", "insert", "read-back",
                              "answer"}
         /\ cancelled \in BOOLEAN /\ context[Process] \in BOOLEAN
         /\ context \in [{Process} -> BOOLEAN] /\ step = [p \in {Process} |-> step[p]]
         /\ call \in [{Process} -> 0 .. Len(calls)]
         /\ read \in 0 .. Len(sent) /\ Len(sent) \in Nat /\ Len(calls) \in Nat
         /\ ran \in SUBSET (1 .. read)
<1>1. SP!TypeOK /\ LP!TypeOK
  BY DEF IInv, SP!IInv, LP!IInv
<1> QED  BY <1>1 DEF SP!TypeOK, LP!TypeOK

(* The end of a tool: the newest call is over, and its answer is an error  *)
(* unless its history was read back.                                       *)
LEMMA ToolEnds ==
  ASSUME IInv, FinishTool
  PROVE  /\ pc = "tool" /\ pc' = "write" /\ step'[Process] = "idle"
         /\ Len(calls') = Len(calls) /\ log' = log
         /\ response' = Server!Answer(read, sent[read].id,
                          IF step[Process] = "answer" THEN "tool-output" ELSE "tool-failure")
<1>1. step[Process] # "idle"
  BY DEF FinishTool, Log!Refuse, Log!Answer, Log!StoreFails
<1>2. pc = "tool"
  BY <1>1 DEF IInv, Coupled
<1>3. PICK a \in {"recorded", "error"} :
        /\ Log!Finish(Process, a) /\ log' = log
        /\ a = "recorded" <=> step[Process] = "answer"
  BY DEF FinishTool, Log!Refuse, Log!Answer, Log!StoreFails
<1>4. /\ Len(calls') = Len(calls)
      /\ calls'[call[Process]].answer = a
  <2>1. LP!TypeOK /\ LP!Turns /\ a \in LP!Answers /\ Process \in {Process}
    BY DEF IInv, LP!IInv, LP!Answers
  <2>2. LP!Finish(Process, a)
    BY <1>3, SameTool
  <2>3. /\ Len(calls') = Len(calls)
        /\ \A c \in DOMAIN calls :
             calls'[c].answer = IF c = call[Process] THEN a ELSE calls[c].answer
    BY <1>1, <2>1, <2>2, PartsAssumed, LP!CallEnds
  <2>4. call[Process] \in DOMAIN calls
    BY <1>1, <2>1, PartsAssumed, LP!CallInWork
  <2> QED  BY <2>3, <2>4
<1>5. step'[Process] = "idle"
  BY <1>3, Typed DEF Log!Finish, Log!Goto
<1> QED  BY <1>2, <1>3, <1>4, <1>5 DEF FinishTool

(* The start of a tool makes the newest call. *)
LEMMA ToolStarts ==
  ASSUME IInv, StartTool
  PROVE  /\ sent[read].id \in DOMAIN Asked
         /\ pc = "handle" /\ pc' = "tool"
         /\ read' = read /\ read \in Nat \ {0} /\ ran' = ran \cup {read}
         /\ \A m \in ran : m < read
         /\ Len(calls') = Len(calls) + 1 /\ call'[Process] = Len(calls')
         /\ step'[Process] = "look-up" /\ context'[Process] = cancelled
         /\ log' = log
<1>1. SP!TypeOK /\ SP!Turns /\ SP!StartTool
  BY SameLoop DEF IInv, SP!IInv, StartTool
<1>2. /\ pc = "handle" /\ pc' = "tool" /\ read' = read /\ ran' = ran \cup {read}
      /\ SP!RunsTool(sent[read])
  BY <1>1 DEF SP!StartTool, SP!current, SP!loopVars
<1>3. read > 0 /\ read \notin ran
  BY <1>1, <1>2 DEF SP!Turns, SP!Busy
<1>4. read \in Nat \ {0} /\ \A m \in ran : m < read
  BY <1>3, Typed
<1>5. sent[read].id \in DOMAIN Asked
  <2>1. sent[read] \in Frames
    BY <1>1, <1>4, Typed DEF SP!TypeOK
  <2> QED  BY <1>2, <2>1, AskedAssumption
           DEF SP!RunsTool, Server!RunsTool, SP!IsRequest, Server!IsRequest
<1> DEFINE brew == Asked[sent[read].id]
<1>6. Log!Call(Process, brew)
  BY DEF StartTool
<1>7. Len(calls') = Len(calls) + 1
  <2>1. LP!TypeOK /\ Process \in {Process} /\ brew \in { Asked[id] : id \in DOMAIN Asked }
    BY <1>5 DEF IInv, LP!IInv
  <2>2. LP!Call(Process, brew)
    BY <1>6, SameTool
  <2> QED  BY <2>1, <2>2, PartsAssumed, LP!CallBegins
<1>8. call'[Process] = Len(calls) + 1 /\ step'[Process] = "look-up" /\ log' = log
  BY <1>6, Typed DEF Log!Call, Log!Goto
<1>9. context'[Process] = cancelled
  BY DEF StartTool, ToolContext
<1> QED  BY <1>2, <1>4, <1>5, <1>7, <1>8, <1>9

(* A step in the tool's work: nothing changes for the loop. *)
LEMMA ToolWorks ==
  ASSUME IInv, ToolStep
  PROVE  /\ pc = "tool" /\ ~doomed
         /\ step'[Process] # "idle" /\ calls' = calls
         /\ UNCHANGED <<call, context>> /\ UNCHANGED serverVars
<1>1. /\ step[Process] # "idle" /\ step'[Process] # "idle"
      /\ step[Process] = "look-up" => ~context[Process]
      /\ calls' = calls /\ UNCHANGED <<call, context>> /\ UNCHANGED serverVars
  BY Typed DEF ToolStep, Log!LookUp, Log!Stamp, Log!Execute, Log!Insert, Log!ReadBack,
     Log!Goto
<1> QED  BY <1>1 DEF IInv, Coupled

(* A step of the loop alone is none of waiting for a tool. *)
LEMMA LoopWorks ==
  ASSUME IInv, LoopStep \/ StreamFails
  PROVE  /\ pc # "tool" /\ pc' # "tool"
         /\ UNCHANGED <<sent, cancelled, ran>> /\ UNCHANGED logVars
<1>1. SP!TypeOK
  BY DEF IInv, SP!IInv
<1>2. CASE Server!EndOfTurn
  BY <1>1, <1>2 DEF LoopStep, StreamFails, Server!EndOfTurn, Server!Stop, Server!clientVars,
     Server!historyVars, SP!TypeOK
<1>3. CASE ~Server!EndOfTurn
  BY <1>3 DEF LoopStep, StreamFails, Server!Failure, Server!CheckContext, Server!Stop,
     Server!ReadLine, Server!NextLine, Server!ReadEnd, Server!ReadFails,
     Server!IgnoreFrame, Server!AnswerFrame, Server!WriteAnswer, Server!WriteFails, Server!clientVars,
     Server!historyVars
<1> QED  BY <1>2, <1>3

(* A step of the client, or of the clock. *)
LEMMA OthersWork ==
  ASSUME IInv, (\E f \in Frames : Send(f)) \/ Close \/ TakeAnswer \/ Tick \/ UNCHANGED vars
  PROVE  /\ UNCHANGED <<cancelled, pc, read, doomed, response, wire, ran>>
         /\ UNCHANGED <<calls, step, call, stamp, shown, context, log>>
         /\ sent' = sent \/ Len(sent') <= MaxFrames
<1>1. sent \in Seq(Frames)
  BY DEF IInv, SP!IInv, SP!TypeOK
<1>2. ASSUME NEW f \in Frames, Send(f)
      PROVE  Len(sent') <= MaxFrames
  <2>1. sent' = Append(sent, f) /\ Len(sent) < MaxFrames
    BY <1>2 DEF Send, Server!Send
  <2> QED  BY <1>1, <2>1, PartsAssumption DEF Server!BoundsAssumption
<1> QED
  BY <1>2 DEF Send, Close, TakeAnswer, Tick, Server!Send, Server!Close, Server!TakeAnswer,
     Log!Tick, Server!clientVars, Server!loopVars, Server!historyVars, serverVars, logVars,
     vars

(* A signal reaches the tool that is at work. *)
LEMMA SignalWorks ==
  ASSUME IInv, Signal
  PROVE  /\ cancelled' /\ UNCHANGED <<sent, pc, read, doomed, response, wire, ran>>
         /\ UNCHANGED <<calls, step, call, stamp, shown, log>>
         /\ pc = "tool" => context'[Process]
<1>1. /\ cancelled' /\ UNCHANGED <<sent, pc, read, doomed, response, wire, ran>>
  BY DEF Signal, Server!Signal, Server!clientVars, Server!loopVars, Server!historyVars
<1>2. CASE step[Process] # "idle"
  BY <1>1, <1>2, Typed DEF Signal, ToolContext, Log!Signal
<1>3. CASE step[Process] = "idle"
  BY <1>1, <1>3 DEF IInv, Coupled, Signal, logVars
<1> QED  BY <1>2, <1>3

(* Every step of the whole is one of the loop, or leaves the loop alone. *)
LEMMA IsLoopStep ==
  ASSUME IInv, [Next]_vars
  PROVE  [Server!Next]_Server!vars
<1>1. CASE FinishTool
  <2>1. doomed => step[Process] # "answer"
    BY <1>1, ToolEnds DEF IInv, Coupled
  <2>2. Server!FinishTool
    <3> DEFINE kind == IF step[Process] = "answer" THEN "tool-output" ELSE "tool-failure"
    <3>1. kind \in {"tool-output", "tool-failure"} /\ (doomed => kind = "tool-failure")
      BY <2>1
    <3>2. response' = Server!Answer(read, sent[read].id, kind)
      BY <1>1, ToolEnds
    <3>3. pc = "tool"
      BY <1>1, ToolEnds
    <3> HIDE DEF kind
    <3> QED  BY <1>1, <3>1, <3>2, <3>3
             DEF FinishTool, Server!FinishTool, Server!current, Server!clientVars,
                 Server!historyVars
  <2> QED  BY <2>2 DEF Server!Next, Server!Loop
<1>2. CASE StartTool
  BY <1>2 DEF StartTool, Server!Next, Server!Loop
<1>3. CASE ToolStep \/ Tick \/ UNCHANGED vars
  BY <1>3 DEF ToolStep, Tick, vars, serverVars, Server!vars, Server!clientVars,
     Server!loopVars, Server!historyVars
<1>4. CASE LoopStep \/ StreamFails
  BY <1>4 DEF LoopStep, StreamFails, Server!Next, Server!Loop
<1>5. CASE (\E f \in Frames : Send(f)) \/ Close \/ TakeAnswer \/ Signal
  BY <1>5 DEF Send, Close, TakeAnswer, Signal, Server!Next, Server!Client
<1> QED  BY <1>1, <1>2, <1>3, <1>4, <1>5 DEF Next, Progress

(* Every step of the whole is one of the tool, or leaves the tool alone. *)
LEMMA IsToolStep ==
  ASSUME IInv, [Next]_vars
  PROVE  [Log!Next]_Log!vars
<1>1. Process \in {Process}
  OBVIOUS
<1>2. CASE FinishTool \/ ToolStep
  BY <1>1, <1>2 DEF FinishTool, ToolStep, Log!Next, Log!Step
<1>3. CASE StartTool
  <2>1. Asked[sent[read].id] \in { Asked[id] : id \in DOMAIN Asked }
    BY <1>3, ToolStarts
  <2> QED  BY <1>1, <1>3, <2>1 DEF StartTool, Log!Next
<1>4. CASE Tick
  BY <1>4 DEF Tick, Log!Next
<1>5. CASE Signal
  BY <1>1, <1>5 DEF Signal, Log!Next, logVars, Log!vars
<1>6. CASE (\E f \in Frames : Send(f)) \/ Close \/ TakeAnswer \/ LoopStep \/ StreamFails
           \/ UNCHANGED vars
  BY <1>6 DEF Send, Close, TakeAnswer, LoopStep, StreamFails, vars, logVars, Log!vars
<1> QED  BY <1>2, <1>3, <1>4, <1>5, <1>6 DEF Next, Progress

(* Loop and tool keep up with each other. *)
LEMMA CoupledStep ==
  ASSUME IInv, [Next]_vars
  PROVE  Coupled'
<1> USE DEF IInv, Coupled
<1>1. CASE FinishTool
  BY <1>1, ToolEnds DEF FinishTool
<1>2. CASE StartTool
  <2>1. UNCHANGED <<sent, cancelled>> /\ doomed' = cancelled
    BY <1>2 DEF StartTool, Server!StartTool, Server!clientVars
  <2> QED  BY <1>2, <2>1, ToolStarts
<1>3. CASE ToolStep
  BY <1>3, ToolWorks DEF serverVars
<1>4. CASE LoopStep \/ StreamFails
  BY <1>4, LoopWorks DEF logVars
<1>5. CASE Signal
  BY <1>5, SignalWorks, Typed
<1>6. CASE (\E f \in Frames : Send(f)) \/ Close \/ TakeAnswer \/ Tick \/ UNCHANGED vars
  BY <1>6, OthersWork
<1> QED  BY <1>1, <1>2, <1>3, <1>4, <1>5, <1>6 DEF Next, Progress

-----------------------------------------------------------------------------
(* Calls and the frames that made them.                                    *)

(* The member of R that is the c-th: FrameOf for any set of frames. *)
NthOf(R, c) == CHOOSE n \in R : Position(R, n) = c

(* Members of one position are the same. *)
LEMMA NthIsUnique ==
  ASSUME NEW R \in SUBSET Nat, IsFiniteSet(R), NEW n \in R
  PROVE  NthOf(R, Position(R, n)) = n
<1> DEFINE UpTo(k) == { m \in R : m <= k }
<1>1. ASSUME NEW k \in R, NEW l \in R, k < l
      PROVE  Position(R, k) # Position(R, l)
  <2>1. k \in Nat /\ l \in Nat /\ \A m \in R : m \in Nat
    OBVIOUS
  <2>2. l <= l /\ ~(l <= k) /\ \A m \in R : m <= k => m <= l
    BY <1>1, <2>1
  <2>3. UpTo(k) \subseteq UpTo(l) /\ l \in UpTo(l) /\ l \notin UpTo(k)
    BY <2>2, Zenon
  <2>4. IsFiniteSet(UpTo(l))
    <3>1. UpTo(l) \in SUBSET R
      OBVIOUS
    <3> HIDE DEF UpTo
    <3> QED  BY <3>1, FS_Subset
  <2>5. UpTo(k) \in SUBSET UpTo(l) /\ UpTo(k) # UpTo(l)
    BY <2>3
  <2>6. Cardinality(UpTo(k)) # Cardinality(UpTo(l))
    <3> HIDE DEF UpTo
    <3> QED  BY <2>4, <2>5, FS_Subset
  <2> QED  BY <2>6 DEF Position
<1>2. \A k \in R : Position(R, k) = Position(R, n) => k = n
  BY <1>1
<1>3. Position(R, NthOf(R, Position(R, n))) = Position(R, n) /\ NthOf(R, Position(R, n)) \in R
  BY DEF NthOf
<1> QED  BY <1>2, <1>3

(* A new last member has the next position, the others keep theirs. *)
LEMMA LastAdded ==
  ASSUME NEW R \in SUBSET Nat, IsFiniteSet(R), NEW n \in Nat, \A m \in R : m < n
  PROVE  /\ IsFiniteSet(R \cup {n})
         /\ Cardinality(R \cup {n}) = Cardinality(R) + 1
         /\ Position(R \cup {n}, n) = Cardinality(R) + 1
         /\ \A m \in R : Position(R \cup {n}, m) = Position(R, m)
<1>1. IsFiniteSet(R \cup {n}) /\ Cardinality(R \cup {n}) = Cardinality(R) + 1
  BY FS_AddElement
<1>2. { m \in R \cup {n} : m <= n } = R \cup {n}
  <2>1. \A m \in R \cup {n} : m <= n
    OBVIOUS
  <2> QED  BY <2>1
<1>3. ASSUME NEW m \in R
      PROVE  { k \in R \cup {n} : k <= m } = { k \in R : k <= m }
  OBVIOUS
<1> QED  BY <1>1, <1>2, <1>3 DEF Position

(* The frame of a call: a tool was run for it, and for no other call. *)
LEMMA FrameOfCall ==
  ASSUME IInv
  PROVE  /\ ran \in SUBSET Nat /\ IsFiniteSet(ran)
         /\ \A c \in 1 .. Len(calls) :
              /\ FrameOf(c) \in ran /\ FrameOf(c) \in 1 .. MaxFrames
              /\ Position(ran, FrameOf(c)) = c
         /\ read \in ran => FrameOf(Len(calls)) = read
<1>1. ran \in SUBSET (1 .. read) /\ ran \in SUBSET Nat /\ read \in Nat
  BY Typed
<1>2. IsFiniteSet(ran)
  <2>1. IsFiniteSet(1 .. read)
    BY <1>1, FS_Interval
  <2> QED  BY <1>1, <2>1, FS_Subset
<1>3. \A n \in ran : NthOf(ran, Position(ran, n)) = n
  BY <1>1, <1>2, NthIsUnique
<1>4. ASSUME NEW c
      PROVE  FrameOf(c) = NthOf(ran, c)
  BY DEF FrameOf, NthOf, Position
<1>5. ASSUME NEW c \in 1 .. Len(calls)
      PROVE  FrameOf(c) \in ran /\ Position(ran, FrameOf(c)) = c
  <2>1. PICK n \in ran : Position(ran, n) = c
    BY DEF IInv, Numbered
  <2> QED  BY <1>3, <1>4, <2>1
<1>6. ran \in SUBSET (1 .. MaxFrames)
  BY <1>1, Typed, PartsAssumption DEF IInv, Coupled, Server!BoundsAssumption
<1>7. read \in ran => FrameOf(Len(calls)) = read
  <2>1. { m \in ran : m <= read } = ran
    <3>1. \A m \in ran : m <= read
      BY <1>1
    <3> QED  BY <3>1
  <2>2. Position(ran, read) = Len(calls)
    BY <2>1 DEF Position, IInv, Numbered
  <2> QED  BY <1>3, <1>4, <2>2
<1> QED  BY <1>1, <1>2, <1>5, <1>6, <1>7

(* The tools run and the calls made change together. *)
LEMMA RunIsCall ==
  ASSUME IInv, [Next]_vars
  PROVE  StartTool \/ (ran' = ran /\ Len(calls') = Len(calls))
<1>1. CASE FinishTool
  BY <1>1, ToolEnds DEF FinishTool
<1>2. CASE ToolStep
  BY <1>2, ToolWorks DEF serverVars
<1>3. CASE LoopStep \/ StreamFails
  BY <1>3, LoopWorks DEF logVars
<1>4. CASE Signal
  BY <1>4, SignalWorks
<1>5. CASE (\E f \in Frames : Send(f)) \/ Close \/ TakeAnswer \/ Tick \/ UNCHANGED vars
  BY <1>5, OthersWork
<1> QED  BY <1>1, <1>2, <1>3, <1>4, <1>5 DEF Next, Progress

LEMMA NumberedStep ==
  ASSUME IInv, [Next]_vars
  PROVE  Numbered'
<1>1. CASE StartTool
  <2>1. /\ ran' = ran \cup {read} /\ read \in Nat /\ \A m \in ran : m < read
        /\ Len(calls') = Len(calls) + 1 /\ Len(calls) \in Nat
    BY <1>1, ToolStarts, Typed
  <2>2. /\ Cardinality(ran') = Cardinality(ran) + 1
        /\ Position(ran', read) = Cardinality(ran) + 1
        /\ \A m \in ran : Position(ran', m) = Position(ran, m)
    BY <2>1, FrameOfCall, LastAdded
  <2>3. /\ Cardinality(ran) = Len(calls)
        /\ \A c \in 1 .. Len(calls) : \E n \in ran : Position(ran, n) = c
    BY DEF IInv, Numbered
  <2>4. ASSUME NEW c \in 1 .. Len(calls')
        PROVE  \E n \in ran' : Position(ran', n) = c
    <3>1. CASE c = Len(calls) + 1
      BY <2>1, <2>2, <2>3, <3>1
    <3>2. CASE c \in 1 .. Len(calls)
      BY <2>1, <2>2, <2>3, <3>2
    <3>3. c = Len(calls) + 1 \/ c \in 1 .. Len(calls)
      BY <2>1
    <3> QED  BY <3>1, <3>2, <3>3
  <2>5. Cardinality(ran') = Len(calls')
    BY <2>1, <2>2, <2>3
  <2> QED  BY <2>4, <2>5 DEF Numbered, Position
<1>2. CASE ran' = ran /\ Len(calls') = Len(calls)
  BY <1>2 DEF IInv, Numbered, Position
<1> QED  BY <1>1, <1>2, RunIsCall

(* A call keeps its frame. *)
LEMMA FrameStays ==
  ASSUME IInv, [Next]_vars, NEW c \in 1 .. Len(calls)
  PROVE  FrameOf(c)' = FrameOf(c)
<1>1. CASE StartTool
  <2> DEFINE n == FrameOf(c)
  <2>1. /\ ran \in SUBSET Nat /\ IsFiniteSet(ran)
        /\ n \in ran /\ Position(ran, n) = c
    BY FrameOfCall
  <2>2. /\ ran' = ran \cup {read} /\ read \in Nat /\ \A m \in ran : m < read
    BY <1>1, ToolStarts
  <2>3. ran' \in SUBSET Nat /\ IsFiniteSet(ran') /\ n \in ran' /\ Position(ran', n) = c
    BY <2>1, <2>2, LastAdded
  <2>4. NthOf(ran', c) = n
    BY <2>3, NthIsUnique
  <2> QED  BY <2>4 DEF FrameOf, NthOf, Position
<1>2. CASE ran' = ran
  BY <1>2 DEF FrameOf
<1> QED  BY <1>1, <1>2, RunIsCall

-----------------------------------------------------------------------------
(* The wire.                                                               *)

(* An answer that does not say isError is on its way already, or is that   *)
(* of a tool which has read its history back.                              *)
LEMMA TextOnItsWay ==
  ASSUME IInv, [Next]_vars, pc' = "write", response'.kind = "tool-output"
  PROVE  \/ /\ pc = "write" /\ UNCHANGED <<response, read>>
            /\ Len(calls') = Len(calls) /\ log' = log
         \/ /\ pc = "tool" /\ step[Process] = "answer" /\ read' = read
            /\ Len(calls') = Len(calls) /\ log' = log
<1>1. CASE FinishTool
  <2>1. /\ pc = "tool" /\ Len(calls') = Len(calls) /\ log' = log
        /\ response' = Server!Answer(read, sent[read].id,
                         IF step[Process] = "answer" THEN "tool-output" ELSE "tool-failure")
    BY <1>1, ToolEnds
  <2>2. step[Process] = "answer"
    BY <2>1 DEF Server!Answer
  <2> QED  BY <1>1, <2>1, <2>2 DEF FinishTool
<1>2. CASE LoopStep \/ StreamFails
  <2>1. pc' # "write"
    <3>1. CASE Server!AnswerFrame
      <4>1. pc = "handle" /\ UNCHANGED <<read, ran>>
        BY <3>1 DEF Server!AnswerFrame, Server!historyVars
      <4>2. SP!IInv'
        BY IsLoopStep, LoopKeeps DEF IInv
      <4>3. SP!Turns /\ SP!Turns'
        BY <4>2 DEF IInv, SP!IInv
      <4>4. read \notin ran
        BY <4>1, <4>3 DEF SP!Turns
      <4>5. response'.frame = read' /\ SP!Fits(response)'
        BY <4>3 DEF SP!Turns
      <4>6. response'.frame \in ran'
        BY <4>5 DEF SP!Fits, SP!ToolKinds
      <4> QED  BY <4>1, <4>4, <4>5, <4>6
    <3>2. CASE Server!EndOfTurn
      <4>1. SP!TypeOK
        BY DEF IInv, SP!IInv
      <4> QED  BY <3>2, <4>1 DEF Server!EndOfTurn, Server!Stop, SP!TypeOK
    <3>3. CASE ~Server!AnswerFrame /\ ~Server!EndOfTurn
      BY <1>2, <3>3 DEF LoopStep, StreamFails, Server!Failure, Server!CheckContext,
         Server!Stop, Server!ReadLine, Server!NextLine, Server!ReadEnd, Server!ReadFails,
         Server!IgnoreFrame, Server!WriteAnswer, Server!WriteFails
    <3> QED  BY <3>1, <3>2, <3>3
  <2> QED  BY <2>1
<1>3. CASE StartTool
  BY <1>3, ToolStarts
<1>4. CASE ToolStep
  BY <1>4, ToolWorks DEF serverVars
<1>5. CASE Signal
  BY <1>5, SignalWorks
<1>6. CASE (\E f \in Frames : Send(f)) \/ Close \/ TakeAnswer \/ Tick \/ UNCHANGED vars
  BY <1>6, OthersWork
<1> QED  BY <1>1, <1>2, <1>3, <1>4, <1>5, <1>6 DEF Next, Progress

(* A tool that has read its history back works on a call on record. *)
LEMMA ReadBackIsBooked ==
  ASSUME IInv, step[Process] = "answer"
  PROVE  \E i \in DOMAIN log : log[i].call = Len(calls)
<1>1. call[Process] = Len(calls)
  BY DEF IInv, Coupled
<1>2. LP!Booked /\ Process \in {Process}
  BY DEF IInv, LP!IInv
<1>3. \E i \in DOMAIN log : log[i].call = call[Process]
  BY <1>2 DEF LP!Booked
<1> QED  BY <1>1, <1>3

(* Only a tool that has read its history back is answered without isError. *)
LEMMA BackedStep ==
  ASSUME IInv, [Next]_vars
  PROVE  Backed'
<1> SUFFICES ASSUME pc' = "write", response'.kind = "tool-output"
             PROVE  \E i \in DOMAIN log' : log'[i].call = Len(calls')
  BY DEF Backed
<1>1. CASE pc = "write" /\ response' = response /\ Len(calls') = Len(calls) /\ log' = log
  BY <1>1 DEF IInv, Backed
<1>2. CASE step[Process] = "answer" /\ Len(calls') = Len(calls) /\ log' = log
  BY <1>2, ReadBackIsBooked
<1> QED  BY <1>1, <1>2, TextOnItsWay

LEMMA InvariantAtStart == Init => IInv
<1> SUFFICES ASSUME Init PROVE IInv
  OBVIOUS
<1>1. SP!IInv
  BY SameLoop, PartsAssumed, SP!InitIInv DEF Init
<1>2. LP!IInv
  BY SameTool, PartsAssumed, LP!InvariantAtStart DEF Init
<1>3. /\ pc = "check" /\ step[Process] = "idle"
      /\ sent = <<>> /\ calls = <<>> /\ ran = {}
  BY DEF Init, Server!Init, Log!Init
<1>4. Len(sent) = 0 /\ Len(calls) = 0
  BY <1>3, EmptySeq
<1>5. Coupled
  BY <1>3, <1>4, PartsAssumption DEF Coupled, Server!BoundsAssumption
<1>6. Numbered
  BY <1>3, <1>4, FS_EmptySet DEF Numbered
<1>7. Backed
  BY <1>3 DEF Backed
<1> QED  BY <1>1, <1>2, <1>5, <1>6, <1>7 DEF IInv

LEMMA InvariantStep == IInv /\ [Next]_vars => IInv'
<1> SUFFICES ASSUME IInv, [Next]_vars PROVE IInv'
  OBVIOUS
<1>1. SP!IInv'
  BY IsLoopStep, LoopKeeps DEF IInv
<1>2. LP!IInv'
  BY IsToolStep, ToolKeeps DEF IInv
<1> QED  BY <1>1, <1>2, CoupledStep, NumberedStep, BackedStep DEF IInv

(* Loop and tool are in their own invariants, and keep up with each other. *)
THEOREM Invariance == Spec => []IInv
BY InvariantAtStart, InvariantStep, PTL DEF Spec

-----------------------------------------------------------------------------
(* What follows.                                                           *)

(* The safety of LoopSpec: with record_extraction behind it the loop does  *)
(* nothing that ServeStdio does not do, so that what StdioProofs says of   *)
(* answers, frames and endings holds of the whole.                         *)
THEOREM LoopIsStdio == Spec => Server!Spec
<1>1. Init => Server!Init
  BY DEF Init
<1>2. IInv /\ [Next]_vars => [Server!Next]_(Server!vars)
  BY IsLoopStep
<1> QED  BY <1>1, <1>2, Invariance, PTL DEF Spec, Server!Spec

(* The tool does nothing that recordExtraction does not do, so that what   *)
(* BrewLogProofs says of rows and calls holds of the whole.                *)
THEOREM ToolIsBrewLog == Spec => Log!Spec
<1>1. Init => Log!Init
  BY DEF Init
<1>2. IInv /\ [Next]_vars => [Log!Next]_(Log!vars)
  BY IsToolStep
<1> QED  BY <1>1, <1>2, Invariance, PTL DEF Spec, Log!Spec

(* The table changes by the tool's insert only. *)
LEMMA OnlyInsert ==
  ASSUME IInv, [Next]_vars
  PROVE  \/ log' = log
         \/ /\ Log!Insert(Process) /\ UNCHANGED serverVars
            /\ pc = "tool" /\ step[Process] = "insert"
<1>1. CASE ToolStep
  <2>1. CASE Log!Insert(Process)
    BY <1>1, <2>1, ToolWorks DEF Log!Insert
  <2>2. CASE ~Log!Insert(Process)
    BY <1>1, <2>2 DEF ToolStep, Log!LookUp, Log!Stamp, Log!Execute, Log!ReadBack
  <2> QED  BY <2>1, <2>2
<1>2. CASE FinishTool \/ StartTool
  BY <1>2, ToolEnds, ToolStarts
<1>3. CASE LoopStep \/ StreamFails
  BY <1>3, LoopWorks DEF logVars
<1>4. CASE Signal
  BY <1>4, SignalWorks
<1>5. CASE (\E f \in Frames : Send(f)) \/ Close \/ TakeAnswer \/ Tick \/ UNCHANGED vars
  BY <1>5, OthersWork
<1> QED  BY <1>1, <1>2, <1>3, <1>4, <1>5 DEF Next, Progress

-----------------------------------------------------------------------------
(* The book on the wire.                                                   *)

(* An insert books the frame that the loop is at work on, and nothing else *)
(* books or forgets one.                                                   *)
LEMMA RecordStep ==
  ASSUME IInv, [Next]_vars
  PROVE  \/ OnRecord' = OnRecord
         \/ /\ OnRecord' = OnRecord \cup {read}
            /\ read \in 1 .. MaxFrames /\ read \notin OnRecord
            /\ Inserting(read) /\ UNCHANGED serverVars
<1> DEFINE F(c) == NthOf(ran, c)
<1>1. /\ OnRecord  = { NthOf(ran, log[i].call) : i \in DOMAIN log }
      /\ OnRecord' = { NthOf(ran', log'[i].call) : i \in DOMAIN log' }
  BY DEF OnRecord, FrameOf, NthOf, Position
<1>2. LP!TypeOK /\ LP!Turns /\ LP!Booked /\ Process \in {Process}
  BY DEF IInv, LP!IInv
<1>3. \A i \in DOMAIN log : log[i].call \in 1 .. Len(calls)
  BY <1>2, PartsAssumed, LP!RowsOfCalls
<1>4. \A c \in 1 .. Len(calls) : NthOf(ran', c) = F(c)
  <2>1. \A c \in 1 .. Len(calls) : FrameOf(c)' = FrameOf(c)
    BY FrameStays
  <2> QED  BY <2>1 DEF FrameOf, NthOf, Position
<1> HIDE DEF F
<1>5. CASE log' = log
  <2>1. \A i \in DOMAIN log : NthOf(ran', log'[i].call) = NthOf(ran, log[i].call)
    BY <1>3, <1>4, <1>5 DEF F
  <2> QED  BY <1>1, <1>5, <2>1
<1>6. CASE /\ Log!Insert(Process) /\ UNCHANGED serverVars
           /\ pc = "tool" /\ step[Process] = "insert"
  <2> DEFINE last == Len(log) + 1
  <2>1. /\ \A i \in DOMAIN log : i \in DOMAIN log' /\ log'[i] = log[i]
        /\ \A i \in DOMAIN log' : i \in DOMAIN log \/ i = last
        /\ last \in DOMAIN log' /\ log'[last].call = call[Process]
    <3>1. LP!Insert(Process)
      BY <1>6, SameTool
    <3>2. /\ DOMAIN log' = 1 .. Len(log) + 1
          /\ \A i \in DOMAIN log : i \in DOMAIN log' /\ log'[i] = log[i]
          /\ \A i \in DOMAIN log' : i \in DOMAIN log \/ i = last
          /\ log'[last].call = call[Process]
      BY <1>2, <3>1, PartsAssumed, LP!RowInserted
    <3>3. Len(log) \in Nat
      BY <1>2 DEF LP!TypeOK
    <3> QED  BY <3>2, <3>3
  <2>2. /\ call[Process] = Len(calls) /\ Len(calls) \in 1 .. Len(calls)
        /\ \A i \in DOMAIN log : log[i].call # Len(calls)
    <3>1. call[Process] = Len(calls)
      BY <1>6 DEF IInv, Coupled
    <3>2. call[Process] \in 1 .. Len(calls)
      BY <1>2, <1>6, PartsAssumed, LP!CallInWork
    <3>3. \A i \in DOMAIN log : log[i].call # call[Process]
      BY <1>2, <1>6 DEF LP!Booked
    <3> QED  BY <3>1, <3>2, <3>3
  <2>3. read \in ran
    BY <1>6 DEF IInv, SP!IInv, SP!Turns
  <2>4. /\ F(Len(calls)) = read /\ read \in 1 .. MaxFrames
        /\ \A c \in 1 .. Len(calls) : Position(ran, F(c)) = c
    <3>1. \A c : FrameOf(c) = F(c)
      BY DEF F, FrameOf, NthOf, Position
    <3> QED  BY <2>2, <2>3, <3>1, FrameOfCall
  <2>5. /\ \A i \in DOMAIN log : NthOf(ran', log'[i].call) = F(log[i].call)
        /\ NthOf(ran', log'[last].call) = read
    BY <1>3, <1>4, <2>1, <2>2, <2>4
  <2> HIDE DEF last
  <2>6. OnRecord' = OnRecord \cup {read}
    BY <1>1, <2>1, <2>5 DEF F
  <2>7. read \notin OnRecord
    <3>1. \A i \in DOMAIN log : F(log[i].call) # read
      BY <1>3, <2>2, <2>4
    <3> QED  BY <1>1, <3>1 DEF F
  <2> QED  BY <1>6, <2>4, <2>6, <2>7 DEF Inserting
<1> QED  BY <1>5, <1>6, OnlyInsert

(* A write of an answer that does not say isError tells of a booked frame  *)
(* that was not told of before.                                            *)
LEMMA ToldStep ==
  ASSUME IInv, [Next]_vars
  PROVE  \/ Told' = Told
         \/ /\ Told' = Told \cup {read}
            /\ read \in 1 .. MaxFrames /\ read \in OnRecord /\ read \notin Told
            /\ pc = "write" /\ response.kind = "tool-output"
<1>1. SP!TypeOK /\ SP!Turns
  BY DEF IInv, SP!IInv
<1>2. CASE wire' = wire
  BY <1>2 DEF Told
<1>3. CASE SP!WriteAnswer
  <2> DEFINE last == Len(wire) + 1
  <2>1. /\ pc = "write" /\ wire' = Append(wire, response)
        /\ wire \in Seq(SP!Answers) /\ response \in SP!Answers
        /\ response.frame = read /\ SP!Fits(response)
        /\ \A i \in DOMAIN wire : wire[i].frame # read
    <3>1. pc = "write" /\ wire' = Append(wire, response) /\ wire \in Seq(SP!Answers)
      BY <1>1, <1>3 DEF SP!WriteAnswer, SP!TypeOK
    <3>2. response \in SP!Answers /\ response.frame = read /\ SP!Fits(response)
      BY <1>1, <3>1 DEF SP!Turns
    <3>3. ASSUME NEW i \in DOMAIN wire
          PROVE  wire[i].frame # read
      <4>1. SP!Busy
        BY <3>1 DEF SP!Busy
      <4>2. wire[i].frame < read
        BY <1>1, <4>1 DEF SP!Turns
      <4>3. wire[i].frame \in 1 .. read
        BY <1>1, PartsAssumed, SP!WireOfSent
      <4> QED  BY <4>2, <4>3, Typed
    <3> QED  BY <3>1, <3>2, <3>3
  <2>2. /\ \A i \in DOMAIN wire : i \in DOMAIN wire' /\ wire'[i] = wire[i]
        /\ \A i \in DOMAIN wire' : i \in DOMAIN wire \/ i = last
        /\ last \in DOMAIN wire' /\ wire'[last] = response
    <3>1. DOMAIN wire = 1 .. Len(wire) /\ DOMAIN wire' = 1 .. last /\ Len(wire) \in Nat
      BY <2>1
    <3>2. \A i \in DOMAIN wire : wire'[i] = wire[i]
      BY <2>1
    <3>3. wire'[last] = response
      BY <2>1
    <3> QED  BY <3>1, <3>2, <3>3
  <2> HIDE DEF last
  <2>3. CASE response.kind # "tool-output"
    BY <2>2, <2>3 DEF Told
  <2>4. CASE response.kind = "tool-output"
    <3>1. Told' = Told \cup {read}
      BY <2>1, <2>2, <2>4 DEF Told
    <3>2. read \notin Told
      BY <2>1 DEF Told
    <3>3. read \in ran
      BY <2>1, <2>4 DEF SP!Fits, SP!ToolKinds
    <3>4. FrameOf(Len(calls)) = read
      BY <3>3, FrameOfCall
    <3>5. \E i \in DOMAIN log : log[i].call = Len(calls)
      BY <2>1, <2>4 DEF IInv, Backed
    <3>6. read \in OnRecord
      BY <3>4, <3>5 DEF OnRecord
    <3>7. read \in 1 .. MaxFrames
      BY <3>3, Typed, PartsAssumption DEF IInv, Coupled, Server!BoundsAssumption
    <3> QED  BY <2>1, <2>4, <3>1, <3>2, <3>6, <3>7
  <2> QED  BY <2>3, <2>4
<1>4. [SP!Next]_SP!vars
  BY IsLoopStep, SameLoop
<1> QED  BY <1>1, <1>2, <1>3, <1>4, PartsAssumed, SP!WireStep

(* What the client can read is the book of Ledger: an answer on the wire   *)
(* that does not say isError is of a brew that is on record, once, under   *)
(* the frame that it answers.                                              *)
THEOREM ImplementsWireLedger == Spec => WireLedger
<1>1. Init => Wire!Init
  <2> SUFFICES ASSUME Init PROVE Wire!Init
    OBVIOUS
  <2>1. DOMAIN wire = {} /\ DOMAIN log = {}
    BY EmptySeq DEF Init, Server!Init, Log!Init
  <2> QED  BY <2>1 DEF Wire!Init, OnRecord, Told
<1>2. IInv /\ [Next]_vars => [Wire!Next]_(Wire!ledgerVars)
  <2> SUFFICES ASSUME IInv, [Next]_vars
               PROVE  [Wire!Next]_(Wire!ledgerVars)
    OBVIOUS
  <2>1. CASE OnRecord' # OnRecord
    <3>1. PICK n \in 1 .. MaxFrames :
            OnRecord' = OnRecord \cup {n} /\ n \notin OnRecord /\ UNCHANGED serverVars
      BY <2>1, RecordStep
    <3>2. Told' = Told
      BY <3>1 DEF serverVars, Told
    <3>3. Wire!Book(n)
      BY <3>1, <3>2 DEF Wire!Book, OnRecord, Told
    <3> QED  BY <3>3 DEF Wire!Next
  <2>2. CASE OnRecord' = OnRecord /\ Told' # Told
    <3>1. PICK n \in 1 .. MaxFrames : Told' = Told \cup {n} /\ n \in OnRecord \ Told
      BY <2>2, ToldStep
    <3>2. Wire!Promise(n)
      BY <2>2, <3>1 DEF Wire!Promise, OnRecord, Told
    <3> QED  BY <3>2 DEF Wire!Next
  <2>3. CASE OnRecord' = OnRecord /\ Told' = Told
    BY <2>3 DEF Wire!ledgerVars, OnRecord, Told
  <2> QED  BY <2>1, <2>2, <2>3
<1> QED  BY <1>1, <1>2, Invariance, PTL DEF Spec, WireLedger, Wire!Spec

-----------------------------------------------------------------------------
(* What a signal cuts off.                                                 *)

(* Nobody is told of a frame that is not on record. *)
LEMMA ToldIsBooked == Spec => [](Told \subseteq OnRecord)
<1>1. Init => Told \subseteq OnRecord
  BY EmptySeq DEF Init, Server!Init, Log!Init, Told, OnRecord
<1>2. IInv /\ Told \subseteq OnRecord /\ [Next]_vars => (Told \subseteq OnRecord)'
  <2> SUFFICES ASSUME IInv, Told \subseteq OnRecord, [Next]_vars
               PROVE  Told' \subseteq OnRecord'
    OBVIOUS
  <2>1. OnRecord \subseteq OnRecord'
    BY RecordStep
  <2>2. Told' \subseteq OnRecord
    BY ToldStep
  <2> QED  BY <2>1, <2>2
<1> QED  BY <1>1, <1>2, Invariance, PTL DEF Spec

(* After the signal frame n is not on record and not about to be. *)
Cut(n) == cancelled /\ n \notin OnRecord /\ ~Inserting(n)

(* After the signal nobody was told of frame n, nor is about to be. *)
Untold(n) ==
  /\ cancelled /\ n \notin Told
  /\ n = read => /\ ~(pc = "write" /\ response.kind = "tool-output")
                 /\ step[Process] # "answer"

(* A signal stays. *)
LEMMA SignalStays ==
  ASSUME IInv, [Next]_vars, cancelled
  PROVE  cancelled'
<1>1. CASE FinishTool
  BY <1>1 DEF FinishTool
<1>2. CASE StartTool
  BY <1>2 DEF StartTool, Server!StartTool
<1>3. CASE ToolStep
  BY <1>3 DEF ToolStep, serverVars
<1>4. CASE LoopStep \/ StreamFails
  BY <1>4, LoopWorks
<1>5. CASE Signal
  BY <1>5, SignalWorks
<1>6. CASE (\E f \in Frames : Send(f)) \/ Close \/ TakeAnswer \/ Tick \/ UNCHANGED vars
  BY <1>6, OthersWork
<1> QED  BY <1>1, <1>2, <1>3, <1>4, <1>5, <1>6 DEF Next, Progress

(* On a cancelled context no INSERT begins and no history is read back.    *)
LEMMA NothingBegins ==
  ASSUME IInv, [Next]_vars, cancelled, step'[Process] \in {"insert", "answer"}
  PROVE  step'[Process] = step[Process] /\ read' = read
<1>1. CASE FinishTool
  BY <1>1, ToolEnds
<1>2. CASE StartTool
  BY <1>2, ToolStarts
<1>3. CASE ToolStep
  <2>1. context[Process] /\ UNCHANGED serverVars
    BY <1>3, ToolWorks DEF IInv, Coupled
  <2>2. FALSE
    BY <1>3, <2>1, Typed
       DEF ToolStep, Log!LookUp, Log!Stamp, Log!Execute, Log!Insert, Log!ReadBack, Log!Goto
  <2> QED  BY <2>2
<1>4. CASE LoopStep \/ StreamFails
  BY <1>4, LoopWorks DEF logVars, IInv, Coupled
<1>5. CASE Signal
  BY <1>5, SignalWorks
<1>6. CASE (\E f \in Frames : Send(f)) \/ Close \/ TakeAnswer \/ Tick \/ UNCHANGED vars
  BY <1>6, OthersWork
<1> QED  BY <1>1, <1>2, <1>3, <1>4, <1>5, <1>6 DEF Next, Progress

LEMMA CutStays ==
  ASSUME IInv, [Next]_vars, NEW n \in 1 .. MaxFrames, Cut(n)
  PROVE  Cut(n)'
<1>1. cancelled'
  BY SignalStays DEF Cut
<1>2. n \notin OnRecord'
  BY RecordStep DEF Cut
<1>3. ~Inserting(n)'
  BY NothingBegins DEF Cut, Inserting
<1> QED  BY <1>1, <1>2, <1>3 DEF Cut

LEMMA UntoldStays ==
  ASSUME IInv, [Next]_vars, NEW n \in 1 .. MaxFrames, Untold(n)
  PROVE  Untold(n)'
<1>1. cancelled'
  BY SignalStays DEF Untold
<1>2. n \notin Told'
  BY ToldStep DEF Untold
<1>3. ASSUME n = read', step'[Process] = "answer"
      PROVE  FALSE
  BY <1>3, NothingBegins DEF Untold
<1>4. ASSUME n = read', pc' = "write", response'.kind = "tool-output"
      PROVE  FALSE
  BY <1>4, TextOnItsWay DEF Untold
<1> QED  BY <1>1, <1>2, <1>3, <1>4 DEF Untold

(* A frame that is not on record when the signal is there is not told of,  *)
(* and not about to be.                                                    *)
LEMMA UnrecordedIsUntold ==
  ASSUME IInv, Told \subseteq OnRecord, NEW n, cancelled, n \notin OnRecord
  PROVE  Untold(n)
<1>1. ASSUME n = read, \/ pc = "write" /\ response.kind = "tool-output"
                       \/ step[Process] = "answer"
      PROVE  FALSE
  <2>1. SP!Turns
    BY DEF IInv, SP!IInv
  <2>2. read \in ran
    <3>1. CASE pc = "write" /\ response.kind = "tool-output"
      BY <2>1, <3>1 DEF SP!Turns, SP!Fits, SP!ToolKinds
    <3>2. CASE step[Process] = "answer"
      BY <2>1, <3>2 DEF SP!Turns, IInv, Coupled
    <3> QED  BY <1>1, <3>1, <3>2
  <2>3. FrameOf(Len(calls)) = read
    BY <2>2, FrameOfCall
  <2>4. \E i \in DOMAIN log : log[i].call = Len(calls)
    BY <1>1, ReadBackIsBooked DEF IInv, Backed
  <2> QED  BY <1>1, <2>3, <2>4 DEF OnRecord
<1> QED  BY <1>1 DEF Untold

(* After SIGINT or SIGTERM no recording begins: the tool that is at work   *)
(* and the one that a blocked read still lets in meet the signal in their  *)
(* next call of the store, so that a row can only come of an INSERT that   *)
(* was running, and not even that one is told of (recordExtraction,        *)
(* RecordExtraction).                                                      *)
THEOREM SignalEndsRecording == Spec => RecordingEndsWithSignal
<1>1. ASSUME NEW n \in 1 .. MaxFrames
      PROVE  Spec =>
               /\ [](cancelled /\ n \notin OnRecord /\ ~Inserting(n) => [](n \notin OnRecord))
               /\ [](cancelled /\ n \notin OnRecord => [](n \notin Told))
  <2>1. IInv /\ [Next]_vars /\ Cut(n) => Cut(n)'
    BY CutStays
  <2>2. IInv /\ [Next]_vars /\ Untold(n) => Untold(n)'
    BY UntoldStays
  <2>3. /\ cancelled /\ n \notin OnRecord /\ ~Inserting(n) => Cut(n)
        /\ Cut(n) => n \notin OnRecord
        /\ Untold(n) => n \notin Told
    BY DEF Cut, Untold
  <2>4. IInv /\ Told \subseteq OnRecord => (cancelled /\ n \notin OnRecord => Untold(n))
    BY UnrecordedIsUntold
  <2> QED  BY <2>1, <2>2, <2>3, <2>4, Invariance, ToldIsBooked, PTL DEF Spec
<1> QED  BY <1>1 DEF RecordingEndsWithSignal
=============================================================================
