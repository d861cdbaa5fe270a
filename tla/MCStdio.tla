------------------------------ MODULE MCStdio ------------------------------
(***************************************************************************)
(* Small instances of Stdio for TLC: one frame for every path through      *)
(* handleFrame, Handle and callTool.                                       *)
(***************************************************************************)
EXTENDS Stdio, TLC

Frame(shape, id, method, params) ==
  [shape |-> shape, id |-> id, method |-> method, params |-> params]

Blank          == Frame("blank", NoId, "absent", "malformed")
Initialize     == Frame("message", "a", "initialize", "malformed")
UnknownMethod  == Frame("message", "b", "other", "malformed")
Reply          == Frame("message", "b", "absent", "malformed")
UnknownTool    == Frame("message", "b", "tools/call", "unknown-tool")
Call           == Frame("message", "a", "tools/call", "known-tool")
SilentCall     == Frame("message", NoId, "tools/call", "known-tool")

(* A field of the wrong type, as in {"id": 1, "method": 5}: json.Unmarshal *)
(* refuses the frame although it has an id.                                *)
Misshapen      == Frame("unreadable", "b", "absent", "malformed")

(* Skipped; unreadable; ignored, as a response and as a call without an    *)
(* id; answered; refused, for its method and for its tool; run.            *)
SomeFrames ==
  {Blank, Misshapen, Reply, SilentCall, Initialize, UnknownMethod, UnknownTool, Call}
=============================================================================
