----------------------------- MODULE MCBrewOps ------------------------------
(***************************************************************************)
(* A small instance of BrewOps for TLC: calls for brews of two pairings,   *)
(* a call that the tool refuses, one that nobody waits for, and a frame    *)
(* that runs no tool.                                                      *)
(***************************************************************************)
EXTENDS BrewOps, TLC

Frame(shape, id, method, params) ==
  [shape |-> shape, id |-> id, method |-> method, params |-> params]

Call(id) == Frame("message", id, "tools/call", "known-tool")

SomeFrames ==
  { Call("a"), Call("b"), Call("c"), Call(NoId),
    Frame("unreadable", NoId, "absent", "malformed") }

Brew(id, coffee, method, measured, rating) ==
  [id |-> id, coffee |-> coffee, method |-> method,
   measured |-> measured, rating |-> rating]

SomeAsked ==
  "a" :> Brew(1, "Guji", "V60", TRUE, 0) @@
  "b" :> Brew(2, "Guji", "Chemex", TRUE, 10) @@
  "c" :> Brew(3, "Kona", "V60", TRUE, 5)
=============================================================================
