----------------------------- MODULE MCBrewLog -----------------------------
(***************************************************************************)
(* Small instances of BrewLog for TLC: two pairings that share a coffee,   *)
(* and a brew that a check of its arguments refuses.                       *)
(***************************************************************************)
EXTENDS BrewLog, TLC

Brew(id, coffee, method, measured, rating) ==
  [id |-> id, coffee |-> coffee, method |-> method,
   measured |-> measured, rating |-> rating]

GoodBrews ==
  { Brew(1, "Guji", "V60", TRUE, 0), Brew(2, "Guji", "V60", TRUE, 10),
    Brew(3, "Guji", "Chemex", TRUE, 7) }

SomeBrews == GoodBrews \cup { Brew(4, "Guji", "V60", TRUE, 11) }

ProcSymmetry == Permutations(Procs)
=============================================================================
