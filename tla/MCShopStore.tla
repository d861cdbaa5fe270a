---------------------------- MODULE MCShopStore ----------------------------
(***************************************************************************)
(* Small instances of ShopStore for TLC: a catalogue of three rows that    *)
(* keeps what matters about the real one (two tables, a row that looks up  *)
(* the others), and the real catalogue of SeedData.                        *)
(***************************************************************************)
EXTENDS ShopStore, SeedData, TLC

SmallSchema == SubSeq(SchemaObjects, 1, 2)

SmallSeed == <<CoffeeRow("Guji"), MethodRow("V60"), RecipeRow("Guji", "V60")>>

ProcSymmetry == Permutations(Procs)
=============================================================================
