------------------------------ MODULE Diagnose ------------------------------
(***************************************************************************)
(* Comparing a brew with its recipe: Diagnose and what it calls in         *)
(* diagnose.go, as operators.                                              *)
(*                                                                         *)
(* Weights are tenths of a gram, ratios tenths of a gram of water per gram *)
(* of coffee, temperatures tenths of a degree, TDS hundredths of a percent *)
(* and the yield tenths of a percent, all integers; a quotient is compared *)
(* by cross-multiplication.  The code's float64 agrees with this except    *)
(* where a ratio is off by exactly a band's edge.  Zero stands for "not    *)
(* recorded" as it does in the code.                                       *)
(***************************************************************************)
EXTENDS Integers

Kinds     == {"pour-over", "immersion", "pressure"}
Rests     == {"too-fresh", "resting", "peak", "fading", "stale", "unknown"}
Severities == {"on-target", "minor", "major"}
Variables == {"extraction-time", "ratio", "water-temperature"}

Magnitude(n) == IF n < 0 THEN -n ELSE n

(* A finding that was not appended: a side of the comparison is missing. *)
NoFinding == [severity |-> "none", side |-> "none"]

-----------------------------------------------------------------------------
(* Bands.                                                                  *)

rank == [s \in Severities |->
           CASE s = "major" -> 2 [] s = "minor" -> 1 [] s = "on-target" -> 0]

(* A plausible slip: the band alone decides. *)
atLeastBand(got, floor) == got

atLeast(got, floor) == IF rank[got] >= rank[floor] THEN got ELSE floor

(* band(num / den), for den > 0. *)
band(num, den) ==
  CASE 10 * num < den                  -> "on-target"
    [] 10 * num >= den /\ 4 * num < den -> "minor"
    [] 10 * num >= den /\ 4 * num >= den -> "major"

-----------------------------------------------------------------------------
(* The three findings.  The side is the direction that Deviation names.    *)

Timing(recipe, actual) ==
  LET window == recipe.min + recipe.max
      Grade(miss) == atLeast(band(2 * miss, window), "minor")
  IN  IF (recipe.min = 0 /\ recipe.max = 0) \/ actual.seconds <= 0 THEN NoFinding
      ELSE IF actual.seconds < recipe.min
        THEN [severity |-> Grade(recipe.min - actual.seconds), side |-> "fast"]
      ELSE IF actual.seconds > recipe.max
        THEN [severity |-> Grade(actual.seconds - recipe.max), side |-> "slow"]
      ELSE [severity |-> "on-target", side |-> "within-window"]

(* Extraction.Ratio as a fraction: 10 * water / dose tenths. *)
Ratio(recipe, actual) ==
  IF actual.dose <= 0 \/ actual.water <= 0 \/ recipe.ratio <= 0 THEN NoFinding
  ELSE LET asked == recipe.ratio * actual.dose
           drift == 10 * actual.water - asked
           s     == band(Magnitude(drift), asked)
       IN  [severity |-> s,
            side     |-> IF s = "on-target" THEN "as-written"
                         ELSE IF drift > 0 THEN "weaker" ELSE "stronger"]

Temperature(recipe, actual) ==
  LET delta == actual.temp - recipe.temp IN
  IF recipe.temp <= 0 \/ actual.temp <= 0 THEN NoFinding
  ELSE [severity |-> CASE Magnitude(delta) < 10                            -> "on-target"
                       [] Magnitude(delta) >= 10 /\ Magnitude(delta) <= 30 -> "minor"
                       [] Magnitude(delta) > 30                            -> "major",
        side     |-> IF Magnitude(delta) < 10 THEN "as-written"
                     ELSE IF delta > 0 THEN "hot" ELSE "cold"]

Findings(recipe, actual) ==
  [v \in Variables |->
     CASE v = "extraction-time"   -> Timing(recipe, actual)
       [] v = "ratio"             -> Ratio(recipe, actual)
       [] v = "water-temperature" -> Temperature(recipe, actual)]

IsOff(finding) == finding.severity \in {"minor", "major"}

-----------------------------------------------------------------------------
(* decide: the one change to make, and what to watch.                      *)

NoChange == [lever |-> "none", direction |-> "none", steps |-> 0]

Change(lever, direction, steps) ==
  [lever |-> lever, direction |-> direction, steps |-> steps]

(* A plausible slip: the grind is turned the wrong way. *)
grindAdjustmentReversed(kind, timing) ==
  Change("grind", IF timing.side = "fast" THEN "coarser" ELSE "finer",
         IF kind # "immersion" /\ timing.severity = "major" THEN 2 ELSE 1)

(* The size of the step is one or two (on a pressure method "a small" or   *)
(* "a noticeable" step); an immersion is told to hold its time instead.    *)
grindAdjustment(kind, timing) ==
  Change("grind", IF timing.side = "fast" THEN "finer" ELSE "coarser",
         IF kind # "immersion" /\ timing.severity = "major" THEN 2 ELSE 1)

Primary(kind, f) ==
  IF f["ratio"].severity = "major" THEN Change("ratio", "as-written", 1)
  ELSE IF IsOff(f["extraction-time"]) THEN grindAdjustment(kind, f["extraction-time"])
  ELSE IF IsOff(f["water-temperature"])
    THEN Change("temperature",
                IF f["water-temperature"].side = "hot" THEN "lower" ELSE "raise", 1)
  ELSE NoChange

(* A plausible slip: a change of the grind watches the temperature only. *)
WatchLess(kind, f, rest) ==
  CASE Primary(kind, f).lever = "ratio" ->
         { v \in {"extraction-time", "water-temperature"} : IsOff(f[v]) }
    [] Primary(kind, f).lever = "grind" ->
         { v \in {"water-temperature"} : f[v].severity = "minor" }
    [] Primary(kind, f).lever = "temperature" -> { v \in {"ratio"} : IsOff(f[v]) }
    [] Primary(kind, f).lever = "none" ->
         IF rest \in {"too-fresh", "stale"} THEN {"rest"} ELSE {}

(* watchOthers is called with the findings that the chosen lever is not    *)
(* about; with nothing to change, a coffee out of its rest is remarked on. *)
Watch(kind, f, rest) ==
  CASE Primary(kind, f).lever = "ratio" ->
         { v \in {"extraction-time", "water-temperature"} : IsOff(f[v]) }
    [] Primary(kind, f).lever = "grind" ->
         { v \in {"ratio", "water-temperature"} : IsOff(f[v]) }
    [] Primary(kind, f).lever = "temperature" -> { v \in {"ratio"} : IsOff(f[v]) }
    [] Primary(kind, f).lever = "none" ->
         IF rest \in {"too-fresh", "stale"} THEN {"rest"} ELSE {}

-----------------------------------------------------------------------------
(* extractionYield.                                                        *)

absorptionPerGram == 2

(* round1 of num / den in tenths, for num, den > 0. *)
Rounded(num, den) == (2 * num + den) \div (2 * den)

(* 0 means that no yield is reported. *)
ExtractionYield(actual) ==
  LET beverage == actual.water - actual.dose * absorptionPerGram IN
  IF actual.tds > 0 /\ actual.dose > 0 /\ beverage > 0
    THEN Rounded(actual.tds * beverage, 10 * actual.dose)
    ELSE 0

diagnosis(recipe, kind, actual, rest) ==
  LET f == Findings(recipe, actual) IN
  [findings |-> f,
   primary  |-> Primary(kind, f),
   watch    |-> Watch(kind, f, rest),
   yield    |-> ExtractionYield(actual)]

(* The variable that a lever is pulled for. *)
VariableOf == [ratio |-> "ratio", grind |-> "extraction-time",
               temperature |-> "water-temperature", none |-> "none"]
=============================================================================
