------------------------------- MODULE Scale --------------------------------
(***************************************************************************)
(* Working a recipe out for an amount: ScaleToWater, ScaleToDose, scale    *)
(* and buildPours in recipe.go, as operators in tenths of a gram.          *)
(*                                                                         *)
(* Half a tenth is where float64 and exact arithmetic may part: round1 is  *)
(* the set of the nearest tenths, which are two when the quotient lies in  *)
(* the middle.  A recipe's ratio and bloom are tenths of a gram of water   *)
(* per gram of coffee; bloom 0 stands for a method without one.            *)
(***************************************************************************)
EXTENDS Diagnose, Sequences

(* The integers nearest to num / den, for num >= 0 and den > 0. *)
Nearest(num, den) ==
  { n \in {num \div den, num \div den + 1} : 2 * Magnitude(n * den - num) <= den }

Pour(grams, at, total) == [grams |-> grams, at |-> at, total |-> total]

(* A plausible slip: the last pour does not take up what rounding left. *)
buildPoursEven(bloom, total, bloomSeconds) ==
  IF total <= bloom THEN { <<Pour(bloom, 0, bloom)>> }
  ELSE { << Pour(bloom, 0, bloom),
            Pour(half, bloomSeconds, bloom + half),
            Pour(half, bloomSeconds + 30, total) >>
         : half \in Nearest(total - bloom, 2) }

buildPours(bloom, total, bloomSeconds) ==
  IF total <= bloom THEN { <<Pour(bloom, 0, bloom)>> }
  ELSE { << Pour(bloom, 0, bloom),
            Pour(half, bloomSeconds, bloom + half),
            Pour(total - bloom - half, bloomSeconds + 30, total) >>
         : half \in Nearest(total - bloom, 2) }

(* The cards for a dose of dose / den tenths.  The bloom is rounded from   *)
(* the dose as it was worked out, not from the one on the card.            *)
scale(recipe, dose, water, den) ==
  LET Blooms == IF recipe.bloom > 0 THEN Nearest(dose * recipe.bloom, 10 * den) ELSE {0}
      Pours(bloom, w) ==
        IF recipe.bloom > 0 THEN buildPours(bloom, w, recipe.bloomSeconds) ELSE { <<>> }
  IN  UNION { { [dose |-> d, water |-> w, bloom |-> b, pours |-> pours]
                : d \in Nearest(dose, den), pours \in Pours(b, w) }
              : b \in Blooms, w \in Nearest(water, den) }

(* A plausible slip: the dose is worked out in whole grams of water per    *)
(* gram of coffee.                                                         *)
ScaleToWaterWholeRatio(recipe, water) ==
  LET ratio == 10 * (recipe.ratio \div 10)
  IN  IF ratio <= 0 THEN {} ELSE scale(recipe, 10 * water, water * ratio, ratio)

(* dose = water / ratio, on the common denominator ratio.  There is no     *)
(* card of a recipe without a usable ratio.                                *)
ScaleToWater(recipe, water) ==
  IF recipe.ratio <= 0 THEN {}
  ELSE scale(recipe, 10 * water, water * recipe.ratio, recipe.ratio)

(* water = dose * ratio. *)
ScaleToDose(recipe, dose) ==
  IF recipe.ratio <= 0 THEN {} ELSE scale(recipe, 10 * dose, dose * recipe.ratio, 10)

(* Card prints the water in whole grams. *)
PrintedWater(card) == { 10 * grams : grams \in Nearest(card.water, 10) }
=============================================================================
