----------------------------- MODULE ToolProofs -----------------------------
(***************************************************************************)
(* What the operators behind the tools yield for every recipe and amount,  *)
(* every pair of batches and every name.                                   *)
(***************************************************************************)
EXTENDS Scale, Roast, RestProofs, Lookup, FiniteSetTheorems, SequenceTheorems

-----------------------------------------------------------------------------
(* Arithmetic.                                                             *)

LEMMA ProductOrder ==
  ASSUME NEW a \in Int, NEW b \in Int, NEW c \in Nat, a <= b
  PROVE  a * c <= b * c
<1>1. b - a \in Nat
  OBVIOUS
<1>2. (b - a) * c \in Nat
  BY <1>1, SMT
<1>3. (b - a) * c = b * c - a * c
  BY SMT
<1>4. a * c \in Int /\ b * c \in Int
  BY SMT
<1>5. QED  BY <1>2, <1>3, <1>4, SMT

LEMMA QuotientBounds ==
  ASSUME NEW num \in Int, NEW den \in Nat \ {0}
  PROVE  /\ num \div den \in Int
         /\ (num \div den) * den <= num
         /\ num < (num \div den) * den + den
BY SMT

LEMMA MagnitudeIs ==
  ASSUME NEW n \in Int
  PROVE  Magnitude(n) \in Nat /\ Magnitude(n) \in {n, -n} /\ Magnitude(-n) = Magnitude(n)
BY SMT DEF Magnitude

(* What round1 yields is a whole number of tenths, at most half a tenth    *)
(* away from the quotient.                                                 *)
LEMMA NearestIsNear ==
  ASSUME NEW num \in Int, NEW den \in Nat \ {0}, NEW n \in Nearest(num, den)
  PROVE  /\ n \in Int
         /\ n * den \in Int
         /\ 2 * (n * den) - 2 * num <= den
         /\ 2 * num - 2 * (n * den) <= den
<1>1. n \in {num \div den, num \div den + 1} /\ 2 * Magnitude(n * den - num) <= den
  BY DEF Nearest
<1>2. n \in Int
  BY <1>1, QuotientBounds
<1>3. n * den \in Int
  BY <1>2, SMT
<1> DEFINE m == n * den
<1>4. m \in Int /\ 2 * Magnitude(m - num) <= den
  BY <1>1, <1>3
<1> HIDE DEF m
<1>5. 2 * m - 2 * num <= den /\ 2 * num - 2 * m <= den
  BY <1>4, SMT DEF Magnitude
<1>6. QED  BY <1>2, <1>3, <1>5 DEF m

LEMMA NearestOfNat ==
  ASSUME NEW num \in Nat, NEW den \in Nat \ {0}, NEW n \in Nearest(num, den)
  PROVE  n \in Nat
<1>1. n \in Int /\ n * den \in Int /\ 2 * num - 2 * (n * den) <= den
  BY NearestIsNear
<1>2. ASSUME n <= -1
      PROVE  FALSE
  <2>1. n * den <= (-1) * den
    BY <1>1, <1>2, ProductOrder
  <2>2. (-1) * den = -den
    BY SMT
  <2>3. QED  BY <1>1, <2>1, <2>2
<1>3. QED  BY <1>1, <1>2

(* An amount that divides evenly is not rounded. *)
LEMMA NearestOfMultiple ==
  ASSUME NEW n \in Int, NEW den \in Nat \ {0}, NEW m \in Nearest(n * den, den)
  PROVE  m = n
<1>1. n * den \in Int
  BY SMT
<1>2. /\ m \in Int
      /\ 2 * (m * den) - 2 * (n * den) <= den
      /\ 2 * (n * den) - 2 * (m * den) <= den
  BY <1>1, NearestIsNear
<1>3. CASE m < n
  <2>1. (m + 1) * den <= n * den
    BY <1>2, <1>3, ProductOrder
  <2>2. (m + 1) * den = m * den + den
    BY <1>2, SMT
  <2>3. m * den \in Int
    BY <1>2, SMT
  <2>4. QED  BY <1>1, <1>2, <2>1, <2>2, <2>3
<1>4. CASE n < m
  <2>1. (n + 1) * den <= m * den
    BY <1>2, <1>4, ProductOrder
  <2>2. (n + 1) * den = n * den + den
    BY SMT
  <2>3. m * den \in Int
    BY <1>2, SMT
  <2>4. QED  BY <1>1, <1>2, <2>1, <2>2, <2>3
<1>5. QED  BY <1>2, <1>3, <1>4

-----------------------------------------------------------------------------
(* Cards.                                                                  *)

IsRecipe(r) ==
  r.ratio \in Nat \ {0} /\ r.bloom \in 0 .. r.ratio - 1 /\ r.bloomSeconds \in Nat

(* The pours that scale and buildPours put on a card: none; a single one,  *)
(* of all the water; or the bloom and two more that take up the rest, of   *)
(* which none takes water out.                                             *)
Poured3(bloom, half, water, seconds) ==
  << Pour(bloom, 0, bloom),
     Pour(half, seconds, bloom + half),
     Pour(water - bloom - half, seconds + 30, water) >>

PoursOf(recipe, card) ==
  /\ card.water \in Nat
  /\ \/ recipe.bloom = 0 /\ card.pours = <<>>
     \/ recipe.bloom > 0 /\ card.pours = << Pour(card.water, 0, card.water) >>
     \/ /\ recipe.bloom > 0
        /\ \E bloom, half \in Nat :
             /\ bloom + half <= card.water
             /\ card.pours = Poured3(bloom, half, card.water, recipe.bloomSeconds)

(* What is on a card, and what it was rounded from. *)
LEMMA ScaledFrom ==
  ASSUME NEW recipe, IsRecipe(recipe), NEW dose, NEW water, NEW den,
         NEW card \in scale(recipe, dose, water, den)
  PROVE  /\ card.dose \in Nearest(dose, den)
         /\ card.water \in Nearest(water, den)
         /\ (recipe.bloom = 0 => card.bloom = 0 /\ card.pours = <<>>)
         /\ recipe.bloom > 0 =>
              /\ card.bloom \in Nearest(dose * recipe.bloom, 10 * den)
              /\ card.pours \in buildPours(card.bloom, card.water, recipe.bloomSeconds)
<1> DEFINE
  Blooms == IF recipe.bloom > 0 THEN Nearest(dose * recipe.bloom, 10 * den) ELSE {0}
  Pours(bloom, w) ==
    IF recipe.bloom > 0 THEN buildPours(bloom, w, recipe.bloomSeconds) ELSE { <<>> }
  OfBloom(b, w) ==
    { [dose |-> d, water |-> w, bloom |-> b, pours |-> pours]
      : d \in Nearest(dose, den), pours \in Pours(b, w) }
<1>1. card \in UNION { OfBloom(b, w) : b \in Blooms, w \in Nearest(water, den) }
  BY DEF scale
<1> HIDE DEF Blooms, OfBloom, Pours
<1>2. PICK b \in Blooms, w \in Nearest(water, den) : card \in OfBloom(b, w)
  BY <1>1
<1>3. PICK d \in Nearest(dose, den), pours \in Pours(b, w) :
        card = [dose |-> d, water |-> w, bloom |-> b, pours |-> pours]
  BY <1>2 DEF OfBloom
<1>4. card.dose = d /\ card.water = w /\ card.bloom = b /\ card.pours = pours
  BY <1>3
<1>5. recipe.bloom = 0 => b = 0 /\ pours = <<>>
  <2>1. recipe.bloom = 0 => ~(recipe.bloom > 0)
    BY SMT
  <2>2. QED  BY <1>2, <1>3, <2>1, Zenon DEF Pours, Blooms
<1>6. recipe.bloom > 0 =>
        b \in Nearest(dose * recipe.bloom, 10 * den)
        /\ pours \in buildPours(b, w, recipe.bloomSeconds)
  BY <1>2, <1>3 DEF Pours, Blooms
<1>7. QED  BY <1>2, <1>3, <1>4, <1>5, <1>6

(* A bloom that takes no more than the water leaves the rest in two pours. *)
LEMMA BuiltPours ==
  ASSUME NEW recipe, IsRecipe(recipe), recipe.bloom > 0, NEW card,
         card.water \in Nat, NEW bloom \in Nat, bloom <= card.water,
         card.pours \in buildPours(bloom, card.water, recipe.bloomSeconds)
  PROVE  PoursOf(recipe, card)
<1>1. CASE card.water <= bloom
  <2>1. bloom = card.water
    BY <1>1
  <2>2. card.pours = << Pour(bloom, 0, bloom) >>
    BY <1>1 DEF buildPours
  <2>3. QED  BY <2>1, <2>2 DEF PoursOf
<1>2. CASE ~(card.water <= bloom)
  <2>1. PICK half \in Nearest(card.water - bloom, 2) :
          card.pours = Poured3(bloom, half, card.water, recipe.bloomSeconds)
    BY <1>2, Zenon DEF buildPours, Poured3
  <2>2. half \in Nat /\ bloom + half <= card.water
    <3>1. card.water - bloom \in Nat \ {0}
      BY <1>2
    <3>2. half \in Nat /\ 2 * (half * 2) - 2 * (card.water - bloom) <= 2
      BY <3>1, NearestIsNear, NearestOfNat
    <3>3. QED  BY <3>1, <3>2
  <2>3. QED  BY <2>1, <2>2 DEF PoursOf
<1>3. QED  BY <1>1, <1>2

(* A card for an amount of water holds that water, and its bloom is a part *)
(* of it.                                                                  *)
LEMMA CardForWater ==
  ASSUME NEW recipe, IsRecipe(recipe), NEW water \in Nat \ {0},
         NEW card \in ScaleToWater(recipe, water)
  PROVE  /\ card.water = water
         /\ card.dose \in Nearest(10 * water, recipe.ratio)
         /\ card.bloom \in Nat
         /\ PoursOf(recipe, card)
<1> DEFINE r == recipe.ratio
           b == recipe.bloom
<1>1. r \in Nat \ {0} /\ b \in Nat /\ b <= r - 1
  BY DEF IsRecipe
<1>2. /\ card.dose \in Nearest(10 * water, r)
      /\ card.water \in Nearest(water * r, r)
      /\ (b = 0 => card.bloom = 0 /\ card.pours = <<>>)
      /\ b > 0 => /\ card.bloom \in Nearest(10 * water * b, 10 * r)
                  /\ card.pours \in buildPours(card.bloom, card.water, recipe.bloomSeconds)
  BY ScaledFrom DEF ScaleToWater
<1>3. card.water = water
  BY <1>1, <1>2, NearestOfMultiple
<1>4. ASSUME b = 0
      PROVE  card.bloom \in Nat /\ PoursOf(recipe, card)
  BY <1>2, <1>3, <1>4 DEF PoursOf
<1>5. ASSUME b > 0
      PROVE  card.bloom \in Nat /\ PoursOf(recipe, card)
  <2>1. PICK bloom \in Nearest(10 * water * b, 10 * r) :
          /\ bloom = card.bloom
          /\ card.pours \in buildPours(bloom, card.water, recipe.bloomSeconds)
    BY <1>2, <1>5
  <2> HIDE DEF r, b
  <2>2. water * b \in Nat /\ 10 * water * b = 10 * (water * b) /\ 10 * r \in Nat \ {0}
    BY <1>1, SMT
  <2>3. /\ bloom \in Nat /\ bloom * (10 * r) \in Int
        /\ 2 * (bloom * (10 * r)) - 20 * (water * b) <= 10 * r
    BY <2>2, NearestIsNear, NearestOfNat
  <2>4. bloom * r \in Int /\ bloom * (10 * r) = 10 * (bloom * r)
    BY <1>1, <2>3, SMT
  <2>5. water * b <= water * r - water
    <3>1. b * water <= (r - 1) * water
      BY <1>1, ProductOrder
    <3>2. (r - 1) * water = water * r - water /\ b * water = water * b
      BY <1>1, SMT
    <3>3. QED  BY <3>1, <3>2
  <2>6. water * r \in Int
    BY <1>1, SMT
  <2>7. ASSUME bloom > water
        PROVE  FALSE
    <3>1. (water + 1) * r <= bloom * r
      BY <1>1, <2>3, <2>7, ProductOrder
    <3>2. (water + 1) * r = water * r + r
      BY <1>1, SMT
    <3>3. QED  BY <1>1, <2>2, <2>3, <2>4, <2>5, <2>6, <3>1, <3>2, SMT
  <2>8. bloom <= water
    BY <2>3, <2>7
  <2>9. card.water \in Nat /\ bloom <= card.water
    BY <1>3, <2>8
  <2>10. recipe.bloom > 0
    BY <1>5 DEF b
  <2>11. QED  BY <2>1, <2>3, <2>9, <2>10, BuiltPours, Zenon
<1>6. QED  BY <1>1, <1>2, <1>3, <1>4, <1>5

LEMMA CardForDose ==
  ASSUME NEW recipe, IsRecipe(recipe), NEW dose \in Nat \ {0},
         NEW card \in ScaleToDose(recipe, dose)
  PROVE  /\ card.dose = dose
         /\ card.water \in Nearest(dose * recipe.ratio, 10)
         /\ card.bloom \in Nat
         /\ PoursOf(recipe, card)
<1> DEFINE r == recipe.ratio
           b == recipe.bloom
<1>1. r \in Nat \ {0} /\ b \in Nat /\ b <= r - 1
  BY DEF IsRecipe
<1>2. /\ card.dose \in Nearest(10 * dose, 10)
      /\ card.water \in Nearest(dose * r, 10)
      /\ (b = 0 => card.bloom = 0 /\ card.pours = <<>>)
      /\ b > 0 => /\ card.bloom \in Nearest(10 * dose * b, 10 * 10)
                  /\ card.pours \in buildPours(card.bloom, card.water, recipe.bloomSeconds)
  BY ScaledFrom DEF ScaleToDose
<1>3. card.dose = dose
  <2>1. 10 * dose = dose * 10
    OBVIOUS
  <2>2. QED  BY <1>2, <2>1, NearestOfMultiple
<1> HIDE DEF r, b
<1>4. dose * r \in Nat /\ dose * b \in Nat /\ 10 * dose * b = 10 * (dose * b)
  BY <1>1, SMT
<1>5. /\ card.water \in Nat
      /\ 2 * (dose * r) - 2 * (card.water * 10) <= 10
  <2>1. PICK w \in Nearest(dose * r, 10) : w = card.water
    BY <1>2
  <2>2. w \in Nat /\ 2 * (dose * r) - 2 * (w * 10) <= 10
    BY <1>4, NearestIsNear, NearestOfNat
  <2>3. QED  BY <2>1, <2>2
<1>6. ASSUME b = 0
      PROVE  card.bloom \in Nat /\ PoursOf(recipe, card)
  <2>1. recipe.bloom = 0 /\ card.bloom = 0 /\ card.pours = <<>>
    BY <1>2, <1>6, Zenon DEF b
  <2>2. card.bloom \in Nat
    BY <2>1
  <2>3. QED  BY <1>5, <2>1, <2>2, Zenon DEF PoursOf
<1>7. ASSUME b > 0
      PROVE  card.bloom \in Nat /\ PoursOf(recipe, card)
  <2>1. PICK bloom \in Nearest(10 * (dose * b), 100) :
          /\ bloom = card.bloom
          /\ card.pours \in buildPours(bloom, card.water, recipe.bloomSeconds)
    BY <1>2, <1>4, <1>7
  <2>2. /\ bloom \in Nat
        /\ 2 * (bloom * 100) - 2 * (10 * (dose * b)) <= 100
    BY <1>4, NearestIsNear, NearestOfNat
  <2>3. dose * b <= dose * r - dose
    <3>1. b * dose <= (r - 1) * dose
      BY <1>1, ProductOrder
    <3>2. (r - 1) * dose = dose * r - dose /\ b * dose = dose * b
      BY <1>1, SMT
    <3>3. QED  BY <3>1, <3>2
  <2>4. bloom <= card.water
    BY <1>4, <1>5, <2>2, <2>3, SMT
  <2>5. recipe.bloom > 0
    BY <1>7 DEF b
  <2>6. QED  BY <1>5, <2>1, <2>2, <2>4, <2>5, BuiltPours, Zenon
<1>8. QED  BY <1>1, <1>2, <1>3, <1>6, <1>7 DEF r

PourRecords == [grams : Int, at : Int, total : Int]

(* What the pours up to one of them weigh. *)
PouredUpTo(pours) ==
  LET Poured[n \in 0 .. Len(pours)] ==
        IF n = 0 THEN 0 ELSE Poured[n - 1] + pours[n].grams
  IN  Poured

LEMMA PouredUpToIs ==
  ASSUME NEW pours \in Seq(PourRecords),
         NEW f, f = [ n \in 0 .. Len(pours) |->
                        IF n = 0 THEN 0 ELSE f[n - 1] + pours[n].grams ]
  PROVE  PouredUpTo(pours) = [ n \in 0 .. Len(pours) |->
                                 IF n = 0 THEN 0
                                 ELSE PouredUpTo(pours)[n - 1] + pours[n].grams ]
<1> DEFINE Fits(g) == g = [ n \in 0 .. Len(pours) |->
                              IF n = 0 THEN 0 ELSE g[n - 1] + pours[n].grams ]
<1>1. PouredUpTo(pours) = CHOOSE g : Fits(g)
  BY DEF PouredUpTo
<1>2. Fits(f)
  OBVIOUS
<1> HIDE DEF Fits
<1>3. Fits(PouredUpTo(pours))
  BY <1>1, <1>2
<1>4. QED  BY <1>3 DEF Fits

LEMMA GramsOf ==
  ASSUME NEW pours \in Seq(PourRecords), NEW i \in 1 .. Len(pours)
  PROVE  pours[i].grams \in Int
<1>1. pours[i] \in PourRecords
  OBVIOUS
<1>2. QED  BY <1>1 DEF PourRecords

LEMMA OnePoured ==
  ASSUME NEW pours \in Seq(PourRecords), Len(pours) = 1
  PROVE  PouredUpTo(pours)[1] = pours[1].grams
<1> DEFINE f == [ n \in 0 .. 1 |-> IF n = 0 THEN 0 ELSE pours[1].grams ]
<1>1. pours[1].grams \in Int
  BY GramsOf
<1>2. f = [ n \in 0 .. Len(pours) |-> IF n = 0 THEN 0 ELSE f[n - 1] + pours[n].grams ]
  BY <1>1
<1>3. PouredUpTo(pours) = [ n \in 0 .. Len(pours) |->
                              IF n = 0 THEN 0
                              ELSE PouredUpTo(pours)[n - 1] + pours[n].grams ]
  BY <1>2, PouredUpToIs
<1> DEFINE total == PouredUpTo(pours)
<1> HIDE DEF total, f
<1>4. total = [ n \in 0 .. 1 |-> IF n = 0 THEN 0 ELSE total[n - 1] + pours[n].grams ]
  BY <1>3 DEF total
<1>5. total[0] = 0 /\ total[1] = total[0] + pours[1].grams
  BY <1>4
<1>6. QED  BY <1>1, <1>5 DEF total

LEMMA ThreePoured ==
  ASSUME NEW pours \in Seq(PourRecords), Len(pours) = 3
  PROVE  /\ PouredUpTo(pours)[1] = pours[1].grams
         /\ PouredUpTo(pours)[2] = pours[1].grams + pours[2].grams
         /\ PouredUpTo(pours)[3] = pours[1].grams + pours[2].grams + pours[3].grams
<1> DEFINE g == [ n \in 1 .. 3 |-> pours[n].grams ]
           f == [ n \in 0 .. 3 |-> IF n = 0 THEN 0 ELSE IF n = 1 THEN g[1]
                                   ELSE IF n = 2 THEN g[1] + g[2] ELSE g[1] + g[2] + g[3] ]
<1>1. g \in [1 .. 3 -> Int] /\ \A n \in 1 .. 3 : g[n] = pours[n].grams
  BY GramsOf
<1> HIDE DEF g
<1>2. f = [ n \in 0 .. 3 |-> IF n = 0 THEN 0 ELSE f[n - 1] + g[n] ]
  BY <1>1
<1> HIDE DEF f
<1>3. f = [ n \in 0 .. Len(pours) |-> IF n = 0 THEN 0 ELSE f[n - 1] + pours[n].grams ]
  BY <1>1, <1>2
<1>4. PouredUpTo(pours) = [ n \in 0 .. Len(pours) |->
                              IF n = 0 THEN 0
                              ELSE PouredUpTo(pours)[n - 1] + pours[n].grams ]
  BY <1>3, PouredUpToIs
<1> DEFINE total == PouredUpTo(pours)
<1> HIDE DEF total
<1>5. total = [ n \in 0 .. 3 |-> IF n = 0 THEN 0 ELSE total[n - 1] + g[n] ]
  BY <1>1, <1>4 DEF total
<1>6. total[0] = 0 /\ total[1] = total[0] + g[1]
      /\ total[2] = total[1] + g[2] /\ total[3] = total[2] + g[3]
  BY <1>5
<1>7. total[1] = g[1] /\ total[2] = g[1] + g[2] /\ total[3] = g[1] + g[2] + g[3]
  BY <1>1, <1>6
<1>8. QED  BY <1>1, <1>7 DEF total

(* The pours of a card add up to its water, pour by pour. *)
AddsUp(recipe, card) ==
  LET pours == card.pours IN
  /\ recipe.bloom > 0 <=> pours # <<>>
  /\ \A i \in DOMAIN pours : pours[i].total = PouredUpTo(pours)[i]
  /\ pours # <<>> => PouredUpTo(pours)[Len(pours)] = card.water
  /\ \A i \in 1 .. Len(pours) - 1 : pours[i].at <= pours[i + 1].at

THEOREM PoursOfAddUp ==
  ASSUME NEW recipe, IsRecipe(recipe), NEW card, PoursOf(recipe, card)
  PROVE  AddsUp(recipe, card)
<1> DEFINE pours == card.pours
<1>1. recipe.bloom \in Nat /\ recipe.bloomSeconds \in Nat /\ card.water \in Int
  BY DEF IsRecipe, PoursOf
<1>2. CASE recipe.bloom = 0 /\ card.pours = <<>>
  <2>1. Len(pours) = 0 /\ DOMAIN pours = {}
    BY <1>2
  <2>2. QED  BY <1>2, <2>1, SMT DEF AddsUp
<1>3. CASE recipe.bloom > 0 /\ card.pours = << Pour(card.water, 0, card.water) >>
  <2>1. /\ pours \in Seq(PourRecords) /\ Len(pours) = 1 /\ DOMAIN pours = {1} /\ pours # <<>>
        /\ pours[1].grams = card.water /\ pours[1].total = card.water
    BY <1>1, <1>3 DEF Pour, PourRecords
  <2>2. PouredUpTo(pours)[1] = card.water
    BY <2>1, OnePoured
  <2> HIDE DEF pours
  <2>3. QED  BY <1>3, <2>1, <2>2 DEF AddsUp, pours
<1>4. CASE /\ recipe.bloom > 0
           /\ \E bloom, half \in Nat :
                /\ bloom + half <= card.water
                /\ card.pours = Poured3(bloom, half, card.water, recipe.bloomSeconds)
  <2>1. PICK bloom \in Nat, half \in Nat :
          pours = Poured3(bloom, half, card.water, recipe.bloomSeconds)
    BY <1>4
  <2> HIDE DEF pours
  <2>2. /\ pours \in Seq(PourRecords) /\ Len(pours) = 3 /\ DOMAIN pours = 1 .. 3 /\ pours # <<>>
        /\ pours[1] = Pour(bloom, 0, bloom)
        /\ pours[2] = Pour(half, recipe.bloomSeconds, bloom + half)
        /\ pours[3] = Pour(card.water - bloom - half, recipe.bloomSeconds + 30, card.water)
    BY <1>1, <2>1 DEF Poured3, Pour, PourRecords
  <2>3. /\ pours[1].grams = bloom /\ pours[1].total = bloom /\ pours[1].at = 0
        /\ pours[2].grams = half /\ pours[2].total = bloom + half
        /\ pours[2].at = recipe.bloomSeconds
        /\ pours[3].grams = card.water - bloom - half /\ pours[3].total = card.water
        /\ pours[3].at = recipe.bloomSeconds + 30
    BY <2>2 DEF Pour
  <2>4. /\ PouredUpTo(pours)[1] = bloom
        /\ PouredUpTo(pours)[2] = bloom + half
        /\ PouredUpTo(pours)[3] = card.water
    BY <1>1, <2>2, <2>3, ThreePoured
  <2>5. \A i \in DOMAIN pours : pours[i].total = PouredUpTo(pours)[i]
    BY <2>2, <2>3, <2>4
  <2>6. \A i \in 1 .. Len(pours) - 1 : pours[i].at <= pours[i + 1].at
    <3>1. SUFFICES ASSUME NEW i \in {1, 2}
                   PROVE  pours[i].at <= pours[i + 1].at
      BY <2>2
    <3>2. pours[1].at <= pours[2].at /\ pours[2].at <= pours[3].at
      BY <1>1, <2>3
    <3>3. QED  BY <3>2
  <2>7. QED  BY <1>4, <2>2, <2>4, <2>5, <2>6 DEF AddsUp, pours
<1>5. QED  BY <1>2, <1>3, <1>4 DEF PoursOf

LEMMA PoursTakeNothingOut ==
  ASSUME NEW recipe, NEW card, PoursOf(recipe, card)
  PROVE  \A i \in DOMAIN card.pours : card.pours[i].grams >= 0
<1>1. CASE card.pours = <<>>
  <2>1. DOMAIN card.pours = {}
    BY <1>1
  <2>2. QED  BY <2>1
<1>2. CASE card.water \in Nat /\ card.pours = << Pour(card.water, 0, card.water) >>
  BY <1>2 DEF Pour
<1>3. ASSUME NEW bloom \in Nat, NEW half \in Nat, card.water \in Nat,
             bloom + half <= card.water,
             card.pours = Poured3(bloom, half, card.water, recipe.bloomSeconds)
      PROVE  \A i \in DOMAIN card.pours : card.pours[i].grams >= 0
  <2>1. DOMAIN card.pours = {1, 2, 3}
    BY <1>3 DEF Poured3
  <2>2. /\ card.pours[1].grams = bloom /\ card.pours[2].grams = half
        /\ card.pours[3].grams = card.water - bloom - half
    BY <1>3 DEF Poured3, Pour
  <2>3. QED  BY <1>3, <2>1, <2>2
<1>4. QED  BY <1>1, <1>2, <1>3 DEF PoursOf

(* Scaling to the dose of a card gives its water back, but for what        *)
(* rounding the dose to a tenth and the water to a tenth make of it.       *)
THEOREM CardScalesBack ==
  ASSUME NEW recipe, IsRecipe(recipe), NEW card,
         \/ \E water \in Nat \ {0} : card \in ScaleToWater(recipe, water)
         \/ \E dose \in Nat \ {0} : card \in ScaleToDose(recipe, dose),
         NEW back \in ScaleToDose(recipe, card.dose)
  PROVE  20 * Magnitude(back.water - card.water) <= recipe.ratio + 20
<1> DEFINE r == recipe.ratio
<1>1. r \in Nat \ {0}
  BY DEF IsRecipe
<1>2. back.water \in Nearest(card.dose * r, 10)
  BY ScaledFrom DEF ScaleToDose
<1> DEFINE Holds == /\ back.water \in Int /\ card.water \in Int
                    /\ 20 * back.water - 20 * card.water <= r + 20
                    /\ 20 * card.water - 20 * back.water <= r + 20
<1> HIDE DEF r
<1>3. ASSUME NEW water \in Nat \ {0}, card \in ScaleToWater(recipe, water)
      PROVE  Holds
  <2>1. card.water = water /\ card.dose \in Nearest(10 * water, r)
    BY <1>3, CardForWater DEF r
  <2>2. PICK d \in Nearest(10 * water, r) : d = card.dose
    BY <2>1
  <2>3. /\ d * r \in Int
        /\ 2 * (d * r) - 2 * (10 * water) <= r
        /\ 2 * (10 * water) - 2 * (d * r) <= r
    BY <1>1, NearestIsNear
  <2>4. PICK w \in Nearest(d * r, 10) : w = back.water
    BY <1>2, <2>2
  <2>5. /\ w \in Int
        /\ 2 * (w * 10) - 2 * (d * r) <= 10
        /\ 2 * (d * r) - 2 * (w * 10) <= 10
    BY <2>3, NearestIsNear
  <2> DEFINE dr == d * r
  <2> HIDE DEF dr
  <2>6. 20 * w - 20 * water <= r + 20 /\ 20 * water - 20 * w <= r + 20
    <3>1. /\ dr \in Int
          /\ 2 * dr - 20 * water <= r /\ 20 * water - 2 * dr <= r
          /\ 20 * w - 2 * dr <= 10 /\ 2 * dr - 20 * w <= 10
      BY <2>3, <2>5 DEF dr
    <3>2. QED  BY <1>1, <2>5, <3>1
  <2>7. QED  BY <2>1, <2>4, <2>5, <2>6
<1>4. ASSUME NEW dose \in Nat \ {0}, card \in ScaleToDose(recipe, dose)
      PROVE  Holds
  <2>1. card.dose = dose /\ card.water \in Nearest(dose * r, 10)
    BY <1>4, CardForDose DEF r
  <2>2. PICK v \in Nearest(dose * r, 10) : v = card.water
    BY <2>1
  <2>3. PICK w \in Nearest(dose * r, 10) : w = back.water
    BY <1>2, <2>1
  <2>4. dose * r \in Int
    BY <1>1, SMT
  <2>5. /\ v \in Int /\ w \in Int
        /\ 2 * (w * 10) - 2 * (dose * r) <= 10 /\ 2 * (dose * r) - 2 * (w * 10) <= 10
        /\ 2 * (v * 10) - 2 * (dose * r) <= 10 /\ 2 * (dose * r) - 2 * (v * 10) <= 10
    BY <2>4, NearestIsNear
  <2>6. 20 * w - 20 * v <= r + 20 /\ 20 * v - 20 * w <= r + 20
    BY <1>1, <2>4, <2>5
  <2>7. QED  BY <2>2, <2>3, <2>5, <2>6
<1>5. Holds
  BY <1>3, <1>4
<1>6. 20 * Magnitude(back.water - card.water) <= r + 20
  BY <1>1, <1>5, SMT DEF Magnitude
<1>7. QED  BY <1>6 DEF r

(* Amounts that ask for at least half a tenth of coffee, or of water.      *)
IsMeasurableWater(recipe, water) == 20 * water > recipe.ratio
IsMeasurableDose(recipe, dose)   == dose * recipe.ratio > 5

(* A card for one of them has coffee and water on it.                      *)
LEMMA MeasurableCardIsCoffee ==
  ASSUME NEW recipe, IsRecipe(recipe), NEW card,
         \/ \E water \in Nat \ {0} :
              IsMeasurableWater(recipe, water) /\ card \in ScaleToWater(recipe, water)
         \/ \E dose \in Nat \ {0} :
              IsMeasurableDose(recipe, dose) /\ card \in ScaleToDose(recipe, dose)
  PROVE  card.dose \in Nat \ {0} /\ card.water \in Nat \ {0}
<1> DEFINE r == recipe.ratio
           Holds == card.dose \in Nat \ {0} /\ card.water \in Nat \ {0}
<1>1. r \in Nat \ {0}
  BY DEF IsRecipe
<1> HIDE DEF r
<1>2. ASSUME NEW water \in Nat \ {0}, IsMeasurableWater(recipe, water),
             card \in ScaleToWater(recipe, water)
      PROVE  Holds
  <2>1. card.water = water /\ card.dose \in Nearest(10 * water, r)
    BY <1>2, CardForWater DEF r
  <2>2. PICK d \in Nearest(10 * water, r) : d = card.dose
    BY <2>1
  <2>3. d \in Int /\ d * r \in Int /\ 2 * (10 * water) - 2 * (d * r) <= r
    BY <1>1, NearestIsNear
  <2>4. 20 * water > r
    BY <1>2 DEF IsMeasurableWater, r
  <2>5. ASSUME d <= 0
        PROVE  FALSE
    <3>1. d * r <= 0 * r /\ 0 * r = 0
      BY <1>1, <2>3, <2>5, ProductOrder
    <3>2. QED  BY <1>1, <2>3, <2>4, <3>1
  <2>6. QED  BY <2>1, <2>2, <2>3, <2>5
<1>3. ASSUME NEW dose \in Nat \ {0}, IsMeasurableDose(recipe, dose),
             card \in ScaleToDose(recipe, dose)
      PROVE  Holds
  <2>1. card.dose = dose /\ card.water \in Nearest(dose * r, 10)
    BY <1>3, CardForDose DEF r
  <2>2. dose * r \in Int
    BY <1>1, SMT
  <2>3. PICK w \in Nearest(dose * r, 10) : w = card.water
    BY <2>1
  <2>4. w \in Int /\ 2 * (dose * r) - 2 * (w * 10) <= 10
    BY <2>2, NearestIsNear
  <2>5. dose * r > 5
    BY <1>3 DEF IsMeasurableDose, r
  <2>6. QED  BY <2>1, <2>2, <2>3, <2>4, <2>5
<1>4. QED  BY <1>2, <1>3

(* An amount that the rounding of a card is small against. *)
IsAmpleWater(recipe, water) == 20 * water > 1000 + 11 * recipe.ratio
IsAmpleDose(recipe, dose)   == dose * recipe.ratio > 550

LEMMA SmallIsOnTarget ==
  ASSUME NEW num \in Int, NEW den \in Int, 10 * num < den
  PROVE  band(num, den) = "on-target"
<1>1. 10 * num < den /\ ~(10 * num >= den)
  OBVIOUS
<1>2. QED  BY <1>1, Zenon DEF band

(* Whoever brews an ample card with the water in whole grams as printed    *)
(* has brewed on the ratio.                                                *)
THEOREM AmpleCardOnRatio ==
  ASSUME NEW recipe, IsRecipe(recipe), NEW card,
         \/ \E water \in Nat \ {0} :
              IsAmpleWater(recipe, water) /\ card \in ScaleToWater(recipe, water)
         \/ \E dose \in Nat \ {0} :
              IsAmpleDose(recipe, dose) /\ card \in ScaleToDose(recipe, dose),
         NEW printed \in PrintedWater(card)
  PROVE  Ratio(recipe, [dose |-> card.dose, water |-> printed]).severity = "on-target"
<1> DEFINE r == recipe.ratio
           asked == r * card.dose
           Close == /\ printed \in Int /\ card.dose \in Int /\ asked \in Int
                    /\ printed > 0 /\ asked > 0
                    /\ 10 * (10 * printed - asked) < asked
                    /\ 10 * (asked - 10 * printed) < asked
<1>1. r \in Nat \ {0}
  BY DEF IsRecipe
<1>2. PICK grams \in Nearest(card.water, 10) : printed = 10 * grams
  BY DEF PrintedWater
<1> HIDE DEF r
<1>3. ASSUME NEW water \in Nat \ {0}, IsAmpleWater(recipe, water),
             card \in ScaleToWater(recipe, water)
      PROVE  Close
  <2>1. card.water = water /\ card.dose \in Nearest(10 * water, r)
    BY <1>3, CardForWater DEF r
  <2>2. PICK d \in Nearest(10 * water, r) : d = card.dose
    BY <2>1
  <2>3. /\ d \in Int /\ d * r \in Int
        /\ 2 * (d * r) - 2 * (10 * water) <= r
        /\ 2 * (10 * water) - 2 * (d * r) <= r
    BY <1>1, NearestIsNear
  <2>4. /\ grams \in Int
        /\ 2 * (grams * 10) - 2 * water <= 10
        /\ 2 * water - 2 * (grams * 10) <= 10
    BY <1>2, <2>1, NearestIsNear
  <2>5. asked = d * r
    BY <1>1, <2>2, <2>3, SMT
  <2>6. 20 * water > 1000 + 11 * r
    BY <1>3 DEF IsAmpleWater, r
  <2> HIDE DEF asked
  <2>7. QED  BY <1>1, <1>2, <2>2, <2>3, <2>4, <2>5, <2>6, SMT
<1>4. ASSUME NEW dose \in Nat \ {0}, IsAmpleDose(recipe, dose),
             card \in ScaleToDose(recipe, dose)
      PROVE  Close
  <2>1. card.dose = dose /\ card.water \in Nearest(dose * r, 10)
    BY <1>4, CardForDose DEF r
  <2>2. dose * r \in Int
    BY <1>1, SMT
  <2>3. PICK v \in Nearest(dose * r, 10) : v = card.water
    BY <2>1
  <2>4. /\ v \in Int
        /\ 2 * (v * 10) - 2 * (dose * r) <= 10
        /\ 2 * (dose * r) - 2 * (v * 10) <= 10
    BY <2>2, NearestIsNear
  <2>5. /\ grams \in Int
        /\ 2 * (grams * 10) - 2 * v <= 10
        /\ 2 * v - 2 * (grams * 10) <= 10
    BY <1>2, <2>3, <2>4, NearestIsNear
  <2>6. asked = dose * r
    BY <1>1, <2>1, SMT
  <2>7. dose * r > 550
    BY <1>4 DEF IsAmpleDose, r
  <2> HIDE DEF asked
  <2>8. QED  BY <1>1, <1>2, <2>1, <2>2, <2>4, <2>5, <2>6, <2>7, SMT
<1>5. Close
  BY <1>3, <1>4
<1>6. card.dose > 0
  <2>1. ASSUME card.dose <= 0
        PROVE  FALSE
    <3>1. card.dose * r <= 0 * r
      BY <1>1, <1>5, <2>1, ProductOrder
    <3>2. 0 * r = 0 /\ card.dose * r = asked
      BY <1>1, <1>5, SMT
    <3> HIDE DEF asked
    <3>3. QED  BY <1>5, <3>1, <3>2
  <2>2. QED  BY <1>5, <2>1
<1> DEFINE drift == 10 * printed - asked
<1>7. Magnitude(drift) \in Int /\ asked \in Int /\ 10 * Magnitude(drift) < asked
  <2> HIDE DEF asked
  <2>1. QED  BY <1>5, SMT DEF Magnitude
<1>8. band(Magnitude(drift), asked) = "on-target"
  BY <1>7, SmallIsOnTarget
<1>9. ~(card.dose <= 0 \/ printed <= 0 \/ r <= 0)
  BY <1>1, <1>5, <1>6
<1>10. Ratio(recipe, [dose |-> card.dose, water |-> printed]).severity
         = band(Magnitude(drift), asked)
  BY <1>9 DEF Ratio, r
<1>11. QED  BY <1>8, <1>10

-----------------------------------------------------------------------------
(* Roast batches.                                                          *)

IsBatch(p) ==
  /\ p.turningPoint \in Int /\ p.dryEnd \in Int /\ p.firstCrack \in Int
  /\ p.firstCrackTemp \in Int /\ p.drop \in Int /\ p.dropTemp \in Int

LEMMA NineLandmarks ==
  Landmarks = { "turning-point", "dry-end", "maillard", "first-crack", "development",
                "total-roast", "first-crack-temperature", "drop-temperature",
                "development-time-ratio" }
BY SMT DEF Landmarks, LandmarkOrder

LEMMA ReadingIsInt ==
  ASSUME NEW p, IsBatch(p), NEW l \in Landmarks
  PROVE  Reading(p, l) \in Int
<1>1. DevelopmentSeconds(p) \in Int /\ MaillardSeconds(p) \in Int
  BY DEF IsBatch, DevelopmentSeconds, MaillardSeconds
<1>2. DevelopmentTimeRatio(p) \in Int
  <2>1. CASE p.drop <= 0
    BY <2>1 DEF DevelopmentTimeRatio
  <2>2. CASE ~(p.drop <= 0)
    <3>1. p.drop \in Nat \ {0} /\ 1000 * DevelopmentSeconds(p) \in Int
      BY <1>1, <2>2 DEF IsBatch
    <3>2. Rounded(1000 * DevelopmentSeconds(p), p.drop) \in Int
      BY <3>1, SMT DEF Rounded
    <3>3. QED  BY <2>2, <3>2 DEF DevelopmentTimeRatio
  <2>3. QED  BY <2>1, <2>2
<1>3. QED  BY <1>1, <1>2, NineLandmarks DEF Reading, IsBatch

LEMMA GradeForgetsSign ==
  ASSUME NEW l, NEW delta \in Int
  PROVE  Grade(l, -delta) = Grade(l, delta)
BY MagnitudeIs DEF Grade

(* Drying, browning and development account for the whole roast.           *)
THEOREM PhasesOfRoast ==
  ASSUME NEW earlier, NEW later, IsBatch(earlier), IsBatch(later),
         {"dry-end", "maillard", "development", "total-roast"} \subseteq Compared(earlier, later)
  PROVE  LET d == Differences(earlier, later) IN
         d["total-roast"].change
           = d["dry-end"].change + d["maillard"].change + d["development"].change
<1> DEFINE d == Differences(earlier, later)
<1>1. \A l \in Compared(earlier, later) :
        d[l].change = Reading(later, l) - Reading(earlier, l)
  BY DEF Differences
<1>2. ASSUME NEW p \in {earlier, later}
      PROVE  /\ Reading(p, "dry-end") = p.dryEnd
             /\ Reading(p, "maillard") = p.firstCrack - p.dryEnd
             /\ Reading(p, "development") = p.drop - p.firstCrack
             /\ Reading(p, "total-roast") = p.drop
  <2>1. Reading(p, "maillard") > 0 /\ Reading(p, "development") > 0
    BY DEF Compared
  <2>2. /\ Reading(p, "dry-end") = p.dryEnd
        /\ Reading(p, "maillard") = MaillardSeconds(p)
        /\ Reading(p, "development") = DevelopmentSeconds(p)
        /\ Reading(p, "total-roast") = p.drop
    BY DEF Reading
  <2>3. ~(0 > 0)
    OBVIOUS
  <2>4. MaillardSeconds(p) = p.firstCrack - p.dryEnd
    BY <2>1, <2>2, <2>3 DEF MaillardSeconds
  <2>5. DevelopmentSeconds(p) = p.drop - p.firstCrack
    BY <2>1, <2>2, <2>3 DEF DevelopmentSeconds
  <2>6. QED  BY <2>2, <2>4, <2>5
<1> HIDE DEF d
<1>3. /\ d["dry-end"].change = later.dryEnd - earlier.dryEnd
      /\ d["maillard"].change
           = (later.firstCrack - later.dryEnd) - (earlier.firstCrack - earlier.dryEnd)
      /\ d["development"].change
           = (later.drop - later.firstCrack) - (earlier.drop - earlier.firstCrack)
      /\ d["total-roast"].change = later.drop - earlier.drop
  BY <1>1, <1>2
<1>4. d["total-roast"].change
        = d["dry-end"].change + d["maillard"].change + d["development"].change
  BY <1>3, SMT DEF IsBatch
<1>5. QED  BY <1>4 DEF d

(* A phase or the ratio that two batches are compared by has both of its   *)
(* landmarks in each of them, in the order of a roast.                     *)
THEOREM ComparedInOrder ==
  ASSUME NEW earlier, NEW later, IsBatch(earlier), IsBatch(later), NEW b \in {earlier, later}
  PROVE  /\ "maillard" \in Compared(earlier, later) => 0 < b.dryEnd /\ b.dryEnd < b.firstCrack
         /\ {"development", "development-time-ratio"} \cap Compared(earlier, later) # {} =>
              0 < b.firstCrack /\ b.firstCrack < b.drop
<1>1. b.dryEnd \in Int /\ b.firstCrack \in Int /\ b.drop \in Int
  BY DEF IsBatch
<1>2. ASSUME "maillard" \in Compared(earlier, later)
      PROVE  0 < b.dryEnd /\ b.dryEnd < b.firstCrack
  <2>1. MaillardSeconds(b) > 0
    BY <1>2 DEF Compared, Reading
  <2>2. QED  BY <1>1, <2>1 DEF MaillardSeconds
<1>3. ASSUME DevelopmentSeconds(b) > 0
      PROVE  0 < b.firstCrack /\ b.firstCrack < b.drop
  BY <1>1, <1>3 DEF DevelopmentSeconds
<1>4. ASSUME "development" \in Compared(earlier, later)
      PROVE  DevelopmentSeconds(b) > 0
  BY <1>4 DEF Compared, Reading
<1>5. ASSUME "development-time-ratio" \in Compared(earlier, later)
      PROVE  DevelopmentSeconds(b) > 0
  <2>1. DevelopmentTimeRatio(b) > 0
    BY <1>5 DEF Compared, Reading
  <2>2. b.drop > 0 /\ Rounded(1000 * DevelopmentSeconds(b), b.drop) > 0
    BY <1>1, <2>1 DEF DevelopmentTimeRatio
  <2>3. DevelopmentSeconds(b) \in Int
    BY <1>1 DEF DevelopmentSeconds
  <2>4. ASSUME NEW n \in Int, NEW d \in Nat \ {0}, Rounded(1000 * n, d) > 0
        PROVE  n > 0
    BY <2>4, SMT DEF Rounded
  <2>5. QED  BY <1>1, <2>2, <2>3, <2>4
<1>6. QED  BY <1>2, <1>3, <1>4, <1>5

(* The summary reads no more than which landmarks there are and how they   *)
(* are graded.                                                             *)
LEMMA SummaryOfGrades ==
  ASSUME NEW d, NEW e, DOMAIN d = DOMAIN e,
         \A l \in DOMAIN d : d[l].severity = e[l].severity
  PROVE  summarise(d) = summarise(e)
<1> DEFINE
  Worst(f) == { l \in Moved(f) :
                  \A k \in Moved(f) : rank[f[k].severity] <= rank[f[l].severity] }
  First(worst) == CHOOSE l \in worst : \A k \in worst : Place(l) <= Place(k)
<1>1. Moved(d) = Moved(e) /\ Moved(d) \subseteq DOMAIN d
  BY DEF Moved
<1>2. Worst(d) = Worst(e)
  BY <1>1
<1>3. summarise(d) = (IF Moved(d) = {} THEN "none" ELSE First(Worst(d)))
  BY Zenon DEF summarise
<1>4. summarise(e) = (IF Moved(e) = {} THEN "none" ELSE First(Worst(e)))
  BY Zenon DEF summarise
<1> HIDE DEF Worst, First
<1>5. QED  BY <1>1, <1>2, <1>3, <1>4

(* Which batch is called the earlier one changes the signs, nothing else.  *)
THEOREM ComparedBothWays ==
  ASSUME NEW earlier, NEW later, IsBatch(earlier), IsBatch(later)
  PROVE  LET there == CompareProfiles(earlier, later)
             back  == CompareProfiles(later, earlier)
         IN  /\ DOMAIN back.differences = DOMAIN there.differences
             /\ \A l \in DOMAIN there.differences :
                  /\ back.differences[l].change = -there.differences[l].change
                  /\ back.differences[l].severity = there.differences[l].severity
             /\ back.summary = there.summary
<1> DEFINE there == Differences(earlier, later)
           back  == Differences(later, earlier)
<1>1. Compared(earlier, later) = Compared(later, earlier)
  BY DEF Compared
<1>2. DOMAIN there = Compared(earlier, later) /\ DOMAIN back = Compared(earlier, later)
  BY <1>1 DEF Differences
<1>3. ASSUME NEW l \in Compared(earlier, later)
      PROVE  back[l].change = -there[l].change /\ back[l].severity = there[l].severity
  <2> DEFINE delta == Reading(later, l) - Reading(earlier, l)
             other == Reading(earlier, l) - Reading(later, l)
  <2>1. l \in Landmarks /\ Reading(earlier, l) \in Int /\ Reading(later, l) \in Int
    BY ReadingIsInt DEF Compared
  <2>2. delta \in Int /\ other = -delta
    BY <2>1
  <2>3. /\ there[l] = [change |-> delta, severity |-> Grade(l, delta)]
        /\ back[l] = [change |-> other, severity |-> Grade(l, other)]
    BY <1>1 DEF Differences
  <2> HIDE DEF delta, other, there, back
  <2>4. Grade(l, other) = Grade(l, delta)
    BY <2>2, GradeForgetsSign
  <2>5. QED  BY <2>2, <2>3, <2>4
<1> HIDE DEF there, back
<1>4. summarise(back) = summarise(there)
  BY <1>2, <1>3, SummaryOfGrades
<1>5. /\ CompareProfiles(earlier, later).differences = there
      /\ CompareProfiles(earlier, later).summary = summarise(there)
      /\ CompareProfiles(later, earlier).differences = back
      /\ CompareProfiles(later, earlier).summary = summarise(back)
  BY DEF CompareProfiles, there, back
<1>6. QED  BY <1>2, <1>3, <1>4, <1>5

-----------------------------------------------------------------------------
(* Counting up, by the smallest number that would fail, and texts.         *)

LEMMA SmallestNumber ==
  ASSUME NEW T \in SUBSET Nat, T # {}
  PROVE  \E n \in T : \A m \in T : n <= m
<1> DEFINE R == OpToRel(<, Nat)
<1>1. IsWellFoundedOn(R, Nat)
  BY NatLessThanWellFounded
<1>2. \A m, n \in Nat : m < n => <<m, n>> \in R
  BY DEF OpToRel
<1> HIDE DEF R
<1>3. PICK n \in T : \A m \in T : ~ (<<m, n>> \in R)
  BY <1>1, WFMin
<1>4. \A m \in T : ~ (m < n)
  BY <1>2, <1>3
<1>5. QED  BY <1>4, SMT

LEMMA Counting ==
  ASSUME NEW S, NEW N \in Nat, 0 \in S, \A n \in 0 .. N - 1 : n \in S => n + 1 \in S
  PROVE  0 .. N \subseteq S
<1> DEFINE T == (0 .. N) \ S
<1>1. SUFFICES ASSUME T # {}
               PROVE  FALSE
  OBVIOUS
<1>2. T \in SUBSET Nat
  OBVIOUS
<1>3. PICK n \in T : \A m \in T : n <= m
  BY <1>1, <1>2, SmallestNumber
<1>4. n - 1 \in 0 .. N - 1 /\ n - 1 \notin T
  BY <1>3
<1>5. QED  BY <1>3, <1>4

(* A sequence of sequences, one after the other, is a sequence.            *)
LEMMA FlattenedIsSeq ==
  ASSUME NEW S, NEW seqs \in Seq(Seq(S))
  PROVE  FlattenSeq(seqs) \in Seq(S)
<1> DEFINE
  N == Len(seqs)
  Fits(g) == g = [ i \in 1 .. N |-> IF i = 1 THEN seqs[i] ELSE g[i - 1] \o seqs[i] ]
  UpTo(n, g) == /\ g \in [1 .. n -> Seq(S)]
                /\ \A i \in 1 .. n : g[i] = IF i = 1 THEN seqs[i] ELSE g[i - 1] \o seqs[i]
  Reached == { n \in 0 .. N : \E g : UpTo(n, g) }
<1>1. N \in Nat /\ \A i \in 1 .. N : seqs[i] \in Seq(S)
  OBVIOUS
<1>2. CASE N = 0
  <2>1. seqs = << >> /\ FlattenSeq(seqs) = seqs
    BY <1>2, EmptySeq DEF FlattenSeq
  <2>2. QED  BY <2>1, EmptySeq
<1>3. CASE N # 0
  <2>1. FlattenSeq(seqs) = (CHOOSE g : Fits(g))[N]
    BY <1>3 DEF FlattenSeq
  <2> HIDE DEF N
  <2>2. 0 \in Reached
    <3>1. UpTo(0, [ i \in 1 .. 0 |-> seqs[i] ])
      OBVIOUS
    <3> HIDE DEF UpTo
    <3>2. QED  BY <1>1, <3>1
  <2>3. ASSUME NEW n \in 0 .. N - 1, n \in Reached
        PROVE  n + 1 \in Reached
    <3>1. PICK g : UpTo(n, g)
      BY <2>3
    <3> DEFINE next == IF n + 1 = 1 THEN seqs[1] ELSE g[n] \o seqs[n + 1]
               h == [ i \in 1 .. n + 1 |-> IF i = n + 1 THEN next ELSE g[i] ]
    <3>2. next \in Seq(S)
      <4>1. n + 1 \in 1 .. N /\ seqs[n + 1] \in Seq(S)
        BY <1>1
      <4>2. n + 1 # 1 => g[n] \in Seq(S)
        BY <3>1
      <4>3. QED  BY <4>1, <4>2, ConcatProperties
    <3> HIDE DEF next
    <3>3. h \in [1 .. n + 1 -> Seq(S)]
      BY <3>1, <3>2
    <3>4. ASSUME NEW i \in 1 .. n + 1
          PROVE  h[i] = IF i = 1 THEN seqs[i] ELSE h[i - 1] \o seqs[i]
      <4>1. CASE i = n + 1
        BY <1>1, <4>1 DEF next
      <4>2. CASE i # n + 1
        <5>1. i \in 1 .. n /\ (i # 1 => i - 1 \in 1 .. n /\ i - 1 \in 1 .. n + 1 /\ i - 1 # n + 1)
          BY <4>2
        <5>2. h[i] = g[i] /\ (i # 1 => h[i - 1] = g[i - 1])
          BY <5>1, <4>2
        <5>3. QED  BY <3>1, <5>1, <5>2
      <4>3. QED  BY <4>1, <4>2
    <3>5. UpTo(n + 1, h)
      BY <3>3, <3>4
    <3> HIDE DEF UpTo, h
    <3>6. QED  BY <1>1, <3>5
  <2>4. N \in Reached
    <3> HIDE DEF Reached
    <3>1. 0 .. N \subseteq Reached
      BY <1>1, <2>2, <2>3, Counting
    <3>2. QED  BY <1>1, <3>1
  <2>5. PICK f : UpTo(N, f)
    BY <2>4
  <2>6. Fits(f)
    BY <2>5
  <2> DEFINE flat == CHOOSE g : Fits(g)
  <2>7. Fits(flat)
    <3> HIDE DEF Fits
    <3>1. QED  BY <2>6
  <2> HIDE DEF flat
  <2> DEFINE Good == { n \in 0 .. N : n = 0 \/ flat[n] \in Seq(S) }
  <2>8. 0 \in Good
    BY <1>1
  <2>9. ASSUME NEW n \in 0 .. N - 1, n \in Good
        PROVE  n + 1 \in Good
    <3>1. n + 1 \in 1 .. N /\ seqs[n + 1] \in Seq(S)
      BY <1>1
    <3>2. flat[n + 1] = IF n + 1 = 1 THEN seqs[n + 1] ELSE flat[n] \o seqs[n + 1]
      <4>1. \A i \in 1 .. N : flat[i] = IF i = 1 THEN seqs[i] ELSE flat[i - 1] \o seqs[i]
        BY <2>7
      <4>2. (n + 1) - 1 = n
        OBVIOUS
      <4>3. QED  BY <3>1, <4>1, <4>2
    <3>3. n + 1 # 1 => flat[n] \in Seq(S)
      BY <2>9
    <3>4. flat[n + 1] \in Seq(S)
      BY <3>1, <3>2, <3>3, ConcatProperties
    <3>5. QED  BY <1>1, <3>1, <3>4
  <2>10. N \in Good
    <3> HIDE DEF Good
    <3>1. 0 .. N \subseteq Good
      BY <1>1, <2>8, <2>9, Counting
    <3>2. QED  BY <1>1, <3>1
  <2>11. flat[N] \in Seq(S)
    BY <1>3, <2>10
  <2>12. QED  BY <2>1, <2>11 DEF flat
<1>4. QED  BY <1>2, <1>3

Parts(text) == (UNION { Range(text[i]) : i \in DOMAIN text }) \cup {"blank"}

LEMMA SpelledIsSeq ==
  ASSUME NEW text, IsText(text)
  PROVE  Spelled(text) \in Seq(Parts(text))
<1> DEFINE S == Parts(text)
           seqs == [ i \in DOMAIN text |->
                       IF i = 1 THEN text[i] ELSE <<"blank">> \o text[i] ]
<1>1. DOMAIN text = 1 .. Len(text) /\ Len(text) \in Nat
  BY DEF IsText
<1>2. ASSUME NEW i \in DOMAIN text
      PROVE  seqs[i] \in Seq(S)
  <2>1. text[i] \in Seq(Range(text[i])) /\ Range(text[i]) \subseteq S
    BY DEF IsText, Parts
  <2> HIDE DEF S
  <2>2. text[i] \in Seq(S)
    BY <2>1, SeqMonotonic
  <2>3. <<"blank">> \in Seq(S)
    <3>1. "blank" \in S
      BY DEF S, Parts
    <3>2. QED  BY <3>1
  <2>4. <<"blank">> \o text[i] \in Seq(S)
    BY <2>2, <2>3, ConcatProperties
  <2>5. QED  BY <2>2, <2>4
<1>3. seqs \in Seq(Seq(S))
  <2> HIDE DEF S
  <2>1. DOMAIN seqs = 1 .. Len(text)
    BY <1>1
  <2>2. seqs \in [1 .. Len(text) -> Seq(S)]
    BY <1>1, <1>2
  <2> HIDE DEF seqs
  <2>3. QED  BY <1>1, <2>2, SeqDef
<1>4. Spelled(text) = FlattenSeq(seqs)
  BY DEF Spelled
<1> HIDE DEF seqs, S
<1>5. FlattenSeq(seqs) \in Seq(S)
  BY <1>3, FlattenedIsSeq
<1>6. QED  BY <1>4, <1>5 DEF S

(* Every text contains itself. *)
LEMMA ContainsItself ==
  ASSUME NEW text, IsText(text)
  PROVE  ContainsText(text, text)
<1> DEFINE t == Spelled(text)
<1>1. t \in Seq(Parts(text))
  BY SpelledIsSeq
<1> HIDE DEF t
<1>2. Len(t) \in Nat /\ 0 \in 0 .. Len(t) - Len(t)
  BY <1>1
<1>3. 0 + 1 = 1 /\ 0 + Len(t) = Len(t)
  BY <1>2
<1>4. SubSeq(t, 1, Len(t)) = t
  BY <1>1
<1>5. \E from \in 0 .. Len(t) - Len(t) : SubSeq(t, from + 1, from + Len(t)) = t
  BY <1>2, <1>3, <1>4
<1>6. QED  BY <1>5 DEF ContainsText, t

-----------------------------------------------------------------------------
(* Looking a lot up.                                                       *)

LEMMA FiniteLots ==
  /\ IsFiniteSet(Lots)
  /\ \A asked : /\ IsFiniteSet(Matching(asked))
                /\ Cardinality(Matching(asked)) \in Nat
                /\ Matching(asked) \subseteq Lots
<1>1. Menu \in [1 .. Len(Menu) -> Lots] /\ Len(Menu) \in Nat
  BY MenuAssumption
<1>2. \A l \in Lots : \E i \in 1 .. Len(Menu) : Menu[i] = l
  BY <1>1 DEF Lots, Range
<1>3. Menu \in Surjection(1 .. Len(Menu), Lots)
  BY <1>1, <1>2 DEF Surjection
<1>4. IsFiniteSet(Lots)
  BY <1>1, <1>3, FS_Surjection, FS_Interval
<1>5. QED  BY <1>4, FS_Subset, FS_CardinalityType DEF Matching

(* What FindCoffee says of a name, and of the lots it is a part of.        *)
FoundOne(asked, lookup) ==
  /\ lookup.found = TRUE
  /\ lookup.coffee \in Matching(asked)
  /\ Matching(asked) = {lookup.coffee} \/ lookup.coffee.name = asked

FoundNone(asked, lookup) ==
  /\ lookup.found = FALSE
  /\ \/ lookup.why = "no-name"
     \/ lookup.why = "unknown" /\ Matching(asked) = {}
     \/ /\ lookup.why = "ambiguous"
        /\ Cardinality(lookup.among) = 2
        /\ lookup.among \subseteq Matching(asked)
        /\ \A l \in Lots : l.name # asked

THEOREM NameFindsOne ==
  ASSUME NEW asked, NEW lookup \in FindCoffee(asked)
  PROVE  FoundOne(asked, lookup) \/ FoundNone(asked, lookup)
<1> DEFINE matching == Matching(asked)
           few == IF Cardinality(matching) < 2 THEN Cardinality(matching) ELSE 2
<1>1. IsFiniteSet(matching) /\ Cardinality(matching) \in Nat /\ matching \subseteq Lots
  BY FiniteLots
<1>2. CASE asked = <<>>
  <2>1. lookup = Refusal("no-name", {})
    BY <1>2 DEF FindCoffee
  <2>2. QED  BY <2>1 DEF Refusal, FoundNone
<1>3. CASE asked # <<>>
  <2>1. PICK rows \in FirstRows(asked, 2) : lookup = LotOf(rows, asked)
    BY <1>3 DEF FindCoffee
  <2>2. /\ rows \in [1 .. few -> matching]
        /\ \A i, j \in 1 .. few :
             i < j => rows[i] # rows[j] /\ ~Precedes(rows[j], rows[i], asked)
        /\ \A l \in matching \ Range(rows), i \in 1 .. few : ~Precedes(l, rows[i], asked)
    BY DEF FirstRows
  <2> HIDE DEF matching
  <2>3. few \in {0, 1, 2} /\ (few < 2 => few = Cardinality(matching))
    BY <1>1
  <2> HIDE DEF few
  <2>4. Len(rows) = few
    BY <2>2, <2>3
  <2>5. CASE few = 0
    <3>1. matching = {}
      BY <1>1, <2>3, <2>5, FS_EmptySet
    <3>2. lookup = Refusal("unknown", {})
      BY <2>1, <2>4, <2>5 DEF LotOf
    <3>3. QED  BY <3>1, <3>2 DEF Refusal, FoundNone, matching
  <2>6. CASE few = 1
    <3>1. PICK x : matching = {x}
      BY <1>1, <2>3, <2>6, FS_Singleton
    <3>2. rows[1] = x
      BY <2>2, <2>6, <3>1
    <3>3. lookup = [found |-> TRUE, coffee |-> rows[1]]
      BY <2>1, <2>4, <2>6 DEF LotOf
    <3>4. QED  BY <3>1, <3>2, <3>3 DEF FoundOne, matching
  <2>7. CASE few = 2
    <3>1. /\ rows[1] \in matching /\ rows[2] \in matching /\ rows[1] # rows[2]
          /\ ~Precedes(rows[2], rows[1], asked)
          /\ Range(rows) = {rows[1], rows[2]}
      <4>1. 1 \in 1 .. few /\ 2 \in 1 .. few /\ 1 .. few = {1, 2}
        BY <2>7
      <4>2. QED  BY <2>2, <4>1 DEF Range
    <3>2. lookup = IF rows[1].name = asked THEN [found |-> TRUE, coffee |-> rows[1]]
                   ELSE Refusal("ambiguous", {rows[1], rows[2]})
      BY <2>1, <2>4, <2>7 DEF LotOf
    <3>3. CASE rows[1].name = asked
      <4>1. lookup = [found |-> TRUE, coffee |-> rows[1]]
        BY <3>2, <3>3
      <4>2. QED  BY <3>1, <3>3, <4>1 DEF FoundOne, matching
    <3>4. CASE rows[1].name # asked
      <4>1. lookup = Refusal("ambiguous", {rows[1], rows[2]})
        BY <3>2, <3>4
      <4>2. Cardinality({rows[1], rows[2]}) = 2
        <5>1. IsFiniteSet({rows[1]}) /\ Cardinality({rows[1]}) = 1
          BY FS_Singleton
        <5>2. Cardinality({rows[1]} \cup {rows[2]}) = 2
          BY <3>1, <5>1, FS_AddElement
        <5>3. {rows[1], rows[2]} = {rows[1]} \cup {rows[2]}
          OBVIOUS
        <5>4. QED  BY <5>2, <5>3
      <4>3. ASSUME NEW l \in Lots, l.name = asked
            PROVE  FALSE
        <5>1. l \in matching
          BY <4>3, ContainsItself, MenuAssumption DEF matching, Matching
        <5>2. Precedes(l, rows[1], asked)
          BY <3>4, <4>3 DEF Precedes
        <5>3. 1 \in 1 .. few
          BY <2>7
        <5>4. l \in Range(rows)
          BY <2>2, <5>1, <5>2, <5>3
        <5>5. QED  BY <3>1, <3>4, <4>3, <5>2, <5>4
      <4>4. QED  BY <3>1, <4>1, <4>2, <4>3 DEF Refusal, FoundNone, matching
    <3>5. QED  BY <3>3, <3>4
  <2>8. QED  BY <2>3, <2>5, <2>6, <2>7
<1>4. QED  BY <1>2, <1>3

-----------------------------------------------------------------------------
(* Putting things in order.                                                *)

IsStrictOrder(S, before) ==
  /\ \A i \in S : <<i, i>> \notin before
  /\ \A i, j, k \in S : <<i, j>> \in before /\ <<j, k>> \in before => <<i, k>> \in before
  /\ \A i, j \in S : i # j => <<i, j>> \in before \/ <<j, i>> \in before

(* Every member of a finite set has a place in its order, and no two have  *)
(* the same.                                                               *)
LEMMA InOrderIs ==
  ASSUME NEW S, IsFiniteSet(S), NEW before, IsStrictOrder(S, before)
  PROVE  LET f == InOrder(S, before) IN
         /\ Cardinality(S) \in Nat
         /\ f \in [1 .. Cardinality(S) -> S]
         /\ \A i \in S : \E k \in 1 .. Cardinality(S) : f[k] = i
         /\ \A k, m \in 1 .. Cardinality(S) : f[k] = f[m] => k = m
         /\ \A k, m \in 1 .. Cardinality(S) : k < m => <<f[k], f[m]>> \in before
<1> DEFINE n == Cardinality(S)
           Ahead(i) == { j \in S : <<j, i>> \in before }
           place(i) == Cardinality(Ahead(i))
           f == InOrder(S, before)
<1>1. n \in Nat
  BY FS_CardinalityType
<1>2. ASSUME NEW i \in S
      PROVE  IsFiniteSet(Ahead(i)) /\ place(i) \in 0 .. n - 1
  <2>1. Ahead(i) \in SUBSET S /\ i \notin Ahead(i)
    BY DEF IsStrictOrder
  <2> HIDE DEF Ahead
  <2>2. IsFiniteSet(Ahead(i)) /\ place(i) <= n /\ (n = place(i) => S = Ahead(i))
    BY <2>1, FS_Subset
  <2>3. place(i) \in Nat
    BY <2>2, FS_CardinalityType
  <2> HIDE DEF place, n
  <2>4. place(i) # n
    BY <2>1, <2>2
  <2>5. QED  BY <1>1, <2>2, <2>3, <2>4
<1>3. ASSUME NEW i \in S, NEW j \in S, <<i, j>> \in before
      PROVE  place(i) < place(j)
  <2>1. Ahead(i) \in SUBSET Ahead(j) /\ i \in Ahead(j) /\ i \notin Ahead(i)
    BY <1>3 DEF IsStrictOrder
  <2>2. IsFiniteSet(Ahead(j)) /\ place(i) \in Nat /\ place(j) \in Nat
    BY <1>1, <1>2
  <2> HIDE DEF Ahead
  <2>3. place(i) <= place(j) /\ (place(j) = place(i) => Ahead(j) = Ahead(i))
    BY <2>1, <2>2, FS_Subset
  <2> HIDE DEF place
  <2>4. place(i) # place(j)
    BY <2>1, <2>3
  <2>5. QED  BY <2>2, <2>3, <2>4
<1>4. f = [ k \in 1 .. n |-> CHOOSE i \in S : place(i) = k - 1 ]
  BY DEF InOrder
<1> HIDE DEF place, Ahead, n, f
<1>5. \A i, j \in S : place(i) = place(j) => i = j
  <2>1. SUFFICES ASSUME NEW i \in S, NEW j \in S, place(i) = place(j), i # j
                 PROVE  FALSE
    OBVIOUS
  <2>2. <<i, j>> \in before \/ <<j, i>> \in before
    BY <2>1 DEF IsStrictOrder
  <2>3. place(i) < place(j) \/ place(j) < place(i)
    BY <1>3, <2>2
  <2>4. place(i) \in Nat
    BY <1>1, <1>2
  <2>5. QED  BY <2>1, <2>3, <2>4
<1>6. \A k \in 1 .. n : \E i \in S : place(i) = k - 1
  <2> DEFINE g == [ i \in S |-> place(i) + 1 ]
  <2>1. g \in [S -> 1 .. n]
    BY <1>1, <1>2
  <2>2. \A i, j \in S : g[i] = g[j] => i = j
    <3>1. \A i \in S : place(i) \in Int
      BY <1>1, <1>2
    <3>2. QED  BY <1>5, <3>1
  <2>3. g \in Injection(S, 1 .. n)
    BY <2>1, <2>2 DEF Injection, IsInjective
  <2>4. IsFiniteSet(1 .. n) /\ Cardinality(1 .. n) = n
    BY <1>1, FS_Interval
  <2>5. g \in Surjection(S, 1 .. n)
    <3> HIDE DEF g
    <3>1. QED  BY <2>3, <2>4, FS_Injection DEF n
  <2>6. \A k \in 1 .. n : \E i \in S : g[i] = k
    BY <2>5 DEF Surjection
  <2>7. ASSUME NEW k \in 1 .. n
        PROVE  \E i \in S : place(i) = k - 1
    <3>1. PICK i \in S : g[i] = k
      BY <2>6
    <3>2. place(i) \in Int /\ g[i] = place(i) + 1
      BY <1>1, <1>2
    <3>3. place(i) = k - 1
      BY <3>1, <3>2
    <3>4. QED  BY <3>3
  <2>8. QED  BY <2>7
<1>7. ASSUME NEW k \in 1 .. n
      PROVE  f[k] \in S /\ place(f[k]) = k - 1
  <2>1. f[k] = CHOOSE i \in S : place(i) = k - 1
    BY <1>4
  <2>2. QED  BY <1>6, <2>1
<1>8. f \in [1 .. n -> S]
  BY <1>4, <1>7
<1>9. \A i \in S : \E k \in 1 .. n : f[k] = i
  <2>1. SUFFICES ASSUME NEW i \in S
                 PROVE  \E k \in 1 .. n : f[k] = i
    OBVIOUS
  <2>2. place(i) + 1 \in 1 .. n /\ (place(i) + 1) - 1 = place(i)
    BY <1>1, <1>2
  <2>3. f[place(i) + 1] = i
    BY <1>5, <1>7, <2>2
  <2>4. QED  BY <2>2, <2>3
<1>10. \A k, m \in 1 .. n : f[k] = f[m] => k = m
  BY <1>1, <1>7
<1>11. \A k, m \in 1 .. n : k < m => <<f[k], f[m]>> \in before
  <2>1. SUFFICES ASSUME NEW k \in 1 .. n, NEW m \in 1 .. n, k < m, <<f[k], f[m]>> \notin before
                 PROVE  FALSE
    OBVIOUS
  <2>2. f[k] \in S /\ f[m] \in S /\ place(f[k]) = k - 1 /\ place(f[m]) = m - 1
    BY <1>7
  <2>3. f[k] # f[m]
    BY <1>10, <2>1
  <2>4. <<f[m], f[k]>> \in before
    BY <2>1, <2>2, <2>3 DEF IsStrictOrder
  <2>5. place(f[m]) < place(f[k])
    BY <1>3, <2>2, <2>4
  <2>6. QED  BY <2>1, <2>2, <2>5
<1>12. QED  BY <1>1, <1>8, <1>9, <1>10, <1>11 DEF n, f

(* A note as bags have them: some words, none of which normalise takes off. *)
IsPlain(text) ==
  IsText(text) /\ text # <<>> /\ \A i \in DOMAIN text : ~Filler(text, i)

LEMMA PlainIsNormal ==
  ASSUME NEW text, IsPlain(text)
  PROVE  normalise(text) = text
<1> DEFINE n == Len(text)
           places == { i \in DOMAIN text : ~Filler(text, i) }
           before == { p \in places \X places : p[1] < p[2] }
           kept == InOrder(places, before)
<1>1. text \in Seq(Range(text)) /\ n \in Nat /\ DOMAIN text = 1 .. n
  BY DEF IsPlain, IsText
<1>2. places = 1 .. n
  BY <1>1 DEF IsPlain
<1> HIDE DEF n
<1>3. Cardinality(places) = n
  <2>1. Cardinality(1 .. n) = n
    BY <1>1, FS_Interval
  <2>2. QED  BY <1>2, <2>1, Zenon
<1>4. \A i, j \in places : <<j, i>> \in before <=> j < i
  OBVIOUS
<1> HIDE DEF places
<1>5. ASSUME NEW i \in places
      PROVE  Cardinality({ j \in places : <<j, i>> \in before }) = i - 1
  <2>1. { j \in places : <<j, i>> \in before } = 1 .. i - 1
    BY <1>1, <1>2, <1>4
  <2>2. i - 1 \in Nat
    BY <1>1, <1>2
  <2>3. Cardinality(1 .. i - 1) = i - 1
    BY <2>2, FS_Interval
  <2>4. QED  BY <2>1, <2>3
<1> HIDE DEF before
<1> DEFINE place(i) == Cardinality({ j \in places : <<j, i>> \in before })
<1>6. kept = [ k \in 1 .. n |-> CHOOSE i \in places : place(i) = k - 1 ]
  BY <1>3 DEF InOrder
<1>7. \A i \in places : place(i) = i - 1
  BY <1>5
<1> HIDE DEF place, kept
<1>8. ASSUME NEW k \in 1 .. n
      PROVE  kept[k] = k
  <2>1. kept[k] = CHOOSE i \in places : place(i) = k - 1
    BY <1>6
  <2>2. \E i \in places : place(i) = k - 1
    BY <1>2, <1>7
  <2>3. kept[k] \in places /\ place(kept[k]) = k - 1
    BY <2>1, <2>2
  <2>4. QED  BY <1>1, <1>2, <1>7, <2>3
<1>9. DOMAIN kept = 1 .. n
  BY <1>6
<1>10. normalise(text) = [ i \in DOMAIN kept |-> text[kept[i]] ]
  BY Zenon DEF normalise, kept, before, places
<1>11. [ i \in DOMAIN kept |-> text[kept[i]] ] = [ i \in 1 .. n |-> text[i] ]
  BY <1>8, <1>9
<1>12. text = [ i \in 1 .. n |-> text[i] ]
  BY <1>1
<1>13. QED  BY <1>10, <1>11, <1>12

(* Whoever asks for a note in the words of a bag that carries it is        *)
(* answered by that bag (termsOf, expand, mentions).                       *)
LEMMA CarriedIsAnswered ==
  ASSUME NEW notes, NEW want \in notes, IsPlain(want)
  PROVE  hasNote(notes, want)
<1>1. normalise(want) = want /\ want # <<>>
  BY PlainIsNormal DEF IsPlain
<1>2. want \in termsOf(want)
  BY <1>1 DEF termsOf
<1>3. want \in expand(want)
  <2> DEFINE others == IF want \in acidityWords THEN noteCategories[<<"bright">>]
                       ELSE IF FlattenSeq(want) \in DOMAIN noteCategories
                            THEN noteCategories[FlattenSeq(want)] ELSE {}
  <2>1. expand(want) = {want} \cup others
    BY <1>1 DEF expand
  <2>2. QED  BY <2>1
<1>4. mentions(notes, want)
  BY ContainsItself DEF mentions, IsPlain
<1>5. QED  BY <1>2, <1>3, <1>4 DEF hasNote

-----------------------------------------------------------------------------
(* What the summary of a comparison names.                                 *)

LEMMA GradeIsSeverity ==
  ASSUME NEW l \in Landmarks, NEW delta \in Int
  PROVE  Grade(l, delta) \in Severities
<1> DEFINE m == Magnitude(delta)
<1>1. m \in Nat
  BY MagnitudeIs
<1>2. /\ Threshold(l).minor \in Int /\ Threshold(l).major \in Int
      /\ Threshold(l).minor < Threshold(l).major
  BY NineLandmarks DEF Threshold, InSeconds, InDegrees
<1> HIDE DEF m
<1>3. \/ m < Threshold(l).minor
      \/ m \in Threshold(l).minor .. Threshold(l).major - 1
      \/ m >= Threshold(l).major
  BY <1>1, <1>2
<1>4. Grade(l, delta) \in {"on-target", "minor", "major"}
  BY <1>3, Zenon DEF Grade, m
<1>5. QED  BY <1>4 DEF Severities

LEMMA PlaceIsNat ==
  ASSUME NEW l \in Landmarks
  PROVE  Place(l) \in Nat
<1>1. \E i \in DOMAIN LandmarkOrder : LandmarkOrder[i] = l
  BY DEF Landmarks
<1>2. Place(l) \in DOMAIN LandmarkOrder
  BY <1>1, Zenon DEF Place
<1>3. DOMAIN LandmarkOrder \subseteq Nat
  BY SMT DEF LandmarkOrder
<1>4. QED  BY <1>2, <1>3

(* Something is the worst of what has moved, and one of these comes first. *)
LEMMA SummaryIsCompared ==
  ASSUME NEW earlier, NEW later, IsBatch(earlier), IsBatch(later)
  PROVE  summarise(Differences(earlier, later))
           \in DOMAIN Differences(earlier, later) \cup {"none"}
<1> DEFINE
  d == Differences(earlier, later)
  moved == Moved(d)
  worst == { l \in moved : \A k \in moved : rank[d[k].severity] <= rank[d[l].severity] }
<1>1. DOMAIN d = Compared(earlier, later) /\ DOMAIN d \subseteq Landmarks
  BY DEF Differences, Compared
<1>2. ASSUME NEW l \in DOMAIN d
      PROVE  d[l].severity \in Severities
  <2>1. Reading(later, l) - Reading(earlier, l) \in Int
    BY <1>1, ReadingIsInt
  <2>2. d[l].severity = Grade(l, Reading(later, l) - Reading(earlier, l))
    BY <1>1 DEF Differences
  <2>3. QED  BY <1>1, <2>1, <2>2, GradeIsSeverity
<1> HIDE DEF d
<1>3. moved \subseteq DOMAIN d /\ \A l \in moved : d[l].severity \in {"minor", "major"}
  BY <1>2 DEF Moved, Severities
<1>4. rank["minor"] = 1 /\ rank["major"] = 2
  BY DEF rank, Severities
<1>5. CASE moved = {}
  <2>1. summarise(d) = "none"
    BY <1>5 DEF summarise
  <2>2. QED  BY <2>1 DEF d
<1>6. CASE moved # {}
  <2>1. worst # {}
    <3>1. CASE \E l \in moved : d[l].severity = "major"
      <4>1. PICK l \in moved : d[l].severity = "major"
        BY <3>1
      <4>2. \A k \in moved : rank[d[k].severity] <= rank[d[l].severity]
        BY <1>3, <1>4, <4>1
      <4>3. QED  BY <4>2
    <3>2. CASE \A l \in moved : d[l].severity = "minor"
      BY <1>4, <1>6, <3>2
    <3>3. QED  BY <1>3, <3>1, <3>2
  <2> DEFINE places == { Place(l) : l \in worst }
  <2>2. worst \subseteq Landmarks
    BY <1>1, <1>3
  <2>3. summarise(d) = CHOOSE l \in worst : \A k \in worst : Place(l) <= Place(k)
    BY <1>6, Zenon DEF summarise
  <2>4. worst \subseteq DOMAIN d
    BY <1>3
  <2> HIDE DEF worst
  <2>5. places \in SUBSET Nat /\ places # {}
    BY <2>1, <2>2, PlaceIsNat
  <2>6. PICK p \in places : \A q \in places : p <= q
    BY <2>5, SmallestNumber
  <2>7. \E l \in worst : \A k \in worst : Place(l) <= Place(k)
    BY <2>6
  <2>8. summarise(d) \in worst
    BY <2>3, <2>7
  <2>9. QED  BY <2>4, <2>8 DEF d
<1>7. QED  BY <1>5, <1>6
=============================================================================
