------------------------------- MODULE MCDesk -------------------------------
(***************************************************************************)
(* Instances of Desk for TLC: the seeded menu and two more lots, the names *)
(* and wishes that tell them apart, the seeded ratios with every amount    *)
(* from a small cup to a large pot, and batches around every threshold.    *)
(***************************************************************************)
EXTENDS Desk

Name(words) == [ i \in DOMAIN words |-> <<words[i]>> ]

Lot(name, length, roast, roasted, notes) ==
  [name |-> Name(name), length |-> length, roast |-> roast, roasted |-> roasted,
   notes |-> notes]

(* The seeded lots, with day 0 the day of seeding ... *)
Brazil   == Lot(<<"brazil", "cerrado", "fazenda", "rio", "verde">>, 32, "medium-dark", -8,
                {Joined("pea", "nut"), Phrase("dark", "chocolate"), Word("molasses"),
                 << <<"low">>, <<"acid", "ity">> >>})
Colombia == Lot(<<"colombia", "huila", "pitalito">>, 23, "medium-light", -16,
                {Phrase("red", "apple"), Word("caramel"), Word("orange"), Word("almond")})
Uraga    == Lot(<<"ethiopia", "guji", "uraga">>, 19, "light", -12,
                {Word("jasmine"), Word("bergamot"), Phrase("stone", "fruit"), Phrase("black", "tea")})
Sidamo   == Lot(<<"ethiopia", "sidamo", "bombe">>, 21, "light", -9,
                {Joined("blue", "berry"), Joined("straw", "berry"), Phrase("cocoa", "nib"),
                 Joined("syrup", "y")})
Bolsa    == Lot(<<"guatemala", "huehuetenango", "la", "bolsa">>, 33, "medium", -21,
                {Phrase("milk", "chocolate"), Phrase("green", "apple"), Joined("hazel", "nut"),
                 Word("honey")})
Nyeri    == Lot(<<"kenya", "nyeri", "gichathaini">>, 24, "light", -14,
                {Joined("black", "currant"), Joined("grape", "fruit"), Word("tomato"),
                 Phrase("brown", "sugar")})

(* ... and two that a shop may have added: one whose name is a part of     *)
(* another's, roasted on day 0, and one of which little is written down.   *)
PlainGuji == Lot(<<"ethiopia", "guji">>, 13, "dark", 0,
                 {Phrase("orange", "blossom"), Word("caramel")})
House     == Lot(<<"house">>, 5, "dark", NoDate, {})

SomeMenu == <<House, Brazil, Colombia, PlainGuji, Uraga, Sidamo, Bolsa, Nyeri>>

V60         == Word("v60")
Chemex      == Word("chemex")
AeroPress   == Joined("aero", "press")
FrenchPress == Phrase("french", "press")
Espresso    == Word("espresso")

SeededMethods == {V60, Chemex, AeroPress, FrenchPress, Espresso}

Recipe(ratio, bloom, seconds) ==
  [ratio |-> ratio, bloom |-> bloom, bloomSeconds |-> seconds]

SeededRecipes ==
  (<<Uraga, V60>> :> Recipe(167, 20, 45)) @@ (<<Uraga, Chemex>> :> Recipe(160, 20, 45)) @@
  (<<Sidamo, V60>> :> Recipe(160, 20, 45)) @@
  (<<Colombia, V60>> :> Recipe(167, 20, 40)) @@ (<<Colombia, Espresso>> :> Recipe(22, 0, 0)) @@
  (<<Bolsa, V60>> :> Recipe(160, 20, 45)) @@ (<<Bolsa, FrenchPress>> :> Recipe(150, 0, 0)) @@
  (<<Nyeri, V60>> :> Recipe(167, 20, 45)) @@ (<<Nyeri, AeroPress>> :> Recipe(140, 0, 0)) @@
  (<<Brazil, Espresso>> :> Recipe(20, 0, 0)) @@ (<<Brazil, FrenchPress>> :> Recipe(150, 0, 0))

(* ... and one that a shop may have added without its ratio. *)
SomeRecipes == SeededRecipes @@ (<<PlainGuji, Chemex>> :> Recipe(0, 20, 45))

(* No name; no lot's; one lot's in part; several lots'; a whole name that  *)
(* is a part of another; one beside a single other.                        *)
SomeNames ==
  { Name(n) : n \in { <<>>, <<"sumatra">>, <<"ethiopia">>, <<"ethiopia", "guji">>, <<"guji">>,
                      <<"uraga">>, <<"sidamo">>, <<"colombia">>, <<"huehuetenango">>, <<"nyeri">>,
                      <<"cerrado">>, <<"house">> } }

(* Methods by their names, one without its blank, one with a blank too     *)
(* many, one that is not set up, and none.                                 *)
SomeMethods ==
  (SeededMethods \ {AeroPress}) \cup
  {Joined("french", "press"), Phrase("aero", "press"), Word("moka"), <<>>}

Wish(words) == Name(words)
Acidity == <<"acid", "ity">>

(* The README's request; families, members of several, and things on bags; *)
(* phrases whose words mean something else; fillers; nothing, and nothing  *)
(* that anybody has.                                                       *)
SomeRequests ==
  { <<>>, <<Word("floral"), << <<"pronounced">>, Acidity >> >>,
    <<Word("chocolate"), <<<<"nut", "ty">>>> >>, <<Phrase("quite", "sweet")>>,
    <<Word("caramel")>>, <<Word("berry"), Word("tea")>>, <<<<<<"wine", "y">>>>>>,
    <<Phrase("orange", "blossom")>>, <<Phrase("stone", "fruit"), Phrase("black", "tea")>>,
    << << <<"low">>, Acidity >> >>, <<Joined("pea", "nut"), Word("molasses")>>,
    << << <<"notes">>, <<"of">>, <<"grape", "fruit">> >> >>, <<Word("smoky")>> }

(* Hours at both ends of the day, in the zones furthest from UTC; the day  *)
(* before seeding, for a clock that is behind, and days at which lots      *)
(* change their state.                                                     *)
SomeTimes ==
  [day : {-1, 0, 2, 7, 25}, hour : {0, 23}, zone : {-12, 0, 14}]

(* Left out, below zero, every tenth of a gram from SmallestWater to 40 g, *)
(* whole grams up to a litre; and every tenth of a gram of coffee from     *)
(* SmallestDose to 20 g.                                                   *)
SmallestWater == 126
SmallestDose  == 19
SomeWaters == {-1, 0} \cup SmallestWater .. 400 \cup { 10 * grams : grams \in 40 .. 1000 }
SomeDoses  == {0} \cup SmallestDose .. 200

Profile(turning, dry, crack, crackTemp, drop, dropTemp) ==
  [turningPoint |-> turning, dryEnd |-> dry, firstCrack |-> crack,
   firstCrackTemp |-> crackTemp, drop |-> drop, dropTemp |-> dropTemp]

(* Seeded: L-2401, L-2408, K-2405, K-2411. *)
GujiBatches  == { Profile(60, 270, 540, 1965, 660, 2050),
                  Profile(62, 272, 600, 1970, 750, 2075) }
NyeriBatches == { Profile(58, 260, 520, 1970, 640, 2060),
                  Profile(59, 262, 528, 1975, 648, 2065) }

(* Landmarks that were not recorded, that barely moved, and on both sides  *)
(* of each threshold; a batch that was dropped before its first crack.     *)
SomeBatches ==
  GujiBatches \cup NyeriBatches \cup
  { Profile(t, 270, c, temp, d, 2050) :
      t \in {0, 60, 75}, c \in {0, 540, 554, 555, 584, 585}, temp \in {1965, 1985},
      d \in {0, 500, 660, 690, 720} }
  \cup { Profile(60, y, 540, 0, 660, dt) : y \in {0, 284, 285, 314, 315}, dt \in {0, 2069, 2070, 2099, 2100} }

SomeBatchesOf(guji, nyeri) ==
  [ l \in {House, Brazil, Colombia, PlainGuji, Uraga, Sidamo, Bolsa, Nyeri} |->
      CASE l = Uraga -> guji [] l = Nyeri -> nyeri [] OTHER -> {} ]

EveryBatch   == SomeBatchesOf(SomeBatches, NyeriBatches)
SeededBatches == SomeBatchesOf(GujiBatches, NyeriBatches)

(* No two ratios of the instance differ by exactly a threshold, where the  *)
(* code's answer depends on how float64 rounds their difference.           *)
ASSUME NoRatioOnTheEdge ==
  \A p, q \in SomeBatches :
    Magnitude(DevelopmentTimeRatio(p) - DevelopmentTimeRatio(q)) \notin {10, 25}
=============================================================================
