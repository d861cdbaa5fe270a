-------------------------------- MODULE Desk --------------------------------
(***************************************************************************)
(* The tools that look something up or work something out, which is all of *)
(* them but diagnose_extraction (DialIn) and record_extraction (BrewLog).  *)
(* A question comes in, its handler answers or refuses it, and the next    *)
(* question follows.  None of these tools writes, so the catalogue is a    *)
(* constant and a handler is one step whatever other processes do.         *)
(***************************************************************************)
EXTENDS Scale, Roast, RestWindows, Lookup

CONSTANTS
  AskedNames,     \* what somebody may call a lot
  AskedMethods,   \* what somebody may call a method; <<>> is none
  Requests,       \* the flavours that somebody may ask for, as sequences of texts
  Limits,         \* how many suggestions may be asked for
  Times,          \* the shop's local time of a question: [day, hour, zone]
  Waters,         \* amounts of water that may be asked for, tenths of a gram
  Doses,          \* amounts of coffee that may be asked for, tenths of a gram
  Batches,        \* from lots to the sets of their batches
  NoBatch         \* a label that no batch has

(* A ratio may be missing.  Of a recipe that has one the bloom is only a   *)
(* part of the water, and takes no time or some.                           *)
ASSUME RecipesAssumption ==
  \A r \in Range(Recipes) :
    /\ r.ratio \in Int
    /\ r.ratio > 0 => r.bloom \in 0 .. r.ratio - 1 /\ r.bloomSeconds \in Nat

(* The arguments are lists of texts and whole numbers. *)
ASSUME RequestsAssumption ==
  /\ \A wanted \in Requests : wanted \in Seq(Range(wanted))
  /\ Limits \subseteq Int

ASSUME AmountsAssumption == Waters \subseteq Int /\ Doses \subseteq Int

(* Landmarks are whole seconds and tenths of a degree, 0 where nobody      *)
(* recorded one; nothing keeps them in order.                              *)
ASSUME BatchesAssumption ==
  /\ DOMAIN Batches = Lots
  /\ \A l \in Lots : \A b \in Batches[l] :
       /\ b.turningPoint \in Int /\ b.dryEnd \in Int /\ b.firstCrack \in Int
       /\ b.firstCrackTemp \in Int /\ b.drop \in Int /\ b.dropTemp \in Int

(* Roasts and dates as the catalogue has them, and every zone there is. *)
ASSUME DatesAssumption ==
  /\ \A l \in Lots : l.roast \in Roasts /\ l.roasted \in Int \cup {NoDate}
  /\ \A t \in Times : t.day \in Int /\ t.hour \in 0 .. 23 /\ t.zone \in -12 .. 14

VARIABLE answer

Idle         == [tool |-> "none"]
IsCard       == answer.tool = "scale_recipe"
IsCompared   == answer.tool = "compare_roast_batches"
IsOffer      == answer.tool = "recommend_coffee"
IsRefused    == answer.tool = "refused"

Refused(asked, why, among) ==
  [tool |-> "refused", asked |-> asked, why |-> why, among |-> among]

RefusedFor(asked, lookup) == Refused(asked, lookup.why, lookup.among)

Init == answer = Idle

-----------------------------------------------------------------------------
(* Menu and lots.                                                          *)

RoastProfiles(lot) == Batches[lot]

Instant(now) == 24 * now.day + now.hour - now.zone

Aged(lot, now) ==
  LET days == DaysOffRoast(lot.roasted, Instant(now))
  IN  [days |-> days, rest |-> Rest(days, lot.roast)]

(* An empty catalogue fails the question. *)
ListCoffees ==
  /\ answer = Idle
  /\ \E now \in Times :
       answer' = IF Menu = <<>> THEN Refused(<<>>, "empty-catalogue", {})
                 ELSE [tool |-> "list_coffees", now |-> now,
                       aged |-> [ l \in Lots |-> Aged(l, now) ],
                       methods |-> [ l \in Lots |-> MethodsFor(l) ]]

(* Batches that cannot be read are left out. *)
GetCoffee ==
  /\ answer = Idle
  /\ \E asked \in AskedNames : \E lookup \in FindCoffee(asked) :
       IF ~lookup.found THEN answer' = RefusedFor(asked, lookup)
       ELSE \E now \in Times, batches \in {RoastProfiles(lookup.coffee), {}} :
              answer' = [tool |-> "get_coffee", asked |-> asked, now |-> now,
                         coffee |-> lookup.coffee,
                         aged |-> [ l \in {lookup.coffee} |-> Aged(l, now) ],
                         methods |-> MethodsFor(lookup.coffee), batches |-> batches]

GetRecipe ==
  /\ answer = Idle
  /\ \E asked \in AskedNames, method \in AskedMethods :
       \E lookup \in pairing(asked, method) :
         answer' = IF lookup.found
                   THEN [tool |-> "get_recipe", asked |-> asked, coffee |-> lookup.coffee,
                         method |-> lookup.method, recipe |-> lookup.recipe]
                   ELSE RefusedFor(asked, lookup)

-----------------------------------------------------------------------------
(* recommend_coffee.                                                       *)

DefaultLimit == 3
EffectiveLimit(limit) == IF limit <= 0 THEN DefaultLimit ELSE limit

(* How many of the wishes of each request each lot answers. *)
Score == [ wanted \in Requests |-> [ l \in Lots |-> MatchesNotes(l.notes, wanted) ] ]

Drinks(now) == [ l \in Lots |-> restRank(Aged(l, now).rest) ]

(* The lots that match at all, best first: by what they match, then by how *)
(* they drink today, then as they stand on the menu.                       *)
Ranked(lots, wanted, now) ==
  LET score  == [ i \in DOMAIN Menu |-> Score[wanted][Menu[i]] ]
      drinks == [ i \in DOMAIN Menu |-> Drinks(now)[Menu[i]] ]
      Better(i, j) == \/ score[i] > score[j]
                      \/ score[i] = score[j] /\ drinks[i] > drinks[j]
                      \/ score[i] = score[j] /\ drinks[i] = drinks[j] /\ i < j
      places == { i \in DOMAIN Menu : Menu[i] \in lots /\ score[i] > 0 }
      sorted == InOrder(places, { p \in places \X places : Better(p[1], p[2]) })
  IN  [ k \in DOMAIN sorted |-> Menu[sorted[k]] ]

FirstOf(seq, n) == SubSeq(seq, 1, IF Len(seq) < n THEN Len(seq) ELSE n)

(* A plausible slip: the best are picked, and then those that cannot be    *)
(* brewed are taken out.                                                   *)
OffersRestrictedLast(brewable, wanted, limit, now) ==
  LET Brewable(l) == l \in brewable
  IN  SelectSeq(FirstOf(Ranked(Lots, wanted, now), EffectiveLimit(limit)), Brewable)

Offers(brewable, wanted, limit, now) ==
  FirstOf(Ranked(brewable, wanted, now), EffectiveLimit(limit))

Brewable(method) ==
  IF method = <<>> THEN Lots ELSE { l \in Lots : method \in MethodsFor(l) }

RecommendCoffee ==
  /\ answer = Idle
  /\ \E wanted \in Requests, asked \in AskedMethods, limit \in Limits, now \in Times :
       \E lookup \in IF asked = <<>> THEN { [found |-> TRUE, method |-> <<>>] }
                     ELSE FindMethod(asked) :
         IF wanted = <<>> THEN answer' = Refused(<<>>, "no-notes", {})
         ELSE IF ~lookup.found THEN answer' = RefusedFor(<<>>, lookup)
         ELSE \E offers \in { Offers(Brewable(lookup.method), wanted, limit, now) } :
                answer' = IF offers = <<>>
                          THEN [tool |-> "no-match", wanted |-> wanted,
                                method |-> lookup.method]
                          ELSE [tool |-> "recommend_coffee", wanted |-> wanted,
                                method |-> lookup.method, limit |-> limit, now |-> now,
                                offers |-> offers,
                                aged |-> [ l \in Range(offers) |-> Aged(l, now) ]]

-----------------------------------------------------------------------------
(* scale_recipe.                                                           *)

(* scaleRecipe wants exactly one amount; one that is not positive counts   *)
(* as left out.                                                            *)
OneAmount(water, dose) == (water > 0) # (dose > 0)

(* A plausible slip: two amounts are refused, none is not. *)
CardsUnchecked(recipe, water, dose) ==
  IF water > 0 /\ dose > 0 THEN {}
  ELSE IF water > 0 THEN ScaleToWater(recipe, water) ELSE ScaleToDose(recipe, dose)

Cards(recipe, water, dose) ==
  IF ~OneAmount(water, dose) THEN {}
  ELSE IF water > 0 THEN ScaleToWater(recipe, water) ELSE ScaleToDose(recipe, dose)

ScaleRecipe ==
  /\ answer = Idle
  /\ \E asked \in AskedNames, method \in AskedMethods :
       \E lookup \in pairing(asked, method) :
         IF ~lookup.found THEN answer' = RefusedFor(asked, lookup)
         ELSE \E water \in Waters, dose \in Doses :
                LET cards == Cards(lookup.recipe, water, dose) IN
                IF cards = {}
                THEN answer' = Refused(asked, IF OneAmount(water, dose) THEN "no-ratio"
                                              ELSE "amounts", {})
                ELSE \E card \in cards :
                       answer' = [tool |-> "scale_recipe", recipe |-> lookup.recipe,
                                  water |-> water, card |-> card]

-----------------------------------------------------------------------------
(* Roast batches.  A batch stands for its label.                           *)

(* FindRoastProfile finds the batches of the coffee that was named. *)
IsBatchOf(label, lot) == label \in RoastProfiles(lot)

ListRoastBatches ==
  /\ answer = Idle
  /\ \E asked \in AskedNames : \E lookup \in FindCoffee(asked) :
       answer' = IF ~lookup.found THEN RefusedFor(asked, lookup)
                 ELSE IF RoastProfiles(lookup.coffee) = {} THEN Refused(asked, "no-batches", {})
                 ELSE [tool |-> "list_roast_batches", asked |-> asked,
                       coffee |-> lookup.coffee, batches |-> RoastProfiles(lookup.coffee)]

(* Both labels the same is refused before either is looked for. *)
CompareRoastBatches ==
  /\ answer = Idle
  /\ \E asked \in AskedNames : \E lookup \in FindCoffee(asked) :
       IF ~lookup.found THEN answer' = RefusedFor(asked, lookup)
       ELSE \E earlier, later \in RoastProfiles(lookup.coffee) \cup {NoBatch} :
              answer' = IF earlier = later THEN Refused(asked, "same-batch", {})
                        ELSE IF \E b \in {earlier, later} : ~IsBatchOf(b, lookup.coffee)
                             THEN Refused(asked, "no-such-batch", {})
                        ELSE [tool |-> "compare_roast_batches",
                              earlier |-> earlier, later |-> later,
                              comparison |-> CompareProfiles(earlier, later)]

-----------------------------------------------------------------------------

(* The arguments cannot be decoded, or a call of the store fails, on a     *)
(* cancelled context or a bad disk: whichever tool it is returns the error.*)
HandlerFails ==
  /\ answer = Idle
  /\ \E why \in {"arguments", "store"} : answer' = Refused(<<>>, why, {})

TakeAnswer ==
  /\ answer # Idle
  /\ answer' = Idle

Next ==
  \/ ListCoffees \/ GetCoffee \/ GetRecipe \/ ScaleRecipe \/ RecommendCoffee
  \/ ListRoastBatches \/ CompareRoastBatches
  \/ HandlerFails \/ TakeAnswer

Spec == Init /\ [][Next]_answer

-----------------------------------------------------------------------------
(* Properties.                                                             *)

(* A card has coffee and water on it, and no pour takes water out; a       *)
(* comparison is of two batches and names one of its landmarks or none; an *)
(* offer has lots on it, and no lot twice.                                 *)
TypeOK ==
  /\ answer.tool \in {"none", "refused", "no-match", "list_coffees", "get_coffee", "get_recipe",
                      "scale_recipe", "recommend_coffee", "list_roast_batches",
                      "compare_roast_batches"}
  /\ IsCard =>
       /\ answer.recipe \in Range(Recipes)
       /\ answer.card.dose > 0 /\ answer.card.water > 0 /\ answer.card.bloom >= 0
       /\ \A i \in DOMAIN answer.card.pours : answer.card.pours[i].grams >= 0
  /\ IsCompared =>
       answer.comparison.summary \in DOMAIN answer.comparison.differences \cup {"none"}
  /\ IsOffer =>
       /\ Range(answer.offers) \subseteq Lots /\ answer.offers # <<>>
       /\ IsInjective(answer.offers)

(* A name finds one lot: the only one whose name it is a part of, or the   *)
(* one that it names in full; and it is refused only when there is none,   *)
(* or when it says too little to tell two apart (FindCoffee, whose query   *)
(* reads no more than two rows).                                           *)
NameFindsOneLot ==
  /\ "asked" \in DOMAIN answer /\ ~IsRefused =>
       /\ answer.coffee \in Matching(answer.asked)
       /\ Matching(answer.asked) = {answer.coffee} \/ answer.coffee.name = answer.asked
  /\ IsRefused /\ answer.why = "unknown" => Matching(answer.asked) = {}
  /\ IsRefused /\ answer.why = "ambiguous" =>
       /\ Cardinality(answer.among) = 2
       /\ answer.among \subseteq Matching(answer.asked)
       /\ \A l \in Lots : l.name # answer.asked

(* Wherever the shop is and whatever the hour, a lot roasted on a day that *)
(* its calendar has reached is of a known age, at most a day from what the *)
(* calendar says (DaysOffRoast, which takes a local date for one of UTC).  *)
AgeTracksCalendar ==
  "aged" \in DOMAIN answer =>
    \A l \in Lots \cap DOMAIN answer.aged :
      l.roasted # NoDate /\ l.roasted <= answer.now.day =>
        /\ answer.aged[l].rest # "unknown"
        /\ answer.aged[l].days >= 0
        /\ Magnitude(answer.aged[l].days - (answer.now.day - l.roasted)) <= 1

(* What is recommended can be brewed on the method that was named, comes   *)
(* best first, and leaves nobody out who would have been better.  What a   *)
(* lot has on its bag counts for it in the words of the bag: it makes way  *)
(* only for lots that answer as many wishes as it carries, and nothing     *)
(* matches only when nobody carries one (recommendCoffee, MatchesNotes).   *)
OffersAreTheBest ==
  IsOffer \/ answer.tool = "no-match" =>
    LET suitable   == Brewable(answer.method)
        score      == Score[answer.wanted]
        Carried(l) == Cardinality({ i \in DOMAIN answer.wanted : answer.wanted[i] \in l.notes })
    IN
    IF ~IsOffer THEN \A l \in suitable : Carried(l) = 0
    ELSE
      LET offers == answer.offers
          last   == offers[Len(offers)]
          drinks == Drinks(answer.now)
          Beats(k, l) == score[k] > score[l] \/ (score[k] = score[l] /\ drinks[k] > drinks[l])
      IN  /\ Range(offers) \subseteq suitable
          /\ \A i, j \in DOMAIN offers : i < j => ~Beats(offers[j], offers[i])
          /\ \A l \in suitable \ Range(offers) :
               /\ score[l] > 0 => Len(offers) = EffectiveLimit(answer.limit) /\ ~Beats(l, last)
               /\ Carried(l) <= score[last]

(* The pours of a card add up to its water, to the tenth that the scale    *)
(* shows, and so does every running total on the way; they come in the     *)
(* order of their times (scale, buildPours).                               *)
PoursAddUp ==
  IsCard =>
    LET pours == answer.card.pours
        Poured[n \in 0 .. Len(pours)] ==
          IF n = 0 THEN 0 ELSE Poured[n - 1] + pours[n].grams
    IN  /\ answer.recipe.bloom > 0 <=> pours # <<>>
        /\ \A i \in DOMAIN pours : pours[i].total = Poured[i]
        /\ pours # <<>> => Poured[Len(pours)] = answer.card.water
        /\ \A i \in 1 .. Len(pours) - 1 : pours[i].at <= pours[i + 1].at

(* Whoever brews what the card says, with the water in whole grams as it   *)
(* is printed, is not told by diagnose_extraction that the ratio is off    *)
(* (scale, Card; appendRatio).                                             *)
CardBrewsOnRatio ==
  IsCard =>
    \A water \in PrintedWater(answer.card) :
      Ratio(answer.recipe, [dose |-> answer.card.dose, water |-> water]).severity
        = "on-target"

(* Scaling to the dose of a card gives its water back, but for the half    *)
(* tenth of coffee that rounding the dose may take or add                  *)
(* (ScaleToWater, ScaleToDose).                                            *)
ScalesBack ==
  IsCard =>
    \A back \in ScaleToDose(answer.recipe, answer.card.dose) :
      20 * Magnitude(back.water - answer.card.water) <= answer.recipe.ratio + 20

(* The phases account for the whole roast: what drying, browning and       *)
(* development moved by is what the total moved by.  And no phase, nor the *)
(* ratio, is compared of a batch that lacks one of its two landmarks or    *)
(* has them in the wrong order (CompareProfiles, MaillardSeconds,          *)
(* DevelopmentSeconds).                                                    *)
PhasesAccount ==
  IsCompared =>
    LET d == answer.comparison.differences IN
    /\ {"dry-end", "maillard", "development", "total-roast"} \subseteq DOMAIN d =>
         d["total-roast"].change
           = d["dry-end"].change + d["maillard"].change + d["development"].change
    /\ \A b \in {answer.earlier, answer.later} :
         /\ "maillard" \in DOMAIN d => 0 < b.dryEnd /\ b.dryEnd < b.firstCrack
         /\ {"development", "development-time-ratio"} \cap DOMAIN d # {} =>
              0 < b.firstCrack /\ b.firstCrack < b.drop

(* Which batch is called the earlier one changes the signs and nothing     *)
(* else: the same landmarks are compared and graded alike, and the summary *)
(* names the same one (CompareProfiles, summarise).                        *)
SameBothWays ==
  IsCompared =>
    LET there == answer.comparison
        back  == CompareProfiles(answer.later, answer.earlier)
    IN  /\ DOMAIN back.differences = DOMAIN there.differences
        /\ \A l \in DOMAIN there.differences :
             /\ back.differences[l].change = -there.differences[l].change
             /\ back.differences[l].severity = there.differences[l].severity
        /\ back.summary = there.summary

(* "summarise names the largest movement" (roast.go): no landmark in       *)
(* seconds moved by more than the one that the summary says moved most.    *)
SummaryMovedMost ==
  IsCompared =>
    LET d == answer.comparison.differences
        named == answer.comparison.summary
    IN  named \in InSeconds =>
          \A l \in DOMAIN d \cap InSeconds :
            Magnitude(d[l].change) <= Magnitude(d[named].change)
=============================================================================
