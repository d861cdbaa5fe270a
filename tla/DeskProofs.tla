----------------------------- MODULE DeskProofs -----------------------------
(***************************************************************************)
(* What the tools that only look up and work out promise for every menu,   *)
(* every question and every time of it.                                    *)
(***************************************************************************)
EXTENDS Desk, ToolProofs

(* The age that is shown for a lot, at any time, in any zone. *)
LEMMA AgeOfLot ==
  ASSUME NEW l \in Lots, NEW now \in Times, l.roasted # NoDate, l.roasted <= now.day
  PROVE  /\ Aged(l, now).rest # "unknown"
         /\ Aged(l, now).days >= 0
         /\ Magnitude(Aged(l, now).days - (now.day - l.roasted)) <= 1
<1> DEFINE days == DaysOffRoast(l.roasted, 24 * now.day + now.hour - now.zone)
<1>1. l.roasted \in Int /\ l.roast \in Roasts
  BY DatesAssumption
<1>2. now.day \in Int /\ now.hour \in 0 .. 23 /\ now.zone \in Zones
  BY DatesAssumption DEF Zones
<1>3. /\ days \in Nat
      /\ days - (now.day - l.roasted) \in -1 .. 1
      /\ Rest(days, l.roast) # "unknown"
  BY <1>1, <1>2, KnownSinceRoasted
<1>4. Aged(l, now) = [days |-> days, rest |-> Rest(days, l.roast)]
  BY DEF Aged, Instant
<1> HIDE DEF days
<1>5. Magnitude(days - (now.day - l.roasted)) <= 1
  <2>1. days - (now.day - l.roasted) \in Int
    BY <1>3
  <2>2. QED  BY <1>3, <2>1, SMT DEF Magnitude
<1>6. days >= 0
  BY <1>3
<1>7. QED  BY <1>3, <1>4, <1>5, <1>6

-----------------------------------------------------------------------------
(* What an answer may be.                                                  *)

ListOf(now) ==
  [tool |-> "list_coffees", now |-> now,
   aged |-> [ l \in Lots |-> Aged(l, now) ],
   methods |-> [ l \in Lots |-> MethodsFor(l) ]]

CoffeeShown(asked, coffee, now, batches) ==
  [tool |-> "get_coffee", asked |-> asked, now |-> now, coffee |-> coffee,
   aged |-> [ l \in {coffee} |-> Aged(l, now) ],
   methods |-> MethodsFor(coffee), batches |-> batches]

RecipeShown(asked, coffee, method, recipe) ==
  [tool |-> "get_recipe", asked |-> asked, coffee |-> coffee,
   method |-> method, recipe |-> recipe]

CardShown(recipe, water, card) ==
  [tool |-> "scale_recipe", recipe |-> recipe, water |-> water, card |-> card]

NoMatch(wanted, method) ==
  [tool |-> "no-match", wanted |-> wanted, method |-> method]

Offered(wanted, method, limit, now, offers) ==
  [tool |-> "recommend_coffee", wanted |-> wanted,
   method |-> method, limit |-> limit, now |-> now,
   offers |-> offers,
   aged |-> [ l \in Range(offers) |-> Aged(l, now) ]]

BatchesShown(asked, coffee) ==
  [tool |-> "list_roast_batches", asked |-> asked,
   coffee |-> coffee, batches |-> RoastProfiles(coffee)]

Comparison(earlier, later) ==
  [tool |-> "compare_roast_batches", earlier |-> earlier, later |-> later,
   comparison |-> CompareProfiles(earlier, later)]

(* The lot that a name found, and the refusal of one that found none.      *)
NamesLot(asked, coffee) ==
  /\ coffee \in Matching(asked)
  /\ Matching(asked) = {coffee} \/ coffee.name = asked

JustRefused(asked, why, among) ==
  /\ why = "unknown" => Matching(asked) = {}
  /\ why = "ambiguous" =>
       /\ Cardinality(among) = 2
       /\ among \subseteq Matching(asked)
       /\ \A l \in Lots : l.name # asked

Refuses ==
  \E asked, why, among :
    JustRefused(asked, why, among) /\ answer' = Refused(asked, why, among)

ShowsList == \E now \in Times : answer' = ListOf(now)

ShowsCoffee ==
  \E asked, coffee, batches : \E now \in Times :
    NamesLot(asked, coffee) /\ answer' = CoffeeShown(asked, coffee, now, batches)

ShowsRecipe ==
  \E asked, coffee, method, recipe :
    NamesLot(asked, coffee) /\ answer' = RecipeShown(asked, coffee, method, recipe)

ShowsCard ==
  \E recipe \in Range(Recipes), water \in Waters, dose \in Doses :
    \E card \in Cards(recipe, water, dose) : answer' = CardShown(recipe, water, card)

FindsNoMatch ==
  \E wanted \in Requests, limit \in Limits, now \in Times : \E method :
    /\ Offers(Brewable(method), wanted, limit, now) = <<>>
    /\ answer' = NoMatch(wanted, method)

OffersLots ==
  \E wanted \in Requests, limit \in Limits, now \in Times : \E method, offers :
    /\ offers = Offers(Brewable(method), wanted, limit, now)
    /\ offers # <<>>
    /\ answer' = Offered(wanted, method, limit, now, offers)

ShowsBatches ==
  \E asked, coffee :
    NamesLot(asked, coffee) /\ answer' = BatchesShown(asked, coffee)

ShowsComparison ==
  \E earlier, later :
    IsBatch(earlier) /\ IsBatch(later) /\ answer' = Comparison(earlier, later)

-----------------------------------------------------------------------------
(* What each handler answers.                                              *)

LEMMA OtherRefusals ==
  ASSUME NEW why \in {"empty-catalogue", "no-name", "no-such-method", "no-recipe", "no-notes",
                      "amounts", "no-ratio", "no-batches", "same-batch", "no-such-batch",
                      "arguments", "store"},
         NEW asked, NEW among
  PROVE  JustRefused(asked, why, among)
BY DEF JustRefused

LEMMA CoffeeFound ==
  ASSUME NEW asked, NEW lookup \in FindCoffee(asked)
  PROVE  \/ lookup.found = TRUE /\ NamesLot(asked, lookup.coffee)
         \/ lookup.found = FALSE /\ JustRefused(asked, lookup.why, lookup.among)
<1>1. CASE FoundOne(asked, lookup)
  BY <1>1 DEF FoundOne, NamesLot
<1>2. CASE FoundNone(asked, lookup)
  BY <1>2 DEF FoundNone, JustRefused
<1>3. QED  BY <1>1, <1>2, NameFindsOne

LEMMA PairingFound ==
  ASSUME NEW asked, NEW method, NEW lookup \in pairing(asked, method)
  PROVE  \/ /\ lookup.found = TRUE /\ NamesLot(asked, lookup.coffee)
            /\ lookup.recipe \in Range(Recipes)
         \/ lookup.found = FALSE /\ JustRefused(asked, lookup.why, lookup.among)
<1> DEFINE
  OfMethod(c, m) == IF m.found THEN Joint(c.coffee, m.method) ELSE {m}
  OfCoffee(c) == IF ~c.found THEN {c}
                 ELSE UNION { OfMethod(c, m) : m \in FindMethod(method) }
<1>1. PICK c \in FindCoffee(asked) : lookup \in OfCoffee(c)
  BY DEF pairing
<1>2. CASE c.found = FALSE
  <2>1. lookup = c
    BY <1>1, <1>2
  <2>2. QED  BY <1>2, <2>1, CoffeeFound
<1>3. CASE c.found = TRUE
  <2>1. NamesLot(asked, c.coffee)
    BY <1>3, CoffeeFound
  <2>2. PICK m \in FindMethod(method) : lookup \in OfMethod(c, m)
    BY <1>1, <1>3
  <2>3. \/ m = Refusal("no-name", {}) \/ m = Refusal("no-such-method", {})
        \/ m.found = TRUE
    BY DEF FindMethod
  <2>4. CASE m = Refusal("no-name", {}) \/ m = Refusal("no-such-method", {})
    <3>1. m.found = FALSE /\ m.why \in {"no-name", "no-such-method"}
      BY <2>4 DEF Refusal
    <3>2. lookup = m
      BY <2>2, <3>1
    <3>3. QED  BY <3>1, <3>2, OtherRefusals
  <2>5. CASE m.found = TRUE
    <3>1. lookup \in Joint(c.coffee, m.method)
      BY <2>2, <2>5
    <3>2. CASE <<c.coffee, m.method>> \in DOMAIN Recipes
      <4>1. lookup = [found |-> TRUE, coffee |-> c.coffee, method |-> m.method,
                      recipe |-> Recipes[c.coffee, m.method]]
        <5>1. Joint(c.coffee, m.method)
                = { [found |-> TRUE, coffee |-> c.coffee, method |-> m.method,
                     recipe |-> Recipes[c.coffee, m.method]] }
          BY <3>2, Zenon DEF Joint
        <5>2. QED  BY <3>1, <5>1, Zenon
      <4>2. Recipes[c.coffee, m.method] \in Range(Recipes)
        BY <3>2, Zenon DEF Range
      <4>3. QED  BY <2>1, <4>1, <4>2
    <3>3. CASE <<c.coffee, m.method>> \notin DOMAIN Recipes
      <4>1. PICK available : lookup = Refusal("no-recipe", available)
        BY <3>1, <3>3 DEF Joint
      <4>2. lookup.found = FALSE /\ lookup.why = "no-recipe"
        BY <4>1 DEF Refusal
      <4>3. QED  BY <4>2, OtherRefusals
    <3>4. QED  BY <3>2, <3>3
  <2>6. QED  BY <2>3, <2>4, <2>5
<1>4. QED  BY <1>2, <1>3, CoffeeFound

LEMMA RefusedForIs ==
  ASSUME NEW asked, NEW lookup, JustRefused(asked, lookup.why, lookup.among),
         answer' = RefusedFor(asked, lookup)
  PROVE  Refuses
BY DEF RefusedFor, Refuses

LEMMA RefusedIs ==
  ASSUME NEW why \in {"empty-catalogue", "no-name", "no-such-method", "no-recipe", "no-notes",
                      "amounts", "no-ratio", "no-batches", "same-batch", "no-such-batch",
                      "arguments", "store"},
         NEW asked, NEW among, answer' = Refused(asked, why, among)
  PROVE  Refuses
BY OtherRefusals DEF Refuses

LEMMA ListAnswers ==
  ASSUME ListCoffees
  PROVE  Refuses \/ ShowsList
<1>1. PICK now \in Times :
        answer' = IF Menu = <<>> THEN Refused(<<>>, "empty-catalogue", {}) ELSE ListOf(now)
  BY DEF ListCoffees, ListOf
<1>2. CASE answer' = Refused(<<>>, "empty-catalogue", {})
  BY <1>2, RefusedIs
<1>3. CASE answer' = ListOf(now)
  BY <1>3 DEF ShowsList
<1>4. QED  BY <1>1, <1>2, <1>3

LEMMA CoffeeAnswers ==
  ASSUME GetCoffee
  PROVE  Refuses \/ ShowsCoffee
<1> DEFINE
  Answered(asked, lookup) ==
    IF ~lookup.found THEN answer' = RefusedFor(asked, lookup)
    ELSE \E now \in Times, batches \in {RoastProfiles(lookup.coffee), {}} :
           answer' = CoffeeShown(asked, lookup.coffee, now, batches)
<1>1. PICK asked \in AskedNames : \E lookup \in FindCoffee(asked) : Answered(asked, lookup)
  BY DEF GetCoffee, CoffeeShown
<1>2. PICK lookup \in FindCoffee(asked) : Answered(asked, lookup)
  BY <1>1
<1>3. CASE lookup.found = FALSE
  <2>1. JustRefused(asked, lookup.why, lookup.among)
    BY <1>3, CoffeeFound
  <2>2. QED  BY <1>2, <1>3, <2>1, RefusedForIs
<1>4. CASE lookup.found = TRUE
  <2>1. NamesLot(asked, lookup.coffee)
    BY <1>4, CoffeeFound
  <2>2. QED  BY <1>2, <1>4, <2>1 DEF ShowsCoffee
<1>5. QED  BY <1>3, <1>4, CoffeeFound

LEMMA RecipeAnswers ==
  ASSUME GetRecipe
  PROVE  Refuses \/ ShowsRecipe
<1> DEFINE
  Answered(asked, lookup) ==
    answer' = IF lookup.found
              THEN RecipeShown(asked, lookup.coffee, lookup.method, lookup.recipe)
              ELSE RefusedFor(asked, lookup)
<1>1. PICK asked \in AskedNames, method \in AskedMethods :
        \E lookup \in pairing(asked, method) : Answered(asked, lookup)
  BY DEF GetRecipe, RecipeShown
<1>2. PICK lookup \in pairing(asked, method) : Answered(asked, lookup)
  BY <1>1
<1>3. CASE lookup.found = FALSE
  <2>1. JustRefused(asked, lookup.why, lookup.among)
    BY <1>3, PairingFound
  <2>2. QED  BY <1>2, <1>3, <2>1, RefusedForIs
<1>4. CASE lookup.found = TRUE
  <2>1. NamesLot(asked, lookup.coffee)
    BY <1>4, PairingFound
  <2>2. QED  BY <1>2, <1>4, <2>1 DEF ShowsRecipe
<1>5. QED  BY <1>3, <1>4, PairingFound

LEMMA ScaleAnswers ==
  ASSUME ScaleRecipe
  PROVE  Refuses \/ ShowsCard
<1> DEFINE
  Why(water, dose) == IF OneAmount(water, dose) THEN "no-ratio" ELSE "amounts"
  Scaled(asked, recipe, water, dose) ==
    IF Cards(recipe, water, dose) = {} THEN answer' = Refused(asked, Why(water, dose), {})
    ELSE \E card \in Cards(recipe, water, dose) : answer' = CardShown(recipe, water, card)
  Answered(asked, lookup) ==
    IF ~lookup.found THEN answer' = RefusedFor(asked, lookup)
    ELSE \E water \in Waters, dose \in Doses : Scaled(asked, lookup.recipe, water, dose)
<1>1. PICK asked \in AskedNames, method \in AskedMethods :
        \E lookup \in pairing(asked, method) : Answered(asked, lookup)
  BY Zenon DEF ScaleRecipe, CardShown
<1>2. PICK lookup \in pairing(asked, method) : Answered(asked, lookup)
  BY <1>1
<1>3. CASE lookup.found = FALSE
  <2>1. JustRefused(asked, lookup.why, lookup.among)
    BY <1>3, PairingFound
  <2>2. QED  BY <1>2, <1>3, <2>1, RefusedForIs
<1>4. CASE lookup.found = TRUE
  <2>1. lookup.recipe \in Range(Recipes)
    BY <1>4, PairingFound
  <2>2. PICK water \in Waters, dose \in Doses : Scaled(asked, lookup.recipe, water, dose)
    BY <1>2, <1>4
  <2>3. CASE answer' = Refused(asked, Why(water, dose), {})
    BY <2>3, RefusedIs
  <2>4. CASE \E card \in Cards(lookup.recipe, water, dose) :
               answer' = CardShown(lookup.recipe, water, card)
    BY <2>1, <2>4 DEF ShowsCard
  <2>5. QED  BY <2>2, <2>3, <2>4
<1>5. QED  BY <1>3, <1>4, PairingFound

LEMMA RecommendAnswers ==
  ASSUME RecommendCoffee
  PROVE  Refuses \/ FindsNoMatch \/ OffersLots
<1> DEFINE
  Answered(wanted, lookup, limit, now) ==
    IF wanted = <<>> THEN answer' = Refused(<<>>, "no-notes", {})
    ELSE IF ~lookup.found THEN answer' = RefusedFor(<<>>, lookup)
    ELSE \E offers \in { Offers(Brewable(lookup.method), wanted, limit, now) } :
           answer' = IF offers = <<>> THEN NoMatch(wanted, lookup.method)
                     ELSE Offered(wanted, lookup.method, limit, now, offers)
  Lookups(asked) == IF asked = <<>> THEN { [found |-> TRUE, method |-> <<>>] }
                    ELSE FindMethod(asked)
<1>1. PICK wanted \in Requests, asked \in AskedMethods, limit \in Limits, now \in Times :
        \E lookup \in Lookups(asked) : Answered(wanted, lookup, limit, now)
  BY Zenon DEF RecommendCoffee, NoMatch, Offered
<1>2. PICK lookup \in Lookups(asked) : Answered(wanted, lookup, limit, now)
  BY <1>1, Zenon
<1> DEFINE offers == Offers(Brewable(lookup.method), wanted, limit, now)
<1>3. \/ answer' = Refused(<<>>, "no-notes", {})
      \/ ~lookup.found /\ answer' = RefusedFor(<<>>, lookup)
      \/ offers = <<>> /\ answer' = NoMatch(wanted, lookup.method)
      \/ offers # <<>> /\ answer' = Offered(wanted, lookup.method, limit, now, offers)
  BY <1>2, Zenon
<1>4. CASE answer' = Refused(<<>>, "no-notes", {})
  BY <1>4, RefusedIs
<1>5. CASE ~lookup.found /\ answer' = RefusedFor(<<>>, lookup)
  <2>1. \/ lookup = [found |-> TRUE, method |-> <<>>]
        \/ lookup \in FindMethod(asked)
    BY <1>2, Zenon
  <2>2. lookup # [found |-> TRUE, method |-> <<>>]
    BY <1>5
  <2>3. \/ lookup = Refusal("no-name", {}) \/ lookup = Refusal("no-such-method", {})
        \/ \E m \in Methods : lookup = [found |-> TRUE, method |-> m]
    BY <2>1, <2>2, Zenon DEF FindMethod
  <2>4. lookup.why \in {"no-name", "no-such-method"}
    BY <1>5, <2>3 DEF Refusal
  <2>5. QED  BY <1>5, <2>4, RefusedForIs, OtherRefusals
<1>6. CASE offers = <<>> /\ answer' = NoMatch(wanted, lookup.method)
  BY <1>6, Zenon DEF FindsNoMatch
<1>7. CASE offers # <<>> /\ answer' = Offered(wanted, lookup.method, limit, now, offers)
  BY <1>7, Zenon DEF OffersLots
<1>8. QED  BY <1>3, <1>4, <1>5, <1>6, <1>7, Zenon

LEMMA ListBatchesAnswers ==
  ASSUME ListRoastBatches
  PROVE  Refuses \/ ShowsBatches
<1> DEFINE
  Answered(asked, lookup) ==
    answer' = IF ~lookup.found THEN RefusedFor(asked, lookup)
              ELSE IF RoastProfiles(lookup.coffee) = {} THEN Refused(asked, "no-batches", {})
              ELSE BatchesShown(asked, lookup.coffee)
<1>1. PICK asked \in AskedNames : \E lookup \in FindCoffee(asked) : Answered(asked, lookup)
  BY Zenon DEF ListRoastBatches, BatchesShown
<1>2. PICK lookup \in FindCoffee(asked) : Answered(asked, lookup)
  BY <1>1
<1>3. CASE lookup.found = FALSE
  <2>1. JustRefused(asked, lookup.why, lookup.among)
    BY <1>3, CoffeeFound
  <2>2. QED  BY <1>2, <1>3, <2>1, RefusedForIs
<1>4. CASE lookup.found = TRUE
  <2>1. NamesLot(asked, lookup.coffee)
    BY <1>4, CoffeeFound
  <2>2. \/ answer' = Refused(asked, "no-batches", {})
        \/ answer' = BatchesShown(asked, lookup.coffee)
    BY <1>2, <1>4
  <2>3. QED  BY <2>1, <2>2, RefusedIs DEF ShowsBatches
<1>5. QED  BY <1>3, <1>4, CoffeeFound

LEMMA CompareAnswers ==
  ASSUME CompareRoastBatches
  PROVE  Refuses \/ ShowsComparison
<1> DEFINE
  AnsweredOf(asked, lookup, earlier, later) ==
    answer' = IF earlier = later THEN Refused(asked, "same-batch", {})
              ELSE IF \E b \in {earlier, later} : ~IsBatchOf(b, lookup.coffee)
                   THEN Refused(asked, "no-such-batch", {})
              ELSE Comparison(earlier, later)
  Answered(asked, lookup) ==
    IF ~lookup.found THEN answer' = RefusedFor(asked, lookup)
    ELSE \E earlier, later \in RoastProfiles(lookup.coffee) \cup {NoBatch} :
           AnsweredOf(asked, lookup, earlier, later)
<1>1. PICK asked \in AskedNames : \E lookup \in FindCoffee(asked) : Answered(asked, lookup)
  BY Zenon DEF CompareRoastBatches, Comparison
<1>2. PICK lookup \in FindCoffee(asked) : Answered(asked, lookup)
  BY <1>1
<1>3. CASE lookup.found = FALSE
  <2>1. JustRefused(asked, lookup.why, lookup.among)
    BY <1>3, CoffeeFound
  <2>2. QED  BY <1>2, <1>3, <2>1, RefusedForIs
<1>4. CASE lookup.found = TRUE
  <2>1. lookup.coffee \in Lots
    BY <1>4, CoffeeFound DEF NamesLot, Matching
  <2>2. PICK earlier \in RoastProfiles(lookup.coffee) \cup {NoBatch},
             later \in RoastProfiles(lookup.coffee) \cup {NoBatch} :
          AnsweredOf(asked, lookup, earlier, later)
    BY <1>2, <1>4
  <2>3. \/ answer' = Refused(asked, "same-batch", {})
        \/ answer' = Refused(asked, "no-such-batch", {})
        \/ /\ \A b \in {earlier, later} : IsBatchOf(b, lookup.coffee)
           /\ answer' = Comparison(earlier, later)
    BY <2>2
  <2>4. CASE \/ answer' = Refused(asked, "same-batch", {})
             \/ answer' = Refused(asked, "no-such-batch", {})
    BY <2>4, RefusedIs
  <2>5. CASE /\ \A b \in {earlier, later} : IsBatchOf(b, lookup.coffee)
             /\ answer' = Comparison(earlier, later)
    <3>1. \A b \in Batches[lookup.coffee] : IsBatch(b)
      BY <2>1, BatchesAssumption DEF IsBatch
    <3>2. IsBatch(earlier) /\ IsBatch(later)
      BY <2>5, <3>1 DEF IsBatchOf, RoastProfiles
    <3>3. QED  BY <2>5, <3>2 DEF ShowsComparison
  <2>6. QED  BY <2>3, <2>4, <2>5
<1>5. QED  BY <1>3, <1>4, CoffeeFound

LEMMA FailureAnswers ==
  ASSUME HandlerFails
  PROVE  Refuses
<1>1. PICK why \in {"arguments", "store"} : answer' = Refused(<<>>, why, {})
  BY Zenon DEF HandlerFails
<1>2. QED  BY <1>1, RefusedIs

(* A step gives an answer of one of these shapes, or takes it.             *)
LEMMA StepAnswers ==
  ASSUME Next
  PROVE  \/ Refuses \/ ShowsList \/ ShowsCoffee \/ ShowsRecipe \/ ShowsCard
         \/ FindsNoMatch \/ OffersLots \/ ShowsBatches \/ ShowsComparison
         \/ answer' = Idle
BY ListAnswers, CoffeeAnswers, RecipeAnswers, ScaleAnswers, RecommendAnswers,
   ListBatchesAnswers, CompareAnswers, FailureAnswers DEF Next, TakeAnswer

-----------------------------------------------------------------------------
(* recommend_coffee.                                                       *)

LEMMA ScoreIsNumber ==
  ASSUME NEW wanted \in Requests, NEW l \in Lots
  PROVE  /\ Score[wanted][l] = MatchesNotes(l.notes, wanted)
         /\ Score[wanted][l] \in Nat
         /\ IsFiniteSet({ i \in DOMAIN wanted : hasNote(l.notes, wanted[i]) })
<1> DEFINE answered == { i \in DOMAIN wanted : hasNote(l.notes, wanted[i]) }
<1>1. Score[wanted][l] = MatchesNotes(l.notes, wanted)
  BY DEF Score
<1>2. MatchesNotes(l.notes, wanted) = Cardinality(answered)
  BY DEF MatchesNotes
<1>3. DOMAIN wanted = 1 .. Len(wanted) /\ Len(wanted) \in Nat
  BY RequestsAssumption
<1>4. IsFiniteSet(DOMAIN wanted) /\ answered \in SUBSET (DOMAIN wanted)
  BY <1>3, FS_Interval
<1> HIDE DEF answered
<1>5. IsFiniteSet(answered) /\ Cardinality(answered) \in Nat
  BY <1>4, FS_Subset, FS_CardinalityType
<1>6. QED  BY <1>1, <1>2, <1>5 DEF answered

LEMMA DrinksIsNumber ==
  ASSUME NEW now \in Times, NEW l \in Lots
  PROVE  Drinks(now)[l] \in Nat
<1>1. Drinks(now)[l] = restRank(Aged(l, now).rest)
  BY DEF Drinks
<1>2. Aged(l, now).rest \in {"unknown", "too-fresh", "resting", "peak", "fading", "stale"}
  BY DEF Aged, Rest
<1> DEFINE rest == Aged(l, now).rest
<1> HIDE DEF rest
<1>3. rest \in {"unknown", "too-fresh", "resting", "peak", "fading", "stale"}
        => restRank(rest) \in Nat
  BY DEF restRank
<1>4. QED  BY <1>1, <1>2, <1>3 DEF rest

(* One lot is better than another for a request at a time. *)
Beats(k, l, wanted, now) ==
  \/ Score[wanted][k] > Score[wanted][l]
  \/ (Score[wanted][k] = Score[wanted][l] /\ Drinks(now)[k] > Drinks(now)[l])

(* A ranking has every lot that matches, each once, the best first.        *)
IsRanking(ranked, lots, wanted, now) ==
  /\ Len(ranked) \in Nat
  /\ ranked \in [1 .. Len(ranked) -> lots]
  /\ \A k \in 1 .. Len(ranked) : Score[wanted][ranked[k]] > 0
  /\ \A l \in lots : Score[wanted][l] > 0 => \E k \in 1 .. Len(ranked) : ranked[k] = l
  /\ \A k, m \in 1 .. Len(ranked) : ranked[k] = ranked[m] => k = m
  /\ \A k, m \in 1 .. Len(ranked) : k < m => ~Beats(ranked[m], ranked[k], wanted, now)

LEMMA RankedIs ==
  ASSUME NEW lots \in SUBSET Lots, NEW wanted \in Requests, NEW now \in Times
  PROVE  IsRanking(Ranked(lots, wanted, now), lots, wanted, now)
<1> DEFINE
  score  == [ i \in DOMAIN Menu |-> Score[wanted][Menu[i]] ]
  drinks == [ i \in DOMAIN Menu |-> Drinks(now)[Menu[i]] ]
  Better(i, j) == \/ score[i] > score[j]
                  \/ score[i] = score[j] /\ drinks[i] > drinks[j]
                  \/ score[i] = score[j] /\ drinks[i] = drinks[j] /\ i < j
  places == { i \in DOMAIN Menu : Menu[i] \in lots /\ score[i] > 0 }
  before == { p \in places \X places : Better(p[1], p[2]) }
  sorted == InOrder(places, before)
  n == Cardinality(places)
  ranked == Ranked(lots, wanted, now)
<1>1. /\ DOMAIN Menu = 1 .. Len(Menu) /\ Len(Menu) \in Nat
      /\ \A i \in DOMAIN Menu : Menu[i] \in Lots
  BY MenuAssumption
<1>2. \A i, j \in DOMAIN Menu : Menu[i] = Menu[j] => i = j
  BY MenuAssumption
<1>3. \A l \in Lots : \E i \in DOMAIN Menu : Menu[i] = l
  BY DEF Lots, Range
<1>4. score \in [DOMAIN Menu -> Nat] /\ drinks \in [DOMAIN Menu -> Nat]
  BY <1>1, ScoreIsNumber, DrinksIsNumber
<1>5. \A i \in DOMAIN Menu :
        score[i] = Score[wanted][Menu[i]] /\ drinks[i] = Drinks(now)[Menu[i]]
  OBVIOUS
<1>6. ranked = [ k \in DOMAIN sorted |-> Menu[sorted[k]] ]
  BY Zenon DEF Ranked
<1> HIDE DEF score, drinks
<1>7. IsFiniteSet(places)
  <2>1. places \in SUBSET (1 .. Len(Menu))
    BY <1>1
  <2> HIDE DEF places
  <2>2. IsFiniteSet(1 .. Len(Menu))
    BY <1>1, FS_Interval
  <2>3. QED  BY <2>1, <2>2, FS_Subset
<1>8. IsStrictOrder(places, before)
  <2>1. \A i, j \in places : <<i, j>> \in before <=> Better(i, j)
    OBVIOUS
  <2>2. \A i \in places : i \in Nat /\ score[i] \in Nat /\ drinks[i] \in Nat
    BY <1>1, <1>4
  <2> HIDE DEF before, places
  <2>3. \A i \in places : ~Better(i, i)
    BY <2>2
  <2>4. \A i, j, k \in places : Better(i, j) /\ Better(j, k) => Better(i, k)
    BY <2>2
  <2>5. \A i, j \in places : i # j => Better(i, j) \/ Better(j, i)
    BY <2>2
  <2> HIDE DEF Better
  <2>6. QED  BY <2>1, <2>3, <2>4, <2>5 DEF IsStrictOrder
<1>9. /\ n \in Nat
      /\ sorted \in [1 .. n -> places]
      /\ \A i \in places : \E k \in 1 .. n : sorted[k] = i
      /\ \A k, m \in 1 .. n : sorted[k] = sorted[m] => k = m
      /\ \A k, m \in 1 .. n : k < m => <<sorted[k], sorted[m]>> \in before
  <2> HIDE DEF places, before
  <2>1. QED  BY <1>7, <1>8, InOrderIs
<1>10. \A i \in places : i \in DOMAIN Menu /\ Menu[i] \in lots /\ score[i] > 0
  OBVIOUS
<1>11. \A i \in DOMAIN Menu : Menu[i] \in lots /\ score[i] > 0 => i \in places
  OBVIOUS
<1>12. \A i, j \in places : <<i, j>> \in before => Better(i, j)
  OBVIOUS
<1> HIDE DEF places, before, sorted, n, ranked
<1>13. DOMAIN ranked = 1 .. n /\ \A k \in 1 .. n : ranked[k] = Menu[sorted[k]]
  BY <1>6, <1>9
<1>14. Len(ranked) = n /\ ranked \in [1 .. n -> lots]
  <2>1. ranked \in [1 .. n -> lots]
    BY <1>6, <1>9, <1>10, <1>13
  <2>2. QED  BY <1>9, <2>1
<1>15. \A k \in 1 .. n : Score[wanted][ranked[k]] > 0
  BY <1>5, <1>9, <1>10, <1>13
<1>16. ASSUME NEW l \in lots, Score[wanted][l] > 0
       PROVE  \E k \in 1 .. n : ranked[k] = l
  <2>1. PICK i \in DOMAIN Menu : Menu[i] = l
    BY <1>3
  <2>2. i \in places
    BY <1>5, <1>11, <1>16, <2>1
  <2>3. PICK k \in 1 .. n : sorted[k] = i
    BY <1>9, <2>2
  <2>4. ranked[k] = l
    BY <1>13, <2>1, <2>3
  <2>5. QED  BY <2>4
<1>17. \A k, m \in 1 .. n : ranked[k] = ranked[m] => k = m
  BY <1>2, <1>9, <1>10, <1>13
<1>18. ASSUME NEW k \in 1 .. n, NEW m \in 1 .. n, k < m
       PROVE  ~Beats(ranked[m], ranked[k], wanted, now)
  <2>1. sorted[k] \in places /\ sorted[m] \in places
    BY <1>9
  <2>2. Better(sorted[k], sorted[m])
    BY <1>9, <1>12, <1>18, <2>1
  <2>3. /\ score[sorted[k]] = Score[wanted][ranked[k]]
        /\ score[sorted[m]] = Score[wanted][ranked[m]]
        /\ drinks[sorted[k]] = Drinks(now)[ranked[k]]
        /\ drinks[sorted[m]] = Drinks(now)[ranked[m]]
    BY <1>5, <1>10, <1>13, <2>1
  <2>4. /\ score[sorted[k]] \in Nat /\ score[sorted[m]] \in Nat
        /\ drinks[sorted[k]] \in Nat /\ drinks[sorted[m]] \in Nat
    BY <1>4, <1>10, <2>1
  <2>5. QED  BY <2>2, <2>3, <2>4 DEF Beats
<1>19. IsRanking(ranked, lots, wanted, now)
  BY <1>9, <1>14, <1>15, <1>16, <1>17, <1>18 DEF IsRanking
<1>20. QED  BY <1>19 DEF ranked

(* As many of the best as were asked for, or all of them when there are    *)
(* fewer (FirstOf, EffectiveLimit).                                        *)
IsCut(offers, ranked, most) ==
  /\ Len(offers) \in Nat
  /\ Len(offers) = IF Len(ranked) < most THEN Len(ranked) ELSE most
  /\ DOMAIN offers = 1 .. Len(offers)
  /\ \A k \in 1 .. Len(offers) : offers[k] = ranked[k]
  /\ offers = <<>> <=> Len(ranked) = 0

LEMMA OffersAre ==
  ASSUME NEW lots \in SUBSET Lots, NEW wanted \in Requests, NEW limit \in Limits,
         NEW now \in Times
  PROVE  /\ EffectiveLimit(limit) \in Nat \ {0}
         /\ IsCut(Offers(lots, wanted, limit, now), Ranked(lots, wanted, now),
                  EffectiveLimit(limit))
<1> DEFINE
  ranked == Ranked(lots, wanted, now)
  offers == Offers(lots, wanted, limit, now)
  n == IF Len(ranked) < EffectiveLimit(limit) THEN Len(ranked) ELSE EffectiveLimit(limit)
<1>1. EffectiveLimit(limit) \in Nat \ {0}
  BY RequestsAssumption DEF EffectiveLimit, DefaultLimit
<1>2. Len(ranked) \in Nat /\ ranked \in [1 .. Len(ranked) -> lots]
  BY RankedIs DEF IsRanking
<1>3. offers = SubSeq(ranked, 1, n)
  BY DEF Offers, FirstOf
<1> HIDE DEF ranked, offers
<1>4. n \in 0 .. Len(ranked) /\ (n = 0 <=> Len(ranked) = 0)
  BY <1>1, <1>2
<1> HIDE DEF n
<1>5. ranked \in Seq(lots)
  BY <1>2
<1>6. /\ SubSeq(ranked, 1, n) \in Seq(lots)
      /\ Len(SubSeq(ranked, 1, n)) = n
      /\ \A k \in 1 .. n : SubSeq(ranked, 1, n)[k] = ranked[k]
  BY <1>4, <1>5
<1>7. /\ Len(offers) = n /\ DOMAIN offers = 1 .. n
      /\ \A k \in 1 .. n : offers[k] = ranked[k]
  BY <1>3, <1>4, <1>6
<1>8. offers = <<>> <=> n = 0
  <2>1. offers \in Seq(lots)
    BY <1>3, <1>6
  <2>2. QED  BY <1>7, <2>1
<1>9. IsCut(offers, ranked, EffectiveLimit(limit))
  BY <1>1, <1>4, <1>7, <1>8 DEF IsCut, n
<1>10. QED  BY <1>1, <1>9 DEF ranked, offers

(* Bags are written plainly: in words that normalise leaves alone.         *)
PlainBags == \A l \in Lots : \A note \in l.notes : IsPlain(note)

(* A lot answers at least as many wishes as it carries on its bag.         *)
Carries(l, wanted) == Cardinality({ i \in DOMAIN wanted : wanted[i] \in l.notes })

LEMMA ScoreCoversBag ==
  ASSUME PlainBags, NEW wanted \in Requests, NEW l \in Lots
  PROVE  Carries(l, wanted) \in Nat /\ Carries(l, wanted) <= Score[wanted][l]
<1> DEFINE
  carried  == { i \in DOMAIN wanted : wanted[i] \in l.notes }
  answered == { i \in DOMAIN wanted : hasNote(l.notes, wanted[i]) }
<1>1. carried \subseteq answered
  <2>1. ASSUME NEW i \in DOMAIN wanted, wanted[i] \in l.notes
        PROVE  hasNote(l.notes, wanted[i])
    <3>1. IsPlain(wanted[i])
      BY <2>1 DEF PlainBags
    <3>2. QED  BY <2>1, <3>1, CarriedIsAnswered
  <2>2. QED  BY <2>1
<1>2. Score[wanted][l] = Cardinality(answered) /\ IsFiniteSet(answered)
  BY ScoreIsNumber DEF MatchesNotes
<1>3. Carries(l, wanted) = Cardinality(carried)
  BY DEF Carries
<1> HIDE DEF carried, answered
<1>4. /\ IsFiniteSet(carried)
      /\ Cardinality(carried) <= Cardinality(answered)
  BY <1>1, <1>2, FS_Subset
<1>5. Cardinality(carried) \in Nat
  BY <1>4, FS_CardinalityType
<1>6. QED  BY <1>2, <1>3, <1>4, <1>5

LEMMA EmptyRanking ==
  ASSUME NEW lots \in SUBSET Lots, NEW wanted \in Requests, NEW now \in Times,
         Len(Ranked(lots, wanted, now)) = 0
  PROVE  \A l \in lots : ~(Score[wanted][l] > 0)
<1> DEFINE ranked == Ranked(lots, wanted, now)
<1>1. IsRanking(ranked, lots, wanted, now) /\ Len(ranked) = 0
  BY RankedIs
<1> HIDE DEF ranked
<1>2. 1 .. Len(ranked) = {}
  BY <1>1
<1>3. QED  BY <1>1, <1>2 DEF IsRanking

(* Nothing matches only when nobody carries what was asked for.            *)
LEMMA NothingCarried ==
  ASSUME PlainBags, NEW lots \in SUBSET Lots, NEW wanted \in Requests, NEW limit \in Limits,
         NEW now \in Times, Offers(lots, wanted, limit, now) = <<>>, NEW l \in lots
  PROVE  Carries(l, wanted) = 0
<1>1. Len(Ranked(lots, wanted, now)) = 0
  BY OffersAre, Zenon DEF IsCut
<1>2. ~(Score[wanted][l] > 0)
  BY <1>1, EmptyRanking
<1>3. Score[wanted][l] \in Nat /\ Carries(l, wanted) \in Nat
      /\ Carries(l, wanted) <= Score[wanted][l]
  BY ScoreIsNumber, ScoreCoversBag
<1>4. QED  BY <1>2, <1>3

(* The offers are the best of the lots, and leave nobody better out.       *)
LEMMA NobodyBetter ==
  ASSUME NEW lots \in SUBSET Lots, NEW wanted \in Requests, NEW limit \in Limits,
         NEW now \in Times, Offers(lots, wanted, limit, now) # <<>>
  PROVE  LET offers == Offers(lots, wanted, limit, now)
             last   == offers[Len(offers)]
         IN  /\ Range(offers) \subseteq lots
             /\ IsInjective(offers)
             /\ last \in lots
             /\ \A i, j \in DOMAIN offers : i < j => ~Beats(offers[j], offers[i], wanted, now)
             /\ \A l \in lots \ Range(offers) : Score[wanted][l] > 0 =>
                  Len(offers) = EffectiveLimit(limit) /\ ~Beats(l, last, wanted, now)
<1> DEFINE
  ranked == Ranked(lots, wanted, now)
  offers == Offers(lots, wanted, limit, now)
  m == Len(offers)
  n == Len(ranked)
  most == EffectiveLimit(limit)
<1>a. IsRanking(ranked, lots, wanted, now)
  BY RankedIs
<1>b. most \in Nat \ {0} /\ IsCut(offers, ranked, most) /\ offers # <<>>
  BY OffersAre
<1> HIDE DEF ranked, offers, most
<1>1. /\ n \in Nat
      /\ \A k \in 1 .. n : ranked[k] \in lots
      /\ \A l \in lots : Score[wanted][l] > 0 => \E k \in 1 .. n : ranked[k] = l
      /\ \A i, j \in 1 .. n : ranked[i] = ranked[j] => i = j
      /\ \A i, j \in 1 .. n : i < j => ~Beats(ranked[j], ranked[i], wanted, now)
  BY <1>a DEF IsRanking
<1>2. /\ most \in Nat \ {0}
      /\ m \in Nat
      /\ m = IF n < most THEN n ELSE most
      /\ DOMAIN offers = 1 .. m
      /\ \A k \in 1 .. m : offers[k] = ranked[k]
      /\ n # 0
  BY <1>b, Zenon DEF IsCut
<1> HIDE DEF m, n
<1>3. m \in 1 .. n /\ (m < n => m = most)
  BY <1>1, <1>2
<1>4. Range(offers) \subseteq lots
  BY <1>1, <1>2, <1>3 DEF Range
<1>5. IsInjective(offers)
  BY <1>1, <1>2, <1>3 DEF IsInjective
<1>6. offers[m] = ranked[m] /\ offers[m] \in lots
  BY <1>1, <1>2, <1>3
<1>7. \A i, j \in DOMAIN offers : i < j => ~Beats(offers[j], offers[i], wanted, now)
  BY <1>1, <1>2, <1>3
<1>8. ASSUME NEW l \in lots \ Range(offers), Score[wanted][l] > 0
      PROVE  m = most /\ ~Beats(l, offers[m], wanted, now)
  <2>1. PICK k \in 1 .. n : ranked[k] = l
    BY <1>1, <1>8
  <2>2. k \notin 1 .. m
    BY <1>2, <1>8, <2>1 DEF Range
  <2>3. m < k
    BY <1>2, <1>3, <2>2
  <2>4. m = most
    BY <1>1, <1>3, <2>3
  <2>5. ~Beats(l, offers[m], wanted, now)
    BY <1>1, <1>3, <1>6, <2>1, <2>3
  <2>6. QED  BY <2>4, <2>5
<1>9. QED  BY <1>4, <1>5, <1>6, <1>7, <1>8 DEF offers, m, most

-----------------------------------------------------------------------------
(* The invariant: what an answer says is what its handler worked out for   *)
(* some question.  It says nothing of a handler's past, because no handler *)
(* keeps one: each part holds of the answer of every step by itself.       *)

Tools == {"none", "refused", "no-match", "list_coffees", "get_coffee", "get_recipe",
          "scale_recipe", "recommend_coffee", "list_roast_batches", "compare_roast_batches"}

(* Every age that an answer shows is that of its lot at its time. *)
AgesAreOfNow(a) ==
  "aged" \in DOMAIN a =>
    /\ a.now \in Times
    /\ \A l \in Lots \cap DOMAIN a.aged : a.aged[l] = Aged(l, a.now)

LotsAreNamed(a) ==
  /\ "asked" \in DOMAIN a /\ a.tool # "refused" => NamesLot(a.asked, a.coffee)
  /\ a.tool = "refused" => JustRefused(a.asked, a.why, a.among)

CardIsScaled(a) ==
  a.tool = "scale_recipe" =>
    /\ a.recipe \in Range(Recipes)
    /\ \E water \in Waters, dose \in Doses : a.card \in Cards(a.recipe, water, dose)

BatchesAreCompared(a) ==
  a.tool = "compare_roast_batches" =>
    /\ IsBatch(a.earlier) /\ IsBatch(a.later)
    /\ a.comparison = CompareProfiles(a.earlier, a.later)

OffersAreRanked(a) ==
  /\ a.tool = "recommend_coffee" =>
       /\ a.wanted \in Requests /\ a.limit \in Limits /\ a.now \in Times
       /\ a.offers = Offers(Brewable(a.method), a.wanted, a.limit, a.now)
       /\ a.offers # <<>>
  /\ a.tool = "no-match" =>
       /\ a.wanted \in Requests
       /\ \E limit \in Limits, now \in Times :
            Offers(Brewable(a.method), a.wanted, limit, now) = <<>>

IsWorkedOut(a) ==
  /\ a.tool \in Tools
  /\ AgesAreOfNow(a)
  /\ LotsAreNamed(a)
  /\ CardIsScaled(a)
  /\ BatchesAreCompared(a)
  /\ OffersAreRanked(a)

WorkedOut == IsWorkedOut(answer)

LEMMA RefusalWorkedOut ==
  ASSUME NEW asked, NEW why, NEW among, JustRefused(asked, why, among)
  PROVE  IsWorkedOut(Refused(asked, why, among))
BY DEF IsWorkedOut, Refused, Tools, AgesAreOfNow, LotsAreNamed, CardIsScaled,
       BatchesAreCompared, OffersAreRanked

LEMMA ListWorkedOut ==
  ASSUME NEW now \in Times
  PROVE  IsWorkedOut(ListOf(now))
BY DEF IsWorkedOut, ListOf, Tools, AgesAreOfNow, LotsAreNamed, CardIsScaled,
       BatchesAreCompared, OffersAreRanked

LEMMA CoffeeWorkedOut ==
  ASSUME NEW asked, NEW coffee, NEW batches, NEW now \in Times, NamesLot(asked, coffee)
  PROVE  IsWorkedOut(CoffeeShown(asked, coffee, now, batches))
BY DEF IsWorkedOut, CoffeeShown, Tools, AgesAreOfNow, LotsAreNamed, CardIsScaled,
       BatchesAreCompared, OffersAreRanked

LEMMA RecipeWorkedOut ==
  ASSUME NEW asked, NEW coffee, NEW method, NEW recipe, NamesLot(asked, coffee)
  PROVE  IsWorkedOut(RecipeShown(asked, coffee, method, recipe))
BY DEF IsWorkedOut, RecipeShown, Tools, AgesAreOfNow, LotsAreNamed, CardIsScaled,
       BatchesAreCompared, OffersAreRanked

LEMMA CardWorkedOut ==
  ASSUME NEW recipe \in Range(Recipes), NEW water \in Waters, NEW dose \in Doses,
         NEW card \in Cards(recipe, water, dose)
  PROVE  IsWorkedOut(CardShown(recipe, water, card))
BY DEF IsWorkedOut, CardShown, Tools, AgesAreOfNow, LotsAreNamed, CardIsScaled,
       BatchesAreCompared, OffersAreRanked

LEMMA NoMatchWorkedOut ==
  ASSUME NEW wanted \in Requests, NEW limit \in Limits, NEW now \in Times, NEW method,
         Offers(Brewable(method), wanted, limit, now) = <<>>
  PROVE  IsWorkedOut(NoMatch(wanted, method))
BY DEF IsWorkedOut, NoMatch, Tools, AgesAreOfNow, LotsAreNamed, CardIsScaled,
       BatchesAreCompared, OffersAreRanked

LEMMA OfferWorkedOut ==
  ASSUME NEW wanted \in Requests, NEW limit \in Limits, NEW now \in Times, NEW method,
         NEW offers, offers = Offers(Brewable(method), wanted, limit, now), offers # <<>>
  PROVE  IsWorkedOut(Offered(wanted, method, limit, now, offers))
<1> DEFINE a == Offered(wanted, method, limit, now, offers)
<1>1. /\ a.tool = "recommend_coffee" /\ a.wanted = wanted /\ a.method = method
      /\ a.limit = limit /\ a.now = now /\ a.offers = offers
      /\ a.aged = [ l \in Range(offers) |-> Aged(l, now) ]
      /\ "asked" \notin DOMAIN a
  BY DEF Offered
<1> HIDE DEF a
<1>2. a.tool \in Tools
  BY <1>1 DEF Tools
<1>3. AgesAreOfNow(a)
  BY <1>1 DEF AgesAreOfNow
<1>4. LotsAreNamed(a) /\ CardIsScaled(a) /\ BatchesAreCompared(a)
  BY <1>1 DEF LotsAreNamed, CardIsScaled, BatchesAreCompared
<1>5. OffersAreRanked(a)
  BY <1>1, Zenon DEF OffersAreRanked
<1>6. QED  BY <1>2, <1>3, <1>4, <1>5 DEF IsWorkedOut, a

LEMMA BatchesWorkedOut ==
  ASSUME NEW asked, NEW coffee, NamesLot(asked, coffee)
  PROVE  IsWorkedOut(BatchesShown(asked, coffee))
BY DEF IsWorkedOut, BatchesShown, Tools, AgesAreOfNow, LotsAreNamed, CardIsScaled,
       BatchesAreCompared, OffersAreRanked

LEMMA ComparisonWorkedOut ==
  ASSUME NEW earlier, NEW later, IsBatch(earlier), IsBatch(later)
  PROVE  IsWorkedOut(Comparison(earlier, later))
BY DEF IsWorkedOut, Comparison, Tools, AgesAreOfNow, LotsAreNamed, CardIsScaled,
       BatchesAreCompared, OffersAreRanked

LEMMA IdleWorkedOut == IsWorkedOut(Idle)
BY DEF IsWorkedOut, Idle, Tools, AgesAreOfNow, LotsAreNamed, CardIsScaled,
       BatchesAreCompared, OffersAreRanked

LEMMA StepWorksOut ==
  ASSUME Next
  PROVE  WorkedOut'
<1>1. CASE Refuses
  BY <1>1, RefusalWorkedOut DEF Refuses, WorkedOut
<1>2. CASE ShowsList
  BY <1>2, ListWorkedOut DEF ShowsList, WorkedOut
<1>3. CASE ShowsCoffee
  BY <1>3, CoffeeWorkedOut DEF ShowsCoffee, WorkedOut
<1>4. CASE ShowsRecipe
  BY <1>4, RecipeWorkedOut DEF ShowsRecipe, WorkedOut
<1>5. CASE ShowsCard
  BY <1>5, CardWorkedOut DEF ShowsCard, WorkedOut
<1>6. CASE FindsNoMatch
  BY <1>6, NoMatchWorkedOut DEF FindsNoMatch, WorkedOut
<1>7. CASE OffersLots
  BY <1>7, OfferWorkedOut DEF OffersLots, WorkedOut
<1>8. CASE ShowsBatches
  BY <1>8, BatchesWorkedOut DEF ShowsBatches, WorkedOut
<1>9. CASE ShowsComparison
  BY <1>9, ComparisonWorkedOut DEF ShowsComparison, WorkedOut
<1>10. CASE answer' = Idle
  BY <1>10, IdleWorkedOut DEF WorkedOut
<1>11. QED
  BY <1>1, <1>2, <1>3, <1>4, <1>5, <1>6, <1>7, <1>8, <1>9, <1>10, StepAnswers

THEOREM AnswersAreWorkedOut == Spec => []WorkedOut
<1>1. Init => WorkedOut
  BY IdleWorkedOut DEF Init, WorkedOut
<1>2. WorkedOut /\ [Next]_answer => WorkedOut'
  BY StepWorksOut DEF WorkedOut
<1>3. QED  BY <1>1, <1>2, PTL DEF Spec

-----------------------------------------------------------------------------
(* What follows for every answer.                                          *)

(* Wherever the shop is and whatever the hour, no answer calls the age of  *)
(* a lot unknown that its calendar has seen roasted, or is more than a day *)
(* off (list_coffees, get_coffee, recommend_coffee).                       *)
THEOREM AgesTrackCalendar == Spec => []AgeTracksCalendar
<1>1. WorkedOut => AgeTracksCalendar
  BY AgeOfLot DEF WorkedOut, IsWorkedOut, AgesAreOfNow, AgeTracksCalendar
<1>2. QED  BY <1>1, AnswersAreWorkedOut, PTL

(* A name finds one lot, in whatever order the rows come, and is refused   *)
(* only when there is none or when it tells no two apart (FindCoffee).     *)
THEOREM NamesFindOneLot == Spec => []NameFindsOneLot
<1>1. WorkedOut => NameFindsOneLot
  BY DEF WorkedOut, IsWorkedOut, LotsAreNamed, NamesLot, JustRefused, NameFindsOneLot,
         IsRefused
<1>2. QED  BY <1>1, AnswersAreWorkedOut, PTL

(* The one amount that a card was worked out from. *)
LEMMA CardOf ==
  ASSUME NEW recipe \in Range(Recipes), NEW water \in Waters, NEW dose \in Doses,
         NEW card \in Cards(recipe, water, dose)
  PROVE  /\ IsRecipe(recipe)
         /\ \/ water \in Nat \ {0} /\ card \in ScaleToWater(recipe, water)
            \/ dose \in Nat \ {0} /\ card \in ScaleToDose(recipe, dose)
<1>1. water \in Int /\ dose \in Int
  BY AmountsAssumption
<1>2. \/ water > 0 /\ card \in ScaleToWater(recipe, water)
      \/ dose > 0 /\ card \in ScaleToDose(recipe, dose)
  BY <1>1 DEF Cards, OneAmount
<1>3. IsRecipe(recipe)
  <2>1. ~(recipe.ratio <= 0)
    BY <1>2 DEF ScaleToWater, ScaleToDose
  <2>2. QED  BY <2>1, RecipesAssumption DEF IsRecipe
<1>4. QED  BY <1>1, <1>2, <1>3

(* Every card of every recipe adds up, pour by pour (scale, buildPours).   *)
THEOREM CardsAddUp == Spec => []PoursAddUp
<1>1. ASSUME WorkedOut, IsCard
      PROVE  AddsUp(answer.recipe, answer.card)
  <2> DEFINE recipe == answer.recipe
             card   == answer.card
  <2>1. /\ recipe \in Range(Recipes)
        /\ \E water \in Waters, dose \in Doses : card \in Cards(recipe, water, dose)
    BY <1>1 DEF WorkedOut, IsWorkedOut, CardIsScaled, IsCard
  <2> HIDE DEF recipe, card
  <2>2. IsRecipe(recipe) /\ PoursOf(recipe, card)
    BY <2>1, CardOf, CardForWater, CardForDose
  <2>3. QED  BY <2>2, PoursOfAddUp DEF recipe, card
<1>2. WorkedOut => PoursAddUp
  BY <1>1, Zenon DEF PoursAddUp, AddsUp, PouredUpTo
<1>3. QED  BY <1>2, AnswersAreWorkedOut, PTL

(* Scaling back to the dose of a card gives its water, but for what the    *)
(* half tenth of rounding stands for (ScaleToWater, ScaleToDose).          *)
THEOREM CardsScaleBack == Spec => []ScalesBack
<1>1. ASSUME WorkedOut, IsCard, NEW back \in ScaleToDose(answer.recipe, answer.card.dose)
      PROVE  20 * Magnitude(back.water - answer.card.water) <= answer.recipe.ratio + 20
  <2> DEFINE recipe == answer.recipe
             card   == answer.card
  <2>1. /\ recipe \in Range(Recipes)
        /\ \E water \in Waters, dose \in Doses : card \in Cards(recipe, water, dose)
    BY <1>1 DEF WorkedOut, IsWorkedOut, CardIsScaled, IsCard
  <2>2. back \in ScaleToDose(recipe, card.dose)
    BY <1>1
  <2> HIDE DEF recipe, card
  <2>3. /\ IsRecipe(recipe)
        /\ \/ \E water \in Nat \ {0} : card \in ScaleToWater(recipe, water)
           \/ \E dose \in Nat \ {0} : card \in ScaleToDose(recipe, dose)
    BY <2>1, CardOf
  <2>4. 20 * Magnitude(back.water - card.water) <= recipe.ratio + 20
    BY <2>2, <2>3, CardScalesBack
  <2>5. QED  BY <2>4 DEF recipe, card
<1>2. WorkedOut => ScalesBack
  BY <1>1 DEF ScalesBack
<1>3. QED  BY <1>2, AnswersAreWorkedOut, PTL

(* Nobody asks for so little that the rounding of a card is noticed.       *)
AmpleAmounts ==
  \A recipe \in Range(Recipes) : recipe.ratio > 0 =>
    /\ \A water \in Waters : water > 0 => IsAmpleWater(recipe, water)
    /\ \A dose \in Doses : dose > 0 => IsAmpleDose(recipe, dose)

(* Who brews what a card of an ample amount says, with the water in whole  *)
(* grams, is not told that the ratio is off (scale, Card, appendRatio).    *)
THEOREM CardsBrewOnRatio ==
  ASSUME AmpleAmounts
  PROVE  Spec => []CardBrewsOnRatio
<1>1. ASSUME WorkedOut, IsCard, NEW printed \in PrintedWater(answer.card)
      PROVE  Ratio(answer.recipe, [dose |-> answer.card.dose, water |-> printed]).severity
               = "on-target"
  <2> DEFINE recipe == answer.recipe
             card   == answer.card
  <2>1. /\ recipe \in Range(Recipes)
        /\ \E water \in Waters, dose \in Doses : card \in Cards(recipe, water, dose)
    BY <1>1 DEF WorkedOut, IsWorkedOut, CardIsScaled, IsCard
  <2>2. printed \in PrintedWater(card)
    BY <1>1
  <2> HIDE DEF recipe, card
  <2>3. PICK water \in Waters, dose \in Doses : card \in Cards(recipe, water, dose)
    BY <2>1
  <2>4. /\ IsRecipe(recipe)
        /\ \/ water \in Nat \ {0} /\ card \in ScaleToWater(recipe, water)
           \/ dose \in Nat \ {0} /\ card \in ScaleToDose(recipe, dose)
    BY <2>1, <2>3, CardOf
  <2>5. /\ water \in Nat \ {0} => IsAmpleWater(recipe, water)
        /\ dose \in Nat \ {0} => IsAmpleDose(recipe, dose)
    BY <2>1, <2>4 DEF AmpleAmounts, IsRecipe
  <2>6. \/ \E w \in Nat \ {0} : IsAmpleWater(recipe, w) /\ card \in ScaleToWater(recipe, w)
        \/ \E d \in Nat \ {0} : IsAmpleDose(recipe, d) /\ card \in ScaleToDose(recipe, d)
    BY <2>4, <2>5
  <2>7. Ratio(recipe, [dose |-> card.dose, water |-> printed]).severity = "on-target"
    BY <2>2, <2>4, <2>6, AmpleCardOnRatio
  <2>8. QED  BY <2>7 DEF recipe, card
<1>2. WorkedOut => CardBrewsOnRatio
  BY <1>1 DEF CardBrewsOnRatio
<1>3. QED  BY <1>2, AnswersAreWorkedOut, PTL

(* The phases account for the whole roast, whatever two batches are        *)
(* compared, and none is compared of a batch whose landmarks are missing   *)
(* or in the wrong order (CompareProfiles).                                *)
THEOREM PhasesAddUp == Spec => []PhasesAccount
<1>1. ASSUME WorkedOut, IsCompared
      PROVE  PhasesAccount
  <2> DEFINE earlier == answer.earlier
             later   == answer.later
             d       == answer.comparison.differences
  <2>1. /\ IsBatch(earlier) /\ IsBatch(later)
        /\ answer.comparison = CompareProfiles(earlier, later)
    BY <1>1 DEF WorkedOut, IsWorkedOut, BatchesAreCompared, IsCompared
  <2> HIDE DEF earlier, later, d
  <2>2. d = Differences(earlier, later)
    BY <2>1 DEF CompareProfiles, d
  <2>3. DOMAIN d = Compared(earlier, later)
    BY <2>2 DEF Differences
  <2>4. {"dry-end", "maillard", "development", "total-roast"} \subseteq DOMAIN d =>
          d["total-roast"].change
            = d["dry-end"].change + d["maillard"].change + d["development"].change
    BY <2>1, <2>2, <2>3, PhasesOfRoast
  <2>5. \A b \in {earlier, later} :
          /\ "maillard" \in DOMAIN d => 0 < b.dryEnd /\ b.dryEnd < b.firstCrack
          /\ {"development", "development-time-ratio"} \cap DOMAIN d # {} =>
               0 < b.firstCrack /\ b.firstCrack < b.drop
    BY <2>1, <2>3, ComparedInOrder
  <2>6. QED  BY <2>4, <2>5, Zenon DEF PhasesAccount, earlier, later, d
<1>2. WorkedOut => PhasesAccount
  BY <1>1 DEF PhasesAccount
<1>3. QED  BY <1>2, AnswersAreWorkedOut, PTL

(* Naming the batches the other way about changes only the signs           *)
(* (CompareProfiles, summarise).                                           *)
THEOREM EitherWayAlike == Spec => []SameBothWays
<1>1. ASSUME WorkedOut, IsCompared
      PROVE  SameBothWays
  <2>1. /\ IsBatch(answer.earlier) /\ IsBatch(answer.later)
        /\ answer.comparison = CompareProfiles(answer.earlier, answer.later)
    BY <1>1 DEF WorkedOut, IsWorkedOut, BatchesAreCompared, IsCompared
  <2> DEFINE there == answer.comparison
             back  == CompareProfiles(answer.later, answer.earlier)
  <2>2. /\ DOMAIN back.differences = DOMAIN there.differences
        /\ \A l \in DOMAIN there.differences :
             /\ back.differences[l].change = -there.differences[l].change
             /\ back.differences[l].severity = there.differences[l].severity
        /\ back.summary = there.summary
    BY <2>1, ComparedBothWays
  <2>3. QED  BY <2>2, Zenon DEF SameBothWays
<1>2. WorkedOut => SameBothWays
  BY <1>1 DEF SameBothWays
<1>3. QED  BY <1>2, AnswersAreWorkedOut, PTL

(* On plainly written bags, what is recommended is the best of what can be *)
(* brewed, and nobody whose bag says what was asked for makes way for one  *)
(* that answers less (recommendCoffee, MatchesNotes, sort.SliceStable).    *)
THEOREM BestAreOffered ==
  ASSUME PlainBags
  PROVE  Spec => []OffersAreTheBest
<1>1. ASSUME WorkedOut, IsOffer
      PROVE  LET suitable == Brewable(answer.method)
                 score    == Score[answer.wanted]
                 offers   == answer.offers
                 last     == offers[Len(offers)]
                 Worse(k, l) == Beats(l, k, answer.wanted, answer.now)
             IN  /\ Range(offers) \subseteq suitable
                 /\ \A i, j \in DOMAIN offers : i < j => ~Worse(offers[i], offers[j])
                 /\ \A l \in suitable \ Range(offers) :
                      /\ score[l] > 0 =>
                           Len(offers) = EffectiveLimit(answer.limit) /\ ~Worse(last, l)
                      /\ Carries(l, answer.wanted) <= score[last]
  <2> DEFINE suitable == Brewable(answer.method)
             wanted == answer.wanted
             now    == answer.now
             limit  == answer.limit
             offers == answer.offers
             last   == offers[Len(offers)]
  <2>1. /\ wanted \in Requests /\ limit \in Limits /\ now \in Times
        /\ offers = Offers(suitable, wanted, limit, now)
        /\ offers # <<>>
    BY <1>1 DEF WorkedOut, IsWorkedOut, OffersAreRanked, IsOffer
  <2>2. suitable \in SUBSET Lots
    BY DEF Brewable
  <2> HIDE DEF suitable, wanted, now, limit, offers
  <2>3. /\ Range(offers) \subseteq suitable
        /\ last \in suitable
        /\ \A i, j \in DOMAIN offers : i < j => ~Beats(offers[j], offers[i], wanted, now)
        /\ \A l \in suitable \ Range(offers) : Score[wanted][l] > 0 =>
             Len(offers) = EffectiveLimit(limit) /\ ~Beats(l, last, wanted, now)
    BY <2>1, <2>2, NobodyBetter, Zenon
  <2>4. ASSUME NEW l \in suitable \ Range(offers)
        PROVE  Carries(l, wanted) <= Score[wanted][last]
    <3>1. l \in Lots /\ last \in Lots
      BY <2>2, <2>3
    <3>2. /\ Carries(l, wanted) \in Nat /\ Carries(l, wanted) <= Score[wanted][l]
          /\ Score[wanted][l] \in Nat /\ Score[wanted][last] \in Nat
      BY <2>1, <3>1, ScoreCoversBag, ScoreIsNumber
    <3>3. Score[wanted][l] > 0 => ~(Score[wanted][l] > Score[wanted][last])
      BY <2>3 DEF Beats
    <3>4. QED  BY <3>2, <3>3
  <2>5. QED
    BY <2>3, <2>4 DEF suitable, wanted, now, limit, offers
<1>2. ASSUME WorkedOut, answer.tool = "no-match"
      PROVE  \A l \in Brewable(answer.method) : Carries(l, answer.wanted) = 0
  <2>1. /\ answer.wanted \in Requests
        /\ \E limit \in Limits, now \in Times :
             Offers(Brewable(answer.method), answer.wanted, limit, now) = <<>>
    BY <1>2 DEF WorkedOut, IsWorkedOut, OffersAreRanked
  <2>2. Brewable(answer.method) \in SUBSET Lots
    BY DEF Brewable
  <2>3. QED  BY <2>1, <2>2, NothingCarried, Zenon
<1>3. WorkedOut => OffersAreTheBest
  BY <1>1, <1>2, Zenon DEF OffersAreTheBest, Beats, Carries, IsOffer
<1>4. QED  BY <1>3, AnswersAreWorkedOut, PTL

(* Nobody asks for an amount that rounds away.                             *)
MeasurableAmounts ==
  \A recipe \in Range(Recipes) : recipe.ratio > 0 =>
    /\ \A water \in Waters : water > 0 => IsMeasurableWater(recipe, water)
    /\ \A dose \in Doses : dose > 0 => IsMeasurableDose(recipe, dose)

(* A card has coffee and water on it, and no pour takes water out; a       *)
(* comparison names a landmark that it compared, or none; an offer has     *)
(* lots on it, and none twice (every handler of Desk).                     *)
THEOREM TypeCorrect ==
  ASSUME MeasurableAmounts
  PROVE  Spec => []TypeOK
<1>1. ASSUME WorkedOut, IsCard
      PROVE  /\ answer.recipe \in Range(Recipes)
             /\ answer.card.dose > 0 /\ answer.card.water > 0 /\ answer.card.bloom >= 0
             /\ \A i \in DOMAIN answer.card.pours : answer.card.pours[i].grams >= 0
  <2> DEFINE recipe == answer.recipe
             card   == answer.card
  <2>1. /\ recipe \in Range(Recipes)
        /\ \E water \in Waters, dose \in Doses : card \in Cards(recipe, water, dose)
    BY <1>1 DEF WorkedOut, IsWorkedOut, CardIsScaled, IsCard
  <2> HIDE DEF recipe, card
  <2>2. PICK water \in Waters, dose \in Doses : card \in Cards(recipe, water, dose)
    BY <2>1
  <2>3. /\ IsRecipe(recipe)
        /\ \/ water \in Nat \ {0} /\ card \in ScaleToWater(recipe, water)
           \/ dose \in Nat \ {0} /\ card \in ScaleToDose(recipe, dose)
    BY <2>1, <2>2, CardOf
  <2>4. /\ water \in Nat \ {0} => IsMeasurableWater(recipe, water)
        /\ dose \in Nat \ {0} => IsMeasurableDose(recipe, dose)
    BY <2>1, <2>3 DEF MeasurableAmounts, IsRecipe
  <2>5. card.bloom \in Nat /\ PoursOf(recipe, card)
    BY <2>3, CardForWater, CardForDose
  <2>6. card.dose \in Nat \ {0} /\ card.water \in Nat \ {0}
    <3>1. \/ \E w \in Nat \ {0} :
               IsMeasurableWater(recipe, w) /\ card \in ScaleToWater(recipe, w)
          \/ \E d \in Nat \ {0} :
               IsMeasurableDose(recipe, d) /\ card \in ScaleToDose(recipe, d)
      BY <2>3, <2>4
    <3>2. QED  BY <2>3, <3>1, MeasurableCardIsCoffee
  <2>7. \A i \in DOMAIN card.pours : card.pours[i].grams >= 0
    BY <2>5, PoursTakeNothingOut
  <2>8. card.dose > 0 /\ card.water > 0 /\ card.bloom >= 0
    BY <2>5, <2>6
  <2>9. QED  BY <2>1, <2>7, <2>8 DEF recipe, card
<1>2. ASSUME WorkedOut, IsCompared
      PROVE  answer.comparison.summary \in DOMAIN answer.comparison.differences \cup {"none"}
  <2> DEFINE earlier == answer.earlier
             later   == answer.later
  <2>1. /\ IsBatch(earlier) /\ IsBatch(later)
        /\ answer.comparison = CompareProfiles(earlier, later)
    BY <1>2 DEF WorkedOut, IsWorkedOut, BatchesAreCompared, IsCompared
  <2> HIDE DEF earlier, later
  <2>2. /\ answer.comparison.differences = Differences(earlier, later)
        /\ answer.comparison.summary = summarise(Differences(earlier, later))
    BY <2>1 DEF CompareProfiles
  <2>3. QED  BY <2>1, <2>2, SummaryIsCompared
<1>3. ASSUME WorkedOut, IsOffer
      PROVE  /\ Range(answer.offers) \subseteq Lots /\ answer.offers # <<>>
             /\ IsInjective(answer.offers)
  <2> DEFINE suitable == Brewable(answer.method)
             offers   == answer.offers
  <2>1. PICK wanted \in Requests, limit \in Limits, now \in Times :
          offers = Offers(suitable, wanted, limit, now) /\ offers # <<>>
    BY <1>3 DEF WorkedOut, IsWorkedOut, OffersAreRanked, IsOffer
  <2>2. suitable \in SUBSET Lots
    BY DEF Brewable
  <2> HIDE DEF suitable, offers
  <2>3. Range(offers) \subseteq suitable /\ IsInjective(offers)
    BY <2>1, <2>2, NobodyBetter, Zenon
  <2>4. Range(offers) \subseteq Lots /\ offers # <<>> /\ IsInjective(offers)
    BY <2>1, <2>2, <2>3
  <2>5. QED  BY <2>4 DEF offers
<1>4. WorkedOut => answer.tool \in Tools
  BY DEF WorkedOut, IsWorkedOut
<1>5. WorkedOut => TypeOK
  BY <1>1, <1>2, <1>3, <1>4, Zenon DEF TypeOK, Tools
<1>6. QED  BY <1>5, AnswersAreWorkedOut, PTL

=============================================================================
