------------------------------- MODULE Lookup -------------------------------
(***************************************************************************)
(* How a name that somebody said finds a lot, a method and the recipe that *)
(* joins them: FindCoffee, FindMethod, Recipe and MethodsFor of the store, *)
(* and pairing of the tools package, as operators that return the set of   *)
(* results that the code may give.                                         *)
(*                                                                         *)
(* Names are texts as in Notes, trimmed and in one case, as the code       *)
(* compares them.  A name with % or _ in it, which LIKE reads as wildcards,*)
(* is not modelled.                                                        *)
(***************************************************************************)
EXTENDS Notes, FiniteSets

CONSTANTS
  Menu,       \* the lots as Coffees lists them: ORDER BY origin, name
  Methods,    \* the names of the brewing methods
  Recipes     \* from pairs of a lot and a method to the shop's recipe

Lots == Range(Menu)

IsText(text) ==
  /\ text \in Seq(Range(text))
  /\ \A i \in DOMAIN text : text[i] \in Seq(Range(text[i]))

(* A lot is its name and how long that is written, its roast and its date, *)
(* and its notes; names are unique.                                        *)
ASSUME MenuAssumption ==
  /\ Menu \in Seq(Lots)
  /\ \A i, j \in DOMAIN Menu : Menu[i].name = Menu[j].name => i = j
  /\ \A l \in Lots : IsText(l.name) /\ l.length \in Nat
  /\ DOMAIN Recipes \subseteq Lots \X Methods

Refusal(why, among) == [found |-> FALSE, why |-> why, among |-> among]

Matching(asked) == { l \in Lots : ContainsText(l.name, asked) }

(* ORDER BY exact or not, LENGTH(name). *)
Precedes(k, l, asked) ==
  \/ k.name = asked /\ l.name # asked
  \/ (k.name = asked <=> l.name = asked) /\ k.length < l.length

(* The rows that LIMIT n may leave; names of one length come in any order. *)
FirstRows(asked, n) ==
  LET matching == Matching(asked)
      few      == IF Cardinality(matching) < n THEN Cardinality(matching) ELSE n
  IN  { rows \in [1 .. few -> matching] :
          /\ \A i, j \in 1 .. few :
               i < j => rows[i] # rows[j] /\ ~Precedes(rows[j], rows[i], asked)
          /\ \A l \in matching \ Range(rows), i \in 1 .. few : ~Precedes(l, rows[i], asked) }

LotOf(rows, asked) ==
  CASE Len(rows) = 0 -> Refusal("unknown", {})
    [] Len(rows) = 1 -> [found |-> TRUE, coffee |-> rows[1]]
    [] Len(rows) = 2 ->
         IF rows[1].name = asked THEN [found |-> TRUE, coffee |-> rows[1]]
         ELSE Refusal("ambiguous", {rows[1], rows[2]})

(* A plausible slip: the shortest name that fits is the one that is meant. *)
FindCoffeeShortest(asked) ==
  IF asked = <<>> THEN { Refusal("no-name", {}) }
  ELSE { LotOf(rows, asked) : rows \in FirstRows(asked, 1) }

FindCoffee(asked) ==
  IF asked = <<>> THEN { Refusal("no-name", {}) }
  ELSE { LotOf(rows, asked) : rows \in FirstRows(asked, 2) }

(* Blanks do not count in the name of a method. *)
FindMethod(asked) ==
  LET named == { m \in Methods : FlattenSeq(m) = FlattenSeq(asked) }
  IN  IF asked = <<>> THEN { Refusal("no-name", {}) }
      ELSE IF named = {} THEN { Refusal("no-such-method", {}) }
      ELSE { [found |-> TRUE, method |-> m] : m \in named }

MethodsFor(lot) == { m \in Methods : <<lot, m>> \in DOMAIN Recipes }

(* A pair without a recipe is refused with the methods that there are; a   *)
(* list of them that cannot be read passes for an empty one.               *)
Joint(coffee, method) ==
  IF <<coffee, method>> \in DOMAIN Recipes
  THEN { [found |-> TRUE, coffee |-> coffee, method |-> method,
          recipe |-> Recipes[coffee, method]] }
  ELSE { Refusal("no-recipe", available) : available \in {MethodsFor(coffee), {}} }

pairing(coffeeName, methodName) ==
  UNION { IF ~c.found THEN {c}
          ELSE UNION { IF m.found THEN Joint(c.coffee, m.method) ELSE {m}
                       : m \in FindMethod(methodName) }
          : c \in FindCoffee(coffeeName) }
=============================================================================
