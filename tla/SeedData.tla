------------------------------ MODULE SeedData ------------------------------
(***************************************************************************)
(* The catalogue that a new database is filled with (seed.go), reduced to  *)
(* what the store can tell apart: which table a row goes to, the key its   *)
(* UNIQUE constraint looks at and the keys its INSERT looks up with a      *)
(* sub-select.  Numbers and wording of the rows are left out.              *)
(***************************************************************************)
EXTENDS Sequences

-----------------------------------------------------------------------------
(* The objects that the schema creates, in the order of its statements.    *)

SchemaObjects ==
  << "coffees", "methods", "recipes", "roast_profiles", "extractions",
     "idx_extractions_coffee", "idx_recipes_coffee", "idx_profiles_coffee" >>

-----------------------------------------------------------------------------
(* Rows.  A recipe's and a profile's ids come from sub-selects on the      *)
(* names, which give NULL (and NOT NULL rejects the row) when the named    *)
(* row is not there.                                                       *)

CoffeeKey(c) == <<"coffees", c>>
MethodKey(m) == <<"methods", m>>

CoffeeRow(c) == [table |-> "coffees", key |-> CoffeeKey(c), refs |-> {}]

MethodRow(m) == [table |-> "methods", key |-> MethodKey(m), refs |-> {}]

RecipeRow(c, m) ==
  [table |-> "recipes", key |-> <<"recipes", c, m>>,
   refs |-> {CoffeeKey(c), MethodKey(m)}]

ProfileRow(c, batch) ==
  [table |-> "roast_profiles", key |-> <<"roast_profiles", c, batch>>,
   refs |-> {CoffeeKey(c)}]

-----------------------------------------------------------------------------

SeedCoffees ==
  << CoffeeRow("Guji"), CoffeeRow("Sidamo"), CoffeeRow("Huila"),
     CoffeeRow("Huehuetenango"), CoffeeRow("Nyeri"), CoffeeRow("Cerrado") >>

SeedMethods ==
  << MethodRow("V60"), MethodRow("Chemex"), MethodRow("AeroPress"),
     MethodRow("French Press"), MethodRow("Espresso") >>

SeedRecipes ==
  << RecipeRow("Guji", "V60"), RecipeRow("Guji", "Chemex"),
     RecipeRow("Sidamo", "V60"),
     RecipeRow("Huila", "V60"), RecipeRow("Huila", "Espresso"),
     RecipeRow("Huehuetenango", "V60"), RecipeRow("Huehuetenango", "French Press"),
     RecipeRow("Nyeri", "V60"), RecipeRow("Nyeri", "AeroPress"),
     RecipeRow("Cerrado", "Espresso"), RecipeRow("Cerrado", "French Press") >>

SeedProfiles ==
  << ProfileRow("Guji", "L-2401"), ProfileRow("Guji", "L-2408"),
     ProfileRow("Nyeri", "K-2405"), ProfileRow("Nyeri", "K-2411") >>

(* A plausible slip: the recipes are written before the rows they look up. *)
SeedStatementsRecipesFirst ==
  SeedCoffees \o SeedRecipes \o SeedMethods \o SeedProfiles

(* seedStatements(): catalogue, methods, recipes, profiles, in this order. *)
SeedStatements ==
  SeedCoffees \o SeedMethods \o SeedRecipes \o SeedProfiles

SeedKeys == { SeedStatements[i].key : i \in DOMAIN SeedStatements }
=============================================================================
