------------------------------- MODULE DialIn -------------------------------
(***************************************************************************)
(* Dialling a brew in with diagnose_extraction: the barista brews, asks,   *)
(* makes the one change that the diagnosis names, and brews again.         *)
(*                                                                         *)
(* What a change does to the next brew is the barista's side of it: the    *)
(* lever that is named moves, everything else stays "exactly where it is", *)
(* one step of the grinder moves a flow by a fixed time, and a brew at     *)
(* another ratio may take any time.                                        *)
(***************************************************************************)
EXTENDS Diagnose

CONSTANTS
  Preparations,    \* the recipes with the kind of their method
  FirstBrews(_),   \* what the first brew of a recipe may measure
  TimesAfter(_),   \* what a brew may take after its ratio was set right
  StepSeconds(_)   \* how far one step of the grinder moves a brew on a kind

Recipes == [ratio : Int, temp : Int, min : Nat, max : Nat]
Brews   == [dose : Int, water : Int, seconds : Int, temp : Int, tds : Int]

(* A recipe has a window of time or, with zeros, none.  The water that its *)
(* ratio asks for is not rounded away, and a brew takes its time.          *)
ASSUME PreparationsAssumption ==
  /\ Preparations \subseteq [recipe : Recipes, kind : Kinds]
  /\ \A p \in Preparations :
       /\ p.recipe.min = 0 => p.recipe.max = 0
       /\ FirstBrews(p.recipe) \subseteq Brews
       /\ \A b \in FirstBrews(p.recipe) :
            p.recipe.ratio > 0 /\ b.dose > 0 => p.recipe.ratio * b.dose >= 5
       /\ TimesAfter(p.recipe) \subseteq Nat \ {0}
       /\ StepSeconds(p.kind) \in Nat

VARIABLES
  recipe,   \* the recipe that is followed
  kind,     \* the kind of its method
  rest,     \* the rest of the coffee on that day
  brew      \* the last brew: dose, water, seconds, temp, tds

vars == <<recipe, kind, rest, brew>>

Diagnosis == diagnosis(recipe, kind, brew, rest)

(* diagnoseExtraction refuses a brew without its time, dose and water. *)
Diagnosable(b) == b.seconds > 0 /\ b.dose > 0 /\ b.water > 0

TypeOK ==
  /\ [recipe |-> recipe, kind |-> kind] \in Preparations
  /\ rest \in Rests
  /\ brew \in Brews
  /\ Diagnosable(brew)
  /\ Diagnosis.watch \subseteq Variables \cup {"rest"}
  /\ Diagnosis.yield >= 0

(* A plausible slip: the arguments are not checked. *)
InitUnchecked ==
  /\ \E p \in Preparations : recipe = p.recipe /\ kind = p.kind
  /\ rest \in Rests
  /\ brew \in FirstBrews(recipe)

Init ==
  /\ \E p \in Preparations : recipe = p.recipe /\ kind = p.kind
  /\ rest \in Rests
  /\ brew \in FirstBrews(recipe)
  /\ Diagnosable(brew)

AtLeastOne(n) == IF n < 1 THEN 1 ELSE n

(* The ratio that the recipe asks for, to the tenth of a gram. *)
FollowRatio ==
  /\ Diagnosis.primary.lever = "ratio"
  /\ \E t \in TimesAfter(recipe) :
       brew' = [brew EXCEPT !.water = Rounded(recipe.ratio * brew.dose, 10),
                            !.seconds = t]
  /\ UNCHANGED <<recipe, kind, rest>>

(* The grind is moved; the flow of the next brew follows it. *)
Grind ==
  /\ Diagnosis.primary.lever = "grind"
  /\ kind # "immersion"
  /\ LET by == Diagnosis.primary.steps * StepSeconds(kind) IN
     brew' = [brew EXCEPT !.seconds =
                IF Diagnosis.primary.direction = "finer"
                THEN @ + by ELSE AtLeastOne(@ - by)]
  /\ UNCHANGED <<recipe, kind, rest>>

(* In an immersion the timer is held at the recipe's window. *)
GrindAndHold ==
  /\ Diagnosis.primary.lever = "grind"
  /\ kind = "immersion"
  /\ \E t \in recipe.min .. recipe.max : brew' = [brew EXCEPT !.seconds = t]
  /\ UNCHANGED <<recipe, kind, rest>>

SetTemperature ==
  /\ Diagnosis.primary.lever = "temperature"
  /\ brew' = [brew EXCEPT !.temp = recipe.temp]
  /\ UNCHANGED <<recipe, kind, rest>>

Next == FollowRatio \/ Grind \/ GrindAndHold \/ SetTemperature

Spec == Init /\ [][Next]_vars

(* The barista does not stop at a cup that is to be changed. *)
FairSpec == Spec /\ WF_vars(Next)

-----------------------------------------------------------------------------
(* Properties.                                                             *)

(* "Falling outside the window is never on target, however small the miss  *)
(* looks against the clock" (appendTiming): a brew outside the window, if  *)
(* there is one, is graded off, whatever fraction of it the miss is.       *)
OutsideWindowIsOff ==
  recipe.min + recipe.max > 0 /\ brew.seconds \notin recipe.min .. recipe.max =>
    IsOff(Diagnosis.findings["extraction-time"])

(* No variable that is off is forgotten (the comment on Watch): it is the  *)
(* one to change or it is watched.  The exception is a ratio that is the   *)
(* only thing off, and off by little.                                      *)
NothingForgotten ==
  \A v \in Variables :
    IsOff(Diagnosis.findings[v]) =>
      \/ v = VariableOf[Diagnosis.primary.lever]
      \/ v \in Diagnosis.watch
      \/ v = "ratio" /\ Diagnosis.findings[v].severity = "minor"
         /\ \A w \in Variables \ {v} : ~IsOff(Diagnosis.findings[w])

(* Following the advice gets there: the diagnosis comes to "change         *)
(* nothing" and stays there.  It never sends the grinder back and forth    *)
(* for ever, as long as a step of it is no wider than the window.          *)
AdviceConverges == <>[](Diagnosis.primary = NoChange)

(* "change nothing: every measured variable is within its window" (Report) *)
ChangeNothingIsTrue ==
  Diagnosis.primary = NoChange =>
    \A v \in Variables : ~IsOff(Diagnosis.findings[v])

(* "supplying it adds an extraction yield" (the schema of                  *)
(* diagnose_extraction, of a refractometer reading): at least for a brew   *)
(* that follows its recipe's ratio.                                        *)
ReadingGivesYield ==
  brew.tds > 0 /\ Diagnosis.findings["ratio"].severity = "on-target" =>
    Diagnosis.yield > 0
=============================================================================
