---------------------------- MODULE DialInProofs ----------------------------
(***************************************************************************)
(* Proofs about Diagnose and DialIn, for any recipes, brews and changes.   *)
(*                                                                         *)
(* The argument.  A diagnosis is typed by its brew and recipe alone; that  *)
(* there is a brew to diagnose after every change needs the dose to stay   *)
(* one for which the ratio's water is not rounded away (Weighable).  What  *)
(* is said of findings, change and watch is then true of every diagnosis,  *)
(* and so of every reachable one.                                          *)
(***************************************************************************)
EXTENDS DialIn, TLAPS

Grades == Severities \cup {"none"}

(* The ratio's water for the dose does not round to nothing. *)
Weighable == recipe.ratio > 0 => recipe.ratio * brew.dose >= 5

Typed ==
  /\ recipe \in Recipes /\ kind \in Kinds /\ rest \in Rests /\ brew \in Brews
  /\ [recipe |-> recipe, kind |-> kind] \in Preparations
  /\ Diagnosable(brew)

IInv == Typed /\ Weighable

-----------------------------------------------------------------------------
(* Severities.                                                             *)

(* band covers every miss, and a larger miss is never graded lower. *)
LEMMA BandGrades ==
  ASSUME NEW num \in Int, NEW den \in Int
  PROVE  band(num, den) \in Severities
BY DEF band, Severities

LEMMA BandMonotone ==
  ASSUME NEW small \in Int, NEW large \in Int, NEW den \in Int, small <= large
  PROVE  rank[band(small, den)] <= rank[band(large, den)]
<1>1. rank["on-target"] = 0 /\ rank["minor"] = 1 /\ rank["major"] = 2
  BY DEF rank, Severities
<1>2. CASE 10 * large < den
  BY <1>1, <1>2 DEF band
<1>3. CASE 10 * large >= den /\ 4 * large < den
  BY <1>1, <1>3 DEF band
<1>4. CASE 10 * large >= den /\ 4 * large >= den
  BY <1>1, <1>4 DEF band
<1> QED  BY <1>2, <1>3, <1>4

LEMMA FloorKept ==
  ASSUME NEW s \in Severities
  PROVE  /\ atLeast(s, "minor") \in {"minor", "major"}
         /\ rank[atLeast(s, "minor")] = IF rank[s] >= 1 THEN rank[s] ELSE 1
BY DEF atLeast, rank, Severities

(* A miss of the window of min to max seconds. *)
Grade(miss, window) == atLeast(band(2 * miss, window), "minor")

LEMMA GradeIsOff ==
  ASSUME NEW miss \in Int, NEW window \in Int
  PROVE  Grade(miss, window) \in {"minor", "major"}
BY BandGrades, FloorKept DEF Grade

LEMMA GradeMonotone ==
  ASSUME NEW small \in Int, NEW large \in Int, NEW window \in Int, small <= large
  PROVE  rank[Grade(small, window)] <= rank[Grade(large, window)]
<1>1. 2 * small \in Int /\ 2 * large \in Int /\ 2 * small <= 2 * large
  OBVIOUS
<1>2. rank[band(2 * small, window)] <= rank[band(2 * large, window)]
  BY <1>1, BandMonotone
<1>3. band(2 * small, window) \in Severities /\ band(2 * large, window) \in Severities
  BY <1>1, BandGrades
<1>4. \A s \in Severities : rank[s] \in Int
  BY DEF rank, Severities
<1> QED  BY <1>2, <1>3, <1>4, FloorKept DEF Grade

-----------------------------------------------------------------------------
(* The findings.                                                           *)

(* A time is in its window or off, on the side that it is on. *)
LEMMA TimingFinding ==
  ASSUME NEW r \in Recipes, NEW b \in Brews, b.seconds > 0
  PROVE  LET f == Timing(r, b)
             window == r.min + r.max
         IN  /\ f.severity \in Grades
             /\ window > 0 /\ b.seconds < r.min =>
                  /\ IsOff(f) /\ f.side = "fast"
                  /\ f.severity = Grade(r.min - b.seconds, window)
             /\ window > 0 /\ b.seconds >= r.min /\ b.seconds > r.max =>
                  /\ IsOff(f) /\ f.side = "slow"
                  /\ f.severity = Grade(b.seconds - r.max, window)
             /\ window = 0 \/ b.seconds \in r.min .. r.max => ~IsOff(f)
<1> DEFINE window == r.min + r.max
<1>1. r.min \in Nat /\ r.max \in Nat /\ b.seconds \in Int /\ window \in Nat
  BY DEF Recipes, Brews
<1>2. window = 0 <=> r.min = 0 /\ r.max = 0
  BY <1>1
<1>3. CASE window = 0
  BY <1>1, <1>2, <1>3 DEF Timing, NoFinding, IsOff, Grades
<1>4. CASE window > 0 /\ b.seconds < r.min
  <2>1. Grade(r.min - b.seconds, window) \in {"minor", "major"}
    BY <1>1, GradeIsOff
  <2>2. Timing(r, b) = [severity |-> Grade(r.min - b.seconds, window), side |-> "fast"]
    BY <1>1, <1>2, <1>4 DEF Timing, Grade
  <2> QED  BY <1>1, <1>4, <2>1, <2>2 DEF IsOff, Grades, Severities
<1>5. CASE window > 0 /\ b.seconds >= r.min /\ b.seconds > r.max
  <2>1. Grade(b.seconds - r.max, window) \in {"minor", "major"}
    BY <1>1, GradeIsOff
  <2>2. Timing(r, b) = [severity |-> Grade(b.seconds - r.max, window), side |-> "slow"]
    BY <1>1, <1>2, <1>5 DEF Timing, Grade
  <2> QED  BY <1>1, <1>5, <2>1, <2>2 DEF IsOff, Grades, Severities
<1>6. CASE window > 0 /\ b.seconds \in r.min .. r.max
  BY <1>1, <1>2, <1>6 DEF Timing, IsOff, Grades, Severities
<1> QED  BY <1>1, <1>3, <1>4, <1>5, <1>6

LEMMA RatioFinding ==
  ASSUME NEW r \in Recipes, NEW b \in Brews
  PROVE  Ratio(r, b).severity \in Grades /\ (IsOff(Ratio(r, b)) => r.ratio > 0)
<1>1. CASE b.dose <= 0 \/ b.water <= 0 \/ r.ratio <= 0
  BY <1>1 DEF Ratio, NoFinding, IsOff, Grades
<1>2. CASE ~(b.dose <= 0 \/ b.water <= 0 \/ r.ratio <= 0)
  <2> DEFINE asked == r.ratio * b.dose
             drift == 10 * b.water - asked
  <2>1. r.ratio \in Int /\ r.ratio > 0 /\ asked \in Int /\ drift \in Int
    BY <1>2 DEF Recipes, Brews
  <2>2. Ratio(r, b).severity = band(Magnitude(drift), asked)
    BY <1>2 DEF Ratio
  <2> HIDE DEF asked, drift
  <2>3. Magnitude(drift) \in Int
    BY <2>1 DEF Magnitude
  <2> QED  BY <2>1, <2>2, <2>3, BandGrades DEF Grades
<1> QED  BY <1>1, <1>2

LEMMA TemperatureFinding ==
  ASSUME NEW r \in Recipes, NEW b \in Brews
  PROVE  Temperature(r, b).severity \in Grades
BY DEF Temperature, NoFinding, Grades, Severities, Magnitude, Recipes, Brews

(* The findings are the three, and each has a grade. *)
LEMMA FindingsTyped ==
  ASSUME NEW r \in Recipes, NEW b \in Brews, b.seconds > 0
  PROVE  LET f == Findings(r, b)
         IN  /\ f["extraction-time"] = Timing(r, b)
             /\ f["ratio"] = Ratio(r, b)
             /\ f["water-temperature"] = Temperature(r, b)
             /\ \A v \in Variables : f[v].severity \in Grades
<1>1. /\ Findings(r, b)["extraction-time"] = Timing(r, b)
      /\ Findings(r, b)["ratio"] = Ratio(r, b)
      /\ Findings(r, b)["water-temperature"] = Temperature(r, b)
  BY DEF Findings, Variables
<1> QED  BY <1>1, TimingFinding, RatioFinding, TemperatureFinding DEF Variables

-----------------------------------------------------------------------------
(* The change and what is watched beside it.                               *)

(* What decide makes of three findings. *)
LEMMA ChangeDecided ==
  ASSUME NEW k, NEW f, \A v \in Variables : f[v].severity \in Grades
  PROVE  LET c == Primary(k, f)
         IN  /\ c.lever \in {"ratio", "grind", "temperature", "none"}
             /\ c.steps \in {0, 1, 2}
             /\ c.lever = "ratio" <=> f["ratio"].severity = "major"
             /\ c.lever = "grind" =>
                  /\ IsOff(f["extraction-time"])
                  /\ c.direction = IF f["extraction-time"].side = "fast" THEN "finer" ELSE "coarser"
             /\ c.lever = "temperature" =>
                  /\ IsOff(f["water-temperature"]) /\ ~IsOff(f["extraction-time"])
                  /\ c.direction = IF f["water-temperature"].side = "hot" THEN "lower" ELSE "raise"
             /\ c.lever = "none" =>
                  /\ c = NoChange
                  /\ ~IsOff(f["extraction-time"]) /\ ~IsOff(f["water-temperature"])
BY DEF Primary, grindAdjustment, Change, NoChange, IsOff

(* Nothing that is off is left out, but for a ratio off by little alone. *)
LEMMA NothingLeftOut ==
  ASSUME NEW k, NEW f, NEW r, \A v \in Variables : f[v].severity \in Grades,
         NEW v \in Variables, IsOff(f[v])
  PROVE  \/ v = VariableOf[Primary(k, f).lever]
         \/ v \in Watch(k, f, r)
         \/ v = "ratio" /\ f[v].severity = "minor"
            /\ \A w \in Variables \ {v} : ~IsOff(f[w])
<1> DEFINE lever == Primary(k, f).lever
<1>1. /\ lever \in {"ratio", "grind", "temperature", "none"}
      /\ lever = "ratio" <=> f["ratio"].severity = "major"
      /\ lever \in {"temperature", "none"} => ~IsOff(f["extraction-time"])
      /\ lever = "none" => ~IsOff(f["water-temperature"])
  BY ChangeDecided
<1>2. v \in {"extraction-time", "ratio", "water-temperature"}
  BY DEF Variables
<1>3. f["ratio"].severity \in {"on-target", "minor", "major", "none"}
  BY DEF Variables, Grades, Severities
<1>4. CASE lever = "ratio"
  BY <1>2, <1>4 DEF VariableOf, Watch
<1>5. CASE lever = "grind"
  BY <1>2, <1>5 DEF VariableOf, Watch
<1>6. CASE lever = "temperature"
  BY <1>1, <1>2, <1>6 DEF VariableOf, Watch
<1>7. CASE lever = "none"
  <2>1. v = "ratio" /\ f[v].severity = "minor"
    BY <1>1, <1>2, <1>3, <1>7 DEF IsOff
  <2>2. \A w \in Variables \ {v} : ~IsOff(f[w])
    BY <1>1, <1>7, <2>1 DEF Variables
  <2> QED  BY <2>1, <2>2
<1> QED  BY <1>1, <1>4, <1>5, <1>6, <1>7

(* Half up is no less than nothing, and more when it is half at least. *)
LEMMA RoundedUp ==
  ASSUME NEW num \in Nat, NEW den \in Nat \ {0}
  PROVE  /\ Rounded(num, den) \in Nat
         /\ 2 * num >= den => Rounded(num, den) > 0
         /\ 2 * den * Rounded(num, den) <= 2 * num + den
         /\ 2 * num + den < 2 * den * (Rounded(num, den) + 1)
<1> DEFINE a == 2 * num + den
           b == 2 * den
<1>1. a \in Nat /\ b \in Nat /\ b > 0
  OBVIOUS
<1>2. 2 * num >= den => a >= b
  OBVIOUS
<1> HIDE DEF a, b
<1>3. /\ a \div b \in Nat
      /\ a >= b => a \div b > 0
      /\ b * (a \div b) <= a /\ a < b * ((a \div b) + 1)
  BY <1>1, SMTT(30)
<1> QED  BY <1>2, <1>3 DEF Rounded, a, b

(* A yield is not negative. *)
LEMMA YieldPositive ==
  ASSUME NEW b \in Brews
  PROVE  ExtractionYield(b) \in Nat
<1> DEFINE beverage == b.water - b.dose * absorptionPerGram
           dissolved == b.tds * beverage
<1>1. CASE b.tds > 0 /\ b.dose > 0 /\ beverage > 0
  <2>1. b.tds \in Nat /\ beverage \in Nat /\ 10 * b.dose \in Nat \ {0}
    BY <1>1 DEF Brews, absorptionPerGram
  <2> HIDE DEF beverage
  <2>2. dissolved \in Nat
    BY <2>1
  <2>3. ExtractionYield(b) = Rounded(dissolved, 10 * b.dose)
    BY <1>1 DEF ExtractionYield, beverage
  <2> HIDE DEF dissolved
  <2> QED  BY <2>1, <2>2, <2>3, RoundedUp
<1>2. CASE ~(b.tds > 0 /\ b.dose > 0 /\ beverage > 0)
  BY <1>2 DEF ExtractionYield
<1> QED  BY <1>1, <1>2

LEMMA WatchTyped ==
  ASSUME NEW k, NEW f, NEW r, \A v \in Variables : f[v].severity \in Grades
  PROVE  Watch(k, f, r) \subseteq Variables \cup {"rest"}
<1>1. Primary(k, f).lever \in {"ratio", "grind", "temperature", "none"}
  BY ChangeDecided
<1> QED  BY <1>1 DEF Watch, Variables

-----------------------------------------------------------------------------
(* Dialling in.                                                            *)

LEMMA InvariantAtStart == Init => IInv
<1> SUFFICES ASSUME Init PROVE IInv
  OBVIOUS
<1>1. PICK p \in Preparations : recipe = p.recipe /\ kind = p.kind
  BY DEF Init
<1>2. p \in [recipe : Recipes, kind : Kinds]
  BY PreparationsAssumption
<1>3. recipe \in Recipes /\ kind \in Kinds /\ [recipe |-> recipe, kind |-> kind] = p
  BY <1>1, <1>2
<1>4. brew \in Brews /\ (recipe.ratio > 0 /\ brew.dose > 0 => recipe.ratio * brew.dose >= 5)
  BY <1>1, PreparationsAssumption DEF Init
<1>5. brew.dose > 0 /\ rest \in Rests /\ Diagnosable(brew)
  BY DEF Init, Diagnosable
<1> QED  BY <1>3, <1>4, <1>5 DEF IInv, Typed, Weighable

(* A change of the ratio leaves a brew that can be diagnosed. *)
LEMMA FollowRatioTyped ==
  ASSUME IInv, FollowRatio
  PROVE  IInv'
<1> DEFINE asked == recipe.ratio * brew.dose
<1>1. /\ recipe \in Recipes /\ brew \in Brews /\ Diagnosable(brew)
      /\ [recipe |-> recipe, kind |-> kind] \in Preparations
  BY DEF IInv, Typed
<1>2. recipe.ratio > 0
  <2> DEFINE f == Findings(recipe, brew)
  <2>1. brew.seconds > 0
    BY <1>1 DEF Diagnosable
  <2>2. (\A v \in Variables : f[v].severity \in Grades) /\ f["ratio"] = Ratio(recipe, brew)
    BY <1>1, <2>1, FindingsTyped
  <2>3. Primary(kind, f).lever = "ratio"
    BY DEF FollowRatio, diagnosis, Diagnosis
  <2> HIDE DEF f
  <2>4. f["ratio"].severity = "major"
    BY <2>2, <2>3, ChangeDecided
  <2>5. IsOff(Ratio(recipe, brew))
    BY <2>2, <2>4 DEF IsOff
  <2> QED  BY <1>1, <2>5, RatioFinding
<1>3. asked >= 5 /\ asked \in Nat
  <2>1. asked >= 5
    BY <1>2 DEF IInv, Weighable
  <2>2. asked \in Int
    BY <1>1 DEF Recipes, Brews
  <2> QED  BY <2>1, <2>2
<1> HIDE DEF asked
<1>4. PICK water \in Nat \ {0} : water = Rounded(asked, 10)
  BY <1>3, RoundedUp
<1>5. PICK t \in TimesAfter(recipe) : brew' = [brew EXCEPT !.water = water, !.seconds = t]
  BY <1>4 DEF FollowRatio, asked
<1>6. t \in Nat \ {0}
  BY <1>1, PreparationsAssumption
<1>7. /\ brew' \in Brews /\ brew'.dose = brew.dose
      /\ brew'.water = water /\ brew'.seconds = t
  <2>1. brew' = [dose |-> brew.dose, water |-> water, seconds |-> t,
                 temp |-> brew.temp, tds |-> brew.tds]
    BY <1>1, <1>5 DEF Brews
  <2> QED  BY <1>1, <1>4, <1>6, <2>1 DEF Brews
<1> QED  BY <1>1, <1>4, <1>6, <1>7 DEF FollowRatio, IInv, Typed, Weighable, Diagnosable

(* A change of the grind leaves a brew that takes its time. *)
LEMMA GrindTyped ==
  ASSUME IInv, Grind \/ GrindAndHold
  PROVE  IInv'
<1> DEFINE f == Findings(recipe, brew)
<1>1. /\ recipe \in Recipes /\ brew \in Brews /\ Diagnosable(brew)
      /\ [recipe |-> recipe, kind |-> kind] \in Preparations
      /\ brew.seconds \in Int /\ brew.seconds > 0
  BY DEF IInv, Typed, Diagnosable, Brews
<1>2. (\A v \in Variables : f[v].severity \in Grades) /\ f["extraction-time"] = Timing(recipe, brew)
  BY <1>1, FindingsTyped
<1>3. Diagnosis.primary = Primary(kind, f)
  BY DEF Diagnosis, diagnosis
<1> HIDE DEF f
<1>4. PICK t \in Nat \ {0} : brew' = [brew EXCEPT !.seconds = t]
  <2>1. CASE Grind
    <3> DEFINE by == Primary(kind, f).steps * StepSeconds(kind)
    <3>1. Primary(kind, f).steps \in {0, 1, 2} /\ StepSeconds(kind) \in Nat
      BY <1>1, <1>2, ChangeDecided, PreparationsAssumption
    <3>2. by \in Nat
      BY <3>1
    <3>3. brew' = [brew EXCEPT !.seconds =
                     IF Primary(kind, f).direction = "finer"
                     THEN brew.seconds + by ELSE AtLeastOne(brew.seconds - by)]
      BY <1>3, <2>1 DEF Grind
    <3> HIDE DEF by
    <3>4. brew.seconds + by \in Nat \ {0} /\ AtLeastOne(brew.seconds - by) \in Nat \ {0}
      BY <1>1, <3>2 DEF AtLeastOne
    <3> QED  BY <3>3, <3>4
  <2>2. CASE GrindAndHold
    <3>1. PICK t \in recipe.min .. recipe.max : brew' = [brew EXCEPT !.seconds = t]
      BY <2>2 DEF GrindAndHold
    <3>2. IsOff(Timing(recipe, brew))
      BY <1>2, <1>3, <2>2, ChangeDecided DEF GrindAndHold
    <3>3. recipe.min \in Nat /\ recipe.max \in Nat /\ recipe.min + recipe.max # 0
      BY <1>1, <3>2, TimingFinding DEF Recipes
    <3>4. recipe.min > 0
      BY <1>1, <3>3, PreparationsAssumption
    <3> QED  BY <3>1, <3>3, <3>4
  <2> QED  BY <2>1, <2>2
<1>5. /\ brew' \in Brews /\ brew'.dose = brew.dose /\ brew'.water = brew.water
      /\ brew'.seconds > 0
  BY <1>1, <1>4 DEF Brews
<1> QED  BY <1>5 DEF Grind, GrindAndHold, IInv, Typed, Weighable, Diagnosable

LEMMA InvariantStep == IInv /\ [Next]_vars => IInv'
<1> SUFFICES ASSUME IInv, [Next]_vars PROVE IInv'
  OBVIOUS
<1>1. CASE SetTemperature
  <2>1. recipe.temp \in Int /\ brew' = [brew EXCEPT !.temp = recipe.temp] /\ brew \in Brews
    BY <1>1 DEF SetTemperature, IInv, Typed, Recipes
  <2>2. /\ brew' \in Brews /\ brew'.dose = brew.dose /\ brew'.water = brew.water
        /\ brew'.seconds = brew.seconds
    BY <2>1 DEF Brews
  <2> QED  BY <1>1, <2>2 DEF SetTemperature, IInv, Typed, Weighable, Diagnosable
<1>2. CASE UNCHANGED vars
  BY <1>2 DEF vars, IInv, Typed, Weighable
<1> QED  BY <1>1, <1>2, FollowRatioTyped, GrindTyped DEF Next

LEMMA Invariance == Spec => []IInv
BY InvariantAtStart, InvariantStep, PTL DEF Spec

-----------------------------------------------------------------------------
(* What follows.                                                           *)

(* The diagnosis of a reachable brew. *)
LEMMA DiagnosisTyped ==
  ASSUME IInv
  PROVE  /\ Diagnosis.findings = Findings(recipe, brew)
         /\ Diagnosis.primary = Primary(kind, Findings(recipe, brew))
         /\ Diagnosis.watch = Watch(kind, Findings(recipe, brew), rest)
         /\ Diagnosis.yield = ExtractionYield(brew)
         /\ \A v \in Variables : Findings(recipe, brew)[v].severity \in Grades
         /\ Findings(recipe, brew)["extraction-time"] = Timing(recipe, brew)
         /\ recipe \in Recipes /\ brew \in Brews /\ brew.seconds > 0
<1>1. recipe \in Recipes /\ brew \in Brews /\ brew.seconds > 0
  BY DEF IInv, Typed, Diagnosable
<1> QED  BY <1>1, FindingsTyped DEF Diagnosis, diagnosis

(* Whatever is brewed and changed, there is a brew to diagnose, and the    *)
(* diagnosis watches what can be watched and reports no negative yield.    *)
THEOREM TypeCorrect == Spec => []TypeOK
<1>1. IInv => TypeOK
  <2> SUFFICES ASSUME IInv PROVE TypeOK
    OBVIOUS
  <2>1. Diagnosis.watch \subseteq Variables \cup {"rest"}
    BY DiagnosisTyped, WatchTyped
  <2>2. Diagnosis.yield \in Nat
    BY DiagnosisTyped, YieldPositive
  <2> QED  BY <2>1, <2>2 DEF TypeOK, IInv, Typed
<1> QED  BY <1>1, Invariance, PTL

(* appendTiming: outside the window is never on target. *)
THEOREM OutsideIsOff == Spec => []OutsideWindowIsOff
<1>1. IInv => OutsideWindowIsOff
  <2> SUFFICES ASSUME IInv, recipe.min + recipe.max > 0,
                      brew.seconds \notin recipe.min .. recipe.max
               PROVE  IsOff(Diagnosis.findings["extraction-time"])
    BY DEF OutsideWindowIsOff
  <2>1. recipe.min \in Nat /\ recipe.max \in Nat /\ brew.seconds \in Int
    BY DiagnosisTyped DEF Recipes, Brews
  <2>2. \/ brew.seconds < recipe.min
        \/ brew.seconds >= recipe.min /\ brew.seconds > recipe.max
    BY <2>1
  <2>3. IsOff(Timing(recipe, brew))
    BY <2>2, DiagnosisTyped, TimingFinding
  <2> QED  BY <2>3, DiagnosisTyped
<1> QED  BY <1>1, Invariance, PTL

(* decide and watchOthers: no variable that is off is forgotten. *)
THEOREM NoneForgotten == Spec => []NothingForgotten
<1>1. IInv => NothingForgotten
  <2> SUFFICES ASSUME IInv, NEW v \in Variables, IsOff(Diagnosis.findings[v])
               PROVE  \/ v = VariableOf[Diagnosis.primary.lever]
                      \/ v \in Diagnosis.watch
                      \/ v = "ratio" /\ Diagnosis.findings[v].severity = "minor"
                         /\ \A w \in Variables \ {v} : ~IsOff(Diagnosis.findings[w])
    BY DEF NothingForgotten
  <2> DEFINE f == Findings(recipe, brew)
  <2>1. /\ Diagnosis.findings = f /\ Diagnosis.primary = Primary(kind, f)
        /\ Diagnosis.watch = Watch(kind, f, rest)
        /\ \A w \in Variables : f[w].severity \in Grades
    BY DiagnosisTyped
  <2> HIDE DEF f
  <2> QED  BY <2>1, NothingLeftOut
<1> QED  BY <1>1, Invariance, PTL

(* grindAdjustment: the grind is moved for a brew outside its window only, *)
(* finer when it ran fast and coarser when it ran slow.                    *)
THEOREM GrindMovesTheRightWay ==
  Spec => [](Diagnosis.primary.lever = "grind" =>
               /\ brew.seconds \notin recipe.min .. recipe.max
               /\ Diagnosis.primary.direction =
                    IF brew.seconds < recipe.min THEN "finer" ELSE "coarser")
<1>1. IInv => (Diagnosis.primary.lever = "grind" =>
                 /\ brew.seconds \notin recipe.min .. recipe.max
                 /\ Diagnosis.primary.direction =
                      IF brew.seconds < recipe.min THEN "finer" ELSE "coarser")
  <2> SUFFICES ASSUME IInv, Diagnosis.primary.lever = "grind"
               PROVE  /\ brew.seconds \notin recipe.min .. recipe.max
                      /\ Diagnosis.primary.direction =
                           IF brew.seconds < recipe.min THEN "finer" ELSE "coarser"
    OBVIOUS
  <2> DEFINE time == Timing(recipe, brew)
  <2>1. /\ IsOff(time)
        /\ Diagnosis.primary.direction = IF time.side = "fast" THEN "finer" ELSE "coarser"
    BY DiagnosisTyped, ChangeDecided
  <2>2. recipe.min \in Nat /\ recipe.max \in Nat /\ brew.seconds \in Int
    BY DiagnosisTyped DEF Recipes, Brews
  <2>3. /\ brew.seconds \notin recipe.min .. recipe.max
        /\ time.side = IF brew.seconds < recipe.min THEN "fast" ELSE "slow"
    BY <2>1, <2>2, DiagnosisTyped, TimingFinding
  <2> QED  BY <2>1, <2>3
<1> QED  BY <1>1, Invariance, PTL

(* appendTiming: of two brews of one recipe that miss its window on one    *)
(* side, the one that misses it by more is never graded lower.             *)
THEOREM LargerMissIsNoLess ==
  ASSUME NEW r \in Recipes, NEW near \in Brews, NEW far \in Brews,
         near.seconds > 0, far.seconds > 0, r.min <= r.max, r.max > 0,
         \/ far.seconds <= near.seconds /\ near.seconds < r.min
         \/ far.seconds >= near.seconds /\ near.seconds > r.max
  PROVE  rank[Timing(r, near).severity] <= rank[Timing(r, far).severity]
<1> DEFINE window == r.min + r.max
<1>1. /\ r.min \in Nat /\ r.max \in Nat /\ window \in Nat /\ window > 0
      /\ near.seconds \in Int /\ far.seconds \in Int
  BY DEF Recipes, Brews
<1>2. CASE near.seconds < r.min
  <2>1. /\ Timing(r, near).severity = Grade(r.min - near.seconds, window)
        /\ Timing(r, far).severity = Grade(r.min - far.seconds, window)
    BY <1>1, <1>2, TimingFinding
  <2>2. r.min - near.seconds <= r.min - far.seconds
    BY <1>1, <1>2
  <2> QED  BY <1>1, <2>1, <2>2, GradeMonotone
<1>3. CASE near.seconds > r.max
  <2>1. /\ Timing(r, near).severity = Grade(near.seconds - r.max, window)
        /\ Timing(r, far).severity = Grade(far.seconds - r.max, window)
    BY <1>1, <1>3, TimingFinding
  <2>2. near.seconds - r.max <= far.seconds - r.max
    BY <1>1, <1>3
  <2> QED  BY <1>1, <2>1, <2>2, GradeMonotone
<1> QED  BY <1>2, <1>3

(* Following the ratio is enough: the water that is weighed out for it, to *)
(* the tenth of a gram, is graded on target, unless it is a few grams.     *)
THEOREM RatioFollowedIsOnTarget ==
  ASSUME NEW r \in Recipes, NEW b \in Brews, r.ratio > 0, b.dose > 0,
         r.ratio * b.dose > 50,
         b.water = Rounded(r.ratio * b.dose, 10)
  PROVE  Ratio(r, b).severity = "on-target"
<1> DEFINE asked == r.ratio * b.dose
           drift == 10 * b.water - asked
<1>1. asked \in Nat /\ asked > 50 /\ b.water \in Int
  BY DEF Recipes, Brews
<1>2. b.water > 0 /\ Ratio(r, b).severity = band(Magnitude(drift), asked)
  <2> HIDE DEF asked
  <2>1. b.water > 0
    BY <1>1, RoundedUp DEF asked
  <2> QED  BY <2>1 DEF Ratio, asked, Recipes, Brews
<1> HIDE DEF asked
<1>3. b.water = Rounded(asked, 10)
  BY DEF asked
<1>4. /\ 20 * b.water <= 2 * asked + 10
      /\ 2 * asked + 10 < 20 * (b.water + 1)
  <2>1. ASSUME NEW w, w = Rounded(asked, 10)
        PROVE  2 * 10 * w <= 2 * asked + 10 /\ 2 * asked + 10 < 2 * 10 * (w + 1)
    BY <1>1, <2>1, RoundedUp
  <2> QED  BY <1>1, <1>3, <2>1
<1>5. drift \in Int /\ drift <= 5 /\ -5 <= drift
  BY <1>1, <1>4
<1> HIDE DEF drift
<1>6. Magnitude(drift) \in Nat /\ 10 * Magnitude(drift) < asked
  BY <1>1, <1>5 DEF Magnitude
<1> QED  BY <1>1, <1>2, <1>6 DEF band
=============================================================================
