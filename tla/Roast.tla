------------------------------- MODULE Roast --------------------------------
(***************************************************************************)
(* Comparing two batches of a coffee: CompareProfiles and what it calls in *)
(* roast.go, as operators.                                                 *)
(*                                                                         *)
(* Times are seconds from charge, temperatures tenths of a degree and the  *)
(* development time ratio tenths of a percent; 0 stands for a landmark     *)
(* that nobody recorded.  float64 agrees with this except where two ratios *)
(* differ by exactly a threshold, or one lies between two tenths.          *)
(***************************************************************************)
EXTENDS Diagnose, Sequences, FiniteSets

(* In the order in which CompareProfiles adds them. *)
LandmarkOrder ==
  << "turning-point", "dry-end", "maillard", "first-crack", "development",
     "total-roast", "first-crack-temperature", "drop-temperature",
     "development-time-ratio" >>

Landmarks == { LandmarkOrder[i] : i \in DOMAIN LandmarkOrder }
InDegrees == {"first-crack-temperature", "drop-temperature"}
InSeconds == Landmarks \ (InDegrees \cup {"development-time-ratio"})

DevelopmentSeconds(p) ==
  IF p.drop <= 0 \/ p.firstCrack <= 0 THEN 0 ELSE p.drop - p.firstCrack

DevelopmentTimeRatio(p) ==
  IF p.drop <= 0 THEN 0 ELSE Rounded(1000 * DevelopmentSeconds(p), p.drop)

(* A plausible slip: browning is taken from the turning point. *)
MaillardSecondsFromTurning(p) ==
  IF p.firstCrack <= 0 \/ p.dryEnd <= 0 THEN 0 ELSE p.firstCrack - p.turningPoint

MaillardSeconds(p) ==
  IF p.firstCrack <= 0 \/ p.dryEnd <= 0 THEN 0 ELSE p.firstCrack - p.dryEnd

Reading(p, landmark) ==
  CASE landmark = "turning-point"           -> p.turningPoint
    [] landmark = "dry-end"                 -> p.dryEnd
    [] landmark = "maillard"                -> MaillardSeconds(p)
    [] landmark = "first-crack"             -> p.firstCrack
    [] landmark = "development"             -> DevelopmentSeconds(p)
    [] landmark = "total-roast"             -> p.drop
    [] landmark = "first-crack-temperature" -> p.firstCrackTemp
    [] landmark = "drop-temperature"        -> p.dropTemp
    [] landmark = "development-time-ratio"  -> DevelopmentTimeRatio(p)

(* minorSeconds, minorDegrees, minorRatioPoints and their major twins. *)
Threshold(landmark) ==
  CASE landmark \in InSeconds               -> [minor |-> 15, major |-> 45]
    [] landmark \in InDegrees               -> [minor |-> 20, major |-> 50]
    [] landmark = "development-time-ratio"  -> [minor |-> 10, major |-> 25]

(* A plausible slip: the change is graded with its sign. *)
GradeSigned(landmark, delta) ==
  CASE delta < Threshold(landmark).minor -> "on-target"
    [] delta \in Threshold(landmark).minor .. Threshold(landmark).major - 1 -> "minor"
    [] delta >= Threshold(landmark).major -> "major"

(* secondBand, degreeBand and ratioBand. *)
Grade(landmark, delta) ==
  CASE Magnitude(delta) < Threshold(landmark).minor -> "on-target"
    [] Magnitude(delta) \in Threshold(landmark).minor .. Threshold(landmark).major - 1 -> "minor"
    [] Magnitude(delta) >= Threshold(landmark).major -> "major"

(* The landmarks that both batches recorded. *)
Compared(earlier, later) ==
  { l \in Landmarks : Reading(earlier, l) > 0 /\ Reading(later, l) > 0 }

Differences(earlier, later) ==
  [ l \in Compared(earlier, later) |->
      LET delta == Reading(later, l) - Reading(earlier, l)
      IN  [change |-> delta, severity |-> Grade(l, delta)] ]

Place(landmark) == CHOOSE i \in DOMAIN LandmarkOrder : LandmarkOrder[i] = landmark

Moved(differences) ==
  { l \in DOMAIN differences : differences[l].severity # "on-target" }

(* The landmark that the summary names: the first of the highest grade. *)
summarise(differences) ==
  LET moved == Moved(differences)
      worst == { l \in moved :
                   \A k \in moved : rank[differences[k].severity] <= rank[differences[l].severity] }
  IN  IF moved = {} THEN "none"
      ELSE CHOOSE l \in worst : \A k \in worst : Place(l) <= Place(k)

CompareProfiles(earlier, later) ==
  [differences |-> Differences(earlier, later),
   summary     |-> summarise(Differences(earlier, later))]
=============================================================================
