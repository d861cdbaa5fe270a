------------------------------ MODULE MCDialIn ------------------------------
(***************************************************************************)
(* Instances of DialIn for TLC: recipes of the seeded catalogue, one of    *)
(* each kind of method, one that says no more than its ratio, and brews on *)
(* both sides of every band.                                               *)
(***************************************************************************)
EXTENDS DialIn

Recipe(ratio, temp, min, max) ==
  [ratio |-> ratio, temp |-> temp, min |-> min, max |-> max]

GujiV60         == Recipe(167, 940, 165, 190)
CerradoEspresso == Recipe(20, 910, 25, 30)
CerradoPress    == Recipe(150, 930, 240, 270)
RatioOnly       == Recipe(160, 0, 0, 0)

SeededPreparations ==
  { [recipe |-> GujiV60, kind |-> "pour-over"],
    [recipe |-> CerradoEspresso, kind |-> "pressure"],
    [recipe |-> CerradoPress, kind |-> "immersion"],
    [recipe |-> RatioOnly, kind |-> "pour-over"] }

(* Inside the window, at its edges, just outside and far outside. *)
SomeTimes(r) ==
  { 1, r.min - (r.min \div 3), r.min - 1, r.min, r.max, r.max + 1, 2 * r.max }
    \cap (1 .. 2 * r.max + 1)

(* As written, off by a little and off by a lot, in percent of the recipe. *)
SomeWaters(r, dose) ==
  { Rounded(r.ratio * dose * percent, 1000) : percent \in {60, 85, 95, 100, 115, 160} }

(* Not measured, as written, and on both sides of each limit. *)
SomeTemps(r) ==
  { 0, r.temp, r.temp - 9, r.temp - 10, r.temp - 31, r.temp + 30, r.temp + 31 }

(* The brews that may be asked about; 0 seconds is what a missing time     *)
(* decodes to.                                                             *)
SomeBrews(r) ==
  [dose : {180}, water : SomeWaters(r, 180), seconds : {0} \cup SomeTimes(r),
   temp : SomeTemps(r), tds : {0, 135}]

Steps(k) == IF k = "pressure" THEN 3 ELSE 12
=============================================================================
