----------------------------- MODULE RestProofs -----------------------------
(***************************************************************************)
(* What RestWindows says for every date, hour, zone and roast.             *)
(***************************************************************************)
EXTENDS RestWindows, TLAPS

(* The states in the order in which a lot passes through them. *)
stage(state) ==
  CASE state = "too-fresh" -> 1
    [] state = "resting" -> 2
    [] state = "peak" -> 3
    [] state = "fading" -> 4
    [] state = "stale" -> 5

(* How dark a roast is, as far as its windows go. *)
darkness(roast) ==
  CASE roast = "light" -> 1
    [] roast \in {"medium-light", "medium"} -> 2
    [] roast \in {"medium-dark", "dark"} -> 3

Zones == -12 .. 14

-----------------------------------------------------------------------------

(* Cutting a quotient by 24 off towards zero: below a day either way it is *)
(* zero, and otherwise it is within a day of the quotient.                 *)
LEMMA TruncatedDays ==
  ASSUME NEW n \in Int
  PROVE  /\ Truncated(n, 24) \in Int
         /\ n >= 0 => 24 * Truncated(n, 24) <= n /\ n < 24 * Truncated(n, 24) + 24
         /\ n < 0 => 24 * Truncated(n, 24) >= n /\ n > 24 * Truncated(n, 24) - 24
<1>1. CASE n >= 0
  BY <1>1, SMT DEF Truncated
<1>2. CASE n < 0
  BY <1>2, SMT DEF Truncated
<1>3. QED  BY <1>1, <1>2

(* Time only ever adds to the age of a lot (DaysOffRoast). *)
THEOREM DaysOnlyGrow ==
  ASSUME NEW roastOn \in Int, NEW before \in Int, NEW after \in Int, before <= after
  PROVE  DaysOffRoast(roastOn, before) <= DaysOffRoast(roastOn, after)
<1> DEFINE m == before - 24 * roastOn
           n == after - 24 * roastOn
<1>1. m \in Int /\ n \in Int /\ m <= n
  OBVIOUS
<1>2. DaysOffRoast(roastOn, before) = Truncated(m, 24)
  BY NoDateAssumption DEF DaysOffRoast
<1>3. DaysOffRoast(roastOn, after) = Truncated(n, 24)
  BY NoDateAssumption DEF DaysOffRoast
<1> HIDE DEF m, n
<1>4. Truncated(m, 24) <= Truncated(n, 24)
  BY <1>1, TruncatedDays, SMT
<1>5. QED  BY <1>2, <1>3, <1>4

(* A lot goes through its states in their order and never back, whatever   *)
(* its roast (Rest).                                                       *)
THEOREM AgesForward ==
  ASSUME NEW roast \in Roasts, NEW earlier \in Nat, NEW later \in Nat, earlier <= later
  PROVE  stage(Rest(earlier, roast)) <= stage(Rest(later, roast))
<1>1. CASE roast = "light"
  BY <1>1, SMTT(30) DEF stage, Rest, PeakStart, PeakEnd
<1>2. CASE roast \in {"medium-light", "medium"}
  BY <1>2, SMTT(30) DEF stage, Rest, PeakStart, PeakEnd
<1>3. CASE roast \in {"medium-dark", "dark"}
  BY <1>3, SMTT(30) DEF stage, Rest, PeakStart, PeakEnd
<1>4. QED  BY <1>1, <1>2, <1>3 DEF Roasts

(* "Darker roasts degas faster and fade sooner": on the same day a darker  *)
(* lot is never behind a lighter one.                                      *)
THEOREM DarkerNeverBehind ==
  ASSUME NEW lighter \in Roasts, NEW darker \in Roasts, NEW days \in Nat,
         darkness(lighter) <= darkness(darker)
  PROVE  stage(Rest(days, lighter)) <= stage(Rest(days, darker))
<1>1. CASE lighter = "light" /\ darker = "light"
  BY <1>1, SMTT(30) DEF stage, Rest, PeakStart, PeakEnd
<1>2. CASE lighter = "light" /\ darker \in {"medium-light", "medium"}
  BY <1>2, SMTT(30) DEF stage, Rest, PeakStart, PeakEnd
<1>3. CASE lighter = "light" /\ darker \in {"medium-dark", "dark"}
  BY <1>3, SMTT(30) DEF stage, Rest, PeakStart, PeakEnd
<1>4. CASE lighter \in {"medium-light", "medium"} /\ darker \in {"medium-light", "medium"}
  BY <1>4, SMTT(30) DEF stage, Rest, PeakStart, PeakEnd
<1>5. CASE lighter \in {"medium-light", "medium"} /\ darker \in {"medium-dark", "dark"}
  BY <1>5, SMTT(30) DEF stage, Rest, PeakStart, PeakEnd
<1>6. CASE lighter \in {"medium-dark", "dark"} /\ darker \in {"medium-dark", "dark"}
  BY <1>6, SMTT(30) DEF stage, Rest, PeakStart, PeakEnd
<1>7. CASE darkness(lighter) > darkness(darker)
  BY <1>7, SMT DEF darkness, Roasts
<1>8. darkness(lighter) \in 1 .. 3 /\ darkness(darker) \in 1 .. 3
  BY DEF darkness, Roasts
<1>9. QED
  BY <1>1, <1>2, <1>3, <1>4, <1>5, <1>6, SMT DEF darkness, Roasts

(* In every zone and at every hour, a lot that was roasted on a day that   *)
(* the local calendar has reached is of a known age, a day from what the   *)
(* calendar says at most.                                                  *)
THEOREM KnownSinceRoasted ==
  ASSUME NEW roastOn \in Int, NEW day \in Int, NEW hour \in 0 .. 23, NEW zone \in Zones,
         roastOn <= day
  PROVE  LET days == DaysOffRoast(roastOn, 24 * day + hour - zone)
         IN  /\ days \in Nat
             /\ days - (day - roastOn) \in -1 .. 1
             /\ \A roast \in Roasts : Rest(days, roast) # "unknown"
<1> DEFINE now  == 24 * day + hour - zone
           n    == now - 24 * roastOn
           days == DaysOffRoast(roastOn, now)
<1>1. now \in Int /\ n \in Int /\ n >= 24 * (day - roastOn) - 14 /\ n <= 24 * (day - roastOn) + 35
  BY SMT DEF Zones
<1> HIDE DEF now
<1>2. days = Truncated(n, 24)
  BY <1>1, NoDateAssumption, Zenon DEF DaysOffRoast
<1>3. days \in Nat /\ days - (day - roastOn) \in -1 .. 1
  <2> DEFINE since == day - roastOn
  <2>1. since \in Nat
    BY SMT
  <2>2. n >= 24 * since - 14 /\ n <= 24 * since + 35
    BY <1>1
  <2> HIDE DEF n, days, since
  <2>3. days \in Int
    BY <1>1, <1>2, TruncatedDays
  <2>4. CASE n >= 0
    <3>1. 24 * days <= n /\ n < 24 * days + 24
      BY <1>1, <1>2, <2>4, TruncatedDays
    <3>2. days \in Nat /\ days - since \in -1 .. 1
      BY <1>1, <2>1, <2>2, <2>3, <2>4, <3>1, SMT
    <3>3. QED  BY <3>2 DEF since
  <2>5. CASE n < 0
    <3>1. 24 * days >= n /\ n > 24 * days - 24
      BY <1>1, <1>2, <2>5, TruncatedDays
    <3>2. days \in Nat /\ days - since \in -1 .. 1
      BY <1>1, <2>1, <2>2, <2>3, <2>5, <3>1, SMT
    <3>3. QED  BY <3>2 DEF since
  <2>6. QED  BY <1>1, <2>4, <2>5 DEF n
<1> HIDE DEF days
<1>4. \A roast \in Roasts : Rest(days, roast) # "unknown"
  BY <1>3 DEF Rest
<1>5. QED  BY <1>3, <1>4 DEF days, now
=============================================================================
