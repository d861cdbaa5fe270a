---------------------------- MODULE RestWindows ----------------------------
(***************************************************************************)
(* How long a lot has rested and what that makes it: DaysOffRoast and Rest *)
(* in coffee.go, restRank in handlers.go, as operators.                    *)
(*                                                                         *)
(* An instant is a number of hours from midnight UTC of some first day, at *)
(* the resolution of whole hours.  A roast date is a day: it was written   *)
(* as the shop's calendar showed it (roastedDaysAgo) and is read back as   *)
(* midnight UTC of that day, wherever the shop is.                         *)
(***************************************************************************)
EXTENDS Integers

CONSTANT NoDate   \* the roast date of a lot that has none

ASSUME NoDateAssumption == NoDate \notin Int

Roasts == {"light", "medium-light", "medium", "medium-dark", "dark"}

(* int(x) of a quotient cuts off towards zero. *)
Truncated(num, den) == IF num < 0 THEN -((-num) \div den) ELSE num \div den

(* A plausible slip: the quotient is rounded down. *)
DaysOffRoastFloor(roastOn, now) ==
  IF roastOn = NoDate THEN -1 ELSE (now - 24 * roastOn) \div 24

DaysOffRoast(roastOn, now) ==
  IF roastOn = NoDate THEN -1 ELSE Truncated(now - 24 * roastOn, 24)

PeakStart(roast) ==
  CASE roast = "light" -> 10
    [] roast \in {"medium-dark", "dark"} -> 4
    [] roast \in {"medium-light", "medium"} -> 7

PeakEnd(roast) ==
  CASE roast = "light" -> 28
    [] roast \in {"medium-dark", "dark"} -> 14
    [] roast \in {"medium-light", "medium"} -> 21

(* The state of a lot of this roast after so many days. *)
Rest(days, roast) ==
  IF days < 0 THEN "unknown"
  ELSE IF days < PeakStart(roast) \div 2 THEN "too-fresh"
  ELSE IF days < PeakStart(roast) THEN "resting"
  ELSE IF days <= PeakEnd(roast) THEN "peak"
  ELSE IF days <= 2 * PeakEnd(roast) THEN "fading"
  ELSE "stale"

(* Which of two equal matches is drinking better today. *)
restRank(state) ==
  CASE state = "peak" -> 3
    [] state \in {"resting", "fading"} -> 2
    [] state = "too-fresh" -> 1
    [] state \in {"stale", "unknown"} -> 0
=============================================================================
