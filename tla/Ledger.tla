------------------------------- MODULE Ledger -------------------------------
(***************************************************************************)
(* What recording a brew promises, without processes, statements or        *)
(* failures: a call that was told "recorded" is in the book, once, and     *)
(* nothing leaves the book.  A call that was told nothing, or an error,    *)
(* may be in the book or not.                                              *)
(***************************************************************************)
CONSTANTS
  CallIds     \* the calls that may be made

VARIABLES
  booked,     \* the calls whose brew is in the book
  promised    \* the calls that were told so

ledgerVars == <<booked, promised>>

Init == booked = {} /\ promised = {}

Book(c) ==
  /\ c \notin booked
  /\ booked' = booked \cup {c}
  /\ UNCHANGED promised

Promise(c) ==
  /\ c \in booked \ promised
  /\ promised' = promised \cup {c}
  /\ UNCHANGED booked

Next == \E c \in CallIds : Book(c) \/ Promise(c)

Spec == Init /\ [][Next]_ledgerVars
=============================================================================
