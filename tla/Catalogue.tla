----------------------------- MODULE Catalogue -----------------------------
(***************************************************************************)
(* What the shop's database promises to the processes that open it,        *)
(* without statements, locks or failures: it is prepared, it is filled     *)
(* once and as a whole, and nobody serves from it before that.             *)
(***************************************************************************)
CONSTANTS
  Procs,      \* the processes that may serve from the database
  Contents    \* what a filled catalogue holds

VARIABLES
  prepared,   \* every table and index exists
  filled,     \* what the catalogue holds
  servers     \* the processes that serve from it

catalogueVars == <<prepared, filled, servers>>

Init ==
  /\ prepared = FALSE
  /\ filled = <<>>
  /\ servers = {}

Prepare ==
  /\ ~prepared
  /\ prepared' = TRUE
  /\ UNCHANGED <<filled, servers>>

Fill ==
  /\ prepared
  /\ filled = <<>>
  /\ filled' = Contents
  /\ UNCHANGED <<prepared, servers>>

Join(p) ==
  /\ filled = Contents
  /\ p \notin servers
  /\ servers' = servers \cup {p}
  /\ UNCHANGED <<prepared, filled>>

Leave(p) ==
  /\ p \in servers
  /\ servers' = servers \ {p}
  /\ UNCHANGED <<prepared, filled>>

Next ==
  \/ Prepare
  \/ Fill
  \/ \E p \in Procs : Join(p) \/ Leave(p)

Spec == Init /\ [][Next]_catalogueVars
=============================================================================
