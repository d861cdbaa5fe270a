-------------------------- MODULE ShopStoreProofs --------------------------
(***************************************************************************)
(* Proofs about ShopStore, for any set of processes, any schema and any    *)
(* seed that satisfies SeedAssumption.                                     *)
(*                                                                         *)
(* The argument.  The write lock belongs to a process exactly while it has *)
(* run part of its seed and not committed it (LockOwned), and it can only  *)
(* have been taken while the catalogue was empty: on a filled catalogue    *)
(* the first INSERT already meets its own key (SeedingAlone).  So the one  *)
(* process that commits appends the whole seed to nothing.                 *)
(***************************************************************************)
EXTENDS ShopStore, TLAPS

(* Holding the lock is the same as having an uncommitted part of the seed. *)
LockOwned ==
  \A p \in Procs :
    lock = p <=> \/ pc[p] = "insert" /\ done[p] > 0
                 \/ pc[p] = "commit"

SeedingAlone == lock # NoProc => rows = <<>>

(* What the cursor of a process can be at each of its steps. *)
CursorOK ==
  \A p \in Procs :
    /\ pc[p] = "schema" => done[p] <= Len(Schema) /\ 1 .. done[p] \subseteq objects
    /\ pc[p] = "insert" => done[p] < Len(Seed)
    /\ pc[p] = "commit" => done[p] = Len(Seed)
    /\ pc[p] \notin {"schema", "insert", "commit"} => done[p] = 0

(* Nobody is past the schema before it is complete. *)
SchemaFirst ==
  \A p \in Procs :
    pc[p] \in {"count", "begin", "insert", "commit", "register", "serving"} =>
      objects = 1 .. Len(Schema)

ServersSeeded ==
  \A p \in Procs : pc[p] \in {"register", "serving"} => rows = Seed

IInv ==
  /\ TypeOK
  /\ AllOrNothing
  /\ LockOwned
  /\ SeedingAlone
  /\ CursorOK
  /\ SchemaFirst
  /\ ServersSeeded
  /\ LoserFindsSeeded

-----------------------------------------------------------------------------
(* The seed.                                                               *)

RowSet == { Seed[i] : i \in DOMAIN Seed }

(* The seed is a sequence with at least one row, and running all of it     *)
(* gives all of it (SubSeq in CommitSeed).                                 *)
LEMMA SeedIsSequence ==
  /\ Seed \in Seq(RowSet)
  /\ Len(Seed) \in Nat
  /\ DOMAIN Seed = 1 .. Len(Seed)
  /\ Len(Seed) > 0
  /\ <<>> \o SubSeq(Seed, 1, Len(Seed)) = Seed
<1>1. /\ Seed \in Seq(RowSet)
      /\ Len(Seed) \in Nat
      /\ DOMAIN Seed = 1 .. Len(Seed)
  BY SeedAssumption DEF RowSet
<1>2. Len(Seed) > 0
  <2>1. PICK i \in DOMAIN Seed : Seed[i].table = "coffees"
    BY SeedAssumption
  <2> QED  BY <1>1, <2>1
<1>3. SubSeq(Seed, 1, Len(Seed)) = Seed
  BY <1>1
<1>4. <<>> \o Seed = Seed
  BY <1>1
<1> QED  BY <1>1, <1>2, <1>3, <1>4

(* The count that Open starts from tells an empty catalogue from a filled  *)
(* one, because the seed has a coffee.                                     *)
LEMMA CountTellsFilled ==
  ASSUME AllOrNothing
  PROVE  CatalogueEmpty <=> rows = <<>>
<1>1. CASE rows = <<>>
  BY <1>1 DEF CatalogueEmpty
<1>2. CASE rows = Seed
  <2>1. PICK i \in DOMAIN Seed : Seed[i].table = "coffees"
    BY SeedAssumption
  <2>2. ~CatalogueEmpty
    BY <1>2, <2>1 DEF CatalogueEmpty
  <2>3. rows # <<>>
    BY <1>2, SeedIsSequence
  <2> QED  BY <2>2, <2>3
<1> QED  BY <1>1, <1>2 DEF AllOrNothing

(* The next key of a process is taken exactly when the catalogue is filled *)
(* already: keys are unique within the seed.                               *)
LEMMA KeyTakenMeansFilled ==
  ASSUME NEW p \in Procs,
         AllOrNothing, done[p] \in Nat, done[p] < Len(Seed)
  PROVE  NextRow(p).key \in KeysVisible(done[p]) <=> rows = Seed
<1> DEFINE n == done[p]
<1>1. n + 1 \in DOMAIN Seed /\ 1 .. n \subseteq DOMAIN Seed
  BY SeedIsSequence
<1>2. CASE rows = Seed
  BY <1>1, <1>2 DEF NextRow, KeysVisible
<1>3. CASE rows = <<>>
  <2>1. rows # Seed
    BY <1>3, SeedIsSequence
  <2>2. { rows[i].key : i \in DOMAIN rows } = {}
    BY <1>3
  <2>3. ASSUME NEW i \in 1 .. n, Seed[n + 1].key = Seed[i].key
        PROVE  FALSE
    <3>1. n + 1 = i
      BY <1>1, <2>3, SeedAssumption
    <3> QED  BY <3>1
  <2>4. Seed[n + 1].key \notin KeysVisible(n)
    BY <2>2, <2>3 DEF KeysVisible
  <2> QED  BY <2>1, <2>4 DEF NextRow
<1> QED  BY <1>2, <1>3 DEF AllOrNothing

-----------------------------------------------------------------------------
(* The invariant.                                                          *)

LEMMA InitIInv == Init => IInv
<1> SUFFICES ASSUME Init PROVE IInv
  OBVIOUS
<1>1. rows = <<>> /\ rows \in Seq(RowSet)
  BY DEF Init
<1>2. TypeOK
  BY <1>1, LaunchesAssumption DEF Init, TypeOK, RowSet, Outcomes
<1> QED
  BY <1>1, <1>2, NoProcAssumption
  DEF Init, IInv, AllOrNothing, LockOwned, SeedingAlone, CursorOK, SchemaFirst,
      ServersSeeded, LoserFindsSeeded

(* Any way of leaving the process keeps the invariant, as long as a loser  *)
(* leaves a filled catalogue.                                              *)
LEMMA ExitIInv ==
  ASSUME IInv, NEW p \in Procs, NEW why \in Outcomes,
         Exit(p, why),
         why = "conflict" => rows = Seed,
         UNCHANGED <<objects, rows, cancelled, launches>>
  PROVE  IInv'
<1>1. TypeOK'
  BY DEF IInv, TypeOK, Exit
<1>2. LockOwned'
  BY NoProcAssumption DEF IInv, TypeOK, LockOwned, Exit
<1>3. SeedingAlone'
  BY DEF IInv, SeedingAlone, Exit
<1>4. CursorOK' /\ SchemaFirst' /\ ServersSeeded'
  BY DEF IInv, TypeOK, CursorOK, SchemaFirst, ServersSeeded, Exit
<1>5. LoserFindsSeeded'
  BY DEF IInv, TypeOK, LoserFindsSeeded, Exit
<1> QED  BY <1>1, <1>2, <1>3, <1>4, <1>5 DEF IInv, AllOrNothing

LEMMA StepIInv == IInv /\ [Next]_vars => IInv'
<1> SUFFICES ASSUME IInv, [Next]_vars PROVE IInv'
  OBVIOUS
<1> USE DEF IInv
<1>1. CASE UNCHANGED vars
  BY <1>1 DEF vars, TypeOK, AllOrNothing, LockOwned, SeedingAlone, CursorOK,
              SchemaFirst, ServersSeeded, LoserFindsSeeded
<1>2. ASSUME NEW p \in Procs, Launch(p) PROVE IInv'
  <2>1. TypeOK'
    BY <1>2, LaunchesAssumption DEF TypeOK, Launch, OpenSteps, Outcomes
  <2>2. AllOrNothing' /\ SeedingAlone'
    BY <1>2 DEF Launch, AllOrNothing, SeedingAlone
  <2>3. LockOwned' /\ CursorOK' /\ SchemaFirst' /\ ServersSeeded' /\ LoserFindsSeeded'
    BY <1>2 DEF TypeOK, Launch, Running, LockOwned, CursorOK, SchemaFirst,
                ServersSeeded, LoserFindsSeeded
  <2> QED  BY <2>1, <2>2, <2>3
<1>3. ASSUME NEW p \in Procs, EnableForeignKeys(p) PROVE IInv'
  <2>1. TypeOK' /\ AllOrNothing' /\ SeedingAlone' /\ LoserFindsSeeded'
    BY <1>3 DEF TypeOK, EnableForeignKeys, At, Goto, OpenSteps, AllOrNothing,
                SeedingAlone, LoserFindsSeeded
  <2>2. LockOwned' /\ CursorOK' /\ SchemaFirst' /\ ServersSeeded'
    BY <1>3 DEF TypeOK, EnableForeignKeys, At, Goto, LockOwned, CursorOK, SchemaFirst,
                ServersSeeded
  <2> QED  BY <2>1, <2>2
<1>4. ASSUME NEW p \in Procs, ApplySchema(p) PROVE IInv'
  <2>1. Len(Schema) \in Nat
    BY SchemaAssumption
  <2>2. done[p] + 1 \in 1 .. Len(Schema)
    BY <1>4, <2>1 DEF TypeOK, ApplySchema
  <2>3. TypeOK'
    <3>1. objects' \in SUBSET (1 .. Len(Schema))
      BY <1>4, <2>2 DEF TypeOK, ApplySchema
    <3>2. done' \in [Procs -> Nat]
      BY <1>4 DEF TypeOK, ApplySchema
    <3> QED  BY <1>4, <3>1, <3>2 DEF TypeOK, ApplySchema
  <2>4. AllOrNothing' /\ SeedingAlone' /\ ServersSeeded' /\ LoserFindsSeeded'
    BY <1>4 DEF ApplySchema, AllOrNothing, SeedingAlone, ServersSeeded, LoserFindsSeeded
  <2>5. LockOwned'
    BY <1>4 DEF TypeOK, ApplySchema, At, LockOwned
  <2>6. SchemaFirst'
    BY <1>4, <2>2 DEF TypeOK, ApplySchema, SchemaFirst
  <2>7. CursorOK'
    BY <1>4, <2>1, <2>2 DEF TypeOK, ApplySchema, At, CursorOK
  <2> QED  BY <2>3, <2>4, <2>5, <2>6, <2>7
<1>5. ASSUME NEW p \in Procs, SchemaApplied(p) PROVE IInv'
  <2>1. objects = 1 .. Len(Schema)
    BY <1>5, SchemaAssumption DEF TypeOK, SchemaApplied, At, CursorOK
  <2>2. TypeOK'
    BY <1>5 DEF TypeOK, SchemaApplied, At, Goto, OpenSteps
  <2>3. AllOrNothing' /\ SeedingAlone' /\ LoserFindsSeeded'
    BY <1>5 DEF SchemaApplied, AllOrNothing, SeedingAlone, LoserFindsSeeded
  <2>4. LockOwned' /\ CursorOK' /\ SchemaFirst' /\ ServersSeeded'
    BY <1>5, <2>1 DEF TypeOK, SchemaApplied, At, Goto, LockOwned, CursorOK, SchemaFirst,
                ServersSeeded
  <2> QED  BY <2>2, <2>3, <2>4
<1>6. ASSUME NEW p \in Procs, CountCoffees(p) PROVE IInv'
  <2>1. CatalogueEmpty <=> rows = <<>>
    BY CountTellsFilled
  <2>2. TypeOK'
    BY <1>6 DEF TypeOK, CountCoffees, At, Goto, OpenSteps
  <2>3. AllOrNothing' /\ SeedingAlone' /\ LoserFindsSeeded'
    BY <1>6 DEF CountCoffees, AllOrNothing, SeedingAlone, LoserFindsSeeded
  <2>4. LockOwned' /\ CursorOK' /\ SchemaFirst'
    BY <1>6 DEF TypeOK, CountCoffees, At, Goto, LockOwned, CursorOK, SchemaFirst
  <2>5. ServersSeeded'
    BY <1>6, <2>1 DEF TypeOK, CountCoffees, At, Goto, ServersSeeded, AllOrNothing
  <2> QED  BY <2>2, <2>3, <2>4, <2>5
<1>7. ASSUME NEW p \in Procs, BeginSeed(p) PROVE IInv'
  <2>1. TypeOK' /\ AllOrNothing' /\ SeedingAlone' /\ LoserFindsSeeded'
    BY <1>7 DEF TypeOK, BeginSeed, At, Goto, OpenSteps, AllOrNothing, SeedingAlone,
                LoserFindsSeeded
  <2>2. LockOwned' /\ CursorOK' /\ SchemaFirst' /\ ServersSeeded'
    BY <1>7, SeedIsSequence DEF TypeOK, BeginSeed, At, Goto, LockOwned, CursorOK,
                SchemaFirst, ServersSeeded
  <2> QED  BY <2>1, <2>2
<1>8. ASSUME NEW p \in Procs, InsertSeed(p) PROVE IInv'
  <2>1. done[p] \in Nat /\ done[p] < Len(Seed) /\ pc[p] = "insert"
    BY <1>8 DEF TypeOK, InsertSeed, At, CursorOK
  <2>2. rows # Seed
    BY <1>8, <2>1, KeyTakenMeansFilled DEF InsertSeed, Insertable
  <2>3. TypeOK'
    BY <1>8 DEF TypeOK, InsertSeed, At, Goto, OpenSteps
  <2>4. AllOrNothing' /\ LoserFindsSeeded' /\ SeedingAlone'
    BY <1>8, <2>2 DEF InsertSeed, AllOrNothing, LoserFindsSeeded, SeedingAlone
  <2>5. LockOwned'
    BY <1>8, <2>1, NoProcAssumption DEF TypeOK, InsertSeed, Goto, LockFree, LockOwned
  <2>6. CursorOK'
    BY <1>8, <2>1, SeedIsSequence DEF TypeOK, InsertSeed, Goto, CursorOK
  <2>7. SchemaFirst' /\ ServersSeeded'
    BY <1>8, <2>1 DEF TypeOK, InsertSeed, Goto, SchemaFirst, ServersSeeded
  <2> QED  BY <2>3, <2>4, <2>5, <2>6, <2>7
<1>9. ASSUME NEW p \in Procs, SeedRejected(p) PROVE IInv'
  <2>1. done[p] \in Nat /\ done[p] < Len(Seed)
    BY <1>9 DEF TypeOK, SeedRejected, At, CursorOK
  <2>2. PICK why \in {"conflict", "dangling"} :
          /\ Exit(p, why)
          /\ why = "conflict" => NextRow(p).refs \subseteq KeysVisible(done[p])
    BY <1>9 DEF SeedRejected
  <2>3. why = "conflict" => rows = Seed
    BY <1>9, <2>1, <2>2, KeyTakenMeansFilled DEF SeedRejected, Insertable
  <2> QED  BY <1>9, <2>2, <2>3, ExitIInv DEF SeedRejected, Outcomes
<1>10. ASSUME NEW p \in Procs, CommitSeed(p) PROVE IInv'
  <2>1. pc[p] = "commit" /\ done[p] = Len(Seed) /\ lock = p
    BY <1>10 DEF CommitSeed, At, CursorOK, LockOwned
  <2>2. rows = <<>>
    BY <2>1, NoProcAssumption DEF SeedingAlone
  <2>3. rows' = Seed
    BY <1>10, <2>1, <2>2, SeedIsSequence DEF CommitSeed
  <2>4. TypeOK'
    BY <1>10, <2>3, SeedIsSequence DEF TypeOK, CommitSeed, Goto, RowSet
  <2>5. AllOrNothing' /\ SeedingAlone' /\ LoserFindsSeeded'
    BY <1>10, <2>3 DEF CommitSeed, AllOrNothing, SeedingAlone, LoserFindsSeeded
  <2>6. LockOwned'
    BY <1>10, <2>1, NoProcAssumption DEF TypeOK, CommitSeed, Goto, LockOwned
  <2>7. CursorOK' /\ SchemaFirst' /\ ServersSeeded'
    BY <1>10, <2>1, <2>3 DEF TypeOK, CommitSeed, Goto, CursorOK, SchemaFirst, ServersSeeded
  <2> QED  BY <2>4, <2>5, <2>6, <2>7
<1>11. ASSUME NEW p \in Procs, RegisterTools(p) PROVE IInv'
  <2>1. TypeOK' /\ AllOrNothing' /\ SeedingAlone' /\ LoserFindsSeeded'
    BY <1>11 DEF TypeOK, RegisterTools, Goto, AllOrNothing, SeedingAlone, LoserFindsSeeded
  <2>2. LockOwned' /\ CursorOK' /\ SchemaFirst' /\ ServersSeeded'
    BY <1>11 DEF TypeOK, RegisterTools, Goto, LockOwned, CursorOK, SchemaFirst,
                ServersSeeded
  <2> QED  BY <2>1, <2>2
<1>12. ASSUME NEW p \in Procs, Signal(p) PROVE IInv'
  <2>1. TypeOK'
    BY <1>12 DEF TypeOK, Signal
  <2> QED
    BY <1>12, <2>1 DEF Signal, AllOrNothing, LockOwned, SeedingAlone, CursorOK,
                SchemaFirst, ServersSeeded, LoserFindsSeeded
<1>13. ASSUME NEW p \in Procs,
              Interrupted(p) \/ LeaveServing(p) \/ BusyTimeout(p) \/ IOFailure(p)
                \/ Crash(p)
       PROVE  IInv'
  <2>1. \E why \in {"eof", "cancelled", "busy", "io", "crash"} : Exit(p, why)
    BY <1>13 DEF Interrupted, LeaveServing, BusyTimeout, IOFailure, Crash
  <2>2. UNCHANGED <<objects, rows, cancelled, launches>>
    BY <1>13 DEF Interrupted, LeaveServing, BusyTimeout, IOFailure, Crash
  <2> QED  BY <2>1, <2>2, ExitIInv DEF Outcomes
<1> QED
  BY <1>1, <1>2, <1>3, <1>4, <1>5, <1>6, <1>7, <1>8, <1>9, <1>10, <1>11, <1>12, <1>13
  DEF Next, OwnStep, Disturbance

THEOREM Invariance == Spec => []IInv
  BY InitIInv, StepIInv, PTL DEF Spec

-----------------------------------------------------------------------------
(* The results.                                                            *)

(* Every value stays in its set, the cursors and the rows included: no     *)
(* statement past the schema's or the seed's last one.                     *)
THEOREM TypeCorrect == Spec => []TypeOK
<1>1. IInv => TypeOK
  BY DEF IInv
<1> QED  BY <1>1, Invariance, PTL

(* However many processes open the database, and wherever they fail, its   *)
(* catalogue is empty or exactly the seed.                                 *)
THEOREM SeedAtomic == Spec => []AllOrNothing
<1>1. IInv => AllOrNothing
  BY DEF IInv
<1> QED  BY <1>1, Invariance, PTL

(* A process that Open let through serves from a complete schema and a     *)
(* complete catalogue.                                                     *)
THEOREM ServersFindCatalogue == Spec => []ServingSeeded
<1>1. IInv => ServingSeeded
  BY DEF IInv, ServingSeeded, SchemaFirst, ServersSeeded
<1> QED  BY <1>1, Invariance, PTL

(* The process that is refused for a taken key left a filled catalogue     *)
(* behind: launching it again is all it takes.                             *)
THEOREM LosersFindCatalogue == Spec => []LoserFindsSeeded
<1>1. IInv => LoserFindsSeeded
  BY DEF IInv
<1> QED  BY <1>1, Invariance, PTL

(* Whoever holds the write lock is in the middle of its seed, and nobody   *)
(* has seeded yet.                                                         *)
THEOREM LockDiscipline == Spec => []LockMeansSeeding
<1>1. IInv => LockMeansSeeding
  <2> SUFFICES ASSUME IInv, lock # NoProc PROVE LockMeansSeeding
    BY DEF LockMeansSeeding
  <2>1. lock \in Procs
    BY DEF IInv, TypeOK
  <2>2. pc[lock] = "commit" => done[lock] > 0
    BY <2>1, SeedIsSequence DEF IInv, CursorOK
  <2> QED  BY <2>1, <2>2 DEF IInv, LockOwned, SeedingAlone, LockMeansSeeding
<1> QED  BY <1>1, Invariance, PTL

(* Every row of the seed looks up rows that come before it, as those of    *)
(* seedStatements do.                                                      *)
SeedInOrder ==
  \A i \in DOMAIN Seed : Seed[i].refs \subseteq { Seed[j].key : j \in 1 .. i - 1 }

(* What the next row of a process looks up is there for it, whatever was   *)
(* committed before.                                                       *)
LEMMA RefsVisible ==
  ASSUME SeedInOrder, NEW p \in Procs, done[p] \in Nat, done[p] < Len(Seed)
  PROVE  NextRow(p).refs \subseteq KeysVisible(done[p])
<1>1. done[p] + 1 \in DOMAIN Seed /\ (done[p] + 1) - 1 = done[p]
  BY SeedIsSequence
<1>2. Seed[done[p] + 1].refs \subseteq { Seed[j].key : j \in 1 .. done[p] }
  BY <1>1 DEF SeedInOrder
<1> QED  BY <1>2 DEF NextRow, KeysVisible

(* seedStatements in order is enough: no INSERT is ever refused because a  *)
(* row that it looks up is missing, in no race and after no crash.         *)
THEOREM SeedNeverDangles ==
  ASSUME SeedInOrder
  PROVE  Spec => []NoDangling
<1>1. Init => NoDangling
  BY DEF Init, NoDangling
<1>2. IInv /\ NoDangling /\ [Next]_vars => NoDangling'
  <2> SUFFICES ASSUME IInv, NoDangling, [Next]_vars PROVE NoDangling'
    OBVIOUS
  <2>1. outcome \in [Procs -> Outcomes]
    BY DEF IInv, TypeOK
  <2>2. ASSUME NEW p \in Procs, NEW why, why # "dangling", Exit(p, why)
        PROVE  NoDangling'
    BY <2>1, <2>2 DEF Exit, NoDangling
  <2>3. ASSUME NEW p \in Procs, SeedRejected(p)
        PROVE  NoDangling'
    <3>1. done[p] \in Nat /\ done[p] < Len(Seed)
      BY <2>3 DEF IInv, TypeOK, CursorOK, SeedRejected, At
    <3>2. Exit(p, "conflict")
      BY <2>3, <3>1, RefsVisible DEF SeedRejected
    <3> QED  BY <2>2, <3>2
  <2>4. ASSUME NEW p \in Procs,
               Interrupted(p) \/ LeaveServing(p) \/ BusyTimeout(p) \/ IOFailure(p) \/ Crash(p)
        PROVE  NoDangling'
    <3>1. \E why \in Outcomes \ {"dangling"} : Exit(p, why)
      BY <2>4 DEF Interrupted, LeaveServing, BusyTimeout, IOFailure, Crash, Outcomes
    <3> QED  BY <2>2, <3>1
  <2>5. ASSUME NEW p \in Procs, Launch(p)
        PROVE  NoDangling'
    BY <2>1, <2>5 DEF Launch, NoDangling
  <2>6. ASSUME NEW p \in Procs,
               \/ EnableForeignKeys(p) \/ ApplySchema(p) \/ SchemaApplied(p)
               \/ CountCoffees(p) \/ BeginSeed(p) \/ InsertSeed(p) \/ CommitSeed(p)
               \/ RegisterTools(p) \/ Signal(p)
        PROVE  NoDangling'
    BY <2>6 DEF EnableForeignKeys, ApplySchema, SchemaApplied, CountCoffees, BeginSeed,
                InsertSeed, CommitSeed, RegisterTools, Signal, NoDangling
  <2>7. CASE UNCHANGED vars
    BY <2>7 DEF vars, NoDangling
  <2> QED
    BY <2>3, <2>4, <2>5, <2>6, <2>7 DEF Next, OwnStep, Disturbance
<1> QED  BY <1>1, <1>2, Invariance, PTL DEF Spec

-----------------------------------------------------------------------------
(* The processes together implement Catalogue.                             *)

Servers == { p \in Procs : pc[p] = "serving" }
Prepared == objects = 1 .. Len(Schema)

LEMMA InitCatalogue == Init => Shared!Init
<1> SUFFICES ASSUME Init PROVE Shared!Init
  OBVIOUS
<1>1. objects # 1 .. Len(Schema)
  <2>1. Len(Schema) \in Nat /\ Len(Schema) > 0
    BY SchemaAssumption
  <2>2. 1 \in 1 .. Len(Schema)
    BY <2>1
  <2> QED  BY <2>2 DEF Init
<1>2. Servers = {}
  BY DEF Init, Servers
<1> QED  BY <1>1, <1>2 DEF Init, Shared!Init, Servers

(* Leaving the process is a Leave for a server and nothing for the others. *)
LEMMA ExitCatalogue ==
  ASSUME IInv, NEW p \in Procs, NEW why, Exit(p, why), UNCHANGED <<objects, rows>>
  PROVE  [Shared!Next]_(Shared!catalogueVars)
<1>1. Servers' = Servers \ {p}
  BY DEF IInv, TypeOK, Exit, Servers
<1>2. CASE p \in Servers
  BY <1>1, <1>2 DEF Shared!Next, Shared!Leave, Servers
<1>3. CASE p \notin Servers
  BY <1>1, <1>3 DEF Shared!catalogueVars, Servers
<1> QED  BY <1>2, <1>3

LEMMA StepCatalogue ==
  IInv /\ [Next]_vars => [Shared!Next]_(Shared!catalogueVars)
<1> SUFFICES ASSUME IInv, [Next]_vars PROVE [Shared!Next]_(Shared!catalogueVars)
  OBVIOUS
<1>1. CASE UNCHANGED vars
  BY <1>1 DEF vars, Shared!catalogueVars
<1>2. ASSUME NEW p \in Procs,
             \/ Launch(p) \/ EnableForeignKeys(p) \/ SchemaApplied(p)
             \/ CountCoffees(p) \/ BeginSeed(p) \/ InsertSeed(p) \/ Signal(p)
      PROVE  UNCHANGED Shared!catalogueVars
  <2>1. UNCHANGED <<objects, rows>>
    BY <1>2 DEF Launch, EnableForeignKeys, SchemaApplied, CountCoffees, BeginSeed,
                InsertSeed, Signal
  <2>2. Servers' = Servers
    BY <1>2 DEF IInv, TypeOK, Launch, Running, EnableForeignKeys, SchemaApplied,
                CountCoffees, BeginSeed, InsertSeed, Signal, At, Goto, Servers
  <2> QED  BY <2>1, <2>2 DEF Shared!catalogueVars, Servers
<1>3. ASSUME NEW p \in Procs, ApplySchema(p)
      PROVE  [Shared!Next]_(Shared!catalogueVars)
  <2>1. Prepared => Prepared'
    BY <1>3, SchemaAssumption DEF IInv, TypeOK, ApplySchema, Prepared
  <2>2. Servers' = Servers /\ rows' = rows
    BY <1>3 DEF ApplySchema, Servers
  <2>3. CASE ~Prepared /\ Prepared'
    BY <2>2, <2>3 DEF Shared!Next, Shared!Prepare, Prepared, Servers
  <2>4. CASE Prepared' = Prepared
    BY <2>2, <2>4 DEF Shared!catalogueVars, Prepared, Servers
  <2> QED  BY <2>1, <2>3, <2>4 DEF Prepared
<1>4. ASSUME NEW p \in Procs, CommitSeed(p)
      PROVE  [Shared!Next]_(Shared!catalogueVars)
  <2>1. pc[p] = "commit" /\ done[p] = Len(Seed) /\ lock = p
    BY <1>4 DEF IInv, CommitSeed, At, CursorOK, LockOwned
  <2>2. Prepared /\ rows = <<>>
    BY <2>1, NoProcAssumption DEF IInv, SchemaFirst, SeedingAlone, Prepared
  <2>3. rows' = Seed
    BY <1>4, <2>1, <2>2, SeedIsSequence DEF CommitSeed
  <2>4. Servers' = Servers /\ objects' = objects
    BY <1>4, <2>1 DEF IInv, TypeOK, CommitSeed, Goto, Servers
  <2> QED  BY <2>2, <2>3, <2>4 DEF Shared!Next, Shared!Fill, Prepared, Servers
<1>5. ASSUME NEW p \in Procs, RegisterTools(p)
      PROVE  [Shared!Next]_(Shared!catalogueVars)
  <2>1. rows = Seed /\ p \notin Servers
    BY <1>5 DEF IInv, ServersSeeded, RegisterTools, Servers
  <2>2. Servers' = Servers \cup {p} /\ UNCHANGED <<objects, rows>>
    BY <1>5 DEF IInv, TypeOK, RegisterTools, Goto, Servers
  <2> QED  BY <2>1, <2>2 DEF Shared!Next, Shared!Join, Servers
<1>6. ASSUME NEW p \in Procs,
             \/ SeedRejected(p) \/ Interrupted(p) \/ LeaveServing(p)
             \/ BusyTimeout(p) \/ IOFailure(p) \/ Crash(p)
      PROVE  [Shared!Next]_(Shared!catalogueVars)
  <2>1. \E why \in Outcomes : Exit(p, why)
    BY <1>6 DEF SeedRejected, Interrupted, LeaveServing, BusyTimeout, IOFailure, Crash,
                Outcomes
  <2>2. UNCHANGED <<objects, rows>>
    BY <1>6 DEF SeedRejected, Interrupted, LeaveServing, BusyTimeout, IOFailure, Crash
  <2> QED  BY <2>1, <2>2, ExitCatalogue
<1> QED
  BY <1>1, <1>2, <1>3, <1>4, <1>5, <1>6 DEF Next, OwnStep, Disturbance

(* What the processes do to the database is what Catalogue allows:         *)
(* prepared, then filled once and as a whole, and only then served from.   *)
THEOREM ImplementsCatalogue == Spec => CatalogueSpec
  BY InitCatalogue, StepCatalogue, Invariance, PTL DEF Spec, CatalogueSpec, Shared!Spec
=============================================================================
