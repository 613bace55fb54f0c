--------------------------- MODULE MigrationsProofs ---------------------------
(***************************************************************************)
(* Proofs about Migrations: for any names, days and statuses, and however  *)
(* the schema is taken up and down, statuses keep their names, sequences   *)
(* stay ahead and the partitions lose nothing that is recent.              *)
(***************************************************************************)
EXTENDS Migrations, FiniteSetTheorems, WellFoundedInduction, TLAPS

Types ==
    /\ version \in 0..10
    /\ names \in [Tables -> [rows : SUBSET [id : Nat, name : Names], next : Nat]]
    /\ today \in Days
    /\ sent \in Seq(Names)
    /\ \A r \in rows \cup mirror : r \in [nr : DOMAIN sent, status : Names \cup Nat, day : Days]

(* The tables whose maximum the upgrade dee786 takes have one. *)
Bounded == \A t \in {"services", "sources"} : \E b \in Nat : \A i \in Ids(t) : i <= b

Ahead(t) == \A i \in Ids(t) : i < names[t].next

(* The sequence of statuses has never been behind. *)
Sequences ==
    /\ Ahead("statuses")
    /\ version >= 2 => Ahead("services") /\ Ahead("sources")

UniqueIds == \A m, o \in names["statuses"].rows : m.id = o.id => m = o

(* partitioned_statuses and its trigger exist from b1b88f to e6fb73. *)
Mirrored ==
    /\ version < 4 => mirror = {}
    /\ trigger <=> version \in 4..7

Inv == Types /\ Bounded /\ Sequences /\ UniqueIds /\ Mirrored /\ NamesKept /\ PartitionsHold

-----------------------------------------------------------------------------
(* The place of each revision in the history. *)
LEMMA Numbers ==
  /\ Number("85cddc") = 1 /\ Number("dee786") = 2 /\ Number("d2ccb9") = 3 /\ Number("b1b88f") = 4
  /\ Number("6e5626") = 5 /\ Number("6b8abab") = 6 /\ Number("867aaf") = 7 /\ Number("e6fb73") = 8
  /\ Number("068d39") = 9 /\ Number("4cd848") = 10
<1>1. DOMAIN Revisions = 1..10
  BY DEF Revisions
<1>2. /\ Revisions[1] = "85cddc" /\ Revisions[2] = "dee786" /\ Revisions[3] = "d2ccb9"
      /\ Revisions[4] = "b1b88f" /\ Revisions[5] = "6e5626" /\ Revisions[6] = "6b8abab"
      /\ Revisions[7] = "867aaf" /\ Revisions[8] = "e6fb73" /\ Revisions[9] = "068d39"
      /\ Revisions[10] = "4cd848"
  BY DEF Revisions
<1> HIDE DEF Revisions
<1>3. \A v \in 1..10 : v = 1 \/ v = 2 \/ v = 3 \/ v = 4 \/ v = 5 \/ v = 6 \/ v = 7 \/ v = 8 \/ v = 9 \/ v = 10
  OBVIOUS
<1> QED
  BY <1>1, <1>2, <1>3 DEF Number

(* Up and Down by number. *)
LEMMA Steps ==
  ASSUME version \in 0..10
  PROVE  /\ Up("85cddc") <=> version = 0 /\ version' = 1
         /\ Down("85cddc") <=> version = 1 /\ version' = 0
         /\ Up("dee786") <=> version = 1 /\ version' = 2
         /\ Down("dee786") <=> version = 2 /\ version' = 1
         /\ Up("d2ccb9") <=> version = 2 /\ version' = 3
         /\ Down("d2ccb9") <=> version = 3 /\ version' = 2
         /\ Up("b1b88f") <=> version = 3 /\ version' = 4
         /\ Down("b1b88f") <=> version = 4 /\ version' = 3
         /\ Up("6e5626") <=> version = 4 /\ version' = 5
         /\ Down("6e5626") <=> version = 5 /\ version' = 4
         /\ Up("6b8abab") <=> version = 5 /\ version' = 6
         /\ Down("6b8abab") <=> version = 6 /\ version' = 5
         /\ Up("867aaf") <=> version = 6 /\ version' = 7
         /\ Down("867aaf") <=> version = 7 /\ version' = 6
         /\ Up("e6fb73") <=> version = 7 /\ version' = 8
         /\ Down("e6fb73") <=> version = 8 /\ version' = 7
         /\ Up("068d39") <=> version = 8 /\ version' = 9
         /\ Down("068d39") <=> version = 9 /\ version' = 8
         /\ Up("4cd848") <=> version = 9 /\ version' = 10
         /\ Down("4cd848") <=> version = 10 /\ version' = 9
  BY DEF Revisions, Up, Down

(* A nonempty set of naturals has a least element. *)
LEMMA LeastNatural ==
  ASSUME NEW T, T \subseteq Nat, T # {}
  PROVE  \E x \in T : \A y \in T : x <= y
<1> DEFINE R == {ss \in Nat \X Nat : ss[1] < ss[2]}
<1>1. IsWellFoundedOn(R, Nat)
  BY NatLessThanWellFounded DEF OpToRel
<1> HIDE DEF R
<1>2. PICK x \in T : \A y \in T : ~(<<y, x>> \in R)
  BY <1>1, WFMin
<1>3. \A y \in T : ~(y < x)
  BY <1>2 DEF R
<1> QED
  BY <1>3

(* A bounded set of naturals that is not empty has a greatest element. *)
LEMMA GreatestNatural ==
  ASSUME NEW S, S \subseteq Nat, S # {}, NEW b \in Nat, \A i \in S : i <= b
  PROVE  \E m \in S : \A i \in S : i <= m
<1> DEFINE T == {u \in Nat : \A i \in S : i <= u}
<1>1. PICK m \in T : \A u \in T : m <= u
  BY LeastNatural
<1>2. m \in S
  <2> SUFFICES ASSUME m \notin S PROVE FALSE
    OBVIOUS
  <2>1. \A i \in S : i <= m - 1 /\ i \in Nat
    BY <1>1
  <2>2. m - 1 \in T
    <3>1. PICK i \in S : TRUE
      OBVIOUS
    <3>2. m \in Nat /\ i <= m - 1 /\ i \in Nat
      BY <1>1, <2>1, <3>1
    <3> QED
      BY <2>1, <3>2
  <2> QED
    BY <1>1, <2>2
<1> QED
  BY <1>1, <1>2

LEMMA DaysAreNumbers ==
  /\ \A d \in Days : d \in Int /\ Stamp[d] \in Nat
  /\ \A d, e \in Days : d < e => Stamp[d] < Stamp[e]
  /\ RETENTION_DAYS \in Nat /\ RETENTION_DAYS \in Int
<1>1. Days \subseteq Int /\ RETENTION_DAYS \in Nat /\ Stamp \in [Days -> Nat]
  BY MigrationsAssumption
<1>2. \A d, e \in Days : d < e => Stamp[d] < Stamp[e]
  BY MigrationsAssumption
<1> QED
  BY <1>1, <1>2

(* At by number, before and after a step. *)
LEMMA Versions ==
  /\ At("85cddc") <=> version >= 1
  /\ At("d2ccb9") <=> version >= 3
  /\ At("b1b88f") <=> version >= 4
  /\ At("867aaf") <=> version >= 7
  /\ At("e6fb73") <=> version >= 8
  BY Numbers DEF At

LEMMA VersionsAfter ==
  /\ At("d2ccb9")' <=> version' >= 3
  /\ At("b1b88f")' <=> version' >= 4
  /\ At("e6fb73")' <=> version' >= 8
  BY Numbers DEF At

-----------------------------------------------------------------------------
LEMMA InitInv == Init => Inv
<1> SUFFICES ASSUME Init PROVE Inv
  OBVIOUS
<1>1. Types
  BY MigrationsAssumption DEF Init, Types, Empty
<1>2. \A t \in Tables : Ids(t) = {}
  BY DEF Init, Ids, Empty
<1>3. Bounded /\ Sequences
  BY <1>1, <1>2 DEF Init, Bounded, Sequences, Ahead, Tables
<1>4. UniqueIds
  BY DEF Init, UniqueIds, Empty, Tables
<1>5. Mirrored /\ NamesKept
  BY DEF Init, Mirrored, NamesKept
<1>6. PartitionsHold
  BY DEF Init, PartitionsHold
<1> QED
  BY <1>1, <1>3, <1>4, <1>5, <1>6 DEF Inv

(* Names and their sequences, when a step leaves them alone. *)
LEMMA SameNames ==
  ASSUME Inv, UNCHANGED names, version' >= 2 => version >= 2
  PROVE  Bounded' /\ Sequences' /\ UniqueIds'
  BY DEF Inv, Bounded, Sequences, Ahead, UniqueIds, Ids

(* A row says what it said while the names stay and the step does not cross d2ccb9. *)
LEMMA SameSayings ==
  ASSUME NEW r, NEW n, UNCHANGED names, version' >= 3 <=> version >= 3
  PROVE  Says(r, n)' <=> Says(r, n)
  BY Versions, VersionsAfter DEF Says

(* The rows after a step that stores nothing are rows there were. *)
LEMMA FewerRows ==
  ASSUME Inv, UNCHANGED <<names, sent>>, version' >= 3 <=> version >= 3,
         rows' \cup mirror' \subseteq rows \cup mirror
  PROVE  /\ NamesKept'
         /\ \A r \in rows' \cup mirror' : r \in [nr : DOMAIN sent', status : Names \cup Nat, day : Days]
<1>1. \A r \in rows' \cup mirror' : r.nr \in DOMAIN sent' /\ Says(r, sent[r.nr])
  BY DEF Inv, NamesKept
<1>2. NamesKept'
  BY <1>1, SameSayings DEF NamesKept
<1> QED
  BY <1>2 DEF Inv, Types

-----------------------------------------------------------------------------
(* A name takes the next id, which is free where the sequence is ahead. *)
LEMMA AddNameStep ==
  ASSUME Inv, NEW t \in Tables, NEW n \in Names, AddName(t, n)
  PROVE  Inv'
<1> DEFINE id == names[t].next
           new == [id |-> id, name |-> n]
<1>1. UNCHANGED <<version, tableVars, codeVars, clockVars, due>>
  BY DEF AddName
<1>2. id \in Nat /\ new \in [id : Nat, name : Names] /\ version \in 0..10
  BY DEF Inv, Types
<1>3. /\ names' \in [Tables -> [rows : SUBSET [id : Nat, name : Names], next : Nat]]
      /\ names'[t].next = id + 1
      /\ names'[t].rows = IF id \in Ids(t) THEN names[t].rows ELSE names[t].rows \cup {new}
      /\ \A u \in Tables \ {t} : names'[u] = names[u]
  <2> DEFINE after == IF id \in Ids(t) THEN names[t].rows ELSE names[t].rows \cup {new}
  <2>1. names \in [Tables -> [rows : SUBSET [id : Nat, name : Names], next : Nat]]
    BY DEF Inv, Types
  <2>2. after \in SUBSET [id : Nat, name : Names]
    BY <1>2, <2>1
  <2>4. names' = [names EXCEPT ![t] = [rows |-> after, next |-> id + 1]]
    BY DEF AddName
  <2> HIDE DEF after
  <2>5. /\ names' \in [Tables -> [rows : SUBSET [id : Nat, name : Names], next : Nat]]
        /\ names'[t].next = id + 1 /\ names'[t].rows = after
        /\ \A u \in Tables \ {t} : names'[u] = names[u]
    BY <1>2, <2>1, <2>2, <2>4
  <2> QED
    BY <2>5 DEF after
<1>4. \A u \in Tables : \A i \in Ids(u)' : i \in Ids(u) \/ (u = t /\ i = id)
  BY <1>3 DEF Ids
<1>5. \A u \in Tables : \A i \in Ids(u) : i \in Nat
  BY DEF Inv, Types, Ids
<1>6. Types'
  BY <1>1, <1>3 DEF Inv, Types, tableVars, clockVars
<1>7. Bounded'
  <2> SUFFICES ASSUME NEW u \in {"services", "sources"}
               PROVE  \E b \in Nat : \A i \in Ids(u)' : i <= b
    BY DEF Bounded
  <2>1. u \in Tables
    BY DEF Tables
  <2>2. PICK b \in Nat : \A i \in Ids(u) : i <= b
    BY DEF Inv, Bounded
  <2>3. b + id \in Nat /\ \A i \in Ids(u)' : i <= b + id
    BY <1>2, <1>4, <1>5, <2>1, <2>2
  <2> QED
    BY <2>3
<1>8. Sequences'
  <2>1. ASSUME NEW u \in Tables, Ahead(u) PROVE Ahead(u)'
    BY <2>1, <1>2, <1>3, <1>4, <1>5 DEF Ahead
  <2> QED
    BY <2>1, <1>1 DEF Inv, Sequences, Tables
<1>9. \A m \in names["statuses"].rows : m \in names'["statuses"].rows
  BY <1>3 DEF Tables
<1>10. UniqueIds'
  <2>1. CASE t = "statuses"
    <3>1. \A m \in names["statuses"].rows : m.id # id
      BY <2>1, <1>2, <1>5 DEF Inv, Sequences, Ahead, Ids
    <3> QED
      BY <2>1, <3>1, <1>3 DEF Inv, UniqueIds
  <2>2. CASE t # "statuses"
    BY <2>2, <1>3 DEF Inv, UniqueIds, Tables
  <2> QED
    BY <2>1, <2>2
<1>11. NamesKept'
  <2>1. \A r, x : Says(r, x) => Says(r, x)'
    <3> SUFFICES ASSUME NEW r, NEW x, Says(r, x) PROVE Says(r, x)'
      OBVIOUS
    <3>1. At("d2ccb9")' <=> At("d2ccb9")
      BY <1>1, Versions, VersionsAfter
    <3> QED
      BY <3>1, <1>9, <1>10 DEF Says, UniqueIds
  <2> QED
    BY <2>1, <1>1 DEF Inv, NamesKept, tableVars, clockVars
<1>12. Mirrored' /\ PartitionsHold'
  BY <1>1, Versions, VersionsAfter DEF Inv, Mirrored, PartitionsHold, tableVars, codeVars
<1> QED
  BY <1>6, <1>7, <1>8, <1>10, <1>11, <1>12 DEF Inv

(* A status is stored under its name, or under the id of the row that has it. *)
LEMMA AddStatusStep ==
  ASSUME Inv, NEW n \in Names, NEW day \in Days, AddStatus(n, day)
  PROVE  Inv'
<1>1. /\ UNCHANGED <<version, names, codeVars, today>>
      /\ sent' = Append(sent, n) /\ sent \in Seq(Names) /\ version \in 0..10
  BY DEF AddStatus, Inv, Types
<1>2. /\ sent' \in Seq(Names) /\ Len(sent) + 1 \in DOMAIN sent' /\ DOMAIN sent \subseteq DOMAIN sent'
      /\ sent'[Len(sent) + 1] = n /\ \A i \in DOMAIN sent : sent'[i] = sent[i]
  BY <1>1
<1>3. PICK status \in Names \cup Nat :
         LET r == [nr |-> Len(sent) + 1, status |-> status, day |-> day]
         IN Store(r) /\ Says(r, n)
  <2>1. CASE ~At("d2ccb9")
    BY <2>1 DEF AddStatus, Says
  <2>2. CASE At("d2ccb9")
    <3>1. PICK m \in names["statuses"].rows :
             m.name = n /\ Store([nr |-> Len(sent) + 1, status |-> m.id, day |-> day])
      BY <2>2 DEF AddStatus
    <3>2. m.id \in Nat
      BY DEF Inv, Types, Tables
    <3>3. Says([nr |-> Len(sent) + 1, status |-> m.id, day |-> day], n)
      BY <2>2, <3>1 DEF Says, Inv, UniqueIds
    <3> QED
      BY <3>1, <3>2, <3>3
  <2> QED
    BY <2>1, <2>2
<1> DEFINE r == [nr |-> Len(sent) + 1, status |-> status, day |-> day]
<1>4. /\ r \in [nr : DOMAIN sent', status : Names \cup Nat, day : Days]
      /\ r.nr = Len(sent) + 1
  BY <1>2, <1>3
<1>5. /\ rows' = rows \cup {r}
      /\ mirror' = IF trigger THEN mirror \cup {r} ELSE mirror
      /\ due' = IF At("b1b88f") THEN due \cup {r} ELSE due
      /\ Says(r, n)
  BY <1>3 DEF Store
<1> HIDE DEF r
<1>6. Types'
  <2>1. \A s \in rows \cup mirror : s \in [nr : DOMAIN sent', status : Names \cup Nat, day : Days]
    BY <1>2 DEF Inv, Types
  <2> QED
    BY <1>1, <1>2, <1>4, <1>5, <2>1 DEF Inv, Types
<1>7. Bounded' /\ Sequences' /\ UniqueIds'
  BY <1>1, SameNames
<1>8. NamesKept'
  <2>1. \A s \in rows \cup mirror : s.nr \in DOMAIN sent' /\ Says(s, sent'[s.nr])
    BY <1>2 DEF Inv, NamesKept
  <2>2. \A s \in rows' \cup mirror' : s.nr \in DOMAIN sent' /\ Says(s, sent'[s.nr])
    BY <2>1, <1>2, <1>4, <1>5
  <2>3. \A s, x : Says(s, x)' <=> Says(s, x)
    BY <1>1, SameSayings
  <2> QED
    BY <2>2, <2>3 DEF NamesKept
<1>9. Mirrored' /\ PartitionsHold'
  BY <1>1, <1>5, Versions, VersionsAfter DEF Inv, Mirrored, PartitionsHold, codeVars
<1> QED
  BY <1>6, <1>7, <1>8, <1>9 DEF Inv

-----------------------------------------------------------------------------
(* A step that changes neither names nor what a status looks like. *)
LEMMA RowsOnly ==
  ASSUME Inv, UNCHANGED <<names, sent>>, version' \in 0..10, today' \in Days,
         version' >= 2 => version >= 2, version' >= 3 <=> version >= 3,
         rows' \cup mirror' \subseteq rows \cup mirror,
         Mirrored', PartitionsHold'
  PROVE  Inv'
<1>1. Types' /\ NamesKept'
  BY FewerRows DEF Inv, Types
<1>2. Bounded' /\ Sequences' /\ UniqueIds'
  BY SameNames
<1> QED
  BY <1>1, <1>2 DEF Inv

LEMMA NextDayStep ==
  ASSUME Inv, NextDay
  PROVE  Inv'
<1>1. UNCHANGED <<version, names, rows, mirror, sent, trigger, due>> /\ today' \in Days
  BY DEF NextDay, tableVars, codeVars
<1>2. version \in 0..10
  BY DEF Inv, Types
<1>3. Mirrored' /\ PartitionsHold'
  BY <1>1, Versions, VersionsAfter DEF Inv, Mirrored, PartitionsHold
<1> QED
  BY <1>1, <1>2, <1>3, RowsOnly

(* Each version of the cleanup spares what it should: the later one by the order *)
(* of the numbers yyyymmdd, the earlier one by what `due' says of it.            *)
LEMMA CleanPartitionsStep ==
  ASSUME Inv, CleanPartitions
  PROVE  Inv'
<1> DEFINE dropped == IF cleaner = "stamp" THEN Subtracted ELSE Outdated
<1>1. /\ UNCHANGED <<version, names, rows, sent, trigger, today>>
      /\ version \in 4..6 /\ today \in Days
      /\ mirror' = {r \in mirror : r.day \notin dropped}
      /\ due' = IF cleaner = "stamp" THEN due \cap mirror' ELSE {r \in due : Recent(r)}
  BY Versions DEF Inv, Types, CleanPartitions, codeVars, clockVars
<1>2. due \subseteq mirror
  BY <1>1, Versions DEF Inv, PartitionsHold
<1>3. due' \subseteq mirror'
  <2>1. CASE cleaner = "stamp"
    BY <2>1, <1>1
  <2>2. CASE cleaner # "stamp"
    <3> SUFFICES ASSUME NEW r \in due, Recent(r), r.day \in Outdated PROVE FALSE
      BY <2>2, <1>1, <1>2
    <3>1. r.day \in Days
      BY <1>2 DEF Inv, Types
    <3>2. /\ today - RETENTION_DAYS \in Days /\ Stamp[r.day] <= Stamp[today - RETENTION_DAYS]
      BY DEF Outdated
    <3>3. r.day \in Int /\ today \in Int /\ RETENTION_DAYS \in Int
      BY <1>1, <3>1, DaysAreNumbers
    <3>4. r.day + RETENTION_DAYS > today
      BY DEF Recent
    <3>5. today - RETENTION_DAYS < r.day
      BY <3>3, <3>4
    <3>6. Stamp[today - RETENTION_DAYS] < Stamp[r.day]
      BY <3>1, <3>2, <3>5, DaysAreNumbers
    <3>7. Stamp[r.day] \in Nat /\ Stamp[today - RETENTION_DAYS] \in Nat
      BY <3>1, <3>2, DaysAreNumbers
    <3> QED
      BY <3>2, <3>6, <3>7
  <2> QED
    BY <2>1, <2>2
<1>4. Mirrored' /\ PartitionsHold'
  BY <1>1, <1>3, VersionsAfter DEF Inv, Mirrored, PartitionsHold
<1>5. rows' \cup mirror' \subseteq rows \cup mirror
  BY <1>1
<1> QED
  BY <1>1, <1>4, <1>5, RowsOnly

LEMMA DropPartitionStep ==
  ASSUME Inv, DropPartition
  PROVE  Inv'
<1> DEFINE day == today - RETENTION_DAYS
<1>1. /\ UNCHANGED <<version, names, sent, trigger, today>>
      /\ version \in 7..10 /\ today \in Days
      /\ mirror' = {r \in mirror : r.day # day}
      /\ rows' = IF At("e6fb73") THEN {r \in rows : r.day # day} ELSE rows
      /\ due' = {r \in due : Recent(r)}
  BY Versions DEF Inv, Types, DropPartition, codeVars, clockVars
<1>2. \A r : Recent(r) => r.day # day
  BY <1>1, MigrationsAssumption DEF Recent
<1>3. PartitionsHold'
  BY <1>1, <1>2, Versions, VersionsAfter DEF Inv, PartitionsHold
<1>4. Mirrored' /\ rows' \cup mirror' \subseteq rows \cup mirror
  BY <1>1 DEF Inv, Mirrored
<1> QED
  BY <1>1, <1>3, <1>4, RowsOnly

-----------------------------------------------------------------------------
(* The migrations from b1b88f on, which leave the names alone. *)
LEMMA PartitionMigrations ==
  ASSUME Inv,
         \/ PartitionStatuses \/ DropPartitions \/ Cleanup \/ ChangeTypes
         \/ UseDeclarativePartitions \/ UseInheritedPartitions
         \/ SubstitutePartitions \/ RestorePayloadStatuses
  PROVE  Inv'
<1>1. version \in 0..10 /\ today \in Days
  BY DEF Inv, Types
<1>2. CASE PartitionStatuses
  <2>1. /\ UNCHANGED <<names, sent, today, rows>> /\ version = 3 /\ version' = 4
        /\ mirror' = {} /\ due' = {} /\ trigger' = TRUE
    BY <1>1, <1>2, Steps DEF PartitionStatuses, Anew, clockVars
  <2>2. Mirrored' /\ PartitionsHold'
    BY <2>1 DEF Mirrored, PartitionsHold
  <2> QED
    BY <1>1, <2>1, <2>2, RowsOnly
<1>3. CASE DropPartitions
  <2>1. /\ UNCHANGED <<names, sent, today, rows>> /\ version = 4 /\ version' = 3
        /\ mirror' = {} /\ due' = {} /\ trigger' = FALSE
    BY <1>1, <1>3, Steps DEF DropPartitions, Anew, clockVars
  <2>2. Mirrored' /\ PartitionsHold'
    BY <2>1 DEF Mirrored, PartitionsHold
  <2> QED
    BY <1>1, <2>1, <2>2, RowsOnly
<1>4. CASE UseDeclarativePartitions \/ UseInheritedPartitions
  <2>1. /\ UNCHANGED <<names, sent, today, rows, trigger>>
        /\ version \in 6..7 /\ version' \in 6..7
        /\ mirror' = {} /\ due' = {}
    BY <1>1, <1>4, Steps DEF UseDeclarativePartitions, UseInheritedPartitions, Anew, clockVars
  <2>2. Mirrored' /\ PartitionsHold'
    BY <2>1 DEF Inv, Mirrored, PartitionsHold
  <2> QED
    BY <1>1, <2>1, <2>2, RowsOnly
<1>5. CASE Cleanup
  <2>1. /\ UNCHANGED <<names, sent, today, rows, mirror, due, trigger>>
        /\ version \in 4..6 /\ version' \in 4..6
    BY <1>1, <1>5, Steps DEF Cleanup, tableVars, clockVars
  <2>2. Mirrored' /\ PartitionsHold'
    BY <2>1, Versions, VersionsAfter DEF Inv, Mirrored, PartitionsHold
  <2> QED
    BY <1>1, <2>1, <2>2, RowsOnly
<1>6. CASE ChangeTypes
  <2>1. /\ UNCHANGED <<names, sent, today, rows, mirror, due, trigger>>
        /\ version \in 8..10 /\ version' \in 8..10
    BY <1>1, <1>6, Steps DEF ChangeTypes, tableVars, codeVars, clockVars
  <2>2. Mirrored' /\ PartitionsHold'
    BY <2>1, Versions, VersionsAfter DEF Inv, Mirrored, PartitionsHold
  <2> QED
    BY <1>1, <2>1, <2>2, RowsOnly
<1>7. CASE SubstitutePartitions
  <2>1. /\ UNCHANGED <<names, sent, today, due>> /\ version = 7 /\ version' = 8
        /\ rows' = mirror /\ mirror' = {} /\ trigger' = FALSE
    BY <1>1, <1>7, Steps DEF SubstitutePartitions, clockVars
  <2>2. Mirrored' /\ PartitionsHold'
    BY <2>1, Versions, VersionsAfter DEF Inv, Mirrored, PartitionsHold
  <2> QED
    BY <1>1, <2>1, <2>2, RowsOnly
<1>8. CASE RestorePayloadStatuses
  <2>1. /\ UNCHANGED <<names, sent, today, due>> /\ version = 8 /\ version' = 7
        /\ mirror' = rows /\ rows' = {} /\ trigger' = TRUE
    BY <1>1, <1>8, Steps DEF RestorePayloadStatuses, MirrorsAgain, clockVars
  <2>2. Mirrored' /\ PartitionsHold'
    BY <2>1, Versions, VersionsAfter DEF Inv, Mirrored, PartitionsHold
  <2> QED
    BY <1>1, <2>1, <2>2, RowsOnly
<1> QED
  BY <1>2, <1>3, <1>4, <1>5, <1>6, <1>7, <1>8

-----------------------------------------------------------------------------
(* The migrations that change the tables of names. *)

(* The bulk inserts number the names from 1. *)
LEMMA NumberedTypes ==
  ASSUME NEW bulk \in {BulkServices, BulkSources, BulkStatuses}
  PROVE  /\ Numbered(bulk) \subseteq [id : Nat, name : Names]
         /\ Len(bulk) \in Nat /\ bulk \in Seq(Names)
         /\ \A m \in Numbered(bulk) : m.id \in 1..Len(bulk) /\ m.name = bulk[m.id]
<1>1. bulk \in Seq(Names)
  BY MigrationsAssumption
<1>2. Len(bulk) \in Nat /\ DOMAIN bulk = 1..Len(bulk) /\ \A i \in 1..Len(bulk) : bulk[i] \in Names
  BY <1>1
<1> QED
  BY <1>1, <1>2 DEF Numbered

LEMMA CreateTablesStep ==
  ASSUME Inv, CreateTables
  PROVE  Inv'
<1>1. /\ UNCHANGED <<rows, mirror, trigger, due, today, sent>>
      /\ version = 0 /\ version' = 1
      /\ names' = [names EXCEPT !["services"].rows = Numbered(BulkServices),
                               !["sources"].rows = Numbered(BulkSources)]
  BY Steps DEF Inv, Types, CreateTables, tableVars, codeVars, clockVars
<1>2. /\ names \in [Tables -> [rows : SUBSET [id : Nat, name : Names], next : Nat]]
      /\ "services" \in Tables /\ "sources" \in Tables /\ "statuses" \in Tables
  BY DEF Inv, Types, Tables
<1>3. /\ Numbered(BulkServices) \in SUBSET [id : Nat, name : Names]
      /\ Numbered(BulkSources) \in SUBSET [id : Nat, name : Names]
  BY NumberedTypes
<1>4. /\ names' \in [Tables -> [rows : SUBSET [id : Nat, name : Names], next : Nat]]
      /\ names'["services"].rows = Numbered(BulkServices)
      /\ names'["sources"].rows = Numbered(BulkSources)
      /\ names'["statuses"] = names["statuses"]
  BY <1>1, <1>2, <1>3
<1>5. Types'
  <2>1. \A r \in rows' \cup mirror' : r \in [nr : DOMAIN sent', status : Names \cup Nat, day : Days]
    BY <1>1 DEF Inv, Types
  <2>2. version' \in 0..10 /\ today' \in Days /\ sent' \in Seq(Names)
    BY <1>1 DEF Inv, Types
  <2> QED
    BY <1>4, <2>1, <2>2 DEF Types
<1>6. Bounded'
  <2>1. \A i \in Ids("services")' : i <= Len(BulkServices)
    BY <1>4, NumberedTypes DEF Ids
  <2>2. \A i \in Ids("sources")' : i <= Len(BulkSources)
    BY <1>4, NumberedTypes DEF Ids
  <2> QED
    BY <2>1, <2>2, NumberedTypes DEF Bounded
<1>7. Sequences' /\ UniqueIds'
  <2>1. Ahead("statuses")'
    BY <1>4 DEF Inv, Sequences, Ahead, Ids
  <2>2. UniqueIds'
    BY <1>4 DEF Inv, UniqueIds
  <2> QED
    BY <1>1, <2>1, <2>2 DEF Sequences
<1>8. NamesKept'
  BY <1>1, Versions, VersionsAfter DEF Inv, NamesKept, Says
<1>9. Mirrored' /\ PartitionsHold'
  BY <1>1, VersionsAfter DEF Inv, Mirrored, PartitionsHold
<1> QED
  BY <1>5, <1>6, <1>7, <1>8, <1>9 DEF Inv

LEMMA DropTablesStep ==
  ASSUME Inv, DropTables
  PROVE  Inv'
<1>1. /\ UNCHANGED <<mirror, trigger, due, today, sent>>
      /\ version = 1 /\ version' = 0 /\ rows' = {}
      /\ names' = [t \in Tables |-> Empty]
  BY Steps DEF Inv, Types, DropTables, codeVars, clockVars
<1>2. mirror' = {}
  BY <1>1 DEF Inv, Mirrored
<1>3. \A t \in Tables : Ids(t)' = {}
  BY <1>1 DEF Ids, Empty
<1>4. Types'
  BY <1>1, <1>2 DEF Inv, Types, Empty
<1>5. Bounded' /\ Sequences'
  BY <1>1, <1>3 DEF Bounded, Sequences, Ahead, Tables
<1>6. UniqueIds'
  BY <1>1 DEF UniqueIds, Empty, Tables
<1>7. NamesKept' /\ Mirrored' /\ PartitionsHold'
  BY <1>1, <1>2, VersionsAfter DEF Inv, NamesKept, Mirrored, PartitionsHold
<1> QED
  BY <1>4, <1>5, <1>6, <1>7 DEF Inv

(* setval() puts a sequence past the greatest id, or leaves it where it was. *)
LEMMA MovedAhead ==
  ASSUME Inv, NEW t \in {"services", "sources"}
  PROVE  Moved(t) \in Nat /\ \A i \in Ids(t) : i < Moved(t)
<1>1. t \in Tables /\ names[t].next \in Nat /\ Ids(t) \subseteq Nat
  BY DEF Inv, Types, Tables, Ids
<1>2. CASE \E i \in Ids(t) : i >= names[t].next
  <2>1. PICK b \in Nat : \A i \in Ids(t) : i <= b
    BY DEF Inv, Bounded
  <2>2. \E m \in Ids(t) : \A i \in Ids(t) : i <= m
    BY <1>1, <1>2, <2>1, GreatestNatural
  <2> DEFINE m == CHOOSE i \in Ids(t) : \A j \in Ids(t) : j <= i
  <2>3. m \in Ids(t) /\ \A j \in Ids(t) : j <= m
    BY <2>2
  <2>4. Moved(t) = m + 1
    BY <1>2 DEF Moved
  <2> HIDE DEF m
  <2> QED
    BY <1>1, <2>3, <2>4
<1>3. CASE ~ \E i \in Ids(t) : i >= names[t].next
  BY <1>1, <1>3 DEF Moved
<1> QED
  BY <1>2, <1>3

(* UPDATE of both sequences: the rows stay. *)
LEMMA SequencesSet ==
  ASSUME Inv, UNCHANGED <<rows, mirror, trigger, due, today, sent>>,
         version' \in 1..2, version \in 1..2,
         NEW n \in Nat, NEW m \in Nat,
         names' = [names EXCEPT !["services"].next = n, !["sources"].next = m],
         version' = 2 => /\ \A i \in Ids("services") : i < n
                         /\ \A i \in Ids("sources") : i < m
  PROVE  Inv'
<1>1. /\ names \in [Tables -> [rows : SUBSET [id : Nat, name : Names], next : Nat]]
      /\ "services" \in Tables /\ "sources" \in Tables /\ "statuses" \in Tables
  BY DEF Inv, Types, Tables
<1>2. /\ names' \in [Tables -> [rows : SUBSET [id : Nat, name : Names], next : Nat]]
      /\ names'["services"].next = n /\ names'["sources"].next = m
      /\ names'["statuses"] = names["statuses"]
      /\ \A t \in Tables : names'[t].rows = names[t].rows
  BY <1>1
<1>3. \A t \in Tables : Ids(t)' = Ids(t)
  BY <1>2 DEF Ids
<1>4. Types'
  BY <1>2 DEF Inv, Types
<1>5. Bounded'
  BY <1>1, <1>3 DEF Inv, Bounded
<1>6. Sequences' /\ UniqueIds'
  BY <1>1, <1>2, <1>3 DEF Inv, Sequences, Ahead, UniqueIds
<1>7. NamesKept'
  BY Versions, VersionsAfter DEF Inv, NamesKept, Says
<1>8. Mirrored' /\ PartitionsHold'
  BY VersionsAfter DEF Inv, Mirrored, PartitionsHold
<1> QED
  BY <1>4, <1>5, <1>6, <1>7, <1>8 DEF Inv

LEMMA SequenceMigrations ==
  ASSUME Inv, UpdateSequences \/ RestartSequences
  PROVE  Inv'
<1>1. version \in 0..10
  BY DEF Inv, Types
<1>2. CASE UpdateSequences
  <2>1. version = 1 /\ version' = 2
    BY <1>1, <1>2, Steps DEF UpdateSequences
  <2>2. UNCHANGED <<rows, mirror, trigger, due, today, sent>>
    BY <1>2 DEF UpdateSequences, tableVars, codeVars, clockVars
  <2>3. names' = [names EXCEPT !["services"].next = Moved("services"), !["sources"].next = Moved("sources")]
    BY <1>2 DEF UpdateSequences
  <2>4. /\ Moved("services") \in Nat /\ \A i \in Ids("services") : i < Moved("services")
        /\ Moved("sources") \in Nat /\ \A i \in Ids("sources") : i < Moved("sources")
    BY MovedAhead
  <2>5. version \in 1..2 /\ version' \in 1..2
    BY <2>1
  <2> QED
    BY <2>2, <2>3, <2>4, <2>5, SequencesSet
<1>3. CASE RestartSequences
  <2>1. version = 2 /\ version' = 1
    BY <1>1, <1>3, Steps DEF RestartSequences
  <2>2. UNCHANGED <<rows, mirror, trigger, due, today, sent>>
    BY <1>3 DEF RestartSequences, tableVars, codeVars, clockVars
  <2>3. names' = [names EXCEPT !["services"].next = 1, !["sources"].next = 1]
    BY <1>3 DEF RestartSequences
  <2>4. version \in 1..2 /\ version' \in 1..2 /\ version' # 2 /\ 1 \in Nat
    BY <2>1
  <2> QED
    BY <2>2, <2>3, <2>4, SequencesSet
<1> QED
  BY <1>2, <1>3

(* The names in use are those of statuses that were sent, so they are finitely many. *)
LEMMA UnlistedFinite ==
  ASSUME Inv, version = 2
  PROVE  /\ Unlisted \subseteq Names /\ IsFiniteSet(Unlisted) /\ Cardinality(Unlisted) \in Nat
         /\ \A r \in rows : /\ r.nr \in DOMAIN sent /\ r.status = sent[r.nr] /\ r.status \in Names
<1>1. \A r \in rows : r.nr \in DOMAIN sent /\ r.status = sent[r.nr]
  BY Versions DEF Inv, NamesKept, Says
<1>2. sent \in Seq(Names) /\ Len(sent) \in Nat /\ DOMAIN sent = 1..Len(sent)
  BY DEF Inv, Types
<1> DEFINE T == {sent[i] : i \in 1..Len(sent)}
<1>3. T \subseteq Names /\ \A r \in rows : r.status \in T
  BY <1>1, <1>2
<1>4. sent \in Surjection(1..Len(sent), T)
  BY <1>2 DEF Surjection
<1>5. IsFiniteSet(1..Len(sent))
  BY <1>2, FS_Interval
<1>6. IsFiniteSet(T)
  BY <1>4, <1>5, FS_Surjection
<1> HIDE DEF T
<1>7. Unlisted \subseteq T
  BY <1>3 DEF Unlisted
<1> QED
  BY <1>1, <1>3, <1>6, <1>7, FS_Subset, FS_CardinalityType

LEMMA AddStatusesStep ==
  ASSUME Inv, AddStatuses
  PROVE  Inv'
<1> DEFINE k == Len(BulkStatuses)
           n == Cardinality(Unlisted)
<1>1. /\ UNCHANGED <<mirror, trigger, due, today, sent>>
      /\ version = 2 /\ version' = 3
  BY Steps DEF Inv, Types, AddStatuses, clockVars
<1>2. PICK id \in [Unlisted -> (k + 1)..(k + n)] :
         /\ \A u, w \in Unlisted : id[u] = id[w] => u = w
         /\ LET all == Numbered(BulkStatuses) \cup {[id |-> id[u], name |-> u] : u \in Unlisted}
            IN /\ names' = [names EXCEPT !["statuses"] = [rows |-> all, next |-> k + n + 1]]
               /\ rows' = {[r EXCEPT !.status = (CHOOSE m \in all : m.name = r.status).id] : r \in rows}
  BY DEF AddStatuses
<1> DEFINE added == {[id |-> id[u], name |-> u] : u \in Unlisted}
           all == Numbered(BulkStatuses) \cup added
           of(r) == CHOOSE m \in all : m.name = r.status
<1>3. /\ names' = [names EXCEPT !["statuses"] = [rows |-> all, next |-> k + n + 1]]
      /\ rows' = {[r EXCEPT !.status = of(r).id] : r \in rows}
  BY <1>2
<1>4. k \in Nat /\ n \in Nat /\ Unlisted \subseteq Names
  BY <1>1, NumberedTypes, UnlistedFinite
<1>5. \A m \in Numbered(BulkStatuses) :
         /\ m \in [id : Nat, name : Names]
         /\ m.id \in 1..k /\ m.name = BulkStatuses[m.id]
  BY NumberedTypes
<1>6. \A m \in added : /\ m \in [id : Nat, name : Names]
                      /\ m.name \in Unlisted /\ m.id = id[m.name] /\ m.id \in (k + 1)..(k + n)
  BY <1>2, <1>4
<1>7. \A m \in all : m \in [id : Nat, name : Names] /\ m.id \in Nat /\ m.id < k + n + 1
  BY <1>4, <1>5, <1>6
<1>8. \A m, o \in all : m.id = o.id => m = o
  <2> SUFFICES ASSUME NEW m \in all, NEW o \in all, m.id = o.id PROVE m = o
    OBVIOUS
  <2>1. m.name = o.name => m = o
    BY <1>7
  <2>2. CASE m \in Numbered(BulkStatuses) /\ o \in Numbered(BulkStatuses)
    BY <2>1, <2>2, <1>5
  <2>3. CASE m \in added /\ o \in added
    BY <2>1, <2>3, <1>2, <1>6
  <2>4. CASE (m \in added /\ o \in Numbered(BulkStatuses)) \/ (o \in added /\ m \in Numbered(BulkStatuses))
    BY <2>4, <1>4, <1>5, <1>6
  <2> QED
    BY <2>2, <2>3, <2>4
<1>9. \A r \in rows : of(r) \in all /\ of(r).name = r.status
  <2> SUFFICES ASSUME NEW r \in rows PROVE \E m \in all : m.name = r.status
    OBVIOUS
  <2>1. CASE r.status \in Unlisted
    <3> DEFINE m == [id |-> id[r.status], name |-> r.status]
    <3>1. m \in added /\ m.name = r.status
      BY <2>1
    <3>2. m \in all
      BY <3>1
    <3> HIDE DEF m
    <3> QED
      BY <3>1, <3>2
  <2>2. CASE r.status \notin Unlisted
    <3>1. PICK i \in DOMAIN BulkStatuses : BulkStatuses[i] = r.status
      BY <2>2 DEF Unlisted
    <3>2. [id |-> i, name |-> BulkStatuses[i]] \in Numbered(BulkStatuses)
      BY DEF Numbered
    <3> QED
      BY <3>1, <3>2
  <2> QED
    BY <2>1, <2>2
<1> HIDE DEF added, all, of
<1>10. /\ names' \in [Tables -> [rows : SUBSET [id : Nat, name : Names], next : Nat]]
       /\ names'["statuses"].rows = all /\ names'["statuses"].next = k + n + 1
       /\ names'["services"] = names["services"] /\ names'["sources"] = names["sources"]
  <2>1. [rows |-> all, next |-> k + n + 1] \in [rows : SUBSET [id : Nat, name : Names], next : Nat]
    BY <1>4, <1>7
  <2>2. names \in [Tables -> [rows : SUBSET [id : Nat, name : Names], next : Nat]] /\ "statuses" \in Tables
    BY DEF Inv, Types, Tables
  <2> QED
    BY <1>3, <2>1, <2>2 DEF Tables
<1>11. mirror' = {}
  BY <1>1 DEF Inv, Mirrored
<1>12. \A s \in rows' : \E r \in rows : s = [r EXCEPT !.status = of(r).id]
  BY <1>3
<1>13. \A r \in rows : r \in [nr : DOMAIN sent, status : Names \cup Nat, day : Days]
  BY DEF Inv, Types
<1>14. Types'
  <2>1. \A s \in rows' : s \in [nr : DOMAIN sent, status : Names \cup Nat, day : Days]
    BY <1>7, <1>9, <1>12, <1>13
  <2>2. version' \in 0..10 /\ today' \in Days /\ sent' \in Seq(Names)
    BY <1>1 DEF Inv, Types
  <2> QED
    BY <1>1, <1>10, <1>11, <2>1, <2>2 DEF Types
<1>15. Bounded' /\ Sequences' /\ UniqueIds'
  <2>1. Bounded'
    BY <1>10 DEF Inv, Bounded, Ids
  <2>2. Ahead("services")' /\ Ahead("sources")'
    BY <1>1, <1>10 DEF Inv, Sequences, Ahead, Ids
  <2>3. Ahead("statuses")'
    BY <1>7, <1>10 DEF Ahead, Ids
  <2>4. UniqueIds'
    BY <1>8, <1>10 DEF UniqueIds
  <2> QED
    BY <2>1, <2>2, <2>3, <2>4 DEF Sequences
<1>16. NamesKept'
  <2> SUFFICES ASSUME NEW s \in rows'
               PROVE  s.nr \in DOMAIN sent /\ Says(s, sent[s.nr])'
    BY <1>1, <1>11 DEF NamesKept
  <2>1. PICK r \in rows : s = [r EXCEPT !.status = of(r).id]
    BY <1>12
  <2>2. s.nr = r.nr /\ s.status = of(r).id
    BY <2>1, <1>13
  <2>3. r.nr \in DOMAIN sent /\ of(r).name = sent[r.nr] /\ of(r) \in all
    BY <1>1, <1>9, UnlistedFinite
  <2>4. Says(s, sent[r.nr])'
    BY <2>2, <2>3, <1>1, <1>8, <1>10, VersionsAfter DEF Says
  <2> QED
    BY <2>2, <2>3, <2>4, <1>1
<1>17. Mirrored' /\ PartitionsHold'
  BY <1>1, <1>11, VersionsAfter DEF Inv, Mirrored, PartitionsHold
<1> QED
  BY <1>14, <1>15, <1>16, <1>17 DEF Inv

LEMMA DropStatusesStep ==
  ASSUME Inv, DropStatuses
  PROVE  Inv'
<1>1. /\ UNCHANGED <<mirror, trigger, due, today, sent>>
      /\ version = 3 /\ version' = 2
      /\ rows' = {Named(r) : r \in rows}
      /\ names' = [names EXCEPT !["statuses"] = Empty]
  BY Steps DEF Inv, Types, DropStatuses, clockVars
<1>2. mirror' = {}
  BY <1>1 DEF Inv, Mirrored
<1>3. /\ names \in [Tables -> [rows : SUBSET [id : Nat, name : Names], next : Nat]]
      /\ "services" \in Tables /\ "sources" \in Tables /\ "statuses" \in Tables
  BY DEF Inv, Types, Tables
<1>4. /\ names' \in [Tables -> [rows : SUBSET [id : Nat, name : Names], next : Nat]]
      /\ names'["statuses"] = Empty
      /\ names'["services"] = names["services"] /\ names'["sources"] = names["sources"]
  BY <1>1, <1>3 DEF Empty
<1>5. \A r \in rows : /\ r \in [nr : DOMAIN sent, status : Names \cup Nat, day : Days]
                     /\ r.nr \in DOMAIN sent /\ sent[r.nr] \in Names
                     /\ Named(r) = [r EXCEPT !.status = sent[r.nr]]
  <2> SUFFICES ASSUME NEW r \in rows
               PROVE  /\ r \in [nr : DOMAIN sent, status : Names \cup Nat, day : Days]
                      /\ r.nr \in DOMAIN sent /\ sent[r.nr] \in Names
                      /\ Named(r) = [r EXCEPT !.status = sent[r.nr]]
    OBVIOUS
  <2>1. r \in [nr : DOMAIN sent, status : Names \cup Nat, day : Days] /\ sent \in Seq(Names)
    BY DEF Inv, Types
  <2>2. r.nr \in DOMAIN sent /\ Says(r, sent[r.nr])
    BY DEF Inv, NamesKept
  <2>3. PICK m \in names["statuses"].rows :
           /\ m.id = r.status /\ m.name = sent[r.nr]
           /\ \A o \in names["statuses"].rows : o.id = m.id => o = m
    BY <1>1, <2>2, Versions DEF Says
  <2>4. (CHOOSE o \in names["statuses"].rows : o.id = r.status) = m
    BY <2>3
  <2>5. sent[r.nr] \in Names
    BY <2>1, <2>2
  <2> QED
    BY <2>1, <2>2, <2>3, <2>4, <2>5 DEF Named
<1>6. \A s \in rows' : /\ s \in [nr : DOMAIN sent, status : Names \cup Nat, day : Days]
                      /\ s.nr \in DOMAIN sent /\ s.status = sent[s.nr]
  BY <1>1, <1>5
<1>7. Types'
  <2>1. version' \in 0..10 /\ today' \in Days /\ sent' \in Seq(Names)
    BY <1>1 DEF Inv, Types
  <2> QED
    BY <1>1, <1>2, <1>4, <1>6, <2>1 DEF Types
<1>8. Bounded' /\ Sequences' /\ UniqueIds'
  BY <1>1, <1>4 DEF Inv, Bounded, Sequences, Ahead, Ids, UniqueIds, Empty
<1>9. NamesKept'
  BY <1>1, <1>2, <1>6, VersionsAfter DEF NamesKept, Says
<1>10. Mirrored' /\ PartitionsHold'
  BY <1>1, <1>2, VersionsAfter DEF Inv, Mirrored, PartitionsHold
<1> QED
  BY <1>7, <1>8, <1>9, <1>10 DEF Inv

-----------------------------------------------------------------------------
LEMMA Stutter == Inv /\ UNCHANGED vars => Inv'
<1> SUFFICES ASSUME Inv, UNCHANGED vars PROVE Inv'
  OBVIOUS
<1>1. UNCHANGED <<version, names, rows, mirror, sent, today, trigger, due>>
  BY DEF vars, tableVars, codeVars, clockVars
<1>2. Mirrored' /\ PartitionsHold'
  BY <1>1, Versions, VersionsAfter DEF Inv, Mirrored, PartitionsHold
<1>3. version' \in 0..10 /\ today' \in Days
  BY <1>1 DEF Inv, Types
<1> QED
  BY <1>1, <1>2, <1>3, RowsOnly

(* Every migration, every statement of the tracker and every cleanup keeps it. *)
LEMMA NextInv == Inv /\ [Next]_vars => Inv'
<1> SUFFICES ASSUME Inv, Next PROVE Inv'
  BY Stutter
<1>1. CASE Migrate
  BY <1>1, CreateTablesStep, DropTablesStep, SequenceMigrations, AddStatusesStep, DropStatusesStep,
     PartitionMigrations DEF Migrate
<1>2. CASE NextDay \/ CleanPartitions \/ DropPartition
  BY <1>2, NextDayStep, CleanPartitionsStep, DropPartitionStep
<1>3. CASE (\E t \in Tables, n \in Names : AddName(t, n)) \/ (\E n \in Names, day \in Days : AddStatus(n, day))
  BY <1>3, AddNameStep, AddStatusStep
<1> QED
  BY <1>1, <1>2, <1>3 DEF Next

(* What every path through the history of the schema preserves. *)
THEOREM SchemaInvariant == Spec => []Inv
  BY InitInv, NextInv, PTL DEF Spec

(* Through every upgrade and downgrade a status keeps the name it was sent with. *)
THEOREM NamesTheorem == Spec => []NamesKept
<1>1. Inv => NamesKept
  BY DEF Inv
<1> QED
  BY <1>1, SchemaInvariant, PTL

(* From dee786 on the sequences are ahead, whatever happened before or between. *)
THEOREM SequencesTheorem == Spec => []SequencesAhead
<1>1. Inv => SequencesAhead
  BY Numbers DEF Inv, Types, Sequences, SequencesAhead, Ahead, Tables, At
<1> QED
  BY <1>1, SchemaInvariant, PTL

(* For every retention and calendar the partitions hold what they must. *)
THEOREM PartitionsTheorem == Spec => []PartitionsHold
<1>1. Inv => PartitionsHold
  BY DEF Inv
<1> QED
  BY <1>1, SchemaInvariant, PTL
=============================================================================
