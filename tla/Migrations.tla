------------------------------ MODULE Migrations ------------------------------
(***************************************************************************)
(* The history of the schema (migrations/), taken up and down one revision *)
(* at a time while the tracker stores new names and statuses, days pass    *)
(* and partitions are cleaned up.  Indexes and column widths are left out. *)
(***************************************************************************)
EXTENDS Integers, Sequences, FiniteSets

CONSTANTS
    Names,
    BulkServices, BulkSources, BulkStatuses,  \* the names that come with the tables
    Stamp,           \* each day as the number yyyymmdd
    FirstDay,
    RETENTION_DAYS,
    MaxStatuses, MaxId  \* bounds on the statuses stored and on the values of a sequence

Days == DOMAIN Stamp
Tables == {"services", "sources", "statuses"}
Revisions == <<"85cddc", "dee786", "d2ccb9", "b1b88f", "6e5626", "6b8abab", "867aaf", "e6fb73", "068d39", "4cd848">>

ASSUME MigrationsAssumption ==
    /\ \A bulk \in {BulkServices, BulkSources, BulkStatuses} :
          bulk \in Seq(Names) /\ \A i, j \in DOMAIN bulk : bulk[i] = bulk[j] => i = j
    /\ Days \subseteq Int /\ FirstDay \in Days
    /\ Stamp \in [Days -> Nat] /\ \A d, e \in Days : d < e => Stamp[d] < Stamp[e]
    /\ RETENTION_DAYS \in Nat /\ MaxStatuses \in Nat /\ MaxId \in Nat

VARIABLES
    version,    \* how many of the Revisions are applied
    names,      \* services, sources and statuses: their rows and their sequence's next value
    rows,       \* payload_statuses
    mirror,     \* partitioned_statuses
    parts,      \* the days that have a partition
    trigger,    \* whether inserts are mirrored: update_partitions exists
    cleaner,    \* which version of clean_partitions exists
    statusRef,  \* the table that payload_statuses.status_id refers to
    today,
    sent,       \* the name of each status that was stored, in order
    due         \* the statuses that the partitions must hold

tableVars == <<rows, mirror, parts>>
codeVars == <<trigger, cleaner, statusRef>>
clockVars == <<today, sent>>
vars == <<version, names, tableVars, codeVars, clockVars, due>>

Number(revision) == CHOOSE v \in DOMAIN Revisions : Revisions[v] = revision
At(revision) == version >= Number(revision)

Empty == [rows |-> {}, next |-> 1]
Ids(table) == {n.id : n \in names[table].rows}
Listed(table) == {n.name : n \in names[table].rows}
Numbered(bulk) == {[id |-> i, name |-> bulk[i]] : i \in DOMAIN bulk}

Init ==
    /\ version = 0 /\ names = [t \in Tables |-> Empty]
    /\ rows = {} /\ mirror = {} /\ parts = {}
    /\ trigger = FALSE /\ cleaner = "none" /\ statusRef = "none"
    /\ today = FirstDay /\ sent = <<>> /\ due = {}

-----------------------------------------------------------------------------
(* What happens between the migrations. *)

(* INSERT of a name: the sequence moves on even if the id is taken. *)
AddName(t, n) ==
    LET id == names[t].next
    IN /\ IF t = "statuses" THEN At("d2ccb9") ELSE At("85cddc")
       /\ id < MaxId /\ n \notin Listed(t)
       /\ names' = [names EXCEPT ![t] =
             [rows |-> IF id \in Ids(t) THEN @.rows ELSE @.rows \cup {[id |-> id, name |-> n]},
              next |-> id + 1]]
       /\ UNCHANGED <<version, tableVars, codeVars, clockVars, due>>

(* INSERT into payload_statuses: the foreign key is checked, the triggers copy *)
(* the row and create its partition (the tracker itself once they are gone).   *)
Store(r) ==
    /\ At("d2ccb9") => r.status \in Ids(statusRef)
    /\ rows' = rows \cup {r}
    /\ mirror' = IF trigger THEN mirror \cup {r} ELSE mirror
    /\ parts' = IF At("b1b88f") THEN parts \cup {r.day} ELSE parts
    /\ due' = IF At("b1b88f") THEN due \cup {r} ELSE due

AddStatus(n, day) ==
    /\ At("85cddc") /\ Len(sent) < MaxStatuses
    /\ sent' = Append(sent, n)
    /\ \/ ~At("d2ccb9") /\ Store([nr |-> Len(sent) + 1, status |-> n, day |-> day])
       \/ /\ At("d2ccb9")
          /\ \E m \in names["statuses"].rows :
                m.name = n /\ Store([nr |-> Len(sent) + 1, status |-> m.id, day |-> day])
    /\ UNCHANGED <<version, names, codeVars, today>>

NextDay ==
    /\ today + 1 \in Days
    /\ today' = today + 1
    /\ UNCHANGED <<version, names, tableVars, codeVars, sent, due>>

(* clean_partitions of 6e5626: the days are subtracted from the number. *)
Subtracted == {d \in parts : Stamp[d] < Stamp[today] - RETENTION_DAYS}

(* clean_partitions of 6b8abab and of the downgrade of 867aaf. *)
Outdated == {d \in parts : today - RETENTION_DAYS \in Days /\ Stamp[d] <= Stamp[today - RETENTION_DAYS]}

Recent(r) == r.day + RETENTION_DAYS > today

CleanPartitions ==
    LET dropped == IF cleaner = "stamp" THEN Subtracted ELSE Outdated
    IN /\ At("b1b88f") /\ ~At("867aaf") /\ cleaner # "none"
       /\ parts' = parts \ dropped
       /\ mirror' = {r \in mirror : r.day \notin dropped}
       /\ due' = IF cleaner = "stamp" THEN due \cap mirror' ELSE {r \in due : Recent(r)}
       /\ UNCHANGED <<version, names, rows, codeVars, clockVars>>

(* drop_partition, as the nightly job calls it. *)
DropPartition ==
    LET day == today - RETENTION_DAYS
        rest(S) == {r \in S : r.day # day}
    IN /\ At("867aaf")
       /\ parts' = parts \ {day}
       /\ mirror' = rest(mirror)
       /\ rows' = IF At("e6fb73") THEN rest(rows) ELSE rows
       /\ due' = {r \in due : Recent(r)}
       /\ UNCHANGED <<version, names, codeVars, clockVars>>

-----------------------------------------------------------------------------
(* The migrations. *)
Up(revision) == version < Len(Revisions) /\ Revisions[version + 1] = revision /\ version' = version + 1
Down(revision) == version > 0 /\ Revisions[version] = revision /\ version' = version - 1

(* 85cddc: the bulk inserts give the ids and leave the sequences where they are. *)
CreateTables ==
    /\ Up("85cddc")
    /\ names' = [names EXCEPT !["services"].rows = Numbered(BulkServices),
                              !["sources"].rows = Numbered(BulkSources)]
    /\ UNCHANGED <<tableVars, codeVars, clockVars, due>>

DropTables ==
    /\ Down("85cddc")
    /\ names' = [t \in Tables |-> Empty]
    /\ rows' = {}
    /\ UNCHANGED <<mirror, parts, codeVars, clockVars, due>>

(* Mutant of Moved: to the last id, not past it. *)
MovedToLast(t) ==
    IF \E i \in Ids(t) : i > names[t].next
    THEN CHOOSE i \in Ids(t) : \A j \in Ids(t) : j <= i
    ELSE names[t].next

(* dee786: setval(GREATEST(MAX(id)+1, nextval)-1) *)
Moved(t) ==
    IF \E i \in Ids(t) : i >= names[t].next
    THEN (CHOOSE i \in Ids(t) : \A j \in Ids(t) : j <= i) + 1
    ELSE names[t].next

UpdateSequences ==
    /\ Up("dee786")
    /\ names' = [names EXCEPT !["services"].next = Moved("services"), !["sources"].next = Moved("sources")]
    /\ UNCHANGED <<tableVars, codeVars, clockVars, due>>

RestartSequences ==
    /\ Down("dee786")
    /\ names' = [names EXCEPT !["services"].next = 1, !["sources"].next = 1]
    /\ UNCHANGED <<tableVars, codeVars, clockVars, due>>

(* d2ccb9: the names in use that the bulk insert lacks follow in any order. *)
Unlisted == {r.status : r \in rows} \ {BulkStatuses[i] : i \in DOMAIN BulkStatuses}

AddStatuses ==
    LET k == Len(BulkStatuses)
        n == Cardinality(Unlisted)
    IN /\ Up("d2ccb9")
       /\ \E id \in [Unlisted -> (k + 1)..(k + n)] :
             /\ \A u, w \in Unlisted : id[u] = id[w] => u = w
             /\ LET all == Numbered(BulkStatuses) \cup {[id |-> id[u], name |-> u] : u \in Unlisted}
                IN /\ names' = [names EXCEPT !["statuses"] = [rows |-> all, next |-> k + n + 1]]
                   /\ rows' = {[r EXCEPT !.status = (CHOOSE m \in all : m.name = r.status).id] : r \in rows}
       /\ statusRef' = "statuses"
       /\ UNCHANGED <<mirror, parts, trigger, cleaner, clockVars, due>>

(* Mutant of Named: the ids are not converted back. *)
Unnamed(r) == r

Named(r) == [r EXCEPT !.status = (CHOOSE m \in names["statuses"].rows : m.id = r.status).name]

DropStatuses ==
    /\ Down("d2ccb9")
    /\ rows' = {Named(r) : r \in rows}
    /\ names' = [names EXCEPT !["statuses"] = Empty]
    /\ statusRef' = "none"
    /\ UNCHANGED <<mirror, parts, trigger, cleaner, clockVars, due>>

(* A table for the partitions that holds none of the statuses there are. *)
Anew(days) == mirror' = {} /\ parts' = days /\ due' = {}

PartitionStatuses ==
    /\ Up("b1b88f")
    /\ Anew({}) /\ trigger' = TRUE
    /\ UNCHANGED <<names, rows, cleaner, statusRef, clockVars>>

(* The foreign key is made again as well, and refers to statuses. *)
DropPartitions ==
    /\ Down("b1b88f")
    /\ Anew({}) /\ trigger' = FALSE /\ statusRef' = "statuses"
    /\ UNCHANGED <<names, rows, cleaner, clockVars>>

(* The downgrades name a clean_partitions() that does not exist. *)
Cleanup ==
    /\ \/ Up("6e5626") /\ cleaner' = "stamp"
       \/ Up("6b8abab") /\ cleaner' = "date"
       \/ (Down("6e5626") \/ Down("6b8abab")) /\ UNCHANGED cleaner
    /\ UNCHANGED <<names, tableVars, trigger, statusRef, clockVars, due>>

UseDeclarativePartitions ==
    /\ Up("867aaf")
    /\ Anew({today, today + 1} \cap Days) /\ cleaner' = "none"
    /\ UNCHANGED <<names, rows, trigger, statusRef, clockVars>>

UseInheritedPartitions ==
    /\ Down("867aaf")
    /\ Anew({}) /\ cleaner' = "date"
    /\ UNCHANGED <<names, rows, trigger, statusRef, clockVars>>

(* e6fb73: partitioned_statuses takes the place of payload_statuses. *)
SubstitutePartitions ==
    /\ Up("e6fb73")
    /\ rows' = mirror /\ mirror' = {}
    /\ trigger' = FALSE /\ statusRef' = "statuses"
    /\ UNCHANGED <<names, parts, cleaner, clockVars, due>>

(* Mutant of MirrorsAgain: the trigger is not created again. *)
MirrorsNoMore == FALSE

MirrorsAgain == TRUE

(* The new payload_statuses is empty, and its status_id refers to sources. *)
RestorePayloadStatuses ==
    /\ Down("e6fb73")
    /\ mirror' = rows /\ rows' = {}
    /\ trigger' = MirrorsAgain /\ statusRef' = "sources"
    /\ UNCHANGED <<names, parts, cleaner, clockVars, due>>

(* Indexes, and the type of the ids. *)
ChangeTypes ==
    /\ \/ Up("068d39") \/ Down("068d39")
       \/ Up("4cd848") \/ Down("4cd848")
    /\ UNCHANGED <<names, tableVars, codeVars, clockVars, due>>

Migrate ==
    \/ CreateTables \/ UpdateSequences \/ AddStatuses \/ PartitionStatuses
    \/ UseDeclarativePartitions \/ SubstitutePartitions
    \/ DropTables \/ RestartSequences \/ DropStatuses \/ DropPartitions
    \/ UseInheritedPartitions \/ RestorePayloadStatuses
    \/ Cleanup \/ ChangeTypes

Next ==
    \/ Migrate
    \/ \E t \in Tables, n \in Names : AddName(t, n)
    \/ \E n \in Names, day \in Days : AddStatus(n, day)
    \/ NextDay \/ CleanPartitions \/ DropPartition

Spec == Init /\ [][Next]_vars

-----------------------------------------------------------------------------
(***************************************************************************)
(* Wherever the schema is between the first revision and the last, a row   *)
(* of payload_statuses or of the partitions says the status it was stored  *)
(* with, as its name or as the id of the one row of statuses that has it.  *)
(***************************************************************************)
Says(r, n) ==
    IF At("d2ccb9")
    THEN \E m \in names["statuses"].rows :
            /\ m.id = r.status /\ m.name = n
            /\ \A o \in names["statuses"].rows : o.id = m.id => o = m
    ELSE r.status = n

NamesKept == \A r \in rows \cup mirror : r.nr \in DOMAIN sent /\ Says(r, sent[r.nr])

(***************************************************************************)
(* From dee786 on no INSERT of a name fails because its id is taken: the   *)
(* sequences are ahead of the ids that the tables list, also when they     *)
(* were taken back to 1 by a downgrade and names were added meanwhile.     *)
(***************************************************************************)
SequencesAhead ==
    At("dee786") => \A t \in Tables : \A i \in Ids(t) : i < names[t].next

(***************************************************************************)
(* The partitions hold every status stored since they were created, but    *)
(* for those whose day the cleanup has passed: across the upgrade and the  *)
(* downgrade of e6fb73 nothing that was mirrored is lost.                  *)
(***************************************************************************)
PartitionsHold ==
    At("b1b88f") => due \subseteq (IF At("e6fb73") THEN rows ELSE mirror)
=============================================================================
