---------------------------- MODULE CachedProofs ----------------------------
(***************************************************************************)
(* The pipeline with Redis: what the cache and the Redis hashes say before *)
(* COMMIT leads no status to another request or name, and an id that the   *)
(* cache gives out is real but for a failed call of the same request.      *)
(* The proof goes from the types and the places of the tasks (BaseType,    *)
(* CacheType, CachedWorking) to the rows of the open transactions (World), *)
(* to the ids that tasks, calls and hashes hold (LocalsTrue, CallTrue,     *)
(* Owned), and to the statuses and metrics that are made of them.          *)
(* The second half follows the messages of an undisturbed request: their   *)
(* names and payload get committed (NamesCommitted, PayloadUsed), and they *)
(* meet no error on their way (OnCourse), so that none of them is lost.    *)
(***************************************************************************)
EXTENDS CachedPipelineInv, FiniteSetTheorems, SequenceTheorems, WellFoundedInduction, TLAPS

USE DEF Ids, NoId, Idle

-----------------------------------------------------------------------------
(* What a task knows of itself is changed by its own steps only. *)
SpsType == [payload_id : Nat, ids : [Columns -> Nat]]

Changes(f, g, t, S) == g \in [Tasks -> S] /\ \A s \in Tasks \ {t} : g[s] = f[s]

Shape(t) ==
    /\ batch' = batch
    /\ Changes(idx, idx', t, Ids) /\ Changes(pc, pc', t, CachedLocations)
    /\ Changes(col, col', t, 1..4) /\ Changes(try, try', t, 1..3)
    /\ Changes(sps, sps', t, SpsType) /\ Changes(dump, dump', t, DumpType)
    /\ Changes(tx, tx', t, TxRow \cup {NoRow})

LEMMA Unchanged == ASSUME NEW S, NEW f \in [Tasks -> S], NEW g, g = f, NEW t \in Tasks
                   PROVE  Changes(f, g, t, S)
BY DEF Changes

LEMMA ChangedAt ==
    ASSUME NEW S, NEW f \in [Tasks -> S], NEW t \in Tasks, NEW v \in S, NEW g, g = [f EXCEPT ![t] = v]
    PROVE  Changes(f, g, t, S) /\ g[t] = v
BY DEF Changes

LEMMA BaseParts ==
    BaseType => /\ idx \in [Tasks -> Ids] /\ pc \in [Tasks -> CachedLocations]
                /\ col \in [Tasks -> 1..4] /\ try \in [Tasks -> 1..3]
                /\ sps \in [Tasks -> SpsType] /\ dump \in [Tasks -> DumpType]
                /\ tx \in [Tasks -> TxRow \cup {NoRow}]
BY DEF BaseType, SpsType

LEMMA BatchIs ==
    ASSUME batch \in [Tasks -> Batches]
    PROVE  \A t \in Tasks : batch[t] \in Seq(Message) /\ DOMAIN batch[t] = 1..Len(batch[t])
                            /\ Len(batch[t]) \in Nat /\ Len(batch[t]) <= LastPosition
BY ConstantsAssumption, CacheAssumption

LEMMA MessageIs ==
    ASSUME BaseType, NEW t \in Tasks, CachedWorking(t), pc[t] \notin Idle
    PROVE  /\ Msg(t) \in Message /\ Msg(t).kind = "good" /\ idx[t] \in DOMAIN batch[t]
           /\ Current(t) \in Messages
           /\ \A c \in Columns : Name(t, c) \in Names \cup {None}
           /\ Name(t, "service") # None /\ Name(t, "status") # None
<1>1. batch \in [Tasks -> Batches] /\ idx[t] \in Ids
  BY DEF BaseType
<1>2. idx[t] \in 1..Len(batch[t]) /\ Msg(t).kind = "good"
  BY <1>1, BatchIs DEF CachedWorking
<1>3. Msg(t) \in Message
  BY <1>1, <1>2, BatchIs DEF Msg
<1>4. Current(t) \in Messages
  BY <1>1, <1>2, BatchIs, CacheAssumption DEF Current, Messages
<1>5. Name(t, "service") # None /\ Name(t, "status") # None
  BY <1>1, <1>2, ConstantsAssumption DEF Msg, Name
<1> QED
  BY <1>1, <1>2, <1>3, <1>4, <1>5, BatchIs DEF Name, Message

LEMMA ColumnIs ==
    ASSUME BaseType, NEW t \in Tasks, col[t] <= 3
    PROVE  Column(t) \in Columns /\ Column(t) \in Tables /\ Column(t) # "payloads"
BY DEF BaseType, Column, ColumnOrder, Columns, Tables

(* What the ends of the loop body and the jumps within it change. *)
Moves(t, loc, n) ==
    /\ Changes(pc, pc', t, CachedLocations) /\ pc'[t] = loc
    /\ Changes(idx, idx', t, Ids) /\ idx'[t] = n

LEMMA GotoMoves ==
    ASSUME BaseType, NEW t \in Tasks, NEW loc \in CachedLocations, Goto(t, loc)
    PROVE  Moves(t, loc, idx[t])
BY BaseParts, ChangedAt, Unchanged DEF Goto, Moves

LEMMA FinishMoves ==
    ASSUME BaseType, NEW t \in Tasks, NEW v, Finish(t, v)
    PROVE  Moves(t, "next", idx[t] + 1)
<1>1. idx[t] + 1 \in Ids /\ "next" \in CachedLocations
  BY BaseParts DEF CachedLocations, Locations
<1>2. Changes(pc, pc', t, CachedLocations) /\ pc'[t] = "next"
  BY <1>1, BaseParts, ChangedAt DEF Finish
<1>3. Changes(idx, idx', t, Ids) /\ idx'[t] = idx[t] + 1
  BY <1>1, BaseParts, ChangedAt DEF Finish
<1> QED
  BY <1>2, <1>3 DEF Moves

LEMMA StartMoves ==
    ASSUME BaseType, NEW t \in Tasks, StartColumns(t)
    PROVE  Moves(t, "column", idx[t]) /\ Changes(col, col', t, 1..4) /\ col'[t] = 1
<1>1. Moves(t, "column", idx[t])
  BY GotoMoves DEF StartColumns, CachedLocations, Locations
<1>2. col' = [col EXCEPT ![t] = 1] /\ 1 \in 1..4
  BY DEF StartColumns
<1>3. Changes(col, col', t, 1..4) /\ col'[t] = 1
  BY ONLY <1>2, BaseParts, BaseType, t \in Tasks, ChangedAt
<1> QED
  BY <1>1, <1>3

-----------------------------------------------------------------------------
(* The last index of a set of them. *)
LEMMA LeastNatural ==
    ASSUME NEW T, T \subseteq Nat, T # {}
    PROVE  \E x \in T : \A y \in T : x <= y
<1> DEFINE R == {ss \in Nat \X Nat : ss[1] < ss[2]}
<1>1. IsWellFoundedOn(R, Nat)
  BY NatLessThanWellFounded DEF OpToRel
<1> HIDE DEF R
<1>2. PICK x \in T : \A y \in T : ~(<<y, x>> \in R)
  BY <1>1, WFMin
<1>3. \A y \in T : ~(y < x)
  BY <1>2 DEF R
<1> QED
  BY <1>3

LEMMA LastIndex ==
    ASSUME NEW n \in Nat, NEW I, I \subseteq 1..n, I # {}
    PROVE  \E m \in I : \A i \in I : i <= m
<1> DEFINE T == {u \in Nat : \A i \in I : i <= u}
<1>1. PICK m \in T : \A u \in T : m <= u
  <2>1. n \in T
    OBVIOUS
  <2> QED
    BY <2>1, LeastNatural
<1>2. m \in I
  <2> SUFFICES ASSUME m \notin I PROVE FALSE
    OBVIOUS
  <2>1. \A i \in I : i \in 1..n /\ i <= m - 1
    BY <1>1
  <2>2. PICK i \in I : TRUE
    OBVIOUS
  <2>3. m - 1 \in Nat
    BY <1>1, <2>1, <2>2
  <2>4. m - 1 \in T
    BY <2>1, <2>3
  <2> QED
    BY <1>1, <2>3, <2>4
<1> QED
  BY <1>1, <1>2

(* The entry that data keeps for a date is one of data, of that date. *)
LEMMA DatedIs ==
    ASSUME NEW data, Len(data) \in Nat, NEW i \in 1..Len(data)
    PROVE  \E j \in 1..Len(data) : Dated(data, data[i].date) = data[j] /\ data[j].date = data[i].date
<1> DEFINE d == data[i].date
           Last(j) == data[j].date = d /\ \A k \in (j + 1)..Len(data) : data[k].date # d
           I == {j \in 1..Len(data) : data[j].date = d}
<1>1. PICK m \in I : \A j \in I : j <= m
  <2>1. i \in I /\ I \subseteq 1..Len(data)
    OBVIOUS
  <2> HIDE DEF I
  <2> QED
    BY <2>1, LastIndex
<1>2. m \in 1..Len(data) /\ Last(m)
  <2>1. ASSUME NEW k \in (m + 1)..Len(data) PROVE data[k].date # d
    <3>1. k \in 1..Len(data) /\ ~(k <= m)
      BY <1>1
    <3> QED
      BY <1>1, <3>1
  <2> QED
    BY <1>1, <2>1
<1> DEFINE c == CHOOSE j \in 1..Len(data) : Last(j)
<1>3. Dated(data, d) = data[c]
  BY DEF Dated
<1> HIDE DEF Last
<1>4. c \in 1..Len(data) /\ Last(c)
  BY <1>2
<1> QED
  BY <1>3, <1>4 DEF Last

LEMMA EntriesAre ==
    ASSUME NEW data, Len(data) \in Nat, NEW e \in Entries(data)
    PROVE  \E j \in 1..Len(data) : e = data[j]
<1>1. PICK i \in 1..Len(data) : e = Dated(data, data[i].date)
  BY DEF Entries, Dates
<1> QED
  BY <1>1, DatedIs

LEMMA CallIs ==
    ASSUME CacheType, NEW c \in Clients
    PROVE  /\ call[c].data \in Seq(Entry) /\ Len(call[c].data) \in Nat
           /\ \A i \in 1..Len(call[c].data) : call[c].data[i] \in Entry
           /\ call[c].hash \in 0..Len(lists) /\ call[c].raw \in BOOLEAN
           /\ call[c].names \in [Columns -> SUBSET NameRow]
BY DEF CacheType, CacheTypeOK

LEMMA UniqueIs ==
    ASSUME CacheType, NEW c \in Clients, call[c].data # <<>>
    PROVE  /\ UniqueValues(c) \in DumpType
           /\ \E i \in 1..Len(call[c].data) : UniqueValues(c).id = call[c].data[i].id
<1> DEFINE data == call[c].data
           with(a) == {e \in Entries(data) : e.attrs[a] # None}
<1>1. data \in Seq(Entry) /\ Len(data) \in Nat /\ 1 \in 1..Len(data) /\ call[c].raw \in BOOLEAN
  BY CallIs, EmptySeq
<1>2. PICK i \in 1..Len(data) : Dated(data, data[1].date) = data[i]
  BY <1>1, DatedIs
<1>3. \A e \in Entries(data) : e \in Entry
  BY <1>1, EntriesAre
<1>4. ASSUME NEW a \in Attrs, with(a) # {} PROVE (CHOOSE e \in with(a) : TRUE).attrs[a] \in Values \cup {None}
  <2> DEFINE x == CHOOSE e \in with(a) : TRUE
  <2>1. x \in with(a)
    BY <1>4
  <2>2. x \in Entry
    BY <1>3, <2>1
  <2> QED
    BY <2>2 DEF Entry
<1>5. UniqueValues(c) = [id |-> data[i].id, raw |-> call[c].raw,
                         attrs |-> [a \in Attrs |-> IF with(a) = {} THEN None
                                                    ELSE (CHOOSE e \in with(a) : TRUE).attrs[a]]]
  BY <1>2 DEF UniqueValues
<1> HIDE DEF with
<1>6. data[i] \in Entry
  BY <1>1
<1>7. data[i].id \in Nat
  BY <1>6 DEF Entry
<1> QED
  BY <1>1, <1>4, <1>5, <1>7 DEF DumpType

-----------------------------------------------------------------------------
(* Every step of a task has this shape. *)
LEMMA Rests ==
    ASSUME BaseType, NEW t \in Tasks
    PROVE  /\ idx' = idx => Changes(idx, idx', t, Ids)
           /\ pc' = pc => Changes(pc, pc', t, CachedLocations)
           /\ col' = col => Changes(col, col', t, 1..4)
           /\ try' = try => Changes(try, try', t, 1..3)
           /\ sps' = sps => Changes(sps, sps', t, SpsType)
           /\ dump' = dump => Changes(dump, dump', t, DumpType)
           /\ tx' = tx => Changes(tx, tx', t, TxRow \cup {NoRow})
BY BaseParts DEF Changes

LEMMA ColAlters ==
    ASSUME BaseType, NEW t \in Tasks, NEW n \in 1..4, col' = [col EXCEPT ![t] = n]
    PROVE  Changes(col, col', t, 1..4) /\ col'[t] = n
BY BaseParts, ChangedAt

LEMMA TryAlters ==
    ASSUME BaseType, NEW t \in Tasks, NEW n \in 1..3, try' = [try EXCEPT ![t] = n]
    PROVE  Changes(try, try', t, 1..3) /\ try'[t] = n
BY BaseParts, ChangedAt

LEMMA DumpAlters ==
    ASSUME BaseType, NEW t \in Tasks, NEW d \in DumpType, dump' = [dump EXCEPT ![t] = d]
    PROVE  Changes(dump, dump', t, DumpType) /\ dump'[t] = d
BY BaseParts, ChangedAt

LEMMA TxAlters ==
    ASSUME BaseType, NEW t \in Tasks, NEW x \in TxRow \cup {NoRow}, tx' = [tx EXCEPT ![t] = x]
    PROVE  Changes(tx, tx', t, TxRow \cup {NoRow}) /\ tx'[t] = x
BY BaseParts, ChangedAt

LEMMA AssignsPayload ==
    ASSUME BaseType, NEW t \in Tasks, NEW n \in Nat, sps' = [sps EXCEPT ![t].payload_id = n]
    PROVE  Changes(sps, sps', t, SpsType) /\ sps'[t].payload_id = n /\ sps'[t].ids = sps[t].ids
<1>1. sps \in [Tasks -> SpsType]
  BY BaseParts
<1>2. [sps[t] EXCEPT !.payload_id = n] \in SpsType
  BY <1>1 DEF SpsType
<1>3. sps' = [sps EXCEPT ![t] = [sps[t] EXCEPT !.payload_id = n]]
  OBVIOUS
<1>4. Changes(sps, sps', t, SpsType) /\ sps'[t] = [sps[t] EXCEPT !.payload_id = n]
  BY ONLY <1>1, <1>2, <1>3, t \in Tasks, ChangedAt
<1> QED
  BY ONLY <1>1, <1>4, t \in Tasks DEF SpsType

LEMMA AssignsId ==
    ASSUME BaseType, NEW t \in Tasks, NEW n \in Nat, NEW c \in Columns, sps' = [sps EXCEPT ![t].ids[c] = n]
    PROVE  /\ Changes(sps, sps', t, SpsType) /\ sps'[t].payload_id = sps[t].payload_id
           /\ sps'[t].ids = [sps[t].ids EXCEPT ![c] = n]
<1>1. sps \in [Tasks -> SpsType]
  BY BaseParts
<1>2. [sps[t] EXCEPT !.ids[c] = n] \in SpsType
  BY <1>1 DEF SpsType
<1>3. sps' = [sps EXCEPT ![t] = [sps[t] EXCEPT !.ids[c] = n]]
  OBVIOUS
<1>4. Changes(sps, sps', t, SpsType) /\ sps'[t] = [sps[t] EXCEPT !.ids[c] = n]
  BY ONLY <1>1, <1>2, <1>3, t \in Tasks, ChangedAt
<1> QED
  BY ONLY <1>1, <1>4, t \in Tasks DEF SpsType

LEMMA FailMoves ==
    ASSUME BaseType, NEW t \in Tasks, Fail(t)
    PROVE  Moves(t, "next", idx[t] + 1)
BY FinishMoves DEF Fail

LEMMA NextMoves ==
    ASSUME BaseType, NEW t \in Tasks, NextColumn(t), col[t] <= 3
    PROVE  Moves(t, "column", idx[t]) /\ Changes(col, col', t, 1..4) /\ col'[t] = col[t] + 1
<1>1. Moves(t, "column", idx[t])
  BY GotoMoves DEF NextColumn, CachedLocations, Locations
<1>2. col' = [col EXCEPT ![t] = col[t] + 1] /\ col[t] + 1 \in 1..4
  BY BaseParts DEF NextColumn
<1> QED
  BY <1>1, <1>2, ColAlters

LEMMA AfterColumnMoves ==
    ASSUME BaseType, NEW t \in Tasks, AfterColumn(t), col[t] <= 3
    PROVE  /\ \/ col[t] < 3 /\ Moves(t, "column", idx[t])
              \/ col[t] = 3 /\ Moves(t, "insert", idx[t])
           /\ Changes(col, col', t, 1..4) /\ col'[t] = col[t] + 1
           /\ Changes(try, try', t, 1..3)
<1>1. CASE col[t] < 3
  BY <1>1, NextMoves, Rests DEF AfterColumn
<1>2. CASE col[t] = 3
  <2>1. col' = [col EXCEPT ![t] = 4] /\ try' = [try EXCEPT ![t] = 1] /\ Goto(t, "insert")
    BY <1>2 DEF AfterColumn
  <2>2. Moves(t, "insert", idx[t])
    BY <2>1, GotoMoves DEF CachedLocations, Locations
  <2>3. Changes(col, col', t, 1..4) /\ col'[t] = 4
    <3>1. col' = [col EXCEPT ![t] = 4] /\ 4 \in 1..4
      BY <2>1
    <3>2. col \in [Tasks -> 1..4]
      BY BaseParts
    <3> QED
      BY ONLY <3>1, <3>2, t \in Tasks DEF Changes
  <2>4. Changes(try, try', t, 1..3)
    <3>1. try' = [try EXCEPT ![t] = 1] /\ 1 \in 1..3
      BY <2>1
    <3>2. try \in [Tasks -> 1..3]
      BY BaseParts
    <3> QED
      BY ONLY <3>1, <3>2, t \in Tasks DEF Changes
  <2> QED
    BY <1>2, <2>2, <2>3, <2>4
<1> QED
  BY <1>1, <1>2, BaseParts

LEMMA RetryMoves ==
    ASSUME BaseType, NEW t \in Tasks, NEW n \in 1..3, Retry(t, n)
    PROVE  Moves(t, "insert", idx[t]) /\ Changes(try, try', t, 1..3)
<1>1. Moves(t, "insert", idx[t])
  BY GotoMoves DEF Retry, CachedLocations, Locations
<1> QED
  BY <1>1, TryAlters DEF Retry

LEMMA RejectedMoves ==
    ASSUME BaseType, NEW t \in Tasks, Rejected(t)
    PROVE  /\ Changes(try, try', t, 1..3)
           /\ \/ Moves(t, "partition", idx[t]) \/ Moves(t, "insert", idx[t])
              \/ Moves(t, "next", idx[t] + 1)
<1>1. CASE try[t] = 1 /\ Goto(t, "partition") /\ UNCHANGED <<try, count>>
  BY <1>1, GotoMoves, Rests DEF CachedLocations, Locations
<1>2. CASE try[t] = 2 /\ Retry(t, 3) /\ UNCHANGED count
  BY <1>2, RetryMoves
<1>3. CASE try[t] = 3 /\ Fail(t) /\ UNCHANGED try
  BY <1>3, FailMoves, Rests
<1> QED
  BY <1>1, <1>2, <1>3 DEF Rejected

(* Where the steps of a task may lead, and from where. *)
Targets(t) ==
    \/ pc'[t] \in {"done", "dead", "get"} /\ pc[t] = "next" /\ idx'[t] = idx[t]
    \/ pc'[t] = "next" /\ idx'[t] = idx[t] + 1
    \/ pc'[t] \notin {"next", "done", "dead"} /\ pc[t] \notin Idle /\ idx'[t] = idx[t]

LEMMA SharedShape ==
    ASSUME BaseType, NEW t \in Tasks, CachedWorking(t), SharedStep(t)
    PROVE  Shape(t) /\ Targets(t)
<1>0. UNCHANGED <<dump, tx>>
  BY DEF SharedStep
<1>1. CASE TakeMessage(t)
  <2>1. sps' = [sps EXCEPT ![t] = EmptySps] /\ EmptySps \in SpsType
    BY <1>1 DEF TakeMessage, Reset, EmptySps, SpsType
  <2>2. Changes(sps, sps', t, SpsType)
    BY <2>1, BaseParts, ChangedAt
  <2>3. \/ Moves(t, "next", idx[t] + 1)
        \/ (Moves(t, "dead", idx[t]) \/ Moves(t, "get", idx[t])) /\ pc[t] = "next"
    BY <1>1, FinishMoves, GotoMoves DEF TakeMessage, CachedLocations, Locations
  <2> QED
    BY <1>0, <1>1, <2>2, <2>3, Rests DEF TakeMessage, Shape, Targets, Moves
<1>2. CASE EndOfBatch(t)
  <2>1. Moves(t, "done", idx[t]) /\ pc[t] = "next"
    BY <1>2, GotoMoves DEF EndOfBatch, CachedLocations, Locations
  <2> QED
    BY <1>0, <1>2, <2>1, Rests DEF EndOfBatch, Shape, Targets, Moves
<1>3. CASE InsertStatus(t)
  <2>1. \/ Moves(t, "next", idx[t] + 1) /\ UNCHANGED try
        \/ Rejected(t)
    BY <1>3, FinishMoves DEF InsertStatus
  <2>2. pc[t] \notin Idle /\ UNCHANGED <<batch, col, sps>>
    BY <1>3 DEF InsertStatus
  <2> QED
    BY <1>0, <2>1, <2>2, RejectedMoves, Rests DEF Shape, Targets, Moves
<1>4. CASE CheckPartition(t) \/ CreateTable(t)
  <2>1. pc[t] \notin Idle /\ UNCHANGED <<batch, col, sps>>
    BY <1>4 DEF CheckPartition, CreateTable
  <2>2. (\E n \in 1..3 : Retry(t, n)) \/ (Goto(t, "create_table") /\ UNCHANGED try)
    BY <1>4 DEF CheckPartition, CreateTable
  <2>3. /\ Moves(t, "insert", idx[t]) \/ Moves(t, "create_table", idx[t])
        /\ Changes(try, try', t, 1..3)
    BY <2>2, RetryMoves, GotoMoves, Rests DEF CachedLocations, Locations
  <2> QED
    BY <1>0, <2>1, <2>3, Rests DEF Shape, Targets, Moves
<1> QED
  BY <1>1, <1>2, <1>3, <1>4 DEF SharedStep

LEMMA GotoNamed ==
    ASSUME BaseType, NEW t \in Tasks
    PROVE  /\ Goto(t, "get") => Moves(t, "get", idx[t])
           /\ Goto(t, "set") => Moves(t, "set", idx[t])
           /\ Goto(t, "reget") => Moves(t, "reget", idx[t])
           /\ Goto(t, "create") => Moves(t, "create", idx[t])
           /\ Goto(t, "add") => Moves(t, "add", idx[t])
           /\ Goto(t, "hset") => Moves(t, "hset", idx[t])
           /\ Goto(t, "commit") => Moves(t, "commit", idx[t])
           /\ Goto(t, "commit_name") => Moves(t, "commit_name", idx[t])
           /\ Goto(t, "recheck") => Moves(t, "recheck", idx[t])
           /\ Goto(t, "insert") => Moves(t, "insert", idx[t])
           /\ Goto(t, "create_table") => Moves(t, "create_table", idx[t])
           /\ Goto(t, "partition") => Moves(t, "partition", idx[t])
<1>1. /\ {"get", "set", "reget", "create", "add", "hset", "commit", "commit_name", "recheck",
          "insert", "create_table", "partition"} \subseteq CachedLocations
  BY DEF CachedLocations, Locations
<1> QED
  BY <1>1, GotoMoves

LEMMA TakeDumpShape ==
    ASSUME BaseType, CacheType, NEW t \in Tasks, TakeDump(t), call[Coroutine(t)].data # <<>>
    PROVE  /\ Changes(dump, dump', t, DumpType) /\ Changes(sps, sps', t, SpsType)
           /\ Moves(t, "set", idx[t])
           /\ dump'[t] = UniqueValues(Coroutine(t))
           /\ sps'[t].payload_id = UniqueValues(Coroutine(t)).id /\ sps'[t].ids = sps[t].ids
<1>1. Coroutine(t) \in Clients
  BY CacheAssumption DEF Coroutine, Clients
<1>2. UniqueValues(Coroutine(t)) \in DumpType /\ UniqueValues(Coroutine(t)).id \in Nat
  BY <1>1, UniqueIs DEF DumpType
<1>3. Moves(t, "set", idx[t])
  BY GotoNamed DEF TakeDump
<1>4. Changes(dump, dump', t, DumpType) /\ dump'[t] = UniqueValues(Coroutine(t))
  BY <1>2, DumpAlters DEF TakeDump
<1> QED
  BY <1>2, <1>3, <1>4, AssignsPayload DEF TakeDump

LEMMA LookupShape ==
    ASSUME BaseType, CacheType, NEW t \in Tasks,
           CachedGet(t) \/ CachedReget(t) \/ CachedGetFails(t) \/ CallCache(t)
    PROVE  Shape(t) /\ Targets(t)
<1>1. CASE CachedGet(t)
  <2>1. pc[t] = "get" /\ UNCHANGED <<batch, col, try, tx>>
    BY <1>1 DEF CachedGet, Returned, Elsewhere
  <2>2. \/ call[Coroutine(t)].data # <<>> /\ TakeDump(t)
        \/ Moves(t, "create", idx[t]) /\ UNCHANGED <<dump, sps>>
    BY <1>1, GotoNamed DEF CachedGet
  <2> QED
    BY <2>1, <2>2, TakeDumpShape, Rests DEF Shape, Targets, Moves
<1>2. CASE CachedReget(t)
  <2>1. pc[t] = "reget" /\ UNCHANGED <<batch, try, tx>>
    BY <1>2 DEF CachedReget, Returned, Elsewhere
  <2>2. \/ call[Coroutine(t)].data # <<>> /\ TakeDump(t) /\ UNCHANGED col
        \/ StartColumns(t) /\ UNCHANGED <<dump, sps>>
    BY <1>2 DEF CachedReget
  <2> QED
    BY <2>1, <2>2, TakeDumpShape, StartMoves, Rests DEF Shape, Targets, Moves
<1>3. CASE CachedGetFails(t)
  BY <1>3, FailMoves, Rests DEF CachedGetFails, Elsewhere, Shape, Targets, Moves
<1>4. CASE CallCache(t)
  <2>1. pc[t] \in Calling /\ UNCHANGED <<batch, idx, pc, col, try, sps, dump, tx>>
    BY <1>4 DEF CallCache, Elsewhere, Calling
  <2> QED
    BY <2>1, Rests DEF Shape, Targets, Calling
<1> QED
  BY <1>1, <1>2, <1>3, <1>4

LEMMA AfterSetShape ==
    ASSUME BaseType, NEW t \in Tasks, AfterSet(t)
    PROVE  /\ Changes(sps, sps', t, SpsType) /\ Changes(col, col', t, 1..4)
           /\ IF tx[t] # NoRow THEN Moves(t, "commit", idx[t]) /\ UNCHANGED <<sps, col>>
              ELSE /\ Moves(t, "column", idx[t]) /\ col'[t] = 1
                   /\ sps'[t].payload_id = dump[t].id /\ sps'[t].ids = sps[t].ids
<1>1. CASE tx[t] # NoRow
  BY <1>1, GotoNamed, Rests DEF AfterSet
<1>2. CASE tx[t] = NoRow
  <2>1. sps' = [sps EXCEPT ![t].payload_id = dump[t].id] /\ dump[t].id \in Nat /\ StartColumns(t)
    BY <1>2, BaseParts DEF AfterSet, UsePayload, DumpType
  <2> QED
    BY <1>2, <2>1, StartMoves, AssignsPayload
<1> QED
  BY <1>1, <1>2

LEMMA RollbackShape ==
    ASSUME BaseType, NEW t \in Tasks, Rollback(t)
    PROVE  Changes(tx, tx', t, TxRow \cup {NoRow}) /\ tx'[t] = NoRow /\ Moves(t, "reget", idx[t])
BY GotoNamed, TxAlters DEF Rollback

LEMMA SetShape ==
    ASSUME BaseType, NEW t \in Tasks, CachedSet(t)
    PROVE  Shape(t) /\ Targets(t)
<1>1. pc[t] = "set" /\ UNCHANGED <<batch, try, dump>>
  BY DEF CachedSet, Elsewhere
<1>2. \/ Goto(t, "set") /\ UNCHANGED <<sps, col, tx>>
      \/ AfterSet(t) /\ UNCHANGED tx
      \/ Rollback(t) /\ UNCHANGED <<sps, col>>
      \/ Fail(t) /\ UNCHANGED <<sps, col, tx>>
  BY DEF CachedSet
<1>3. CASE Goto(t, "set") /\ UNCHANGED <<sps, col, tx>>
  BY <1>1, <1>3, GotoNamed, Rests DEF Shape, Targets, Moves
<1>4. CASE AfterSet(t) /\ UNCHANGED tx
  <2>1. Changes(tx, tx', t, TxRow \cup {NoRow})
    BY <1>4, Rests
  <2> QED
    BY <1>1, <1>4, <2>1, AfterSetShape, Rests DEF Shape, Targets, Moves
<1>5. CASE Rollback(t) /\ UNCHANGED <<sps, col>>
  BY <1>1, <1>5, RollbackShape, Rests DEF Shape, Targets, Moves
<1>6. CASE Fail(t) /\ UNCHANGED <<sps, col, tx>>
  BY <1>1, <1>6, FailMoves, Rests DEF Shape, Targets, Moves
<1> QED
  BY <1>2, <1>3, <1>4, <1>5, <1>6

LEMMA InsertShape ==
    ASSUME BaseType, NEW t \in Tasks, CachedWorking(t), InsertPayload(t)
    PROVE  Shape(t) /\ Targets(t)
<1> DEFINE id == nextId["payloads"] + 1
           row == [table |-> "payloads", key |-> Msg(t).request_id, id |-> id]
           new == [EmptyDump EXCEPT !.id = id, !.raw = TRUE]
<1>1. pc[t] = "create" /\ UNCHANGED <<batch, col, try>>
  BY DEF InsertPayload, Elsewhere
<1>2. nextId["payloads"] \in Nat /\ id \in Ids
  BY DEF BaseType, Tables
<1>3. row \in TxRow /\ new \in DumpType
  <2>1. Msg(t).request_id \in RequestIds
    BY <1>1, MessageIs DEF Message
  <2>2. row \in TxRow
    BY <1>2, <2>1 DEF TxRow, Tables
  <2>3. EmptyDump \in DumpType
    BY DEF EmptyDump, DumpType
  <2>4. ASSUME NEW n \in Ids PROVE [EmptyDump EXCEPT !.id = n, !.raw = TRUE] \in DumpType
    BY ONLY <2>3, n \in Ids DEF DumpType
  <2> QED
    BY <1>2, <2>2, <2>4
<1>4. \/ /\ tx' = [tx EXCEPT ![t] = row] /\ sps' = [sps EXCEPT ![t].payload_id = id]
         /\ dump' = [dump EXCEPT ![t] = new] /\ Goto(t, "set")
      \/ Goto(t, "reget") /\ UNCHANGED <<tx, sps, dump>>
  BY DEF InsertPayload
<1> HIDE DEF id, row, new
<1>5. CASE /\ tx' = [tx EXCEPT ![t] = row] /\ sps' = [sps EXCEPT ![t].payload_id = id]
           /\ dump' = [dump EXCEPT ![t] = new] /\ Goto(t, "set")
  <2>1. Changes(tx, tx', t, TxRow \cup {NoRow}) /\ Changes(dump, dump', t, DumpType)
    BY <1>3, <1>5, TxAlters, DumpAlters
  <2>2. Changes(sps, sps', t, SpsType) /\ Moves(t, "set", idx[t])
    BY <1>2, <1>5, AssignsPayload, GotoNamed
  <2> QED
    BY <1>1, <2>1, <2>2, Rests DEF Shape, Targets, Moves
<1>6. CASE Goto(t, "reget") /\ UNCHANGED <<tx, sps, dump>>
  BY <1>1, <1>6, GotoNamed, Rests DEF Shape, Targets, Moves
<1> QED
  BY <1>4, <1>5, <1>6

LEMMA CommitShape ==
    ASSUME BaseType, NEW t \in Tasks, CommitPayload(t)
    PROVE  Shape(t) /\ Targets(t)
<1>1. pc[t] = "commit" /\ UNCHANGED <<batch, try, sps, dump>>
  BY DEF CommitPayload, Elsewhere
<1>2. \/ tx' = [tx EXCEPT ![t] = NoRow] /\ StartColumns(t)
      \/ Rollback(t) /\ UNCHANGED col
  BY DEF CommitPayload
<1>3. CASE tx' = [tx EXCEPT ![t] = NoRow] /\ StartColumns(t)
  BY <1>1, <1>3, TxAlters, StartMoves, Rests DEF Shape, Targets, Moves
<1>4. CASE Rollback(t) /\ UNCHANGED col
  BY <1>1, <1>4, RollbackShape, Rests DEF Shape, Targets, Moves
<1> QED
  BY <1>2, <1>3, <1>4

LEMMA ListedIs ==
    ASSUME CacheType, NEW c \in Columns, NEW r \in redisNames[c]
    PROVE  r.id \in Ids /\ r.name \in Names /\ r = [id |-> r.id, name |-> r.name]
<1>1. r \in NameRow
  BY DEF CacheType, CacheTypeOK
<1> QED
  BY <1>1 DEF NameRow

(* The id is that of a row which Redis lists under the name. *)
AssignsFrom(t) ==
    \E r \in redisNames[Column(t)] :
        /\ r.name = Name(t, Column(t)) /\ sps'[t].payload_id = sps[t].payload_id
        /\ sps'[t].ids = [sps[t].ids EXCEPT ![Column(t)] = r.id]

LEMMA AssignShape ==
    ASSUME BaseType, CacheType, NEW t \in Tasks, col[t] <= 3,
           \E r \in redisNames[Column(t)] : r.name = Name(t, Column(t)) /\ Assign(t, r.id)
    PROVE  Changes(sps, sps', t, SpsType) /\ AssignsFrom(t)
<1>1. PICK r \in redisNames[Column(t)] : r.name = Name(t, Column(t)) /\ Assign(t, r.id)
  OBVIOUS
<1>2. Column(t) \in Columns
  BY ColumnIs
<1>3. r.id \in Nat
  BY <1>2, ListedIs
<1>4. sps' = [sps EXCEPT ![t].ids[Column(t)] = r.id]
  BY <1>1 DEF Assign
<1>5. /\ Changes(sps, sps', t, SpsType) /\ sps'[t].payload_id = sps[t].payload_id
      /\ sps'[t].ids = [sps[t].ids EXCEPT ![Column(t)] = r.id]
  BY ONLY BaseType, t \in Tasks, <1>2, <1>3, <1>4, AssignsId
<1> QED
  BY <1>1, <1>5 DEF AssignsFrom

LEMMA ColumnShape ==
    ASSUME BaseType, CacheType, NEW t \in Tasks, CachedWorking(t), CachedColumn(t) \/ CachedRecheck(t)
    PROVE  Shape(t) /\ Targets(t)
<1>1. pc[t] \notin Idle /\ col[t] <= 3 /\ UNCHANGED <<batch, dump, tx>>
  BY DEF CachedColumn, CachedRecheck, CachedWorking, Elsewhere, Resolving, AtName
<1>2. \/ AfterColumn(t) /\ UNCHANGED sps
      \/ AfterColumn(t) /\ \E r \in redisNames[Column(t)] : r.name = Name(t, Column(t)) /\ Assign(t, r.id)
      \/ Goto(t, "add") /\ UNCHANGED <<col, try, sps>>
      \/ Fail(t) /\ UNCHANGED <<col, try, sps>>
  BY DEF CachedColumn, CachedRecheck
<1>3. CASE AfterColumn(t) /\ UNCHANGED sps
  BY <1>1, <1>3, AfterColumnMoves, Rests DEF Shape, Targets, Moves
<1>4. CASE AfterColumn(t) /\ \E r \in redisNames[Column(t)] : r.name = Name(t, Column(t)) /\ Assign(t, r.id)
  BY <1>1, <1>4, AfterColumnMoves, AssignShape, Rests DEF Shape, Targets, Moves
<1>5. CASE Goto(t, "add") /\ UNCHANGED <<col, try, sps>>
  BY <1>1, <1>5, GotoNamed, Rests DEF Shape, Targets, Moves
<1>6. CASE Fail(t) /\ UNCHANGED <<col, try, sps>>
  BY <1>1, <1>6, FailMoves, Rests DEF Shape, Targets, Moves
<1> QED
  BY <1>2, <1>3, <1>4, <1>5, <1>6

LEMMA InsertNameShape ==
    ASSUME BaseType, NEW t \in Tasks, CachedWorking(t), InsertName(t)
    PROVE  Shape(t) /\ Targets(t)
<1> DEFINE row == [table |-> Column(t), key |-> Name(t, Column(t)), id |-> nextId[Column(t)] + 1]
<1>1. pc[t] = "add" /\ UNCHANGED <<batch, col, try, sps, dump>>
  BY DEF InsertName, Elsewhere
<1>2. row \in TxRow
  <2>1. col[t] <= 3 /\ Name(t, Column(t)) # None
    BY <1>1 DEF CachedWorking, Resolving, AtName
  <2>2. Column(t) \in Columns /\ Column(t) \in Tables
    BY <2>1, ColumnIs
  <2>3. nextId[Column(t)] \in Nat
    BY <2>2 DEF BaseType
  <2>4. Name(t, Column(t)) \in Names
    BY <1>1, <2>1, <2>2, MessageIs
  <2> QED
    BY <2>2, <2>3, <2>4 DEF TxRow
<1>3. \/ tx' = [tx EXCEPT ![t] = row] /\ Goto(t, "hset")
      \/ Goto(t, "recheck") /\ UNCHANGED tx
  BY DEF InsertName
<1> HIDE DEF row
<1>4. CASE tx' = [tx EXCEPT ![t] = row] /\ Goto(t, "hset")
  BY <1>1, <1>2, <1>4, TxAlters, GotoNamed, Rests DEF Shape, Targets, Moves
<1>5. CASE Goto(t, "recheck") /\ UNCHANGED tx
  BY <1>1, <1>5, GotoNamed, Rests DEF Shape, Targets, Moves
<1> QED
  BY <1>3, <1>4, <1>5

LEMMA HsetShape ==
    ASSUME BaseType, NEW t \in Tasks, CachedWorking(t), TxTrue(t), HsetName(t)
    PROVE  Shape(t) /\ Targets(t)
<1>1. pc[t] = "hset" /\ col[t] <= 3 /\ UNCHANGED <<batch, col, try, dump>>
  BY DEF HsetName, Elsewhere, CachedWorking, Resolving, AtName
<1>2. Column(t) \in Columns /\ tx[t].id \in Nat
  BY <1>1, ColumnIs, BaseParts DEF TxTrue, TxRow
<1>3. \/ Assign(t, tx[t].id) /\ Goto(t, "commit_name") /\ UNCHANGED tx
      \/ CloseName(t) /\ Goto(t, "recheck") /\ UNCHANGED sps
  BY DEF HsetName
<1>4. CASE Assign(t, tx[t].id) /\ Goto(t, "commit_name") /\ UNCHANGED tx
  BY <1>1, <1>2, <1>4, AssignsId, GotoNamed, Rests DEF Assign, Shape, Targets, Moves
<1>5. CASE CloseName(t) /\ Goto(t, "recheck") /\ UNCHANGED sps
  BY <1>1, <1>5, TxAlters, GotoNamed, Rests DEF CloseName, Shape, Targets, Moves
<1> QED
  BY <1>3, <1>4, <1>5

LEMMA CommitNameShape ==
    ASSUME BaseType, NEW t \in Tasks, CachedWorking(t), CommitName(t)
    PROVE  Shape(t) /\ Targets(t)
<1>1. pc[t] = "commit_name" /\ col[t] <= 3 /\ CloseName(t) /\ UNCHANGED <<batch, sps, dump>>
  BY DEF CommitName, Elsewhere, CachedWorking, Resolving, AtName
<1>2. Changes(tx, tx', t, TxRow \cup {NoRow})
  BY <1>1, TxAlters DEF CloseName
<1>3. \/ AfterColumn(t)
      \/ Goto(t, "recheck") /\ UNCHANGED <<col, try>>
  BY DEF CommitName
<1>4. CASE AfterColumn(t)
  BY <1>1, <1>2, <1>4, AfterColumnMoves, Rests DEF Shape, Targets, Moves
<1>5. CASE Goto(t, "recheck") /\ UNCHANGED <<col, try>>
  BY <1>1, <1>2, <1>5, GotoNamed, Rests DEF Shape, Targets, Moves
<1> QED
  BY <1>3, <1>4, <1>5

LEMMA StepShape ==
    ASSUME BaseType, CacheType, NEW t \in Tasks, CachedWorking(t), TxTrue(t), CachedStep(t)
    PROVE  Shape(t) /\ Targets(t)
BY SharedShape, LookupShape, SetShape, InsertShape, CommitShape, ColumnShape, InsertNameShape,
   HsetShape, CommitNameShape DEF CachedStep

-----------------------------------------------------------------------------
(* Which step changes what. *)
Frames(t) ==
    /\ batch' = batch
    /\ payloads' = payloads \/ CommitPayload(t)
    /\ names' = names \/ CommitName(t)
    /\ statuses' = statuses \/ InsertStatus(t)
    /\ partitions' = partitions \/ CreateTable(t)
    /\ nextId' = nextId \/ InsertPayload(t) \/ InsertName(t)
    /\ updates' = updates \/ CachedSet(t)
    /\ redisNames' = redisNames \/ HsetName(t)
    /\ metric' = metric \/ CachedColumn(t) \/ CachedRecheck(t) \/ CommitName(t)
    /\ UNCHANGED <<pointer, lists>> \/ CallCache(t) \/ CachedSet(t)
    /\ call' = call \/ CallCache(t) \/ CachedGet(t) \/ CachedReget(t) \/ CachedGetFails(t) \/ CachedSet(t)
    /\ tx' = tx \/ InsertPayload(t) \/ CommitPayload(t) \/ InsertName(t) \/ HsetName(t) \/ CommitName(t)
                \/ CachedSet(t)
    /\ expiries' = expiries

LEMMA StepFrames ==
    ASSUME NEW t \in Tasks, CachedStep(t)
    PROVE  Frames(t)
<1>1. CASE SharedStep(t)
  <2>1. UNCHANGED <<cacheVars, metric, dump, tx>>
    BY <1>1 DEF SharedStep
  <2>2. CASE TakeMessage(t)
    BY <2>1, <2>2 DEF TakeMessage, dbVars, memVars, cacheVars, Frames
  <2>3. CASE EndOfBatch(t)
    BY <2>1, <2>3 DEF EndOfBatch, dbVars, memVars, cacheVars, Frames
  <2>4. CASE InsertStatus(t)
    <3>1. UNCHANGED <<payloads, names, partitions, nextId, memVars, batch>>
      BY <2>4 DEF InsertStatus
    <3> QED
      BY <2>1, <2>4, <3>1 DEF memVars, cacheVars, Frames
  <2>5. CASE CheckPartition(t)
    BY <2>1, <2>5 DEF CheckPartition, dbVars, memVars, cacheVars, Frames
  <2>6. CASE CreateTable(t)
    <3>1. UNCHANGED <<payloads, names, statuses, nextId, memVars, batch>>
      BY <2>6 DEF CreateTable
    <3> QED
      BY <2>1, <2>6, <3>1 DEF memVars, cacheVars, Frames
  <2> QED
    BY <1>1, <2>2, <2>3, <2>4, <2>5, <2>6 DEF SharedStep
<1>2. CASE CallCache(t)
  <2>1. UNCHANGED <<redisNames, expiries>>
    BY <1>2 DEF CallCache, GetStep
  <2>2. UNCHANGED <<Elsewhere, payloads, names, nextId, updates, metric, tx>>
    BY <1>2 DEF CallCache
  <2> QED
    BY <1>2, <2>1, <2>2 DEF Elsewhere, Frames
<1>3. CASE CachedGet(t)
  <2>1. UNCHANGED <<Elsewhere, payloads, names, nextId, updates, pointer, lists, redisNames, expiries,
                    metric, tx>>
    BY <1>3 DEF CachedGet
  <2> QED
    BY <1>3, <2>1 DEF Elsewhere, Frames
<1>4. CASE CachedReget(t)
  <2>1. UNCHANGED <<Elsewhere, payloads, names, nextId, updates, pointer, lists, redisNames, expiries,
                    metric, tx>>
    BY <1>4 DEF CachedReget
  <2> QED
    BY <1>4, <2>1 DEF Elsewhere, Frames
<1>5. CASE CachedGetFails(t)
  <2>1. UNCHANGED <<Elsewhere, payloads, names, nextId, updates, pointer, lists, redisNames, expiries,
                    metric, tx>>
    BY <1>5 DEF CachedGetFails
  <2> QED
    BY <1>5, <2>1 DEF Elsewhere, Frames
<1>6. CASE CachedSet(t)
  <2>1. UNCHANGED <<Elsewhere, payloads, names, nextId, redisNames, expiries, metric>>
    BY <1>6 DEF CachedSet
  <2> QED
    BY <1>6, <2>1 DEF Elsewhere, Frames
<1>7. CASE InsertPayload(t)
  <2>1. UNCHANGED <<Elsewhere, payloads, names, updates, cacheVars, metric>>
    BY <1>7 DEF InsertPayload
  <2> QED
    BY <1>7, <2>1 DEF Elsewhere, cacheVars, Frames
<1>8. CASE CommitPayload(t)
  <2>1. UNCHANGED <<Elsewhere, names, nextId, updates, cacheVars, metric>>
    BY <1>8 DEF CommitPayload
  <2> QED
    BY <1>8, <2>1 DEF Elsewhere, cacheVars, Frames
<1>9. CASE CachedColumn(t) \/ CachedRecheck(t)
  <2>1. UNCHANGED <<Elsewhere, payloads, names, nextId, updates, cacheVars, tx>>
    BY <1>9 DEF CachedColumn, CachedRecheck
  <2> QED
    BY <1>9, <2>1 DEF Elsewhere, cacheVars, Frames
<1>10. CASE InsertName(t)
  <2>1. UNCHANGED <<Elsewhere, payloads, names, updates, cacheVars, metric>>
    BY <1>10 DEF InsertName
  <2> QED
    BY <1>10, <2>1 DEF Elsewhere, cacheVars, Frames
<1>11. CASE HsetName(t)
  <2>1. UNCHANGED <<Elsewhere, payloads, names, nextId, updates, pointer, lists, call, expiries, metric>>
    BY <1>11 DEF HsetName
  <2> QED
    BY <1>11, <2>1 DEF Elsewhere, Frames
<1>12. CASE CommitName(t)
  <2>1. UNCHANGED <<Elsewhere, payloads, nextId, updates, cacheVars>>
    BY <1>12 DEF CommitName
  <2> QED
    BY <1>12, <2>1 DEF Elsewhere, cacheVars, Frames
<1> QED
  BY <1>1, <1>2, <1>3, <1>4, <1>5, <1>6, <1>7, <1>8, <1>9, <1>10, <1>11, <1>12 DEF CachedStep

(* A call that fails is remembered. *)
Faults == faults' \in 0..MaxFaults /\ faulted' \subseteq Tasks \X Ids /\ faulted \subseteq faulted'

LEMMA FaultsAre ==
    ASSUME BaseType
    PROVE  /\ NoFault => Faults
           /\ \A m \in Tasks \X Ids : Fault(m) => Faults /\ m \in faulted'
<1>1. faults \in 0..MaxFaults /\ faulted \subseteq Tasks \X Ids
  BY DEF BaseType
<1> QED
  BY <1>1, ConstantsAssumption DEF NoFault, Fault, faultVars, Faults

LEMMA CallFaultsAre ==
    ASSUME BaseType, NEW c \in Clients, CallFails(c)
    PROVE  Faults /\ (c[2] = 0 => Current(c[1]) \in faulted')
<1>1. faults \in 0..MaxFaults /\ faulted \subseteq Tasks \X Ids /\ c[1] \in Tasks /\ idx[c[1]] \in Ids
  BY DEF BaseType, Clients
<1> QED
  BY <1>1, ConstantsAssumption DEF CallFails, Current, Faults

LEMMA GetFaults ==
    ASSUME BaseType, NEW c \in Clients, GetStep(c)
    PROVE  Faults
<1>1. NoFault \/ CallFails(c)
  BY DEF GetStep, ReadPointer, ReadLength, ReadEntries, LoadNames, LoadRows, SwapHash
<1> QED
  BY <1>1, FaultsAre, CallFaultsAre

LEMMA StepFaults ==
    ASSUME BaseType, NEW t \in Tasks, CachedStep(t)
    PROVE  Faults
<1>1. Current(t) \in Tasks \X Ids /\ Coroutine(t) \in Clients
  BY CacheAssumption DEF BaseType, Current, Coroutine, Clients
<1>2. CASE SharedStep(t)
  <2>1. NoFault \/ Fault(Current(t))
    BY <1>2 DEF SharedStep, TakeMessage, EndOfBatch, InsertStatus, CheckPartition, CreateTable, NoFault, faultVars
  <2> QED
    BY <1>1, <2>1, FaultsAre
<1>3. CASE CallCache(t)
  BY <1>1, <1>3, GetFaults DEF CallCache
<1>4. CASE CachedGet(t) \/ CachedReget(t) \/ CachedGetFails(t)
  BY <1>4, FaultsAre DEF CachedGet, CachedReget, CachedGetFails, NoFault, faultVars
<1>5. CASE CachedSet(t)
  <2>1. NoFault \/ CallFails(Coroutine(t))
    BY <1>5 DEF CachedSet
  <2> QED
    BY <1>1, <2>1, FaultsAre, CallFaultsAre
<1>6. CASE InsertPayload(t) \/ CommitPayload(t) \/ CachedColumn(t) \/ InsertName(t)
  BY <1>1, <1>6, FaultsAre DEF InsertPayload, CommitPayload, CachedColumn, InsertName
<1>7. CASE HsetName(t) \/ CommitName(t) \/ CachedRecheck(t)
  BY <1>1, <1>7, FaultsAre DEF HsetName, CommitName, CachedRecheck
<1> QED
  BY <1>2, <1>3, <1>4, <1>5, <1>6, <1>7 DEF CachedStep

-----------------------------------------------------------------------------
(* The database and the spawned UPDATEs keep their types. *)
OpenName(t) == TxOf(t, Column(t)) /\ NewName(t) \in NameRow /\ Column(t) \in Columns
               /\ NewName(t).name = Name(t, Column(t))

LEMMA OpenNameIs ==
    ASSUME BaseType, NEW t \in Tasks, CachedWorking(t), TxTrue(t), pc[t] \in {"hset", "commit_name"}
    PROVE  OpenName(t)
<1>1. tx[t] \in TxRow
  BY BaseParts DEF TxTrue
<1>2. tx[t].table \in Columns
  BY <1>1 DEF TxTrue, TxOf, TxRow, Tables
<1>3. tx[t].table = Column(t) /\ tx[t].key = Name(t, Column(t))
  BY <1>1, <1>2 DEF TxTrue, TxOf
<1>4. Name(t, Column(t)) # None
  BY DEF CachedWorking, AtName
<1>5. Name(t, Column(t)) \in Names
  BY <1>2, <1>3, <1>4, MessageIs
<1>6. tx[t].id \in Ids
  BY <1>1 DEF TxRow
<1> QED
  BY <1>2, <1>3, <1>5, <1>6 DEF TxTrue, TxOf, OpenName, NewName, NameRow

OpenPayload(t) == TxOf(t, "payloads") /\ tx[t].id \in Ids /\ tx[t].key = Msg(t).request_id

LEMMA OpenPayloadIs ==
    ASSUME BaseType, NEW t \in Tasks, TxTrue(t), pc[t] \in {"set", "commit"}, tx[t] # NoRow
    PROVE  OpenPayload(t)
<1>1. tx[t] \in TxRow
  BY BaseParts
<1>2. tx[t].table = "payloads"
  BY <1>1 DEF TxTrue, TxOf, TxRow, Tables
<1> QED
  BY <1>1, <1>2 DEF TxTrue, TxOf, TxRow, OpenPayload

CommittedRow(t) == [id |-> tx[t].id, request_id |-> tx[t].key, attrs |-> Msg(t).attrs]

LEMMA CommitIs ==
    ASSUME BaseType, NEW t \in Tasks, CachedWorking(t), TxTrue(t), CommitPayload(t)
    PROVE  /\ CommittedRow(t) \in PayloadRow
           /\ payloads' \in {payloads, payloads \cup {CommittedRow(t)}}
           /\ tx'[t] = NoRow
           /\ \/ payloads' = payloads \cup {CommittedRow(t)}
              \/ Fault(Current(t))
<1>1. pc[t] = "commit"
  BY DEF CommitPayload
<1>2. tx[t] # NoRow /\ OpenPayload(t)
  BY <1>1, OpenPayloadIs DEF TxTrue
<1>3. Msg(t).request_id \in RequestIds /\ Msg(t).attrs \in [Attrs -> Values \cup {None}]
  BY <1>1, MessageIs DEF Message
<1>4. tx' = [tx EXCEPT ![t] = NoRow]
  BY DEF CommitPayload, Rollback
<1>5. tx'[t] = NoRow
  BY <1>4, TxAlters
<1> QED
  BY <1>2, <1>3, <1>5 DEF CommitPayload, CommittedRow, PayloadRow, OpenPayload

LEMMA CommitNameIs ==
    ASSUME BaseType, NEW t \in Tasks, CachedWorking(t), TxTrue(t), CommitName(t)
    PROVE  /\ OpenName(t)
           /\ names' \in {names, [names EXCEPT ![Column(t)] = @ \cup {NewName(t)}]}
BY OpenNameIs DEF CommitName

LEMMA RowIs ==
    ASSUME BaseType, NEW t \in Tasks, CachedWorking(t), InsertStatus(t)
    PROVE  /\ statuses' \in {statuses, statuses \cup {Row(t, TRUE)}, statuses \cup {Row(t, FALSE)}}
           /\ statuses' # statuses => Accepted(t)
           /\ Accepted(t) => \A b \in BOOLEAN : Row(t, b) \in StatusRow
<1>1. pc[t] \notin Idle
  BY DEF InsertStatus
<1>2. /\ statuses' \in {statuses, statuses \cup {Row(t, TRUE)}, statuses \cup {Row(t, FALSE)}}
      /\ statuses' # statuses => Accepted(t)
  BY DEF InsertStatus
<1>3. ASSUME Accepted(t), NEW b \in BOOLEAN PROVE Row(t, b) \in StatusRow
  <2>1. sps[t].payload_id \in Ids
    BY <1>3 DEF Accepted, BaseType, PayloadRow
  <2>2. Msg(t).day \in Days
    BY <1>1, MessageIs DEF Message
  <2>3. sps[t].ids \in [Columns -> Nat] /\ idx[t] \in Ids /\ try[t] \in 1..3
    BY DEF BaseType
  <2> QED
    BY <2>1, <2>2, <2>3 DEF Row, StatusRow
<1> QED
  BY <1>2, <1>3

LEMMA UpdateIs ==
    ASSUME BaseType, NEW t \in Tasks, CachedWorking(t), CachedSet(t)
    PROVE  updates' \subseteq Update
<1>1. pc[t] = "set" /\ updates \subseteq Update
  BY DEF CachedSet, BaseType
<1>2. Msg(t).request_id \in RequestIds /\ Msg(t).attrs \in [Attrs -> Values \cup {None}]
  BY <1>1, MessageIs DEF Message
<1>3. updates' = updates \/ UsePayload(t, dump[t])
  BY DEF CachedSet, AfterSet
<1>4. Supplied(t, dump[t]) \in [Attrs -> Values \cup {None}]
  BY <1>2 DEF Supplied
<1>5. idx[t] \in Ids
  BY DEF BaseType
<1> QED
  BY <1>1, <1>2, <1>3, <1>4, <1>5 DEF UsePayload, Update

LEMMA DrawnIs ==
    ASSUME BaseType, NEW t \in Tasks, CachedWorking(t), InsertPayload(t) \/ InsertName(t)
    PROVE  /\ nextId' \in [Tables -> Nat]
           /\ InsertPayload(t) => nextId' = [nextId EXCEPT !["payloads"] = @ + 1]
           /\ InsertName(t) => nextId' = [nextId EXCEPT ![Column(t)] = @ + 1] /\ Column(t) \in Columns
<1>1. nextId \in [Tables -> Nat]
  BY DEF BaseType
<1>2. CASE InsertPayload(t)
  <2>1. nextId' = [nextId EXCEPT !["payloads"] = @ + 1] /\ pc[t] = "create"
    BY <1>2 DEF InsertPayload
  <2>2. nextId' \in [Tables -> Nat]
    BY <1>1, <2>1 DEF Tables
  <2> QED
    BY <2>1, <2>2 DEF InsertName
<1>3. CASE InsertName(t)
  <2>1. Column(t) \in Columns /\ Column(t) \in Tables
    BY <1>3, ColumnIs DEF InsertName, CachedWorking, Resolving, AtName
  <2>2. nextId' = [nextId EXCEPT ![Column(t)] = @ + 1] /\ pc[t] = "add"
    BY <1>3 DEF InsertName
  <2> QED
    BY <1>1, <2>1, <2>2 DEF InsertPayload
<1> QED
  BY <1>2, <1>3

LEMMA BaseStep ==
    ASSUME BaseType, CacheType, NEW t \in Tasks, CachedWorking(t), TxTrue(t), CachedStep(t)
    PROVE  BaseType'
<1>1. Shape(t) /\ Frames(t) /\ Faults
  BY StepShape, StepFrames, StepFaults
<1>2. payloads' \subseteq PayloadRow
  BY <1>1, CommitIs DEF Frames, BaseType
<1>3. names' \in [Columns -> SUBSET NameRow]
  <2>1. names \in [Columns -> SUBSET NameRow]
    BY DEF BaseType
  <2> QED
    BY <1>1, <2>1, CommitNameIs DEF Frames, OpenName
<1>4. statuses' \subseteq StatusRow /\ IsFiniteSet(statuses')
  <2>1. statuses \subseteq StatusRow /\ IsFiniteSet(statuses)
    BY DEF BaseType
  <2>2. \A x : IsFiniteSet(statuses \cup {x})
    BY <2>1, FS_AddElement
  <2>3. CASE statuses' = statuses
    BY <2>1, <2>3
  <2>4. CASE statuses' # statuses
    <3>1. \E b \in BOOLEAN : statuses' = statuses \cup {Row(t, b)} /\ Row(t, b) \in StatusRow
      BY <1>1, <2>4, RowIs DEF Frames
    <3> QED
      BY <2>1, <2>2, <3>1
  <2> QED
    BY <2>3, <2>4
<1>5. partitions' \subseteq Days
  <2>1. partitions \subseteq Days
    BY DEF BaseType
  <2>2. ASSUME CreateTable(t) PROVE Msg(t).day \in Days
    BY <2>2, MessageIs DEF CreateTable, Message
  <2>3. CreateTable(t) => partitions' \in {partitions, partitions \cup {Msg(t).day}}
    BY DEF CreateTable
  <2> QED
    BY <1>1, <2>1, <2>2, <2>3 DEF Frames
<1>6. nextId' \in [Tables -> Nat] /\ updates' \subseteq Update
  BY <1>1, DrawnIs, UpdateIs DEF Frames, BaseType
<1>7. batch' \in [Tasks -> Batches]
  BY <1>1 DEF Frames, BaseType
<1> QED
  BY <1>1, <1>2, <1>3, <1>4, <1>5, <1>6, <1>7 DEF BaseType, Shape, Changes, Faults, SpsType

-----------------------------------------------------------------------------
(* Where the steps of the loop body lead. *)
Landing(t) ==
    \/ pc'[t] \notin Resolving \cup Storing
    \/ pc'[t] = "column" /\ col'[t] <= 3
    \/ pc'[t] \in AtName /\ col'[t] = col[t] /\ col[t] <= 3 /\ Name(t, Column(t)) # None
    \/ pc'[t] \in Storing /\ col'[t] = 4

LEMMA SharedLanding ==
    ASSUME BaseType, NEW t \in Tasks, CachedWorking(t), SharedStep(t)
    PROVE  Landing(t)
<1>1. CASE TakeMessage(t)
  <2>1. Moves(t, "next", idx[t] + 1) \/ Moves(t, "dead", idx[t]) \/ Moves(t, "get", idx[t])
    BY <1>1, FinishMoves, GotoMoves DEF TakeMessage, CachedLocations, Locations
  <2> QED
    BY <2>1 DEF Landing, Moves, Resolving, AtName, Storing
<1>2. CASE EndOfBatch(t)
  <2>1. Moves(t, "done", idx[t])
    BY <1>2, GotoMoves DEF EndOfBatch, CachedLocations, Locations
  <2> QED
    BY <2>1 DEF Landing, Moves, Resolving, AtName, Storing
<1>3. CASE InsertStatus(t)
  <2>1. \/ Moves(t, "next", idx[t] + 1) /\ UNCHANGED try
        \/ Rejected(t)
    BY <1>3, FinishMoves DEF InsertStatus
  <2>2. pc[t] \in Storing /\ UNCHANGED col
    BY <1>3 DEF InsertStatus, Storing
  <2>3. col'[t] = 4
    BY <2>2 DEF CachedWorking
  <2>4. Moves(t, "partition", idx[t]) \/ Moves(t, "insert", idx[t]) \/ Moves(t, "next", idx[t] + 1)
    BY <2>1, RejectedMoves
  <2> QED
    BY <2>3, <2>4 DEF Landing, Moves, Resolving, AtName, Storing
<1>4. CASE CheckPartition(t) \/ CreateTable(t)
  <2>1. pc[t] \in Storing /\ UNCHANGED col
    BY <1>4 DEF CheckPartition, CreateTable, Storing
  <2>2. (\E n \in 1..3 : Retry(t, n)) \/ (Goto(t, "create_table") /\ UNCHANGED try)
    BY <1>4 DEF CheckPartition, CreateTable
  <2>3. Moves(t, "insert", idx[t]) \/ Moves(t, "create_table", idx[t])
    BY <2>2, RetryMoves, GotoNamed
  <2>4. col'[t] = 4
    BY <2>1 DEF CachedWorking
  <2> QED
    BY <2>3, <2>4 DEF Landing, Moves, Storing
<1> QED
  BY <1>1, <1>2, <1>3, <1>4 DEF SharedStep

LEMMA PayloadLanding ==
    ASSUME BaseType, CacheType, NEW t \in Tasks, CachedWorking(t),
           \/ CachedGet(t) \/ CachedReget(t) \/ CachedGetFails(t) \/ CachedSet(t)
           \/ InsertPayload(t) \/ CommitPayload(t) \/ CallCache(t)
    PROVE  Landing(t)
<1>1. \/ Moves(t, "set", idx[t]) \/ Moves(t, "create", idx[t]) \/ Moves(t, "commit", idx[t])
      \/ Moves(t, "reget", idx[t]) \/ Moves(t, "next", idx[t] + 1)
      \/ Moves(t, "column", idx[t]) /\ col'[t] = 1
      \/ pc' = pc /\ pc[t] \in Calling
  <2>1. CASE CachedGet(t)
    <3>1. TakeDump(t) \/ Goto(t, "create")
      BY <2>1 DEF CachedGet
    <3> QED
      BY <3>1, GotoNamed DEF TakeDump
  <2>2. CASE CachedReget(t)
    <3>1. TakeDump(t) \/ StartColumns(t)
      BY <2>2 DEF CachedReget
    <3> QED
      BY <3>1, GotoNamed, StartMoves DEF TakeDump
  <2>3. CASE CachedGetFails(t)
    BY <2>3, FailMoves DEF CachedGetFails
  <2>4. CASE CachedSet(t)
    <3>1. \/ Goto(t, "set") \/ AfterSet(t) \/ Rollback(t) \/ Fail(t)
      BY <2>4 DEF CachedSet
    <3> QED
      BY <3>1, GotoNamed, AfterSetShape, RollbackShape, FailMoves
  <2>5. CASE InsertPayload(t)
    <3>1. Goto(t, "set") \/ Goto(t, "reget")
      BY <2>5 DEF InsertPayload
    <3> QED
      BY <3>1, GotoNamed
  <2>6. CASE CommitPayload(t)
    <3>1. StartColumns(t) \/ Rollback(t)
      BY <2>6 DEF CommitPayload
    <3> QED
      BY <3>1, StartMoves, RollbackShape
  <2>7. CASE CallCache(t)
    BY <2>7 DEF CallCache, Calling
  <2> QED
    BY <2>1, <2>2, <2>3, <2>4, <2>5, <2>6, <2>7
<1> QED
  BY <1>1 DEF Moves, Landing, Resolving, AtName, Storing, Calling

LEMMA NameLanding ==
    ASSUME BaseType, CacheType, NEW t \in Tasks, CachedWorking(t), TxTrue(t),
           CachedColumn(t) \/ CachedRecheck(t) \/ InsertName(t) \/ HsetName(t) \/ CommitName(t)
    PROVE  Landing(t)
<1>1. col[t] <= 3
  BY DEF CachedColumn, CachedRecheck, InsertName, HsetName, CommitName, CachedWorking, Resolving, AtName
<1>2. Name(t, Column(t)) # None \/ CachedColumn(t)
  BY DEF CachedRecheck, InsertName, HsetName, CommitName, CachedWorking, AtName
<1>3. \/ AfterColumn(t) \/ Fail(t)
      \/ /\ Goto(t, "add") \/ Goto(t, "hset") \/ Goto(t, "recheck") \/ Goto(t, "commit_name")
         /\ UNCHANGED col /\ Name(t, Column(t)) # None
  <2>1. CASE CachedColumn(t)
    BY <2>1 DEF CachedColumn
  <2>2. CASE CachedRecheck(t)
    BY <2>2 DEF CachedRecheck
  <2>3. CASE InsertName(t)
    BY <2>3, <1>2 DEF InsertName, CachedColumn
  <2>4. CASE HsetName(t)
    BY <2>4, <1>2 DEF HsetName, CachedColumn
  <2>5. CASE CommitName(t)
    BY <2>5, <1>2 DEF CommitName, CachedColumn
  <2> QED
    BY <2>1, <2>2, <2>3, <2>4, <2>5
<1>4. CASE AfterColumn(t)
  <2>1. \/ Moves(t, "column", idx[t]) /\ col'[t] <= 3
        \/ Moves(t, "insert", idx[t]) /\ col'[t] = 4
    BY <1>1, <1>4, AfterColumnMoves, BaseParts
  <2> QED
    BY <2>1 DEF Moves, Landing, Storing
<1>5. CASE Fail(t)
  <2>1. Moves(t, "next", idx[t] + 1)
    BY <1>5, FailMoves
  <2> QED
    BY <2>1 DEF Moves, Landing, Resolving, AtName, Storing
<1>6. CASE /\ Goto(t, "add") \/ Goto(t, "hset") \/ Goto(t, "recheck") \/ Goto(t, "commit_name")
           /\ UNCHANGED col /\ Name(t, Column(t)) # None
  <2>1. Moves(t, "add", idx[t]) \/ Moves(t, "hset", idx[t]) \/ Moves(t, "recheck", idx[t])
        \/ Moves(t, "commit_name", idx[t])
    BY <1>6, GotoNamed
  <2> QED
    BY <1>1, <1>6, <2>1 DEF Moves, Landing, AtName
<1> QED
  BY <1>3, <1>4, <1>5, <1>6

LEMMA StepLanding ==
    ASSUME BaseType, CacheType, NEW t \in Tasks, CachedWorking(t), TxTrue(t), CachedStep(t)
    PROVE  Landing(t)
BY SharedLanding, PayloadLanding, NameLanding DEF CachedStep

-----------------------------------------------------------------------------
(* Between two messages a task only takes the next one. *)
LEMMA StepStarts ==
    ASSUME NEW t \in Tasks, CachedStep(t)
    PROVE  pc[t] \notin Idle \/ (pc[t] = "next" /\ SharedStep(t) /\ (TakeMessage(t) \/ EndOfBatch(t)))
<1>1. CASE SharedStep(t)
  BY <1>1 DEF SharedStep, TakeMessage, EndOfBatch, InsertStatus, CheckPartition, CreateTable
<1>2. CASE CallCache(t) \/ CachedGet(t) \/ CachedReget(t) \/ CachedGetFails(t) \/ CachedSet(t)
  BY <1>2 DEF CallCache, CachedGet, CachedReget, CachedGetFails, CachedSet, Returned
<1>3. CASE InsertPayload(t) \/ CommitPayload(t)
  BY <1>3 DEF InsertPayload, CommitPayload
<1>4. CASE CachedColumn(t) \/ CachedRecheck(t)
  BY <1>4 DEF CachedColumn, CachedRecheck
<1>5. CASE InsertName(t) \/ HsetName(t) \/ CommitName(t)
  BY <1>5 DEF InsertName, HsetName, CommitName
<1> QED
  BY <1>1, <1>2, <1>3, <1>4, <1>5 DEF CachedStep

(* The position of a task after a step. *)
Position(t) ==
    \/ pc'[t] \in {"done", "dead"} /\ pc[t] = "next" /\ idx'[t] = idx[t]
    \/ pc'[t] = "next" /\ idx'[t] = idx[t] + 1 /\ idx[t] <= Len(batch[t])
    \/ /\ pc'[t] \notin Idle /\ idx'[t] = idx[t] /\ Msg(t).kind = "good" /\ idx[t] <= Len(batch[t])
       /\ pc[t] \notin Idle \/ (pc[t] = "next" /\ pc'[t] = "get")

LEMMA StepPosition ==
    ASSUME BaseType, CacheType, NEW t \in Tasks, CachedWorking(t), TxTrue(t), CachedStep(t)
    PROVE  Position(t)
<1>1. CASE pc[t] \notin Idle
  <2>1. Targets(t)
    BY StepShape
  <2>2. idx[t] <= Len(batch[t]) /\ Msg(t).kind = "good"
    BY <1>1 DEF CachedWorking
  <2> QED
    BY <1>1, <2>1, <2>2 DEF Targets, Position
<1>2. CASE TakeMessage(t)
  <2>1. \/ Moves(t, "next", idx[t] + 1)
        \/ Moves(t, "dead", idx[t])
        \/ Moves(t, "get", idx[t]) /\ Msg(t).kind = "good"
    BY <1>2, FinishMoves, GotoMoves DEF TakeMessage, CachedLocations, Locations
  <2> QED
    BY <1>2, <2>1 DEF TakeMessage, Position, Moves
<1>3. CASE EndOfBatch(t)
  <2>1. Moves(t, "done", idx[t])
    BY <1>3, GotoMoves DEF EndOfBatch, CachedLocations, Locations
  <2> QED
    BY <1>3, <2>1 DEF EndOfBatch, Position, Moves
<1> QED
  BY <1>1, <1>2, <1>3, StepStarts

LEMMA WorkingStep ==
    ASSUME BaseType, CacheType, NEW t \in Tasks, CachedWorking(t), TxTrue(t), CachedStep(t)
    PROVE  CachedWorking(t)'
<1>1. Shape(t) /\ Position(t) /\ Landing(t)
  BY StepShape, StepLanding, StepPosition
<1>2. batch' = batch /\ idx[t] \in Ids /\ Len(batch[t]) \in Nat
  BY <1>1, BatchIs DEF Shape, BaseType
<1>3. idx'[t] <= Len(batch'[t]) + 1
  BY <1>1, <1>2 DEF Position, CachedWorking
<1>4. pc'[t] \notin Idle => idx'[t] <= Len(batch'[t]) /\ Msg(t)'.kind = "good"
  BY <1>1, <1>2 DEF Position, Msg
<1>5. pc'[t] \in Resolving => col'[t] <= 3
  BY <1>1 DEF Landing, Resolving, AtName, Storing
<1>6. pc'[t] \in AtName => Name(t, Column(t))' # None
  <2> SUFFICES ASSUME pc'[t] \in AtName PROVE Name(t, Column(t))' # None
    OBVIOUS
  <2>1. col'[t] = col[t] /\ Name(t, Column(t)) # None
    BY <1>1 DEF Landing, Resolving, AtName, Storing
  <2>2. idx'[t] = idx[t]
    BY <1>1 DEF Position, AtName
  <2> QED
    BY <1>2, <2>1, <2>2 DEF Name, Column, Msg
<1>7. pc'[t] \in Storing => col'[t] = 4
  BY <1>1 DEF Landing, Resolving, AtName, Storing
<1> QED
  BY <1>3, <1>4, <1>5, <1>6, <1>7 DEF CachedWorking

LEMMA WorkingElsewhere ==
    ASSUME BaseType, NEW t \in Tasks, Shape(t), NEW s \in Tasks \ {t}, CachedWorking(s)
    PROVE  CachedWorking(s)'
<1>1. batch' = batch /\ idx'[s] = idx[s] /\ pc'[s] = pc[s] /\ col'[s] = col[s]
  BY DEF Shape, Changes
<1> QED
  BY <1>1 DEF CachedWorking, Msg, Name, Column

-----------------------------------------------------------------------------
(* The clients of the cache keep their types. *)
CallAt == {"idle", "len", "range", "names", "rows", "swap", "done", "failed", "push"}

CallRec(n) == [at : CallAt, hash : 0..n, len : Nat, names : [Columns -> SUBSET NameRow],
               data : Seq(Entry), raw : BOOLEAN]

CacheLists ==
    /\ pointer \in [RequestIds -> 0..Len(lists)] /\ lists \in Seq(Seq(Entry))
    /\ call \in [Clients -> CallRec(Len(lists))]

LEMMA CacheListsAre == CacheType => CacheLists
BY DEF CacheType, CacheTypeOK, CacheLists, CallRec, CallAt

(* What a step of client c does to the cache. *)
ClientStep(c) ==
    /\ CacheLists'
    /\ \A d \in Clients \ {c} : call'[d] = call[d]
    /\ Len(lists) <= Len(lists')
    /\ call'[c].at \in {"len", "range"} => call'[c].hash # NoHash
    /\ redisNames' = redisNames /\ expiries' = expiries

LEMMA NoCallIs == ASSUME NEW n \in Nat PROVE NoCall \in CallRec(n) /\ NoCall.at = "idle" /\ NoCall.hash = NoHash
                                              /\ NoCall.data = <<>> /\ \A k \in Columns : NoCall.names[k] = {}
<1>1. <<>> \in Seq(Entry)
  OBVIOUS
<1> QED
  BY <1>1 DEF NoCall, CallRec, CallAt, NoHash

(* A call that moves on while the lists stay. *)
LEMMA CallMoves ==
    ASSUME CacheType, NEW c \in Clients, NEW v \in CallRec(Len(lists)), call' = [call EXCEPT ![c] = v],
           UNCHANGED <<pointer, lists>>
    PROVE  CacheLists' /\ call'[c] = v /\ (\A d \in Clients \ {c} : call'[d] = call[d]) /\ Len(lists) <= Len(lists')
<1>1. CacheLists
  BY CacheListsAre
<1>2. lists' = lists /\ pointer' = pointer /\ Len(lists) \in Nat
  BY <1>1 DEF CacheLists
<1>3. call \in [Clients -> CallRec(Len(lists))]
  BY <1>1 DEF CacheLists
<1>4. /\ call' \in [Clients -> CallRec(Len(lists))] /\ call'[c] = v
      /\ \A d \in Clients \ {c} : call'[d] = call[d]
  BY ONLY <1>3, c \in Clients, v \in CallRec(Len(lists)), call' = [call EXCEPT ![c] = v]
<1>5. call' \in [Clients -> CallRec(Len(lists'))]
  BY ONLY <1>2, <1>4
<1>6. pointer' \in [RequestIds -> 0..Len(lists')] /\ lists' \in Seq(Seq(Entry))
  BY <1>1, <1>2 DEF CacheLists
<1> QED
  BY <1>2, <1>4, <1>5, <1>6 DEF CacheLists

-----------------------------------------------------------------------------
(* get, read by its results: what the call of a client holds after a step. *)

LEMMA FunctionsAreSeqs == ASSUME NEW S, NEW n \in Nat, NEW f \in [1..n -> S] PROVE f \in Seq(S) /\ Len(f) = n
OBVIOUS

(* Where the locals of a call come from. *)
Named(c, row) == \A k \in Columns : row.ids[k] # NoId => \E n \in call[c].names[k] : n.id = row.ids[k]

FromRows(c) ==
    \A i \in 1..Len(call'[c].data) : \E row \in RowsOf(RequestOf(c)) :
        Named(c, row) /\ call'[c].data[i] = EntryOf(row, call[c].names)

FromList(c) ==
    call[c].hash # NoHash /\ \A i \in 1..Len(call'[c].data) : \E j \in 1..Len(lists[call[c].hash]) :
        call'[c].data[i] = lists[call[c].hash][j]

Swapped(c) ==
    /\ \E list \in Seq(Entry) : /\ lists' = Append(lists, list)
                                /\ \A i \in 1..Len(list) : \E j \in 1..Len(call[c].data) : list[i] = call[c].data[j]
    /\ pointer' = [pointer EXCEPT ![RequestOf(c)] = Len(lists) + 1]

Gets(c) ==
    /\ ClientStep(c)
    /\ call'[c].hash \in {NoHash, pointer[RequestOf(c)], call[c].hash}
    /\ \A k \in Columns : call'[c].names[k] \in {{}, redisNames[k], call[c].names[k]}
    /\ call'[c].data \in {<<>>, call[c].data} \/ FromRows(c) \/ FromList(c)
    /\ UNCHANGED <<pointer, lists>> \/ Swapped(c)

(* A call that moves on and keeps its locals. *)
LEMMA ProceedGets ==
    ASSUME CacheType, NEW c \in Clients, NEW loc \in CallAt \ {"len", "range"}, Proceed(c, loc),
           UNCHANGED <<pointer, lists, redisNames, expiries>>
    PROVE  Gets(c)
<1>1. call[c] \in CallRec(Len(lists)) /\ call \in [Clients -> CallRec(Len(lists))]
  BY CacheListsAre DEF CacheLists
<1> DEFINE v == [call[c] EXCEPT !.at = loc]
<1>2. /\ v \in CallRec(Len(lists)) /\ v.at = loc /\ v.hash = call[c].hash /\ v.names = call[c].names
      /\ v.data = call[c].data
  BY <1>1 DEF CallRec
<1>3. call' = [call EXCEPT ![c] = v]
  BY <1>1 DEF Proceed
<1> HIDE DEF v
<1>4. CacheLists' /\ call'[c] = v /\ (\A d \in Clients \ {c} : call'[d] = call[d]) /\ Len(lists) <= Len(lists')
  BY <1>2, <1>3, CallMoves
<1> QED
  BY <1>2, <1>4 DEF Gets, ClientStep

LEMMA PointerGets ==
    ASSUME CacheType, NEW c \in Clients, RequestOf(c) \in RequestIds, ReadPointer(c),
           UNCHANGED <<pointer, lists, redisNames, expiries>>
    PROVE  Gets(c)
<1> DEFINE h == pointer[RequestOf(c)]
           v == [NoCall EXCEPT !.hash = h, !.at = IF h = NoHash THEN "names" ELSE "len"]
           w == [NoCall EXCEPT !.at = "names"]
<1>1. CacheLists /\ h \in 0..Len(lists) /\ Len(lists) \in Nat
  BY CacheListsAre DEF CacheLists
<1>2. NoCall \in CallRec(Len(lists)) /\ NoCall.hash = NoHash /\ NoCall.data = <<>> /\ \A k \in Columns : NoCall.names[k] = {}
  BY <1>1, NoCallIs
<1>3. /\ v \in CallRec(Len(lists)) /\ v.hash = h /\ v.names = NoCall.names /\ v.data = NoCall.data
      /\ v.at \in {"len", "range"} => v.hash # NoHash
  BY <1>1, <1>2 DEF CallRec, CallAt
<1>4. /\ w \in CallRec(Len(lists)) /\ w.hash = NoCall.hash /\ w.names = NoCall.names /\ w.data = NoCall.data
      /\ w.at = "names"
  BY <1>1, <1>2 DEF CallRec, CallAt
<1>5. call' = [call EXCEPT ![c] = v] \/ call' = [call EXCEPT ![c] = w]
  BY DEF ReadPointer
<1> HIDE DEF v, w
<1>6. /\ CacheLists' /\ call'[c] \in {v, w} /\ (\A d \in Clients \ {c} : call'[d] = call[d])
      /\ Len(lists) <= Len(lists')
  BY <1>3, <1>4, <1>5, CallMoves
<1> QED
  BY <1>2, <1>3, <1>4, <1>6 DEF Gets, ClientStep

LEMMA LengthGets ==
    ASSUME CacheType, NEW c \in Clients, ReadLength(c), UNCHANGED <<pointer, lists, redisNames, expiries>>
    PROVE  Gets(c)
<1>1. CASE CallFails(c) /\ Proceed(c, "names")
  BY <1>1, ProceedGets DEF CallAt
<1>2. CASE call' = [call EXCEPT ![c].at = "range", ![c].len = Len(lists[call[c].hash])]
  <2>1. CacheLists /\ call[c] \in CallRec(Len(lists)) /\ call \in [Clients -> CallRec(Len(lists))]
    BY CacheListsAre DEF CacheLists
  <2>2. call[c].hash # NoHash
    BY DEF ReadLength, At, CacheType
  <2>3. Len(lists[call[c].hash]) \in Nat
    BY <2>1, <2>2 DEF CacheLists, CallRec, NoHash
  <2> DEFINE v == [call[c] EXCEPT !.at = "range", !.len = Len(lists[call[c].hash])]
  <2>4. v \in CallRec(Len(lists)) /\ v.hash = call[c].hash /\ v.names = call[c].names /\ v.data = call[c].data
    BY <2>1, <2>3 DEF CallRec, CallAt
  <2>5. call' = [call EXCEPT ![c] = v]
    BY <1>2, <2>1
  <2> HIDE DEF v
  <2>6. /\ CacheLists' /\ call'[c] = v /\ (\A d \in Clients \ {c} : call'[d] = call[d])
        /\ Len(lists) <= Len(lists')
    BY <2>4, <2>5, CallMoves
  <2> QED
    BY <2>2, <2>4, <2>6 DEF Gets, ClientStep
<1> QED
  BY <1>1, <1>2 DEF ReadLength

LEMMA EntriesGets ==
    ASSUME CacheType, NEW c \in Clients, ReadEntries(c), UNCHANGED <<pointer, lists, redisNames, expiries>>
    PROVE  Gets(c)
<1>1. CASE Proceed(c, "names")
  BY <1>1, ProceedGets DEF CallAt
<1> DEFINE list == lists[call[c].hash]
           n == IF call[c].len \in 1..Len(list) THEN call[c].len ELSE Len(list)
           read == SubSeq(list, 1, n)
<1>2. CASE call' = [call EXCEPT ![c].at = "done", ![c].data = read]
  <2>1. CacheLists /\ call[c] \in CallRec(Len(lists)) /\ call \in [Clients -> CallRec(Len(lists))]
    BY CacheListsAre DEF CacheLists
  <2>2. call[c].hash # NoHash
    BY DEF ReadEntries, At, CacheType
  <2>3. list \in Seq(Entry) /\ Len(list) \in Nat
    BY <2>1, <2>2 DEF CacheLists, CallRec, NoHash
  <2>4. n \in 0..Len(list)
    BY <2>3
  <2> HIDE DEF n
  <2>5. read \in Seq(Entry) /\ \A i \in 1..Len(read) : \E j \in 1..Len(list) : read[i] = list[j]
    <3>1. read \in Seq(Entry) /\ Len(read) = n /\ \A i \in 1..n : read[i] = list[i]
      BY ONLY <2>3, <2>4
    <3> QED
      BY <2>3, <2>4, <3>1
  <2> HIDE DEF read
  <2> DEFINE v == [call[c] EXCEPT !.at = "done", !.data = read]
  <2>6. v \in CallRec(Len(lists)) /\ v.hash = call[c].hash /\ v.names = call[c].names /\ v.data = read /\ v.at = "done"
    BY <2>1, <2>5 DEF CallRec, CallAt
  <2>7. call' = [call EXCEPT ![c] = v]
    BY <1>2, <2>1
  <2> HIDE DEF v, list
  <2>8. /\ CacheLists' /\ call'[c] = v /\ (\A d \in Clients \ {c} : call'[d] = call[d])
        /\ Len(lists) <= Len(lists')
    BY <2>6, <2>7, CallMoves
  <2>9. FromList(c)
    BY <2>2, <2>5, <2>6, <2>8 DEF FromList, list
  <2> QED
    BY <2>6, <2>8, <2>9 DEF Gets, ClientStep
<1> QED
  BY <1>1, <1>2 DEF ReadEntries

LEMMA NamesGets ==
    ASSUME CacheType, NEW c \in Clients, LoadNames(c), UNCHANGED <<pointer, lists, redisNames, expiries>>
    PROVE  Gets(c)
<1>1. CASE Proceed(c, "failed")
  BY <1>1, ProceedGets DEF CallAt
<1>2. CASE call' = [call EXCEPT ![c].at = "rows", ![c].names = redisNames]
  <2>1. /\ CacheLists /\ call[c] \in CallRec(Len(lists)) /\ call \in [Clients -> CallRec(Len(lists))]
        /\ redisNames \in [Columns -> SUBSET NameRow]
    BY CacheListsAre DEF CacheLists, CacheType, CacheTypeOK
  <2> DEFINE v == [call[c] EXCEPT !.at = "rows", !.names = redisNames]
  <2>2. v \in CallRec(Len(lists)) /\ v.hash = call[c].hash /\ v.names = redisNames /\ v.data = call[c].data /\ v.at = "rows"
    BY <2>1 DEF CallRec, CallAt
  <2>3. call' = [call EXCEPT ![c] = v]
    BY <1>2, <2>1
  <2> HIDE DEF v
  <2>4. /\ CacheLists' /\ call'[c] = v /\ (\A d \in Clients \ {c} : call'[d] = call[d])
        /\ Len(lists) <= Len(lists')
    BY <2>2, <2>3, CallMoves
  <2> QED
    BY <2>2, <2>4 DEF Gets, ClientStep
<1> QED
  BY <1>1, <1>2 DEF LoadNames

-----------------------------------------------------------------------------
(* The rows that get reads when the list of the request is empty. *)

LEMMA DaysOfRows ==
    ASSUME NEW rows, IsFiniteSet(rows)
    PROVE  Cardinality({s.day : s \in rows}) \in Nat
<1> DEFINE D == {s.day : s \in rows}
           f == [s \in rows |-> s.day]
<1>1. f \in Surjection(rows, D)
  BY DEF Surjection
<1>2. IsFiniteSet(D)
  BY <1>1, FS_Surjection
<1> QED
  BY <1>2, FS_CardinalityType

LEMMA EntryOfIs ==
    ASSUME BaseType, CacheType, NEW c \in Clients, NEW row \in RowsOf(RequestOf(c)), Named(c, row)
    PROVE  EntryOf(row, call[c].names) \in Entry
<1>1. row \in StatusRow
  BY DEF RowsOf, BaseType
<1>2. \E p \in payloads : p.id = row.payload_id
  BY DEF RowsOf
<1>3. (CHOOSE p \in payloads : p.id = row.payload_id) \in PayloadRow
  BY <1>2 DEF BaseType
<1>4. ASSUME NEW k \in Columns
      PROVE  (IF row.ids[k] = NoId THEN None ELSE (CHOOSE n \in call[c].names[k] : n.id = row.ids[k]).name)
                 \in Names \cup {None}
  <2>1. CASE row.ids[k] # NoId
    <3>1. call[c].names[k] \subseteq NameRow
      BY CallIs
    <3>2. (CHOOSE n \in call[c].names[k] : n.id = row.ids[k]) \in NameRow
      BY <2>1, <3>1 DEF Named
    <3> QED
      BY <2>1, <3>2 DEF NameRow
  <2> QED
    BY <2>1
<1>5. row.payload_id \in Ids /\ row.day \in Days
  BY <1>1 DEF StatusRow
<1>6. (CHOOSE p \in payloads : p.id = row.payload_id).attrs \in [Attrs -> Values \cup {None}]
  BY <1>3 DEF PayloadRow
<1> QED
  BY <1>4, <1>5, <1>6 DEF EntryOf, LabelledId, Entry

LEMMA RowsGets ==
    ASSUME BaseType, CacheType, NEW c \in Clients, LoadRows(c),
           UNCHANGED <<pointer, lists, redisNames, expiries>>
    PROVE  Gets(c)
<1> DEFINE rows == RowsOf(RequestOf(c))
           n == Cardinality({s.day : s \in rows})
<1>1. CASE Proceed(c, "failed")
  BY <1>1, ProceedGets DEF CallAt
<1>2. CASE /\ \A s \in rows : Named(c, s)
           /\ \E f \in Loads(rows) : call' = [call EXCEPT ![c].at = "swap", ![c].raw = TRUE,
                            ![c].data = [i \in DOMAIN f |-> EntryOf(f[i], call[c].names)]]
  <2>1. CacheLists /\ call[c] \in CallRec(Len(lists)) /\ call \in [Clients -> CallRec(Len(lists))]
    BY CacheListsAre DEF CacheLists
  <2>2. n \in Nat
    <3>1. rows \in SUBSET statuses /\ IsFiniteSet(statuses)
      BY DEF RowsOf, BaseType
    <3> HIDE DEF rows
    <3>2. IsFiniteSet(rows)
      BY <3>1, FS_Subset
    <3> QED
      BY <3>2, DaysOfRows
  <2>3. PICK f \in [1..n -> rows] : call' = [call EXCEPT ![c].at = "swap", ![c].raw = TRUE,
                            ![c].data = [i \in DOMAIN f |-> EntryOf(f[i], call[c].names)]]
    BY <1>2 DEF Loads
  <2> HIDE DEF n
  <2> DEFINE data == [i \in 1..n |-> EntryOf(f[i], call[c].names)]
  <2>4. \A i \in 1..n : EntryOf(f[i], call[c].names) \in Entry /\ f[i] \in rows
    BY <1>2, <2>3, EntryOfIs
  <2>5. data \in [1..n -> Entry]
    BY <2>4
  <2>6. data \in Seq(Entry) /\ Len(data) = n
    BY <2>2, <2>5, FunctionsAreSeqs
  <2>7. \A i \in 1..Len(data) : data[i] = EntryOf(f[i], call[c].names)
    BY <2>6
  <2> HIDE DEF data
  <2> DEFINE v == [call[c] EXCEPT !.at = "swap", !.raw = TRUE, !.data = data]
  <2>8. v \in CallRec(Len(lists)) /\ v.hash = call[c].hash /\ v.names = call[c].names /\ v.data = data /\ v.at = "swap"
    BY <2>1, <2>6 DEF CallRec, CallAt
  <2>9. call' = [call EXCEPT ![c] = v]
    BY <2>1, <2>3 DEF data
  <2> HIDE DEF v
  <2>10. /\ CacheLists' /\ call'[c] = v /\ (\A d \in Clients \ {c} : call'[d] = call[d])
         /\ Len(lists) <= Len(lists')
    BY <2>8, <2>9, CallMoves
  <2>11. FromRows(c)
    BY <1>2, <2>4, <2>6, <2>7, <2>8, <2>10 DEF FromRows
  <2> QED
    BY <2>8, <2>10, <2>11 DEF Gets, ClientStep
<1> QED
  BY <1>1, <1>2 DEF LoadRows, Named

(* A sequence of sequences with one more. *)
LEMMA Longer ==
    ASSUME CacheLists, NEW list \in Seq(Entry)
    PROVE  /\ Append(lists, list) \in Seq(Seq(Entry)) /\ Len(Append(lists, list)) = Len(lists) + 1
           /\ \A h \in 1..Len(lists) : Append(lists, list)[h] = lists[h]
           /\ Append(lists, list)[Len(lists) + 1] = list
BY DEF CacheLists

LEMMA SwapGets ==
    ASSUME CacheType, NEW c \in Clients, RequestOf(c) \in RequestIds, SwapHash(c), UNCHANGED <<redisNames, expiries>>
    PROVE  Gets(c)
<1>1. CASE Proceed(c, "failed") /\ UNCHANGED <<pointer, lists>>
  BY <1>1, ProceedGets DEF CallAt
<1> DEFINE data == call[c].data
           list == [i \in DOMAIN data |-> data[Len(data) + 1 - i]]
<1>2. CASE /\ lists' = Append(lists, list) /\ pointer' = [pointer EXCEPT ![RequestOf(c)] = Len(lists) + 1]
           /\ Proceed(c, "done")
  <2>1. CacheLists /\ call[c] \in CallRec(Len(lists)) /\ call \in [Clients -> CallRec(Len(lists))]
    BY CacheListsAre DEF CacheLists
  <2>2. data \in Seq(Entry) /\ Len(data) \in Nat /\ DOMAIN data = 1..Len(data) /\ Len(lists) \in Nat
        /\ pointer \in [RequestIds -> 0..Len(lists)]
    BY <2>1 DEF CallRec, CacheLists
  <2>3. \A i \in 1..Len(data) : Len(data) + 1 - i \in 1..Len(data)
    BY <2>2
  <2>4. list \in [1..Len(data) -> Entry]
    BY <2>2, <2>3
  <2>5. list \in Seq(Entry) /\ Len(list) = Len(data)
    BY <2>2, <2>4, FunctionsAreSeqs
  <2>6. \A i \in 1..Len(list) : \E j \in 1..Len(data) : list[i] = data[j]
    BY <2>2, <2>3, <2>5
  <2> HIDE DEF list
  <2>7. lists' \in Seq(Seq(Entry)) /\ Len(lists') = Len(lists) + 1
    BY <1>2, <2>1, <2>5, Longer
  <2> DEFINE v == [call[c] EXCEPT !.at = "done"]
  <2>8. /\ v \in CallRec(Len(lists)) /\ v.at = "done" /\ v.hash = call[c].hash /\ v.names = call[c].names
        /\ v.data = data
    BY <2>1 DEF CallRec, CallAt
  <2>9. call' = [call EXCEPT ![c] = v]
    BY <1>2, <2>1 DEF Proceed
  <2>10. CallRec(Len(lists)) \subseteq CallRec(Len(lists'))
    <3>1. 0..Len(lists) \subseteq 0..Len(lists')
      BY <2>2, <2>7
    <3> QED
      BY ONLY <3>1 DEF CallRec
  <2> HIDE DEF v
  <2>11. call' \in [Clients -> CallRec(Len(lists'))] /\ call'[c] = v /\ \A d \in Clients \ {c} : call'[d] = call[d]
    BY ONLY <2>1, <2>8, <2>9, <2>10, c \in Clients
  <2>12. pointer' \in [RequestIds -> 0..Len(lists')]
    BY <1>2, <2>2, <2>7
  <2>13. CacheLists'
    BY <2>7, <2>11, <2>12 DEF CacheLists
  <2>14. Swapped(c)
    BY <1>2, <2>5, <2>6 DEF Swapped
  <2> QED
    BY <2>2, <2>7, <2>8, <2>11, <2>13, <2>14 DEF Gets, ClientStep
<1> QED
  BY <1>1, <1>2 DEF SwapHash

LEMMA GetGets ==
    ASSUME BaseType, CacheType, NEW c \in Clients, RequestOf(c) \in RequestIds, GetStep(c)
    PROVE  Gets(c)
BY PointerGets, LengthGets, EntriesGets, NamesGets, RowsGets, SwapGets DEF GetStep

-----------------------------------------------------------------------------
(* Push puts one entry in front of a list. *)
Pushed(m, id) ==
    [date |-> m.day, name |-> m.name, attrs |-> m.attrs, id |-> id, alive |-> TRUE]

LEMMA PushIs ==
    ASSUME CacheLists, NEW c \in Clients, NEW m \in Message, NEW id \in Ids, Push(c, m, id)
    PROVE  /\ lists' \in Seq(Seq(Entry)) /\ Len(lists') = Len(lists) /\ pointer' = pointer
           /\ \A h \in 1..Len(lists) : h # call[c].hash => lists'[h] = lists[h]
           /\ LET h == call[c].hash
              IN  h # NoHash => \A i \in 1..Len(lists'[h]) :
                     \/ lists'[h][i] = Pushed(m, id)
                     \/ \E j \in 1..Len(lists[h]) : lists'[h][i] = lists[h][j]
<1> DEFINE h == call[c].hash
           e == Pushed(m, id)
<1>1. e \in Entry
  BY DEF Pushed, Message, Entry
<1>2. lists' = [lists EXCEPT ![h] = <<e>> \o @] /\ pointer' = pointer
  BY DEF Push, Pushed
<1>3. lists \in Seq(Seq(Entry)) /\ h \in 0..Len(lists)
  BY DEF CacheLists, CallRec
<1> HIDE DEF e, h
<1>4. CASE h = NoHash
  <2>1. lists' = lists
    BY <1>2, <1>3, <1>4 DEF NoHash
  <2> QED
    BY <1>2, <1>3, <1>4, <2>1 DEF h
<1>5. CASE h # NoHash
  <2>1. h \in 1..Len(lists) /\ lists[h] \in Seq(Entry)
    BY <1>3, <1>5 DEF NoHash
  <2> DEFINE new == <<e>> \o lists[h]
  <2>2. <<e>> \in Seq(Entry) /\ Len(<<e>>) = 1 /\ <<e>>[1] = e
    BY <1>1
  <2>3. new \in Seq(Entry) /\ Len(new) = Len(lists[h]) + 1
        /\ \A i \in 1..Len(new) : new[i] = IF i = 1 THEN e ELSE lists[h][i - 1]
    BY <2>1, <2>2, ConcatProperties
  <2>4. Len(lists[h]) \in Nat
    BY <2>1
  <2>5. \A i \in 1..Len(new) : new[i] = e \/ \E j \in 1..Len(lists[h]) : new[i] = lists[h][j]
    <3> SUFFICES ASSUME NEW i \in 1..Len(new), i # 1 PROVE \E j \in 1..Len(lists[h]) : new[i] = lists[h][j]
      BY <2>3
    <3>1. i - 1 \in 1..Len(lists[h]) /\ new[i] = lists[h][i - 1]
      BY <2>3, <2>4
    <3> QED
      BY <3>1
  <2> HIDE DEF new
  <2>6. /\ lists' \in Seq(Seq(Entry)) /\ Len(lists') = Len(lists) /\ lists'[h] = new
        /\ \A k \in 1..Len(lists) : k # h => lists'[k] = lists[k]
    <3>1. lists' = [lists EXCEPT ![h] = new]
      BY <1>2 DEF new
    <3> QED
      BY ONLY <1>3, <2>1, <2>3, <3>1
  <2> QED
    BY <1>2, <1>5, <2>5, <2>6 DEF h, e
<1> QED
  BY <1>4, <1>5

-----------------------------------------------------------------------------
(* Of finitely many dates one is the last. *)
LEMMA LatestIs ==
    ASSUME NEW n \in Nat, NEW f \in [1..n -> Int], NEW J, J \subseteq 1..n, J # {}
    PROVE  \E m \in J : \A j \in J : f[j] <= f[m]
<1> DEFINE Low(k) == {j \in J : j <= k}
           Bad == {k \in Nat : Low(k) # {} /\ ~\E m \in Low(k) : \A j \in Low(k) : f[j] <= f[m]}
<1>0. \A k, j : j \in Low(k) <=> j \in 1..n /\ j \in J /\ j <= k
  OBVIOUS
<1> HIDE DEF Low
<1>1. \A k \in Nat : Low(k) # {} => \E m \in Low(k) : \A j \in Low(k) : f[j] <= f[m]
  <2> SUFFICES ASSUME Bad # {} PROVE FALSE
    OBVIOUS
  <2>1. Bad \subseteq Nat
    OBVIOUS
  <2> HIDE DEF Bad
  <2>2. PICK k \in Bad : \A x \in Bad : k <= x
    BY <2>1, LeastNatural
  <2>3. k \in Nat /\ Low(k) # {} /\ ~\E m \in Low(k) : \A j \in Low(k) : f[j] <= f[m]
    BY <2>2 DEF Bad
  <2>4. PICK i : i \in Low(k)
    BY <2>3
  <2>5. i \in 1..n /\ i <= k
    BY <1>0, <2>4
  <2>6. k - 1 \in Nat /\ k - 1 < k
    BY ONLY <2>3, <2>5, n \in Nat
  <2>7. k - 1 \notin Bad
    BY ONLY <2>2, <2>3, <2>6
  <2>8. \A j \in Low(k) : j = k \/ j \in Low(k - 1)
    BY ONLY <1>0, <2>3, n \in Nat
  <2>9. \A j \in Low(k) : f[j] \in Int
    BY <1>0
  <2>10. CASE Low(k - 1) = {}
    BY <2>3, <2>4, <2>8, <2>9, <2>10
  <2>11. CASE Low(k - 1) # {}
    <3>1. PICK m \in Low(k - 1) : \A j \in Low(k - 1) : f[j] <= f[m]
      BY <2>6, <2>7, <2>11 DEF Bad
    <3>2. m \in Low(k)
      BY ONLY <1>0, <2>3, <3>1, n \in Nat
    <3>3. k \in Low(k)
      BY <2>3, <2>8, <3>1, <3>2
    <3>4. f[k] \in Int /\ f[m] \in Int
      BY <2>9, <3>2, <3>3
    <3>5. CASE f[k] <= f[m]
      BY <2>3, <2>8, <3>1, <3>2, <3>5
    <3>6. CASE f[m] <= f[k]
      <4>1. \A j \in Low(k) : f[j] <= f[k]
        BY ONLY <2>8, <2>9, <3>1, <3>4, <3>6
      <4> QED
        BY <2>3, <3>3, <4>1
    <3> QED
      BY <3>4, <3>5, <3>6
  <2> QED
    BY <2>10, <2>11
<1>2. Low(n) = J
  <2>1. \A j \in J : j \in 1..n /\ j <= n
    OBVIOUS
  <2> QED
    BY ONLY <1>0, <2>1
<1> QED
  BY <1>1, <1>2

LEMMA DatesRange ==
    ASSUME NEW data \in Seq(Entry), NEW E, E \subseteq Entries(data), E # {}
    PROVE  /\ \E a \in E : \A e \in E : e.date <= a.date
           /\ \E b \in E : \A e \in E : b.date <= e.date
           /\ \A e \in E : e \in Entry /\ e.date \in Int
<1> DEFINE n == Len(data)
           J == {j \in 1..n : data[j] \in E}
           f == [j \in 1..n |-> data[j].date]
           g == [j \in 1..n |-> - data[j].date]
<1>1. n \in Nat /\ \A j \in 1..n : data[j] \in Entry
  BY ElementOfSeq, LenProperties
<1>2. \A j \in 1..n : data[j].date \in Int
  BY <1>1, MetricsAssumption DEF Entry
<1>3. \A e \in E : \E j \in J : e = data[j]
  BY <1>1, EntriesAre
<1>4. J \subseteq 1..n /\ J # {}
  BY <1>3
<1>5. \A j \in J : data[j] \in E
  OBVIOUS
<1>6. f \in [1..n -> Int] /\ g \in [1..n -> Int]
  BY <1>2
<1>7. \A j \in 1..n : f[j] = data[j].date /\ g[j] = - data[j].date
  OBVIOUS
<1> HIDE DEF n, J, f, g
<1>8. PICK a \in J : \A j \in J : f[j] <= f[a]
  BY <1>1, <1>4, <1>6, LatestIs
<1>9. PICK b \in J : \A j \in J : g[j] <= g[b]
  BY <1>1, <1>4, <1>6, LatestIs
<1>10. \A e \in E : e.date <= data[a].date
  BY <1>3, <1>4, <1>7, <1>8
<1>11. \A e \in E : data[b].date <= e.date
  <2> SUFFICES ASSUME NEW j \in J PROVE data[b].date <= data[j].date
    BY <1>3
  <2>1. - data[j].date <= - data[b].date /\ data[j].date \in Int /\ data[b].date \in Int
    BY <1>2, <1>4, <1>7, <1>9
  <2> QED
    BY <2>1
<1> QED
  BY <1>1, <1>2, <1>3, <1>4, <1>5, <1>10, <1>11

LEMMA ElapsedIs ==
    ASSUME NEW data \in Seq(Entry), NEW E, E \subseteq Entries(data), E # {}
    PROVE  /\ Elapsed(E) \in Int
           /\ \E a, b \in E : /\ Elapsed(E) = a.date - b.date
                              /\ \A e \in E : b.date <= e.date /\ e.date <= a.date
<1> DEFINE dates == {e.date : e \in E}
           p == CHOOSE d \in dates : \A x \in dates : x <= d
           q == CHOOSE d \in dates : \A x \in dates : d <= x
<1>0. /\ \E a \in E : \A e \in E : e.date <= a.date
      /\ \E b \in E : \A e \in E : b.date <= e.date
  BY DatesRange
<1>1. \E d \in dates : \A x \in dates : x <= d
  BY <1>0
<1>2. \E d \in dates : \A x \in dates : d <= x
  BY <1>0
<1>3. Elapsed(E) = p - q
  BY DEF Elapsed
<1>4. p \in dates /\ \A x \in dates : x <= p
  BY <1>1
<1>5. q \in dates /\ \A x \in dates : q <= x
  BY <1>2
<1> HIDE DEF p, q
<1>6. PICK a \in E : p = a.date
  BY <1>4
<1>7. PICK b \in E : q = b.date
  BY <1>5
<1>8. a.date \in Int /\ b.date \in Int
  BY DatesRange
<1> QED
  BY <1>3, <1>4, <1>5, <1>6, <1>7, <1>8

LEMMA ObservedIs ==
    ASSUME CacheType, NEW m \in Messages
    PROVE  Observed(m) \in Int \cup {None}
<1>1. m \in Clients
  BY CacheAssumption DEF Messages, Clients
<1>2. call[m].data \in Seq(Entry)
  BY <1>1, CallIs
<1>3. OfSource(m) \subseteq Entries(call[m].data)
  BY DEF OfSource, OfService
<1>4. Passed(OfSource(m)) => OfSource(m) # {}
  BY DEF Passed
<1> QED
  BY <1>2, <1>3, <1>4, ElapsedIs DEF Observed

-----------------------------------------------------------------------------
(* Coroutines and metrics tasks as clients of the cache. *)

LEMMA ClientsAre ==
    /\ \A t \in Tasks : Coroutine(t) \in Clients /\ Coroutine(t)[1] = t /\ Coroutine(t)[2] = 0
    /\ \A m \in Messages : m \in Clients /\ m[2] # 0 /\ m[1] \in Tasks /\ \A t \in Tasks : m # Coroutine(t)
    /\ \A c \in Clients : c[1] \in Tasks /\ (c = Coroutine(c[1]) \/ c \in Messages)
BY CacheAssumption DEF Coroutine, Clients, Messages

(* A client that uses the cache does so for a message that there is. *)
LEMMA ActiveRequest ==
    ASSUME BaseType, CacheType, NEW c \in Clients, CachedWorking(c[1]), Active(c)
    PROVE  RequestOf(c) \in RequestIds
<1>1. CASE c[2] = 0
  <2>1. pc[c[1]] \notin Idle
    BY <1>1 DEF Active, Calling
  <2> QED
    BY <1>1, <2>1, MessageIs, ClientsAre DEF RequestOf, Message
<1>2. CASE c[2] # 0
  <2>1. c \in Messages /\ c[2] \in DOMAIN batch[c[1]] /\ c[1] \in Tasks
    BY <1>2, ClientsAre DEF Active, CacheType
  <2>2. batch[c[1]][c[2]] \in Message
    BY <2>1, BatchIs DEF BaseType
  <2> QED
    BY <1>2, <2>2 DEF RequestOf, Message
<1> QED
  BY <1>1, <1>2

(* The call of client c ends. *)
LEMMA EndsIs ==
    ASSUME CacheType, NEW c \in Clients, call' = [call EXCEPT ![c] = NoCall]
    PROVE  /\ call' \in [Clients -> CallRec(Len(lists))] /\ call'[c] = NoCall
           /\ \A d \in Clients \ {c} : call'[d] = call[d]
<1>1. call \in [Clients -> CallRec(Len(lists))] /\ Len(lists) \in Nat
  BY CacheListsAre DEF CacheLists
<1>2. NoCall \in CallRec(Len(lists))
  BY <1>1, NoCallIs
<1> QED
  BY ONLY <1>1, <1>2, c \in Clients, call' = [call EXCEPT ![c] = NoCall]

LEMMA CloseIs ==
    ASSUME CacheType, NEW c \in Clients, call' = [call EXCEPT ![c] = NoCall],
           UNCHANGED <<pointer, lists, redisNames, expiries>>
    PROVE  ClientStep(c) /\ call'[c] = NoCall
<1>1. /\ call' \in [Clients -> CallRec(Len(lists))] /\ call'[c] = NoCall
      /\ \A d \in Clients \ {c} : call'[d] = call[d]
  BY EndsIs
<1>2. CacheLists /\ Len(lists) \in Nat
  BY CacheListsAre DEF CacheLists
<1>3. CacheLists'
  BY <1>1, <1>2 DEF CacheLists
<1>4. NoCall.at = "idle"
  BY DEF NoCall
<1> QED
  BY <1>1, <1>2, <1>3, <1>4 DEF ClientStep

(* What set does to the cache. *)
Sets(t) ==
    LET c == Coroutine(t)
    IN
    /\ ClientStep(c)
    /\ \/ call'[c] = NoCall
       \/ /\ pc'[t] \in Calling /\ call'[c].data = <<>> /\ call'[c].hash = pointer[RequestOf(c)]
          /\ \A k \in Columns : call'[c].names[k] = {}
    /\ UNCHANGED <<pointer, lists>> \/ (Push(c, Msg(t), dump[t].id) /\ AfterSet(t) /\ NoFault)

LEMMA SetSets ==
    ASSUME BaseType, CacheType, NEW t \in Tasks, CachedWorking(t), dump[t].id \in Ids, CachedSet(t)
    PROVE  Sets(t)
<1> DEFINE c == Coroutine(t)
<1>1. c \in Clients /\ CacheLists /\ Len(lists) \in Nat
  BY CacheListsAre, ClientsAre DEF CacheLists
<1>2. pc[t] = "set" /\ UNCHANGED <<redisNames, expiries>>
  BY DEF CachedSet
<1>3. Msg(t) \in Message
  BY <1>2, MessageIs
<1>4. CASE ReadHash(c) /\ Goto(t, "set")
  <2> DEFINE v == [NoCall EXCEPT !.at = "push", !.hash = pointer[RequestOf(c)]]
  <2>1. RequestOf(c) \in RequestIds
    BY <1>3, ClientsAre DEF RequestOf, Message
  <2>2. pointer[RequestOf(c)] \in 0..Len(lists)
    BY <1>1, <2>1 DEF CacheLists
  <2>3. NoCall \in CallRec(Len(lists)) /\ NoCall.data = <<>> /\ \A k \in Columns : NoCall.names[k] = {}
    BY <1>1, NoCallIs
  <2>4. v \in CallRec(Len(lists)) /\ v.at = "push" /\ v.data = NoCall.data /\ v.hash = pointer[RequestOf(c)]
        /\ v.names = NoCall.names
    BY <2>2, <2>3 DEF CallRec, CallAt
  <2>5. call' = [call EXCEPT ![c] = v] /\ UNCHANGED <<pointer, lists>>
    BY <1>4 DEF ReadHash
  <2> HIDE DEF v
  <2>6. CacheLists' /\ call'[c] = v /\ (\A d \in Clients \ {c} : call'[d] = call[d]) /\ Len(lists) <= Len(lists')
    BY <1>1, <2>4, <2>5, CallMoves
  <2>7. pc'[t] \in Calling
    BY <1>4, GotoNamed DEF Moves, Calling
  <2> QED
    BY <1>2, <2>3, <2>4, <2>5, <2>6, <2>7 DEF Sets, ClientStep
<1>5. CASE EndCall(t) /\ UNCHANGED <<pointer, lists>>
  BY <1>1, <1>2, <1>5, CloseIs DEF EndCall, Sets
<1>6. CASE EndCall(t) /\ Push(c, Msg(t), dump[t].id) /\ AfterSet(t) /\ NoFault
  <2>1. lists' \in Seq(Seq(Entry)) /\ Len(lists') = Len(lists) /\ pointer' = pointer
    BY <1>1, <1>3, <1>6, PushIs
  <2>2. /\ call' \in [Clients -> CallRec(Len(lists))] /\ call'[c] = NoCall
        /\ \A d \in Clients \ {c} : call'[d] = call[d]
    BY <1>1, <1>6, EndsIs DEF EndCall
  <2>3. CacheLists'
    BY <1>1, <2>1, <2>2 DEF CacheLists
  <2>4. NoCall.at = "idle"
    BY DEF NoCall
  <2> QED
    BY <1>1, <1>2, <1>6, <2>1, <2>2, <2>3, <2>4 DEF Sets, ClientStep
<1> QED
  BY <1>4, <1>5, <1>6 DEF CachedSet

(* Any step of a task, as the clients of the cache see it. *)
TaskClient(t) ==
    /\ CacheLists' /\ \A d \in Clients \ {Coroutine(t)} : call'[d] = call[d]
    /\ Len(lists) <= Len(lists')
    /\ call'[Coroutine(t)].at \in {"len", "range"} => call'[Coroutine(t)].hash # NoHash
    /\ pc'[t] \notin Calling => call'[Coroutine(t)] = NoCall

LEMMA StepClient ==
    ASSUME BaseType, CacheType, NEW t \in Tasks, CachedWorking(t), TxTrue(t),
           pc[t] = "set" => dump[t].id \in Ids, CachedStep(t)
    PROVE  TaskClient(t)
<1> DEFINE c == Coroutine(t)
<1>1. c \in Clients /\ CacheLists /\ Len(lists) \in Nat /\ Frames(t)
  BY CacheListsAre, ClientsAre, StepFrames DEF CacheLists
<1>2. CASE CallCache(t)
  <2>1. Active(c) /\ GetStep(c) /\ pc' = pc /\ pc[t] \in Calling
    BY <1>2, ClientsAre DEF CallCache, Active, Calling
  <2>2. ClientStep(c)
    BY <1>1, <2>1, ActiveRequest, GetGets, ClientsAre DEF Gets
  <2> QED
    BY <2>1, <2>2 DEF ClientStep, TaskClient
<1>3. CASE CachedGet(t) \/ CachedReget(t) \/ CachedGetFails(t)
  <2>1. EndCall(t) /\ UNCHANGED <<pointer, lists, redisNames, expiries>>
    BY <1>3 DEF CachedGet, CachedReget, CachedGetFails
  <2>2. ClientStep(c) /\ call'[c] = NoCall
    BY <1>1, <2>1, CloseIs DEF EndCall
  <2> QED
    BY <2>2 DEF ClientStep, TaskClient
<1>4. CASE CachedSet(t)
  <2>1. Sets(t)
    BY <1>4, SetSets DEF CachedSet
  <2> QED
    BY <2>1 DEF Sets, ClientStep, TaskClient
<1>5. CASE UNCHANGED <<pointer, lists, call>> /\ ~CallCache(t) /\ ~CachedSet(t) /\ ~CachedGet(t)
           /\ ~CachedReget(t) /\ ~CachedGetFails(t)
  <2>1. pc'[t] \notin Calling => pc[t] \notin Calling
    <3>1. CASE InsertPayload(t)
      BY <3>1 DEF InsertPayload, Calling
    <3>2. CASE pc[t] \notin Calling
      BY <3>2
    <3>3. CASE SharedStep(t)
      BY <3>3 DEF SharedStep, TakeMessage, EndOfBatch, InsertStatus, CheckPartition, CreateTable, Calling
    <3>4. CASE CommitPayload(t) \/ CachedColumn(t) \/ InsertName(t) \/ HsetName(t) \/ CommitName(t) \/ CachedRecheck(t)
      BY <3>4 DEF CommitPayload, CachedColumn, InsertName, HsetName, CommitName, CachedRecheck, Calling
    <3> QED
      BY <1>5, <3>1, <3>3, <3>4 DEF CachedStep
  <2>2. pc[t] \notin Calling => call[c] = NoCall
    BY <1>1, ClientsAre DEF CacheType, Active
  <2>3. call[c].at \in {"len", "range"} => call[c].hash # NoHash
    BY <1>1 DEF CacheType
  <2>4. CacheLists'
    BY <1>1, <1>5 DEF CacheLists
  <2> QED
    BY <1>1, <1>5, <2>1, <2>2, <2>3, <2>4 DEF TaskClient
<1> QED
  BY <1>1, <1>2, <1>3, <1>4, <1>5 DEF Frames

(* The metrics tasks, while a coroutine runs: at most one is spawned. *)
Spawns ==
    /\ metric' \in [Messages -> [at : {"off", "poll", "raised", "end"}, retries : 0..METRIC_FETCH_RETRY_COUNT,
                                 counted : BOOLEAN, elapsed : Int \cup {None}]]
    /\ \A m \in Messages :
          /\ metric'[m].elapsed = metric[m].elapsed
          /\ metric[m].at = "poll" => metric'[m].at = "poll"
          /\ metric'[m].at = "poll" => m[2] \in DOMAIN batch[m[1]]

LEMMA StepSpawns ==
    ASSUME BaseType, CacheType, NEW t \in Tasks, CachedWorking(t), CachedStep(t)
    PROVE  Spawns
<1> DEFINE M == [at : {"off", "poll", "raised", "end"}, retries : 0..METRIC_FETCH_RETRY_COUNT,
                 counted : BOOLEAN, elapsed : Int \cup {None}]
<1>1. metric \in [Messages -> M] /\ \A m \in Messages : metric[m].at = "poll" => m[2] \in DOMAIN batch[m[1]]
  BY DEF CacheType, MetricsTypeOK
<1>2. CASE metric' = metric
  BY <1>1, <1>2 DEF Spawns
<1>3. CASE CachedColumn(t) \/ CachedRecheck(t) \/ CommitName(t)
  <2>1. metric' = metric \/ metric' = [metric EXCEPT ![Current(t)].at = "poll"]
    BY <1>3 DEF CachedColumn, CachedRecheck, CommitName, AfterColumn, Spawn
  <2>2. pc[t] \notin Idle
    BY <1>3 DEF CachedColumn, CachedRecheck, CommitName
  <2>3. Current(t) \in Messages /\ idx[t] \in DOMAIN batch[t]
    BY <2>2, MessageIs
  <2>4. CASE metric' = [metric EXCEPT ![Current(t)].at = "poll"]
    <3> DEFINE n == Current(t)
               v == [metric[n] EXCEPT !.at = "poll"]
    <3>1. v \in M /\ v.at = "poll" /\ v.elapsed = metric[n].elapsed /\ n \in Messages
      BY <1>1, <2>3
    <3>2. metric' = [metric EXCEPT ![n] = v]
      BY <2>4
    <3>3. n[2] \in DOMAIN batch[n[1]]
      BY <2>3 DEF Current
    <3> HIDE DEF v, n
    <3>4. metric' \in [Messages -> M] /\ metric'[n] = v /\ \A m \in Messages \ {n} : metric'[m] = metric[m]
      BY ONLY <1>1, <3>1, <3>2
    <3> QED
      BY <1>1, <3>1, <3>3, <3>4 DEF Spawns
  <2> QED
    BY <1>2, <2>1, <2>4
<1> QED
  BY <1>2, <1>3, StepFrames DEF Frames

LEMMA CacheStep ==
    ASSUME BaseType, CacheType, NEW t \in Tasks, CachedWorking(t), TxTrue(t),
           pc[t] = "set" => dump[t].id \in Ids, CachedStep(t)
    PROVE  CacheType'
<1>1. TaskClient(t) /\ Spawns /\ Frames(t) /\ Shape(t)
  BY StepClient, StepSpawns, StepFrames, StepShape
<1>2. redisNames' \in [Columns -> SUBSET NameRow]
  <2>1. redisNames \in [Columns -> SUBSET NameRow]
    BY DEF CacheType, CacheTypeOK
  <2>2. CASE HsetName(t)
    <3>1. OpenName(t)
      BY <2>2, OpenNameIs DEF HsetName
    <3>2. redisNames' \in {redisNames, [redisNames EXCEPT ![Column(t)] = @ \cup {NewName(t)}]}
      BY <2>2 DEF HsetName
    <3> QED
      BY <2>1, <3>1, <3>2 DEF OpenName
  <2> QED
    BY <1>1, <2>1, <2>2 DEF Frames
<1>3. CacheTypeOK'
  <2>1. expiries' \in 0..MaxExpiries
    BY <1>1 DEF CacheType, CacheTypeOK, Frames
  <2> QED
    BY <1>1, <1>2, <2>1 DEF TaskClient, CacheLists, CallRec, CallAt, CacheTypeOK
<1>4. MetricsTypeOK'
  BY <1>1 DEF Spawns, MetricsTypeOK
<1>5. ASSUME NEW d \in Clients, ~Active(d)' PROVE call'[d] = NoCall
  <2>1. CASE d = Coroutine(t)
    BY <1>1, <1>5, <2>1, ClientsAre DEF TaskClient, Active
  <2>2. CASE d # Coroutine(t)
    <3>1. call'[d] = call[d]
      BY <1>1, <2>2 DEF TaskClient
    <3>2. CASE d \in Messages
      BY <1>1, <1>5, <3>1, <3>2, ClientsAre DEF Spawns, Active, CacheType
    <3>3. CASE d = Coroutine(d[1])
      <4>1. pc'[d[1]] = pc[d[1]] /\ d[2] = 0
        BY <1>1, <2>2, <3>3, ClientsAre DEF Shape, Changes
      <4> QED
        BY <1>5, <3>1, <4>1 DEF Active, CacheType
    <3> QED
      BY <3>2, <3>3, ClientsAre
  <2> QED
    BY <2>1, <2>2
<1>6. ASSUME NEW d \in Clients, call'[d].at \in {"len", "range"} PROVE call'[d].hash # NoHash
  BY <1>1, <1>6 DEF TaskClient, CacheType
<1>7. \A m \in Messages : metric'[m].at = "poll" => m[2] \in DOMAIN batch'[m[1]]
  BY <1>1 DEF Spawns, Frames
<1> QED
  BY <1>3, <1>4, <1>5, <1>6, <1>7 DEF CacheType

-----------------------------------------------------------------------------
(* The steps that are not a task's: metrics tasks, expiry and UPDATEs. *)

MetricRec == [at : {"off", "poll", "raised", "end"}, retries : 0..METRIC_FETCH_RETRY_COUNT,
              counted : BOOLEAN, elapsed : Int \cup {None}]

LEMMA MetricIs == ASSUME CacheType PROVE metric \in [Messages -> MetricRec]
BY DEF CacheType, MetricsTypeOK, MetricRec

(* What a metrics task makes of its answer. *)
Evaluated(m) ==
    /\ metric' \in [Messages -> MetricRec]
    /\ \A n \in Messages \ {m} : metric'[n] = metric[n]
    /\ metric'[m].elapsed = metric[m].elapsed \/ (metric'[m].elapsed = Observed(m) /\ metric[m].at = "poll")

LEMMA MetricAlters ==
    ASSUME CacheType, NEW m \in Messages, NEW v \in MetricRec, metric' = [metric EXCEPT ![m] = v]
    PROVE  /\ metric' \in [Messages -> MetricRec] /\ metric'[m] = v
           /\ \A n \in Messages \ {m} : metric'[n] = metric[n]
BY MetricIs

LEMMA EvaluateIs ==
    ASSUME CacheType, NEW m \in Messages, EvaluateStatusMetrics(m)
    PROVE  Evaluated(m)
<1>1. metric \in [Messages -> MetricRec] /\ metric[m] \in MetricRec /\ metric[m].at = "poll"
  BY MetricIs DEF EvaluateStatusMetrics
<1>2. CASE At(m, "done") /\ Poll(m) /\ CountRetry(m)
  <2> DEFINE v == [metric[m] EXCEPT !.retries = @ + 1]
  <2>1. metric[m].retries < METRIC_FETCH_RETRY_COUNT /\ metric[m].retries \in 0..METRIC_FETCH_RETRY_COUNT
    BY <1>1, <1>2 DEF Poll, MetricRec
  <2>2. v \in MetricRec /\ v.elapsed = metric[m].elapsed
    BY <1>1, <2>1, MetricsAssumption DEF MetricRec
  <2>3. metric' = [metric EXCEPT ![m] = v]
    BY <1>1, <1>2 DEF CountRetry
  <2> HIDE DEF v
  <2> QED
    BY <2>2, <2>3, MetricAlters DEF Evaluated
<1>3. CASE At(m, "failed") /\ metric' = [metric EXCEPT ![m].at = "raised"]
  <2> DEFINE v == [metric[m] EXCEPT !.at = "raised"]
  <2>1. v \in MetricRec /\ v.elapsed = metric[m].elapsed
    BY <1>1 DEF MetricRec
  <2>2. metric' = [metric EXCEPT ![m] = v]
    BY <1>1, <1>3
  <2> HIDE DEF v
  <2> QED
    BY <2>1, <2>2, MetricAlters DEF Evaluated
<1> DEFINE at == IF call[m].data # <<>> /\ OfService(m) = {} THEN "raised" ELSE "end"
           some == call[m].data # <<>>
<1>4. CASE metric' = [metric EXCEPT ![m].at = at, ![m].counted = some, ![m].elapsed = Observed(m)]
  <2> DEFINE v == [metric[m] EXCEPT !.at = at, !.counted = some, !.elapsed = Observed(m)]
  <2>1. Observed(m) \in Int \cup {None} /\ at \in {"raised", "end"} /\ some \in BOOLEAN
    BY ObservedIs
  <2> HIDE DEF at, some
  <2>2. v \in MetricRec /\ v.elapsed = Observed(m)
    BY <1>1, <2>1 DEF MetricRec
  <2>3. metric' = [metric EXCEPT ![m] = v]
    BY <1>1, <1>4
  <2> HIDE DEF v
  <2> QED
    BY <1>1, <2>2, <2>3, MetricAlters DEF Evaluated
<1> QED
  BY <1>2, <1>3, <1>4 DEF EvaluateStatusMetrics

LEMMA MetricsTypes ==
    ASSUME BaseType, CacheType, NEW m \in Messages, CachedWorking(m[1]), MetricsStep(m)
    PROVE  /\ BaseType' /\ CacheType' /\ Faults
           /\ UNCHANGED <<dbVars, memVars, taskVars, dump, tx, redisNames>>
           /\ ClientStep(m)
           /\ \/ Gets(m) /\ metric' = metric
              \/ Evaluated(m) /\ call'[m] = NoCall /\ UNCHANGED <<pointer, lists>>
<1>1. UNCHANGED <<dbVars, memVars, taskVars, dump, tx>> /\ m \in Clients /\ metric[m].at = "poll"
  BY ClientsAre DEF MetricsStep, EvaluateStatusMetrics
<1>2. Active(m) /\ RequestOf(m) \in RequestIds
  BY <1>1, ClientsAre, ActiveRequest DEF Active
<1>3. \/ GetStep(m) /\ metric' = metric
      \/ EvaluateStatusMetrics(m) /\ UNCHANGED <<faultVars, pointer, lists, redisNames, expiries>>
  BY DEF MetricsStep
<1>4. Faults
  BY <1>1, <1>3, GetFaults, FaultsAre DEF NoFault
<1>7. ClientStep(m) /\ (\/ Gets(m) /\ metric' = metric
                        \/ Evaluated(m) /\ call'[m] = NoCall /\ UNCHANGED <<pointer, lists>>)
  <2>1. CASE GetStep(m) /\ metric' = metric
    BY <1>1, <1>2, <2>1, GetGets DEF Gets
  <2>2. CASE EvaluateStatusMetrics(m) /\ UNCHANGED <<faultVars, pointer, lists, redisNames, expiries>>
    <3>1. Evaluated(m)
      BY <2>2, EvaluateIs
    <3>2. call' = [call EXCEPT ![m] = NoCall]
      BY <2>2 DEF EvaluateStatusMetrics
    <3>3. ClientStep(m) /\ call'[m] = NoCall
      BY <1>1, <2>2, <3>2, CloseIs
    <3> QED
      BY <2>2, <3>1, <3>3
  <2> QED
    BY <1>3, <2>1, <2>2
<1>8. redisNames' = redisNames /\ expiries' = expiries
  BY <1>7 DEF ClientStep
<1>9. BaseType'
  BY <1>1, <1>4 DEF BaseType, dbVars, memVars, taskVars, Faults
<1>10. CacheType'
  <2>1. CacheTypeOK'
    BY <1>7, <1>8 DEF CacheType, CacheTypeOK, ClientStep, CacheLists, CallRec, CallAt
  <2>2. metric' \in [Messages -> MetricRec] /\ \A n \in Messages \ {m} : metric'[n] = metric[n]
    BY <1>7, MetricIs DEF Evaluated
  <2>3. MetricsTypeOK'
    BY <2>2 DEF MetricsTypeOK, MetricRec
  <2>4. batch' = batch /\ pc' = pc
    BY <1>1 DEF taskVars
  <2>5. ASSUME NEW d \in Clients, ~Active(d)' PROVE call'[d] = NoCall
    <3>1. CASE d = m
      BY <1>1, <1>7, <2>5, <3>1, ClientsAre DEF Active
    <3>2. CASE d # m
      <4>1. ~Active(d)
        BY <2>2, <2>4, <2>5, <3>2, ClientsAre DEF Active
      <4> QED
        BY <1>7, <3>2, <4>1 DEF ClientStep, CacheType
    <3> QED
      BY <3>1, <3>2
  <2>6. \A d \in Clients : call'[d].at \in {"len", "range"} => call'[d].hash # NoHash
    BY <1>7 DEF ClientStep, CacheType
  <2>7. \A n \in Messages : metric'[n].at = "poll" => n[2] \in DOMAIN batch'[n[1]]
    BY <1>1, <2>2, <2>4 DEF CacheType
  <2> QED
    BY <2>1, <2>3, <2>5, <2>6, <2>7 DEF CacheType
<1> QED
  BY <1>1, <1>4, <1>7, <1>8, <1>9, <1>10

(* A key that expires takes no message to another list, and changes none. *)
Fades ==
    /\ CacheLists' /\ Len(lists') = Len(lists) /\ expiries' \in 0..MaxExpiries
    /\ UNCHANGED <<pointer, redisNames, call>>
    /\ \A h \in 1..Len(lists) : \A i \in 1..Len(lists'[h]) : \E j \in 1..Len(lists[h]) :
          LET e == lists'[h][i] f == lists[h][j]
          IN  e.id = f.id /\ e.date = f.date /\ e.name = f.name /\ e.attrs = f.attrs

LEMMA ExpireFades ==
    ASSUME CacheType, Expire
    PROVE  Fades
<1>1. CacheLists /\ Len(lists) \in Nat /\ lists \in Seq(Seq(Entry))
  BY CacheListsAre DEF CacheLists
<1>2. UNCHANGED <<pointer, redisNames, call>> /\ expiries' \in 0..MaxExpiries
  BY CacheAssumption DEF Expire, CacheType, CacheTypeOK
<1>3. PICK r \in RequestIds : pointer[r] # NoHash /\
          LET h == pointer[r]
          IN /\ lists[h] # <<>>
             /\ \/ lists' = [lists EXCEPT ![h] = <<>>]
                \/ \E i \in 1..Len(lists[h]) :
                      lists[h][i].alive /\ lists' = [lists EXCEPT ![h][i].alive = FALSE]
  BY DEF Expire
<1> DEFINE k == pointer[r]
<1>4. k \in 1..Len(lists) /\ lists[k] \in Seq(Entry)
  BY <1>1, <1>3 DEF CacheLists, NoHash
<1> DEFINE Fine(list) == /\ list \in Seq(Entry)
                         /\ \A i \in 1..Len(list) : \E j \in 1..Len(lists[k]) :
                               LET e == list[i] f == lists[k][j]
                               IN  e.id = f.id /\ e.date = f.date /\ e.name = f.name /\ e.attrs = f.attrs
<1>5. \E list : lists' = [lists EXCEPT ![k] = list] /\ Fine(list)
  <2>1. CASE lists' = [lists EXCEPT ![k] = <<>>]
    <3>1. Fine(<<>>)
      BY EmptySeq
    <3> HIDE DEF Fine
    <3> QED
      BY <2>1, <3>1
  <2>2. ASSUME NEW i \in 1..Len(lists[k]), lists' = [lists EXCEPT ![k][i].alive = FALSE]
        PROVE  \E list : lists' = [lists EXCEPT ![k] = list] /\ Fine(list)
    <3> DEFINE e == [lists[k][i] EXCEPT !.alive = FALSE]
               list == [lists[k] EXCEPT ![i] = e]
    <3>1. lists[k][i] \in Entry
      BY <1>4, ElementOfSeq
    <3>2. /\ e \in Entry /\ e.id = lists[k][i].id /\ e.date = lists[k][i].date
          /\ e.name = lists[k][i].name /\ e.attrs = lists[k][i].attrs
      BY <3>1 DEF Entry
    <3>3. lists' = [lists EXCEPT ![k] = list]
      BY <2>2
    <3> HIDE DEF e
    <3>4. list \in Seq(Entry) /\ Len(list) = Len(lists[k]) /\ \A j \in 1..Len(list) : list[j] = IF j = i THEN e ELSE lists[k][j]
      BY <1>4, <3>2, ExceptSeq
    <3> HIDE DEF list
    <3>5. Fine(list)
      BY <3>2, <3>4
    <3> HIDE DEF Fine, k
    <3> QED
      BY <3>3, <3>5 DEF list
  <2> QED
    BY <1>3, <2>1, <2>2
<1>6. PICK list : lists' = [lists EXCEPT ![k] = list] /\ Fine(list)
  BY <1>5
<1>7. /\ lists' \in Seq(Seq(Entry)) /\ Len(lists') = Len(lists) /\ lists'[k] = list
      /\ \A h \in 1..Len(lists) : h # k => lists'[h] = lists[h]
  BY ONLY <1>1, <1>4, <1>6
<1>8. CacheLists'
  BY <1>1, <1>2, <1>7 DEF CacheLists
<1>9. ASSUME NEW h \in 1..Len(lists), NEW i \in 1..Len(lists'[h])
      PROVE  \E j \in 1..Len(lists[h]) :
                LET e == lists'[h][i] f == lists[h][j]
          IN  e.id = f.id /\ e.date = f.date /\ e.name = f.name /\ e.attrs = f.attrs
  <2>1. CASE h # k
    BY <1>7, <2>1
  <2>2. CASE h = k
    BY <1>6, <1>7, <2>2
  <2> QED
    BY <2>1, <2>2
<1> QED
  BY <1>2, <1>7, <1>8, <1>9 DEF Fades

LEMMA ExpireTypes ==
    ASSUME BaseType, CacheType, Expire, UNCHANGED <<vars, metric, dump, tx>>
    PROVE  BaseType' /\ CacheType'
<1>1. Fades /\ UNCHANGED <<vars, metric, dump, tx>>
  BY ExpireFades
<1>2. BaseType'
  BY <1>1 DEF BaseType, vars, dbVars, memVars, taskVars, faultVars
<1>3. CacheTypeOK'
  BY <1>1 DEF Fades, CacheType, CacheTypeOK, CacheLists, CallRec, CallAt
<1>4. pc' = pc /\ batch' = batch
  BY <1>1 DEF vars, taskVars
<1> QED
  BY <1>1, <1>3, <1>2, <1>4 DEF CacheType, MetricsTypeOK, Fades, Active

(* An UPDATE leaves the ids and request ids of the rows alone. *)
RowsUnique == \A p, q \in payloads : p.id = q.id \/ p.request_id = q.request_id => p = q

Rewrites ==
    /\ RowsUnique => RowsUnique'
    /\ payloads' \subseteq PayloadRow
    /\ \A q \in payloads' : \E p \in payloads : q.id = p.id /\ q.request_id = p.request_id
    /\ \A p \in payloads : \E q \in payloads' : q.id = p.id /\ q.request_id = p.request_id

LEMMA UpdateTypes ==
    ASSUME BaseType, CacheType, NEW u \in updates, RunUpdate(u), UNCHANGED <<cacheVars, metric, dump, tx>>
    PROVE  /\ BaseType' /\ CacheType' /\ Faults /\ (payloads' = payloads \/ Rewrites)
           /\ UNCHANGED <<names, statuses, partitions, nextId, taskVars>>
<1>1. UNCHANGED <<names, statuses, partitions, nextId, taskVars, cacheVars, metric, dump, tx>>
  BY DEF RunUpdate
<1>2. u \in Update /\ payloads \subseteq PayloadRow
  BY DEF BaseType
<1>3. Faults
  <2>1. <<u.task, u.pos>> \in Tasks \X Ids
    BY <1>2 DEF Update
  <2> QED
    BY <2>1, FaultsAre DEF RunUpdate
<1>4. ASSUME payloads' = {Updated(u, p) : p \in payloads} PROVE Rewrites
  <2>1. \A p \in payloads : Updated(u, p) \in PayloadRow /\ Updated(u, p).id = p.id
                              /\ Updated(u, p).request_id = p.request_id
    BY <1>2 DEF Updated, Update, PayloadRow
  <2>2. \A q \in payloads' : \E p \in payloads : q = Updated(u, p)
    BY <1>4
  <2>3. \A p \in payloads : Updated(u, p) \in payloads'
    BY <1>4
  <2>4. payloads' \subseteq PayloadRow
    BY <2>1, <2>2
  <2>5. \A q \in payloads' : \E p \in payloads : q.id = p.id /\ q.request_id = p.request_id
    BY <2>1, <2>2
  <2>6. ASSUME NEW p \in payloads PROVE \E q \in payloads' : q.id = p.id /\ q.request_id = p.request_id
    BY <2>1, <2>3
  <2>7. ASSUME RowsUnique, NEW x \in payloads', NEW y \in payloads', x.id = y.id \/ x.request_id = y.request_id
        PROVE  x = y
    <3>1. PICK p \in payloads : x = Updated(u, p)
      BY <2>2
    <3>2. PICK q \in payloads : y = Updated(u, q)
      BY <2>2
    <3>3. p.id = q.id \/ p.request_id = q.request_id
      BY <2>1, <2>7, <3>1, <3>2
    <3> QED
      BY <2>7, <3>1, <3>2, <3>3 DEF RowsUnique
  <2>8. RowsUnique => RowsUnique'
    BY <2>7 DEF RowsUnique
  <2> QED
    BY <2>4, <2>5, <2>6, <2>8 DEF Rewrites
<1>5. payloads' = payloads \/ Rewrites
  BY <1>4 DEF RunUpdate
<1>6. BaseType'
  <2>1. payloads' \subseteq PayloadRow /\ updates' \subseteq Update
    BY <1>2, <1>5 DEF Rewrites, RunUpdate, BaseType
  <2> QED
    BY <1>1, <1>3, <2>1 DEF BaseType, taskVars, Faults
<1>7. CacheType'
  BY <1>1 DEF CacheType, CacheTypeOK, MetricsTypeOK, Active, taskVars, cacheVars
<1> QED
  BY <1>1, <1>3, <1>5, <1>6, <1>7

-----------------------------------------------------------------------------
(* The database and the Redis hashes only grow, by the row of the open *)
(* transaction of the task that moves.                                 *)
Grows(t) ==
    /\ \A tb \in Tables : nextId[tb] <= nextId'[tb]
    /\ payloads \subseteq payloads'
    /\ \A p \in payloads' : p \in payloads
          \/ (TxOf(t, "payloads") /\ p.id = tx[t].id /\ p.request_id = tx[t].key)
    /\ \A p, q \in payloads' \ payloads : p = q
    /\ \A c \in Columns :
          /\ names[c] \subseteq names'[c] /\ redisNames[c] \subseteq redisNames'[c]
          /\ \A r \in names'[c] : r \in names[c] \/ (TxOf(t, c) /\ r.id = tx[t].id /\ r.name = tx[t].key)
          /\ \A r \in redisNames'[c] : r \in redisNames[c] \/ (TxOf(t, c) /\ r.id = tx[t].id /\ r.name = tx[t].key)
    /\ UNCHANGED <<payloads, names>> \/ tx'[t] = NoRow

LEMMA CloseTx == ASSUME BaseType, NEW t \in Tasks, CommitName(t) PROVE tx'[t] = NoRow
BY TxAlters DEF CommitName, CloseName

LEMMA StepGrows ==
    ASSUME BaseType, CacheType, NEW t \in Tasks, CachedWorking(t), TxTrue(t), CachedStep(t)
    PROVE  Grows(t)
<1>1. Frames(t)
  BY StepFrames
<1>2. \A tb \in Tables : nextId[tb] <= nextId'[tb]
  <2>1. nextId \in [Tables -> Nat]
    BY DEF BaseType
  <2>2. CASE nextId' = nextId
    BY <2>1, <2>2
  <2>3. CASE InsertPayload(t) \/ InsertName(t)
    <3>1. nextId' = [nextId EXCEPT !["payloads"] = @ + 1] \/ nextId' = [nextId EXCEPT ![Column(t)] = @ + 1]
      BY <2>3, DrawnIs
    <3> QED
      BY <2>1, <3>1
  <2> QED
    BY <1>1, <2>2, <2>3 DEF Frames
<1>3. /\ payloads \subseteq payloads'
      /\ \A p \in payloads' : p \in payloads
            \/ (TxOf(t, "payloads") /\ p.id = tx[t].id /\ p.request_id = tx[t].key)
      /\ \A p, q \in payloads' \ payloads : p = q
      /\ payloads' = payloads \/ tx'[t] = NoRow
  <2>1. CASE CommitPayload(t)
    <3>1. TxOf(t, "payloads")
      BY <2>1, OpenPayloadIs DEF CommitPayload, TxTrue, OpenPayload
    <3>2. CommittedRow(t).id = tx[t].id /\ CommittedRow(t).request_id = tx[t].key
      BY DEF CommittedRow
    <3>3. payloads' \in {payloads, payloads \cup {CommittedRow(t)}} /\ tx'[t] = NoRow
      BY <2>1, CommitIs
    <3> QED
      BY <3>1, <3>2, <3>3
  <2> QED
    BY <1>1, <2>1 DEF Frames
<1>4. /\ \A c \in Columns :
            /\ names[c] \subseteq names'[c]
            /\ \A r \in names'[c] : r \in names[c] \/ (TxOf(t, c) /\ r.id = tx[t].id /\ r.name = tx[t].key)
      /\ names' = names \/ tx'[t] = NoRow
  <2>1. names \in [Columns -> SUBSET NameRow]
    BY DEF BaseType
  <2>2. CASE CommitName(t)
    <3>1. OpenName(t) /\ names' \in {names, [names EXCEPT ![Column(t)] = @ \cup {NewName(t)}]} /\ tx'[t] = NoRow
      BY <2>2, CommitNameIs, CloseTx
    <3>2. NewName(t).id = tx[t].id /\ NewName(t).name = tx[t].key
      BY DEF NewName
    <3> QED
      BY <2>1, <3>1, <3>2 DEF OpenName
  <2> QED
    BY <1>1, <2>1, <2>2 DEF Frames
<1>5. \A c \in Columns :
         /\ redisNames[c] \subseteq redisNames'[c]
         /\ \A r \in redisNames'[c] : r \in redisNames[c] \/ (TxOf(t, c) /\ r.id = tx[t].id /\ r.name = tx[t].key)
  <2>1. redisNames \in [Columns -> SUBSET NameRow]
    BY DEF CacheType, CacheTypeOK
  <2>2. CASE HsetName(t)
    <3>1. OpenName(t) /\ redisNames' \in {redisNames, [redisNames EXCEPT ![Column(t)] = @ \cup {NewName(t)}]}
      BY <2>2, OpenNameIs DEF HsetName
    <3>2. NewName(t).id = tx[t].id /\ NewName(t).name = tx[t].key
      BY DEF NewName
    <3> QED
      BY <2>1, <3>1, <3>2 DEF OpenName
  <2> QED
    BY <1>1, <2>1, <2>2 DEF Frames
<1> QED
  BY <1>2, <1>3, <1>4, <1>5 DEF Grows

(* What a step does to the transaction of its task. *)
Closed(t) == tx'[t] = NoRow /\ pc'[t] \notin {"commit", "hset", "commit_name"}

Opened(t) ==
    LET x == tx'[t]
    IN
    /\ x \in TxRow /\ x.id = nextId[x.table] + 1 /\ x.id = nextId'[x.table]
    /\ \A u \in Tasks \ {t} : TxOf(u, x.table) => tx[u].key # x.key
    /\ UNCHANGED <<payloads, names, redisNames>>
    /\ \/ /\ x.table = "payloads" /\ pc[t] = "create" /\ pc'[t] = "set"
          /\ x.key = Msg(t).request_id /\ dump'[t].id = x.id /\ sps'[t].payload_id = x.id
          /\ sps'[t].ids = sps[t].ids
          /\ \A p \in payloads : p.request_id # x.key
       \/ /\ x.table = Column(t) /\ x.table \in Columns /\ pc[t] = "add" /\ pc'[t] = "hset" /\ col' = col
          /\ sps' = sps
          /\ x.key = Name(t, x.table) /\ \A r \in names[x.table] : r.name # x.key

Stays(t) ==
    /\ tx'[t] = tx[t] /\ tx[t] # NoRow /\ UNCHANGED <<payloads, names>>
    /\ \/ pc[t] = "set" /\ pc'[t] \in {"set", "commit"} /\ UNCHANGED <<dump, redisNames>>
       \/ /\ pc[t] = "hset" /\ pc'[t] = "commit_name" /\ UNCHANGED <<col, dump>>
          /\ NewName(t) \in redisNames'[Column(t)] /\ sps'[t].ids[Column(t)] = tx[t].id

LEMMA InsertPayloadTx ==
    ASSUME BaseType, NEW t \in Tasks, CachedWorking(t), InsertPayload(t), tx[t] = NoRow
    PROVE  Closed(t) \/ Opened(t)
<1> DEFINE id == nextId["payloads"] + 1
           row == [table |-> "payloads", key |-> Msg(t).request_id, id |-> id]
           new == [EmptyDump EXCEPT !.id = id, !.raw = TRUE]
<1>1. /\ pc[t] = "create" /\ ~Blocked(t, "payloads", Msg(t).request_id)
      /\ UNCHANGED <<payloads, names, redisNames>>
  BY DEF InsertPayload, cacheVars
<1>2. nextId["payloads"] \in Nat /\ nextId \in [Tables -> Nat] /\ id \in Ids
  BY DEF BaseType, Tables
<1>3. \/ /\ Known(t) = {} /\ tx' = [tx EXCEPT ![t] = row] /\ sps' = [sps EXCEPT ![t].payload_id = id]
         /\ dump' = [dump EXCEPT ![t] = new] /\ Goto(t, "set")
      \/ Goto(t, "reget") /\ UNCHANGED <<tx, sps, dump>>
  BY DEF InsertPayload
<1>4. nextId' = [nextId EXCEPT !["payloads"] = id]
  BY DEF InsertPayload
<1>5. Msg(t).request_id \in RequestIds
  BY <1>1, MessageIs DEF Message
<1>6. row \in TxRow /\ row.table = "payloads" /\ row.key = Msg(t).request_id /\ row.id = id
  BY <1>2, <1>5 DEF TxRow, Tables
<1>7. nextId'["payloads"] = id
  BY <1>2, <1>4 DEF Tables
<1>8. EmptyDump \in DumpType
  BY DEF EmptyDump, DumpType
<1>9. new \in DumpType /\ new.id = id
  <2>1. \A n \in Ids : LET d == [EmptyDump EXCEPT !.id = n, !.raw = TRUE] IN d \in DumpType /\ d.id = n
    BY ONLY <1>8 DEF DumpType
  <2> QED
    BY <1>2, <2>1
<1> HIDE DEF row, new
<1>10. CASE /\ Known(t) = {} /\ tx' = [tx EXCEPT ![t] = row] /\ sps' = [sps EXCEPT ![t].payload_id = id]
            /\ dump' = [dump EXCEPT ![t] = new] /\ Goto(t, "set")
  <2>1. tx'[t] = row
    BY <1>6, <1>10, TxAlters
  <2>2. dump'[t] = new
    BY <1>9, <1>10, DumpAlters
  <2>3. sps'[t].payload_id = id /\ sps'[t].ids = sps[t].ids
    BY <1>2, <1>10, AssignsPayload
  <2>4. pc'[t] = "set"
    BY <1>10, GotoNamed DEF Moves
  <2>5. \A p \in payloads : p.request_id # Msg(t).request_id
    BY <1>10 DEF Known
  <2>6. \A u \in Tasks \ {t} : TxOf(u, "payloads") => tx[u].key # Msg(t).request_id
    BY <1>1 DEF Blocked, TxOf
  <2> QED
    BY <1>1, <1>6, <1>7, <1>9, <2>1, <2>2, <2>3, <2>4, <2>5, <2>6 DEF Opened
<1>11. CASE Goto(t, "reget") /\ UNCHANGED <<tx, sps, dump>>
  BY <1>11, GotoNamed DEF Moves, Closed
<1> QED
  BY <1>3, <1>10, <1>11

LEMMA InsertNameTx ==
    ASSUME BaseType, NEW t \in Tasks, CachedWorking(t), InsertName(t), tx[t] = NoRow
    PROVE  Closed(t) \/ Opened(t)
<1> DEFINE c == Column(t)
           id == nextId[c] + 1
           row == [table |-> c, key |-> Name(t, c), id |-> id]
<1>1. /\ pc[t] = "add" /\ ~Blocked(t, c, Name(t, c)) /\ nextId' = [nextId EXCEPT ![c] = id]
      /\ UNCHANGED <<payloads, names, redisNames, sps, col>>
  BY DEF InsertName, cacheVars
<1>2. \/ ~Lists(names[c], Name(t, c)) /\ tx' = [tx EXCEPT ![t] = row] /\ Goto(t, "hset")
      \/ Goto(t, "recheck") /\ UNCHANGED tx
  BY DEF InsertName
<1>3. col[t] <= 3 /\ Name(t, c) # None
  BY <1>1 DEF CachedWorking, Resolving, AtName
<1>4. c \in Columns /\ c \in Tables /\ c # "payloads"
  BY <1>3, ColumnIs
<1> HIDE DEF c
<1>5. nextId[c] \in Nat /\ nextId \in [Tables -> Nat] /\ id \in Ids
  BY <1>4 DEF BaseType
<1>6. Name(t, c) \in Names
  BY <1>1, <1>3, <1>4, MessageIs
<1>7. row \in TxRow /\ row.table = c /\ row.key = Name(t, c) /\ row.id = id
  BY <1>4, <1>5, <1>6 DEF TxRow
<1>8. nextId'[c] = id
  BY <1>1, <1>4, <1>5
<1> HIDE DEF row
<1>9. CASE ~Lists(names[c], Name(t, c)) /\ tx' = [tx EXCEPT ![t] = row] /\ Goto(t, "hset")
  <2>1. tx'[t] = row
    BY <1>7, <1>9, TxAlters
  <2>2. pc'[t] = "hset"
    BY <1>9, GotoNamed DEF Moves
  <2>3. \A r \in names[c] : r.name # Name(t, c)
    BY <1>9 DEF Lists
  <2>4. \A u \in Tasks \ {t} : TxOf(u, c) => tx[u].key # Name(t, c)
    BY <1>1 DEF Blocked, TxOf
  <2>5. c = Column(t)
    BY DEF c
  <2> QED
    BY <1>1, <1>4, <1>7, <1>8, <2>1, <2>2, <2>3, <2>4, <2>5 DEF Opened
<1>10. CASE Goto(t, "recheck") /\ UNCHANGED tx
  BY <1>10, GotoNamed DEF Moves, Closed
<1> QED
  BY <1>2, <1>9, <1>10

LEMMA HsetTx ==
    ASSUME BaseType, CacheType, NEW t \in Tasks, CachedWorking(t), TxTrue(t), HsetName(t)
    PROVE  Closed(t) \/ Stays(t)
<1>1. pc[t] = "hset" /\ OpenName(t) /\ tx[t] # NoRow /\ UNCHANGED <<payloads, names, col, dump>>
  BY OpenNameIs DEF HsetName, OpenName, TxOf
<1>2. tx[t].id \in Nat
  BY <1>1, BaseParts DEF TxRow
<1>3. \/ /\ redisNames' = [redisNames EXCEPT ![Column(t)] = @ \cup {NewName(t)}] /\ Assign(t, tx[t].id)
         /\ Goto(t, "commit_name") /\ UNCHANGED tx
      \/ CloseName(t) /\ Goto(t, "recheck")
  BY DEF HsetName
<1>4. CASE /\ redisNames' = [redisNames EXCEPT ![Column(t)] = @ \cup {NewName(t)}] /\ Assign(t, tx[t].id)
           /\ Goto(t, "commit_name") /\ UNCHANGED tx
  <2>1. redisNames \in [Columns -> SUBSET NameRow]
    BY DEF CacheType, CacheTypeOK
  <2>2. NewName(t) \in redisNames'[Column(t)]
    BY <1>1, <1>4, <2>1 DEF OpenName
  <2>3. sps'[t].ids = [sps[t].ids EXCEPT ![Column(t)] = tx[t].id]
    BY <1>1, <1>2, <1>4, AssignsId DEF Assign, OpenName
  <2>4. sps[t].ids \in [Columns -> Nat]
    BY BaseParts DEF SpsType
  <2>5. sps'[t].ids[Column(t)] = tx[t].id
    BY <1>1, <2>3, <2>4 DEF OpenName
  <2>6. pc'[t] = "commit_name"
    BY <1>4, GotoNamed DEF Moves
  <2> QED
    BY <1>1, <1>4, <2>2, <2>5, <2>6 DEF Stays
<1>5. CASE CloseName(t) /\ Goto(t, "recheck")
  BY <1>5, GotoNamed, TxAlters DEF CloseName, Moves, Closed
<1> QED
  BY <1>3, <1>4, <1>5

LEMMA SetTx ==
    ASSUME BaseType, CacheType, NEW t \in Tasks, CachedSet(t) \/ CallCache(t), TxTrue(t)
    PROVE  Closed(t) \/ Stays(t)
<1>1. UNCHANGED <<payloads, names, redisNames, dump>>
  BY DEF CachedSet, CallCache, GetStep
<1>2. CASE CallCache(t)
  <2>1. UNCHANGED <<pc, tx>> /\ pc[t] \in {"get", "reget", "set"}
    BY <1>2 DEF CallCache
  <2>2. tx[t] # NoRow => pc[t] = "set"
    BY <2>1, BaseParts DEF TxTrue, TxOf, TxRow, Tables
  <2> QED
    BY <1>1, <2>1, <2>2 DEF Closed, Stays
<1>3. CASE CachedSet(t)
  <2>1. pc[t] = "set"
    BY <1>3 DEF CachedSet
  <2>2. \/ Goto(t, "set") /\ UNCHANGED tx
        \/ AfterSet(t) /\ UNCHANGED tx
        \/ Rollback(t)
        \/ Fail(t) /\ tx[t] = NoRow /\ UNCHANGED tx
    BY <1>3 DEF CachedSet
  <2>3. CASE Goto(t, "set") /\ UNCHANGED tx
    BY <1>1, <2>1, <2>3, GotoNamed DEF Moves, Closed, Stays
  <2>4. CASE AfterSet(t) /\ UNCHANGED tx
    BY <1>1, <2>1, <2>4, AfterSetShape DEF Moves, Closed, Stays
  <2>5. CASE Rollback(t)
    BY <2>5, RollbackShape DEF Moves, Closed
  <2>6. CASE Fail(t) /\ tx[t] = NoRow /\ UNCHANGED tx
    BY <2>6, FailMoves DEF Moves, Closed
  <2> QED
    BY <2>2, <2>3, <2>4, <2>5, <2>6
<1> QED
  BY <1>2, <1>3

LEMMA NoTx ==
    ASSUME BaseType, NEW t \in Tasks, TxTrue(t), pc[t] \notin {"set", "commit", "hset", "commit_name"}
    PROVE  tx[t] = NoRow
BY BaseParts DEF TxTrue, TxOf, TxRow, Tables

LEMMA StepTx ==
    ASSUME BaseType, CacheType, NEW t \in Tasks, CachedWorking(t), TxTrue(t), CachedStep(t)
    PROVE  Closed(t) \/ Opened(t) \/ Stays(t)
<1>1. CASE InsertPayload(t)
  BY <1>1, InsertPayloadTx, NoTx DEF InsertPayload
<1>2. CASE InsertName(t)
  BY <1>2, InsertNameTx, NoTx DEF InsertName
<1>3. CASE HsetName(t) \/ CachedSet(t) \/ CallCache(t)
  BY <1>3, HsetTx, SetTx
<1>4. CASE CommitPayload(t)
  <2>1. StartColumns(t) \/ Rollback(t)
    BY <1>4 DEF CommitPayload
  <2>2. tx'[t] = NoRow
    BY <1>4, CommitIs
  <2> QED
    BY <2>1, <2>2, StartMoves, RollbackShape DEF Moves, Closed
<1>5. CASE CommitName(t)
  <2>1. col[t] <= 3 /\ tx'[t] = NoRow
    BY <1>5, CloseTx DEF CommitName, CachedWorking, Resolving, AtName
  <2>2. AfterColumn(t) \/ Goto(t, "recheck")
    BY <1>5 DEF CommitName
  <2> QED
    BY <2>1, <2>2, AfterColumnMoves, GotoNamed DEF Moves, Closed
<1>6. CASE CachedGet(t) \/ CachedReget(t) \/ CachedGetFails(t)
  <2>1. tx'[t] = NoRow
    BY <1>6, NoTx DEF CachedGet, CachedReget, CachedGetFails, Returned
  <2>2. TakeDump(t) \/ Goto(t, "create") \/ StartColumns(t) \/ Fail(t)
    BY <1>6 DEF CachedGet, CachedReget, CachedGetFails
  <2> QED
    BY <2>1, <2>2, GotoNamed, StartMoves, FailMoves DEF TakeDump, Moves, Closed
<1>7. CASE CachedColumn(t) \/ CachedRecheck(t)
  <2>1. tx'[t] = NoRow /\ col[t] <= 3
    BY <1>7, NoTx DEF CachedColumn, CachedRecheck, CachedWorking, Resolving, AtName
  <2>2. AfterColumn(t) \/ Goto(t, "add") \/ Fail(t)
    BY <1>7 DEF CachedColumn, CachedRecheck
  <2> QED
    BY <2>1, <2>2, GotoNamed, AfterColumnMoves, FailMoves DEF Moves, Closed
<1>8. CASE SharedStep(t)
  <2>1. pc[t] \notin {"set", "commit", "hset", "commit_name"} /\ tx' = tx
    BY <1>8 DEF SharedStep, TakeMessage, EndOfBatch, InsertStatus, CheckPartition, CreateTable
  <2>2. tx'[t] = NoRow
    BY <2>1, NoTx
  <2>3. pc'[t] \notin {"commit", "hset", "commit_name"}
    <3>1. CASE TakeMessage(t)
      BY <3>1, FinishMoves, GotoMoves DEF TakeMessage, CachedLocations, Locations, Moves
    <3>2. CASE EndOfBatch(t)
      BY <3>2, GotoMoves DEF EndOfBatch, CachedLocations, Locations, Moves
    <3>3. CASE InsertStatus(t)
      BY <3>3, FinishMoves, RejectedMoves DEF InsertStatus, Moves
    <3>4. CASE CheckPartition(t) \/ CreateTable(t)
      <4>1. (\E n \in 1..3 : Retry(t, n)) \/ Goto(t, "create_table")
        BY <3>4 DEF CheckPartition, CreateTable
      <4> QED
        BY <4>1, RetryMoves, GotoNamed DEF Moves
    <3> QED
      BY <1>8, <3>1, <3>2, <3>3, <3>4 DEF SharedStep
  <2> QED
    BY <2>2, <2>3 DEF Closed
<1> QED
  BY <1>1, <1>2, <1>3, <1>4, <1>5, <1>6, <1>7, <1>8 DEF CachedStep

-----------------------------------------------------------------------------
(* Committed and open rows stay apart, whichever task moves. *)
World ==
    /\ BaseType /\ CacheType /\ TablesInv
    /\ \A t \in Tasks : CachedWorking(t) /\ TxTrue(t) /\ TxApart(t)
    /\ \A c \in Columns : RedisTrue(c)

LEMMA RowsAre ==
    ASSUME BaseType, CacheType
    PROVE  /\ \A t \in Tasks : tx[t] # NoRow => tx[t] \in TxRow /\ tx[t].id \in Nat /\ tx[t].table \in Tables
           /\ \A p \in payloads : p.id \in Nat
           /\ \A c \in Columns : c \in Tables /\ \A r \in names[c] : r.id \in Nat
           /\ \A c \in Columns : \A r \in redisNames[c] : r.id \in Nat
           /\ \A tb \in Tables : nextId[tb] \in Nat
           /\ "payloads" \in Tables /\ "payloads" \notin Columns
<1>1. \A t \in Tasks : tx[t] # NoRow => tx[t] \in TxRow /\ tx[t].id \in Nat /\ tx[t].table \in Tables
  BY BaseParts DEF TxRow
<1>2. \A p \in payloads : p.id \in Nat
  BY DEF BaseType, PayloadRow
<1>3. \A c \in Columns : c \in Tables /\ \A r \in names[c] : r.id \in Nat
  BY DEF BaseType, NameRow, Tables
<1>4. \A c \in Columns : \A r \in redisNames[c] : r.id \in Nat
  BY DEF CacheType, CacheTypeOK, NameRow
<1> QED
  BY <1>1, <1>2, <1>3, <1>4 DEF BaseType, Tables, Columns

LEMMA TxTrueStep ==
    ASSUME World, NEW t \in Tasks, CachedStep(t)
    PROVE  TxTrue(t)'
<1>1. Shape(t) /\ Position(t) /\ (Closed(t) \/ Opened(t) \/ Stays(t))
  BY StepShape, StepPosition, StepTx DEF World
<1>2. batch' = batch
  BY <1>1 DEF Shape
<1>3. CASE Closed(t)
  BY <1>3 DEF Closed, TxTrue, TxOf
<1>4. ASSUME ~Closed(t) PROVE idx'[t] = idx[t]
  BY <1>1, <1>4 DEF Opened, Stays, Position
<1>5. CASE Opened(t) /\ ~Closed(t)
  <2> DEFINE x == tx'[t]
  <2>1. x # NoRow
    BY <1>5, CachedAssumption DEF Opened
  <2>2. CASE /\ x.table = "payloads" /\ pc'[t] = "set" /\ x.key = Msg(t).request_id /\ dump'[t].id = x.id
    <3>1. Msg(t)' = Msg(t)
      BY <1>2, <1>4, <1>5 DEF Msg
    <3>2. \A c \in Columns : x.table # c
      BY <2>2 DEF Columns
    <3> QED
      BY <2>1, <2>2, <3>1, <3>2 DEF TxTrue, TxOf
  <2>3. CASE /\ x.table = Column(t) /\ x.table \in Columns /\ pc'[t] = "hset" /\ col' = col
             /\ x.key = Name(t, x.table)
    <3>1. Column(t)' = Column(t) /\ \A c \in Columns : Name(t, c)' = Name(t, c)
      BY <1>2, <1>4, <1>5, <2>3 DEF Column, Name, Msg
    <3>2. x.table # "payloads"
      BY <2>3 DEF Columns
    <3> QED
      BY <2>1, <2>3, <3>1, <3>2 DEF TxTrue, TxOf
  <2> QED
    BY <1>5, <2>2, <2>3 DEF Opened
<1>6. CASE Stays(t) /\ ~Closed(t)
  <2>1. Msg(t)' = Msg(t) /\ \A c \in Columns : Name(t, c)' = Name(t, c)
    BY <1>2, <1>4, <1>6 DEF Msg, Name
  <2>2. TxTrue(t)
    BY DEF World
  <2>3. CASE pc[t] = "set" /\ pc'[t] \in {"set", "commit"} /\ UNCHANGED <<dump, redisNames>>
    <3>1. TxOf(t, "payloads") /\ tx[t].table = "payloads" /\ tx[t].key = Msg(t).request_id /\ dump[t].id = tx[t].id
      BY <1>6, <2>2, <2>3, OpenPayloadIs DEF World, Stays, TxTrue, OpenPayload, TxOf
    <3>2. \A c \in Columns : tx[t].table # c
      BY <3>1 DEF Columns
    <3> QED
      BY <1>6, <2>1, <2>3, <3>1, <3>2 DEF Stays, TxTrue, TxOf
  <2>4. CASE /\ pc[t] = "hset" /\ pc'[t] = "commit_name" /\ UNCHANGED <<col, dump>>
             /\ NewName(t) \in redisNames'[Column(t)] /\ sps'[t].ids[Column(t)] = tx[t].id
    <3>1. OpenName(t)
      BY <2>2, <2>4, OpenNameIs DEF World
    <3>2. tx[t].table = Column(t) /\ tx[t].table # "payloads" /\ tx[t].key = Name(t, Column(t))
      BY <3>1 DEF OpenName, TxOf, NewName, Columns
    <3>3. Column(t)' = Column(t) /\ NewName(t)' = NewName(t)
      BY <1>6, <2>4 DEF Stays, Column, NewName
    <3> QED
      BY <1>6, <2>1, <2>4, <3>1, <3>2, <3>3 DEF Stays, TxTrue, TxOf, OpenName
  <2> QED
    BY <1>6, <2>3, <2>4 DEF Stays
<1> QED
  BY <1>1, <1>3, <1>5, <1>6

LEMMA TxTrueElsewhere ==
    ASSUME World, NEW t \in Tasks, Shape(t), Grows(t), NEW s \in Tasks \ {t}
    PROVE  TxTrue(s)'
<1>1. batch' = batch /\ idx'[s] = idx[s] /\ pc'[s] = pc[s] /\ col'[s] = col[s] /\ sps'[s] = sps[s]
      /\ dump'[s] = dump[s] /\ tx'[s] = tx[s]
  BY DEF Shape, Changes
<1>2. Column(s)' = Column(s) /\ NewName(s)' = NewName(s) /\ Msg(s)' = Msg(s) /\ \A c \in Columns : Name(s, c)' = Name(s, c)
  BY <1>1 DEF Column, NewName, Msg, Name
<1>3. pc[s] = "commit_name" => Column(s) \in Columns
  BY ColumnIs DEF World, CachedWorking, Resolving, AtName
<1>4. TxTrue(s)
  BY DEF World
<1> QED
  BY <1>1, <1>2, <1>3, <1>4 DEF TxTrue, TxOf, Grows

(* The row that t is about to commit is unlike all others. *)
LEMMA ApartIs ==
    ASSUME World, NEW t \in Tasks
    PROVE  /\ tx[t] # NoRow => tx[t].id <= nextId[tx[t].table]
           /\ TxOf(t, "payloads") => \A p \in payloads : p.id # tx[t].id /\ p.request_id # tx[t].key
           /\ \A c \in Columns : TxOf(t, c) =>
                 /\ \A r \in names[c] : r.id # tx[t].id /\ r.name # tx[t].key
                 /\ \A r \in redisNames[c] : r.id = tx[t].id => r.name = tx[t].key
           /\ \A u \in Tasks \ {t} : \A tb \in Tables : TxOf(t, tb) /\ TxOf(u, tb) =>
                 tx[u].id # tx[t].id /\ tx[u].key # tx[t].key
<1>1. TxApart(t)
  BY DEF World
<1> QED
  BY <1>1 DEF TxApart, TxOf

LEMMA TablesStep ==
    ASSUME World, NEW t \in Tasks, Grows(t), BaseType'
    PROVE  TablesInv'
<1>1. BaseType /\ CacheType /\ TablesInv
  BY DEF World
<1>2. ASSUME NEW p \in payloads', NEW q \in payloads', p.id = q.id \/ p.request_id = q.request_id
      PROVE  p = q
  <2>1. CASE p \in payloads /\ q \in payloads
    BY <1>1, <1>2, <2>1 DEF TablesInv
  <2>2. CASE p \notin payloads /\ q \notin payloads
    BY <2>2 DEF Grows
  <2>3. CASE p \in payloads /\ q \notin payloads
    BY <1>2, <2>3, ApartIs DEF Grows
  <2>4. CASE p \notin payloads /\ q \in payloads
    BY <1>2, <2>4, ApartIs DEF Grows
  <2> QED
    BY <2>1, <2>2, <2>3, <2>4
<1>3. ASSUME NEW p \in payloads' PROVE p.id <= nextId'["payloads"]
  <2>1. nextId["payloads"] \in Nat /\ nextId'["payloads"] \in Nat /\ nextId["payloads"] <= nextId'["payloads"]
    BY DEF BaseType, Tables, Grows, World
  <2>2. p.id \in Nat
    BY DEF BaseType, PayloadRow
  <2>3. p.id <= nextId["payloads"]
    <3>1. CASE p \in payloads
      BY <1>1, <3>1 DEF TablesInv
    <3>2. CASE TxOf(t, "payloads") /\ p.id = tx[t].id
      BY <3>2, ApartIs DEF TxOf
    <3> QED
      BY <3>1, <3>2 DEF Grows
  <2> QED
    BY <2>1, <2>2, <2>3
<1>4. ASSUME NEW c \in Columns, NEW r \in names'[c], NEW s \in names'[c]
      PROVE  r.id <= nextId'[c] /\ (r.id = s.id <=> r.name = s.name)
  <2>1. nextId[c] \in Nat /\ nextId'[c] \in Nat /\ nextId[c] <= nextId'[c]
    BY DEF BaseType, Tables, Grows, World
  <2>2. r.id \in Nat
    BY DEF BaseType, NameRow
  <2>3. r.id <= nextId[c]
    <3>1. CASE r \in names[c]
      BY <1>1, <3>1 DEF TablesInv
    <3>2. CASE TxOf(t, c) /\ r.id = tx[t].id
      BY <3>2, ApartIs DEF TxOf
    <3> QED
      BY <3>1, <3>2 DEF Grows
  <2>4. \A x \in names'[c] : x \in names[c] \/ (TxOf(t, c) /\ x.id = tx[t].id /\ x.name = tx[t].key)
    BY DEF Grows
  <2>5. TxOf(t, c) => \A x \in names[c] : x.id # tx[t].id /\ x.name # tx[t].key
    BY ApartIs
  <2>6. r \in names[c] /\ s \in names[c] => (r.id = s.id <=> r.name = s.name)
    BY <1>1 DEF TablesInv
  <2>7. r.id = s.id <=> r.name = s.name
    BY <2>4, <2>5, <2>6
  <2> QED
    BY <2>1, <2>2, <2>3, <2>7
<1> QED
  BY <1>2, <1>3, <1>4 DEF TablesInv

LEMMA RedisStep ==
    ASSUME World, NEW t \in Tasks, TxTrue(t), Grows(t), BaseType', CacheType', NEW c \in Columns
    PROVE  RedisTrue(c)'
<1> SUFFICES ASSUME NEW r \in redisNames'[c]
             PROVE  r.id <= nextId'[c] /\ \A s \in names'[c] : r.id = s.id => r.name = s.name
  BY DEF RedisTrue
<1>1. nextId[c] \in Nat /\ nextId'[c] \in Nat /\ nextId[c] <= nextId'[c]
  BY DEF BaseType, Tables, Grows, World
<1>2. r.id \in Nat
  BY DEF CacheType, CacheTypeOK, NameRow
<1>3. CASE r \in redisNames[c]
  <2>1. r.id <= nextId[c] /\ \A s \in names[c] : r.id = s.id => r.name = s.name
    BY <1>3 DEF World, RedisTrue
  <2>2. \A s \in names'[c] : s \in names[c] \/ (TxOf(t, c) /\ s.id = tx[t].id /\ s.name = tx[t].key)
    BY DEF Grows
  <2> QED
    BY <1>1, <1>2, <1>3, <2>1, <2>2, ApartIs
<1>4. CASE TxOf(t, c) /\ r.id = tx[t].id /\ r.name = tx[t].key
  <2>1. r.id <= nextId[c]
    BY <1>4, ApartIs DEF TxOf
  <2>2. \A x \in names'[c] : x \in names[c] \/ (TxOf(t, c) /\ x.id = tx[t].id /\ x.name = tx[t].key)
    BY DEF Grows
  <2>3. \A x \in names[c] : x.id # tx[t].id /\ x.name # tx[t].key
    BY <1>4, ApartIs
  <2> QED
    BY <1>1, <1>2, <1>4, <2>1, <2>2, <2>3
<1> QED
  BY <1>3, <1>4 DEF Grows

LEMMA ApartStep ==
    ASSUME World, NEW t \in Tasks, CachedStep(t), BaseType', CacheType', NEW s \in Tasks
    PROVE  TxApart(s)'
<1>1. Shape(t) /\ Grows(t) /\ (Closed(t) \/ Opened(t) \/ Stays(t))
  BY StepShape, StepGrows, StepTx DEF World
<1>2. \A u \in Tasks \ {t} : tx'[u] = tx[u]
  BY <1>1 DEF Shape, Changes
<1>3. \A tb \in Tables : nextId[tb] \in Nat /\ nextId'[tb] \in Nat /\ nextId[tb] <= nextId'[tb]
  BY <1>1 DEF BaseType, Grows, World
<1>4. /\ \A u \in Tasks : tx[u] # NoRow => tx[u] \in TxRow /\ tx[u].id \in Nat /\ tx[u].table \in Tables
      /\ \A p \in payloads : p.id \in Nat
      /\ \A c \in Columns : c \in Tables /\ \A r \in names[c] : r.id \in Nat
      /\ \A c \in Columns : \A r \in redisNames[c] : r.id \in Nat
      /\ "payloads" \in Tables /\ "payloads" \notin Columns
  BY RowsAre DEF World
<1>5. \A u \in Tasks : tx'[u] # NoRow => tx'[u].id \in Nat /\ tx'[u].table \in Tables
  BY BaseParts DEF TxRow, BaseType
<1>6. tx'[s] # NoRow => tx'[s].id <= nextId'[tx'[s].table]
  <2>1. CASE tx'[s] = tx[s]
    BY <1>3, <1>4, <2>1, ApartIs
  <2>2. CASE s = t /\ Opened(t)
    BY <1>3, <1>5, <2>2 DEF Opened
  <2> QED
    BY <1>1, <1>2, <2>1, <2>2 DEF Closed, Stays
(* Two open rows of a table: at most one of them is new, and its id is drawn last. *)
<1>7. ASSUME NEW u \in Tasks \ {s}, NEW tb \in Tables, TxOf(s, tb)', TxOf(u, tb)'
      PROVE  tx'[u].id # tx'[s].id /\ tx'[u].key # tx'[s].key
  <2>1. CASE tx'[s] = tx[s] /\ tx'[u] = tx[u]
    BY <1>7, <2>1, ApartIs DEF TxOf
  <2>2. ASSUME Opened(t), NEW v \in Tasks \ {t}, TxOf(t, tb)', TxOf(v, tb)
        PROVE  tx[v].id # tx'[t].id /\ tx[v].key # tx'[t].key
    <3>1. tx[v].id <= nextId[tb] /\ tx[v].id \in Nat
      BY <1>4, <2>2, ApartIs DEF TxOf
    <3>2. tx'[t].id = nextId[tb] + 1 /\ tx[v].key # tx'[t].key
      BY <2>2 DEF Opened, TxOf
    <3> QED
      BY <1>3, <3>1, <3>2
  <2>3. CASE s = t /\ Opened(t)
    BY <1>2, <1>7, <2>2, <2>3 DEF TxOf
  <2>4. CASE u = t /\ Opened(t)
    BY <1>2, <1>7, <2>2, <2>4 DEF TxOf
  <2>5. Closed(t) => s # t /\ u # t
    BY <1>7 DEF Closed, TxOf
  <2> QED
    BY <1>1, <1>2, <2>1, <2>3, <2>4, <2>5 DEF Stays
<1>8. ASSUME TxOf(s, "payloads")' PROVE \A p \in payloads' : p.id # tx'[s].id /\ p.request_id # tx'[s].key
  <2>1. CASE s = t /\ Opened(t)
    <3>1. tx'[t].table = "payloads"
      BY <1>8, <2>1 DEF TxOf
    <3>2. tx'[t].id = nextId["payloads"] + 1 /\ payloads' = payloads /\ \A p \in payloads : p.request_id # tx'[t].key
      BY <1>4, <2>1, <3>1 DEF Opened
    <3>3. \A p \in payloads : p.id <= nextId["payloads"]
      BY DEF World, TablesInv
    <3> QED
      BY <1>3, <1>4, <2>1, <3>2, <3>3
  <2>2. CASE s = t /\ Stays(t)
    BY <1>8, <2>2, ApartIs DEF Stays, TxOf
  <2>3. CASE s # t
    <3>1. TxOf(s, "payloads") /\ tx'[s] = tx[s]
      BY <1>2, <1>8, <2>3 DEF TxOf
    <3>2. \A p \in payloads : p.id # tx[s].id /\ p.request_id # tx[s].key
      BY <3>1, ApartIs
    <3>3. TxOf(t, "payloads") => tx[t].id # tx[s].id /\ tx[t].key # tx[s].key
      BY <1>4, <2>3, <3>1, ApartIs
    <3> QED
      BY <1>1, <3>1, <3>2, <3>3 DEF Grows
  <2> QED
    BY <1>1, <1>8, <2>1, <2>2, <2>3 DEF Closed, TxOf
<1>9. ASSUME NEW c \in Columns, TxOf(s, c)'
      PROVE  /\ \A r \in names'[c] : r.id # tx'[s].id /\ r.name # tx'[s].key
             /\ \A r \in redisNames'[c] : r.id = tx'[s].id => r.name = tx'[s].key
  <2>1. CASE s = t /\ Opened(t)
    <3>1. tx'[t].table = c
      BY <1>9, <2>1 DEF TxOf
    <3>2. /\ tx'[t].id = nextId[c] + 1 /\ names' = names /\ redisNames' = redisNames
          /\ \A r \in names[c] : r.name # tx'[t].key
      BY <1>4, <2>1, <3>1 DEF Opened
    <3>3. (\A r \in names[c] : r.id <= nextId[c]) /\ \A r \in redisNames[c] : r.id <= nextId[c]
      BY DEF World, TablesInv, RedisTrue
    <3> QED
      BY <1>3, <1>4, <2>1, <3>2, <3>3
  <2>2. CASE s = t /\ Stays(t)
    <3>1. TxOf(t, c) /\ tx'[t] = tx[t] /\ names' = names
      BY <1>9, <2>2 DEF Stays, TxOf
    <3> QED
      BY <1>1, <2>2, <3>1, ApartIs DEF Grows
  <2>3. CASE s # t
    <3>1. TxOf(s, c) /\ tx'[s] = tx[s]
      BY <1>2, <1>9, <2>3 DEF TxOf
    <3>2. /\ \A r \in names[c] : r.id # tx[s].id /\ r.name # tx[s].key
          /\ \A r \in redisNames[c] : r.id = tx[s].id => r.name = tx[s].key
      BY <3>1, ApartIs
    <3>3. TxOf(t, c) => tx[t].id # tx[s].id /\ tx[t].key # tx[s].key
      BY <1>4, <2>3, <3>1, ApartIs
    <3> QED
      BY <1>1, <3>1, <3>2, <3>3 DEF Grows
  <2> QED
    BY <1>1, <1>9, <2>1, <2>2, <2>3 DEF Closed, TxOf
<1> QED
  BY <1>5, <1>6, <1>7, <1>8, <1>9 DEF TxApart, TxOf

LEMMA WorldStep ==
    ASSUME World, NEW t \in Tasks, pc[t] = "set" => dump[t].id \in Ids, CachedStep(t)
    PROVE  World'
<1>1. BaseType' /\ CacheType'
  BY BaseStep, CacheStep DEF World
<1>2. Shape(t) /\ Grows(t)
  BY StepShape, StepGrows DEF World
<1>3. \A s \in Tasks : CachedWorking(s)'
  <2>1. CachedWorking(t)'
    BY WorkingStep DEF World
  <2>2. \A s \in Tasks \ {t} : CachedWorking(s)'
    BY <1>2, WorkingElsewhere DEF World
  <2> QED
    BY <2>1, <2>2
<1>4. \A s \in Tasks : TxTrue(s)'
  <2>1. TxTrue(t)'
    BY TxTrueStep
  <2>2. \A s \in Tasks \ {t} : TxTrue(s)'
    BY <1>2, TxTrueElsewhere
  <2> QED
    BY <2>1, <2>2
<1>5. \A s \in Tasks : TxApart(s)'
  BY <1>1, ApartStep
<1>6. TablesInv'
  BY <1>1, <1>2, TablesStep
<1>7. \A c \in Columns : RedisTrue(c)'
  BY <1>1, <1>2, RedisStep DEF World
<1> QED
  BY <1>1, <1>3, <1>4, <1>5, <1>6, <1>7 DEF World

-----------------------------------------------------------------------------
(* Steps of others than the tasks. *)
Untouched == UNCHANGED <<names, nextId, batch, idx, pc, col, sps, dump, tx, redisNames>>

LEMMA WorldRests ==
    ASSUME World, BaseType', CacheType', Untouched, payloads' = payloads \/ Rewrites
    PROVE  World'
<1>1. TablesInv'
  <2>1. \A q \in payloads' : \E p \in payloads : q.id = p.id
    BY DEF Rewrites
  <2>2. RowsUnique'
    BY DEF World, TablesInv, RowsUnique, Rewrites
  <2> QED
    BY <2>1, <2>2 DEF World, TablesInv, RowsUnique, Untouched
<1>2. ASSUME NEW t \in Tasks PROVE CachedWorking(t)' /\ TxTrue(t)'
  BY DEF Untouched, World, CachedWorking, TxTrue, TxOf, Msg, Name, Column, NewName
<1>3. ASSUME NEW t \in Tasks PROVE TxApart(t)'
  <2>1. TxApart(t)
    BY DEF World
  <2>2. \A q \in payloads' : \E p \in payloads : q.id = p.id /\ q.request_id = p.request_id
    BY DEF Rewrites
  <2> QED
    BY <2>1, <2>2 DEF Untouched, TxApart, TxOf
<1>4. \A c \in Columns : RedisTrue(c)'
  BY DEF Untouched, World, RedisTrue
<1> QED
  BY <1>1, <1>2, <1>3, <1>4 DEF World

(* What is said of an id stays true. *)
Keeps ==
    /\ batch' = batch
    /\ \A r : \A id \in Nat : (OwnId(r, id) => OwnId(r, id)') /\ (Real(r, id) => Real(r, id)')
    /\ \A c \in Columns : redisNames[c] \subseteq redisNames'[c]

LEMMA RestsKeep ==
    ASSUME World, Faults, Untouched, payloads' = payloads \/ Rewrites
    PROVE  Keeps
<1>1. \A q \in payloads' : \E p \in payloads : q.id = p.id /\ q.request_id = p.request_id
  BY DEF Rewrites
<1>2. \A p \in payloads : \E q \in payloads' : q.id = p.id /\ q.request_id = p.request_id
  BY DEF Rewrites
<1>3. faulted \subseteq faulted' /\ Untouched
  BY DEF Faults
<1>4. ASSUME NEW r, NEW id \in Nat, OwnId(r, id) PROVE OwnId(r, id)'
  BY <1>1, <1>3, <1>4 DEF Untouched, OwnId, TxOf
<1>5. ASSUME NEW r, NEW id \in Nat, Real(r, id) PROVE Real(r, id)'
  BY <1>2, <1>3, <1>5 DEF Untouched, Real, TxOf
<1> QED
  BY <1>3, <1>4, <1>5 DEF Keeps, Untouched

LEMMA AtCommit ==
    ASSUME NEW t \in Tasks, CachedStep(t), pc[t] = "commit"
    PROVE  CommitPayload(t)
<1>1. ~SharedStep(t)
  BY DEF SharedStep, TakeMessage, EndOfBatch, InsertStatus, CheckPartition, CreateTable
<1>2. ~CallCache(t) /\ ~CachedGet(t) /\ ~CachedReget(t) /\ ~CachedGetFails(t) /\ ~CachedSet(t)
  BY DEF CallCache, CachedGet, CachedReget, CachedGetFails, CachedSet, Returned
<1>3. ~InsertPayload(t) /\ ~CachedColumn(t) /\ ~InsertName(t) /\ ~HsetName(t) /\ ~CommitName(t) /\ ~CachedRecheck(t)
  BY DEF InsertPayload, CachedColumn, InsertName, HsetName, CommitName, CachedRecheck
<1> QED
  BY <1>1, <1>2, <1>3 DEF CachedStep

LEMMA OwnKept ==
    ASSUME World, NEW t \in Tasks, CachedStep(t), NEW r, NEW id \in Nat, OwnId(r, id)
    PROVE  OwnId(r, id)'
<1>1. Shape(t) /\ Grows(t) /\ (Closed(t) \/ Opened(t) \/ Stays(t))
  BY StepShape, StepGrows, StepTx DEF World
<1>2. \A u \in Tasks \ {t} : tx'[u] = tx[u]
  BY <1>1 DEF Shape, Changes
<1>3. nextId["payloads"] \in Nat /\ nextId["payloads"] <= nextId'["payloads"] /\ id <= nextId["payloads"]
  BY <1>1 DEF World, BaseType, Tables, Grows, OwnId
<1>4. nextId'["payloads"] \in Nat \/ nextId'["payloads"] = nextId["payloads"]
  BY StepFrames, DrawnIs DEF Frames, World, Tables
<1>5. \A p \in payloads' : p.id = id => p.request_id = r
  BY <1>1 DEF Grows, OwnId
<1>6. ASSUME NEW s \in Tasks, TxOf(s, "payloads")', tx'[s].id = id PROVE tx'[s].key = r
  <2>1. CASE tx'[s] = tx[s]
    BY <1>6, <2>1 DEF OwnId, TxOf
  <2>2. CASE s = t /\ Opened(t)
    <3>1. id = nextId["payloads"] + 1
      BY <1>6, <2>2 DEF Opened, TxOf
    <3> QED
      BY <1>3, <3>1
  <2>3. CASE s = t /\ Closed(t)
    BY <1>6, <2>3 DEF Closed, TxOf
  <2> QED
    BY <1>1, <1>2, <2>1, <2>2, <2>3 DEF Stays
<1>7. id <= nextId'["payloads"]
  BY <1>3, <1>4
<1> QED
  BY <1>5, <1>6, <1>7 DEF OwnId

LEMMA RealKept ==
    ASSUME World, NEW t \in Tasks, CachedStep(t), NEW r, NEW id \in Nat, Real(r, id)
    PROVE  Real(r, id)'
<1>1. Shape(t) /\ Grows(t) /\ Faults
  BY StepShape, StepGrows, StepFaults DEF World
<1>2. batch' = batch /\ payloads \subseteq payloads' /\ faulted \subseteq faulted'
  BY <1>1 DEF Shape, Grows, Faults
<1>3. CASE \E p \in payloads : p.id = id /\ p.request_id = r
  BY <1>2, <1>3 DEF Real
<1>4. CASE \E x \in faulted : batch[x[1]][x[2]].request_id = r
  BY <1>2, <1>4 DEF Real
<1>5. ASSUME NEW s \in Tasks, pc[s] = "commit", TxOf(s, "payloads"), tx[s].id = id, tx[s].key = r
      PROVE  Real(r, id)'
  <2>1. CASE s # t
    <3>1. pc'[s] = pc[s] /\ tx'[s] = tx[s]
      BY <1>1, <2>1 DEF Shape, Changes
    <3> QED
      BY <1>5, <3>1 DEF Real, TxOf
  <2>2. CASE s = t
    <3>1. CommitPayload(t)
      BY <1>5, <2>2, AtCommit
    <3>2. payloads' = payloads \cup {CommittedRow(t)} \/ Fault(Current(t))
      BY <3>1, CommitIs DEF World
    <3>3. CASE payloads' = payloads \cup {CommittedRow(t)}
      <4>1. CommittedRow(t).id = id /\ CommittedRow(t).request_id = r
        BY <1>5, <2>2 DEF CommittedRow
      <4> QED
        BY <3>3, <4>1 DEF Real
    <3>4. CASE Fault(Current(t))
      <4>1. Current(t) \in faulted'
        BY <3>4 DEF Fault
      <4>2. batch'[t][idx[t]].request_id = r
        BY <1>2, <1>5, <2>2 DEF World, TxTrue, Msg
      <4>3. Current(t)[1] = t /\ Current(t)[2] = idx[t]
        BY DEF Current
      <4> QED
        BY <4>1, <4>2, <4>3 DEF Real
    <3> QED
      BY <3>2, <3>3, <3>4
  <2> QED
    BY <2>1, <2>2
<1> QED
  BY <1>3, <1>4, <1>5 DEF Real

LEMMA StepKeeps ==
    ASSUME World, NEW t \in Tasks, CachedStep(t)
    PROVE  Keeps
<1>1. Shape(t) /\ Grows(t)
  BY StepShape, StepGrows DEF World
<1> QED
  BY <1>1, OwnKept, RealKept DEF Shape, Grows, Keeps

(* A message that is stored stays what it is. *)
LEMMA EntryKept ==
    ASSUME Keeps, NEW r, NEW e, e.id \in Nat, EntryFor(r, e)
    PROVE  EntryFor(r, e)'
BY DEF Keeps, EntryFor, OfMessage

-----------------------------------------------------------------------------
(* What a step makes of the locals of its task. *)
ColumnsOn == Resolving \cup Storing

Fetched(t) ==
    /\ pc[t] \in {"get", "reget"} /\ call[Coroutine(t)].data # <<>>
    /\ dump'[t].id = UniqueValues(Coroutine(t)).id /\ sps'[t].payload_id = dump'[t].id
    /\ sps'[t].ids = sps[t].ids /\ pc'[t] = "set"

UsesDump(t) ==
    /\ pc[t] = "set" /\ pc'[t] = "column" /\ col'[t] = 1
    /\ sps'[t].payload_id = dump[t].id /\ sps'[t].ids = sps[t].ids

Resolves(t) ==
    /\ pc[t] \in Resolving /\ pc'[t] \in {"column", "insert"} /\ sps'[t].payload_id = sps[t].payload_id
    /\ col[t] <= 3 /\ col'[t] = col[t] + 1
    /\ \/ sps'[t].ids = sps[t].ids /\ (Name(t, Column(t)) = None \/ pc[t] = "commit_name")
       \/ AssignsFrom(t) /\ Name(t, Column(t)) # None

(* The id of an uncommitted name. *)
Anticipates(t) ==
    /\ pc[t] = "hset" /\ pc'[t] = "commit_name" /\ col[t] <= 3 /\ col'[t] = col[t]
    /\ sps'[t].payload_id = sps[t].payload_id /\ Name(t, Column(t)) # None
    /\ \E n \in Nat : sps'[t].ids = [sps[t].ids EXCEPT ![Column(t)] = n]

Lingers(t) ==
    /\ sps'[t] = sps[t]
    /\ pc'[t] = "set" => pc[t] = "set" /\ dump'[t] = dump[t] /\ tx'[t] = tx[t]
    /\ \/ pc'[t] \notin ColumnsOn \/ col'[t] = 1
       \/ pc[t] \in ColumnsOn /\ col'[t] = col[t]

Locally(t) ==
    \/ pc'[t] \in Idle
    \/ pc'[t] = "get" /\ sps'[t] = EmptySps
    \/ pc[t] \notin Idle /\ (\/ Fetched(t) \/ UsesDump(t) \/ Resolves(t) \/ Anticipates(t) \/ Lingers(t)
                             \/ Opened(t) /\ tx'[t].table = "payloads")

LEMMA SharedLocals ==
    ASSUME BaseType, NEW t \in Tasks, CachedWorking(t), SharedStep(t)
    PROVE  Locally(t)
<1>0. dump' = dump /\ tx' = tx
  BY DEF SharedStep
<1>1. CASE TakeMessage(t)
  <2>1. sps' = [sps EXCEPT ![t] = EmptySps] /\ EmptySps \in SpsType
    BY <1>1 DEF TakeMessage, Reset, EmptySps, SpsType
  <2>2. sps'[t] = EmptySps
    BY <2>1, BaseParts, ChangedAt
  <2>3. Moves(t, "next", idx[t] + 1) \/ Moves(t, "dead", idx[t]) \/ Moves(t, "get", idx[t])
    BY <1>1, FinishMoves, GotoMoves DEF TakeMessage, CachedLocations, Locations
  <2> QED
    BY <2>2, <2>3 DEF Moves, Locally
<1>2. CASE EndOfBatch(t)
  <2>1. Moves(t, "done", idx[t])
    BY <1>2, GotoMoves DEF EndOfBatch, CachedLocations, Locations
  <2> QED
    BY <2>1 DEF Moves, Locally
<1>3. CASE InsertStatus(t)
  <2>1. pc[t] = "insert" /\ UNCHANGED <<col, sps>>
    BY <1>3 DEF InsertStatus
  <2>2. \/ Moves(t, "next", idx[t] + 1)
        \/ Moves(t, "partition", idx[t]) \/ Moves(t, "insert", idx[t])
    BY <1>3, FinishMoves, RejectedMoves DEF InsertStatus
  <2>3. pc'[t] \in {"next", "partition", "insert"}
    BY <2>2 DEF Moves
  <2> QED
    BY <2>1, <2>3 DEF Locally, Lingers, ColumnsOn, Storing
<1>4. CASE CheckPartition(t) \/ CreateTable(t)
  <2>1. pc[t] \in Storing /\ UNCHANGED <<col, sps>>
    BY <1>4 DEF CheckPartition, CreateTable, Storing
  <2>2. (\E n \in 1..3 : Retry(t, n)) \/ Goto(t, "create_table")
    BY <1>4 DEF CheckPartition, CreateTable
  <2>3. Moves(t, "insert", idx[t]) \/ Moves(t, "create_table", idx[t])
    BY <2>2, RetryMoves, GotoNamed
  <2>4. pc'[t] \in {"create_table", "insert"}
    BY <2>3 DEF Moves
  <2> QED
    BY <2>1, <2>4 DEF Locally, Lingers, ColumnsOn, Storing
<1> QED
  BY <1>1, <1>2, <1>3, <1>4 DEF SharedStep

LEMMA LookupLocals ==
    ASSUME BaseType, CacheType, NEW t \in Tasks,
           CachedGet(t) \/ CachedReget(t) \/ CachedGetFails(t) \/ CallCache(t)
    PROVE  Locally(t)
<1>1. CASE CachedGet(t) \/ CachedReget(t)
  <2>1. pc[t] \in {"get", "reget"}
    BY <1>1 DEF CachedGet, CachedReget, Returned
  <2>2. \/ call[Coroutine(t)].data # <<>> /\ TakeDump(t)
        \/ (Goto(t, "create") \/ StartColumns(t)) /\ UNCHANGED sps
    BY <1>1 DEF CachedGet, CachedReget
  <2>3. CASE call[Coroutine(t)].data # <<>> /\ TakeDump(t)
    BY <2>1, <2>3, TakeDumpShape DEF Locally, Fetched, Moves
  <2>4. CASE (Goto(t, "create") \/ StartColumns(t)) /\ UNCHANGED sps
    <3>1. pc'[t] = "create" \/ (pc'[t] = "column" /\ col'[t] = 1)
      BY <2>4, GotoNamed, StartMoves DEF Moves
    <3> QED
      BY <2>1, <2>4, <3>1 DEF Locally, Lingers, ColumnsOn, Resolving, AtName, Storing
  <2> QED
    BY <2>2, <2>3, <2>4
<1>2. CASE CachedGetFails(t)
  BY <1>2, FailMoves DEF CachedGetFails, Moves, Locally
<1>3. CASE CallCache(t)
  BY <1>3 DEF CallCache, Locally, Lingers, ColumnsOn, Resolving, AtName, Storing
<1> QED
  BY <1>1, <1>2, <1>3

LEMMA PayloadLocals ==
    ASSUME BaseType, CacheType, NEW t \in Tasks, CachedWorking(t), TxTrue(t),
           CachedSet(t) \/ InsertPayload(t) \/ CommitPayload(t)
    PROVE  Locally(t)
<1>1. CASE CachedSet(t)
  <2>1. pc[t] = "set" /\ dump' = dump
    BY <1>1 DEF CachedSet
  <2>2. \/ Goto(t, "set") /\ UNCHANGED <<sps, tx>>
        \/ AfterSet(t) \/ Fail(t)
        \/ Rollback(t) /\ UNCHANGED sps
    BY <1>1 DEF CachedSet
  <2>3. CASE Goto(t, "set") /\ UNCHANGED <<sps, tx>>
    BY <2>1, <2>3, GotoNamed DEF Moves, Locally, Lingers, ColumnsOn, Resolving, AtName, Storing
  <2>4. CASE AfterSet(t)
    <3>1. CASE tx[t] # NoRow
      <4>1. pc'[t] = "commit" /\ sps' = sps
        BY <2>4, <3>1, AfterSetShape DEF Moves
      <4> QED
        BY <2>1, <4>1 DEF Locally, Lingers, ColumnsOn, Resolving, AtName, Storing
    <3>2. CASE tx[t] = NoRow
      BY <2>1, <2>4, <3>2, AfterSetShape DEF Moves, Locally, UsesDump
    <3> QED
      BY <3>1, <3>2
  <2>5. CASE Fail(t)
    BY <2>5, FailMoves DEF Moves, Locally
  <2>6. CASE Rollback(t) /\ UNCHANGED sps
    <3>1. pc'[t] = "reget"
      BY <2>6, RollbackShape DEF Moves
    <3> QED
      BY <2>1, <2>6, <3>1 DEF Locally, Lingers, ColumnsOn, Resolving, AtName, Storing
  <2> QED
    BY <2>2, <2>3, <2>4, <2>5, <2>6
<1>2. CASE InsertPayload(t)
  <2>1. pc[t] = "create"
    BY <1>2 DEF InsertPayload
  <2>2. CASE Goto(t, "reget") /\ UNCHANGED sps
    <3>1. pc'[t] = "reget"
      BY <2>2, GotoNamed DEF Moves
    <3> QED
      BY <2>1, <2>2, <3>1 DEF Locally, Lingers, ColumnsOn, Resolving, AtName, Storing
  <2>3. CASE Goto(t, "set")
    <3>1. pc'[t] = "set" /\ ~InsertName(t)
      BY <2>1, <2>3, GotoNamed DEF Moves, InsertName
    <3>2. \E r \in TxRow : tx' = [tx EXCEPT ![t] = r]
      <4> DEFINE row == [table |-> "payloads", key |-> Msg(t).request_id, id |-> nextId["payloads"] + 1]
      <4>1. ~Goto(t, "reget")
        BY <3>1, GotoNamed DEF Moves
      <4>2. tx' = [tx EXCEPT ![t] = row]
        BY <1>2, <4>1 DEF InsertPayload
      <4>3. Msg(t).request_id \in RequestIds /\ nextId["payloads"] \in Nat
        BY <2>1, MessageIs DEF Message, BaseType, Tables
      <4>4. row \in TxRow
        BY <4>3 DEF TxRow, Tables
      <4> HIDE DEF row
      <4> QED
        BY <4>2, <4>4
    <3>3. tx'[t] # NoRow
      BY <3>2, TxAlters, CachedAssumption
    <3>4. Opened(t)
      BY <1>2, <2>1, <3>3, InsertPayloadTx, NoTx DEF Closed
    <3>5. tx'[t].table = "payloads"
      BY <2>1, <3>1, <3>4 DEF Opened
    <3> QED
      BY <2>1, <3>4, <3>5 DEF Locally
  <2> QED
    BY <1>2, <2>2, <2>3 DEF InsertPayload
<1>3. CASE CommitPayload(t)
  <2>1. pc[t] = "commit" /\ sps' = sps
    BY <1>3 DEF CommitPayload
  <2>2. StartColumns(t) \/ Rollback(t)
    BY <1>3 DEF CommitPayload
  <2>3. pc'[t] = "reget" \/ (pc'[t] = "column" /\ col'[t] = 1)
    BY <2>2, StartMoves, RollbackShape DEF Moves
  <2> QED
    BY <2>1, <2>3 DEF Locally, Lingers, ColumnsOn, Resolving, AtName, Storing
<1> QED
  BY <1>1, <1>2, <1>3

LEMMA NameLocals ==
    ASSUME BaseType, CacheType, NEW t \in Tasks, CachedWorking(t), TxTrue(t),
           CachedColumn(t) \/ CachedRecheck(t) \/ InsertName(t) \/ HsetName(t) \/ CommitName(t)
    PROVE  Locally(t)
<1>1. col[t] <= 3 /\ pc[t] \in Resolving /\ pc[t] \notin Idle
  BY DEF CachedColumn, CachedRecheck, InsertName, HsetName, CommitName, CachedWorking, Resolving, AtName
<1>2. Name(t, Column(t)) # None \/ CachedColumn(t)
  BY DEF CachedRecheck, InsertName, HsetName, CommitName, CachedWorking, AtName
<1>3. CASE /\ Goto(t, "add") \/ Goto(t, "hset") \/ Goto(t, "recheck")
           /\ UNCHANGED <<col, sps>>
  <2>1. pc'[t] # "set"
    BY <1>3, GotoNamed DEF Moves
  <2> QED
    BY <1>1, <1>3, <2>1 DEF Locally, Lingers, ColumnsOn
<1>4. CASE Fail(t)
  BY <1>4, FailMoves DEF Moves, Locally
<1>5. ASSUME AfterColumn(t) PROVE col'[t] = col[t] + 1 /\ pc'[t] \in {"column", "insert"}
  BY <1>1, <1>5, AfterColumnMoves DEF Moves
<1>6. CASE CachedColumn(t)
  <2>1. CASE Name(t, Column(t)) = None /\ AfterColumn(t) /\ UNCHANGED sps
    BY <1>1, <1>5, <2>1 DEF Locally, Resolves
  <2>2. CASE /\ Name(t, Column(t)) # None /\ AfterColumn(t)
             /\ \E r \in redisNames[Column(t)] : r.name = Name(t, Column(t)) /\ Assign(t, r.id)
    <3>1. AssignsFrom(t)
      BY <1>1, <2>2, AssignShape
    <3> QED
      BY <1>1, <1>5, <2>2, <3>1 DEF Locally, Resolves, AssignsFrom
  <2> QED
    BY <1>3, <1>4, <1>6, <2>1, <2>2 DEF CachedColumn
<1>7. CASE CachedRecheck(t)
  <2>1. CASE /\ AfterColumn(t)
             /\ \E r \in redisNames[Column(t)] : r.name = Name(t, Column(t)) /\ Assign(t, r.id)
    <3>1. AssignsFrom(t) /\ Name(t, Column(t)) # None
      BY <1>1, <1>7, <2>1, AssignShape DEF CachedRecheck, CachedWorking, AtName
    <3> QED
      BY <1>1, <1>5, <2>1, <3>1 DEF Locally, Resolves, AssignsFrom
  <2> QED
    BY <1>4, <1>7, <2>1 DEF CachedRecheck
<1>8. CASE InsertName(t)
  BY <1>3, <1>8 DEF InsertName
<1>9. CASE HsetName(t)
  <2>1. CASE Assign(t, tx[t].id) /\ Goto(t, "commit_name")
    <3>1. pc[t] = "hset" /\ col' = col
      BY <1>9 DEF HsetName
    <3>2. Column(t) \in Columns /\ tx[t].id \in Nat
      BY <1>1, <3>1, ColumnIs, BaseParts DEF TxTrue, TxRow
    <3>3. sps'[t].payload_id = sps[t].payload_id /\ sps'[t].ids = [sps[t].ids EXCEPT ![Column(t)] = tx[t].id]
      BY <2>1, <3>2, AssignsId DEF Assign
    <3>4. pc'[t] = "commit_name"
      BY <2>1, GotoNamed DEF Moves
    <3>5. Name(t, Column(t)) # None
      BY <3>1 DEF CachedWorking, AtName
    <3> QED
      BY <1>1, <3>1, <3>2, <3>3, <3>4, <3>5 DEF Locally, Anticipates
  <2> QED
    BY <1>3, <1>9, <2>1 DEF HsetName
<1>10. CASE CommitName(t)
  <2>1. CASE AfterColumn(t) /\ UNCHANGED sps
    BY <1>1, <1>5, <1>10, <2>1 DEF CommitName, Locally, Resolves
  <2> QED
    BY <1>3, <1>10, <2>1 DEF CommitName
<1> QED
  BY <1>6, <1>7, <1>8, <1>9, <1>10

LEMMA StepLocals ==
    ASSUME BaseType, CacheType, NEW t \in Tasks, CachedWorking(t), TxTrue(t), CachedStep(t)
    PROVE  Locally(t)
BY SharedLocals, LookupLocals, PayloadLocals, NameLocals DEF CachedStep

-----------------------------------------------------------------------------
(* The locals of a task that does not move mean what they meant. *)

Same(t) ==
    /\ idx'[t] = idx[t] /\ pc'[t] = pc[t] /\ col'[t] = col[t]
    /\ sps'[t] = sps[t] /\ dump'[t] = dump[t] /\ tx'[t] = tx[t]

LEMMA LocalsKept ==
    ASSUME BaseType, Keeps, NEW t \in Tasks, Same(t), LocalsTrue(t)
    PROVE  LocalsTrue(t)'
<1>1. sps[t].payload_id \in Nat /\ dump[t].id \in Nat
  BY BaseParts DEF SpsType, DumpType
<1>2. batch' = batch
  BY DEF Keeps
<1>3. Msg(t)' = Msg(t) /\ \A c \in Columns : Name(t, c)' = Name(t, c)
  BY <1>2 DEF Same, Msg, Name
<1> SUFFICES ASSUME pc[t] \notin Idle
             PROVE  LocalsTrue(t)'
  BY DEF Same, LocalsTrue
<1>4. OwnId(Msg(t).request_id, sps[t].payload_id)'
  BY <1>1, <1>3 DEF LocalsTrue, Keeps, Same
<1>5. pc[t] = "set" => /\ dump[t].id \in Ids
                       /\ OwnId(Msg(t).request_id, dump[t].id)'
                       /\ tx[t] = NoRow => Real(Msg(t).request_id, dump[t].id)'
  BY <1>1, <1>3 DEF LocalsTrue, Keeps, Same
<1>6. \A i \in 1..3 : ColumnOrder[i] \in Columns
  BY DEF ColumnOrder, Columns
<1>7. \A c \in Columns : ResolvedInRedis(t, c) => ResolvedInRedis(t, c)'
  BY <1>3 DEF ResolvedInRedis, Keeps, Same
<1>8. pc[t] \in Resolving \cup Storing => \A i \in 1..(col[t] - 1) : ResolvedInRedis(t, ColumnOrder[i])'
  <2>1. \A i \in 1..(col[t] - 1) : i \in 1..3
    BY BaseParts
  <2> QED
    BY <1>6, <1>7, <2>1 DEF LocalsTrue
<1>9. \A c \in Columns : Name(t, c)' = None => sps'[t].ids[c] = NoId
  BY <1>3 DEF LocalsTrue, Same
<1> QED
  BY <1>4, <1>5, <1>8, <1>9 DEF LocalsTrue, Same

LEMMA OwnNothing == ASSUME BaseType, NEW r PROVE OwnId(r, NoId)
<1>1. \A p \in payloads : p.id # NoId
  BY DEF BaseType, PayloadRow
<1>2. \A t \in Tasks : TxOf(t, "payloads") => tx[t].id # NoId
  BY BaseParts DEF TxOf, TxRow
<1> QED
  BY <1>1, <1>2 DEF OwnId, BaseType, Tables

(* An id that has just been drawn is the request's own. *)
LEMMA OwnDrawn ==
    ASSUME World, NEW t \in Tasks, Shape(t), Opened(t), tx'[t].table = "payloads",
           NEW r, r = Msg(t).request_id, NEW id, id = tx'[t].id
    PROVE  id \in Ids /\ OwnId(r, id)'
<1>1. /\ tx'[t] \in TxRow /\ id = nextId["payloads"] + 1 /\ id = nextId'["payloads"] /\ payloads' = payloads
      /\ tx'[t].key = r
  BY DEF Opened, Columns
<1>2. nextId["payloads"] \in Nat /\ id \in Ids
  BY <1>1, RowsAre DEF World
<1>3. \A p \in payloads' : p.id = id => p.request_id = r
  <2>1. \A p \in payloads : p.id <= nextId["payloads"] /\ p.id \in Nat
    BY RowsAre DEF World, TablesInv
  <2> QED
    BY <1>1, <1>2, <2>1
<1>4. ASSUME NEW u \in Tasks, TxOf(u, "payloads")', tx'[u].id = id PROVE tx'[u].key = r
  <2>1. CASE u = t
    BY <1>1, <2>1
  <2>2. CASE u # t
    <3>1. tx'[u] = tx[u] /\ TxOf(u, "payloads")
      BY <1>4, <2>2 DEF Shape, Changes, TxOf
    <3>2. tx[u].id <= nextId["payloads"] /\ tx[u].id \in Nat
      BY <3>1, RowsAre, ApartIs DEF TxOf, World
    <3> QED
      BY <1>1, <1>2, <1>4, <3>1, <3>2
  <2> QED
    BY <2>1, <2>2
<1>5. id <= nextId'["payloads"]
  BY <1>1, <1>2
<1> QED
  BY <1>2, <1>3, <1>4, <1>5 DEF OwnId

(* The id that the answer of the cache gives belongs to the request. *)
LEMMA OwnFetched ==
    ASSUME World, NEW t \in Tasks, CallTrue(Coroutine(t)), call[Coroutine(t)].data # <<>>
    PROVE  LET id == UniqueValues(Coroutine(t)).id
           IN id \in Ids /\ OwnId(Msg(t).request_id, id) /\ Real(Msg(t).request_id, id)
<1> DEFINE c == Coroutine(t)
<1>1. c \in Clients /\ RequestOf(c) = Msg(t).request_id
  BY ClientsAre DEF RequestOf
<1>2. PICK i \in 1..Len(call[c].data) : UniqueValues(c).id = call[c].data[i].id
  BY <1>1, UniqueIs DEF World
<1>3. call[c].data[i] \in Entry
  BY <1>1, CallIs DEF World
<1>4. EntryFor(RequestOf(c), call[c].data[i])
  BY DEF CallTrue
<1>5. call[c].data[i].id \in Ids
  BY <1>3 DEF Entry
<1>6. OwnId(Msg(t).request_id, call[c].data[i].id) /\ Real(Msg(t).request_id, call[c].data[i].id)
  BY <1>1, <1>4 DEF EntryFor
<1> QED
  BY <1>2, <1>5, <1>6

(* The columns before col are resolved after a step, too. *)
LEMMA ResolvesTrue ==
    ASSUME World, NEW t \in Tasks, Keeps, LocalsTrue(t), pc[t] \notin Idle, Msg(t)' = Msg(t),
           Resolves(t) \/ Anticipates(t)
    PROVE  /\ \A i \in 1..(col'[t] - 1) : ResolvedInRedis(t, ColumnOrder[i])'
           /\ \A c \in Columns : Name(t, c) = None => sps'[t].ids[c] = NoId
<1>1. BaseType /\ CacheType /\ TxTrue(t) /\ CachedWorking(t)
  BY DEF World
<1>2. col[t] \in 1..3 /\ pc[t] \in Resolving /\ Column(t) \in Columns /\ Column(t) = ColumnOrder[col[t]]
  BY <1>1, BaseParts, ColumnIs DEF Resolves, Anticipates, Resolving, AtName, Column
<1>3. sps[t].ids \in [Columns -> Nat]
  BY <1>1, BaseParts DEF SpsType
<1>4. \A i \in 1..3 : ColumnOrder[i] \in Columns /\ (i # col[t] => ColumnOrder[i] # Column(t))
  BY <1>2 DEF ColumnOrder, Columns
<1>5. \A i \in 1..(col[t] - 1) : ResolvedInRedis(t, ColumnOrder[i])
  BY <1>2 DEF LocalsTrue
<1>6. \A c \in Columns : Name(t, c)' = Name(t, c)
  BY DEF Name
<1>7. \A c \in Columns : c # Column(t) => sps'[t].ids[c] = sps[t].ids[c]
  BY <1>3 DEF Resolves, Anticipates, AssignsFrom
<1>8. ASSUME NEW i \in 1..(col[t] - 1) PROVE ResolvedInRedis(t, ColumnOrder[i])'
  <2> DEFINE c == ColumnOrder[i]
  <2>1. i \in 1..3 /\ i # col[t]
    BY <1>2
  <2>2. c \in Columns /\ c # Column(t) /\ sps'[t].ids[c] = sps[t].ids[c] /\ Name(t, c)' = Name(t, c)
    BY <1>4, <1>6, <1>7, <2>1
  <2>3. ResolvedInRedis(t, c)
    BY <1>5
  <2>4. redisNames[c] \subseteq redisNames'[c]
    BY <2>2 DEF Keeps
  <2> HIDE DEF c
  <2>5. ResolvedInRedis(t, c)'
    BY <2>2, <2>3, <2>4 DEF ResolvedInRedis
  <2> QED
    BY <2>5 DEF c
<1>10. ASSUME Resolves(t), NEW c, c = Column(t) PROVE ResolvedInRedis(t, c)'
  <2>1. c \in Columns /\ redisNames[c] \subseteq redisNames'[c] /\ Name(t, c)' = Name(t, c)
    BY <1>2, <1>6, <1>10 DEF Keeps
  <2>2. CASE sps'[t].ids = sps[t].ids /\ Name(t, c) = None
    BY <2>1, <2>2 DEF LocalsTrue, ResolvedInRedis
  <2>3. CASE sps'[t].ids = sps[t].ids /\ Name(t, c) # None /\ pc[t] = "commit_name"
    <3>1. NewName(t) \in redisNames[c] /\ sps[t].ids[c] = tx[t].id
      BY <1>1, <1>10, <2>3 DEF TxTrue
    <3>2. NewName(t).name = Name(t, c)
      BY <1>1, <1>10, <2>3, OpenNameIs DEF OpenName
    <3>3. NewName(t) = [id |-> sps'[t].ids[c], name |-> Name(t, c)]
      BY <2>3, <3>1, <3>2 DEF NewName
    <3> QED
      BY <2>1, <2>3, <3>1, <3>3 DEF ResolvedInRedis
  <2>4. CASE AssignsFrom(t) /\ Name(t, c) # None
    <3>1. PICK r \in redisNames[c] : r.name = Name(t, c) /\ sps'[t].ids = [sps[t].ids EXCEPT ![c] = r.id]
      BY <1>10, <2>4 DEF AssignsFrom
    <3>2. r = [id |-> r.id, name |-> r.name]
      BY <1>1, <2>1, ListedIs
    <3>3. sps'[t].ids[c] = r.id
      BY <1>3, <2>1, <3>1
    <3> QED
      BY <2>1, <2>4, <3>1, <3>2, <3>3 DEF ResolvedInRedis
  <2> QED
    BY <1>10, <2>2, <2>3, <2>4 DEF Resolves
<1>11. \A i \in 1..(col'[t] - 1) : ResolvedInRedis(t, ColumnOrder[i])'
  <2>1. CASE col'[t] = col[t]
    BY <1>8, <2>1
  <2>2. CASE Resolves(t)
    <3>1. \A i \in 1..(col'[t] - 1) : i = col[t] \/ i \in 1..(col[t] - 1)
      BY <1>2, <2>2 DEF Resolves
    <3>2. ASSUME NEW i \in 1..(col'[t] - 1), i = col[t] PROVE ResolvedInRedis(t, ColumnOrder[i])'
      BY <1>2, <1>10, <2>2, <3>2
    <3> QED
      BY <1>8, <3>1, <3>2
  <2> QED
    BY <2>1, <2>2 DEF Anticipates
<1>12. ASSUME NEW c \in Columns, Name(t, c) = None PROVE sps'[t].ids[c] = NoId
  <2>1. sps[t].ids[c] = NoId
    BY <1>12 DEF LocalsTrue
  <2>2. c = Column(t) => sps'[t].ids = sps[t].ids
    BY <1>12 DEF Resolves, Anticipates
  <2> QED
    BY <1>7, <2>1, <2>2
<1> QED
  BY <1>11, <1>12

-----------------------------------------------------------------------------
(* LocalsTrue after a step of the task, from what it is made of. *)

LEMMA LocalsFrom ==
    ASSUME NEW t \in Tasks, Msg(t)' = Msg(t),
           NEW r, r = Msg(t).request_id, NEW i, i = sps'[t].payload_id, NEW d, d = dump'[t].id,
           OwnId(r, i)',
           pc'[t] = "set" => d \in Ids /\ OwnId(r, d)' /\ (tx'[t] = NoRow => Real(r, d)'),
           pc'[t] \in ColumnsOn => \A k \in 1..(col'[t] - 1) : ResolvedInRedis(t, ColumnOrder[k])',
           \A c \in Columns : Name(t, c) = None => sps'[t].ids[c] = NoId
    PROVE  LocalsTrue(t)'
<1>1. \A c \in Columns : Name(t, c)' = Name(t, c)
  BY DEF Name
<1>2. OwnId(Msg(t).request_id, sps[t].payload_id)'
  BY DEF OwnId
<1>3. pc'[t] = "set" => /\ dump'[t].id \in Ids
                        /\ OwnId(Msg(t).request_id, dump[t].id)'
                        /\ tx'[t] = NoRow => Real(Msg(t).request_id, dump[t].id)'
  BY DEF OwnId, Real
<1>4. \A c \in Columns : Name(t, c)' = None => sps'[t].ids[c] = NoId
  BY <1>1
<1> QED
  BY <1>2, <1>3, <1>4 DEF LocalsTrue, ColumnsOn

LEMMA LocalsStep ==
    ASSUME World, NEW t \in Tasks, CachedStep(t), LocalsTrue(t), CallTrue(Coroutine(t))
    PROVE  LocalsTrue(t)'
<1> SUFFICES ASSUME pc'[t] \notin Idle PROVE LocalsTrue(t)'
  BY DEF LocalsTrue
<1>1. Shape(t) /\ Position(t) /\ Locally(t) /\ Keeps
  BY StepShape, StepPosition, StepLocals, StepKeeps DEF World
<1>2. batch' = batch /\ idx'[t] = idx[t]
  BY <1>1 DEF Shape, Position
<1>3. Msg(t)' = Msg(t) /\ \A c \in Columns : Name(t, c)' = Name(t, c)
  BY <1>2 DEF Msg, Name
<1>4. sps[t].payload_id \in Nat /\ dump[t].id \in Nat /\ sps[t].ids \in [Columns -> Nat]
  BY BaseParts DEF SpsType, DumpType, World
<1>r. PICK r : r = Msg(t).request_id
  OBVIOUS
<1>i. PICK i : i = sps'[t].payload_id
  OBVIOUS
<1>d. PICK d : d = dump'[t].id
  OBVIOUS
<1>5. \A s, id : OwnId(s, id) /\ id \in Nat => OwnId(s, id)'
  BY <1>1 DEF Keeps
<1>6. \A s, id : Real(s, id) /\ id \in Nat => Real(s, id)'
  BY <1>1 DEF Keeps
<1>7. CASE pc'[t] = "get" /\ sps'[t] = EmptySps
  <2>1. i = NoId /\ \A c \in Columns : sps'[t].ids[c] = NoId
    BY <1>7, <1>i DEF EmptySps
  <2>2. \A s : OwnId(s, NoId)'
    BY <1>5, OwnNothing DEF World
  <2>3. pc'[t] \notin ColumnsOn
    BY <1>7 DEF ColumnsOn, Resolving, AtName, Storing
  <2> QED
    BY <1>3, <1>7, <2>1, <2>2, <2>3, LocalsFrom, <1>r, <1>i, <1>d
<1>8. ASSUME pc[t] \notin Idle
      PROVE  /\ OwnId(r, sps[t].payload_id) /\ \A c \in Columns : Name(t, c) = None => sps[t].ids[c] = NoId
             /\ pc[t] = "set" => dump[t].id \in Ids /\ OwnId(r, dump[t].id)
                                 /\ (tx[t] = NoRow => Real(r, dump[t].id))
             /\ pc[t] \in ColumnsOn => \A k \in 1..(col[t] - 1) : ResolvedInRedis(t, ColumnOrder[k])
  BY <1>8, <1>r DEF LocalsTrue, ColumnsOn
<1>9. CASE pc[t] \notin Idle /\ Fetched(t)
  <2>1. i = d /\ d = UniqueValues(Coroutine(t)).id /\ call[Coroutine(t)].data # <<>> /\ sps'[t].ids = sps[t].ids
    BY <1>9, <1>i, <1>d DEF Fetched
  <2>2. d \in Ids /\ OwnId(r, d) /\ Real(r, d)
    BY <2>1, <1>r, OwnFetched
  <2>3. pc'[t] \notin ColumnsOn
    BY <1>9 DEF Fetched, ColumnsOn, Resolving, AtName, Storing
  <2>4. OwnId(r, d)' /\ Real(r, d)'
    BY <1>5, <1>6, <2>2
  <2> QED
    BY <1>3, <1>8, <1>9, <2>1, <2>2, <2>3, <2>4, LocalsFrom, <1>r, <1>i, <1>d
<1>10. CASE pc[t] \notin Idle /\ UsesDump(t)
  <2>1. i = dump[t].id /\ sps'[t].ids = sps[t].ids /\ pc'[t] # "set" /\ 1..(col'[t] - 1) = {}
    BY <1>10, <1>i DEF UsesDump
  <2>2. OwnId(r, dump[t].id)
    BY <1>8, <1>10 DEF UsesDump
  <2> QED
    BY <1>3, <1>4, <1>5, <1>8, <1>10, <2>1, <2>2, LocalsFrom, <1>r, <1>i, <1>d
<1>11. CASE pc[t] \notin Idle /\ (Resolves(t) \/ Anticipates(t))
  <2>1. i = sps[t].payload_id /\ pc'[t] # "set"
    BY <1>11, <1>i DEF Resolves, Anticipates
  <2>2. /\ \A k \in 1..(col'[t] - 1) : ResolvedInRedis(t, ColumnOrder[k])'
        /\ \A c \in Columns : Name(t, c) = None => sps'[t].ids[c] = NoId
    BY <1>1, <1>3, <1>11, ResolvesTrue
  <2> QED
    BY <1>3, <1>4, <1>5, <1>8, <1>11, <2>1, <2>2, LocalsFrom, <1>r, <1>i, <1>d
<1>12. CASE pc[t] \notin Idle /\ Lingers(t)
  <2>1. i = sps[t].payload_id /\ sps'[t].ids = sps[t].ids
    BY <1>12, <1>i DEF Lingers
  <2>2. pc'[t] = "set" => pc[t] = "set" /\ d = dump[t].id /\ tx'[t] = tx[t]
    BY <1>12, <1>d DEF Lingers
  <2>3. ASSUME pc'[t] \in ColumnsOn, NEW k \in 1..(col'[t] - 1) PROVE ResolvedInRedis(t, ColumnOrder[k])'
    <3>1. pc[t] \in ColumnsOn /\ col'[t] = col[t]
      BY <1>12, <2>3 DEF Lingers
    <3> DEFINE c == ColumnOrder[k]
    <3>2. k \in 1..3
      BY <3>1, BaseParts DEF World
    <3>3. c \in Columns
      BY <3>2 DEF ColumnOrder, Columns
    <3>4. ResolvedInRedis(t, c)
      BY <1>8, <1>12, <3>1
    <3>5. redisNames[c] \subseteq redisNames'[c] /\ Name(t, c)' = Name(t, c)
      BY <1>1, <1>3, <3>3 DEF Keeps
    <3> HIDE DEF c
    <3>6. ResolvedInRedis(t, c)'
      BY <2>1, <3>3, <3>4, <3>5 DEF ResolvedInRedis
    <3> QED
      BY <3>6 DEF c
  <2>4. OwnId(r, sps[t].payload_id)
    BY <1>8, <1>12
  <2>5. pc'[t] = "set" => d \in Ids /\ OwnId(r, d) /\ (tx'[t] = NoRow => Real(r, d))
    BY <1>8, <1>12, <2>2
  <2>6. OwnId(r, i)' /\ (pc'[t] = "set" => d \in Ids /\ OwnId(r, d)' /\ (tx'[t] = NoRow => Real(r, d)'))
    BY <1>4, <1>5, <1>6, <2>1, <2>4, <2>5
  <2> QED
    BY <1>3, <1>8, <1>12, <2>1, <2>3, <2>6, LocalsFrom, <1>r, <1>i, <1>d
<1>13. CASE pc[t] \notin Idle /\ Opened(t) /\ tx'[t].table = "payloads"
  <2>1. tx'[t].id = d /\ i = d /\ sps'[t].ids = sps[t].ids /\ pc'[t] = "set" /\ tx'[t] # NoRow
    BY <1>13, <1>i, <1>d, CachedAssumption DEF Opened, Columns
  <2>2. d \in Ids /\ OwnId(r, d)'
    BY <1>1, <1>r, <1>13, <2>1, OwnDrawn
  <2>3. pc'[t] \notin ColumnsOn
    BY <2>1 DEF ColumnsOn, Resolving, AtName, Storing
  <2> QED
    BY <1>3, <1>8, <1>13, <2>1, <2>2, <2>3, LocalsFrom, <1>r, <1>i, <1>d
<1> QED
  BY <1>1, <1>7, <1>9, <1>10, <1>11, <1>12, <1>13 DEF Locally

-----------------------------------------------------------------------------
(* What a status row of a request is turned into is a message of the request. *)
LEMMA EntryOfTrue ==
    ASSUME World, Attribution, NEW c \in Clients, CallTrue(c), NEW r, NEW row \in RowsOf(r), Named(c, row)
    PROVE  EntryFor(r, EntryOf(row, call[c].names))
<1> DEFINE e == EntryOf(row, call[c].names)
           m == Source(row)
<1>1. row \in statuses /\ row \in StatusRow /\ batch \in [Tasks -> Batches]
  BY DEF RowsOf, World, BaseType
<1>2. PICK p \in payloads : p.id = row.payload_id /\ p.request_id = r
  BY DEF RowsOf
<1>3. e.id = p.id /\ e.date = row.day
  BY <1>2 DEF EntryOf, LabelledId
<1>4. \A q \in payloads : q.id = p.id => q.request_id = r
  BY <1>2 DEF World, TablesInv
<1>5. OwnId(r, p.id)
  <2>1. p.id <= nextId["payloads"]
    BY DEF World, TablesInv
  <2>2. \A t \in Tasks : TxOf(t, "payloads") => p.id # tx[t].id
    BY ApartIs
  <2> QED
    BY <1>4, <2>1, <2>2 DEF OwnId
<1>6. Real(r, p.id)
  BY <1>2 DEF Real
<1>7. row.task \in Tasks /\ row.pos \in DOMAIN batch[row.task] /\ m.request_id = r /\ m.day = row.day
  BY <1>1, <1>2, <1>4 DEF Attribution, StatusRow
<1>8. m \in Message
  BY <1>1, <1>7, BatchIs DEF Source
<1>9. ASSUME NEW k \in Columns PROVE e.name[k] = m.name[k]
  <2>1. e.name[k] = IF row.ids[k] = NoId THEN None ELSE (CHOOSE n \in call[c].names[k] : n.id = row.ids[k]).name
    BY DEF EntryOf
  <2>2. CASE m.name[k] = None
    BY <1>1, <2>1, <2>2 DEF Attribution
  <2>3. CASE m.name[k] # None
    <3>1. [id |-> row.ids[k], name |-> m.name[k]] \in names[k]
      BY <1>1, <2>3 DEF Attribution
    <3>2. row.ids[k] # NoId
      BY <3>1 DEF World, BaseType, NameRow
    <3> DEFINE n == CHOOSE x \in call[c].names[k] : x.id = row.ids[k]
    <3>3. n \in call[c].names[k] /\ n.id = row.ids[k]
      BY <3>2 DEF Named
    <3>4. n \in redisNames[k]
      BY <3>3 DEF CallTrue
    <3> HIDE DEF n
    <3>5. n.name = m.name[k]
      BY <3>1, <3>3, <3>4 DEF World, RedisTrue
    <3> QED
      BY <2>1, <3>2, <3>5 DEF n
  <2> QED
    BY <2>2, <2>3
<1>10. e.name = m.name
  <2>1. e.name = [k \in Columns |-> e.name[k]]
    BY DEF EntryOf
  <2>2. m.name = [k \in Columns |-> m.name[k]]
    BY <1>8 DEF Message
  <2> QED
    BY <1>9, <2>1, <2>2
<1>11. OfMessage(r, e)
  BY <1>3, <1>7, <1>10 DEF OfMessage, Source
<1> QED
  BY <1>3, <1>5, <1>6, <1>11 DEF EntryFor

LEMMA RequestKept ==
    ASSUME batch' = batch, NEW c \in Clients, idx'[c[1]] = idx[c[1]] \/ c[2] # 0
    PROVE  RequestOf(c)' = RequestOf(c)
BY DEF RequestOf, Msg

(* The answer that a client puts together is one of messages of its request. *)
LEMMA GetsTrue ==
    ASSUME World, CacheType', Keeps, Attribution, NEW c \in Clients, Gets(c),
           NEW owner, Owned(owner), CallTrue(c), RequestOf(c)' = RequestOf(c)
    PROVE  CallTrue(c)'
<1> DEFINE data == call'[c].data
<1>1. PICK r : r = RequestOf(c)
  OBVIOUS
<1>2. redisNames' = redisNames
  BY DEF Gets, ClientStep
<1>3. \A k \in Columns : call'[c].names[k] \subseteq redisNames'[k]
  BY <1>2 DEF Gets, CallTrue
<1>4. Len(data) \in Nat /\ \A i \in 1..Len(data) : data[i] \in Entry
  <2>1. CacheType' => \A d \in Clients : Len(call'[d].data) \in Nat /\ \A i \in 1..Len(call'[d].data) : call'[d].data[i] \in Entry
    BY DEF CacheType, CacheTypeOK
  <2> QED
    BY <2>1
<1>5. \A i \in 1..Len(data) : EntryFor(r, data[i]) 
  <2>1. CASE data \in {<<>>, call[c].data}
    BY <1>1, <2>1 DEF CallTrue
  <2>2. CASE FromRows(c)
    BY <1>1, <2>2, EntryOfTrue DEF FromRows
  <2>3. CASE FromList(c)
    <3>1. call[c].hash \in 1..Len(lists) /\ owner[call[c].hash] = r
      BY <1>1, <2>3, CallIs DEF FromList, Owned, NoHash, World
    <3> QED
      BY <2>3, <3>1 DEF FromList, Owned
  <2> QED
    BY <2>1, <2>2, <2>3 DEF Gets
<1>6. ASSUME NEW i \in 1..Len(data) PROVE EntryFor(RequestOf(c), call[c].data[i])'
  <2>1. PICK e : e = data[i]
    OBVIOUS
  <2>2. EntryFor(r, e) /\ e.id \in Nat
    BY <1>4, <1>5, <2>1 DEF Entry
  <2>3. EntryFor(r, e)'
    BY <2>2, EntryKept
  <2> QED
    BY <1>1, <2>1, <2>3 DEF EntryFor, OwnId, Real, OfMessage
<1> QED
  BY <1>3, <1>6 DEF CallTrue

-----------------------------------------------------------------------------
(* A client that does not move. *)
LEMMA CallKept ==
    ASSUME World, Keeps, NEW c \in Clients, call'[c] = call[c], CallTrue(c), RequestOf(c)' = RequestOf(c)
    PROVE  CallTrue(c)'
<1>1. PICK r : r = RequestOf(c)
  OBVIOUS
<1>2. \A i \in 1..Len(call[c].data) : call[c].data[i] \in Entry
  BY CallIs DEF World
<1>3. ASSUME NEW i \in 1..Len(call[c].data) PROVE EntryFor(RequestOf(c), call[c].data[i])'
  <2>1. PICK e : e = call[c].data[i]
    OBVIOUS
  <2>2. EntryFor(r, e) /\ e.id \in Nat
    BY <1>1, <1>2, <2>1 DEF CallTrue, Entry
  <2>3. EntryFor(r, e)'
    BY <2>2, EntryKept
  <2> QED
    BY <1>1, <2>1, <2>3 DEF EntryFor, OwnId, Real, OfMessage
<1>4. \A k \in Columns : call[c].names[k] \subseteq redisNames'[k]
  BY DEF CallTrue, Keeps
<1> QED
  BY <1>3, <1>4 DEF CallTrue

LEMMA NoCallTrue == ASSUME NEW c, call[c] = NoCall PROVE CallTrue(c)
BY DEF NoCall, CallTrue

LEMMA EntriesKept ==
    ASSUME World, Keeps, NEW owner, Owned(owner), NEW h \in 1..Len(lists), NEW i \in 1..Len(lists[h])
    PROVE  LET e == lists[h][i] IN /\ e.id \in Nat
                                   /\ \A x : x.id = e.id /\ x.date = e.date /\ x.name = e.name => EntryFor(owner[h], x)'
<1>1. lists \in Seq(Seq(Entry))
  BY CacheListsAre DEF CacheLists, World
<1>2. lists[h] \in Seq(Entry)
  BY <1>1
<1>3. lists[h][i] \in Entry
  BY <1>2
<1>4. PICK e : e = lists[h][i]
  OBVIOUS
<1>5. PICK r : r = owner[h]
  OBVIOUS
<1>6. EntryFor(r, e) /\ e.id \in Nat
  BY <1>3, <1>4, <1>5 DEF Owned, Entry
<1>7. EntryFor(r, e)'
  BY <1>6, EntryKept
<1>8. ASSUME NEW x, x.id = e.id, x.date = e.date, x.name = e.name PROVE EntryFor(r, x)'
  BY <1>7, <1>8 DEF EntryFor, OfMessage
<1> QED
  BY <1>4, <1>5, <1>6, <1>8

(* The client that asks the cache for something. *)
LEMMA GetsOwned ==
    ASSUME World, CacheType', Keeps, Attribution, NEW c \in Clients, RequestOf(c) \in RequestIds, Gets(c),
           NEW owner, Owned(owner), CallTrue(c), \A d \in Clients : RequestOf(d)' = RequestOf(d)
    PROVE  \E o \in [1..Len(lists') -> RequestIds] : Owned(o)'
<1>1. PICK r \in RequestIds : r = RequestOf(c)
  OBVIOUS
<1>2. /\ CacheLists /\ CacheLists' /\ Len(lists) \in Nat
      /\ \A d \in Clients \ {c} : call'[d] = call[d]
  BY CacheListsAre DEF Gets, ClientStep, CacheLists, World
<1>3. /\ owner \in [1..Len(lists) -> RequestIds]
      /\ \A h \in 1..Len(lists) : \A i \in 1..Len(lists[h]) : EntryFor(owner[h], lists[h][i])
      /\ \A q \in RequestIds : pointer[q] # NoHash => owner[pointer[q]] = q
      /\ \A d \in Clients : call[d].hash # NoHash => owner[call[d].hash] = RequestOf(d)
  BY DEF Owned
<1>4. \A d \in Clients : call[d].hash \in 0..Len(lists)
  BY <1>2 DEF CacheLists, CallRec
<1>5. \A q \in RequestIds : pointer[q] \in 0..Len(lists)
  BY <1>2 DEF CacheLists
<1>6. ASSUME NEW d \in Clients, call'[d].hash # NoHash
      PROVE  call'[d].hash \in 1..Len(lists) /\ owner[call'[d].hash] = RequestOf(d)
  <2>1. CASE d = c
    <3>1. call'[c].hash \in {pointer[r], call[c].hash}
      BY <1>1, <1>6, <2>1 DEF Gets
    <3> QED
      BY <1>1, <1>3, <1>4, <1>5, <1>6, <2>1, <3>1 DEF NoHash
  <2>2. CASE d # c
    BY <1>2, <1>3, <1>4, <1>6, <2>2 DEF NoHash
  <2> QED
    BY <2>1, <2>2
<1>7. ASSUME NEW h \in 1..Len(lists), NEW i \in 1..Len(lists[h])
      PROVE  \A x : x.id = lists[h][i].id /\ x.date = lists[h][i].date /\ x.name = lists[h][i].name
                => EntryFor(owner[h], x)'
  BY EntriesKept
<1>8. CASE UNCHANGED <<pointer, lists>>
  <2>1. \A h \in 1..Len(lists') : \A i \in 1..Len(lists'[h]) : EntryFor(owner[h], lists[h][i])'
    <3> SUFFICES ASSUME NEW h \in 1..Len(lists), NEW i \in 1..Len(lists[h]) PROVE EntryFor(owner[h], lists[h][i])'
      BY <1>8
    <3>1. PICK x : x = lists[h][i]
      OBVIOUS
    <3>2. EntryFor(owner[h], x)'
      BY <1>7, <3>1
    <3> QED
      BY <1>8, <3>1, <3>2 DEF EntryFor, OwnId, Real, OfMessage
  <2>2. Owned(owner)'
    BY <1>3, <1>6, <1>8, <2>1 DEF Owned
  <2> QED
    BY <1>3, <1>8, <2>2
<1>9. CASE Swapped(c)
  <2>1. PICK list \in Seq(Entry) : /\ lists' = Append(lists, list)
             /\ \A i \in 1..Len(list) : \E j \in 1..Len(call[c].data) : list[i] = call[c].data[j]
    BY <1>9 DEF Swapped
  <2>2. /\ Len(lists') = Len(lists) + 1 /\ (\A h \in 1..Len(lists) : lists'[h] = lists[h])
        /\ lists'[Len(lists) + 1] = list
    BY <1>2, <2>1, Longer
  <2>3. pointer' = [pointer EXCEPT ![r] = Len(lists) + 1]
    BY <1>1, <1>9 DEF Swapped
  <2>4. PICK n \in Nat : n = Len(lists)
    BY <1>2
  <2> DEFINE o == [h \in 1..(n + 1) |-> IF h <= n THEN owner[h] ELSE r]
  <2>5. /\ o \in [1..(n + 1) -> RequestIds] /\ o[n + 1] = r /\ \A h \in 1..n : o[h] = owner[h]
    BY <1>3, <2>4
  <2> HIDE DEF o
  <2>6. PICK p : p = o
    OBVIOUS
  <2>7. ASSUME NEW h \in 1..(n + 1), NEW i \in 1..Len(lists'[h]) PROVE EntryFor(p[h], lists[h][i])'
    <3>1. PICK x : x = lists'[h][i]
      OBVIOUS
    <3>2. CASE h \in 1..n
      <4>1. x = lists[h][i] /\ p[h] = owner[h] /\ i \in 1..Len(lists[h])
        BY <2>2, <2>4, <2>5, <2>6, <3>1, <3>2
      <4>2. EntryFor(owner[h], x)'
        BY <1>7, <2>4, <3>2, <4>1
      <4> QED
        BY <3>1, <4>1, <4>2 DEF EntryFor, OwnId, Real, OfMessage
    <3>3. CASE h = n + 1
      <4>1. p[h] = r /\ \E j \in 1..Len(call[c].data) : x = call[c].data[j]
        BY <2>1, <2>2, <2>4, <2>5, <2>6, <3>1, <3>3
      <4>2. EntryFor(r, x) /\ x.id \in Nat
        BY <1>1, <4>1, CallIs DEF CallTrue, Entry, World
      <4>3. EntryFor(r, x)'
        BY <4>2, EntryKept
      <4> QED
        BY <3>1, <4>1, <4>3 DEF EntryFor, OwnId, Real, OfMessage
    <3> QED
      BY <2>4, <3>2, <3>3
  <2>8. \A q \in RequestIds : pointer'[q] # NoHash => p[pointer'[q]] = q
    <3> SUFFICES ASSUME NEW q \in RequestIds, pointer'[q] # NoHash PROVE p[pointer'[q]] = q
      OBVIOUS
    <3>1. CASE q = r
      BY <1>2, <2>3, <2>4, <2>5, <2>6, <3>1 DEF CacheLists
    <3>2. CASE q # r
      <4>1. pointer'[q] = pointer[q] /\ pointer[q] \in 1..n
        BY <1>2, <1>5, <2>3, <2>4, <3>2 DEF CacheLists, NoHash
      <4> QED
        BY <1>3, <2>5, <2>6, <4>1
    <3> QED
      BY <3>1, <3>2
  <2>9. \A d \in Clients : call'[d].hash # NoHash => p[call'[d].hash] = RequestOf(d)'
    BY <1>6, <2>4, <2>5, <2>6
  <2>10. Owned(p)'
    BY <2>2, <2>4, <2>5, <2>6, <2>7, <2>8, <2>9 DEF Owned
  <2> QED
    BY <2>2, <2>4, <2>5, <2>6, <2>10
<1> QED
  BY <1>8, <1>9 DEF Gets

-----------------------------------------------------------------------------
(* A step after which the hashes belong to whom they did. *)
Follows(d) ==
    \/ call'[d] = NoCall
    \/ call'[d] = call[d] /\ RequestOf(d)' = RequestOf(d)

LEMMA OwnersStay ==
    ASSUME World, NEW owner, Owned(owner), pointer' = pointer, Len(lists') = Len(lists),
           \A h \in 1..Len(lists) : \A i \in 1..Len(lists'[h]) : EntryFor(owner[h], lists[h][i])',
           \A d \in Clients : \/ Follows(d)
                              \/ /\ call'[d].hash = pointer[RequestOf(d)] /\ RequestOf(d)' = RequestOf(d)
                                 /\ RequestOf(d) \in RequestIds
    PROVE  \E o \in [1..Len(lists') -> RequestIds] : Owned(o)'
<1>1. owner \in [1..Len(lists) -> RequestIds]
  BY DEF Owned
<1>2. ASSUME NEW d \in Clients, call'[d].hash # NoHash PROVE owner[call'[d].hash] = RequestOf(d)'
  BY <1>2 DEF Follows, NoCall, Owned
<1>3. Owned(owner)'
  BY <1>1, <1>2 DEF Owned
<1> QED
  BY <1>1, <1>3

LEMMA CallsFollow ==
    ASSUME World, Keeps, NEW d \in Clients, CallTrue(d), Follows(d)
    PROVE  CallTrue(d)'
<1>1. CASE call'[d] = NoCall
  BY <1>1 DEF NoCall, CallTrue
<1>2. CASE call'[d] = call[d] /\ RequestOf(d)' = RequestOf(d)
  BY <1>2, CallKept
<1> QED
  BY <1>1, <1>2 DEF Follows

(* A step that leaves the lists alone, or only lets messages expire. *)
LEMMA ListsOwned ==
    ASSUME World, Keeps, NEW owner, Owned(owner), pointer' = pointer,
           lists' = lists \/ Fades,
           \A d \in Clients : Follows(d)
    PROVE  \E o \in [1..Len(lists') -> RequestIds] : Owned(o)'
<1>1. Len(lists') = Len(lists)
  BY DEF Fades
<1>2. ASSUME NEW h \in 1..Len(lists), NEW i \in 1..Len(lists'[h]) PROVE EntryFor(owner[h], lists[h][i])'
  <2>1. PICK x : x = lists'[h][i]
    OBVIOUS
  <2>2. \E j \in 1..Len(lists[h]) : x.id = lists[h][j].id /\ x.date = lists[h][j].date /\ x.name = lists[h][j].name
    BY <2>1 DEF Fades
  <2>3. EntryFor(owner[h], x)'
    BY <2>2, EntriesKept
  <2> QED
    BY <2>1, <2>3 DEF EntryFor, OwnId, Real, OfMessage
<1> QED
  BY <1>1, <1>2, OwnersStay

(* The message that set puts in front of the list of its request. *)
LEMMA PushedTrue ==
    ASSUME World, NEW t \in Tasks, CachedSet(t), AfterSet(t), LocalsTrue(t), Keeps,
           NEW r, r = Msg(t).request_id, NEW x, x = Pushed(Msg(t), dump[t].id)
    PROVE  EntryFor(r, x)'
<1>1. pc[t] = "set" /\ dump[t].id \in Ids
  BY DEF CachedSet, LocalsTrue
<1>2. PICK id : id = dump[t].id
  OBVIOUS
<1>3. x.id = id /\ x.date = Msg(t).day /\ x.name = Msg(t).name
  BY <1>2 DEF Pushed
<1>4. OwnId(r, id)'
  BY <1>1, <1>2 DEF LocalsTrue, Keeps
<1>5. Real(r, id)'
  <2>1. CASE tx[t] = NoRow
    BY <1>1, <1>2, <2>1 DEF LocalsTrue, Keeps
  <2>2. CASE tx[t] # NoRow
    <3>1. pc'[t] = "commit"
      BY <2>2, AfterSetShape DEF Moves, World
    <3>2. tx'[t] = tx[t]
      BY <1>1, <3>1, StepTx DEF World, CachedStep, Closed, Opened, Stays
    <3>3. TxOf(t, "payloads") /\ tx[t].key = r /\ tx[t].id = id
      BY <1>1, <1>2, <2>2, OpenPayloadIs DEF World, TxTrue, OpenPayload
    <3> QED
      BY <3>1, <3>2, <3>3 DEF Real, TxOf
  <2> QED
    BY <2>1, <2>2
<1>6. OfMessage(r, x)'
  <2>1. idx[t] \in DOMAIN batch[t]
    BY <1>1, MessageIs DEF World
  <2>2. batch' = batch
    BY DEF Keeps
  <2> QED
    BY <1>3, <2>1, <2>2 DEF OfMessage, Msg
<1> QED
  BY <1>3, <1>4, <1>5, <1>6 DEF EntryFor

LEMMA SetOwned ==
    ASSUME World, NEW t \in Tasks, CachedSet(t), LocalsTrue(t), NEW owner, Owned(owner),
           \A d \in Clients : CallTrue(d)
    PROVE  /\ \E o \in [1..Len(lists') -> RequestIds] : Owned(o)'
           /\ \A d \in Clients : CallTrue(d)'
<1> DEFINE c == Coroutine(t)
<1>1. pc[t] = "set" /\ dump[t].id \in Ids /\ CachedStep(t)
  BY DEF CachedSet, LocalsTrue, CachedStep
<1>2. Sets(t) /\ Shape(t) /\ Position(t) /\ Keeps /\ c \in Clients /\ CacheLists
  BY <1>1, SetSets, StepShape, StepPosition, StepKeeps, ClientsAre, CacheListsAre DEF World
<1>3. batch' = batch /\ \A s \in Tasks \ {t} : idx'[s] = idx[s]
  BY <1>2 DEF Shape, Changes
<1>4. \A d \in Clients \ {c} : RequestOf(d)' = RequestOf(d) /\ call'[d] = call[d]
  <2> SUFFICES ASSUME NEW d \in Clients \ {c} PROVE RequestOf(d)' = RequestOf(d)
    BY <1>2 DEF Sets, ClientStep
  <2>1. idx'[d[1]] = idx[d[1]] \/ d[2] # 0
    BY <1>3, ClientsAre
  <2> QED
    BY <1>3, <2>1, RequestKept
<1>5. RequestOf(c) = Msg(t).request_id /\ RequestOf(c) \in RequestIds
  BY <1>1, MessageIs, ClientsAre DEF RequestOf, Message, World
<1>6. \/ call'[c] = NoCall
      \/ /\ call'[c].hash = pointer[RequestOf(c)] /\ call'[c].data = <<>> /\ (\A k \in Columns : call'[c].names[k] = {})
         /\ RequestOf(c)' = RequestOf(c)
  <2>1. ASSUME pc'[t] \in Calling PROVE RequestOf(c)' = RequestOf(c)
    <3>1. idx'[t] = idx[t]
      BY <1>2, <2>1 DEF Position, Calling
    <3> QED
      BY <1>2, <1>3, <3>1, RequestKept, ClientsAre
  <2> QED
    BY <1>2, <2>1 DEF Sets
<1>7. \A d \in Clients : CallTrue(d)'
  <2>1. \A d \in Clients \ {c} : CallTrue(d)'
    BY <1>2, <1>4, CallKept
  <2>2. CallTrue(c)'
    BY <1>6 DEF CallTrue, NoCall
  <2> QED
    BY <2>1, <2>2
<1>8. \A d \in Clients : \/ Follows(d)
                         \/ /\ call'[d].hash = pointer[RequestOf(d)] /\ RequestOf(d)' = RequestOf(d)
                            /\ RequestOf(d) \in RequestIds
  BY <1>4, <1>5, <1>6 DEF Follows
<1>9. CASE UNCHANGED <<pointer, lists>>
  <2>1. ASSUME NEW h \in 1..Len(lists), NEW i \in 1..Len(lists'[h]) PROVE EntryFor(owner[h], lists[h][i])'
    <3>1. PICK x : x = lists'[h][i]
      OBVIOUS
    <3>2. EntryFor(owner[h], x)'
      BY <1>2, <1>9, <3>1, EntriesKept
    <3> QED
      BY <3>1, <3>2 DEF EntryFor, OwnId, Real, OfMessage
  <2> QED
    BY <1>7, <1>8, <1>9, <2>1, OwnersStay
<1>10. CASE Push(c, Msg(t), dump[t].id) /\ AfterSet(t)
  <2>1. Msg(t) \in Message
    BY <1>1, MessageIs DEF World
  <2>2. /\ Len(lists') = Len(lists) /\ pointer' = pointer
        /\ \A h \in 1..Len(lists) : h # call[c].hash => lists'[h] = lists[h]
        /\ call[c].hash # NoHash => \A i \in 1..Len(lists'[call[c].hash]) :
              \/ lists'[call[c].hash][i] = Pushed(Msg(t), dump[t].id)
              \/ \E j \in 1..Len(lists[call[c].hash]) : lists'[call[c].hash][i] = lists[call[c].hash][j]
    BY <1>1, <1>2, <1>10, <2>1, PushIs
  <2>3. ASSUME NEW h \in 1..Len(lists), NEW i \in 1..Len(lists'[h]) PROVE EntryFor(owner[h], lists[h][i])'
    <3>1. PICK x : x = lists'[h][i]
      OBVIOUS
    <3>2. CASE \E j \in 1..Len(lists[h]) : x = lists[h][j]
      <4>1. EntryFor(owner[h], x)'
        BY <1>2, <3>2, EntriesKept
      <4> QED
        BY <3>1, <4>1 DEF EntryFor, OwnId, Real, OfMessage
    <3>3. CASE h = call[c].hash /\ x = Pushed(Msg(t), dump[t].id)
      <4>1. owner[h] = RequestOf(c)
        BY <1>2, <3>3 DEF Owned, NoHash
      <4>2. EntryFor(owner[h], x)'
        BY <1>2, <1>5, <1>10, <3>3, <4>1, PushedTrue
      <4> QED
        BY <3>1, <4>2 DEF EntryFor, OwnId, Real, OfMessage
    <3> QED
      BY <2>2, <3>1, <3>2, <3>3 DEF NoHash
  <2> QED
    BY <1>7, <1>8, <2>2, <2>3, OwnersStay
<1> QED
  BY <1>2, <1>9, <1>10 DEF Sets

LEMMA TaskOwned ==
    ASSUME World, NEW t \in Tasks, CachedStep(t), LocalsTrue(t), Attribution, NEW owner, Owned(owner),
           \A d \in Clients : CallTrue(d)
    PROVE  /\ \E o \in [1..Len(lists') -> RequestIds] : Owned(o)'
           /\ \A d \in Clients : CallTrue(d)'
<1> DEFINE c == Coroutine(t)
<1>1. /\ Frames(t) /\ Shape(t) /\ Position(t) /\ Keeps /\ c \in Clients /\ TaskClient(t) /\ World'
  <2>1. pc[t] = "set" => dump[t].id \in Ids
    BY DEF LocalsTrue
  <2> QED
    BY <2>1, StepFrames, StepShape, StepPosition, StepKeeps, ClientsAre, StepClient, WorldStep DEF World
<1>2. batch' = batch /\ \A s \in Tasks \ {t} : idx'[s] = idx[s]
  BY <1>1 DEF Shape, Changes
<1>3. \A d \in Clients \ {c} : RequestOf(d)' = RequestOf(d)
  <2> SUFFICES ASSUME NEW d \in Clients \ {c} PROVE RequestOf(d)' = RequestOf(d)
    OBVIOUS
  <2>1. idx'[d[1]] = idx[d[1]] \/ d[2] # 0
    BY <1>2, ClientsAre
  <2> QED
    BY <1>2, <2>1, RequestKept
<1>4. CASE CallCache(t)
  <2>1. GetStep(c) /\ idx' = idx /\ pc[t] \in Calling
    BY <1>4 DEF CallCache, Calling
  <2>2. RequestOf(c) \in RequestIds
    BY <1>1, <2>1, ActiveRequest, ClientsAre DEF World, Active
  <2>3. Gets(c)
    BY <1>1, <2>1, <2>2, GetGets DEF World
  <2>4. \A d \in Clients : RequestOf(d)' = RequestOf(d)
    BY <1>2, <2>1, RequestKept
  <2>5. CacheType'
    BY <1>1 DEF World
  <2>6. \E o \in [1..Len(lists') -> RequestIds] : Owned(o)'
    BY <1>1, <2>2, <2>3, <2>4, <2>5, GetsOwned
  <2>7. \A d \in Clients \ {c} : call'[d] = call[d]
    BY <2>3 DEF Gets, ClientStep
  <2>8. \A d \in Clients \ {c} : CallTrue(d)'
    BY <1>1, <2>4, <2>7, CallKept
  <2>9. CallTrue(c)'
    BY <1>1, <2>3, <2>4, <2>5, GetsTrue
  <2> QED
    BY <2>6, <2>8, <2>9
<1>5. CASE CachedSet(t)
  BY <1>5, SetOwned
<1>6. CASE ~CallCache(t) /\ ~CachedSet(t)
  <2>1. UNCHANGED <<pointer, lists>>
    BY <1>1, <1>6 DEF Frames
  <2>2. call'[c] = call[c] \/ call'[c] = NoCall
    <3>1. CASE CachedGet(t) \/ CachedReget(t) \/ CachedGetFails(t)
      <4>1. EndCall(t)
        BY <3>1 DEF CachedGet, CachedReget, CachedGetFails
      <4> QED
        BY <1>1, <4>1, EndsIs DEF EndCall, World
    <3> QED
      BY <1>1, <1>6, <3>1 DEF Frames
  <2>3. pc'[t] \in Calling => RequestOf(c)' = RequestOf(c)
    <3>1. pc'[t] \in Calling => idx'[t] = idx[t]
      BY <1>1 DEF Position, Calling
    <3> QED
      BY <1>1, <1>2, <3>1, RequestKept, ClientsAre
  <2>4. pc'[t] \notin Calling => call'[c] = NoCall
    BY <1>1 DEF TaskClient
  <2>5. \A d \in Clients : Follows(d)
    BY <1>1, <1>3, <2>2, <2>3, <2>4 DEF TaskClient, Follows
  <2> QED
    BY <1>1, <2>1, <2>5, ListsOwned, CallsFollow
<1> QED
  BY <1>4, <1>5, <1>6

-----------------------------------------------------------------------------
(* Attribution, row by row. *)
Belongs(r) ==
    /\ r.pos \in DOMAIN batch[r.task]
    /\ \E p \in payloads : p.id = r.payload_id /\ p.request_id = Source(r).request_id
    /\ \A c \in Columns :
          IF Source(r).name[c] = None THEN r.ids[c] = NoId
          ELSE [id |-> r.ids[c], name |-> Source(r).name[c]] \in names[c]
    /\ r.day = Source(r).day /\ r.day \in partitions

Widens ==
    /\ batch' = batch /\ partitions \subseteq partitions'
    /\ \A c \in Columns : names[c] \subseteq names'[c]
    /\ \A p \in payloads : \E q \in payloads' : q.id = p.id /\ q.request_id = p.request_id

LEMMA BelongsKept ==
    ASSUME Widens, NEW r, Belongs(r)
    PROVE  Belongs(r)'
<1>1. Source(r)' = Source(r) /\ DOMAIN batch'[r.task] = DOMAIN batch[r.task]
  BY DEF Widens, Source
<1>2. PICK p \in payloads : p.id = r.payload_id /\ p.request_id = Source(r).request_id
  BY DEF Belongs
<1>3. \E q \in payloads' : q.id = r.payload_id /\ q.request_id = Source(r).request_id
  BY <1>2 DEF Widens
<1>4. \A c \in Columns : IF Source(r).name[c] = None THEN r.ids[c] = NoId
                         ELSE [id |-> r.ids[c], name |-> Source(r).name[c]] \in names'[c]
  BY DEF Widens, Belongs
<1>5. r.pos \in DOMAIN batch[r.task] /\ r.day = Source(r).day /\ r.day \in partitions'
  BY DEF Widens, Belongs
<1> QED
  BY <1>1, <1>3, <1>4, <1>5 DEF Belongs

(* What Redis says of a name must be in the table for the row to be accepted, *)
(* and the table knows the id under the same name.                            *)
LEMMA RowBelongs ==
    ASSUME World, NEW t \in Tasks, pc[t] = "insert", LocalsTrue(t), Accepted(t), NEW b, NEW r, r = Row(t, b)
    PROVE  Belongs(r)
<1>1. /\ r.task = t /\ r.pos = idx[t] /\ r.payload_id = sps[t].payload_id
      /\ r.ids = sps[t].ids /\ r.day = Msg(t).day
  BY DEF Row
<1>2. Source(r) = Msg(t)
  BY <1>1 DEF Source, Msg
<1>3. idx[t] \in DOMAIN batch[t] /\ col[t] = 4
  BY MessageIs DEF World, CachedWorking, Storing
<1>4. \E p \in payloads : p.id = sps[t].payload_id /\ p.request_id = Msg(t).request_id
  <2>1. PICK p \in payloads : p.id = sps[t].payload_id
    BY DEF Accepted
  <2>2. OwnId(Msg(t).request_id, sps[t].payload_id)
    BY DEF LocalsTrue
  <2> QED
    BY <2>1, <2>2 DEF OwnId
<1>5. ASSUME NEW c \in Columns
      PROVE  IF Name(t, c) = None THEN sps[t].ids[c] = NoId
             ELSE [id |-> sps[t].ids[c], name |-> Name(t, c)] \in names[c]
  <2>1. \A i \in 1..3 : ResolvedInRedis(t, ColumnOrder[i])
    BY <1>3 DEF LocalsTrue, Storing, Resolving
  <2>2. ResolvedInRedis(t, c)
    BY <2>1 DEF Columns, ColumnOrder
  <2>3. ASSUME Name(t, c) # None PROVE [id |-> sps[t].ids[c], name |-> Name(t, c)] \in names[c]
    <3>1. PICK x \in redisNames[c] : x = [id |-> sps[t].ids[c], name |-> Name(t, c)]
      BY <2>2, <2>3 DEF ResolvedInRedis
    <3>2. x.id = sps[t].ids[c] /\ x.name = Name(t, c) /\ x.id # NoId
      BY <3>1, ListedIs DEF World
    <3>3. PICK n \in names[c] : n.id = sps[t].ids[c]
      BY <3>2 DEF Accepted
    <3>4. n.name = Name(t, c)
      BY <3>1, <3>2, <3>3 DEF World, RedisTrue
    <3>5. n \in NameRow
      BY DEF World, BaseType
    <3>6. n = [id |-> n.id, name |-> n.name]
      BY <3>5 DEF NameRow
    <3> QED
      BY <3>3, <3>4, <3>6
  <2> QED
    BY <2>2, <2>3 DEF ResolvedInRedis
<1>6. Msg(t).day \in partitions
  BY DEF Accepted
<1> QED
  BY <1>1, <1>2, <1>3, <1>4, <1>5, <1>6 DEF Belongs, Name

LEMMA StepWidens ==
    ASSUME World, NEW t \in Tasks, CachedStep(t)
    PROVE  Widens
<1>1. Grows(t) /\ Frames(t)
  BY StepGrows, StepFrames DEF World
<1>2. partitions \subseteq partitions'
  <2>1. CASE CreateTable(t)
    BY <2>1 DEF CreateTable
  <2>2. CASE ~CreateTable(t)
    BY <1>1, <2>2 DEF Frames
  <2> QED
    BY <2>1, <2>2
<1>3. \A p \in payloads : \E q \in payloads' : q.id = p.id /\ q.request_id = p.request_id
  BY <1>1 DEF Grows
<1> QED
  BY <1>1, <1>2, <1>3 DEF Widens, Grows, Frames

LEMMA AttributionKept ==
    ASSUME Widens, statuses' = statuses, Attribution
    PROVE  Attribution'
<1>1. \A r \in statuses : Belongs(r)
  BY DEF Attribution, Belongs
<1>2. \A r \in statuses' : Belongs(r)'
  BY <1>1, BelongsKept
<1> QED
  BY <1>2 DEF Attribution, Belongs

LEMMA CachedAttributionStep ==
    ASSUME World, NEW t \in Tasks, CachedStep(t), LocalsTrue(t), Attribution
    PROVE  Attribution'
<1>1. \A r \in statuses : Belongs(r)
  BY DEF Attribution, Belongs
<1>2. Widens /\ Frames(t)
  BY StepWidens, StepFrames
<1>3. CASE InsertStatus(t)
  <2>1. /\ statuses' \in {statuses, statuses \cup {Row(t, TRUE)}, statuses \cup {Row(t, FALSE)}}
        /\ statuses' # statuses => Accepted(t)
    BY <1>3, RowIs DEF World
  <2>2. ASSUME NEW r \in statuses' PROVE Belongs(r)
    <3>1. CASE r \in statuses
      BY <1>1, <3>1
    <3>2. CASE r \notin statuses
      <4>1. Accepted(t) /\ \E b \in BOOLEAN : r = Row(t, b)
        BY <2>1, <3>2
      <4>2. pc[t] = "insert"
        BY <1>3 DEF InsertStatus
      <4> QED
        BY <4>1, <4>2, RowBelongs
    <3> QED
      BY <3>1, <3>2
  <2>3. \A r \in statuses' : Belongs(r)'
    BY <1>2, <2>2, BelongsKept
  <2> QED
    BY <2>3 DEF Attribution, Belongs
<1>4. CASE ~InsertStatus(t)
  BY <1>2, <1>4, AttributionKept DEF Frames
<1> QED
  BY <1>3, <1>4

-----------------------------------------------------------------------------
(* The entries of a metrics task are messages of its pair. *)
LEMMA PairHas ==
    ASSUME BaseType, CacheType, NEW m \in Messages, CallTrue(m), NEW e \in OfSource(m)
    PROVE  \E x \in Pair(m) : MessageOf(x).day = e.date /\ MessageOf(x).name = e.name
<1>1. m \in Clients /\ m[2] # 0
  BY ClientsAre
<1>2. RequestOf(m) = MessageOf(m).request_id
  BY <1>1 DEF RequestOf, MessageOf
<1>3. e \in Entries(call[m].data) /\ \A c \in {"service", "source"} : e.name[c] = MessageOf(m).name[c]
  BY DEF OfSource, OfService
<1>4. PICK j \in 1..Len(call[m].data) : e = call[m].data[j]
  BY <1>1, <1>3, CallIs, EntriesAre
<1>5. OfMessage(RequestOf(m), e)
  <2>1. EntryFor(RequestOf(m), call[m].data[j])
    BY <1>4 DEF CallTrue
  <2> QED
    BY <1>4, <2>1 DEF EntryFor
<1>6. PICK t \in Tasks : \E i \in DOMAIN batch[t] :
         batch[t][i].request_id = RequestOf(m) /\ batch[t][i].day = e.date /\ batch[t][i].name = e.name
  BY <1>5 DEF OfMessage
<1>10. PICK i \in DOMAIN batch[t] :
         batch[t][i].request_id = RequestOf(m) /\ batch[t][i].day = e.date /\ batch[t][i].name = e.name
  BY <1>6
<1>7. i \in 1..LastPosition
  <2>1. DOMAIN batch[t] = 1..Len(batch[t]) /\ Len(batch[t]) \in Nat /\ Len(batch[t]) <= LastPosition
    BY BatchIs DEF BaseType
  <2> QED
    BY <1>10, <2>1, CacheAssumption
<1>8. PICK x : x = <<t, i>>
  OBVIOUS
<1>9. x \in Messages /\ x[1] = t /\ x[2] = i /\ MessageOf(x) = batch[t][i]
  BY <1>7, <1>8 DEF Messages, MessageOf
<1> QED
  BY <1>2, <1>3, <1>9, <1>10 DEF Pair

OfPair(m, d) ==
    /\ \E x, y \in Pair(m) : d = MessageOf(x).day - MessageOf(y).day
    /\ \E x, y \in Pair(m) :
          /\ MessageOf(x).name["status"] = Received /\ MessageOf(y).name["status"] = Success
          /\ d >= MessageOf(y).day - MessageOf(x).day

LEMMA ObservedOfPair ==
    ASSUME BaseType, CacheType, NEW m \in Messages, CallTrue(m), Observed(m) # None
    PROVE  OfPair(m, Observed(m))
<1> DEFINE E == OfSource(m)
<1>1. Passed(E) /\ Observed(m) = Elapsed(E)
  BY DEF Observed
<1>2. PICK r \in E, s \in E : r.name["status"] = Received /\ s.name["status"] = Success
  BY <1>1 DEF Passed
<1>3. E \subseteq Entries(call[m].data) /\ call[m].data \in Seq(Entry)
  BY CallIs, ClientsAre DEF OfSource, OfService
<1>4. PICK a \in E, b \in E : /\ Elapsed(E) = a.date - b.date
                              /\ \A e \in E : b.date <= e.date /\ e.date <= a.date
  BY <1>2, <1>3, ElapsedIs
<1>5. \A e \in E : e.date \in Int
  BY <1>2, <1>3, DatesRange
<1>6. PICK x \in Pair(m) : MessageOf(x).day = a.date
  BY PairHas
<1>7. PICK y \in Pair(m) : MessageOf(y).day = b.date
  BY PairHas
<1>8. PICK v \in Pair(m) : MessageOf(v).day = r.date /\ MessageOf(v).name = r.name
  BY PairHas
<1>9. PICK w \in Pair(m) : MessageOf(w).day = s.date /\ MessageOf(w).name = s.name
  BY PairHas
<1>10. Elapsed(E) = MessageOf(x).day - MessageOf(y).day
  BY <1>4, <1>6, <1>7
<1>11. a.date - b.date >= s.date - r.date
  <2> HIDE DEF E
  <2>1. s.date <= a.date /\ b.date <= r.date
    BY <1>4
  <2>2. a.date \in Int /\ b.date \in Int /\ s.date \in Int /\ r.date \in Int
    BY <1>5
  <2> QED
    BY <2>1, <2>2
<1>12. Elapsed(E) >= MessageOf(w).day - MessageOf(v).day
  BY <1>4, <1>8, <1>9, <1>11
<1> QED
  BY <1>1, <1>2, <1>8, <1>9, <1>10, <1>12 DEF OfPair

LEMMA PairKept == ASSUME batch' = batch, NEW m, NEW d, OfPair(m, d) PROVE OfPair(m, d)'
BY DEF OfPair, Pair, MessageOf

LEMMA ElapsedStays ==
    ASSUME batch' = batch, ElapsedOfPair, \A m \in Messages : metric'[m].elapsed = metric[m].elapsed
    PROVE  ElapsedOfPair'
<1> SUFFICES ASSUME NEW m \in Messages, metric'[m].elapsed # None,
                    NEW d, d = metric'[m].elapsed
             PROVE  OfPair(m, d)'
  BY DEF ElapsedOfPair, OfPair
<1>1. OfPair(m, d)
  BY DEF ElapsedOfPair, OfPair
<1> QED
  BY <1>1, PairKept

LEMMA ElapsedStep ==
    ASSUME BaseType, CacheType, NEW m \in Messages, CallTrue(m), Evaluated(m), batch' = batch, ElapsedOfPair
    PROVE  ElapsedOfPair'
<1> SUFFICES ASSUME NEW n \in Messages, metric'[n].elapsed # None,
                    NEW d, d = metric'[n].elapsed
             PROVE  OfPair(n, d)'
  BY DEF ElapsedOfPair, OfPair
<1>1. CASE d = metric[n].elapsed
  <2>1. OfPair(n, d)
    BY <1>1 DEF ElapsedOfPair, OfPair
  <2> QED
    BY <2>1, PairKept
<1>2. CASE n = m /\ d = Observed(m)
  <2>1. OfPair(n, d)
    BY <1>2, ObservedOfPair
  <2> QED
    BY <2>1, PairKept
<1> QED
  BY <1>1, <1>2 DEF Evaluated

-----------------------------------------------------------------------------
(* CachedInv is inductive: the parts are put together. *)

LEMMA InvParts ==
    CachedInv => /\ World /\ Attribution /\ ElapsedOfPair
                 /\ \A t \in Tasks : LocalsTrue(t)
                 /\ \E owner \in [1..Len(lists) -> RequestIds] : Owned(owner)
                 /\ \A c \in Clients : CallTrue(c)
BY DEF CachedInv, World

LEMMA InvNext ==
    ASSUME World', Attribution', ElapsedOfPair',
           \A t \in Tasks : LocalsTrue(t)',
           \E o \in [1..Len(lists') -> RequestIds] : Owned(o)',
           \A c \in Clients : CallTrue(c)'
    PROVE  CachedInv'
BY DEF CachedInv, World

(* A step that leaves the tasks and the name tables where they are. *)
LEMMA RestsTrue ==
    ASSUME World, BaseType', CacheType', Faults, Untouched, payloads' = payloads \/ Rewrites,
           UNCHANGED <<statuses, partitions>>, Attribution, \A t \in Tasks : LocalsTrue(t)
    PROVE  /\ World' /\ Keeps /\ Attribution' /\ \A t \in Tasks : LocalsTrue(t)'
           /\ \A c \in Clients : RequestOf(c)' = RequestOf(c)
<1>1. World' /\ Keeps
  BY WorldRests, RestsKeep
<1>2. Attribution'
  <2>1. Widens
    BY DEF Untouched, Rewrites, Widens
  <2> QED
    BY <2>1, AttributionKept
<1>3. \A t \in Tasks : LocalsTrue(t)'
  <2>1. \A t \in Tasks : Same(t)
    BY DEF Untouched, Same
  <2> QED
    BY <1>1, <2>1, LocalsKept DEF World
<1>4. \A c \in Clients : RequestOf(c)' = RequestOf(c)
  BY RequestKept DEF Untouched
<1> QED
  BY <1>1, <1>2, <1>3, <1>4

LEMMA TaskInv ==
    ASSUME CachedInv, NEW t \in Tasks, CachedStep(t)
    PROVE  CachedInv'
<1>1. /\ World /\ Attribution /\ ElapsedOfPair /\ \A s \in Tasks : LocalsTrue(s)
      /\ \A c \in Clients : CallTrue(c)
  BY InvParts
<1>2. PICK owner : Owned(owner)
  BY InvParts
<1>3. pc[t] = "set" => dump[t].id \in Ids
  BY <1>1 DEF LocalsTrue
<1>4. World' /\ Keeps /\ Shape(t) /\ Spawns
  BY <1>1, <1>3, WorldStep, StepKeeps, StepShape, StepSpawns DEF World
<1>5. ASSUME NEW s \in Tasks PROVE LocalsTrue(s)'
  <2>1. CASE s = t
    BY <1>1, <2>1, LocalsStep, ClientsAre
  <2>2. CASE s # t
    <3>1. Same(s)
      BY <1>4, <2>2 DEF Shape, Changes, Same
    <3> QED
      BY <1>1, <1>4, <3>1, LocalsKept DEF World
  <2> QED
    BY <2>1, <2>2
<1>6. /\ \E o \in [1..Len(lists') -> RequestIds] : Owned(o)'
      /\ \A d \in Clients : CallTrue(d)'
  BY <1>1, <1>2, TaskOwned
<1>7. Attribution'
  BY <1>1, CachedAttributionStep
<1>8. ElapsedOfPair'
  BY <1>1, <1>4, ElapsedStays DEF Spawns, Shape
<1> QED
  BY <1>4, <1>5, <1>6, <1>7, <1>8, InvNext

LEMMA MetricsInv ==
    ASSUME CachedInv, NEW m \in Messages, MetricsStep(m)
    PROVE  CachedInv'
<1>1. /\ World /\ Attribution /\ ElapsedOfPair /\ \A s \in Tasks : LocalsTrue(s)
      /\ \A c \in Clients : CallTrue(c)
  BY InvParts
<1>2. PICK owner : Owned(owner)
  BY InvParts
<1>3. m \in Clients /\ m[2] # 0 /\ m[1] \in Tasks
  BY ClientsAre
<1>4. /\ BaseType' /\ CacheType' /\ Faults
      /\ UNCHANGED <<dbVars, memVars, taskVars, dump, tx, redisNames>>
      /\ ClientStep(m)
      /\ \/ Gets(m) /\ metric' = metric
         \/ Evaluated(m) /\ call'[m] = NoCall /\ UNCHANGED <<pointer, lists>>
  BY <1>1, <1>3, MetricsTypes DEF World
<1>5. Untouched /\ UNCHANGED <<payloads, statuses, partitions>>
  BY <1>4 DEF Untouched, dbVars, taskVars
<1>6. /\ World' /\ Keeps /\ Attribution' /\ \A t \in Tasks : LocalsTrue(t)'
      /\ \A c \in Clients : RequestOf(c)' = RequestOf(c)
  BY <1>1, <1>4, <1>5, RestsTrue
<1>7. \A d \in Clients \ {m} : call'[d] = call[d]
  BY <1>4 DEF ClientStep
<1>8. CASE Gets(m) /\ metric' = metric
  <2>1. RequestOf(m) \in RequestIds
    <3>1. Active(m)
      BY <1>3 DEF MetricsStep, EvaluateStatusMetrics, Active
    <3> QED
      BY <1>1, <1>3, <3>1, ActiveRequest DEF World
  <2>2. \E o \in [1..Len(lists') -> RequestIds] : Owned(o)'
    BY <1>1, <1>2, <1>3, <1>4, <1>6, <1>8, <2>1, GetsOwned
  <2>3. \A d \in Clients \ {m} : CallTrue(d)'
    BY <1>1, <1>6, <1>7, CallKept
  <2>4. CallTrue(m)'
    BY <1>1, <1>2, <1>3, <1>4, <1>6, <1>8, GetsTrue
  <2>5. ElapsedOfPair'
    BY <1>1, <1>5, <1>8, ElapsedStays DEF Untouched
  <2> QED
    BY <1>6, <2>2, <2>3, <2>4, <2>5, InvNext
<1>9. CASE Evaluated(m) /\ call'[m] = NoCall /\ UNCHANGED <<pointer, lists>>
  <2>1. \A d \in Clients : Follows(d)
    BY <1>6, <1>7, <1>9 DEF Follows
  <2>2. \E o \in [1..Len(lists') -> RequestIds] : Owned(o)'
    BY <1>1, <1>2, <1>6, <1>9, <2>1, ListsOwned
  <2>3. \A d \in Clients : CallTrue(d)'
    BY <1>1, <1>6, <2>1, CallsFollow
  <2>4. ElapsedOfPair'
    BY <1>1, <1>3, <1>5, <1>9, ElapsedStep DEF Untouched, World
  <2> QED
    BY <1>6, <2>2, <2>3, <2>4, InvNext
<1> QED
  BY <1>4, <1>8, <1>9

(* A step of Redis or of an UPDATE, or none. *)
LEMMA RestInv ==
    ASSUME CachedInv, BaseType', CacheType', Faults, Untouched, payloads' = payloads \/ Rewrites,
           UNCHANGED <<statuses, partitions, pointer, call, metric>>, lists' = lists \/ Fades
    PROVE  CachedInv'
<1>1. /\ World /\ Attribution /\ ElapsedOfPair /\ \A s \in Tasks : LocalsTrue(s)
      /\ \A c \in Clients : CallTrue(c)
  BY InvParts
<1>2. PICK owner : Owned(owner)
  BY InvParts
<1>3. /\ World' /\ Keeps /\ Attribution' /\ \A t \in Tasks : LocalsTrue(t)'
      /\ \A c \in Clients : RequestOf(c)' = RequestOf(c)
  BY <1>1, RestsTrue
<1>4. \A d \in Clients : Follows(d)
  BY <1>3 DEF Follows
<1>5. \E o \in [1..Len(lists') -> RequestIds] : Owned(o)'
  BY <1>1, <1>2, <1>3, <1>4, ListsOwned
<1>6. \A d \in Clients : CallTrue(d)'
  BY <1>1, <1>3, <1>4, CallsFollow
<1>7. ElapsedOfPair'
  BY <1>1, ElapsedStays DEF Untouched
<1> QED
  BY <1>3, <1>5, <1>6, <1>7, InvNext

LEMMA CachedInvNext == CachedInv /\ [CachedNext]_cachedVars => CachedInv'
<1> SUFFICES ASSUME CachedInv, [CachedNext]_cachedVars PROVE CachedInv'
  OBVIOUS
<1>1. BaseType /\ CacheType
  BY DEF CachedInv
<1>2. ASSUME UNCHANGED cachedVars PROVE CachedInv'
  <2>1. /\ UNCHANGED <<vars, cacheVars, metric, dump, tx>>
    BY <1>2 DEF cachedVars
  <2>2. /\ UNCHANGED <<payloads, names, statuses, partitions, nextId, updates, batch, idx, pc, col, try, sps>>
        /\ UNCHANGED <<faults, faulted, pointer, lists, redisNames, call, expiries>>
    BY <2>1 DEF vars, dbVars, memVars, taskVars, faultVars, cacheVars
  <2>3. BaseType'
    BY <1>1, <2>1, <2>2 DEF BaseType
  <2>4. CacheType'
    BY <1>1, <2>1, <2>2 DEF CacheType, CacheTypeOK, MetricsTypeOK, Active
  <2>5. Faults
    BY <1>1, <2>2 DEF BaseType, Faults
  <2>6. Untouched
    BY <2>1, <2>2 DEF Untouched
  <2> QED
    BY <2>1, <2>2, <2>3, <2>4, <2>5, <2>6, RestInv
<1>3. CASE \E t \in Tasks : CachedStep(t)
  BY <1>3, TaskInv
<1>4. CASE \E m \in Messages : MetricsStep(m)
  BY <1>4, MetricsInv
<1>5. CASE Expire /\ UNCHANGED <<vars, metric, dump, tx>>
  <2>1. BaseType' /\ CacheType' /\ Fades
    BY <1>1, <1>5, ExpireTypes, ExpireFades
  <2>2. UNCHANGED <<payloads, names, statuses, partitions, nextId, batch, idx, pc, col, sps, faults, faulted>>
    BY <1>5 DEF vars, dbVars, taskVars, faultVars
  <2>3. Faults
    BY <1>1, <2>2 DEF BaseType, Faults
  <2>4. Untouched
    BY <1>5, <2>1, <2>2 DEF Untouched, Fades
  <2> QED
    BY <1>5, <2>1, <2>2, <2>3, <2>4, RestInv DEF Fades
<1>6. CASE (\E u \in updates : RunUpdate(u)) /\ UNCHANGED <<cacheVars, metric, dump, tx>>
  <2>1. PICK u \in updates : RunUpdate(u)
    BY <1>6
  <2>2. /\ BaseType' /\ CacheType' /\ Faults /\ (payloads' = payloads \/ Rewrites)
        /\ UNCHANGED <<names, statuses, partitions, nextId, taskVars>>
    BY <1>1, <1>6, <2>1, UpdateTypes
  <2>3. Untouched
    BY <1>6, <2>2 DEF Untouched, taskVars, cacheVars
  <2>4. UNCHANGED <<statuses, partitions, pointer, call, metric>> /\ lists' = lists
    BY <1>6, <2>2 DEF cacheVars
  <2> QED
    BY <2>2, <2>3, <2>4, RestInv
<1>7. CASE Terminated /\ UNCHANGED <<cacheVars, metric, dump, tx>>
  BY <1>2, <1>7 DEF Terminated, cachedVars
<1> QED
  BY <1>2, <1>3, <1>4, <1>5, <1>6, <1>7 DEF CachedNext

-----------------------------------------------------------------------------
LEMMA CachedInvInit == CachedInit => CachedInv
<1> SUFFICES ASSUME CachedInit PROVE CachedInv
  OBVIOUS
<1>1. Init /\ CacheInit /\ MetricsInit /\ dump = [t \in Tasks |-> EmptyDump] /\ tx = [t \in Tasks |-> NoRow]
  BY DEF CachedInit
<1>2. payloads = {} /\ statuses = {} /\ updates = {} /\ faulted = {} /\ names = Seeded /\ lists = <<>>
  BY <1>1 DEF Init, CacheInit
<1>3. BaseType
  <2>1. IsFiniteSet(statuses)
    BY <1>2, FS_EmptySet
  <2>2. EmptySps \in SpsType
    BY DEF EmptySps, SpsType
  <2>3. EmptyDump \in DumpType
    BY DEF EmptyDump, DumpType
  <2>4. /\ batch \in [Tasks -> Batches] /\ idx \in [Tasks -> Ids] /\ col \in [Tasks -> 1..4]
        /\ try \in [Tasks -> 1..3] /\ nextId \in [Tables -> Nat] /\ partitions \subseteq Days
        /\ faults \in 0..MaxFaults
    BY <1>1, ConstantsAssumption DEF Init
  <2>5. pc \in [Tasks -> CachedLocations]
    BY <1>1 DEF Init, CachedLocations, Locations
  <2>6. sps \in [Tasks -> SpsType] /\ dump \in [Tasks -> DumpType] /\ tx \in [Tasks -> TxRow \cup {NoRow}]
    BY <1>1, <2>2, <2>3 DEF Init
  <2>7. names \in [Columns -> SUBSET NameRow]
    BY <1>2, ConstantsAssumption
  <2> QED
    BY <1>2, <2>1, <2>4, <2>5, <2>6, <2>7 DEF BaseType, SpsType
<1>4. CacheType
  <2>1. NoCall \in CallRec(0) /\ NoCall.at = "idle"
    BY NoCallIs
  <2>2. call = [c \in Clients |-> NoCall] /\ Len(lists) = 0 /\ lists \in Seq(Seq(Entry))
    BY <1>1, <1>2 DEF CacheInit
  <2>3. call \in [Clients -> CallRec(Len(lists))]
    BY <2>1, <2>2
  <2>4. pointer \in [RequestIds -> 0..Len(lists)]
    BY <1>1, <2>2 DEF CacheInit, NoHash
  <2>5. redisNames \in [Columns -> SUBSET NameRow] /\ expiries \in 0..MaxExpiries
    BY <1>1, ConstantsAssumption, CacheAssumption DEF CacheInit
  <2>6. CacheTypeOK
    BY <2>2, <2>3, <2>4, <2>5 DEF CacheTypeOK, CallRec, CallAt
  <2>7. /\ MetricsTypeOK /\ \A m \in Messages : metric[m].at # "poll"
    BY <1>1, MetricsAssumption DEF MetricsInit, MetricsTypeOK
  <2>8. \A c \in Clients : call[c] = NoCall
    BY <2>2
  <2> QED
    BY <2>1, <2>6, <2>7, <2>8 DEF CacheType
<1>5. ASSUME NEW t \in Tasks PROVE CachedWorking(t) /\ TxTrue(t) /\ TxApart(t) /\ LocalsTrue(t)
  <2>1. pc[t] = "next" /\ idx[t] = 1 /\ \A u \in Tasks : tx[u] = NoRow
    BY <1>1 DEF Init
  <2>2. Len(batch[t]) \in Nat
    BY <1>3, BatchIs DEF BaseType
  <2>3. CachedWorking(t)
    BY <2>1, <2>2 DEF CachedWorking, Resolving, AtName, Storing
  <2>4. TxTrue(t) /\ TxApart(t) /\ LocalsTrue(t)
    BY <2>1 DEF TxTrue, TxApart, TxOf, LocalsTrue
  <2> QED
    BY <2>3, <2>4
<1>6. \A c \in Columns : names[c] = Seeded[c] /\ redisNames[c] = Seeded[c] /\ nextId[c] = SeedTop
  BY <1>1 DEF Init, CacheInit, Tables
<1>7. TablesInv
  BY <1>2, <1>6, ConstantsAssumption DEF TablesInv
<1>8. \A c \in Columns : RedisTrue(c)
  BY <1>6, ConstantsAssumption DEF RedisTrue
<1>9. \A c \in Clients : call[c] = NoCall
  BY <1>1 DEF CacheInit
<1>10. \E owner \in [1..Len(lists) -> RequestIds] : Owned(owner)
  <2> DEFINE owner == [h \in 1..Len(lists) |-> 0]
  <2>1. Len(lists) = 0 /\ 1..Len(lists) = {}
    BY <1>2
  <2>2. owner \in [1..Len(lists) -> RequestIds]
    BY <2>1
  <2>3. \A r \in RequestIds : pointer[r] = NoHash
    BY <1>1 DEF CacheInit
  <2>4. \A c \in Clients : call[c].hash = NoHash
    BY <1>9, NoCallIs
  <2> HIDE DEF owner
  <2> QED
    BY <2>1, <2>2, <2>3, <2>4 DEF Owned
<1>11. \A c \in Clients : CallTrue(c)
  BY <1>9, NoCallTrue
<1>12. Attribution /\ ElapsedOfPair
  <2>1. \A m \in Messages : metric[m].elapsed = None
    BY <1>1 DEF MetricsInit
  <2> QED
    BY <1>2, <2>1 DEF Attribution, ElapsedOfPair
<1> QED
  BY <1>3, <1>4, <1>5, <1>7, <1>8, <1>10, <1>11, <1>12 DEF CachedInv

(* CachedInv holds in every state: the pipeline with Redis never leaves it. *)
THEOREM CachedInvAlways == CachedSpec => []CachedInv
BY CachedInvInit, CachedInvNext, PTL DEF CachedSpec

-----------------------------------------------------------------------------
(* The counters and verdicts, which the invariant leaves alone. *)
Counts(t) == count' = count \/ \E K : Increment(t, K)
Judges(t) == verdict' = verdict \/ \E v \in Verdicts : verdict' = [verdict EXCEPT ![t][idx[t]] = v]
Remembers == UNCHANGED <<batch, cached, snapshot>>
Logs(t) == Counts(t) /\ Judges(t) /\ Remembers

LEMMA EndJudges ==
    ASSUME NEW t
    PROVE  /\ \A v \in Verdicts : Finish(t, v) => Judges(t)
           /\ \A loc : Goto(t, loc) => Judges(t)
           /\ Fail(t) => Counts(t) /\ Judges(t)
           /\ Rejected(t) => Counts(t) /\ Judges(t)
<1>1. /\ \A v \in Verdicts : Finish(t, v) => Judges(t)
      /\ \A loc : Goto(t, loc) => Judges(t)
  BY DEF Finish, Goto, Judges
<1>2. Fail(t) => Counts(t) /\ Judges(t)
  BY <1>1 DEF Fail, Counts, Verdicts
<1>3. Rejected(t) => Counts(t) /\ Judges(t)
  BY <1>1, <1>2 DEF Rejected, Retry, Counts
<1> QED
  BY <1>1, <1>2, <1>3

LEMMA ColumnJudges ==
    ASSUME NEW t
    PROVE  /\ AfterColumn(t) => Judges(t)
           /\ StartColumns(t) => Judges(t)
           /\ TakeDump(t) => Judges(t)
           /\ Rollback(t) => Judges(t)
           /\ AfterSet(t) => Judges(t)
<1>1. AfterColumn(t) => Judges(t)
  BY EndJudges DEF AfterColumn, NextColumn
<1>2. StartColumns(t) => Judges(t)
  BY EndJudges DEF StartColumns
<1> QED
  BY <1>1, <1>2, EndJudges DEF TakeDump, Rollback, AfterSet

LEMMA StepLogs ==
    ASSUME NEW t \in Tasks, CachedStep(t)
    PROVE  Logs(t)
<1>1. CASE SharedStep(t)
  <2>1. Remembers
    BY <1>1 DEF SharedStep, TakeMessage, EndOfBatch, InsertStatus, CheckPartition, CreateTable, memVars, Remembers
  <2>2. CASE TakeMessage(t)
    <3>1. Counts(t)
      BY <2>2 DEF TakeMessage, Counts
    <3>2. Judges(t)
      BY <2>2, EndJudges DEF TakeMessage, Verdicts
    <3> QED
      BY <2>1, <3>1, <3>2 DEF Logs
  <2>3. CASE EndOfBatch(t)
    BY <2>1, <2>3, EndJudges DEF EndOfBatch, Counts, Logs
  <2>4. CASE InsertStatus(t)
    <3>1. (Increment(t, {"success"}) /\ Finish(t, "success")) \/ Rejected(t)
      BY <2>4 DEF InsertStatus
    <3> QED
      BY <2>1, <3>1, EndJudges DEF Counts, Verdicts, Logs
  <2>5. CASE CheckPartition(t) \/ CreateTable(t)
    <3>1. UNCHANGED count /\ ((\E n : Retry(t, n)) \/ Goto(t, "create_table"))
      BY <2>5 DEF CheckPartition, CreateTable
    <3> QED
      BY <2>1, <3>1, EndJudges DEF Retry, Counts, Logs
  <2> QED
    BY <1>1, <2>2, <2>3, <2>4, <2>5 DEF SharedStep
<1>2. CASE CallCache(t)
  BY <1>2 DEF CallCache, Elsewhere, logVars, Counts, Judges, Remembers, Logs
<1>3. CASE CachedGet(t) \/ CachedReget(t) \/ CachedGetFails(t)
  <2>1. Remembers
    BY <1>3 DEF CachedGet, CachedReget, CachedGetFails, Elsewhere, Remembers
  <2>2. \/ UNCHANGED count /\ (TakeDump(t) \/ Goto(t, "create") \/ StartColumns(t))
        \/ Fail(t)
    BY <1>3 DEF CachedGet, CachedReget, CachedGetFails
  <2> QED
    BY <2>1, <2>2, EndJudges, ColumnJudges DEF Counts, Logs
<1>4. CASE CachedSet(t)
  <2>1. Remembers
    BY <1>4 DEF CachedSet, Elsewhere, Remembers
  <2>2. \/ UNCHANGED count /\ (Goto(t, "set") \/ AfterSet(t) \/ Rollback(t))
        \/ Fail(t)
    BY <1>4 DEF CachedSet
  <2> QED
    BY <2>1, <2>2, EndJudges, ColumnJudges DEF Counts, Logs
<1>5. CASE InsertPayload(t) \/ CommitPayload(t)
  <2>1. Remembers
    BY <1>5 DEF InsertPayload, CommitPayload, Elsewhere, Remembers
  <2>2. UNCHANGED count /\ (Goto(t, "set") \/ Goto(t, "reget") \/ StartColumns(t) \/ Rollback(t))
    BY <1>5 DEF InsertPayload, CommitPayload
  <2> QED
    BY <2>1, <2>2, EndJudges, ColumnJudges DEF Counts, Logs
<1>6. CASE CachedColumn(t) \/ CachedRecheck(t)
  <2>1. Remembers
    BY <1>6 DEF CachedColumn, CachedRecheck, Elsewhere, Remembers
  <2>2. \/ UNCHANGED count /\ (AfterColumn(t) \/ Goto(t, "add"))
        \/ Fail(t)
    BY <1>6 DEF CachedColumn, CachedRecheck
  <2> QED
    BY <2>1, <2>2, EndJudges, ColumnJudges DEF Counts, Logs
<1>7. CASE InsertName(t) \/ HsetName(t) \/ CommitName(t)
  <2>1. Remembers
    BY <1>7 DEF InsertName, HsetName, CommitName, Elsewhere, Remembers
  <2>2. /\ UNCHANGED count
        /\ Goto(t, "hset") \/ Goto(t, "recheck") \/ Goto(t, "commit_name") \/ AfterColumn(t)
    BY <1>7 DEF InsertName, HsetName, CommitName
  <2> QED
    BY <2>1, <2>2, EndJudges, ColumnJudges DEF Counts, Logs
<1> QED
  BY <1>1, <1>2, <1>3, <1>4, <1>5, <1>6, <1>7 DEF CachedStep

LEMMA LogsType ==
    ASSUME LogType, NEW t \in Tasks, Logs(t)
    PROVE  LogType'
<1>1. UNCHANGED <<batch, cached, snapshot>>
  BY DEF Logs, Remembers
<1>2. count' \in [Tasks -> [MsgCounts -> Nat]]
  <2>1. CASE count' = count
    BY <2>1 DEF LogType
  <2>2. ASSUME NEW K, Increment(t, K) PROVE count' \in [Tasks -> [MsgCounts -> Nat]]
    BY <2>2 DEF LogType, Increment
  <2> QED
    BY <2>1, <2>2 DEF Logs, Counts
<1>3. /\ verdict' = [s \in Tasks |-> verdict'[s]]
      /\ \A s \in Tasks : verdict'[s] \in [1..Len(batch[s]) -> Verdicts]
  <2>1. CASE verdict' = verdict
    BY <2>1 DEF LogType
  <2>2. ASSUME NEW v \in Verdicts, verdict' = [verdict EXCEPT ![t][idx[t]] = v]
        PROVE  /\ verdict' = [s \in Tasks |-> verdict'[s]]
               /\ \A s \in Tasks : verdict'[s] \in [1..Len(batch[s]) -> Verdicts]
    <3> DEFINE new == [verdict[t] EXCEPT ![idx[t]] = v]
    <3>1. verdict = [s \in Tasks |-> verdict[s]] /\ \A s \in Tasks : verdict[s] \in [1..Len(batch[s]) -> Verdicts]
      BY DEF LogType
    <3>2. new \in [1..Len(batch[t]) -> Verdicts]
      BY <3>1
    <3>3. verdict' = [verdict EXCEPT ![t] = new]
      BY <2>2
    <3> HIDE DEF new
    <3>4. verdict' = [s \in Tasks |-> IF s = t THEN new ELSE verdict[s]]
      BY ONLY <3>1, <3>3, t \in Tasks
    <3> QED
      BY <3>1, <3>2, <3>4
  <2> QED
    BY <2>1, <2>2 DEF Logs, Judges
<1> QED
  BY <1>1, <1>2, <1>3 DEF LogType

LEMMA LogTypeInit == CachedInit => LogType
<1> SUFFICES ASSUME CachedInit PROVE LogType
  OBVIOUS
<1>1. Init
  BY DEF CachedInit
<1>2. count \in [Tasks -> [MsgCounts -> Nat]]
  BY <1>1 DEF Init
<1>3. cached \in [Processes -> [Columns -> SUBSET NameRow]] /\ snapshot \in [Tasks -> SUBSET NameRow]
  BY <1>1, ConstantsAssumption DEF Init
<1>4. verdict = [t \in Tasks |-> [i \in 1..Len(batch[t]) |-> "waiting"]]
  BY <1>1 DEF Init
<1>5. ASSUME NEW t \in Tasks PROVE verdict[t] \in [1..Len(batch[t]) -> Verdicts]
  <2>1. verdict[t] = [i \in 1..Len(batch[t]) |-> "waiting"]
    BY <1>4
  <2>2. "waiting" \in Verdicts
    BY DEF Verdicts
  <2> QED
    BY <2>1, <2>2
<1> QED
  BY <1>2, <1>3, <1>4, <1>5 DEF LogType

LEMMA LogTypeNext == LogType /\ [CachedNext]_cachedVars => LogType'
<1> SUFFICES ASSUME LogType, [CachedNext]_cachedVars PROVE LogType'
  OBVIOUS
<1>1. ASSUME UNCHANGED <<count, verdict, batch, cached, snapshot>> PROVE LogType'
  BY <1>1 DEF LogType
<1>2. CASE \E t \in Tasks : CachedStep(t)
  BY <1>2, StepLogs, LogsType
<1>3. CASE \E m \in Messages : MetricsStep(m)
  BY <1>1, <1>3 DEF MetricsStep, memVars, taskVars, logVars
<1>4. CASE Expire /\ UNCHANGED <<vars, metric, dump, tx>>
  BY <1>1, <1>4 DEF vars, memVars, taskVars, logVars
<1>5. CASE \E u \in updates : RunUpdate(u)
  BY <1>1, <1>5 DEF RunUpdate, taskVars, logVars
<1>6. CASE Terminated \/ UNCHANGED cachedVars
  <2>1. UNCHANGED vars
    BY <1>6 DEF Terminated, cachedVars
  <2> QED
    BY <1>1, <2>1 DEF vars, memVars, taskVars, logVars
<1> QED
  BY <1>2, <1>3, <1>4, <1>5, <1>6 DEF CachedNext

(* Every variable has its type, those of StatusPipeline included, and no   *)
(* two open transactions have inserted one key: an INSERT waits for the    *)
(* other (Blocked).                                                        *)
THEOREM CachedTypeAlways == CachedSpec => []CachedTypeOK
<1>1. CachedInv /\ LogType => CachedTypeOK
  <2> SUFFICES ASSUME CachedInv, LogType PROVE CachedTypeOK
    OBVIOUS
  <2>1. World
    BY InvParts
  <2>2. ASSUME NEW t \in Tasks
        PROVE  /\ pc[t] \in {"hset", "commit", "commit_name"} => tx[t] # NoRow
               /\ tx[t] # NoRow => pc[t] \in {"set", "hset", "commit", "commit_name"}
    BY <2>1, NoTx DEF World, TxTrue
  <2>3. ASSUME NEW t \in Tasks, NEW u \in Tasks \ {t}, tx[t] # NoRow, tx[u] # NoRow
        PROVE  <<tx[t].table, tx[t].key>> # <<tx[u].table, tx[u].key>>
    BY <2>1, <2>3 DEF World, TxApart
  <2> QED
    BY <2>1, <2>2, <2>3 DEF CachedTypeOK, World, CacheType
<1>2. CachedSpec => []LogType
  BY LogTypeInit, LogTypeNext, PTL DEF CachedSpec
<1> QED
  BY <1>1, <1>2, CachedInvAlways, PTL

(* Attribution of StatusPipeline, with the ids taken from Redis. *)
THEOREM CachedAttributionAlways == CachedSpec => []Attribution
<1>1. CachedInv => Attribution
  BY DEF CachedInv
<1> QED
  BY <1>1, CachedInvAlways, PTL

(* cache.set before COMMIT: an id that the cache shows is the request's own. *)
THEOREM CachedIdsRealAlways == CachedSpec => []CachedIdsReal
<1>1. CachedInv => CachedIdsReal
  <2> SUFFICES ASSUME CachedInv, NEW r \in RequestIds, NEW e \in Shown(r)
               PROVE  \/ \E p \in payloads : p.id = e.id /\ p.request_id = r
                      \/ \E t \in Tasks : tx[t] # NoRow /\ tx[t].table = "payloads" /\ tx[t].id = e.id /\ tx[t].key = r
                      \/ \E x \in faulted : batch[x[1]][x[2]].request_id = r
    BY DEF CachedIdsReal
  <2>1. PICK owner : Owned(owner)
    BY InvParts
  <2>2. pointer[r] # NoHash /\ \E i \in 1..Len(lists[pointer[r]]) : e = lists[pointer[r]][i]
    BY DEF Shown
  <2>3. pointer[r] \in 1..Len(lists) /\ owner[pointer[r]] = r
    BY <2>1, <2>2 DEF Owned, CachedInv, CacheType, CacheTypeOK, NoHash
  <2>4. EntryFor(r, e)
    BY <2>1, <2>2, <2>3 DEF Owned
  <2> QED
    BY <2>4 DEF EntryFor, Real, TxOf
<1> QED
  BY <1>1, CachedInvAlways, PTL

(* An elapsed time is one of messages of the same request, service and source. *)
THEOREM ElapsedOfPairAlways == CachedSpec => []ElapsedOfPair
<1>1. CachedInv => ElapsedOfPair
  BY DEF CachedInv
<1> QED
  BY <1>1, CachedInvAlways, PTL

-----------------------------------------------------------------------------
(* What concerns an undisturbed request. *)

LEMMA Earlier ==
    ASSUME batch' = batch, faulted \subseteq faulted', NEW t, NEW r, Undisturbed(t, r)'
    PROVE  Undisturbed(t, r)
<1>1. ASSUME NEW x \in Messages, Concerns(x, t, r) PROVE x[1] = t /\ x \notin faulted
  <2>1. Concerns(x, t, r)'
    BY <1>1 DEF Concerns, MessageOf
  <2> QED
    BY <2>1 DEF Undisturbed
<1> QED
  BY <1>1 DEF Undisturbed

LEMMA CurrentIs ==
    ASSUME World, NEW t \in Tasks, pc[t] \notin Idle
    PROVE  /\ Current(t) \in Messages /\ MessageOf(Current(t)) = Msg(t) /\ idx[t] \in DOMAIN batch[t]
           /\ Current(t)[1] = t /\ Current(t)[2] = idx[t] /\ Msg(t).request_id \in RequestIds
           /\ Msg(t).kind = "good"
<1>1. /\ Msg(t) \in Message /\ Msg(t).kind = "good" /\ idx[t] \in DOMAIN batch[t]
      /\ Current(t) \in Messages
  BY MessageIs DEF World
<1> QED
  BY <1>1 DEF Current, MessageOf, Msg, Message

(* Only task t handles a message of r, and none of its calls failed. *)
LEMMA Alone ==
    ASSUME World, NEW t \in Tasks, NEW r, Undisturbed(t, r),
           NEW u \in Tasks, pc[u] \notin Idle, Msg(u).request_id = r
    PROVE  u = t /\ Current(u) \notin faulted
<1>1. Concerns(Current(u), t, r)
  BY CurrentIs DEF Concerns
<1> QED
  BY <1>1, CurrentIs DEF Undisturbed

(* Nor of those that bring a new name of one. *)
LEMMA AloneNames ==
    ASSUME World, NEW t \in Tasks, NEW r, Undisturbed(t, r), NEW j \in DOMAIN batch[t], batch[t][j].request_id = r,
           NEW u \in Tasks, pc[u] \notin Idle, NEW c \in Columns, Name(u, c) = batch[t][j].name[c],
           Name(u, c) # None, ~Lists(Seeded[c], Name(u, c))
    PROVE  u = t /\ Current(u) \notin faulted
<1>1. BringSameName(MessageOf(Current(u)), batch[t][j])
  BY CurrentIs DEF BringSameName, Name
<1>2. Concerns(Current(u), t, r)
  BY <1>1, CurrentIs DEF Concerns
<1> QED
  BY <1>2, CurrentIs DEF Undisturbed

(* The id that a call gives is that of a payload of the request. *)
LEMMA RealCommitted ==
    ASSUME World, Places, NEW t \in Tasks, NEW r, Undisturbed(t, r), pc[t] # "commit", NEW id, Real(r, id)
    PROVE  \E p \in payloads : p.id = id /\ p.request_id = r
<1>1. ASSUME NEW x \in faulted, batch[x[1]][x[2]].request_id = r PROVE FALSE
  <2>1. x \in Tasks \X Ids /\ x[2] \in DOMAIN batch[x[1]]
    BY DEF Places, World, BaseType
  <2>2. x[2] \in 1..LastPosition
    <3>1. x[2] \in 1..Len(batch[x[1]]) /\ Len(batch[x[1]]) \in Nat /\ Len(batch[x[1]]) <= LastPosition
      BY <2>1, BatchIs DEF World, BaseType
    <3> QED
      BY <3>1, CacheAssumption
  <2>3. x \in Messages
    BY <2>1, <2>2 DEF Messages
  <2>4. Concerns(x, t, r)
    BY <1>1, <2>1 DEF Concerns, MessageOf
  <2> QED
    BY <2>3, <2>4 DEF Undisturbed
<1>2. ASSUME NEW u \in Tasks, pc[u] = "commit", TxOf(u, "payloads"), tx[u].key = r PROVE FALSE
  <2>1. Msg(u).request_id = r /\ pc[u] \notin Idle
    BY <1>2 DEF World, TxTrue
  <2> QED
    BY <1>2, <2>1, Alone
<1> QED
  BY <1>1, <1>2 DEF Real

(* The statuses of a request are those of its messages. *)
LEMMA OwnRows ==
    ASSUME TablesInv, Attribution, NEW r
    PROVE  RowsOf(r) = {s \in statuses : Source(s).request_id = r}
<1>1. ASSUME NEW s \in statuses, NEW p \in payloads, p.id = s.payload_id PROVE p.request_id = Source(s).request_id
  <2>1. PICK q \in payloads : q.id = s.payload_id /\ q.request_id = Source(s).request_id
    BY DEF Attribution
  <2>2. p = q
    BY <1>1, <2>1 DEF TablesInv
  <2> QED
    BY <2>1, <2>2
<1>2. \A s \in statuses : \E p \in payloads : p.id = s.payload_id
  BY DEF Attribution
<1> QED
  BY <1>1, <1>2 DEF RowsOf

(* A step adds a status only to the request of its message. *)
LEMMA RowsStep ==
    ASSUME CachedInv, CachedInv', NEW t \in Tasks, CachedStep(t), NEW r
    PROVE  /\ RowsOf(r) \subseteq RowsOf(r)'
           /\ RowsOf(r)' # RowsOf(r) => pc[t] = "insert" /\ Msg(t).request_id = r
<1>1. World /\ Attribution /\ TablesInv
  BY InvParts DEF World
<1>2. RowsOf(r) = {s \in statuses : Source(s).request_id = r}
  BY <1>1, OwnRows
<1>3. RowsOf(r)' = {s \in statuses' : Source(s)'.request_id = r}
  <2>1. TablesInv' /\ Attribution'
    BY DEF CachedInv
  <2>2. ASSUME NEW s \in statuses', NEW p \in payloads', p.id = s.payload_id
        PROVE  p.request_id = Source(s)'.request_id
    <3>1. PICK q \in payloads' : q.id = s.payload_id /\ q.request_id = Source(s)'.request_id
      BY <2>1 DEF Attribution
    <3>2. p = q
      BY <2>1, <2>2, <3>1 DEF TablesInv
    <3> QED
      BY <3>1, <3>2
  <2>3. \A s \in statuses' : \E p \in payloads' : p.id = s.payload_id
    BY <2>1 DEF Attribution
  <2> QED
    BY <2>2, <2>3 DEF RowsOf
<1>4. batch' = batch /\ (statuses' = statuses \/ InsertStatus(t))
  BY StepFrames DEF Frames
<1>5. \A s : Source(s)' = Source(s)
  BY <1>4 DEF Source
<1>6. CASE statuses' = statuses
  BY <1>2, <1>3, <1>5, <1>6
<1>7. CASE InsertStatus(t)
  <2>1. statuses' \in {statuses, statuses \cup {Row(t, TRUE)}, statuses \cup {Row(t, FALSE)}} /\ pc[t] = "insert"
    BY <1>1, <1>7, RowIs DEF World, InsertStatus
  <2>2. \A b : Source(Row(t, b)) = Msg(t)
    BY DEF Row, Source, Msg
  <2> QED
    BY <1>2, <1>3, <1>5, <2>1, <2>2
<1> QED
  BY <1>4, <1>6, <1>7

-----------------------------------------------------------------------------
(* How a message ends, and why in an error. *)
Lost(t) ==
    \/ Msg(t).kind # "good"
    \/ Current(t) \in faulted'
    \/ pc[t] \in Calling /\ call[Coroutine(t)].at = "failed"
    \/ pc[t] = "recheck" /\ ~Lists(redisNames[Column(t)], Name(t, Column(t)))
    \/ pc[t] = "insert" /\ try[t] = 3 /\ ~Accepted(t)

Ends(t, v) ==
    /\ verdict' = [verdict EXCEPT ![t][idx[t]] = v]
    /\ pc'[t] = "next"
    /\ v = "error" => Lost(t)
    /\ v = "ignored" => pc[t] = "next"
    /\ v = "success" => pc[t] = "insert" /\ Row(t, TRUE) \in statuses'

Settling(t) ==
    \/ verdict' = verdict /\ pc'[t] # "next"
    \/ \E v \in {"ignored", "success", "error"} : Ends(t, v)

LEMMA FailEnds ==
    ASSUME BaseType, NEW t \in Tasks, Fail(t), Lost(t)
    PROVE  Settling(t)
<1>1. Moves(t, "next", idx[t] + 1) /\ verdict' = [verdict EXCEPT ![t][idx[t]] = "error"]
  BY FailMoves DEF Fail, Finish
<1> QED
  BY <1>1 DEF Settling, Ends, Moves

LEMMA GotoGoesOn ==
    ASSUME BaseType, NEW t \in Tasks, NEW loc \in CachedLocations \ {"next"}, Goto(t, loc)
    PROVE  Settling(t)
<1>1. Moves(t, loc, idx[t]) /\ verdict' = verdict
  BY GotoMoves DEF Goto
<1> QED
  BY <1>1 DEF Settling, Moves

LEMMA GoesOn ==
    ASSUME BaseType, NEW t \in Tasks,
           \E loc \in {"get", "set", "reget", "create", "add", "hset", "commit", "commit_name", "recheck", "insert",
                       "create_table", "partition", "column", "done", "dead"} : Goto(t, loc)
    PROVE  Settling(t)
<1>1. {"get", "set", "reget", "create", "add", "hset", "commit", "commit_name", "recheck", "insert",
       "create_table", "partition", "column", "done", "dead"} \subseteq CachedLocations \ {"next"}
  BY DEF CachedLocations, Locations
<1> QED
  BY <1>1, GotoGoesOn

LEMMA AfterColumnGoesOn ==
    ASSUME BaseType, NEW t \in Tasks, AfterColumn(t)
    PROVE  Settling(t)
BY GoesOn DEF AfterColumn, NextColumn

LEMMA SharedEnds ==
    ASSUME BaseType, NEW t \in Tasks, SharedStep(t)
    PROVE  Settling(t)
<1>1. CASE TakeMessage(t)
  <2>1. CASE Goto(t, "dead") \/ Goto(t, "get")
    BY <2>1, GoesOn
  <2>2. CASE Finish(t, "ignored")
    <3>1. pc'[t] = "next" /\ pc[t] = "next" /\ verdict' = [verdict EXCEPT ![t][idx[t]] = "ignored"]
      BY <1>1, <2>2, FinishMoves DEF TakeMessage, Moves, Finish
    <3> QED
      BY <3>1 DEF Settling, Ends
  <2>3. CASE Finish(t, "error") /\ Msg(t).kind = "bad_date"
    <3>1. pc'[t] = "next" /\ Lost(t) /\ verdict' = [verdict EXCEPT ![t][idx[t]] = "error"]
      BY <1>1, <2>3, FinishMoves DEF TakeMessage, Moves, Lost, Finish
    <3> QED
      BY <3>1 DEF Settling, Ends
  <2> QED
    BY <1>1, <2>1, <2>2, <2>3 DEF TakeMessage
<1>2. CASE EndOfBatch(t)
  BY <1>2, GoesOn DEF EndOfBatch
<1>3. CASE InsertStatus(t)
  <2>1. CASE Finish(t, "success") /\ statuses' = statuses \cup {Row(t, TRUE)}
    <3>1. /\ pc'[t] = "next" /\ pc[t] = "insert" /\ Row(t, TRUE) \in statuses'
          /\ verdict' = [verdict EXCEPT ![t][idx[t]] = "success"]
      BY <1>3, <2>1, FinishMoves DEF InsertStatus, Moves, Finish
    <3> QED
      BY <3>1 DEF Settling, Ends
  <2>2. CASE Rejected(t) /\ (~Accepted(t) \/ Fault(Current(t)))
    <3>1. try[t] = 3 => Lost(t)
      BY <1>3, <2>2 DEF InsertStatus, Lost, Fault
    <3>2. Goto(t, "partition") \/ Goto(t, "insert") \/ (try[t] = 3 /\ Fail(t))
      BY <2>2 DEF Rejected, Retry
    <3> QED
      BY <3>1, <3>2, GoesOn, FailEnds
  <2> QED
    BY <1>3, <2>1, <2>2 DEF InsertStatus
<1>4. CASE CheckPartition(t) \/ CreateTable(t)
  <2>1. Goto(t, "insert") \/ Goto(t, "create_table")
    BY <1>4 DEF CheckPartition, CreateTable, Retry
  <2> QED
    BY <2>1, GoesOn
<1> QED
  BY <1>1, <1>2, <1>3, <1>4 DEF SharedStep

LEMMA CallBlames ==
    ASSUME NEW t \in Tasks, CallFails(Coroutine(t))
    PROVE  faulted' = faulted \cup {Current(t)}
BY ClientsAre DEF CallFails

LEMMA StepEnds ==
    ASSUME BaseType, CacheType, NEW t \in Tasks, CachedStep(t), pc \in [Tasks -> CachedLocations]
    PROVE  Settling(t) \/ CallCache(t)
<1>1. CASE SharedStep(t)
  BY <1>1, SharedEnds
<1>2. CASE CachedGet(t) \/ CachedReget(t)
  <2>1. Goto(t, "create") \/ Goto(t, "set") \/ Goto(t, "column")
    BY <1>2 DEF CachedGet, CachedReget, TakeDump, StartColumns
  <2> QED
    BY <2>1, GoesOn
<1>3. CASE CachedGetFails(t)
  <2>1. Lost(t) /\ Fail(t)
    BY <1>3 DEF CachedGetFails, Lost, Calling, At
  <2> QED
    BY <2>1, FailEnds
<1>4. CASE CachedSet(t)
  <2>1. \/ Goto(t, "set") \/ AfterSet(t) \/ Rollback(t)
        \/ pc[t] = "set" /\ At(Coroutine(t), "failed") /\ Fail(t)
    BY <1>4 DEF CachedSet
  <2>2. CASE Goto(t, "set") \/ AfterSet(t) \/ Rollback(t)
    <3>1. Goto(t, "set") \/ Goto(t, "commit") \/ Goto(t, "column") \/ Goto(t, "reget")
      BY <2>2 DEF AfterSet, Rollback, StartColumns
    <3> QED
      BY <3>1, GoesOn
  <2>3. CASE pc[t] = "set" /\ At(Coroutine(t), "failed") /\ Fail(t)
    <3>1. Lost(t)
      BY <2>3 DEF Lost, Calling, At
    <3> QED
      BY <2>3, <3>1, FailEnds
  <2> QED
    BY <2>1, <2>2, <2>3
<1>5. CASE InsertPayload(t) \/ CommitPayload(t)
  <2>1. Goto(t, "set") \/ Goto(t, "reget") \/ Goto(t, "column")
    BY <1>5 DEF InsertPayload, CommitPayload, StartColumns, Rollback
  <2> QED
    BY <2>1, GoesOn
<1>6. CASE CachedColumn(t)
  <2>1. AfterColumn(t) \/ Goto(t, "add") \/ (Fault(Current(t)) /\ Fail(t))
    BY <1>6 DEF CachedColumn
  <2>2. Fault(Current(t)) => Lost(t)
    BY DEF Fault, Lost
  <2> QED
    BY <2>1, <2>2, AfterColumnGoesOn, GoesOn, FailEnds
<1>7. CASE InsertName(t) \/ HsetName(t)
  <2>1. Goto(t, "hset") \/ Goto(t, "recheck") \/ Goto(t, "commit_name")
    BY <1>7 DEF InsertName, HsetName
  <2> QED
    BY <2>1, GoesOn
<1>8. CASE CommitName(t)
  BY <1>8, AfterColumnGoesOn, GoesOn DEF CommitName
<1>9. CASE CachedRecheck(t)
  <2>1. AfterColumn(t) \/ (Fail(t) /\ Lost(t))
    BY <1>9 DEF CachedRecheck, Fault, Lost
  <2> QED
    BY <2>1, AfterColumnGoesOn, FailEnds
<1> QED
  BY <1>1, <1>2, <1>3, <1>4, <1>5, <1>6, <1>7, <1>8, <1>9 DEF CachedStep

(* A step of a task blames nothing but its current message. *)
Blames(t) == faulted' = faulted \/ (faulted' = faulted \cup {Current(t)} /\ pc[t] \notin Idle)

LEMMA GetBlames ==
    ASSUME NEW t \in Tasks, GetStep(Coroutine(t))
    PROVE  faulted' = faulted \/ faulted' = faulted \cup {Current(t)}
BY CallBlames DEF GetStep, ReadPointer, ReadLength, ReadEntries, LoadNames, LoadRows, SwapHash, NoFault, faultVars

LEMMA StepBlames ==
    ASSUME NEW t \in Tasks, CachedStep(t)
    PROVE  Blames(t)
<1>1. CASE SharedStep(t)
  BY <1>1 DEF SharedStep, TakeMessage, EndOfBatch, InsertStatus, CheckPartition, CreateTable, NoFault, faultVars,
              Fault, Blames
<1>2. CASE CallCache(t)
  BY <1>2, GetBlames DEF CallCache, Blames
<1>3. CASE CachedGet(t) \/ CachedReget(t) \/ CachedGetFails(t)
  BY <1>3 DEF CachedGet, CachedReget, CachedGetFails, faultVars, Blames
<1>4. CASE CachedSet(t)
  BY <1>4, CallBlames DEF CachedSet, NoFault, faultVars, Blames
<1>5. CASE InsertPayload(t) \/ CommitPayload(t) \/ CachedColumn(t)
  BY <1>5 DEF InsertPayload, CommitPayload, CachedColumn, NoFault, faultVars, Fault, Blames
<1>6. CASE InsertName(t) \/ HsetName(t) \/ CommitName(t) \/ CachedRecheck(t)
  BY <1>6 DEF InsertName, HsetName, CommitName, CachedRecheck, NoFault, faultVars, Fault, Blames
<1> QED
  BY <1>1, <1>2, <1>3, <1>4, <1>5, <1>6 DEF CachedStep

-----------------------------------------------------------------------------
(* The places of verdicts, failed calls and UPDATEs, and what Redis lists. *)

LEMMA VerdictIs ==
    ASSUME Places, NEW t \in Tasks, idx[t] \in DOMAIN batch[t], NEW v,
           verdict' = [verdict EXCEPT ![t][idx[t]] = v]
    PROVE  /\ verdict'[t] = [i \in DOMAIN batch[t] |-> IF i = idx[t] THEN v ELSE verdict[t][i]]
           /\ \A s \in Tasks \ {t} : verdict'[s] = verdict[s]
           /\ verdict' = [s \in Tasks |-> verdict'[s]]
<1>1. verdict = [s \in Tasks |-> verdict[s]] /\ verdict[t] = [i \in DOMAIN batch[t] |-> verdict[t][i]]
  BY DEF Places
<1> DEFINE new == [verdict[t] EXCEPT ![idx[t]] = v]
<1>2. new = [i \in DOMAIN batch[t] |-> IF i = idx[t] THEN v ELSE verdict[t][i]]
  BY ONLY <1>1, idx[t] \in DOMAIN batch[t]
<1>3. verdict' = [verdict EXCEPT ![t] = new]
  OBVIOUS
<1> HIDE DEF new
<1>4. verdict' = [s \in Tasks |-> IF s = t THEN new ELSE verdict[s]]
  BY ONLY <1>1, <1>3, t \in Tasks
<1> QED
  BY <1>2, <1>4

LEMMA VerdictsKept ==
    ASSUME CachedInv, Places, NEW t \in Tasks, CachedStep(t)
    PROVE  /\ verdict' = [s \in Tasks |-> verdict'[s]]
           /\ \A s \in Tasks : verdict'[s] = [i \in DOMAIN batch'[s] |-> verdict'[s][i]]
<1>1. World
  BY InvParts
<1>2. batch' = batch
  BY StepFrames DEF Frames
<1>3. CASE verdict' = verdict
  BY <1>2, <1>3 DEF Places
<1>4. ASSUME NEW v, Ends(t, v)
      PROVE  /\ verdict' = [s \in Tasks |-> verdict'[s]]
             /\ \A s \in Tasks : verdict'[s] = [i \in DOMAIN batch'[s] |-> verdict'[s][i]]
  <2>1. idx[t] \in DOMAIN batch[t]
    <3>1. Targets(t) /\ Position(t)
      BY <1>1, StepShape, StepPosition DEF World
    <3>2. idx[t] <= Len(batch[t]) /\ idx[t] \in Ids
      BY <1>1, <1>4, <3>1 DEF Ends, Position, World, BaseType
    <3> QED
      BY <1>1, <3>2, BatchIs DEF World, BaseType
  <2>2. /\ verdict'[t] = [i \in DOMAIN batch[t] |-> IF i = idx[t] THEN v ELSE verdict[t][i]]
        /\ \A s \in Tasks \ {t} : verdict'[s] = verdict[s]
        /\ verdict' = [s \in Tasks |-> verdict'[s]]
    BY <1>4, <2>1, VerdictIs DEF Ends
  <2>3. \A s \in Tasks \ {t} : verdict'[s] = [i \in DOMAIN batch'[s] |-> verdict'[s][i]]
    BY <1>2, <2>2 DEF Places
  <2>4. verdict'[t] = [i \in DOMAIN batch'[t] |-> verdict'[t][i]]
    BY <1>2, <2>2
  <2> QED
    BY <2>2, <2>3, <2>4
<1>5. verdict' = verdict \/ \E v : Ends(t, v)
  <2>1. CallCache(t) => verdict' = verdict
    BY DEF CallCache, logVars
  <2>2. pc \in [Tasks -> CachedLocations]
    BY <1>1, BaseParts DEF World
  <2> QED
    BY <1>1, <2>1, <2>2, StepEnds DEF World, Settling
<1> QED
  BY <1>3, <1>4, <1>5

LEMMA DumpUsed ==
    ASSUME World, Places, NEW t \in Tasks, CachedStep(t), pc'[t] \in {"set", "commit"}
    PROVE  sps'[t].payload_id = dump'[t].id
<1>1. Locally(t) /\ (Closed(t) \/ Opened(t) \/ Stays(t))
  BY StepLocals, StepTx DEF World
<1>2. pc'[t] \notin {"get", "column"} /\ pc'[t] \notin Idle /\ pc'[t] \notin ColumnsOn
  BY DEF ColumnsOn, Resolving, AtName, Storing
<1>3. CASE Fetched(t) \/ (Opened(t) /\ tx'[t].table = "payloads")
  BY <1>3 DEF Fetched, Opened, Columns
<1>4. CASE Lingers(t)
  <2>1. CASE pc'[t] = "set"
    BY <1>4, <2>1 DEF Lingers, Places
  <2>2. CASE pc'[t] = "commit"
    <3>1. Stays(t)
      BY <1>1, <2>2 DEF Closed, Opened
    <3>2. pc[t] = "set" /\ dump' = dump
      BY <2>2, <3>1 DEF Stays
    <3> QED
      BY <1>4, <3>2 DEF Lingers, Places
  <2> QED
    BY <2>1, <2>2
<1>5. ~UsesDump(t) /\ ~Resolves(t) /\ ~Anticipates(t)
  BY DEF UsesDump, Resolves, Anticipates
<1> QED
  BY <1>1, <1>2, <1>3, <1>4, <1>5 DEF Locally

LEMMA PlacesStep ==
    ASSUME CachedInv, Places, NEW t \in Tasks, CachedStep(t)
    PROVE  Places'
<1>1. World /\ BaseType
  BY InvParts DEF World
<1>2. Frames(t) /\ Grows(t) /\ Shape(t) /\ Blames(t) /\ batch' = batch
  BY <1>1, StepFrames, StepGrows, StepShape, StepBlames DEF World, Frames
<1>3. \A x \in faulted' : x[2] \in DOMAIN batch'[x[1]]
  <2>1. CASE pc[t] \notin Idle
    <3>1. Current(t)[1] = t /\ Current(t)[2] \in DOMAIN batch[t]
      BY <1>1, <2>1, CurrentIs
    <3> QED
      BY <1>2, <3>1 DEF Blames, Places
  <2> QED
    BY <1>2, <2>1 DEF Blames, Places
<1>4. \A u \in updates' : u.pos \in DOMAIN batch'[u.task]
  <2>1. CASE CachedSet(t)
    <3>1. pc[t] = "set" /\ (updates' = updates \/ UsePayload(t, dump[t]))
      BY <2>1 DEF CachedSet, AfterSet
    <3>2. idx[t] \in DOMAIN batch[t]
      BY <1>1, <3>1, CurrentIs
    <3>3. \A u \in updates' : u \in updates \/ (u.task = t /\ u.pos = idx[t])
      BY <3>1 DEF UsePayload
    <3> QED
      BY <1>2, <3>2, <3>3 DEF Places
  <2> QED
    BY <1>2, <2>1 DEF Frames, Places
<1>5. ASSUME NEW c \in Columns PROVE Seeded[c] \subseteq names'[c] /\ names'[c] \subseteq redisNames'[c]
  <2>1. names[c] \subseteq names'[c] /\ redisNames[c] \subseteq redisNames'[c]
    BY <1>2 DEF Grows
  <2>2. CASE CommitName(t)
    <3>1. /\ OpenName(t) /\ pc[t] = "commit_name"
          /\ names' \in {names, [names EXCEPT ![Column(t)] = @ \cup {NewName(t)}]}
      BY <1>1, <2>2, CommitNameIs DEF World, CommitName
    <3>2. NewName(t) \in redisNames[Column(t)] /\ names \in [Columns -> SUBSET NameRow]
      BY <1>1, <3>1 DEF World, TxTrue, BaseType
    <3>3. \A n \in names'[c] : n \in names[c] \/ (c = Column(t) /\ n = NewName(t))
      BY <3>1, <3>2
    <3> QED
      BY <2>1, <3>2, <3>3 DEF Places
  <2> QED
    BY <1>2, <2>1, <2>2 DEF Frames, Places
<1>6. ASSUME NEW s \in Tasks, pc'[s] \in {"set", "commit"} PROVE sps'[s].payload_id = dump'[s].id
  <2>1. CASE s = t
    BY <1>1, <1>6, <2>1, DumpUsed
  <2>2. CASE s # t
    <3>1. pc'[s] = pc[s] /\ sps'[s] = sps[s] /\ dump'[s] = dump[s]
      BY <1>2, <2>2 DEF Shape, Changes
    <3> QED
      BY <1>6, <3>1 DEF Places
  <2> QED
    BY <2>1, <2>2
<1> QED
  BY <1>3, <1>4, <1>5, <1>6, VerdictsKept DEF Places

-----------------------------------------------------------------------------
(* How the transaction of a new name ends. *)
LEMMA NameEnds ==
    ASSUME World, NEW t \in Tasks, CachedStep(t), NEW c \in Columns, TxOf(t, c)
    PROVE  tx'[t] = tx[t] \/ NewName(t) \in names'[c] \/ Current(t) \in faulted'
<1>1. pc[t] \in {"hset", "commit_name"} /\ c = Column(t) /\ BaseType /\ CachedWorking(t) /\ TxTrue(t)
  BY DEF World, TxTrue
<1>2. CASE HsetName(t)
  <2>1. Fault(Current(t)) => Current(t) \in faulted'
    BY DEF Fault
  <2> QED
    BY <1>2, <2>1 DEF HsetName
<1>3. CASE CommitName(t)
  <2>1. names' = [names EXCEPT ![Column(t)] = @ \cup {NewName(t)}] \/ Fault(Current(t))
    BY <1>3 DEF CommitName
  <2>2. Fault(Current(t)) => Current(t) \in faulted'
    BY DEF Fault
  <2>3. names \in [Columns -> SUBSET NameRow]
    BY <1>1 DEF BaseType
  <2> QED
    BY <1>1, <2>1, <2>2, <2>3
<1>4. HsetName(t) \/ CommitName(t)
  <2>1. ~SharedStep(t)
    BY <1>1 DEF SharedStep, TakeMessage, EndOfBatch, InsertStatus, CheckPartition, CreateTable
  <2>2. ~CallCache(t) /\ ~CachedGet(t) /\ ~CachedReget(t) /\ ~CachedGetFails(t) /\ ~CachedSet(t)
    BY <1>1 DEF CallCache, CachedGet, CachedReget, CachedGetFails, CachedSet, Returned
  <2>3. ~InsertPayload(t) /\ ~CachedColumn(t) /\ ~InsertName(t) /\ ~CommitPayload(t) /\ ~CachedRecheck(t)
    BY <1>1 DEF InsertPayload, CachedColumn, InsertName, CommitPayload, CachedRecheck
  <2> QED
    BY <2>1, <2>2, <2>3 DEF CachedStep
<1> QED
  BY <1>2, <1>3, <1>4

LEMMA NamesCommittedStep ==
    ASSUME CachedInv, Places, NEW s \in Tasks, CachedStep(s),
           NEW t \in Tasks, NEW r, Undisturbed(t, r)', NamesCommitted(t, r)
    PROVE  NamesCommitted(t, r)'
<1>1. World /\ World'
  BY TaskInv, InvParts DEF CachedInv, World
<1>2. /\ batch' = batch /\ Grows(s) /\ Shape(s) /\ faulted \subseteq faulted'
      /\ \A u \in Tasks \ {s} : tx'[u] = tx[u]
  BY <1>1, StepFrames, StepGrows, StepShape, StepBlames DEF World, Frames, Blames, Shape, Changes
<1>3. Undisturbed(t, r)
  BY <1>2, Earlier
<1>4. ASSUME NEW j \in DOMAIN batch[t], batch[t][j].request_id = r, NEW c \in Columns,
             NEW n \in redisNames'[c], n.name = batch[t][j].name[c]
      PROVE  n \in names'[c] \/ (TxOf(t, c)' /\ n = NewName(t)')
  <2>1. ASSUME NEW u \in Tasks, TxOf(u, c), tx[u].key = n.name PROVE u = t /\ Current(u) \notin faulted'
    <3>1. pc[u] \in {"hset", "commit_name"} /\ c = Column(u) /\ Name(u, c) = n.name
      BY <1>1, <2>1 DEF World, TxTrue
    <3>2. Name(u, c) # None
      BY <1>1, <3>1 DEF World, CachedWorking, AtName
    <3>3. ~Lists(Seeded[c], Name(u, c))
      BY <1>1, <2>1, <3>1, ApartIs DEF Places, Lists
    <3>4. Undisturbed(t, r)' /\ batch' = batch
      BY <1>2
    <3>5. BringSameName(MessageOf(Current(u)), batch[t][j])
      BY <1>1, <1>4, <3>1, <3>2, <3>3, CurrentIs DEF BringSameName, Name
    <3>6. /\ Current(u) \in Messages /\ Current(u)[1] = u /\ Current(u)[2] = idx[u]
          /\ idx[u] \in DOMAIN batch[u]
      BY <1>1, <3>1, CurrentIs
    <3>7. Concerns(Current(u), t, r)
      BY <1>4, <3>5, <3>6 DEF Concerns
    <3> DEFINE x == Current(u)
    <3> HIDE DEF x
    <3>8. \A y : Concerns(y, t, r) => Concerns(y, t, r)'
      BY <3>4 DEF Concerns, MessageOf
    <3>9. \A y \in Messages : Concerns(y, t, r) => y[1] = t /\ y \notin faulted'
      BY <3>4, <3>8 DEF Undisturbed
    <3> QED
      BY <3>6, <3>7, <3>9
  <2>2. CASE n \in redisNames[c]
    <3>1. n \in names[c] \/ (TxOf(t, c) /\ n = NewName(t))
      BY <1>4, <2>2 DEF NamesCommitted
    <3>2. CASE n \in names[c]
      BY <1>2, <3>2 DEF Grows
    <3>3. CASE TxOf(t, c) /\ n = NewName(t)
      <4>1. tx[t].key = n.name
        BY <3>3 DEF NewName
      <4>2. Current(t) \notin faulted'
        BY <2>1, <3>3, <4>1
      <4>3. tx'[t] = tx[t] \/ NewName(t) \in names'[c]
        BY <1>1, <1>2, <3>3, <4>2, NameEnds
      <4> QED
        BY <3>3, <4>3 DEF TxOf, NewName
    <3> QED
      BY <3>1, <3>2, <3>3
  <2>3. CASE n \notin redisNames[c]
    <3>1. TxOf(s, c) /\ n.id = tx[s].id /\ n.name = tx[s].key
      BY <1>2, <2>3 DEF Grows
    <3>2. s = t /\ Current(s) \notin faulted'
      BY <2>1, <3>1
    <3>3. n \in NameRow
      BY <1>1 DEF World, CacheType, CacheTypeOK
    <3>4. n = [id |-> n.id, name |-> n.name]
      BY <3>3 DEF NameRow
    <3>5. n = NewName(s)
      BY <3>1, <3>4 DEF NewName
    <3>6. tx'[s] = tx[s] \/ NewName(s) \in names'[c]
      BY <1>1, <3>1, <3>2, NameEnds
    <3> QED
      BY <3>1, <3>2, <3>5, <3>6 DEF TxOf, NewName
  <2> QED
    BY <2>2, <2>3
<1>5. batch' = batch
  BY <1>2
<1> QED
  BY <1>4, <1>5 DEF NamesCommitted

-----------------------------------------------------------------------------
(* The current message of an undisturbed request. *)
Request(t) == Msg(t).request_id

Calm(t) ==
    /\ World /\ World' /\ Places /\ LocalsTrue(t) /\ pc[t] \notin Idle
    /\ Undisturbed(t, Request(t)) /\ Current(t) \notin faulted'
    /\ NamesCommitted(t, Request(t)) /\ PayloadUsed(t, Request(t)) /\ OnCourse(t)

LEMMA Later ==
    ASSUME batch' = batch, NEW t, NEW r, Undisturbed(t, r)'
    PROVE  \A x \in Messages : Concerns(x, t, r) => x[1] = t /\ x \notin faulted'
<1>1. \A x : Concerns(x, t, r) => Concerns(x, t, r)'
  BY DEF Concerns, MessageOf
<1> QED
  BY <1>1 DEF Undisturbed

LEMMA AloneAfter ==
    ASSUME World, batch' = batch, NEW t \in Tasks, NEW r, Undisturbed(t, r)',
           NEW u \in Tasks, pc[u] \notin Idle, Msg(u).request_id = r
    PROVE  u = t /\ Current(u) \notin faulted'
<1>1. Current(u) \in Messages /\ Current(u)[1] = u /\ Concerns(Current(u), t, r)
  BY CurrentIs DEF Concerns
<1> QED
  BY <1>1, Later

LEMMA CalmIs ==
    ASSUME CachedInv, CachedInv', Places, NEW t \in Tasks, pc[t] \notin Idle, CachedStep(t),
           NEW r, r = Request(t), Undisturbed(t, r)',
           \A q \in RequestIds : Undisturbed(t, q) => NamesCommitted(t, q) /\ PayloadUsed(t, q),
           Undisturbed(t, Request(t)) => OnCourse(t)
    PROVE  Calm(t)
<1>1. World /\ World' /\ LocalsTrue(t)
  BY InvParts DEF CachedInv, World
<1>2. batch' = batch /\ faulted \subseteq faulted'
  BY StepFrames, StepBlames DEF Frames, Blames
<1>3. Undisturbed(t, Request(t))
  BY <1>2, Earlier
<1>4. Current(t) \notin faulted'
  BY <1>1, <1>2, AloneAfter DEF Request
<1>5. Request(t) \in RequestIds
  BY <1>1, CurrentIs DEF Request
<1> QED
  BY <1>1, <1>3, <1>4, <1>5 DEF Calm

(* Such a message is not lost. *)
LEMMA CalmAccepted ==
    ASSUME NEW t \in Tasks, Calm(t), pc[t] = "insert", Msg(t).day \in partitions
    PROVE  Accepted(t)
<1>1. World /\ BaseType /\ CachedWorking(t) /\ TxTrue(t)
  BY DEF Calm, World
<1>2. \E p \in payloads : p.id = sps[t].payload_id
  BY DEF Calm, OnCourse, Storing
<1>3. col[t] = 4 /\ idx[t] \in DOMAIN batch[t] /\ \A c \in Columns : Name(t, c) = batch[t][idx[t]].name[c]
  BY <1>1, CurrentIs DEF CachedWorking, Storing, Name, Msg
<1>4. Name(t, "service") # None /\ Name(t, "status") # None
  BY <1>1, MessageIs
<1>5. ASSUME NEW c \in Columns
      PROVE  /\ sps[t].ids[c] # NoId => \E n \in names[c] : n.id = sps[t].ids[c]
             /\ Name(t, c) # None => sps[t].ids[c] # NoId
  <2>1. \A i \in 1..3 : ResolvedInRedis(t, ColumnOrder[i])
    BY <1>3 DEF Calm, LocalsTrue, Storing, Resolving
  <2>2. ResolvedInRedis(t, c)
    BY <2>1 DEF Columns, ColumnOrder
  <2>3. CASE Name(t, c) = None
    BY <2>2, <2>3 DEF ResolvedInRedis
  <2>4. CASE Name(t, c) # None
    <3>1. PICK n \in redisNames[c] : n = [id |-> sps[t].ids[c], name |-> Name(t, c)]
      BY <2>2, <2>4 DEF ResolvedInRedis
    <3>2. n.id = sps[t].ids[c] /\ n.name = Name(t, c) /\ n.id # NoId
      BY <1>1, <3>1, ListedIs DEF World
    <3>3. ~TxOf(t, c)
      BY <1>1 DEF TxTrue
    <3>4. n \in names[c]
      BY <1>3, <3>2, <3>3 DEF Calm, NamesCommitted, Request, Msg
    <3> QED
      BY <3>2, <3>4
  <2> QED
    BY <2>3, <2>4
<1>6. "service" \in Columns /\ "status" \in Columns
  BY DEF Columns
<1> QED
  BY <1>2, <1>4, <1>5, <1>6 DEF Accepted

LEMMA NotLost ==
    ASSUME NEW t \in Tasks, Calm(t)
    PROVE  ~Lost(t)
<1>1. Msg(t).kind = "good" /\ Current(t) \notin faulted'
  BY CurrentIs DEF Calm
<1>2. call[Coroutine(t)].at # "failed"
  BY DEF Calm, OnCourse, CallOnCourse
<1>3. pc[t] = "recheck" => Lists(redisNames[Column(t)], Name(t, Column(t)))
  BY DEF Calm, OnCourse
<1>4. pc[t] = "insert" /\ try[t] = 3 => Accepted(t)
  BY CalmAccepted DEF Calm, OnCourse
<1> QED
  BY <1>1, <1>2, <1>3, <1>4 DEF Lost

-----------------------------------------------------------------------------
(* From its payload on, it goes on until its status is stored. *)
LEMMA NameActions ==
    ASSUME NEW t \in Tasks, pc[t] \in ColumnsOn, CachedStep(t)
    PROVE  \/ InsertStatus(t) \/ CheckPartition(t) \/ CreateTable(t)
           \/ CachedColumn(t) \/ InsertName(t) \/ HsetName(t) \/ CommitName(t) \/ CachedRecheck(t)
<1>1. pc[t] \notin Calling \cup {"next", "create", "commit"}
  BY DEF ColumnsOn, Resolving, AtName, Storing, Calling
<1>2. ~TakeMessage(t) /\ ~EndOfBatch(t)
  BY <1>1 DEF TakeMessage, EndOfBatch
<1>3. ~CallCache(t) /\ ~CachedGet(t) /\ ~CachedReget(t) /\ ~CachedGetFails(t) /\ ~CachedSet(t)
  BY <1>1 DEF CallCache, CachedGet, CachedReget, CachedGetFails, CachedSet, Returned, Calling
<1>4. ~InsertPayload(t) /\ ~CommitPayload(t)
  BY <1>1 DEF InsertPayload, CommitPayload
<1> QED
  BY <1>2, <1>3, <1>4 DEF CachedStep, SharedStep

LEMMA NamesGoOn ==
    ASSUME BaseType, NEW t \in Tasks, CachedWorking(t), pc[t] \in ColumnsOn, CachedStep(t)
    PROVE  pc'[t] \in ColumnsOn \cup {"next"}
<1>1. CASE InsertStatus(t)
  <2>1. Finish(t, "success") \/ Rejected(t)
    BY <1>1 DEF InsertStatus
  <2> QED
    BY <2>1, FinishMoves, RejectedMoves DEF Moves, ColumnsOn, Storing
<1>2. CASE CheckPartition(t) \/ CreateTable(t)
  <2>1. Goto(t, "insert") \/ Goto(t, "create_table")
    BY <1>2 DEF CheckPartition, CreateTable, Retry
  <2> QED
    BY <2>1, GotoNamed DEF Moves, ColumnsOn, Storing
<1>3. CASE CachedColumn(t) \/ CommitName(t) \/ CachedRecheck(t)
  <2>1. col[t] <= 3
    BY <1>3 DEF CachedColumn, CommitName, CachedRecheck, CachedWorking, Resolving, AtName
  <2>2. AfterColumn(t) \/ Goto(t, "add") \/ Goto(t, "recheck") \/ Fail(t)
    BY <1>3 DEF CachedColumn, CommitName, CachedRecheck
  <2> QED
    BY <2>1, <2>2, AfterColumnMoves, GotoNamed, FailMoves DEF Moves, ColumnsOn, Resolving, AtName, Storing
<1>4. CASE InsertName(t) \/ HsetName(t)
  <2>1. Goto(t, "hset") \/ Goto(t, "recheck") \/ Goto(t, "commit_name")
    BY <1>4 DEF InsertName, HsetName
  <2> QED
    BY <2>1, GotoNamed DEF Moves, ColumnsOn, Resolving, AtName
<1> QED
  BY <1>1, <1>2, <1>3, <1>4, NameActions

LEMMA StatusFollows ==
    ASSUME NEW t \in Tasks, CachedStep(t), Calm(t), pc[t] \in ColumnsOn
    PROVE  (pc'[t] \in ColumnsOn /\ idx'[t] = idx[t]) \/ Row(t, TRUE) \in statuses'
<1>1. World /\ BaseType /\ CacheType /\ CachedWorking(t) /\ TxTrue(t)
  BY DEF Calm, World
<1>2. pc'[t] \in ColumnsOn \cup {"next"} /\ Targets(t)
  BY <1>1, NamesGoOn, StepShape
<1>3. ~CallCache(t) /\ pc[t] # "next"
  BY DEF CallCache, ColumnsOn, Resolving, AtName, Storing
<1>4. Settling(t)
  BY <1>1, <1>3, StepEnds, BaseParts
<1>5. \A v : Ends(t, v) => v # "error" /\ v # "ignored"
  BY <1>3, NotLost DEF Ends
<1>6. CASE pc'[t] = "next"
  BY <1>4, <1>5, <1>6 DEF Settling, Ends
<1>7. CASE pc'[t] \in ColumnsOn /\ pc'[t] # "next"
  BY <1>7, <1>2, <1>3 DEF Targets, ColumnsOn, Resolving, AtName, Storing
<1> QED
  BY <1>2, <1>6, <1>7

-----------------------------------------------------------------------------
(* What a call comes to: where it fails, and what it finds. *)
Outcome(t) ==
    LET c == Coroutine(t)
    IN
    \/ call'[c].at \in {"idle", "names", "len", "range", "push"}
    \/ call'[c].at = "rows" /\ call'[c].names = redisNames
    \/ call'[c].at = "swap" /\ (call'[c].data = <<>> => RowsOf(Request(t)) = {})
    \/ call'[c].at = "done" /\ (call'[c].data # <<>> \/ (call[c].at = "swap" /\ call'[c].data = call[c].data))
    \/ CallFails(c)
    \/ call[c].at = "rows" /\ \E s \in RowsOf(Request(t)) : ~Named(c, s)

LEMMA LoadRowsOutcome ==
    ASSUME BaseType, CacheType, NEW t \in Tasks, LoadRows(Coroutine(t))
    PROVE  Outcome(t)
<1> DEFINE c == Coroutine(t)
           rows == RowsOf(RequestOf(c))
           n == Cardinality({s.day : s \in rows})
<1>1. rows = RowsOf(Request(t)) /\ c \in Clients /\ call \in [Clients -> CallRec(Len(lists))]
  BY ClientsAre, CacheListsAre DEF RequestOf, Request, CacheLists
<1>2. CASE CallFails(c)
  BY <1>2 DEF Outcome
<1>3. CASE ~(\A s \in rows : Named(c, s))
  BY <1>1, <1>3 DEF Outcome, LoadRows, At
<1>4. CASE \E f \in Loads(rows) : call' = [call EXCEPT ![c].at = "swap", ![c].raw = TRUE,
                            ![c].data = [i \in DOMAIN f |-> EntryOf(f[i], call[c].names)]]
  <2>1. PICK f \in [1..n -> rows] : call' = [call EXCEPT ![c].at = "swap", ![c].raw = TRUE,
                            ![c].data = [i \in DOMAIN f |-> EntryOf(f[i], call[c].names)]]
    BY <1>4 DEF Loads
  <2> DEFINE data == [i \in DOMAIN f |-> EntryOf(f[i], call[c].names)]
  <2>2. call'[c].at = "swap" /\ call'[c].data = data
    <3> HIDE DEF data
    <3>1. call' = [call EXCEPT ![c].at = "swap", ![c].raw = TRUE, ![c].data = data]
      BY <2>1 DEF data
    <3>2. call[c] \in CallRec(Len(lists)) /\ c \in DOMAIN call
      BY <1>1
    <3> QED
      BY ONLY <3>1, <3>2 DEF CallRec
  <2>3. ASSUME data = <<>> PROVE rows = {}
    <3>1. IsFiniteSet(rows)
      <4>1. rows \in SUBSET statuses /\ IsFiniteSet(statuses)
        BY DEF RowsOf, BaseType
      <4> HIDE DEF rows
      <4> QED
        BY <4>1, FS_Subset
    <3> DEFINE days == {s.day : s \in rows}
    <3>2. IsFiniteSet(days)
      <4> HIDE DEF rows
      <4> DEFINE g == [s \in rows |-> s.day]
      <4>1. \A d \in days : \E s \in rows : g[s] = d
        OBVIOUS
      <4>2. g \in Surjection(rows, days)
        BY <4>1 DEF Surjection
      <4> QED
        BY <3>1, <4>2, FS_Surjection
    <3>3. n \in Nat /\ n = Cardinality(days)
      BY <3>2, FS_CardinalityType
    <3>4. DOMAIN data = {}
      BY <2>3
    <3>5. ~(1 \in 1..n)
      BY <3>4
    <3> HIDE DEF n, rows
    <3>6. n = 0
      BY <3>3, <3>5
    <3>7. days = {}
      <4> HIDE DEF days
      <4> QED
        BY <3>2, <3>3, <3>6, FS_EmptySet
    <3> QED
      BY <3>7
  <2> QED
    BY <1>1, <2>2, <2>3 DEF Outcome
<1>5. ASSUME \A s \in rows : Named(c, s), ~CallFails(c)
      PROVE  \E f \in Loads(rows) : call' = [call EXCEPT ![c].at = "swap", ![c].raw = TRUE,
                            ![c].data = [i \in DOMAIN f |-> EntryOf(f[i], call[c].names)]]
  BY <1>5 DEF LoadRows, Named
<1> QED
  BY <1>2, <1>3, <1>4, <1>5

LEMMA EntriesOutcome ==
    ASSUME CacheType, NEW t \in Tasks, ReadEntries(Coroutine(t))
    PROVE  Outcome(t)
<1> DEFINE c == Coroutine(t)
           list == lists[call[c].hash]
           n == IF call[c].len \in 1..Len(list) THEN call[c].len ELSE Len(list)
           read == SubSeq(list, 1, n)
<1>1. c \in Clients /\ CacheLists /\ call[c] \in CallRec(Len(lists)) /\ c \in DOMAIN call
  BY ClientsAre, CacheListsAre DEF CacheLists
<1>2. CASE CallFails(c)
  BY <1>2 DEF Outcome
<1>3. CASE Proceed(c, "names")
  <2>1. call'[c].at = "names"
    BY <1>1, <1>3 DEF Proceed, CallRec
  <2> QED
    BY <2>1 DEF Outcome
<1>4. CASE n > 0 /\ call' = [call EXCEPT ![c].at = "done", ![c].data = read]
  <2>1. list \in Seq(Entry) /\ Len(list) \in Nat
    <3>1. call[c].hash # NoHash
      BY <1>1 DEF ReadEntries, At, CacheType
    <3> QED
      BY <1>1, <3>1 DEF CacheLists, CallRec, NoHash
  <2>2. n \in 1..Len(list)
    BY <1>4, <2>1
  <2> HIDE DEF n
  <2>3. Len(read) = n /\ read # <<>>
    BY ONLY <2>1, <2>2
  <2> HIDE DEF read
  <2>4. call'[c].at = "done" /\ call'[c].data = read
    BY <1>1, <1>4 DEF CallRec
  <2> QED
    BY <2>3, <2>4 DEF Outcome
<1> QED
  BY <1>2, <1>3, <1>4 DEF ReadEntries

LEMMA GetOutcome ==
    ASSUME BaseType, CacheType, NEW t \in Tasks, GetStep(Coroutine(t))
    PROVE  Outcome(t)
<1> DEFINE c == Coroutine(t)
<1>1. c \in Clients /\ call[c] \in CallRec(Len(lists)) /\ c \in DOMAIN call
  BY ClientsAre, CacheListsAre DEF CacheLists
<1>2. CASE CallFails(c)
  BY <1>2 DEF Outcome
<1>3. ASSUME NEW loc, Proceed(c, loc) PROVE call'[c].at = loc /\ call'[c].data = call[c].data
  BY <1>1, <1>3 DEF Proceed, CallRec
<1>4. CASE ReadPointer(c)
  <2> DEFINE h == pointer[RequestOf(c)]
             v == [NoCall EXCEPT !.hash = h, !.at = IF h = NoHash THEN "names" ELSE "len"]
  <2>1. CASE call' = [call EXCEPT ![c] = v]
    <3>1. v.at \in {"names", "len"}
      BY DEF NoCall
    <3> HIDE DEF v
    <3>2. call'[c] = v
      BY <1>1, <2>1
    <3> QED
      BY <3>1, <3>2 DEF Outcome
  <2> QED
    BY <1>2, <1>4, <2>1 DEF ReadPointer
<1>5. CASE ReadLength(c)
  <2>1. CASE call' = [call EXCEPT ![c].at = "range", ![c].len = Len(lists[call[c].hash])]
    <3>1. call'[c].at = "range"
      BY <1>1, <2>1 DEF CallRec
    <3> QED
      BY <3>1 DEF Outcome
  <2> QED
    BY <1>2, <1>5, <2>1 DEF ReadLength
<1>6. CASE LoadNames(c)
  <2>1. CASE call' = [call EXCEPT ![c].at = "rows", ![c].names = redisNames]
    <3>1. call'[c].at = "rows" /\ call'[c].names = redisNames
      BY <1>1, <2>1 DEF CallRec
    <3> QED
      BY <3>1 DEF Outcome
  <2> QED
    BY <1>2, <1>6, <2>1 DEF LoadNames
<1>7. CASE SwapHash(c)
  BY <1>2, <1>3, <1>7 DEF SwapHash, Outcome, At
<1> QED
  BY <1>4, <1>5, <1>6, <1>7, LoadRowsOutcome, EntriesOutcome DEF GetStep

(* Outside get, the call of a task is over or about to push. *)
LEMMA CallQuiet ==
    ASSUME World, NEW t \in Tasks, CachedStep(t), ~CallCache(t)
    PROVE  call'[Coroutine(t)].at \in {"idle", "push"}
<1> DEFINE c == Coroutine(t)
<1>1. /\ c \in Clients /\ CacheType /\ NoCall.at = "idle" /\ call \in [Clients -> CallRec(Len(lists))]
      /\ c \in DOMAIN call
  BY ClientsAre, CacheListsAre DEF World, NoCall, CacheLists
<1>2. EndCall(t) => call'[c] = NoCall
  BY <1>1, EndsIs DEF EndCall
<1>3. CASE CachedGet(t) \/ CachedReget(t) \/ CachedGetFails(t)
  BY <1>1, <1>2, <1>3 DEF CachedGet, CachedReget, CachedGetFails
<1>4. CASE CachedSet(t)
  <2>1. CASE ReadHash(c)
    <3> DEFINE v == [NoCall EXCEPT !.at = "push", !.hash = pointer[RequestOf(c)]]
    <3>1. v.at = "push"
      BY DEF NoCall
    <3>2. call' = [call EXCEPT ![c] = v]
      BY <2>1 DEF ReadHash
    <3> HIDE DEF v
    <3>3. call'[c] = v
      BY <1>1, <3>2
    <3> QED
      BY <3>1, <3>3
  <2> QED
    BY <1>1, <1>2, <1>4, <2>1 DEF CachedSet
<1>5. CASE SharedStep(t) \/ InsertPayload(t) \/ CommitPayload(t) \/ CachedColumn(t) \/ InsertName(t) \/ HsetName(t)
           \/ CommitName(t) \/ CachedRecheck(t)
  <2>1. call' = call
    BY <1>5 DEF SharedStep, InsertPayload, CommitPayload, CachedColumn, InsertName, HsetName, CommitName,
                CachedRecheck, cacheVars
  <2>2. pc[t] \notin Calling
    BY <1>5 DEF SharedStep, TakeMessage, EndOfBatch, InsertStatus, CheckPartition, CreateTable,
                InsertPayload, CommitPayload, CachedColumn, InsertName, HsetName, CommitName, CachedRecheck, Calling
  <2>3. call[c] = NoCall
    BY <1>1, <2>2, ClientsAre DEF CacheType, Active
  <2> QED
    BY <1>1, <2>1, <2>3
<1> QED
  BY <1>3, <1>4, <1>5 DEF CachedStep

LEMMA CallCourse ==
    ASSUME CachedInv, NEW t \in Tasks, CachedStep(t), CallCache(t) => Calm(t)
    PROVE  CallOnCourse(t)'
<1> DEFINE c == Coroutine(t)
<1>1. World
  BY InvParts
<1>2. CASE ~CallCache(t)
  BY <1>1, <1>2, CallQuiet DEF CallOnCourse
<1>3. CASE CallCache(t)
  <2>1. /\ pc' = pc /\ UNCHANGED <<batch, idx, statuses, payloads>> /\ GetStep(c)
    BY <1>3 DEF CallCache, Elsewhere
  <2>2. Calm(t) /\ CallOnCourse(t) /\ Places /\ Attribution
    BY <1>3, InvParts DEF Calm, OnCourse
  <2>3. Msg(t)' = Msg(t) /\ RowsOf(Request(t))' = RowsOf(Request(t)) /\ Request(t)' = Request(t)
    BY <2>1 DEF Msg, RowsOf, Request
  <2>4. ~CallFails(c)
    BY <2>2, CallBlames DEF Calm
  <2>5. Outcome(t)
    BY <1>1, <2>1, GetOutcome DEF World
  <2>6. ASSUME call[c].at = "rows", NEW s \in RowsOf(Request(t)) PROVE Named(c, s)
    BY <2>2, <2>6 DEF CallOnCourse, Named, Request
  <2>7. ASSUME call'[c].names = redisNames, NEW s \in RowsOf(Request(t)), NEW k \in Columns, s.ids[k] # NoId
        PROVE  \E n \in call'[c].names[k] : n.id = s.ids[k]
    <3>1. s \in statuses
      BY DEF RowsOf
    <3>2. [id |-> s.ids[k], name |-> Source(s).name[k]] \in names[k]
      BY <2>2, <2>7, <3>1 DEF Attribution
    <3>3. names[k] \subseteq redisNames[k]
      BY <2>2 DEF Places
    <3> QED
      BY <2>7, <3>2, <3>3
  <2>8. /\ call'[c].at # "failed"
        /\ call'[c].at = "rows" => call'[c].names = redisNames
        /\ call'[c].at \in {"swap", "done"} /\ call'[c].data = <<>> =>
              \/ RowsOf(Request(t)) = {}
              \/ call[c].at = "swap" /\ call[c].data = <<>>
    BY <2>4, <2>5, <2>6 DEF Outcome
  <2>9. /\ pc[t] = "get" /\ call[c].at = "swap" /\ call[c].data = <<>> => RowsOf(Request(t)) = {}
    BY <2>2 DEF CallOnCourse, Request
  <2>10. CallOnCourse(t)' = LET now == call'[c] rows == RowsOf(Request(t))'
                            IN  /\ now.at # "failed"
                                /\ now.at = "rows" => \A s \in rows : \A k \in Columns : s.ids[k] # NoId =>
                                                          \E n \in now.names[k] : n.id = s.ids[k]
                                /\ pc'[t] = "get" /\ now.at \in {"swap", "done"} /\ now.data = <<>> => rows = {}
    BY DEF CallOnCourse, Request, Coroutine
  <2> QED
    BY <2>1, <2>3, <2>7, <2>8, <2>9, <2>10
<1> QED
  BY <1>2, <1>3

-----------------------------------------------------------------------------
(* The rest of OnCourse. *)
OnTrack(t) ==
    /\ pc[t] # "reget"
    /\ pc[t] = "create" => Known(t) = {}
    /\ pc[t] \in ColumnsOn => \E p \in payloads : p.id = sps[t].payload_id
    /\ pc[t] = "recheck" => Lists(redisNames[Column(t)], Name(t, Column(t)))
    /\ pc[t] = "insert" /\ try[t] > 1 => Msg(t).day \in partitions

LEMMA CourseIs ==
    ASSUME NEW t
    PROVE  /\ OnCourse(t) <=> CallOnCourse(t) /\ OnTrack(t)
           /\ OnCourse(t)' <=> CallOnCourse(t)' /\ OnTrack(t)'
BY DEF OnCourse, OnTrack, ColumnsOn

(* What a calm task can rely on. *)
LEMMA CalmFacts ==
    ASSUME NEW t \in Tasks, Calm(t), CachedStep(t)
    PROVE  /\ World /\ BaseType /\ CacheType /\ CachedWorking(t) /\ TxTrue(t) /\ LocalsTrue(t) /\ Places
           /\ batch' = batch /\ Grows(t) /\ Shape(t) /\ Locally(t)
           /\ ~Fault(Current(t)) /\ call[Coroutine(t)].at # "failed" /\ pc[t] # "reget" /\ pc[t] \notin Idle
           /\ partitions \subseteq partitions'
<1>1. World /\ BaseType /\ CacheType /\ CachedWorking(t) /\ TxTrue(t) /\ LocalsTrue(t) /\ Places /\ pc[t] \notin Idle
  BY DEF Calm, World
<1>2. batch' = batch /\ Grows(t) /\ Shape(t) /\ Locally(t)
  BY <1>1, StepFrames, StepGrows, StepShape, StepLocals DEF Frames
<1>3. ~Fault(Current(t))
  BY DEF Fault, Calm
<1>4. call[Coroutine(t)].at # "failed" /\ pc[t] # "reget"
  BY DEF Calm, OnCourse, CallOnCourse
<1>5. partitions \subseteq partitions'
  BY StepFrames DEF Frames, CreateTable
<1> QED
  BY <1>1, <1>2, <1>3, <1>4, <1>5

LEMMA PayloadActions ==
    ASSUME NEW t \in Tasks, pc[t] \notin ColumnsOn, pc[t] \notin Idle, CachedStep(t)
    PROVE  \/ CallCache(t) \/ CachedGet(t) \/ CachedReget(t) \/ CachedGetFails(t) \/ CachedSet(t)
           \/ InsertPayload(t) \/ CommitPayload(t)
<1>1. ~SharedStep(t)
  BY DEF SharedStep, TakeMessage, EndOfBatch, InsertStatus, CheckPartition, CreateTable, ColumnsOn, Storing
<1>2. ~CachedColumn(t) /\ ~InsertName(t) /\ ~HsetName(t) /\ ~CommitName(t) /\ ~CachedRecheck(t)
  BY DEF CachedColumn, InsertName, HsetName, CommitName, CachedRecheck, ColumnsOn, Resolving, AtName
<1> QED
  BY <1>1, <1>2 DEF CachedStep

(* A request for which the cache and the tables show nothing has no payload. *)
LEMMA NothingKnown ==
    ASSUME NEW t \in Tasks, Calm(t), pc[t] = "get", call[Coroutine(t)].at = "done",
           call[Coroutine(t)].data = <<>>
    PROVE  Known(t) = {}
<1>1. RowsOf(Request(t)) = {}
  BY DEF Calm, OnCourse, CallOnCourse, Request
<1>2. pc[t] \notin Resolving \cup Storing
  BY DEF Resolving, AtName, Storing
<1> QED
  BY <1>1, <1>2 DEF Calm, PayloadUsed, Known, Request

LEMMA TrackFrom ==
    ASSUME NEW t, pc'[t] # "reget", pc'[t] # "create", pc'[t] # "recheck", pc'[t] # "insert",
           pc'[t] \in ColumnsOn => \E p \in payloads' : p.id = sps'[t].payload_id
    PROVE  OnTrack(t)'
BY DEF OnTrack, ColumnsOn

LEMMA PayloadTrack ==
    ASSUME NEW t \in Tasks, Calm(t), CachedStep(t), pc[t] \notin ColumnsOn
    PROVE  OnTrack(t)'
<1>1. /\ World /\ BaseType /\ CacheType /\ CachedWorking(t) /\ TxTrue(t) /\ LocalsTrue(t) /\ Places
      /\ batch' = batch /\ Grows(t) /\ Shape(t)
      /\ ~Fault(Current(t)) /\ call[Coroutine(t)].at # "failed" /\ pc[t] # "reget" /\ pc[t] \notin Idle
  BY CalmFacts
<1>2. {"set", "commit", "get"} \cap ColumnsOn = {}
  BY DEF ColumnsOn, Resolving, AtName, Storing
<1>3. CASE CallCache(t)
  <2>1. pc'[t] = pc[t] /\ pc[t] \in {"get", "set"}
    BY <1>1, <1>3 DEF CallCache
  <2> QED
    BY <1>2, <2>1, TrackFrom
<1>4. CASE CachedGet(t)
  <2>1. CASE TakeDump(t)
    <3>1. pc'[t] = "set"
      BY <1>1, <2>1, GotoNamed DEF TakeDump, Moves
    <3> QED
      BY <1>2, <3>1, TrackFrom
  <2>2. CASE call[Coroutine(t)].data = <<>> /\ Goto(t, "create")
    <3>1. pc'[t] = "create" /\ idx'[t] = idx[t] /\ payloads' = payloads
      BY <1>1, <1>4, <2>2, GotoNamed DEF CachedGet, Moves
    <3>2. Known(t) = {}
      BY <1>4, <2>2, NothingKnown DEF CachedGet, Returned, At
    <3>3. Known(t)' = {}
      BY <1>1, <3>1, <3>2 DEF Known, Msg
    <3>4. "create" \notin ColumnsOn
      BY DEF ColumnsOn, Resolving, AtName, Storing
    <3> QED
      BY <3>1, <3>3, <3>4 DEF OnTrack
  <2> QED
    BY <1>4, <2>1, <2>2 DEF CachedGet
<1>5. CASE CachedReget(t)
  BY <1>1, <1>5 DEF CachedReget, Returned
<1>6. CASE CachedGetFails(t)
  BY <1>1, <1>6 DEF CachedGetFails, At
<1>7. CASE CachedSet(t)
  <2>1. pc[t] = "set" /\ (Goto(t, "set") \/ AfterSet(t))
    BY <1>1, <1>7 DEF CachedSet, At
  <2>2. CASE Goto(t, "set")
    <3>1. pc'[t] = "set"
      BY <1>1, <2>2, GotoNamed DEF Moves
    <3> QED
      BY <1>2, <3>1, TrackFrom
  <2>3. CASE AfterSet(t) /\ tx[t] # NoRow
    <3>1. pc'[t] = "commit"
      BY <1>1, <2>3, AfterSetShape DEF Moves
    <3> QED
      BY <1>2, <3>1, TrackFrom
  <2>4. CASE AfterSet(t) /\ tx[t] = NoRow
    <3>1. pc'[t] = "column" /\ sps'[t].payload_id = dump[t].id
      BY <1>1, <2>4, AfterSetShape DEF Moves
    <3>2. Real(Request(t), dump[t].id)
      BY <1>1, <2>1, <2>4 DEF LocalsTrue, Request
    <3>3. \E p \in payloads : p.id = dump[t].id
      BY <1>1, <2>1, <3>2, RealCommitted DEF Calm
    <3>4. \E p \in payloads' : p.id = sps'[t].payload_id
      BY <1>1, <3>1, <3>3 DEF Grows
    <3> QED
      BY <3>1, <3>4, TrackFrom
  <2> QED
    BY <2>1, <2>2, <2>3, <2>4
<1>8. CASE InsertPayload(t)
  <2>1. Known(t) = {}
    BY <1>8 DEF InsertPayload, Calm, OnCourse
  <2>2. Goto(t, "set")
    BY <1>1, <1>8, <2>1 DEF InsertPayload
  <2>3. pc'[t] = "set"
    BY <1>1, <2>2, GotoNamed DEF Moves
  <2> QED
    BY <1>2, <2>3, TrackFrom
<1>9. CASE CommitPayload(t)
  <2>1. StartColumns(t) /\ pc[t] = "commit" /\ sps' = sps
    BY <1>1, <1>9 DEF CommitPayload
  <2>2. pc'[t] = "column"
    BY <1>1, <2>1, StartMoves DEF Moves
  <2>3. payloads' = payloads \cup {CommittedRow(t)}
    BY <1>1, <1>9, CommitIs
  <2>4. CommittedRow(t).id = tx[t].id /\ dump[t].id = tx[t].id /\ sps[t].payload_id = dump[t].id
    <3>1. TxOf(t, "payloads")
      BY <1>1, <2>1, OpenPayloadIs DEF TxTrue, OpenPayload
    <3> QED
      BY <1>1, <2>1, <3>1 DEF TxTrue, Places, CommittedRow
  <2> QED
    BY <2>1, <2>2, <2>3, <2>4, TrackFrom
<1> QED
  BY <1>1, <1>3, <1>4, <1>5, <1>6, <1>7, <1>8, <1>9, PayloadActions

(* The payload stays while its columns are resolved and the status inserted. *)
LEMMA PayloadStays ==
    ASSUME NEW t \in Tasks, Calm(t), CachedStep(t), pc[t] \in ColumnsOn, pc'[t] \in ColumnsOn
    PROVE  \E p \in payloads' : p.id = sps'[t].payload_id
<1>1. Locally(t) /\ payloads \subseteq payloads'
  BY CalmFacts DEF Grows
<1>2. \E p \in payloads : p.id = sps[t].payload_id
  BY DEF Calm, OnCourse, ColumnsOn
<1>3. pc[t] \notin {"get", "reget", "set", "create"} /\ pc'[t] \notin Idle /\ pc'[t] # "get"
  BY DEF ColumnsOn, Resolving, AtName, Storing
<1>4. sps'[t].payload_id = sps[t].payload_id
  <2>1. ~Fetched(t) /\ ~UsesDump(t)
    BY <1>3 DEF Fetched, UsesDump
  <2>2. ~(Opened(t) /\ tx'[t].table = "payloads")
    BY <1>3 DEF Opened, Columns
  <2> QED
    BY <1>1, <1>3, <2>1, <2>2 DEF Locally, Resolves, Anticipates, Lingers
<1> QED
  BY <1>1, <1>2, <1>4

LEMMA NameTrack ==
    ASSUME NEW t \in Tasks, Calm(t), CachedStep(t), pc[t] \in ColumnsOn
    PROVE  OnTrack(t)'
<1>1. /\ World /\ BaseType /\ CacheType /\ CachedWorking(t) /\ TxTrue(t) /\ Places
      /\ batch' = batch /\ Grows(t) /\ Shape(t)
      /\ ~Fault(Current(t)) /\ partitions \subseteq partitions'
  BY CalmFacts
<1>2. pc'[t] \in ColumnsOn \cup {"next"}
  BY <1>1, NamesGoOn
<1>3. pc'[t] # "reget" /\ pc'[t] # "create"
  BY <1>2 DEF ColumnsOn, Resolving, AtName, Storing
<1>4. ASSUME pc'[t] = "recheck" \/ (pc'[t] = "insert" /\ try'[t] > 1)
      PROVE  /\ pc'[t] = "recheck" => Lists(redisNames[Column(t)], Name(t, Column(t))) /\ col'[t] = col[t]
             /\ pc'[t] = "insert" => Msg(t).day \in partitions'
             /\ idx'[t] = idx[t]
  <2>1. CASE InsertStatus(t)
    <3>1. ~Accepted(t) /\ Rejected(t)
      <4>1. Finish(t, "success") => pc'[t] = "next"
        BY <1>1, FinishMoves DEF Moves
      <4> QED
        BY <1>1, <1>4, <2>1, <4>1 DEF InsertStatus
    <3>2. try[t] = 1
      <4>1. ~(Msg(t).day \in partitions)
        BY <2>1, <3>1, CalmAccepted DEF InsertStatus
      <4>2. ~(try[t] > 1)
        BY <2>1, <4>1 DEF InsertStatus, Calm, OnCourse
      <4> QED
        BY <1>1, <4>2, BaseParts
    <3>3. pc'[t] = "partition"
      BY <1>1, <3>1, <3>2, GotoNamed DEF Rejected, Moves
    <3> QED
      BY <1>4, <3>3
  <2>2. CASE CheckPartition(t)
    <3>1. \/ Msg(t).day \in partitions /\ Retry(t, 2)
          \/ Goto(t, "create_table")
      BY <1>1, <2>2 DEF CheckPartition
    <3>2. Goto(t, "create_table") => pc'[t] = "create_table"
      BY <1>1, GotoNamed DEF Moves
    <3>3. Retry(t, 2) => pc'[t] = "insert" /\ idx'[t] = idx[t]
      BY <1>1, GotoNamed DEF Retry, Moves
    <3> QED
      BY <1>1, <1>4, <3>1, <3>2, <3>3
  <2>3. CASE CreateTable(t)
    <3>1. (Retry(t, 2) \/ Retry(t, 3)) /\ Msg(t).day \in partitions'
      BY <1>1, <2>3 DEF CreateTable
    <3>2. pc'[t] = "insert" /\ idx'[t] = idx[t]
      BY <1>1, <3>1, GotoNamed DEF Retry, Moves
    <3> QED
      BY <3>1, <3>2
  <2>4. ~AfterColumn(t)
    <3>1. ASSUME AfterColumn(t) PROVE FALSE
      <4>1. CASE col[t] < 3
        <5>1. Goto(t, "column") /\ NextColumn(t) /\ col[t] <= 3
          BY <1>1, <3>1, <4>1, BaseParts DEF AfterColumn, NextColumn
        <5> QED
          BY <1>1, <1>4, <5>1, NextMoves DEF Moves
      <4>2. CASE ~(col[t] < 3)
        <5>1. Goto(t, "insert") /\ try' = [try EXCEPT ![t] = 1]
          BY <3>1, <4>2 DEF AfterColumn
        <5>2. pc'[t] = "insert" /\ try'[t] = 1
          <6>1. 1 \in 1..3
            OBVIOUS
          <6>2. try'[t] = 1
            BY <1>1, <5>1, <6>1, TryAlters
          <6> QED
            BY <1>1, <5>1, <6>2, GotoNamed DEF Moves
        <5> QED
          BY <1>4, <5>2
      <4> QED
        BY <4>1, <4>2
    <3> QED
      BY <3>1
  <2>5. ~Goto(t, "add") /\ ~Goto(t, "hset") /\ ~Goto(t, "commit_name")
    BY <1>1, <1>4, GotoNamed DEF Moves
  <2>6. ~CachedColumn(t) /\ ~CachedRecheck(t) /\ ~HsetName(t) /\ ~CommitName(t)
    <3>1. ~Fail(t)
      BY <1>1, <1>4, FailMoves DEF Moves
    <3> QED
      BY <1>1, <2>4, <2>5, <3>1 DEF CachedColumn, CachedRecheck, HsetName, CommitName
  <2>7. CASE InsertName(t)
    <3>1. Lists(names[Column(t)], Name(t, Column(t))) /\ Goto(t, "recheck") /\ col' = col /\ pc[t] = "add"
      BY <1>1, <2>5, <2>7 DEF InsertName
    <3>2. pc'[t] = "recheck" /\ idx'[t] = idx[t] /\ Column(t) \in Columns
      BY <1>1, <3>1, GotoNamed, ColumnIs DEF Moves, CachedWorking, Resolving, AtName
    <3>3. Lists(redisNames[Column(t)], Name(t, Column(t)))
      BY <1>1, <3>1, <3>2 DEF Places, Lists
    <3> QED
      BY <3>1, <3>2, <3>3
  <2> QED
    BY <2>1, <2>2, <2>3, <2>6, <2>7, NameActions
<1>5. pc'[t] = "recheck" => Lists(redisNames'[Column(t)'], Name(t, Column(t))')
  <2>1. ASSUME pc'[t] = "recheck" PROVE Lists(redisNames'[Column(t)'], Name(t, Column(t))')
    <3>1. Lists(redisNames[Column(t)], Name(t, Column(t))) /\ col'[t] = col[t] /\ idx'[t] = idx[t]
      BY <1>4, <2>1
    <3>2. Column(t)' = Column(t) /\ Name(t, Column(t))' = Name(t, Column(t))
      BY <1>1, <3>1 DEF Column, Name, Msg
    <3>3. Column(t) \in Columns
      <4>1. CachedWorking(t)'
        BY DEF Calm, World
      <4>2. col'[t] <= 3
        BY <2>1, <4>1 DEF CachedWorking, Resolving, AtName
      <4> QED
        BY <1>1, <3>1, <4>2, ColumnIs
    <3> QED
      BY <1>1, <3>1, <3>2, <3>3 DEF Grows, Lists
  <2> QED
    BY <2>1
<1>6. pc'[t] = "insert" /\ try'[t] > 1 => Msg(t)'.day \in partitions'
  BY <1>1, <1>4 DEF Msg
<1>7. pc'[t] \in ColumnsOn => \E p \in payloads' : p.id = sps'[t].payload_id
  BY PayloadStays
<1> QED
  BY <1>3, <1>5, <1>6, <1>7 DEF OnTrack

LEMMA CourseStep ==
    ASSUME CachedInv, NEW t \in Tasks, CachedStep(t), Calm(t)
    PROVE  OnCourse(t)'
BY CallCourse, PayloadTrack, NameTrack, CourseIs

-----------------------------------------------------------------------------
(* The steps of another coroutine leave a calm task on course. *)
LEMMA OtherRows ==
    ASSUME CachedInv, CachedInv', NEW s \in Tasks, CachedStep(s), NEW t \in Tasks \ {s}, NEW r, Undisturbed(t, r)'
    PROVE  /\ RowsOf(r)' = RowsOf(r)
           /\ \A p \in payloads' : p.request_id = r => p \in payloads
<1>1. World /\ batch' = batch
  BY InvParts, StepFrames DEF Frames
<1>2. pc[s] \notin Idle => Msg(s).request_id # r
  BY <1>1, AloneAfter
<1>3. RowsOf(r)' = RowsOf(r)
  BY <1>2, RowsStep
<1>4. ASSUME NEW p \in payloads', p \notin payloads PROVE p.request_id # r
  <2>1. TxOf(s, "payloads") /\ p.request_id = tx[s].key
    BY <1>1, <1>4, StepGrows DEF World, Grows
  <2>2. pc[s] \notin Idle /\ tx[s].key = Msg(s).request_id
    BY <1>1, <2>1 DEF World, TxTrue
  <2> QED
    BY <1>2, <2>1, <2>2
<1> QED
  BY <1>3, <1>4

LEMMA OtherClient ==
    ASSUME CachedInv, NEW s \in Tasks, CachedStep(s), NEW t \in Tasks \ {s}
    PROVE  call'[Coroutine(t)] = call[Coroutine(t)]
<1>1. World /\ LocalsTrue(s)
  BY InvParts
<1>2. pc[s] = "set" => dump[s].id \in Ids
  BY <1>1 DEF LocalsTrue
<1>3. TaskClient(s)
  BY <1>1, <1>2, StepClient DEF World
<1>4. Coroutine(t) \in Clients /\ Coroutine(t) # Coroutine(s)
  BY ClientsAre
<1> QED
  BY <1>3, <1>4 DEF TaskClient

LEMMA OtherCourse ==
    ASSUME CachedInv, CachedInv', NEW s \in Tasks, CachedStep(s), NEW t \in Tasks \ {s}, pc[t] \notin Idle,
           NEW r, r = Request(t), Undisturbed(t, r)', OnCourse(t)
    PROVE  OnCourse(t)'
<1>1. World /\ CachedWorking(t)
  BY InvParts DEF World
<1>2. /\ Shape(s) /\ Grows(s) /\ partitions \subseteq partitions'
      /\ RowsOf(r)' = RowsOf(r) /\ call'[Coroutine(t)] = call[Coroutine(t)]
      /\ \A p \in payloads' : p.request_id = r => p \in payloads
  BY <1>1, StepShape, StepGrows, StepFrames, OtherRows, OtherClient DEF World, Frames, CreateTable
<1>3. /\ batch' = batch /\ idx'[t] = idx[t] /\ pc'[t] = pc[t] /\ col'[t] = col[t] /\ try'[t] = try[t]
      /\ sps'[t] = sps[t]
  BY <1>2 DEF Shape, Changes
<1>4. /\ Msg(t)' = Msg(t) /\ Request(t)' = r /\ Column(t)' = Column(t) /\ Coroutine(t)' = Coroutine(t)
      /\ \A c : Name(t, c)' = Name(t, c)
  BY <1>3 DEF Msg, Request, Column, Name, Coroutine
<1>5. CallOnCourse(t)'
  <2>1. CallOnCourse(t) /\ RowsOf(Msg(t).request_id) = RowsOf(r)
    BY DEF OnCourse, Request
  <2>2. RowsOf(Msg(t).request_id)' = RowsOf(r)'
    BY <1>4 DEF RowsOf, Request
  <2> QED
    BY <1>2, <1>3, <1>4, <2>1, <2>2 DEF CallOnCourse
<1>6. OnTrack(t)'
  <2>1. pc'[t] # "reget"
    BY <1>3 DEF OnCourse
  <2>2. pc'[t] = "create" => Known(t)' = {}
    <3>1. Known(t)' \subseteq Known(t)
      BY <1>2, <1>4 DEF Known, Request
    <3> QED
      BY <1>3, <3>1 DEF OnCourse
  <2>3. pc'[t] \in ColumnsOn => \E p \in payloads' : p.id = sps'[t].payload_id
    BY <1>2, <1>3 DEF OnCourse, ColumnsOn, Grows
  <2>4. pc'[t] = "recheck" => Lists(redisNames'[Column(t)'], Name(t, Column(t))')
    <3>1. ASSUME pc'[t] = "recheck" PROVE Lists(redisNames'[Column(t)'], Name(t, Column(t))')
      <4>1. Lists(redisNames[Column(t)], Name(t, Column(t))) /\ Column(t) \in Columns
        BY <1>1, <1>3, <3>1, ColumnIs DEF OnCourse, CachedWorking, Resolving, AtName, World
      <4>2. Name(t, Column(t))' = Name(t, Column(t))
        BY <1>4 DEF Name
      <4> QED
        BY <1>2, <1>4, <4>1, <4>2 DEF Grows, Lists
    <3> QED
      BY <3>1
  <2>5. pc'[t] = "insert" /\ try'[t] > 1 => Msg(t)'.day \in partitions'
    BY <1>2, <1>3, <1>4 DEF OnCourse
  <2> QED
    BY <2>1, <2>2, <2>3, <2>4, <2>5 DEF OnTrack
<1> QED
  BY <1>5, <1>6, CourseIs

-----------------------------------------------------------------------------
(* A payload that is committed gets its status. *)
LEMMA PayloadUsedStep ==
    ASSUME CachedInv, CachedInv', NEW s \in Tasks, CachedStep(s), NEW t \in Tasks, NEW r, Undisturbed(t, r)',
           PayloadUsed(t, r), s = t /\ pc[t] \notin Idle /\ Msg(t).request_id = r => Calm(t)
    PROVE  PayloadUsed(t, r)'
<1>1. World /\ batch' = batch /\ TablesInv' /\ Attribution'
  BY InvParts, StepFrames DEF Frames, CachedInv
<1>2. Shape(s) /\ Grows(s) /\ Frames(s)
  BY <1>1, StepShape, StepGrows, StepFrames DEF World
<1> DEFINE OnItsWay == pc[t] \in Resolving \cup Storing /\ Msg(t).request_id = r
<1>3. ASSUME \E p \in payloads : p.request_id = r PROVE RowsOf(r)' # {} \/ OnItsWay'
  <2>1. RowsOf(r) # {} \/ OnItsWay
    BY <1>3 DEF PayloadUsed
  <2>2. CASE RowsOf(r) # {}
    BY <2>2, RowsStep
  <2>3. CASE OnItsWay /\ s # t
    <3>1. pc'[t] = pc[t] /\ idx'[t] = idx[t]
      BY <1>2, <2>3 DEF Shape, Changes
    <3> QED
      BY <1>1, <2>3, <3>1 DEF Msg
  <2>4. CASE OnItsWay /\ s = t
    <3>1. pc[t] \in ColumnsOn /\ pc[t] \notin Idle
      BY <2>4 DEF ColumnsOn, Resolving, AtName, Storing
    <3>2. (pc'[t] \in ColumnsOn /\ idx'[t] = idx[t]) \/ Row(t, TRUE) \in statuses'
      BY <2>4, <3>1, StatusFollows
    <3>3. CASE pc'[t] \in ColumnsOn /\ idx'[t] = idx[t]
      BY <1>1, <2>4, <3>3 DEF Msg, ColumnsOn
    <3>4. CASE Row(t, TRUE) \in statuses'
      <4>1. PICK row \in statuses' : row = Row(t, TRUE)
        BY <3>4
      <4>2. row.task = t /\ row.pos = idx[t]
        BY <4>1 DEF Row
      <4>3. batch'[row.task][row.pos].request_id = r
        BY <1>1, <2>4, <4>2 DEF Msg
      <4>4. PICK q \in payloads' : q.id = row.payload_id /\ q.request_id = batch'[row.task][row.pos].request_id
        BY <1>1 DEF Attribution, Source
      <4>5. \A p \in payloads' : p.id = q.id => p = q
        BY <1>1 DEF TablesInv
      <4>6. row \in RowsOf(r)'
        BY <4>3, <4>4, <4>5 DEF RowsOf
      <4> QED
        BY <4>6
    <3> QED
      BY <3>2, <3>3, <3>4
  <2> QED
    BY <2>1, <2>2, <2>3, <2>4
<1>4. ASSUME NEW p \in payloads', p \notin payloads, p.request_id = r PROVE OnItsWay'
  <2>1. TxOf(s, "payloads") /\ p.request_id = tx[s].key /\ CommitPayload(s)
    BY <1>2, <1>4 DEF Grows, Frames
  <2>2. pc[s] \notin Idle /\ Msg(s).request_id = r
    BY <1>1, <1>4, <2>1 DEF World, TxTrue
  <2>3. s = t /\ Current(s) \notin faulted'
    BY <1>1, <2>2, AloneAfter
  <2>4. StartColumns(t)
    BY <2>1, <2>3 DEF CommitPayload, Fault
  <2>5. pc'[t] = "column" /\ idx'[t] = idx[t]
    BY <1>1, <2>4, StartMoves DEF World, Moves
  <2> QED
    BY <1>1, <2>2, <2>3, <2>5 DEF Resolving, Msg
<1>5. ASSUME NEW p \in payloads', p.request_id = r PROVE RowsOf(r)' # {} \/ OnItsWay'
  BY <1>3, <1>4, <1>5
<1> QED
  BY <1>5 DEF PayloadUsed

-----------------------------------------------------------------------------
LEMMA LossKept ==
    ASSUME batch' = batch, verdict' = verdict, faulted \subseteq faulted', LossNeedsCompany
    PROVE  LossNeedsCompany'
<1>1. ASSUME NEW t \in Tasks, NEW i \in DOMAIN batch[t], verdict[t][i] = "error", batch[t][i].kind = "good",
             NEW r, r = batch[t][i].request_id
      PROVE  ~Undisturbed(t, r)'
  BY <1>1, Earlier DEF LossNeedsCompany
<1>2. ASSUME NEW t \in Tasks, NEW i \in DOMAIN batch'[t], verdict'[t][i] = "error", batch'[t][i].kind = "good"
      PROVE  ~Undisturbed(t, batch[t][i].request_id)'
  <2>1. PICK r : r = batch[t][i].request_id
    OBVIOUS
  <2>2. ~Undisturbed(t, r)'
    BY <1>1, <1>2, <2>1
  <2> QED
    BY <2>1, <2>2 DEF Undisturbed, Concerns
<1> QED
  BY <1>2 DEF LossNeedsCompany

LEMMA LossStep ==
    ASSUME CachedInv, Places, NEW s \in Tasks, CachedStep(s), LossNeedsCompany,
           \A r : r = Request(s) /\ pc[s] \notin Idle /\ Undisturbed(s, r)' => Calm(s)
    PROVE  LossNeedsCompany'
<1>1. World /\ BaseType /\ CacheType
  BY InvParts DEF World
<1>2. batch' = batch /\ faulted \subseteq faulted'
  BY StepFrames, StepBlames DEF Frames, Blames
<1>3. CASE verdict' = verdict
  BY <1>2, <1>3, LossKept
<1>4. ASSUME NEW v, Ends(s, v) PROVE LossNeedsCompany'
  <2>1. idx[s] \in DOMAIN batch[s]
    <3>1. Targets(s) /\ Position(s)
      BY <1>1, StepShape, StepPosition DEF World
    <3>2. idx[s] <= Len(batch[s]) /\ idx[s] \in Ids
      BY <1>1, <1>4, <3>1 DEF Ends, Position, BaseType
    <3> QED
      BY <1>1, <3>2, BatchIs DEF BaseType
  <2>2. /\ verdict'[s] = [i \in DOMAIN batch[s] |-> IF i = idx[s] THEN v ELSE verdict[s][i]]
        /\ \A u \in Tasks \ {s} : verdict'[u] = verdict[u]
    BY <1>4, <2>1, VerdictIs DEF Ends
  <2>3. ASSUME NEW t \in Tasks, NEW i \in DOMAIN batch[t], verdict'[t][i] = "error", batch[t][i].kind = "good",
               NEW r, r = batch[t][i].request_id, Undisturbed(t, r)'
        PROVE  FALSE
    <3>1. CASE verdict[t][i] = "error"
      BY <1>2, <2>3, <3>1, Earlier DEF LossNeedsCompany
    <3>2. CASE verdict[t][i] # "error"
      <4>1. t = s /\ i = idx[s] /\ v = "error"
        BY <2>2, <2>3, <3>2
      <4>2. r = Request(s) /\ Lost(s) /\ Msg(s).kind = "good"
        BY <1>4, <2>3, <4>1 DEF Ends, Msg, Request
      <4>3. CASE pc[s] \notin Idle
        BY <2>3, <4>1, <4>2, <4>3, NotLost
      <4>4. CASE pc[s] \in Idle
        <5>1. Current(s) \in faulted'
          BY <4>2, <4>4 DEF Lost, Calling
        <5>2. Current(s) \in Messages /\ Current(s)[1] = s /\ Current(s)[2] = idx[s]
          <6>1. idx[s] \in 1..LastPosition
            <7>1. idx[s] \in 1..Len(batch[s]) /\ Len(batch[s]) \in Nat /\ Len(batch[s]) <= LastPosition
              BY <1>1, <2>1, BatchIs DEF BaseType
            <7> QED
              BY <7>1, CacheAssumption
          <6> QED
            BY <6>1 DEF Current, Messages
        <5>3. Concerns(Current(s), s, r)
          BY <2>1, <4>2, <5>2 DEF Concerns, MessageOf, Request, Msg
        <5> DEFINE x == Current(s)
        <5>4. x \in Messages /\ Concerns(x, s, r) /\ x \in faulted'
          BY <5>1, <5>2, <5>3
        <5> HIDE DEF x
        <5> QED
          BY <1>2, <2>3, <4>1, <5>4, Later
      <4> QED
        BY <4>3, <4>4
    <3> QED
      BY <3>1, <3>2
  <2>4. ASSUME NEW t \in Tasks, NEW i \in DOMAIN batch'[t], verdict'[t][i] = "error", batch'[t][i].kind = "good"
        PROVE  ~Undisturbed(t, batch[t][i].request_id)'
    <3>1. PICK r : r = batch[t][i].request_id
      OBVIOUS
    <3>2. ~Undisturbed(t, r)'
      BY <1>2, <2>3, <2>4, <3>1
    <3>3. batch'[t][i].request_id = r
      BY <1>2, <3>1
    <3> QED
      BY <3>2, <3>3 DEF Undisturbed, Concerns
  <2> QED
    BY <2>4 DEF LossNeedsCompany
<1>5. verdict' = verdict \/ \E v : Ends(s, v)
  <2>1. CallCache(s) => verdict' = verdict
    BY DEF CallCache, logVars
  <2> QED
    BY <1>1, <2>1, StepEnds, BaseParts DEF Settling
<1> QED
  BY <1>3, <1>4, <1>5

-----------------------------------------------------------------------------
(* Every step keeps CalmInv. *)
LEMMA TaskCalm ==
    ASSUME CachedInv, CalmInv, NEW s \in Tasks, CachedStep(s)
    PROVE  CalmInv'
<1>1. CachedInv' /\ World /\ World' /\ Places
  BY TaskInv, InvParts DEF CalmInv, CachedInv, World
<1>2. batch' = batch /\ faulted \subseteq faulted' /\ Shape(s) /\ Targets(s)
  BY <1>1, StepFrames, StepBlames, StepShape DEF Frames, Blames, World
<1>3. ASSUME NEW t \in Tasks, CachedStep(t), pc[t] \notin Idle, NEW r, r = Request(t), Undisturbed(t, r)'
      PROVE  Calm(t)
  BY <1>1, <1>3, CalmIs DEF CalmInv, Request
<1>4. ASSUME NEW t \in Tasks, NEW r \in RequestIds, Undisturbed(t, r)'
      PROVE  NamesCommitted(t, r)' /\ PayloadUsed(t, r)'
  <2>1. Undisturbed(t, r)
    BY <1>2, <1>4, Earlier
  <2>2. NamesCommitted(t, r) /\ PayloadUsed(t, r)
    BY <2>1 DEF CalmInv
  <2>3. s = t /\ pc[t] \notin Idle /\ Msg(t).request_id = r => Calm(t)
    BY <1>3, <1>4 DEF Request
  <2> QED
    BY <1>1, <1>4, <2>2, <2>3, NamesCommittedStep, PayloadUsedStep
<1>5. ASSUME NEW t \in Tasks, pc'[t] \notin Idle, NEW r, r = Request(t)', Undisturbed(t, r)'
      PROVE  OnCourse(t)'
  <2>1. CASE t # s
    <3>1. pc'[t] = pc[t] /\ idx'[t] = idx[t]
      BY <1>2, <2>1 DEF Shape, Changes
    <3>2. r = Request(t)
      BY <1>2, <1>5, <3>1 DEF Request, Msg
    <3>3. Undisturbed(t, Request(t))
      BY <1>2, <1>5, <3>2, Earlier
    <3>4. OnCourse(t)
      BY <1>5, <3>1, <3>3 DEF CalmInv, Request
    <3> QED
      BY <1>1, <1>5, <2>1, <3>1, <3>2, <3>4, OtherCourse
  <2>2. CASE t = s /\ pc[t] \notin Idle
    <3>1. idx'[t] = idx[t]
      BY <1>2, <1>5, <2>2 DEF Targets
    <3>2. r = Request(t)
      BY <1>2, <1>5, <3>1 DEF Request, Msg
    <3> QED
      BY <1>3, <1>5, <2>2, <3>2, CourseStep
  <2>3. CASE t = s /\ pc[t] \in Idle
    <3>1. pc'[t] = "get"
      BY <1>2, <1>5, <2>3 DEF Targets
    <3>2. ~CallCache(t)
      BY <2>3 DEF CallCache
    <3>3. CallOnCourse(t)'
      BY <2>3, <3>2, CallCourse
    <3>4. "get" \notin ColumnsOn
      BY DEF ColumnsOn, Resolving, AtName, Storing
    <3> QED
      BY <3>1, <3>3, <3>4, TrackFrom, CourseIs
  <2> QED
    BY <2>1, <2>2, <2>3
<1>6. \A t \in Tasks : pc'[t] \notin Idle /\ Undisturbed(t, Msg(t).request_id)' => OnCourse(t)'
  <2> SUFFICES ASSUME NEW t \in Tasks, pc'[t] \notin Idle, Undisturbed(t, Msg(t).request_id)'
               PROVE  OnCourse(t)'
    OBVIOUS
  <2>1. PICK r : r = Request(t)'
    OBVIOUS
  <2>2. Undisturbed(t, r)'
    BY <2>1 DEF Undisturbed, Concerns, Request
  <2> QED
    BY <1>5, <2>1, <2>2
<1>7. Places' /\ LossNeedsCompany'
  BY <1>1, <1>3, PlacesStep, LossStep DEF CalmInv
<1> QED
  BY <1>4, <1>6, <1>7 DEF CalmInv

(* What the metrics tasks, Redis and the spawned UPDATEs leave alone. *)
Aside ==
    /\ UNCHANGED <<names, statuses, partitions, batch, idx, pc, col, try, sps, verdict, dump, tx, redisNames>>
    /\ payloads' = payloads \/ Rewrites
    /\ updates' \subseteq updates /\ faulted \subseteq faulted'
    /\ \A x \in faulted' : x \in faulted \/ x[2] \in DOMAIN batch[x[1]]
    /\ \A t \in Tasks : call'[Coroutine(t)] = call[Coroutine(t)]

LEMMA AsideCalm ==
    ASSUME CachedInv, CachedInv', CalmInv, Aside
    PROVE  CalmInv'
<1>1. World /\ Places /\ batch' = batch /\ faulted \subseteq faulted'
  BY InvParts DEF CalmInv, Aside
<1>2. \A r : (\E p \in payloads' : p.request_id = r) => \E p \in payloads : p.request_id = r
  BY DEF Aside, Rewrites
<1>3. \A id : (\E p \in payloads : p.id = id) => \E p \in payloads' : p.id = id
  BY DEF Aside, Rewrites
<1>4. ASSUME NEW r PROVE RowsOf(r)' = RowsOf(r)
  <2>1. /\ \A q \in payloads' : \E p \in payloads : q.id = p.id /\ q.request_id = p.request_id
        /\ \A p \in payloads : \E q \in payloads' : q.id = p.id /\ q.request_id = p.request_id
    BY DEF Aside, Rewrites
  <2>2. ASSUME NEW id
        PROVE  (\E p \in payloads' : p.id = id /\ p.request_id = r) <=> \E p \in payloads : p.id = id /\ p.request_id = r
    BY <2>1
  <2>3. statuses' = statuses
    BY DEF Aside
  <2> QED
    BY <2>2, <2>3 DEF RowsOf
<1>5. ASSUME NEW t \in Tasks
      PROVE  /\ Msg(t)' = Msg(t) /\ Request(t)' = Request(t) /\ Column(t)' = Column(t)
             /\ \A c : Name(t, c)' = Name(t, c)
             /\ pc'[t] = pc[t] /\ call'[Coroutine(t)] = call[Coroutine(t)] /\ Coroutine(t)' = Coroutine(t)
  BY DEF Msg, Request, Column, Name, Coroutine, Aside
<1>6. Places'
  <2>1. \A x \in faulted' : x[2] \in DOMAIN batch'[x[1]]
    BY <1>1 DEF Places, Aside
  <2>2. \A u \in updates' : u.pos \in DOMAIN batch'[u.task]
    BY <1>1 DEF Places, Aside
  <2>3. verdict' = verdict /\ names' = names /\ redisNames' = redisNames /\ sps' = sps /\ dump' = dump /\ pc' = pc
    BY DEF Aside
  <2> QED
    BY <1>1, <2>1, <2>2, <2>3 DEF Places
<1>7. ASSUME NEW t \in Tasks, NEW r \in RequestIds, Undisturbed(t, r)'
      PROVE  NamesCommitted(t, r)' /\ PayloadUsed(t, r)'
  <2>1. NamesCommitted(t, r) /\ PayloadUsed(t, r)
    BY <1>1, <1>7, Earlier DEF CalmInv
  <2>2. NamesCommitted(t, r)'
    BY <2>1 DEF NamesCommitted, Aside, TxOf, NewName
  <2>3. RowsOf(r)' = RowsOf(r)
    BY <1>4
  <2>4. PayloadUsed(t, r)'
    BY <1>2, <1>5, <2>1, <2>3 DEF PayloadUsed
  <2> QED
    BY <2>2, <2>4
<1>8. ASSUME NEW t \in Tasks, pc'[t] \notin Idle, NEW r, r = Request(t), Undisturbed(t, r)'
      PROVE  OnCourse(t)'
  <2>1. OnCourse(t)
    BY <1>1, <1>5, <1>8, Earlier DEF CalmInv, Request
  <2>2. CallOnCourse(t)'
    <3>1. RowsOf(Msg(t).request_id)' = RowsOf(r)'
      BY <1>5, <1>8 DEF RowsOf, Request
    <3>2. RowsOf(Msg(t).request_id)' = RowsOf(Msg(t).request_id)
      BY <1>4, <1>8, <3>1 DEF Request
    <3> QED
      BY <1>5, <2>1, <3>2 DEF CallOnCourse, OnCourse
  <2>3. pc'[t] = "create" => Known(t)' = {}
    <3>1. ASSUME NEW p \in Known(t)' PROVE Known(t) # {}
      BY <1>2, <1>5, <3>1 DEF Known
    <3> QED
      BY <1>5, <2>1, <3>1 DEF OnCourse
  <2>4. pc'[t] \in ColumnsOn => \E p \in payloads' : p.id = sps'[t].payload_id
    BY <1>3, <1>5, <2>1 DEF OnCourse, ColumnsOn, Aside
  <2>5. pc'[t] = "recheck" => Lists(redisNames'[Column(t)'], Name(t, Column(t))')
    BY <1>5, <2>1 DEF OnCourse, Aside, Lists, Name, Column, Msg
  <2>6. pc'[t] = "insert" /\ try'[t] > 1 => Msg(t)'.day \in partitions'
    BY <1>5, <2>1 DEF OnCourse, Aside
  <2>7. OnTrack(t)'
    BY <1>5, <2>1, <2>3, <2>4, <2>5, <2>6 DEF OnTrack, OnCourse
  <2> QED
    BY <2>2, <2>7, CourseIs
<1>9. \A t \in Tasks : pc'[t] \notin Idle /\ Undisturbed(t, Msg(t).request_id)' => OnCourse(t)'
  <2> SUFFICES ASSUME NEW t \in Tasks, pc'[t] \notin Idle, Undisturbed(t, Msg(t).request_id)'
               PROVE  OnCourse(t)'
    OBVIOUS
  <2>1. PICK r : r = Request(t)
    OBVIOUS
  <2>2. Request(t)' = Request(t)
    BY <1>5
  <2>3. Undisturbed(t, r)'
    BY <2>1, <2>2 DEF Undisturbed, Concerns, Request
  <2> QED
    BY <1>8, <2>1, <2>3
<1>10. LossNeedsCompany'
  BY <1>1, LossKept DEF CalmInv, Aside
<1> QED
  BY <1>6, <1>7, <1>9, <1>10 DEF CalmInv

LEMMA MetricsAside ==
    ASSUME CachedInv, NEW m \in Messages, MetricsStep(m)
    PROVE  Aside
<1>1. World
  BY InvParts
<1>2. m[1] \in Tasks /\ CachedWorking(m[1])
  BY <1>1, ClientsAre DEF World
<1>3. /\ UNCHANGED <<dbVars, memVars, taskVars, logVars, dump, tx, redisNames>> /\ ClientStep(m)
  BY <1>1, <1>2, MetricsTypes DEF World, MetricsStep
<1>4. faulted' = faulted
  <2>1. CallFails(m) => faulted' = faulted
    BY ClientsAre DEF CallFails
  <2>2. GetStep(m) => faulted' = faulted
    BY <2>1 DEF GetStep, ReadPointer, ReadLength, ReadEntries, LoadNames, LoadRows, SwapHash, NoFault, faultVars
  <2> QED
    BY <2>2 DEF MetricsStep, faultVars
<1>5. \A t \in Tasks : call'[Coroutine(t)] = call[Coroutine(t)]
  BY <1>3, ClientsAre DEF ClientStep
<1> QED
  BY <1>3, <1>4, <1>5 DEF Aside, dbVars, memVars, taskVars, logVars

LEMMA CalmNext ==
    ASSUME CachedInv, CalmInv, [CachedNext]_cachedVars
    PROVE  CalmInv'
<1>1. CachedInv'
  BY CachedInvNext
<1>2. World /\ BaseType /\ CacheType /\ Places
  BY InvParts DEF World, CalmInv
<1>3. CASE \E t \in Tasks : CachedStep(t)
  BY <1>3, TaskCalm
<1>4. CASE \E m \in Messages : MetricsStep(m)
  BY <1>1, <1>4, MetricsAside, AsideCalm
<1>5. CASE Expire /\ UNCHANGED <<vars, metric, dump, tx>>
  <2>1. Fades
    BY <1>2, <1>5, ExpireFades
  <2>2. Aside
    BY <1>5, <2>1 DEF Fades, Aside, vars, dbVars, memVars, taskVars, logVars, faultVars
  <2> QED
    BY <1>1, <2>2, AsideCalm
<1>6. ASSUME NEW u \in updates, RunUpdate(u), UNCHANGED <<cacheVars, metric, dump, tx>>
      PROVE  CalmInv'
  <2>1. (payloads' = payloads \/ Rewrites) /\ UNCHANGED <<names, statuses, partitions, taskVars>>
    BY <1>2, <1>6, UpdateTypes
  <2>2. faulted' = faulted \/ faulted' = faulted \cup {<<u.task, u.pos>>}
    BY <1>6 DEF RunUpdate, NoFault, Fault, faultVars
  <2>3. u.pos \in DOMAIN batch[u.task]
    BY <1>2 DEF Places
  <2>4. verdict' = verdict /\ updates' \subseteq updates /\ redisNames' = redisNames /\ call' = call
    BY <1>6 DEF RunUpdate, logVars, cacheVars
  <2>5. faulted \subseteq faulted' /\ \A x \in faulted' : x \in faulted \/ x[2] \in DOMAIN batch[x[1]]
    BY <2>2, <2>3
  <2>6. Aside
    BY <1>6, <2>1, <2>4, <2>5 DEF Aside, taskVars
  <2> QED
    BY <1>1, <2>6, AsideCalm
<1>7. CASE UNCHANGED cachedVars
  <2>1. Aside
    BY <1>7 DEF Aside, cachedVars, cacheVars, vars, dbVars, memVars, taskVars, logVars, faultVars
  <2> QED
    BY <1>1, <2>1, AsideCalm
<1>8. CASE Terminated /\ UNCHANGED <<cacheVars, metric, dump, tx>>
  <2>1. Aside
    BY <1>8 DEF Aside, Terminated, cacheVars, vars, dbVars, memVars, taskVars, logVars, faultVars
  <2> QED
    BY <1>1, <2>1, AsideCalm
<1> QED
  BY <1>3, <1>4, <1>5, <1>6, <1>7, <1>8 DEF CachedNext

LEMMA CalmInit == CachedInit => CalmInv
<1> SUFFICES ASSUME CachedInit PROVE CalmInv
  OBVIOUS
<1>1. /\ Init /\ CacheInit /\ CachedInv
  BY CachedInvInit DEF CachedInit
<1>2. BaseType
  BY <1>1, InvParts DEF World
<1>3. verdict = [t \in Tasks |-> [i \in 1..Len(batch[t]) |-> "waiting"]] /\ \A t \in Tasks : DOMAIN batch[t] = 1..Len(batch[t])
  BY <1>1, <1>2, BatchIs DEF Init, BaseType
<1>4. Places
  <2>1. redisNames = names /\ names = Seeded /\ faulted = {} /\ updates = {} /\ \A t \in Tasks : pc[t] = "next"
    BY <1>1 DEF Init, CacheInit
  <2>2. verdict = [t \in Tasks |-> verdict[t]] /\ \A t \in Tasks : verdict[t] = [i \in DOMAIN batch[t] |-> verdict[t][i]]
    BY <1>3
  <2> QED
    BY <2>1, <2>2 DEF Places
<1>5. \A t \in Tasks : \A r \in RequestIds : NamesCommitted(t, r) /\ PayloadUsed(t, r)
  BY <1>1 DEF Init, CacheInit, NamesCommitted, PayloadUsed
<1>6. LossNeedsCompany
  BY <1>3 DEF LossNeedsCompany
<1>7. \A t \in Tasks : pc[t] \in Idle
  BY <1>1 DEF Init
<1> QED
  BY <1>4, <1>5, <1>6, <1>7 DEF CalmInv

(***************************************************************************)
(* A message is lost only when a call for a message of its request, or for *)
(* one that brings the same new name, failed, or when another coroutine    *)
(* handles such a message.                                                 *)
(***************************************************************************)
THEOREM LossNeedsCompanyAlways == CachedSpec => []LossNeedsCompany
<1>1. CachedInit => CachedInv /\ CalmInv
  BY CachedInvInit, CalmInit
<1>2. (CachedInv /\ CalmInv) /\ [CachedNext]_cachedVars => (CachedInv /\ CalmInv)'
  BY CachedInvNext, CalmNext
<1>3. CachedInv /\ CalmInv => LossNeedsCompany
  BY DEF CalmInv
<1> QED
  BY <1>1, <1>2, <1>3, PTL DEF CachedSpec
=============================================================================
