------------------------ MODULE StatusPipelineProofs ------------------------
(***************************************************************************)
(* Theorems about StatusPipeline, for every value of its constants: every  *)
(* variable has its type, every message is counted once, a success has one *)
(* acknowledged row, and the pipeline implements StatusLog; every stored   *)
(* status belongs to the message it was stored for; a good message is lost *)
(* only to a failure of one of its own calls: what a coroutine finds after *)
(* losing a race is enough for its next attempt.                           *)
(***************************************************************************)
EXTENDS StatusPipelineInv, TLAPS

USE DEF Ids, NoId, Idle

(* What a batch is: a sequence of messages, whose positions are 1..Len. *)
LEMMA BatchType ==
    ASSUME TypeOK, NEW t \in Tasks
    PROVE  /\ Len(batch[t]) \in Nat
           /\ DOMAIN batch[t] = 1..Len(batch[t])
           /\ \A i \in 1..Len(batch[t]) : batch[t][i] \in Message
           /\ idx[t] \in 1..Len(batch[t]) => Msg(t) \in Message
<1>1. batch[t] \in Seq(Message)
  BY ConstantsAssumption DEF TypeOK
<1> QED
  BY <1>1 DEF Msg

(* A task that is not idle works on a good message of its batch. *)
LEMMA AtMessage ==
    ASSUME TypeOK, NEW t \in Tasks, pc[t] \notin Idle
    PROVE  /\ idx[t] \in 1..Len(batch[t]) /\ idx[t] <= Len(batch[t])
           /\ Msg(t) \in Message
           /\ Msg(t).kind = "good"
           /\ \A c \in {"service", "status"} : Name(t, c) # None
           /\ \A c \in Columns : Name(t, c) # None => Name(t, c) \in Names
<1>1. idx[t] \in 1..Len(batch[t]) /\ Msg(t).kind = "good"
  BY BatchType DEF TypeOK, Working
<1>2. Msg(t) \in Message
  BY <1>1, BatchType
<1>3. \A c \in {"service", "status"} : Name(t, c) # None
  BY <1>1, ConstantsAssumption DEF TypeOK, Name, Msg
<1> QED
  BY <1>1, <1>2, <1>3, BatchType DEF Name, Message

(* A task that adds a name has a column of the message to add it for. *)
LEMMA AtColumn ==
    ASSUME TypeOK, NEW t \in Tasks, pc[t] \in {"add", "recheck", "refresh"}
    PROVE  /\ col[t] \in 1..3
           /\ Column(t) \in Columns
           /\ Name(t, Column(t)) \in Names
<1>1. col[t] \in 1..3 /\ Name(t, Column(t)) # None
  BY DEF TypeOK, Working
<1>2. Column(t) \in Columns
  BY <1>1 DEF Column, ColumnOrder, Columns
<1> QED
  BY <1>1, <1>2, AtMessage

(* The id under which a name is looked up is that of its row. *)
LEMMA IdOfListed ==
    ASSUME NEW table \in SUBSET NameRow, NEW name \in Names, Lists(table, name)
    PROVE  /\ [id |-> IdOf(table, name), name |-> name] \in table
           /\ IdOf(table, name) \in Ids
<1> DEFINE r == CHOOSE x \in table : x.name = name
<1>1. r \in table /\ r.name = name
  BY DEF Lists
<1>2. r = [id |-> r.id, name |-> r.name] /\ r.id \in Ids
  BY <1>1 DEF NameRow
<1> QED
  BY <1>1, <1>2 DEF IdOf

LEMMA InitType == Init => TypeOK
<1> SUFFICES ASSUME Init PROVE TypeOK
  OBVIOUS
<1>1. \A t \in Tasks : Len(batch[t]) \in Nat
  <2> TAKE t \in Tasks
  <2>1. batch[t] \in Seq(Message)
    BY ConstantsAssumption DEF Init
  <2> QED
    BY <2>1
<1>2. \A t \in Tasks : Working(t)
  <2> TAKE t \in Tasks
  <2>1. idx[t] = 1 /\ pc[t] = "next" /\ Len(batch[t]) \in Nat
    BY <1>1 DEF Init
  <2> QED
    BY <2>1 DEF Working
<1>3. \A t \in Tasks : verdict[t] \in [1..Len(batch[t]) -> Verdicts]
  BY <1>1 DEF Init, Verdicts
<1>4. verdict = [t \in Tasks |-> verdict[t]]
  BY DEF Init
<1>5. /\ nextId \in [Tables -> Nat] /\ names \in [Columns -> SUBSET NameRow]
      /\ cached \in [Processes -> [Columns -> SUBSET NameRow]]
      /\ partitions \subseteq Days /\ faults \in 0..MaxFaults
  BY ConstantsAssumption DEF Init
<1>6. /\ sps \in [Tasks -> [payload_id : Nat, ids : [Columns -> Nat]]]
      /\ count \in [Tasks -> [MsgCounts -> Nat]] /\ pc \in [Tasks -> Locations]
  BY DEF Init, EmptySps, Locations
<1> QED
  BY <1>2, <1>3, <1>4, <1>5, <1>6 DEF Init, TypeOK

(* Goto moves one task, to a place where its message must justify it. *)
LEMMA GotoType ==
    ASSUME TypeOK, NEW t \in Tasks, NEW loc \in Locations, Goto(t, loc), UNCHANGED batch,
           \A s \in Tasks \ {t} : col'[s] = col[s],
           loc \notin Idle => idx[t] <= Len(batch[t]) /\ Msg(t).kind = "good",
           loc \in {"add", "recheck", "refresh"} =>
               col'[t] <= 3 /\ Name(t, ColumnOrder[col'[t]]) # None
    PROVE  /\ pc' \in [Tasks -> Locations] /\ idx' \in [Tasks -> Ids]
           /\ verdict' = [s \in Tasks |-> verdict'[s]]
           /\ \A s \in Tasks : verdict'[s] \in [1..Len(batch'[s]) -> Verdicts] /\ Working(s)'
<1>1. \A s \in Tasks : Working(s)'
  <2> TAKE s \in Tasks
  <2>1. CASE s = t
    BY <2>1 DEF TypeOK, Working, Goto, Msg, Column, Name
  <2>2. CASE s # t
    BY <2>2 DEF TypeOK, Working, Goto, Msg, Column, Name
  <2> QED BY <2>1, <2>2
<1> QED
  BY <1>1 DEF TypeOK, Goto

(* Finish settles one message and leaves its task idle. *)
LEMMA FinishType ==
    ASSUME TypeOK, NEW t \in Tasks, NEW v \in Verdicts, Finish(t, v), UNCHANGED <<batch, col>>,
           idx[t] <= Len(batch[t])
    PROVE  /\ pc' \in [Tasks -> Locations] /\ idx' \in [Tasks -> Ids]
           /\ verdict' = [s \in Tasks |-> verdict'[s]]
           /\ \A s \in Tasks : verdict'[s] \in [1..Len(batch'[s]) -> Verdicts] /\ Working(s)'
<1>1. pc' \in [Tasks -> Locations] /\ idx' \in [Tasks -> Ids]
  BY DEF TypeOK, Finish, Locations
<1>2. verdict' = [s \in Tasks |-> IF s = t THEN [verdict[t] EXCEPT ![idx[t]] = v] ELSE verdict[s]]
  BY DEF TypeOK, Finish
<1>3. \A s \in Tasks : verdict'[s] \in [1..Len(batch'[s]) -> Verdicts]
  BY <1>2 DEF TypeOK
<1>4. verdict' = [s \in Tasks |-> verdict'[s]]
  BY <1>2
<1>5. \A s \in Tasks : Working(s)'
  <2> TAKE s \in Tasks
  <2>1. Len(batch[s]) \in Nat
    BY BatchType
  <2>2. CASE s = t
    BY <2>1, <2>2 DEF TypeOK, Working, Finish
  <2>3. CASE s # t
    BY <2>3 DEF TypeOK, Working, Finish, Msg, Column, Name
  <2> QED BY <2>2, <2>3
<1> QED
  BY <1>1, <1>3, <1>4, <1>5

(* A message that fails is counted as an error and finished. *)
LEMMA FailType ==
    ASSUME TypeOK, NEW t \in Tasks, Fail(t), UNCHANGED <<batch, col>>, idx[t] <= Len(batch[t])
    PROVE  /\ count' \in [Tasks -> [MsgCounts -> Nat]]
           /\ pc' \in [Tasks -> Locations] /\ idx' \in [Tasks -> Ids]
           /\ verdict' = [s \in Tasks |-> verdict'[s]]
           /\ \A s \in Tasks : verdict'[s] \in [1..Len(batch'[s]) -> Verdicts] /\ Working(s)'
<1>1. count' \in [Tasks -> [MsgCounts -> Nat]]
  BY DEF TypeOK, Fail, Increment, MsgCounts
<1> QED
  BY <1>1, FinishType DEF Fail, Verdicts

(* Failures are counted up to the bound. *)
LEMMA FaultType ==
    ASSUME TypeOK, NEW t \in Tasks, Fault(Current(t)) \/ NoFault
    PROVE  faults' \in 0..MaxFaults /\ faulted' \subseteq Tasks \X Ids
BY ConstantsAssumption DEF TypeOK, Fault, NoFault, faultVars, Current

-----------------------------------------------------------------------------
(* Type correctness is preserved, action by action. *)
LEMMA TypeTake == ASSUME TypeOK, NEW t \in Tasks, TakeMessage(t) PROVE TypeOK'
<1> USE DEF TakeMessage, Reset, dbVars, memVars, faultVars
<1>1. sps' \in [Tasks -> [payload_id : Nat, ids : [Columns -> Nat]]]
  BY DEF TypeOK, EmptySps
<1>2. CASE Msg(t).kind \in Ignored /\ Finish(t, "ignored") /\ UNCHANGED count
  BY <1>1, <1>2, FinishType DEF TypeOK, Verdicts
<1>3. CASE Msg(t).kind = "not_an_object" /\ Goto(t, "dead") /\ UNCHANGED count
  BY <1>1, <1>3, GotoType DEF TypeOK, Locations
<1>4. CASE Msg(t).kind = "bad_date" /\ Increment(t, {"consumed", "error"}) /\ Finish(t, "error")
  <2>1. count' \in [Tasks -> [MsgCounts -> Nat]]
    BY <1>4 DEF TypeOK, Increment, MsgCounts
  <2> QED
    BY <1>1, <1>4, <2>1, FinishType DEF TypeOK, Verdicts
<1>5. CASE Msg(t).kind = "good" /\ Increment(t, {"consumed"}) /\ Goto(t, "get")
  <2>1. count' \in [Tasks -> [MsgCounts -> Nat]]
    BY <1>5 DEF TypeOK, Increment, MsgCounts
  <2> QED
    BY <1>1, <1>5, <2>1, GotoType DEF TypeOK, Locations
<1> QED
  BY <1>2, <1>3, <1>4, <1>5

LEMMA TypeEnd == ASSUME TypeOK, NEW t \in Tasks, EndOfBatch(t) PROVE TypeOK'
BY GotoType DEF TypeOK, EndOfBatch, Locations, dbVars, memVars, faultVars

LEMMA TypeUse ==
    ASSUME TypeOK, NEW t \in Tasks, NEW p \in payloads, UsePayload(t, p), pc[t] \notin Idle
    PROVE  /\ updates' \subseteq Update
           /\ sps' \in [Tasks -> [payload_id : Nat, ids : [Columns -> Nat]]]
<1>0. p \in PayloadRow
  BY DEF TypeOK
<1>1. Msg(t) \in Message
  BY AtMessage
<1>2. Supplied(t, p) \in [Attrs -> Values \cup {None}]
  BY <1>1, <1>0 DEF Supplied, Message, PayloadRow
<1>3. [task |-> t, pos |-> idx[t], request_id |-> Msg(t).request_id, attrs |-> Supplied(t, p)] \in Update
  BY <1>1, <1>2 DEF TypeOK, Update, Message
<1>4. updates' \subseteq Update
  BY <1>3 DEF TypeOK, UsePayload
<1>5. sps' \in [Tasks -> [payload_id : Nat, ids : [Columns -> Nat]]]
  BY <1>0 DEF TypeOK, UsePayload, PayloadRow
<1> QED
  BY <1>4, <1>5

LEMMA TypeGet == ASSUME TypeOK, NEW t \in Tasks, GetPayload(t) PROVE TypeOK'
<1> USE DEF GetPayload, dbVars
<1>1. idx[t] <= Len(batch[t]) /\ Msg(t).kind = "good"
  BY AtMessage
<1>2. CASE \E p \in Known(t) : UsePayload(t, p) /\ StartColumns(t) /\ NoFault /\ UNCHANGED count
  <2>1. updates' \subseteq Update /\ sps' \in [Tasks -> [payload_id : Nat, ids : [Columns -> Nat]]]
    BY <1>2, TypeUse DEF Known
  <2>2. col' \in [Tasks -> 1..4] /\ \A s \in Tasks \ {t} : col'[s] = col[s]
    BY <1>2 DEF TypeOK, StartColumns
  <2> QED
    BY <1>1, <1>2, <2>1, <2>2, FaultType, GotoType DEF TypeOK, StartColumns, Locations
<1>3. CASE Goto(t, "create") /\ NoFault /\ UNCHANGED <<updates, sps, col, count>>
  BY <1>1, <1>3, FaultType, GotoType DEF TypeOK, Locations
<1>4. CASE Fault(Current(t)) /\ Fail(t) /\ UNCHANGED <<updates, sps, col>>
  BY <1>1, <1>4, FaultType, FailType DEF TypeOK
<1> QED
  BY <1>2, <1>3, <1>4

LEMMA TypeCreate == ASSUME TypeOK, NEW t \in Tasks, CreatePayload(t) PROVE TypeOK'
<1> DEFINE id == nextId["payloads"] + 1
           row == [id |-> id, request_id |-> Msg(t).request_id, attrs |-> Msg(t).attrs]
<1>1. idx[t] <= Len(batch[t]) /\ Msg(t).kind = "good" /\ Msg(t) \in Message
  BY AtMessage DEF CreatePayload
<1>2. id \in Ids /\ row \in PayloadRow
  BY <1>1 DEF TypeOK, PayloadRow, Message, Tables
<1>3. nextId' \in [Tables -> Nat] /\ payloads' \subseteq PayloadRow
  BY <1>2 DEF TypeOK, CreatePayload, Tables
<1>4. sps' \in [Tasks -> [payload_id : Nat, ids : [Columns -> Nat]]]
  <2>1. sps' = sps \/ sps' = [sps EXCEPT ![t].payload_id = id]
    BY Zenon DEF CreatePayload
  <2>2. id \in Nat /\ sps \in [Tasks -> [payload_id : Nat, ids : [Columns -> Nat]]]
    BY <1>2 DEF TypeOK
  <2> QED
    BY <2>1, <2>2
<1>5. /\ col' \in [Tasks -> 1..4] /\ \A s \in Tasks \ {t} : col'[s] = col[s]
      /\ Goto(t, "column") \/ Goto(t, "reget")
      /\ Fault(Current(t)) \/ NoFault
  <2>1. /\ col' = col \/ col' = [col EXCEPT ![t] = 1]
        /\ Goto(t, "column") \/ Goto(t, "reget")
        /\ Fault(Current(t)) \/ NoFault
    BY Zenon DEF CreatePayload, StartColumns
  <2>2. col \in [Tasks -> 1..4]
    BY DEF TypeOK
  <2>3. col' \in [Tasks -> 1..4] /\ \A s \in Tasks \ {t} : col'[s] = col[s]
    BY <2>1, <2>2
  <2> QED
    BY <2>1, <2>3
<1>6. UNCHANGED <<names, statuses, partitions, cached, updates, batch, try, snapshot, count>>
  BY DEF CreatePayload, memVars
<1> HIDE DEF id, row
<1> QED
  BY <1>1, <1>3, <1>4, <1>5, <1>6, FaultType, GotoType DEF TypeOK, Locations

LEMMA TypeReget == ASSUME TypeOK, NEW t \in Tasks, RegetPayload(t) PROVE TypeOK'
<1> USE DEF RegetPayload, dbVars
<1>1. idx[t] <= Len(batch[t]) /\ Msg(t).kind = "good"
  BY AtMessage
<1>2. StartColumns(t) => Goto(t, "column") /\ col' \in [Tasks -> 1..4] /\ \A s \in Tasks \ {t} : col'[s] = col[s]
  BY DEF TypeOK, StartColumns
<1>3. CASE \E p \in Known(t) : UsePayload(t, p) /\ StartColumns(t) /\ NoFault /\ UNCHANGED count
  <2>1. updates' \subseteq Update /\ sps' \in [Tasks -> [payload_id : Nat, ids : [Columns -> Nat]]]
    BY <1>3, TypeUse DEF Known
  <2> QED
    BY <1>1, <1>2, <1>3, <2>1, FaultType, GotoType DEF TypeOK, Locations
<1>4. CASE StartColumns(t) /\ NoFault /\ UNCHANGED <<updates, sps, count>>
  BY <1>1, <1>2, <1>4, FaultType, GotoType DEF TypeOK, Locations
<1>5. CASE Fault(Current(t)) /\ Fail(t) /\ UNCHANGED <<updates, sps, col>>
  BY <1>1, <1>5, FaultType, FailType DEF TypeOK
<1> QED
  BY <1>3, <1>4, <1>5

(* Looking a name up in a table gives a natural number. *)
LEMMA IdOfType ==
    ASSUME NEW table \in SUBSET NameRow, NEW name \in Names
    PROVE  IdOf(table, name) \in Nat
<1>1. CASE Lists(table, name)
  BY <1>1, IdOfListed
<1>2. CASE ~Lists(table, name)
  BY <1>2 DEF IdOf
<1> QED
  BY <1>1, <1>2

LEMMA TypeResolve == ASSUME TypeOK, NEW t \in Tasks, ResolveColumns(t) PROVE TypeOK'
<1>1. idx[t] <= Len(batch[t]) /\ Msg(t).kind = "good"
  BY AtMessage DEF ResolveColumns
<1>2. PICK stop \in col[t]..4 :
          /\ stop < 4 => ~Resolved(t, stop)
          /\ col' = [col EXCEPT ![t] = stop]
          /\ sps' = [sps EXCEPT ![t].ids = [c \in Columns |->
                        IF Name(t, c) # None /\ \E i \in col[t]..(stop - 1) : ColumnOrder[i] = c
                        THEN IdOf(cached[Home[t]][c], Name(t, c)) ELSE @[c]]]
          /\ IF stop < 4
             THEN Goto(t, "add") /\ UNCHANGED try
             ELSE Goto(t, "insert") /\ try' = [try EXCEPT ![t] = 1]
  BY DEF ResolveColumns
<1>3. col' \in [Tasks -> 1..4] /\ col'[t] = stop /\ \A s \in Tasks \ {t} : col'[s] = col[s]
  <2>1. col \in [Tasks -> 1..4]
    BY DEF TypeOK
  <2> QED
    BY <1>2, <2>1
<1>4. sps' \in [Tasks -> [payload_id : Nat, ids : [Columns -> Nat]]]
  <2>1. \A c \in Columns : Name(t, c) # None => Name(t, c) \in Names
    BY AtMessage DEF ResolveColumns
  <2>2. \A c \in Columns : cached[Home[t]][c] \in SUBSET NameRow
    BY ConstantsAssumption DEF TypeOK
  <2>3. \A c \in Columns : Name(t, c) # None => IdOf(cached[Home[t]][c], Name(t, c)) \in Nat
    BY <2>1, <2>2, IdOfType
  <2>4. sps \in [Tasks -> [payload_id : Nat, ids : [Columns -> Nat]]]
    BY DEF TypeOK
  <2> QED
    BY <1>2, <2>3, <2>4
<1>5. try' \in [Tasks -> 1..3]
  <2>1. try' = try \/ try' = [try EXCEPT ![t] = 1]
    BY <1>2
  <2>2. try \in [Tasks -> 1..3]
    BY DEF TypeOK
  <2> QED
    BY <2>1, <2>2
<1>6. stop < 4 => stop <= 3 /\ Name(t, ColumnOrder[stop]) # None
  BY <1>2 DEF TypeOK, Resolved
<1>7. UNCHANGED <<dbVars, memVars, batch, snapshot, count, faultVars>>
  BY DEF ResolveColumns
<1>8. CASE stop < 4
  BY <1>1, <1>2, <1>3, <1>4, <1>5, <1>6, <1>7, <1>8, GotoType
     DEF TypeOK, Locations, dbVars, memVars, faultVars
<1>9. CASE ~(stop < 4)
  BY <1>1, <1>2, <1>3, <1>4, <1>5, <1>7, <1>9, GotoType
     DEF TypeOK, Locations, dbVars, memVars, faultVars
<1> QED
  BY <1>8, <1>9

(* Moving on to the next column. *)
LEMMA NextColumnType ==
    ASSUME TypeOK, NEW t \in Tasks, NextColumn(t), UNCHANGED batch,
           pc[t] \in {"add", "recheck", "refresh"}
    PROVE  /\ col' \in [Tasks -> 1..4]
           /\ pc' \in [Tasks -> Locations] /\ idx' \in [Tasks -> Ids]
           /\ verdict' = [s \in Tasks |-> verdict'[s]]
           /\ \A s \in Tasks : verdict'[s] \in [1..Len(batch'[s]) -> Verdicts] /\ Working(s)'
<1>1. col' \in [Tasks -> 1..4] /\ \A s \in Tasks \ {t} : col'[s] = col[s]
  <2>1. col \in [Tasks -> 1..4] /\ col[t] \in 1..3
    BY AtColumn DEF TypeOK
  <2> QED
    BY <2>1 DEF NextColumn
<1> QED
  BY <1>1, AtMessage, GotoType DEF NextColumn, Locations

(* Setting the id of one column of sanitized_payload_status. *)
LEMMA AssignType ==
    ASSUME NEW S, S \in [Tasks -> [payload_id : Nat, ids : [Columns -> Nat]]],
           NEW t \in Tasks, NEW c \in Columns, NEW id \in Nat
    PROVE  [S EXCEPT ![t].ids[c] = id] \in [Tasks -> [payload_id : Nat, ids : [Columns -> Nat]]]
<1>1. [S[t].ids EXCEPT ![c] = id] \in [Columns -> Nat]
  OBVIOUS
<1>2. [S[t] EXCEPT !.ids = [S[t].ids EXCEPT ![c] = id]] \in [payload_id : Nat, ids : [Columns -> Nat]]
  BY <1>1
<1> QED
  BY <1>2

LEMMA TypeAdd == ASSUME TypeOK, NEW t \in Tasks, AddName(t) PROVE TypeOK'
<1> DEFINE c == Column(t)
           id == nextId[c] + 1
           added == [names EXCEPT ![c] = @ \cup {[id |-> id, name |-> Name(t, c)]}]
           assigned == [sps EXCEPT ![t].ids[c] = id]
<1>1. pc[t] = "add" /\ c \in Columns /\ Name(t, c) \in Names /\ col[t] \in 1..3
  BY AtColumn DEF AddName
<1>2. id \in Ids /\ [id |-> id, name |-> Name(t, c)] \in NameRow
  BY <1>1 DEF TypeOK, NameRow, Tables
<1>3. nextId' \in [Tables -> Nat]
  BY <1>1, <1>2 DEF TypeOK, AddName, Tables
<1>4. names' \in [Columns -> SUBSET NameRow]
  <2>1. names' = names \/ names' = added
    BY Zenon DEF AddName
  <2>2. names \in [Columns -> SUBSET NameRow]
    BY DEF TypeOK
  <2> QED
    BY <1>1, <1>2, <2>1, <2>2
<1>5. sps' \in [Tasks -> [payload_id : Nat, ids : [Columns -> Nat]]]
  <2>1. sps' = sps \/ sps' = assigned
    BY Zenon DEF AddName
  <2>2. sps \in [Tasks -> [payload_id : Nat, ids : [Columns -> Nat]]]
    BY DEF TypeOK
  <2>3. assigned \in [Tasks -> [payload_id : Nat, ids : [Columns -> Nat]]]
    BY <1>1, <1>2, <2>2, AssignType
  <2> QED
    BY <2>1, <2>2, <2>3
<1>6. UNCHANGED <<payloads, statuses, partitions, cached, updates, batch, try, snapshot, count>>
  BY DEF AddName, memVars
<1>7. NextColumn(t) \/ (Goto(t, "recheck") /\ UNCHANGED col)
  BY Zenon DEF AddName
<1>8. Fault(Current(t)) \/ NoFault
  BY Zenon DEF AddName
<1>9. CASE NextColumn(t)
  BY <1>1, <1>3, <1>4, <1>5, <1>6, <1>8, <1>9, NextColumnType, FaultType DEF TypeOK
<1>10. CASE Goto(t, "recheck") /\ UNCHANGED col
  <2>1. idx[t] <= Len(batch[t]) /\ Msg(t).kind = "good"
    BY <1>1, AtMessage
  <2>2. col'[t] <= 3 /\ Name(t, ColumnOrder[col'[t]]) # None
    BY <1>1, <1>10 DEF TypeOK, Working, Column
  <2> QED
    BY <1>3, <1>4, <1>5, <1>6, <1>8, <1>10, <2>1, <2>2, GotoType, FaultType DEF TypeOK, Locations
<1> QED
  BY <1>7, <1>9, <1>10

LEMMA TypeRecheck == ASSUME TypeOK, NEW t \in Tasks, RecheckName(t) PROVE TypeOK'
<1> USE DEF RecheckName, dbVars, memVars
<1>1. Column(t) \in Columns /\ idx[t] <= Len(batch[t]) /\ Msg(t).kind = "good"
  BY AtColumn, AtMessage
<1>2. CASE /\ snapshot' = [snapshot EXCEPT ![t] = names[Column(t)]]
           /\ Goto(t, "refresh")
           /\ NoFault /\ UNCHANGED count
  <2>1. snapshot' \in [Tasks -> SUBSET NameRow]
    BY <1>1, <1>2 DEF TypeOK
  <2>2. col'[t] <= 3 /\ Name(t, ColumnOrder[col'[t]]) # None
    BY AtColumn DEF TypeOK, Working, Column
  <2> QED
    BY <1>1, <1>2, <2>1, <2>2, GotoType, FaultType DEF TypeOK, Locations
<1>3. CASE Fault(Current(t)) /\ Fail(t) /\ UNCHANGED snapshot
  BY <1>1, <1>3, FailType, FaultType DEF TypeOK
<1> QED
  BY <1>2, <1>3

LEMMA TypeRefresh == ASSUME TypeOK, NEW t \in Tasks, RefreshName(t) PROVE TypeOK'
<1> DEFINE c == Column(t)
<1>1. c \in Columns /\ Name(t, c) \in Names /\ idx[t] <= Len(batch[t]) /\ pc[t] = "refresh"
  BY AtColumn, AtMessage DEF RefreshName
<1>2. cached' \in [Processes -> [Columns -> SUBSET NameRow]]
  <2>1. /\ cached \in [Processes -> [Columns -> SUBSET NameRow]]
        /\ snapshot[t] \in SUBSET NameRow /\ Home[t] \in Processes
    BY ConstantsAssumption DEF TypeOK
  <2>2. cached' = [cached EXCEPT ![Home[t]] = [@ EXCEPT ![c] = snapshot[t]]]
    BY DEF RefreshName
  <2> QED
    BY <1>1, <2>1, <2>2
<1>3. UNCHANGED <<dbVars, updates, batch, try, snapshot, faultVars>>
  BY DEF RefreshName
<1>4. CASE /\ Lists(snapshot[t], Name(t, c))
           /\ sps' = [sps EXCEPT ![t].ids[c] = IdOf(snapshot[t], Name(t, c))]
           /\ NextColumn(t)
           /\ UNCHANGED count
  <2>1. IdOf(snapshot[t], Name(t, c)) \in Nat
    BY <1>1, IdOfType DEF TypeOK
  <2>2. sps' \in [Tasks -> [payload_id : Nat, ids : [Columns -> Nat]]]
    BY <1>1, <1>4, <2>1, AssignType DEF TypeOK
  <2> QED
    BY <1>1, <1>2, <1>3, <1>4, <2>2, NextColumnType DEF TypeOK, dbVars, faultVars
<1>5. CASE Fail(t) /\ UNCHANGED <<sps, col>>
  BY <1>1, <1>2, <1>3, <1>5, FailType DEF TypeOK, dbVars, faultVars
<1> QED
  BY <1>4, <1>5 DEF RefreshName

(* Another attempt at the insert. *)
LEMMA RetryType ==
    ASSUME TypeOK, NEW t \in Tasks, pc[t] \notin Idle, NEW n \in {2, 3}, Retry(t, n),
           UNCHANGED <<batch, col>>
    PROVE  /\ try' \in [Tasks -> 1..3]
           /\ pc' \in [Tasks -> Locations] /\ idx' \in [Tasks -> Ids]
           /\ verdict' = [s \in Tasks |-> verdict'[s]]
           /\ \A s \in Tasks : verdict'[s] \in [1..Len(batch'[s]) -> Verdicts] /\ Working(s)'
<1>1. try' \in [Tasks -> 1..3]
  <2>1. try \in [Tasks -> 1..3]
    BY DEF TypeOK
  <2> QED
    BY <2>1 DEF Retry
<1>2. Goto(t, "insert") /\ \A s \in Tasks \ {t} : col'[s] = col[s]
  BY DEF Retry
<1> QED
  BY <1>1, <1>2, AtMessage, GotoType DEF Locations

LEMMA RejectedType ==
    ASSUME TypeOK, NEW t \in Tasks, pc[t] = "insert", Rejected(t), UNCHANGED <<batch, col>>
    PROVE  /\ try' \in [Tasks -> 1..3]
           /\ count' \in [Tasks -> [MsgCounts -> Nat]]
           /\ pc' \in [Tasks -> Locations] /\ idx' \in [Tasks -> Ids]
           /\ verdict' = [s \in Tasks |-> verdict'[s]]
           /\ \A s \in Tasks : verdict'[s] \in [1..Len(batch'[s]) -> Verdicts] /\ Working(s)'
<1>1. idx[t] <= Len(batch[t]) /\ Msg(t).kind = "good"
  BY AtMessage
<1>2. CASE Goto(t, "partition") /\ UNCHANGED <<try, count>>
  BY <1>1, <1>2, GotoType DEF TypeOK, Locations
<1>3. CASE Retry(t, 3) /\ UNCHANGED count
  BY <1>1, <1>3, RetryType DEF TypeOK
<1>4. CASE Fail(t) /\ UNCHANGED try
  BY <1>1, <1>4, FailType DEF TypeOK
<1> QED
  BY <1>2, <1>3, <1>4 DEF Rejected

(* A row that the constraints accept is one of the table's rows. *)
LEMMA RowType ==
    ASSUME TypeOK, NEW t \in Tasks, pc[t] = "insert", Accepted(t), NEW acked \in BOOLEAN
    PROVE  Row(t, acked) \in StatusRow
<1>1. sps[t].payload_id \in Ids
  BY DEF Accepted, TypeOK, PayloadRow
<1>2. Msg(t).day \in Days
  BY AtMessage DEF Message
<1> QED
  BY <1>1, <1>2 DEF TypeOK, Row, StatusRow

LEMMA TypeInsert == ASSUME TypeOK, NEW t \in Tasks, InsertStatus(t) PROVE TypeOK'
<1>1. pc[t] = "insert" /\ idx[t] <= Len(batch[t]) /\ Msg(t).kind = "good"
  BY AtMessage DEF InsertStatus
<1>2. UNCHANGED <<payloads, names, partitions, nextId, cached, updates, batch, col, sps, snapshot>>
  BY DEF InsertStatus, memVars
<1>3. statuses' \subseteq StatusRow
  <2>1. \/ statuses' = statuses
        \/ \E acked \in BOOLEAN : Accepted(t) /\ statuses' = statuses \cup {Row(t, acked)}
    BY DEF InsertStatus
  <2>2. statuses \subseteq StatusRow
    BY DEF TypeOK
  <2> QED
    BY <1>1, <2>1, <2>2, RowType
<1>4. CASE /\ Increment(t, {"success"}) /\ Finish(t, "success")
           /\ NoFault /\ UNCHANGED try
  <2>1. count' \in [Tasks -> [MsgCounts -> Nat]]
    BY <1>4 DEF TypeOK, Increment, MsgCounts
  <2> QED
    BY <1>1, <1>2, <1>3, <1>4, <2>1, FinishType, FaultType DEF TypeOK, Verdicts
<1>5. CASE Rejected(t) /\ (NoFault \/ Fault(Current(t)))
  BY <1>1, <1>2, <1>3, <1>5, RejectedType, FaultType DEF TypeOK
<1> QED
  BY <1>4, <1>5 DEF InsertStatus

LEMMA TypePartition == ASSUME TypeOK, NEW t \in Tasks, CheckPartition(t) PROVE TypeOK'
<1>1. idx[t] <= Len(batch[t]) /\ Msg(t).kind = "good" /\ pc[t] \notin Idle
  BY AtMessage DEF CheckPartition
<1>2. UNCHANGED <<dbVars, memVars, batch, col, sps, snapshot, count>>
  BY DEF CheckPartition
<1>3. Fault(Current(t)) \/ NoFault
  BY DEF CheckPartition
<1>4. CASE Goto(t, "create_table") /\ UNCHANGED try
  BY <1>1, <1>2, <1>3, <1>4, GotoType, FaultType DEF TypeOK, Locations, dbVars, memVars
<1>5. CASE \E n \in {2, 3} : Retry(t, n)
  BY <1>1, <1>2, <1>3, <1>5, RetryType, FaultType DEF TypeOK, dbVars, memVars
<1> QED
  BY <1>4, <1>5 DEF CheckPartition

LEMMA TypeTable == ASSUME TypeOK, NEW t \in Tasks, CreateTable(t) PROVE TypeOK'
<1>1. pc[t] \notin Idle /\ Msg(t).day \in Days
  BY AtMessage DEF CreateTable, Message
<1>2. UNCHANGED <<payloads, names, statuses, nextId, cached, updates, batch, col, sps, snapshot, count>>
  BY DEF CreateTable, memVars
<1>3. Fault(Current(t)) \/ NoFault
  BY DEF CreateTable
<1>4. partitions' \subseteq Days
  BY <1>1 DEF CreateTable, TypeOK
<1>5. \E n \in {2, 3} : Retry(t, n)
  BY DEF CreateTable
<1> QED
  BY <1>1, <1>2, <1>3, <1>4, <1>5, RetryType, FaultType DEF TypeOK

(* An UPDATE changes no id and no request_id. *)
LEMMA UpdatedType ==
    ASSUME NEW u \in Update, NEW p \in PayloadRow
    PROVE  /\ Updated(u, p) \in PayloadRow
           /\ Updated(u, p).id = p.id
           /\ Updated(u, p).request_id = p.request_id
BY DEF Updated, Update, PayloadRow

LEMMA UpdatePayloads ==
    ASSUME NEW u \in updates, RunUpdate(u)
    PROVE  payloads' = payloads \/ payloads' = {Updated(u, p) : p \in payloads}
BY DEF RunUpdate

LEMMA TypeUpdate == ASSUME TypeOK, NEW u \in updates, RunUpdate(u) PROVE TypeOK'
<1>1. u \in Update /\ updates' \subseteq Update
  BY DEF TypeOK, RunUpdate
<1>2. payloads' \subseteq PayloadRow
  <2>1. payloads \subseteq PayloadRow
    BY DEF TypeOK
  <2>2. \A p \in payloads : Updated(u, p) \in PayloadRow
    BY <1>1, <2>1, UpdatedType
  <2>3. payloads' = payloads \/ payloads' = {Updated(u, p) : p \in payloads}
    BY UpdatePayloads
  <2> QED
    BY <2>1, <2>2, <2>3
<1>3. faults' \in 0..MaxFaults /\ faulted' \subseteq Tasks \X Ids
  BY <1>1, ConstantsAssumption DEF TypeOK, RunUpdate, Update, Fault, NoFault, faultVars
<1>4. UNCHANGED <<names, statuses, partitions, nextId, cached, taskVars, logVars>>
  BY DEF RunUpdate
<1> QED
  BY <1>1, <1>2, <1>3, <1>4 DEF TypeOK, taskVars, logVars, Working, Msg, Column, Name

LEMMA TypeStutter == ASSUME TypeOK, UNCHANGED vars PROVE TypeOK'
BY DEF TypeOK, vars, dbVars, memVars, taskVars, logVars, faultVars, Working, Msg, Column, Name

LEMMA TypeNext == TypeOK /\ [Next]_vars => TypeOK'
<1> SUFFICES ASSUME TypeOK, [Next]_vars PROVE TypeOK'
  OBVIOUS
<1>1. ASSUME NEW t \in Tasks, Step(t) PROVE TypeOK'
  BY <1>1, TypeTake, TypeEnd, TypeGet, TypeCreate, TypeReget, TypeResolve, TypeAdd,
     TypeRecheck, TypeRefresh, TypeInsert, TypePartition, TypeTable DEF Step
<1>2. ASSUME NEW u \in updates, RunUpdate(u) PROVE TypeOK'
  BY <1>2, TypeUpdate
<1>3. CASE UNCHANGED vars
  BY <1>3, TypeStutter
<1> QED
  BY <1>1, <1>2, <1>3 DEF Next, Terminated

(***************************************************************************)
(* Every variable always has its type: the handler never works on a        *)
(* position outside its batch, on a message that failed validation, or on  *)
(* a column that the message lacks.                                        *)
(***************************************************************************)
THEOREM TypeCorrect == Spec => []TypeOK
BY InitType, TypeNext, PTL DEF Spec

-----------------------------------------------------------------------------
(* The counters, the rows and StatusLog rest on the shape of a step: what it  *)
(* does to the position, the counters and the acknowledged rows.              *)
(* The step stays with its message, gives it up, or stores its status. *)
Moves(t) ==
    /\ pc' = [pc EXCEPT ![t] = pc'[t]]
    /\ pc'[t] \in Idle <=> pc[t] \in Idle
    /\ UNCHANGED <<idx, verdict, count>>

Fails(t) == pc[t] \notin Idle /\ Fail(t)

Stores(t) ==
    /\ pc[t] = "insert" /\ Accepted(t)
    /\ Increment(t, {"success"}) /\ Finish(t, "success")
    /\ Acked' = Acked \cup {Row(t, TRUE)}

LEMMA GotoMoves ==
    ASSUME TypeOK, NEW t \in Tasks, NEW loc \in Locations, Goto(t, loc), loc \in Idle <=> pc[t] \in Idle,
           UNCHANGED count
    PROVE  Moves(t)
<1>1. pc' = [pc EXCEPT ![t] = loc] /\ pc \in [Tasks -> Locations]
  BY DEF Goto, TypeOK
<1>2. pc'[t] = loc
  BY <1>1
<1> QED
  BY <1>1, <1>2 DEF Goto, Moves

LEMMA StepShape ==
    ASSUME TypeOK, NEW t \in Tasks, Step(t)
    PROVE  /\ UNCHANGED batch
           /\ \/ (TakeMessage(t) \/ Moves(t) \/ Fails(t)) /\ UNCHANGED Acked
              \/ Stores(t)
<1>1. CASE TakeMessage(t)
  BY <1>1 DEF TakeMessage, Acked, dbVars
<1>2. CASE EndOfBatch(t)
  <2>1. pc[t] = "next" /\ Goto(t, "done") /\ UNCHANGED <<statuses, batch, count>>
    BY <1>2 DEF EndOfBatch, dbVars
  <2>2. Moves(t)
    BY <2>1, GotoMoves DEF Locations
  <2>3. UNCHANGED Acked
    BY <2>1 DEF Acked
  <2> QED
    BY <2>1, <2>2, <2>3
<1>3. CASE GetPayload(t) \/ RegetPayload(t)
  <2>1. pc[t] \in {"get", "reget"} /\ UNCHANGED <<statuses, batch>>
    BY <1>3 DEF GetPayload, RegetPayload, dbVars
  <2>2. Fail(t) \/ ((Goto(t, "column") \/ Goto(t, "create")) /\ UNCHANGED count)
    BY <1>3, Zenon DEF GetPayload, RegetPayload, StartColumns
  <2> QED
    BY <2>1, <2>2, GotoMoves DEF Fails, Acked, Locations
<1>4. CASE CreatePayload(t)
  <2>1. Goto(t, "column") \/ Goto(t, "reget")
    BY <1>4, Zenon DEF CreatePayload, StartColumns
  <2>2. pc[t] = "create" /\ UNCHANGED <<statuses, batch, count>>
    BY <1>4 DEF CreatePayload
  <2> QED
    BY <2>1, <2>2, GotoMoves DEF Acked, Locations
<1>5. CASE ResolveColumns(t)
  <2>1. Goto(t, "add") \/ Goto(t, "insert")
    BY <1>5 DEF ResolveColumns
  <2>2. pc[t] = "column" /\ UNCHANGED <<statuses, batch, count>>
    BY <1>5 DEF ResolveColumns, dbVars
  <2> QED
    BY <2>1, <2>2, GotoMoves DEF Acked, Locations
<1>6. CASE AddName(t)
  <2>1. Goto(t, "column") \/ Goto(t, "recheck")
    BY <1>6, Zenon DEF AddName, NextColumn
  <2>2. pc[t] = "add" /\ UNCHANGED <<statuses, batch, count>>
    BY <1>6 DEF AddName
  <2> QED
    BY <2>1, <2>2, GotoMoves DEF Acked, Locations
<1>7. CASE RecheckName(t) \/ RefreshName(t)
  <2>1. pc[t] \in {"recheck", "refresh"} /\ UNCHANGED <<statuses, batch>>
    BY <1>7 DEF RecheckName, RefreshName, dbVars
  <2>2. Fail(t) \/ ((Goto(t, "column") \/ Goto(t, "refresh")) /\ UNCHANGED count)
    BY <1>7, Zenon DEF RecheckName, RefreshName, NextColumn
  <2> QED
    BY <2>1, <2>2, GotoMoves DEF Fails, Acked, Locations
<1>8. CASE InsertStatus(t)
  <2>0. pc[t] = "insert" /\ UNCHANGED batch
    BY <1>8 DEF InsertStatus
  <2>1. CASE /\ Accepted(t) /\ statuses' = statuses \cup {Row(t, TRUE)}
             /\ Increment(t, {"success"}) /\ Finish(t, "success")
    <3>1. Acked' = Acked \cup {Row(t, TRUE)}
      BY <2>1 DEF Acked, Row
    <3> QED
      BY <2>0, <2>1, <3>1 DEF Stores
  <2>2. CASE Rejected(t) /\ (UNCHANGED statuses \/ statuses' = statuses \cup {Row(t, FALSE)})
    <3>1. UNCHANGED Acked
      BY <2>2 DEF Acked, Row
    <3>2. Fail(t) \/ ((Goto(t, "partition") \/ Goto(t, "insert")) /\ UNCHANGED count)
      BY <2>2, Zenon DEF Rejected, Retry
    <3> QED
      BY <2>0, <3>1, <3>2, GotoMoves DEF Fails, Locations
  <2> QED
    BY <1>8, <2>1, <2>2 DEF InsertStatus
<1>9. CASE CheckPartition(t) \/ CreateTable(t)
  <2>1. pc[t] \in {"partition", "create_table"} /\ UNCHANGED <<statuses, batch, count>>
    BY <1>9 DEF CheckPartition, CreateTable, dbVars
  <2>2. Goto(t, "insert") \/ Goto(t, "create_table")
    BY <1>9, Zenon DEF CheckPartition, CreateTable, Retry
  <2> QED
    BY <2>1, <2>2, GotoMoves DEF Acked, Locations
<1> QED
  BY <1>1, <1>2, <1>3, <1>4, <1>5, <1>6, <1>7, <1>8, <1>9 DEF Step

(* Steps that are no task's leave tasks and rows alone. *)
LEMMA OtherSteps ==
    ASSUME [Next]_vars, ~\E t \in Tasks : Step(t)
    PROVE  UNCHANGED <<taskVars, logVars, Acked>>
BY DEF Next, RunUpdate, Terminated, vars, dbVars, Acked

-----------------------------------------------------------------------------
(* The counters of one task balance. *)
Balanced(t) ==
    count[t]["consumed"] = count[t]["success"] + count[t]["error"]
                           + (IF pc[t] \in Idle THEN 0 ELSE 1)

LEMMA BalanceStep == ASSUME TypeOK, CountsBalance, NEW t \in Tasks, Step(t) PROVE CountsBalance'
<1> SUFFICES ASSUME NEW s \in Tasks PROVE Balanced(s)'
  BY DEF CountsBalance, Balanced
<1>1. /\ Balanced(s) /\ count \in [Tasks -> [MsgCounts -> Nat]]
      /\ pc \in [Tasks -> Locations]
  BY DEF CountsBalance, Balanced, TypeOK
<1>2. \A n \in MsgCounts : count[s][n] \in Nat
  BY <1>1
<1>3. ASSUME NEW K, Increment(t, K)
      PROVE  \A n \in MsgCounts : count'[s][n] = IF s = t /\ n \in K THEN count[s][n] + 1 ELSE count[s][n]
  BY <1>1, <1>3 DEF Increment
<1>4. CASE TakeMessage(t)
  <2>1. CASE Finish(t, "ignored") /\ UNCHANGED count
    BY <1>1, <1>4, <2>1 DEF TakeMessage, Balanced, Finish
  <2>2. CASE Goto(t, "dead") /\ UNCHANGED count
    BY <1>1, <1>4, <2>2 DEF TakeMessage, Balanced, Goto
  <2>3. CASE Increment(t, {"consumed", "error"}) /\ Finish(t, "error")
    <3>1. pc'[s] \in Idle <=> pc[s] \in Idle
      BY <1>1, <1>4, <2>3 DEF TakeMessage, Finish
    <3> QED
      BY <1>1, <1>2, <1>3, <2>3, <3>1 DEF Balanced, MsgCounts
  <2>4. CASE Increment(t, {"consumed"}) /\ Goto(t, "get")
    <3>1. IF s = t THEN pc[s] \in Idle /\ pc'[s] \notin Idle ELSE pc'[s] = pc[s]
      BY <1>1, <1>4, <2>4 DEF TakeMessage, Goto
    <3> QED
      BY <1>1, <1>2, <1>3, <2>4, <3>1 DEF Balanced, MsgCounts
  <2> QED
    BY <1>4, <2>1, <2>2, <2>3, <2>4 DEF TakeMessage
<1>5. CASE Moves(t)
  BY <1>1, <1>5 DEF Moves, Balanced
<1>6. CASE Fails(t) \/ Stores(t)
  <2>1. IF s = t THEN pc[s] \notin Idle /\ pc'[s] \in Idle ELSE pc'[s] = pc[s]
    BY <1>1, <1>6 DEF Fails, Stores, Fail, Finish
  <2>2. Increment(t, {"error"}) \/ Increment(t, {"success"})
    BY <1>6 DEF Fails, Stores, Fail
  <2> QED
    BY <1>1, <1>2, <1>3, <2>1, <2>2 DEF Balanced, MsgCounts
<1> QED
  BY <1>4, <1>5, <1>6, StepShape

(***************************************************************************)
(* Every message that is counted as consumed is counted once more, as a    *)
(* success or as an error, by the time its task goes on.                   *)
(***************************************************************************)
THEOREM CountsBalanced == Spec => []CountsBalance
<1>1. Init => CountsBalance
  <2> SUFFICES ASSUME Init, NEW t \in Tasks PROVE Balanced(t)
    BY DEF CountsBalance, Balanced
  <2>1. pc[t] \in Idle /\ \A n \in MsgCounts : count[t][n] = 0
    BY DEF Init
  <2> QED
    BY <2>1 DEF Balanced, MsgCounts
<1>2. TypeOK /\ CountsBalance /\ [Next]_vars => CountsBalance'
  <2> SUFFICES ASSUME TypeOK, CountsBalance, [Next]_vars PROVE CountsBalance'
    OBVIOUS
  <2>1. CASE \E t \in Tasks : Step(t)
    BY <2>1, BalanceStep
  <2>2. CASE ~\E t \in Tasks : Step(t)
    BY <2>2, OtherSteps DEF CountsBalance, taskVars, logVars
  <2> QED
    BY <2>1, <2>2
<1> QED
  BY <1>1, <1>2, TypeCorrect, PTL DEF Spec

-----------------------------------------------------------------------------
(* A step settles at most the current message of its task. *)
LEMMA FinishEffect ==
    ASSUME TypeOK, NEW t \in Tasks, NEW v \in Verdicts, Finish(t, v), idx[t] <= Len(batch[t])
    PROVE  \A s \in Tasks :
              /\ idx'[s] = IF s = t THEN idx[s] + 1 ELSE idx[s]
              /\ \A i \in DOMAIN batch[s] :
                    verdict'[s][i] = IF s = t /\ i = idx[t] THEN v ELSE verdict[s][i]
<1>1. \A s \in Tasks : idx'[s] = IF s = t THEN idx[s] + 1 ELSE idx[s]
  BY DEF TypeOK, Finish
<1>2. ASSUME NEW s \in Tasks, NEW i \in DOMAIN batch[s]
      PROVE  verdict'[s][i] = IF s = t /\ i = idx[t] THEN v ELSE verdict[s][i]
  <2>1. i \in 1..Len(batch[s]) /\ verdict[s] \in [1..Len(batch[s]) -> Verdicts]
    BY BatchType DEF TypeOK
  <2>2. verdict = [x \in Tasks |-> verdict[x]]
    BY DEF TypeOK
  <2>3. verdict'[s] = IF s = t THEN [verdict[t] EXCEPT ![idx[t]] = v] ELSE verdict[s]
    BY <2>2 DEF Finish
  <2> QED
    BY <2>1, <2>3
<1> QED
  BY <1>1, <1>2

LEMMA PositionStep == ASSUME TypeOK, PositionInv, NEW t \in Tasks, Step(t) PROVE PositionInv'
<1> SUFFICES ASSUME NEW s \in Tasks, NEW i \in DOMAIN batch[s], i >= idx'[s]
             PROVE  verdict'[s][i] = "waiting"
  BY StepShape DEF PositionInv
<1>0. i \in Nat /\ idx[s] \in Nat /\ (i >= idx[s] => verdict[s][i] = "waiting")
  <2>1. i \in 1..Len(batch[s]) /\ Len(batch[s]) \in Nat
    BY BatchType
  <2>2. idx[s] \in Nat
    BY DEF TypeOK
  <2>3. i >= idx[s] => verdict[s][i] = "waiting"
    BY DEF PositionInv
  <2> QED
    BY <2>1, <2>2, <2>3
<1>1. CASE UNCHANGED <<idx, verdict>>
  BY <1>0, <1>1
<1>2. CASE \E v \in Verdicts : Finish(t, v) /\ idx[t] <= Len(batch[t])
  BY <1>0, <1>2, FinishEffect
<1>3. \/ UNCHANGED <<idx, verdict>>
      \/ \E v \in Verdicts : Finish(t, v) /\ idx[t] <= Len(batch[t])
  BY StepShape, AtMessage DEF TakeMessage, Moves, Fails, Stores, Fail, Goto, Verdicts
<1> QED
  BY <1>1, <1>2, <1>3

(* The acknowledged rows of message i of task t. *)
Rows(t, i) == {r \in Acked : r.task = t /\ r.pos = i}

OneRow(t, i) ==
    IF verdict[t][i] = "success" THEN \E r \in Rows(t, i) : Rows(t, i) = {r} ELSE Rows(t, i) = {}

LEMMA RowsOf ==
    /\ OneRowPerSuccess <=> \A t \in Tasks : \A i \in DOMAIN batch[t] : OneRow(t, i)
    /\ OneRowPerSuccess' <=> \A t \in Tasks : \A i \in DOMAIN batch'[t] : OneRow(t, i)'
<1>1. ASSUME NEW t, NEW i PROVE Rows(t, i) = {r \in statuses : r.task = t /\ r.pos = i /\ r.acked}
  BY DEF Rows, Acked
<1>2. ASSUME NEW t, NEW i PROVE Rows(t, i)' = {r \in statuses' : r.task = t /\ r.pos = i /\ r.acked}
  BY DEF Rows, Acked
<1> QED
  BY <1>1, <1>2 DEF OneRowPerSuccess, OneRow

LEMMA OneRowStep ==
    ASSUME TypeOK, PositionInv, OneRowPerSuccess, NEW t \in Tasks, Step(t)
    PROVE  OneRowPerSuccess'
<1> SUFFICES ASSUME NEW s \in Tasks, NEW i \in DOMAIN batch[s] PROVE OneRow(s, i)'
  BY RowsOf, StepShape
<1>1. /\ OneRow(s, i)
      /\ s = t /\ i = idx[t] => verdict[s][i] = "waiting"
  <2>1. OneRow(s, i)
    BY RowsOf
  <2>2. idx[s] \in Ids
    BY DEF TypeOK
  <2>3. i >= idx[s] => verdict[s][i] = "waiting"
    BY DEF PositionInv
  <2> QED
    BY <2>1, <2>2, <2>3
<1>2. CASE UNCHANGED <<verdict, Acked>>
  BY <1>1, <1>2 DEF OneRow, Rows
<1>3. CASE /\ UNCHANGED Acked
           /\ \E v \in Verdicts \ {"success"} : Finish(t, v) /\ idx[t] <= Len(batch[t])
  <2>1. Rows(s, i)' = Rows(s, i)
    BY <1>3 DEF Rows
  <2>2. /\ verdict'[s][i] # verdict[s][i] => s = t /\ i = idx[t] /\ verdict'[s][i] # "success"
    BY <1>3, FinishEffect
  <2> QED
    BY <1>1, <2>1, <2>2 DEF OneRow
<1>4. CASE Stores(t)
  <2>1. idx[t] <= Len(batch[t]) /\ Finish(t, "success") /\ "success" \in Verdicts
    BY <1>4, AtMessage DEF Stores, Verdicts
  <2>2. verdict'[s][i] = IF s = t /\ i = idx[t] THEN "success" ELSE verdict[s][i]
    BY <2>1, FinishEffect
  <2>3. /\ Acked' = Acked \cup {Row(t, TRUE)}
        /\ Row(t, TRUE).task = t /\ Row(t, TRUE).pos = idx[t]
    BY <1>4 DEF Stores, Row
  <2>4. CASE s = t /\ i = idx[t]
    <3>1. Rows(s, i) = {}
      BY <1>1, <2>4 DEF OneRow
    <3>2. Rows(s, i)' = {Row(t, TRUE)}
      BY <2>3, <2>4, <3>1 DEF Rows
    <3> QED
      BY <2>2, <2>4, <3>2 DEF OneRow
  <2>5. CASE ~(s = t /\ i = idx[t])
    <3>1. Rows(s, i)' = Rows(s, i)
      BY <2>3, <2>5 DEF Rows
    <3> QED
      BY <1>1, <2>2, <2>5, <3>1 DEF OneRow
  <2> QED
    BY <2>4, <2>5
<1>5. \/ UNCHANGED <<verdict, Acked>>
      \/ /\ UNCHANGED Acked
         /\ \E v \in Verdicts \ {"success"} : Finish(t, v) /\ idx[t] <= Len(batch[t])
      \/ Stores(t)
  BY StepShape, AtMessage DEF TakeMessage, Moves, Fails, Fail, Goto, Verdicts
<1> QED
  BY <1>2, <1>3, <1>4, <1>5

(***************************************************************************)
(* However often insert_status is retried, a message that counts as a      *)
(* success has exactly one acknowledged row and any other has none.        *)
(***************************************************************************)
THEOREM OneRowPerSuccessAlways == Spec => []OneRowPerSuccess
<1>1. Init => PositionInv /\ OneRowPerSuccess
  <2> SUFFICES ASSUME Init PROVE PositionInv /\ OneRowPerSuccess
    OBVIOUS
  <2>1. \A t \in Tasks : \A i \in DOMAIN batch[t] : verdict[t][i] = "waiting"
    BY InitType, BatchType DEF Init
  <2>2. \A t \in Tasks : \A i \in DOMAIN batch[t] : Rows(t, i) = {}
    BY DEF Init, Rows, Acked
  <2>3. OneRowPerSuccess
    BY <2>1, <2>2, RowsOf DEF OneRow
  <2> QED
    BY <2>1, <2>3 DEF PositionInv
<1>2. TypeOK /\ PositionInv /\ OneRowPerSuccess /\ [Next]_vars => (PositionInv /\ OneRowPerSuccess)'
  <2> SUFFICES ASSUME TypeOK, PositionInv, OneRowPerSuccess, [Next]_vars
               PROVE  (PositionInv /\ OneRowPerSuccess)'
    OBVIOUS
  <2>1. CASE \E t \in Tasks : Step(t)
    BY <2>1, PositionStep, OneRowStep
  <2>2. CASE ~\E t \in Tasks : Step(t)
    <3>1. UNCHANGED <<batch, idx, verdict, Acked>>
      BY <2>2, OtherSteps DEF taskVars, logVars
    <3>2. \A t \in Tasks : \A i \in DOMAIN batch[t] : OneRow(t, i)'
      BY <3>1, RowsOf DEF OneRow, Rows
    <3>3. OneRowPerSuccess'
      BY <3>1, <3>2, RowsOf
    <3> QED
      BY <3>1, <3>3 DEF PositionInv
  <2> QED
    BY <2>1, <2>2
<1> QED
  BY <1>1, <1>2, TypeCorrect, PTL DEF Spec

-----------------------------------------------------------------------------
(* The refinement mapping, step by step. *)
SettledOf(t) == idx[t] - 1
Recorded == {<<r.task, r.pos>> : r \in Acked}

(* Finishing a message settles it in the log. *)
LEMMA FinishSettles ==
    ASSUME TypeOK, NEW t \in Tasks, NEW v, Finish(t, v), idx[t] <= Len(batch[t]),
           NEW K, Msg(t).kind \in K, UNCHANGED batch
    PROVE  Log!Settle(t, K)
<1>1. idx \in [Tasks -> Ids] /\ idx' = [idx EXCEPT ![t] = @ + 1] /\ Len(batch[t]) \in Nat
  BY BatchType DEF TypeOK, Finish
<1>2. idx[t] - 1 < Len(batch[t]) /\ (idx[t] - 1) + 1 = idx[t]
  BY <1>1
<1>3. [s \in Tasks |-> idx'[s] - 1]
      = [[s \in Tasks |-> idx[s] - 1] EXCEPT ![t] = @ + 1]
  <2>1. \A s \in Tasks : idx'[s] - 1 = IF s = t THEN (idx[t] - 1) + 1 ELSE idx[s] - 1
    BY <1>1
  <2> QED
    BY <2>1, Zenon
<1> QED
  BY <1>1, <1>2, <1>3 DEF Log!Settle, Msg

LEMMA LogStep == ASSUME TypeOK, NEW t \in Tasks, Step(t) PROVE [Log!Next]_(Log!vars)
<1>1. UNCHANGED batch
  BY StepShape
<1>2. CASE UNCHANGED <<idx, Acked>>
  BY <1>1, <1>2 DEF Log!vars
<1>3. CASE /\ UNCHANGED Acked
           /\ \E v : Finish(t, v)
           /\ idx[t] <= Len(batch[t]) /\ Msg(t).kind \in Ignored
  BY <1>1, <1>3, FinishSettles DEF Log!Next, Log!Ignore
<1>4. CASE /\ UNCHANGED Acked
           /\ \E v : Finish(t, v)
           /\ idx[t] <= Len(batch[t]) /\ Msg(t).kind \in {"good", "bad_date"}
  BY <1>1, <1>4, FinishSettles DEF Log!Next, Log!Reject
<1>5. CASE Stores(t)
  <2>1. Finish(t, "success") /\ idx[t] <= Len(batch[t]) /\ Msg(t).kind \in {"good"}
    BY <1>5, AtMessage DEF Stores
  <2>2. Log!Settle(t, {"good"})
    BY <1>1, <2>1, FinishSettles
  <2>3. Recorded' = Recorded \cup {<<t, idx[t]>>}
    <3>1. Row(t, TRUE).task = t /\ Row(t, TRUE).pos = idx[t]
      BY DEF Row
    <3> QED
      BY <1>5, <3>1 DEF Stores, Recorded
  <2>4. idx'[t] - 1 = idx[t]
    BY <2>1 DEF TypeOK, Finish
  <2>5. Log!Record(t)
    BY <2>2, <2>3, <2>4 DEF Log!Record, Recorded
  <2> QED
    BY <2>5 DEF Log!Next
<1>6. \/ UNCHANGED <<idx, Acked>>
      \/ /\ UNCHANGED Acked
         /\ \E v : Finish(t, v)
         /\ idx[t] <= Len(batch[t]) /\ Msg(t).kind \in Ignored \cup {"good", "bad_date"}
      \/ Stores(t)
  BY StepShape, AtMessage DEF TakeMessage, Moves, Fails, Fail, Goto
<1> QED
  BY <1>2, <1>3, <1>4, <1>5, <1>6

(***************************************************************************)
(* process_payload_status implements StatusLog: messages are settled in    *)
(* order and once each, a status is recorded exactly when its message      *)
(* becomes a success, and a value that raises at app.py:104 stops its      *)
(* batch.                                                                  *)
(***************************************************************************)
THEOREM Refinement == Spec => ImplementsLog
<1>1. Init => Log!Init
  BY DEF Init, Log!Init, Acked
<1>2. TypeOK /\ [Next]_vars => [Log!Next]_(Log!vars)
  <2> SUFFICES ASSUME TypeOK, [Next]_vars PROVE [Log!Next]_(Log!vars)
    OBVIOUS
  <2>1. CASE \E t \in Tasks : Step(t)
    BY <2>1, LogStep
  <2>2. CASE ~\E t \in Tasks : Step(t)
    BY <2>2, OtherSteps DEF Log!vars, taskVars
  <2> QED
    BY <2>1, <2>2
<1> QED
  BY <1>1, <1>2, TypeCorrect, PTL DEF Spec, ImplementsLog, Log!Spec

-----------------------------------------------------------------------------
(* What a task knows of itself is changed by its own steps only. *)
Same(s) ==
    /\ pc'[s] = pc[s] /\ idx'[s] = idx[s] /\ col'[s] = col[s] /\ try'[s] = try[s]
    /\ sps'[s] = sps[s] /\ snapshot'[s] = snapshot[s] /\ batch'[s] = batch[s]

LEMMA StepFrame ==
    ASSUME TypeOK, NEW t \in Tasks, Step(t), NEW s \in Tasks, s # t
    PROVE  Same(s) /\ UNCHANGED batch
<1>1. \A v : Finish(t, v) => pc'[s] = pc[s] /\ idx'[s] = idx[s]
  BY DEF TypeOK, Finish
<1>2. \A loc : Goto(t, loc) => pc'[s] = pc[s] /\ idx'[s] = idx[s]
  BY DEF TypeOK, Goto
<1>3. /\ StartColumns(t) => col'[s] = col[s] /\ pc'[s] = pc[s] /\ idx'[s] = idx[s]
      /\ NextColumn(t) => col'[s] = col[s] /\ pc'[s] = pc[s] /\ idx'[s] = idx[s]
      /\ Fail(t) => pc'[s] = pc[s] /\ idx'[s] = idx[s]
      /\ \A n : Retry(t, n) => try'[s] = try[s] /\ pc'[s] = pc[s] /\ idx'[s] = idx[s]
  BY <1>1, <1>2 DEF TypeOK, StartColumns, NextColumn, Fail, Retry
<1>4. \A p : UsePayload(t, p) => sps'[s] = sps[s]
  BY DEF TypeOK, UsePayload
<1>5. Rejected(t) => try'[s] = try[s] /\ pc'[s] = pc[s] /\ idx'[s] = idx[s]
  BY <1>2, <1>3 DEF Rejected
<1>6. CASE TakeMessage(t) \/ EndOfBatch(t)
  BY <1>1, <1>2, <1>6 DEF TakeMessage, Reset, EndOfBatch, Same, TypeOK
<1>7. CASE GetPayload(t) \/ RegetPayload(t)
  BY <1>2, <1>3, <1>4, <1>7 DEF GetPayload, RegetPayload, Same
<1>8. CASE CreatePayload(t)
  <2>1. /\ sps' = sps \/ sps' = [sps EXCEPT ![t].payload_id = nextId["payloads"] + 1]
        /\ StartColumns(t) \/ (Goto(t, "reget") /\ UNCHANGED col)
        /\ UNCHANGED <<batch, try, snapshot>>
    BY <1>8, Zenon DEF CreatePayload
  <2> QED
    BY <1>2, <1>3, <2>1 DEF Same, TypeOK
<1>9. CASE ResolveColumns(t)
  <2>1. sps'[s] = sps[s] /\ col'[s] = col[s]
    BY <1>9 DEF ResolveColumns, TypeOK
  <2>2. (Goto(t, "add") \/ Goto(t, "insert")) /\ try'[s] = try[s]
    BY <1>9 DEF ResolveColumns, TypeOK
  <2> QED
    BY <1>2, <1>9, <2>1, <2>2 DEF ResolveColumns, Same
<1>10. CASE AddName(t)
  <2>1. /\ sps' = sps \/ sps' = [sps EXCEPT ![t].ids[Column(t)] = nextId[Column(t)] + 1]
        /\ NextColumn(t) \/ (Goto(t, "recheck") /\ UNCHANGED col)
        /\ UNCHANGED <<batch, try, snapshot>>
    BY <1>10, Zenon DEF AddName
  <2> QED
    BY <1>2, <1>3, <2>1 DEF Same, TypeOK
<1>11. CASE RecheckName(t) \/ RefreshName(t)
  BY <1>2, <1>3, <1>11 DEF RecheckName, RefreshName, Same, TypeOK
<1>12. CASE InsertStatus(t)
  BY <1>1, <1>5, <1>12 DEF InsertStatus, Same
<1>13. CASE CheckPartition(t) \/ CreateTable(t)
  BY <1>2, <1>3, <1>13 DEF CheckPartition, CreateTable, Same
<1> QED
  BY <1>6, <1>7, <1>8, <1>9, <1>10, <1>11, <1>12, <1>13 DEF Step

-----------------------------------------------------------------------------
(* The tables only grow, and new payloads have new ids. *)
SamePayload(p, q) == q.id = p.id /\ q.request_id = p.request_id

Grows ==
    /\ \A tb \in Tables : nextId[tb] <= nextId'[tb]
    /\ \A c \in Columns : names[c] \subseteq names'[c]
    /\ partitions \subseteq partitions'
    /\ \A p \in payloads : \E q \in payloads' : SamePayload(p, q)
    /\ \A q \in payloads' : q.id > nextId["payloads"] \/ \E p \in payloads : SamePayload(p, q)

NewPayload(t) ==
    [id |-> nextId["payloads"] + 1, request_id |-> Msg(t).request_id, attrs |-> Msg(t).attrs]
NewName(t) == [id |-> nextId[Column(t)] + 1, name |-> Name(t, Column(t))]

(* What a task's step may do to the tables. *)
Creates(t) ==
    /\ pc[t] = "create"
    /\ nextId' = [nextId EXCEPT !["payloads"] = @ + 1]
    /\ UNCHANGED names
    /\ payloads' = payloads \/ (Known(t) = {} /\ payloads' = payloads \cup {NewPayload(t)})

Adds(t) ==
    /\ pc[t] = "add"
    /\ nextId' = [nextId EXCEPT ![Column(t)] = @ + 1]
    /\ UNCHANGED payloads
    /\ \/ UNCHANGED names
       \/ /\ ~Lists(names[Column(t)], Name(t, Column(t)))
          /\ names' = [names EXCEPT ![Column(t)] = @ \cup {NewName(t)}]

LEMMA TableEffects ==
    ASSUME TypeOK, NEW t \in Tasks, Step(t)
    PROVE  /\ UNCHANGED <<payloads, names, nextId>> \/ Creates(t) \/ Adds(t)
           /\ partitions \subseteq partitions'
<1>1. CASE CreatePayload(t)
  <2>1. pc[t] = "create" /\ UNCHANGED <<names, partitions>> /\ nextId' = [nextId EXCEPT !["payloads"] = @ + 1]
    BY <1>1 DEF CreatePayload
  <2>2. payloads' = payloads \/ (Known(t) = {} /\ payloads' = payloads \cup {NewPayload(t)})
    BY <1>1, Zenon DEF CreatePayload, NewPayload
  <2> QED
    BY <2>1, <2>2 DEF Creates
<1>2. CASE AddName(t)
  <2>1. /\ pc[t] = "add" /\ UNCHANGED <<payloads, partitions>>
        /\ nextId' = [nextId EXCEPT ![Column(t)] = @ + 1]
    BY <1>2 DEF AddName
  <2>2. \/ names' = names
        \/ /\ ~Lists(names[Column(t)], Name(t, Column(t)))
           /\ names' = [names EXCEPT ![Column(t)] = @ \cup {NewName(t)}]
    BY <1>2, Zenon DEF AddName, NewName
  <2> QED
    BY <2>1, <2>2 DEF Adds
<1>3. CASE CreateTable(t)
  BY <1>3 DEF CreateTable
<1>4. CASE ~(CreatePayload(t) \/ AddName(t) \/ CreateTable(t))
  BY <1>4 DEF Step, TakeMessage, EndOfBatch, GetPayload, RegetPayload, ResolveColumns,
              RecheckName, RefreshName, InsertStatus, CheckPartition, dbVars
<1> QED
  BY <1>1, <1>2, <1>3, <1>4

(* A drawn id is a new one. *)
LEMMA Drawn ==
    ASSUME TypeOK, NEW tb \in Tables, nextId' = [nextId EXCEPT ![tb] = @ + 1]
    PROVE  /\ nextId'[tb] = nextId[tb] + 1
           /\ \A x \in Tables \ {tb} : nextId'[x] = nextId[x]
           /\ \A x \in Tables : nextId[x] \in Nat /\ nextId[x] <= nextId'[x]
<1>1. nextId \in [Tables -> Nat]
  BY DEF TypeOK
<1> QED
  BY <1>1

LEMMA StepGrows ==
    ASSUME TypeOK, NEW t \in Tasks, Step(t)
    PROVE  Grows
<1>1. CASE UNCHANGED <<payloads, names, nextId>>
  <2>1. nextId \in [Tables -> Nat]
    BY DEF TypeOK
  <2>2. \A p \in payloads : SamePayload(p, p)
    BY DEF SamePayload
  <2> QED
    BY <1>1, <2>1, <2>2, TableEffects DEF Grows
<1>2. CASE Creates(t)
  <2>1. "payloads" \in Tables
    BY DEF Tables
  <2>2. /\ \A tb \in Tables : nextId[tb] <= nextId'[tb]
        /\ nextId["payloads"] \in Nat
    BY <1>2, <2>1, Drawn DEF Creates
  <2>3. \A p \in payloads : SamePayload(p, p) /\ p \in payloads'
    BY <1>2 DEF SamePayload, Creates
  <2>4. \A q \in payloads' : q \in payloads \/ q.id > nextId["payloads"]
    BY <1>2, <2>2 DEF Creates, NewPayload
  <2> QED
    BY <1>2, <2>2, <2>3, <2>4, TableEffects DEF Grows, Creates
<1>3. CASE Adds(t)
  <2>1. Column(t) \in Columns /\ Column(t) \in Tables
    BY <1>3, AtColumn DEF Adds, Tables
  <2>2. \A tb \in Tables : nextId[tb] <= nextId'[tb]
    BY <1>3, <2>1, Drawn DEF Adds
  <2>3. \A c \in Columns : names[c] \subseteq names'[c]
    BY <1>3, <2>1 DEF Adds, TypeOK
  <2>4. \A p \in payloads : SamePayload(p, p)
    BY DEF SamePayload
  <2> QED
    BY <1>3, <2>2, <2>3, <2>4, TableEffects DEF Grows, Adds
<1> QED
  BY <1>1, <1>2, <1>3, TableEffects

LEMMA UpdateGrows ==
    ASSUME TypeOK, NEW u \in updates, RunUpdate(u)
    PROVE  Grows
<1>1. UNCHANGED <<names, partitions, nextId>> /\ nextId \in [Tables -> Nat]
  BY DEF RunUpdate, TypeOK
<1>2. \A p \in payloads : SamePayload(p, p) /\ SamePayload(p, Updated(u, p))
  BY UpdatedType DEF TypeOK, SamePayload
<1>3. payloads' = payloads \/ payloads' = {Updated(u, p) : p \in payloads}
  BY UpdatePayloads
<1>4. \A p \in payloads : \E q \in payloads' : SamePayload(p, q)
  BY <1>2, <1>3
<1>5. \A q \in payloads' : \E p \in payloads : SamePayload(p, q)
  BY <1>2, <1>3
<1> QED
  BY <1>1, <1>4, <1>5 DEF Grows

-----------------------------------------------------------------------------
(* Ids and names stay unique, and no id is ahead of its sequence. *)
PayloadsUnique ==
    /\ \A p, q \in payloads : p.id = q.id \/ p.request_id = q.request_id => p = q
    /\ \A p \in payloads : p.id <= nextId["payloads"]

NamesUnique(c) ==
    \A r, s \in names[c] : r.id <= nextId[c] /\ (r.id = s.id <=> r.name = s.name)

LEMMA TablesParts == TablesInv <=> PayloadsUnique /\ \A c \in Columns : NamesUnique(c)
BY DEF TablesInv, PayloadsUnique, NamesUnique

LEMMA TablesPartsNext == TablesInv' <=> PayloadsUnique' /\ \A c \in Columns : NamesUnique(c)'
BY DEF TablesInv, PayloadsUnique, NamesUnique

LEMMA CreateTables == ASSUME TypeOK, TablesInv, NEW t \in Tasks, Creates(t) PROVE TablesInv'
<1>1. "payloads" \in Tables /\ \A c \in Columns : c \in Tables \ {"payloads"}
  BY DEF Tables, Columns
<1>2. /\ nextId'["payloads"] = nextId["payloads"] + 1 /\ nextId["payloads"] \in Nat
      /\ \A c \in Columns : nextId'[c] = nextId[c]
  BY <1>1, Drawn DEF Creates
<1>3. \A c \in Columns : NamesUnique(c)'
  BY <1>2, TablesParts DEF NamesUnique, Creates
<1>4. \A p \in payloads : p.id <= nextId["payloads"] /\ p.id \in Nat
  BY DEF TablesInv, TypeOK, PayloadRow
<1>5. PayloadsUnique'
  <2>1. CASE UNCHANGED payloads
    BY <1>2, <1>4, <2>1, TablesParts DEF PayloadsUnique
  <2>2. CASE Known(t) = {} /\ payloads' = payloads \cup {NewPayload(t)}
    <3>1. /\ NewPayload(t).id = nextId["payloads"] + 1
          /\ NewPayload(t).request_id = Msg(t).request_id
      BY DEF NewPayload
    <3>2. \A p \in payloads : p.id # NewPayload(t).id /\ p.request_id # NewPayload(t).request_id
      BY <1>2, <1>4, <2>2, <3>1 DEF Known
    <3>3. \A p \in payloads' : p.id <= nextId'["payloads"]
      BY <1>2, <1>4, <2>2, <3>1
    <3>4. \A p, q \in payloads' : p.id = q.id \/ p.request_id = q.request_id => p = q
      BY <2>2, <3>2, TablesParts DEF PayloadsUnique
    <3> QED
      BY <3>3, <3>4 DEF PayloadsUnique
  <2> QED
    BY <2>1, <2>2 DEF Creates
<1> QED
  BY <1>3, <1>5, TablesPartsNext

LEMMA AddTables == ASSUME TypeOK, TablesInv, NEW t \in Tasks, Adds(t) PROVE TablesInv'
<1> DEFINE c == Column(t)
<1>1. c \in Columns /\ c \in Tables \ {"payloads"} /\ Columns \subseteq Tables /\ "payloads" \in Tables
  BY AtColumn DEF Adds, Tables, Columns
<1>2. /\ nextId'[c] = nextId[c] + 1 /\ nextId[c] \in Nat
      /\ \A x \in Tables \ {c} : nextId'[x] = nextId[x]
  BY <1>1, Drawn DEF Adds
<1>3. PayloadsUnique'
  BY <1>1, <1>2, TablesParts DEF PayloadsUnique, Adds
<1>4. ASSUME NEW d \in Columns PROVE NamesUnique(d)'
  <2>0. NamesUnique(d) /\ names[d] \subseteq NameRow
    BY TablesParts DEF TypeOK
  <2>1. CASE d # c
    <3>1. names'[d] = names[d] /\ nextId'[d] = nextId[d]
      BY <1>1, <1>2, <2>1 DEF Adds, TypeOK
    <3> QED
      BY <2>0, <3>1 DEF NamesUnique
  <2>2. CASE d = c /\ names' = names
    <3>1. \A r \in names[c] : r.id <= nextId[c] /\ r.id \in Nat
      BY <2>0, <2>2 DEF NamesUnique, NameRow
    <3>2. \A r \in names[c] : r.id <= nextId'[c]
      BY <1>2, <3>1
    <3> QED
      BY <2>0, <2>2, <3>2 DEF NamesUnique
  <2>3. CASE d = c /\ ~Lists(names[c], Name(t, c)) /\ names' = [names EXCEPT ![c] = @ \cup {NewName(t)}]
    <3>1. names'[c] = names[c] \cup {NewName(t)}
      BY <1>1, <2>3 DEF TypeOK
    <3>2. \A r \in names[c] : r.id <= nextId[c] /\ r.id \in Nat
      BY <2>0, <2>3 DEF NamesUnique, NameRow
    <3>3. NewName(t).id = nextId[c] + 1 /\ NewName(t).name = Name(t, c)
      BY DEF NewName
    <3>4. \A r \in names[c] : r.id # NewName(t).id /\ r.name # NewName(t).name
      BY <1>2, <2>3, <3>2, <3>3 DEF Lists
    <3>5. \A r \in names'[c] : r.id <= nextId'[c]
      BY <1>2, <3>1, <3>2, <3>3
    <3>6. \A r, s \in names'[c] : r.id = s.id <=> r.name = s.name
      BY <2>0, <2>3, <3>1, <3>4 DEF NamesUnique
    <3> QED
      BY <2>3, <3>5, <3>6 DEF NamesUnique
  <2> QED
    BY <2>1, <2>2, <2>3 DEF Adds
<1> QED
  BY <1>3, <1>4, TablesPartsNext

LEMMA TablesStep == ASSUME TypeOK, TablesInv, NEW t \in Tasks, Step(t) PROVE TablesInv'
<1>1. CASE UNCHANGED <<payloads, names, nextId>>
  BY <1>1 DEF TablesInv
<1> QED
  BY <1>1, TableEffects, CreateTables, AddTables

LEMMA TablesUpdate == ASSUME TypeOK, TablesInv, NEW u \in updates, RunUpdate(u) PROVE TablesInv'
<1>1. UNCHANGED <<names, nextId>>
  BY DEF RunUpdate
<1>2. \A p \in payloads : Updated(u, p).id = p.id /\ Updated(u, p).request_id = p.request_id
  BY UpdatedType DEF TypeOK
<1>3. payloads' = payloads \/ payloads' = {Updated(u, p) : p \in payloads}
  BY UpdatePayloads
<1>4. PayloadsUnique'
  BY <1>1, <1>2, <1>3, TablesParts DEF PayloadsUnique
<1> QED
  BY <1>1, <1>4, TablesParts, TablesPartsNext DEF NamesUnique

-----------------------------------------------------------------------------
(* Where each action leads. *)
LEMMA Targets ==
    ASSUME TypeOK, NEW t \in Tasks
    PROVE  /\ TakeMessage(t) => pc'[t] \in {"next", "dead", "get"}
           /\ EndOfBatch(t) => pc'[t] = "done"
           /\ GetPayload(t) => pc'[t] \in {"column", "create", "next"}
           /\ CreatePayload(t) => pc'[t] \in {"column", "reget"}
           /\ RegetPayload(t) => pc'[t] \in {"column", "next"}
           /\ ResolveColumns(t) => pc'[t] \in {"add", "insert"}
           /\ AddName(t) => pc'[t] \in {"column", "recheck"}
           /\ RecheckName(t) => pc'[t] \in {"refresh", "next"}
           /\ RefreshName(t) => pc'[t] \in {"column", "next"}
           /\ InsertStatus(t) => pc'[t] \in {"next", "partition", "insert"}
           /\ CheckPartition(t) => pc'[t] \in {"insert", "create_table"}
           /\ CreateTable(t) => pc'[t] = "insert"
<1>0. pc \in [Tasks -> Locations]
  BY DEF TypeOK
<1>1. \A loc : Goto(t, loc) => pc'[t] = loc
  BY <1>0 DEF Goto
<1>2. \A v : Finish(t, v) => pc'[t] = "next"
  BY <1>0 DEF Finish
<1>3. /\ StartColumns(t) => pc'[t] = "column"
      /\ NextColumn(t) => pc'[t] = "column"
      /\ Fail(t) => pc'[t] = "next"
      /\ \A n : Retry(t, n) => pc'[t] = "insert"
  BY <1>1, <1>2 DEF StartColumns, NextColumn, Fail, Retry
<1>4. Rejected(t) => pc'[t] \in {"next", "partition", "insert"}
  BY <1>1, <1>3 DEF Rejected
<1>5. /\ TakeMessage(t) => pc'[t] \in {"next", "dead", "get"}
      /\ EndOfBatch(t) => pc'[t] = "done"
  BY <1>1, <1>2 DEF TakeMessage, EndOfBatch
<1>6. /\ GetPayload(t) => pc'[t] \in {"column", "create", "next"}
      /\ CreatePayload(t) => pc'[t] \in {"column", "reget"}
      /\ RegetPayload(t) => pc'[t] \in {"column", "next"}
  BY <1>1, <1>3, Zenon DEF GetPayload, CreatePayload, RegetPayload
<1>7. /\ ResolveColumns(t) => pc'[t] \in {"add", "insert"}
      /\ RecheckName(t) => pc'[t] \in {"refresh", "next"}
      /\ RefreshName(t) => pc'[t] \in {"column", "next"}
  BY <1>1, <1>3 DEF ResolveColumns, RecheckName, RefreshName
<1>8. AddName(t) => pc'[t] \in {"column", "recheck"}
  BY <1>1, <1>3, Zenon DEF AddName
<1>9. /\ InsertStatus(t) => pc'[t] \in {"next", "partition", "insert"}
      /\ CheckPartition(t) => pc'[t] \in {"insert", "create_table"}
      /\ CreateTable(t) => pc'[t] = "insert"
  BY <1>1, <1>2, <1>3, <1>4 DEF InsertStatus, CheckPartition, CreateTable
<1> QED
  BY <1>5, <1>6, <1>7, <1>8, <1>9

-----------------------------------------------------------------------------
(* What a process remembers of a name table is in the table. *)
LEMMA MemoryStep ==
    ASSUME TypeOK, MemoryInv, NEW t \in Tasks, Step(t)
    PROVE  MemoryInv'
<1>0. \A c \in Columns : names[c] \subseteq names'[c]
  BY StepGrows DEF Grows
<1>1. ASSUME NEW p \in Processes, NEW c \in Columns PROVE cached'[p][c] \subseteq names'[c]
  <2>0. cached[p][c] \subseteq names[c]
    BY DEF MemoryInv
  <2>1. CASE UNCHANGED cached
    BY <1>0, <2>0, <2>1
  <2>2. CASE RefreshName(t)
    <3>1. snapshot[t] \subseteq names[Column(t)] /\ Column(t) \in Columns
      BY <2>2, AtColumn DEF RefreshName, MemoryInv
    <3>2. cached' = [cached EXCEPT ![Home[t]] = [@ EXCEPT ![Column(t)] = snapshot[t]]]
      BY <2>2 DEF RefreshName
    <3>3. cached \in [Processes -> [Columns -> SUBSET NameRow]]
      BY DEF TypeOK
    <3>4. cached'[p][c] = cached[p][c] \/ (c = Column(t) /\ cached'[p][c] = snapshot[t])
      BY <3>1, <3>2, <3>3
    <3> QED
      BY <1>0, <2>0, <3>1, <3>4
  <2> QED
    BY <2>1, <2>2 DEF Step, TakeMessage, EndOfBatch, GetPayload, CreatePayload, RegetPayload,
       ResolveColumns, AddName, RecheckName, InsertStatus, CheckPartition, CreateTable, memVars
<1>2. ASSUME NEW s \in Tasks, pc'[s] = "refresh" PROVE snapshot'[s] \subseteq names'[Column(s)']
  <2>1. CASE s # t
    <3>1. Same(s)
      BY <2>1, StepFrame
    <3>2. pc[s] = "refresh" /\ Column(s)' = Column(s)
      BY <1>2, <3>1 DEF Same, Column
    <3> QED
      BY <1>0, <3>1, <3>2, AtColumn DEF Same, MemoryInv
  <2>2. CASE s = t
    <3>1. RecheckName(t)
      BY <1>2, <2>2, Targets DEF Step
    <3>2. ~Fail(t)
      BY <1>2, <2>2 DEF Fail, Finish, TypeOK
    <3>3. snapshot' = [snapshot EXCEPT ![t] = names[Column(t)]] /\ UNCHANGED <<names, col>>
      BY <3>1, <3>2 DEF RecheckName, dbVars
    <3>4. snapshot'[t] = names[Column(t)] /\ Column(t)' = Column(t)
      BY <3>3 DEF TypeOK, Column
    <3> QED
      BY <2>2, <3>3, <3>4
  <2> QED
    BY <2>1, <2>2
<1> QED
  BY <1>1, <1>2 DEF MemoryInv

-----------------------------------------------------------------------------
(* A task that stays busy stays with its message. *)
LEMMA MessageKept ==
    ASSUME TypeOK, NEW t \in Tasks, Step(t), pc[t] \notin Idle, pc'[t] \notin Idle
    PROVE  idx'[t] = idx[t] /\ Msg(t)' = Msg(t)
<1>1. idx'[t] = idx[t]
  <2>1. \A v : Finish(t, v) => pc'[t] = "next"
    BY DEF TypeOK, Finish
  <2> QED
    BY <2>1, StepShape DEF TakeMessage, Moves, Fails, Stores, Fail
<1> QED
  BY <1>1, StepShape DEF Msg

LEMMA OthersMessage ==
    ASSUME TypeOK, NEW t \in Tasks, Step(t), NEW s \in Tasks, s # t
    PROVE  Msg(s)' = Msg(s)
BY StepFrame DEF Same, Msg

(* The payload id that task s holds is drawn, and is nobody else's. *)
HoldsPayload(s) ==
    /\ sps[s].payload_id <= nextId["payloads"]
    /\ \A p \in payloads : p.id = sps[s].payload_id => p.request_id = Msg(s).request_id

LEMMA HoldsFrame ==
    ASSUME TypeOK, TypeOK', Grows, NEW s \in Tasks, HoldsPayload(s),
           sps'[s].payload_id = sps[s].payload_id, Msg(s)' = Msg(s)
    PROVE  HoldsPayload(s)'
<1>1. "payloads" \in Tables
  BY DEF Tables
<1>2. /\ sps[s].payload_id \in Nat /\ nextId["payloads"] \in Nat /\ nextId'["payloads"] \in Nat
      /\ nextId["payloads"] <= nextId'["payloads"]
  BY <1>1 DEF TypeOK, Grows
<1>3. sps'[s].payload_id <= nextId'["payloads"]
  BY <1>2 DEF HoldsPayload
<1>4. ASSUME NEW q \in payloads', q.id = sps'[s].payload_id PROVE q.request_id = Msg(s)'.request_id
  <2>1. q.id <= nextId["payloads"] /\ q.id \in Nat
    BY <1>2, <1>4 DEF HoldsPayload
  <2>2. PICK p \in payloads : SamePayload(p, q)
    BY <1>2, <2>1 DEF Grows
  <2> QED
    BY <1>4, <2>2 DEF SamePayload, HoldsPayload
<1> QED
  BY <1>3, <1>4 DEF HoldsPayload

(* How a step of t changes the payload id that t holds. *)
LEMMA PayloadIdSteps ==
    ASSUME TypeOK, NEW t \in Tasks, Step(t)
    PROVE  \/ TakeMessage(t)
           \/ pc[t] \in {"get", "reget"} /\ UNCHANGED dbVars /\ \E p \in Known(t) : UsePayload(t, p)
           \/ CreatePayload(t)
           \/ pc[t] \notin {"create"} /\ sps'[t].payload_id = sps[t].payload_id
<1>1. CASE GetPayload(t) \/ RegetPayload(t)
  BY <1>1, Zenon DEF GetPayload, RegetPayload
<1>2. CASE AddName(t)
  <2>1. pc[t] = "add" /\ (sps' = sps \/ sps' = [sps EXCEPT ![t].ids[Column(t)] = nextId[Column(t)] + 1])
    BY <1>2, Zenon DEF AddName
  <2> QED
    BY <2>1 DEF TypeOK
<1>3. CASE ResolveColumns(t)
  BY <1>3 DEF ResolveColumns, TypeOK
<1>4. CASE RefreshName(t)
  BY <1>4 DEF RefreshName, TypeOK
<1>5. CASE EndOfBatch(t) \/ RecheckName(t) \/ InsertStatus(t) \/ CheckPartition(t) \/ CreateTable(t)
  BY <1>5 DEF EndOfBatch, RecheckName, InsertStatus, CheckPartition, CreateTable
<1> QED
  BY <1>1, <1>2, <1>3, <1>4, <1>5 DEF Step

LEMMA PayloadIdStep ==
    ASSUME TypeOK, TypeOK', TablesInv, PayloadIdInv, NEW t \in Tasks, Step(t)
    PROVE  PayloadIdInv'
<1> SUFFICES ASSUME NEW s \in Tasks, pc'[s] \notin Idle PROVE HoldsPayload(s)'
  BY DEF PayloadIdInv, HoldsPayload
<1>0. pc[s] \notin Idle => HoldsPayload(s)
  BY DEF PayloadIdInv, HoldsPayload
<1>1. Grows /\ "payloads" \in Tables
  BY StepGrows DEF Tables
<1>2. /\ nextId["payloads"] \in Nat /\ nextId'["payloads"] \in Nat
      /\ \A p \in payloads : p.id \in Ids
  BY <1>1 DEF TypeOK, PayloadRow
<1>3. CASE s # t
  <2>1. Same(s)
    BY <1>3, StepFrame
  <2> QED
    BY <1>0, <1>1, <1>3, <2>1, OthersMessage, HoldsFrame DEF Same
<1>4. CASE s = t /\ TakeMessage(t)
  <2>1. sps'[t].payload_id = 0 /\ UNCHANGED <<payloads, nextId>>
    BY <1>4 DEF TakeMessage, Reset, EmptySps, TypeOK, dbVars
  <2> QED
    BY <1>2, <1>4, <2>1 DEF HoldsPayload
<1>5. CASE s = t /\ pc[t] \in {"get", "reget"} /\ UNCHANGED dbVars /\ \E p \in Known(t) : UsePayload(t, p)
  <2>1. PICK p \in Known(t) : UsePayload(t, p)
    BY <1>5
  <2>2. sps'[t].payload_id = p.id /\ UNCHANGED <<payloads, nextId>>
    BY <1>5, <2>1 DEF UsePayload, TypeOK, dbVars
  <2>3. p \in payloads /\ p.request_id = Msg(t).request_id /\ p.id <= nextId["payloads"]
    BY <2>1 DEF Known, TablesInv
  <2>4. Msg(t)' = Msg(t)
    BY <1>5, MessageKept
  <2>5. \A q \in payloads : q.id = p.id => q = p
    BY <2>3 DEF TablesInv
  <2> QED
    BY <1>5, <2>2, <2>3, <2>4, <2>5 DEF HoldsPayload
<1>6. CASE s = t /\ CreatePayload(t)
  <2>1. pc[t] = "create" /\ Msg(t)' = Msg(t)
    BY <1>6, MessageKept DEF CreatePayload
  <2>2. sps' = sps \/ sps' = [sps EXCEPT ![t].payload_id = nextId["payloads"] + 1]
    BY <1>6, Zenon DEF CreatePayload
  <2>3. CASE sps' = sps
    BY <1>0, <1>1, <1>6, <2>1, <2>3, HoldsFrame
  <2>4. CASE sps' = [sps EXCEPT ![t].payload_id = nextId["payloads"] + 1]
    <3>1. sps'[t].payload_id = nextId["payloads"] + 1
      BY <2>4 DEF TypeOK
    <3>2. nextId'["payloads"] = nextId["payloads"] + 1
      BY <1>1, <1>6, Drawn DEF CreatePayload
    <3>3. payloads' \subseteq payloads \cup {NewPayload(t)}
      <4>1. payloads' = payloads \/ payloads' = payloads \cup {NewPayload(t)}
        BY <1>6, Zenon DEF CreatePayload, NewPayload
      <4> QED
        BY <4>1
    <3>4. \A p \in payloads : p.id # nextId["payloads"] + 1
      BY <1>2 DEF TablesInv
    <3>5. NewPayload(t).request_id = Msg(t).request_id
      BY DEF NewPayload
    <3> QED
      BY <1>2, <1>6, <2>1, <3>1, <3>2, <3>3, <3>4, <3>5 DEF HoldsPayload
  <2> QED
    BY <2>2, <2>3, <2>4
<1>7. CASE s = t /\ pc[t] \notin {"create"} /\ ~TakeMessage(t) /\ sps'[t].payload_id = sps[t].payload_id
  <2>1. pc[t] \notin Idle
    BY <1>7, Targets DEF Step, GetPayload, CreatePayload, RegetPayload, ResolveColumns, AddName,
       RecheckName, RefreshName, InsertStatus, CheckPartition, CreateTable
  <2> QED
    BY <1>0, <1>1, <1>7, <2>1, MessageKept, HoldsFrame
<1> QED
  BY <1>3, <1>4, <1>5, <1>6, <1>7, PayloadIdSteps

-----------------------------------------------------------------------------
(* The name ids that task s holds. *)
HoldsNames(s) ==
    /\ pc[s] \in Naming => \A i \in 1..(col[s] - 1) : ColumnResolved(s, ColumnOrder[i])
    /\ pc[s] \in Storing => col[s] = 4
    /\ pc[s] \notin Idle => \A c \in Columns : Name(s, c) = None => sps[s].ids[c] = NoId

LEMMA Orders ==
    /\ \A i \in 1..3 : ColumnOrder[i] \in Columns
    /\ \A c \in Columns : \E i \in 1..3 : ColumnOrder[i] = c
    /\ \A i, j \in 1..3 : ColumnOrder[i] = ColumnOrder[j] => i = j
<1>1. ColumnOrder[1] = "service" /\ ColumnOrder[2] = "source" /\ ColumnOrder[3] = "status"
  BY DEF ColumnOrder
<1>2. \A i \in 1..3 : i = 1 \/ i = 2 \/ i = 3
  OBVIOUS
<1> QED
  BY <1>1, <1>2 DEF Columns

LEMMA ResolvedFrame ==
    ASSUME Grows, NEW s \in Tasks, NEW c \in Columns, ColumnResolved(s, c),
           sps'[s].ids[c] = sps[s].ids[c], Msg(s)' = Msg(s)
    PROVE  ColumnResolved(s, c)'
<1>1. names[c] \subseteq names'[c]
  BY DEF Grows
<1> QED
  BY <1>1 DEF ColumnResolved, Name

(* A task that is not further than before, and has at most tried to add a name. *)
LEMMA NamesFrame ==
    ASSUME TypeOK, Grows, NEW s \in Tasks, HoldsNames(s),
           \A c \in Columns : sps'[s].ids[c] = sps[s].ids[c] \/ (pc[s] = "add" /\ c = Column(s)),
           Msg(s)' = Msg(s), col'[s] = col[s], pc[s] \notin Idle,
           pc'[s] \in Naming => pc[s] \in Naming, pc'[s] \in Storing => pc[s] \in Storing
    PROVE  HoldsNames(s)'
<1>1. col[s] \in 1..4
  BY DEF TypeOK
<1>2. ASSUME pc'[s] \in Naming, NEW i \in 1..(col'[s] - 1) PROVE ColumnResolved(s, ColumnOrder[i])'
  <2>1. i \in 1..3 /\ ColumnOrder[i] \in Columns
    BY <1>1, <1>2, Orders
  <2>2. ColumnResolved(s, ColumnOrder[i])
    BY <1>2 DEF HoldsNames
  <2>3. ~(pc[s] = "add" /\ ColumnOrder[i] = Column(s))
    <3>1. pc[s] = "add" => col[s] \in 1..3 /\ i # col[s]
      BY <1>1, <1>2, AtColumn
    <3> QED
      BY <2>1, <3>1, Orders DEF Column
  <2> QED
    BY <2>1, <2>2, <2>3, ResolvedFrame
<1>3. \A c \in Columns : Name(s, c)' = Name(s, c)
  BY DEF Name
<1>4. \A c \in Columns : Name(s, c)' = None => sps'[s].ids[c] = NoId
  <2>1. pc[s] = "add" => Name(s, Column(s)) # None
    BY DEF TypeOK, Working
  <2> QED
    BY <1>3, <2>1 DEF HoldsNames
<1>5. pc'[s] \in Storing => col'[s] = 4
  BY DEF HoldsNames
<1> QED
  BY <1>2, <1>4, <1>5 DEF HoldsNames

(* Entering the loop over the columns. *)
LEMMA NamesStart ==
    ASSUME TypeOK, NEW t \in Tasks, HoldsNames(t), sps'[t].ids = sps[t].ids,
           Msg(t)' = Msg(t), pc[t] \notin Idle, pc'[t] \notin Storing, col'[t] = 1
    PROVE  HoldsNames(t)'
<1>1. \A c \in Columns : Name(t, c)' = None => sps'[t].ids[c] = NoId
  BY DEF HoldsNames, Name
<1>2. \A i \in 1..(col'[t] - 1) : FALSE
  OBVIOUS
<1> QED
  BY <1>1, <1>2 DEF HoldsNames

(* The id of the current column is set to that of its name. *)
LEMMA NamesNext ==
    ASSUME TypeOK, Grows, NEW t \in Tasks, HoldsNames(t), Msg(t)' = Msg(t),
           pc[t] \in {"add", "recheck", "refresh"}, pc'[t] = "column",
           col' = [col EXCEPT ![t] = @ + 1], NEW id \in Nat,
           sps' = [sps EXCEPT ![t].ids[Column(t)] = id],
           [id |-> id, name |-> Name(t, Column(t))] \in names'[Column(t)]
    PROVE  HoldsNames(t)'
<1>1. Column(t) \in Columns /\ col[t] \in 1..3 /\ Name(t, Column(t)) # None
  BY AtColumn DEF TypeOK, Working
<1>2. col'[t] = col[t] + 1
  BY DEF TypeOK
<1>3. \A c \in Columns : sps'[t].ids[c] = IF c = Column(t) THEN id ELSE sps[t].ids[c]
  BY <1>1 DEF TypeOK
<1>4. ASSUME NEW i \in 1..(col'[t] - 1) PROVE ColumnResolved(t, ColumnOrder[i])'
  <2>1. i \in 1..3 /\ ColumnOrder[i] \in Columns
    BY <1>1, <1>2, <1>4, Orders
  <2>2. CASE i = col[t]
    <3>1. ColumnOrder[i] = Column(t)
      BY <2>2 DEF Column
    <3>2. Name(t, ColumnOrder[i])' = Name(t, Column(t)) /\ sps'[t].ids[ColumnOrder[i]] = id
      BY <1>1, <1>3, <3>1 DEF Name
    <3> QED
      BY <1>1, <3>1, <3>2 DEF ColumnResolved
  <2>3. CASE i # col[t]
    <3>1. i \in 1..(col[t] - 1)
      BY <1>1, <1>2, <1>4, <2>3
    <3>2. ColumnResolved(t, ColumnOrder[i])
      BY <3>1 DEF HoldsNames, Naming
    <3>3. ColumnOrder[i] # Column(t)
      BY <1>1, <2>1, <2>3, Orders DEF Column
    <3> QED
      BY <1>3, <2>1, <3>2, <3>3, ResolvedFrame
  <2> QED
    BY <2>2, <2>3
<1>5. \A c \in Columns : Name(t, c)' = None => sps'[t].ids[c] = NoId
  BY <1>1, <1>3 DEF HoldsNames, Name
<1> QED
  BY <1>4, <1>5 DEF HoldsNames, Storing

LEMMA NamesGet ==
    ASSUME TypeOK, NEW t \in Tasks, HoldsNames(t), pc'[t] \notin Idle,
           GetPayload(t) \/ CreatePayload(t) \/ RegetPayload(t)
    PROVE  HoldsNames(t)'
<1>1. sps'[t].ids = sps[t].ids
  <2>1. CASE GetPayload(t) \/ RegetPayload(t)
    BY <2>1 DEF GetPayload, RegetPayload, UsePayload, TypeOK
  <2>2. CASE CreatePayload(t)
    <3>1. sps' = sps \/ sps' = [sps EXCEPT ![t].payload_id = nextId["payloads"] + 1]
      BY <2>2, Zenon DEF CreatePayload
    <3> QED
      BY <3>1 DEF TypeOK
  <2> QED
    BY <2>1, <2>2
<1>2. Step(t) /\ pc[t] \in {"get", "create", "reget"} /\ pc'[t] \in {"column", "create", "reget"}
  BY Targets DEF Step, GetPayload, CreatePayload, RegetPayload
<1>3. Msg(t)' = Msg(t) /\ Grows
  BY <1>2, MessageKept, StepGrows
<1>4. StartColumns(t) \/ (UNCHANGED col /\ (Goto(t, "create") \/ Goto(t, "reget")))
  <2>1. ~Fail(t)
    BY <1>2 DEF Fail, Finish, TypeOK
  <2> QED
    BY <2>1, Zenon DEF GetPayload, CreatePayload, RegetPayload
<1>5. CASE StartColumns(t)
  <2>1. col'[t] = 1 /\ pc'[t] = "column"
    BY <1>5 DEF StartColumns, Goto, TypeOK
  <2> QED
    BY <1>1, <1>2, <1>3, <2>1, NamesStart DEF Storing
<1>6. CASE UNCHANGED col /\ (Goto(t, "create") \/ Goto(t, "reget"))
  <2>1. pc'[t] \notin Naming
    BY <1>6 DEF Goto, TypeOK, Naming, Storing
  <2> QED
    BY <1>1, <1>2, <1>3, <1>6, <2>1, NamesFrame DEF Naming
<1> QED
  BY <1>4, <1>5, <1>6

LEMMA NamesResolve ==
    ASSUME TypeOK, MemoryInv, NEW t \in Tasks, HoldsNames(t), ResolveColumns(t)
    PROVE  HoldsNames(t)'
<1>1. PICK stop \in col[t]..4 :
          /\ \A i \in col[t]..(stop - 1) : Resolved(t, i)
          /\ col' = [col EXCEPT ![t] = stop]
          /\ sps' = [sps EXCEPT ![t].ids = [c \in Columns |->
                        IF Name(t, c) # None /\ \E i \in col[t]..(stop - 1) : ColumnOrder[i] = c
                        THEN IdOf(cached[Home[t]][c], Name(t, c)) ELSE @[c]]]
          /\ IF stop < 4 THEN Goto(t, "add") ELSE Goto(t, "insert")
  BY DEF ResolveColumns
<1>2. pc[t] = "column" /\ UNCHANGED names /\ Step(t)
  BY DEF ResolveColumns, dbVars, Step
<1>3. col[t] \in 1..4 /\ stop \in 1..4 /\ col'[t] = stop
  <2>1. col \in [Tasks -> 1..4] /\ col' = [col EXCEPT ![t] = stop]
    BY <1>1 DEF TypeOK
  <2>2. col[t] \in 1..4
    BY <2>1
  <2> QED
    BY <2>1, <2>2
<1>4. pc'[t] = IF stop < 4 THEN "add" ELSE "insert"
  BY <1>1 DEF Goto, TypeOK
<1>5. Msg(t)' = Msg(t) /\ Grows
  BY <1>2, <1>4, MessageKept, StepGrows
<1>6. \A c \in Columns : sps'[t].ids[c] =
          IF Name(t, c) # None /\ \E i \in col[t]..(stop - 1) : ColumnOrder[i] = c
          THEN IdOf(cached[Home[t]][c], Name(t, c)) ELSE sps[t].ids[c]
  BY <1>1 DEF TypeOK
<1>7. \A c \in Columns : Name(t, c) = None => sps[t].ids[c] = NoId
  BY <1>2 DEF HoldsNames
<1>8. ASSUME NEW i \in 1..(stop - 1) PROVE ColumnResolved(t, ColumnOrder[i])'
  <2>1. i \in 1..3 /\ ColumnOrder[i] \in Columns
    BY <1>3, Orders
  <2>2. CASE i < col[t]
    <3>1. ColumnResolved(t, ColumnOrder[i])
      BY <1>2, <1>3, <2>2 DEF HoldsNames, Naming
    <3>2. ASSUME NEW j \in col[t]..(stop - 1) PROVE ColumnOrder[j] # ColumnOrder[i]
      <4>1. j \in 1..3 /\ j # i
        BY <1>3, <2>2, <3>2
      <4> QED
        BY <2>1, <4>1, Orders
    <3> QED
      BY <1>5, <1>6, <2>1, <3>1, <3>2, ResolvedFrame
  <2>3. CASE ~(i < col[t])
    <3>1. i \in col[t]..(stop - 1)
      BY <1>3, <2>3
    <3>2. Name(t, ColumnOrder[i]) = None \/ Lists(cached[Home[t]][ColumnOrder[i]], Name(t, ColumnOrder[i]))
      BY <1>1, <3>1 DEF Resolved
    <3>3. CASE Name(t, ColumnOrder[i]) = None
      BY <1>5, <1>6, <1>7, <2>1, <3>3 DEF ColumnResolved, Name
    <3>4. CASE Name(t, ColumnOrder[i]) # None
      <4>1. sps'[t].ids[ColumnOrder[i]] = IdOf(cached[Home[t]][ColumnOrder[i]], Name(t, ColumnOrder[i]))
        BY <1>6, <2>1, <3>1, <3>4
      <4>2. /\ cached[Home[t]][ColumnOrder[i]] \in SUBSET NameRow
            /\ cached[Home[t]][ColumnOrder[i]] \subseteq names[ColumnOrder[i]]
        BY <2>1, ConstantsAssumption DEF TypeOK, MemoryInv
      <4>3. Name(t, ColumnOrder[i]) \in Names
        BY <1>2, <2>1, <3>4, AtMessage
      <4>4. [id |-> sps'[t].ids[ColumnOrder[i]], name |-> Name(t, ColumnOrder[i])] \in names[ColumnOrder[i]]
        BY <3>2, <3>4, <4>1, <4>2, <4>3, IdOfListed
      <4> QED
        BY <1>2, <1>5, <3>4, <4>4 DEF ColumnResolved, Name
    <3> QED
      BY <3>3, <3>4
  <2> QED
    BY <2>2, <2>3
<1>9. \A c \in Columns : Name(t, c)' = None => sps'[t].ids[c] = NoId
  BY <1>5, <1>6, <1>7 DEF Name
<1>10. pc'[t] \in Storing => col'[t] = 4
  BY <1>3, <1>4 DEF Storing
<1> QED
  BY <1>3, <1>8, <1>9, <1>10 DEF HoldsNames

LEMMA NamesAdd ==
    ASSUME TypeOK, NEW t \in Tasks, HoldsNames(t), AddName(t)
    PROVE  HoldsNames(t)'
<1> DEFINE c == Column(t)
           id == nextId[c] + 1
<1>1. Step(t) /\ pc[t] = "add" /\ pc'[t] \in {"column", "recheck"}
  BY Targets DEF Step, AddName
<1>2. Msg(t)' = Msg(t) /\ Grows
  BY <1>1, MessageKept, StepGrows
<1>3. c \in Columns /\ id \in Nat
  BY <1>1, AtColumn DEF TypeOK, Tables
<1>4. \/ NextColumn(t) /\ sps' = [sps EXCEPT ![t].ids[c] = id] /\ names' = [names EXCEPT ![c] = @ \cup {NewName(t)}]
      \/ Goto(t, "recheck") /\ UNCHANGED col /\ (sps' = sps \/ sps' = [sps EXCEPT ![t].ids[c] = id])
  BY Zenon DEF AddName, NewName
<1>5. CASE NextColumn(t) /\ sps' = [sps EXCEPT ![t].ids[c] = id] /\ names' = [names EXCEPT ![c] = @ \cup {NewName(t)}]
  <2>1. NewName(t) \in names'[c]
    BY <1>3, <1>5 DEF TypeOK
  <2>2. pc'[t] = "column" /\ col' = [col EXCEPT ![t] = @ + 1]
    BY <1>5 DEF NextColumn, Goto, TypeOK
  <2> QED
    BY <1>1, <1>2, <1>3, <1>5, <2>1, <2>2, NamesNext DEF NewName
<1>6. CASE Goto(t, "recheck") /\ UNCHANGED col /\ (sps' = sps \/ sps' = [sps EXCEPT ![t].ids[c] = id])
  <2>1. \A d \in Columns : sps'[t].ids[d] = sps[t].ids[d] \/ d = c
    BY <1>3, <1>6 DEF TypeOK
  <2>2. pc'[t] = "recheck"
    BY <1>6 DEF Goto, TypeOK
  <2> QED
    BY <1>1, <1>2, <1>6, <2>1, <2>2, NamesFrame DEF Naming, Storing
<1> QED
  BY <1>4, <1>5, <1>6

LEMMA NamesRefresh ==
    ASSUME TypeOK, MemoryInv, NEW t \in Tasks, HoldsNames(t), RefreshName(t), pc'[t] \notin Idle
    PROVE  HoldsNames(t)'
<1> DEFINE c == Column(t)
<1>1. Step(t) /\ pc[t] = "refresh" /\ pc'[t] = "column" /\ UNCHANGED names
  BY Targets DEF Step, RefreshName, dbVars
<1>2. Msg(t)' = Msg(t) /\ Grows
  BY <1>1, MessageKept, StepGrows
<1>3. c \in Columns /\ Name(t, c) \in Names
  BY <1>1, AtColumn
<1>4. ~Fail(t)
  BY <1>1 DEF Fail, Finish, TypeOK
<1>5. /\ Lists(snapshot[t], Name(t, c))
      /\ sps' = [sps EXCEPT ![t].ids[c] = IdOf(snapshot[t], Name(t, c))]
      /\ col' = [col EXCEPT ![t] = @ + 1]
  BY <1>4, Zenon DEF RefreshName, NextColumn
<1>6. snapshot[t] \in SUBSET NameRow /\ snapshot[t] \subseteq names[c]
  BY <1>1 DEF TypeOK, MemoryInv
<1>7. /\ IdOf(snapshot[t], Name(t, c)) \in Nat
      /\ [id |-> IdOf(snapshot[t], Name(t, c)), name |-> Name(t, c)] \in names'[c]
  BY <1>1, <1>3, <1>5, <1>6, IdOfListed
<1> QED
  BY <1>1, <1>2, <1>5, <1>7, NamesNext

LEMMA NamesStore ==
    ASSUME TypeOK, NEW t \in Tasks, HoldsNames(t), pc'[t] \notin Idle,
           RecheckName(t) \/ InsertStatus(t) \/ CheckPartition(t) \/ CreateTable(t)
    PROVE  HoldsNames(t)'
<1>1. Step(t) /\ pc[t] \in {"recheck", "insert", "partition", "create_table"} /\ UNCHANGED <<sps, col>>
  BY DEF Step, RecheckName, InsertStatus, CheckPartition, CreateTable
<1>2. /\ RecheckName(t) => pc'[t] = "refresh"
      /\ ~RecheckName(t) => pc[t] \in Storing
  BY Targets DEF RecheckName, InsertStatus, CheckPartition, CreateTable, Storing
<1>3. Msg(t)' = Msg(t) /\ Grows
  BY <1>1, MessageKept, StepGrows
<1>4. /\ pc'[t] \in Naming => pc[t] \in Naming
      /\ pc'[t] \in Storing => pc[t] \in Storing
  BY <1>1, <1>2 DEF Naming, Storing
<1> QED
  BY <1>1, <1>3, <1>4, NamesFrame

LEMMA NameIdsStep ==
    ASSUME TypeOK, MemoryInv, NameIdsInv, NEW t \in Tasks, Step(t)
    PROVE  NameIdsInv'
<1>1. \A s \in Tasks : HoldsNames(s)
  BY DEF NameIdsInv, HoldsNames
<1> SUFFICES ASSUME NEW s \in Tasks PROVE HoldsNames(s)'
  BY DEF NameIdsInv, HoldsNames
<1>2. CASE pc'[s] \in Idle
  BY <1>2 DEF HoldsNames, Naming, Storing
<1>3. CASE pc'[s] \notin Idle /\ s # t
  <2>1. Same(s)
    BY <1>3, StepFrame
  <2> QED
    BY <1>1, <1>3, <2>1, OthersMessage, StepGrows, NamesFrame DEF Same
<1>4. CASE pc'[s] \notin Idle /\ s = t /\ TakeMessage(t)
  <2>1. pc'[t] = "get" /\ sps'[t] = EmptySps
    BY <1>4, Targets DEF TakeMessage, Reset, TypeOK
  <2> QED
    BY <1>4, <2>1 DEF HoldsNames, Naming, Storing, EmptySps
<1> QED
  BY <1>1, <1>2, <1>3, <1>4, Targets, NamesGet, NamesResolve, NamesAdd, NamesRefresh, NamesStore DEF Step

-----------------------------------------------------------------------------
(* One stored row belongs to its message. *)
Belongs(r) ==
    /\ r.pos \in DOMAIN batch[r.task]
    /\ \E p \in payloads : p.id = r.payload_id /\ p.request_id = Source(r).request_id
    /\ \A c \in Columns :
          IF Source(r).name[c] = None THEN r.ids[c] = NoId
          ELSE [id |-> r.ids[c], name |-> Source(r).name[c]] \in names[c]
    /\ r.day = Source(r).day /\ r.day \in partitions

LEMMA BelongsFrame ==
    ASSUME Grows, UNCHANGED batch, NEW r, Belongs(r)
    PROVE  Belongs(r)'
<1>1. Source(r)' = Source(r)
  BY DEF Source
<1>2. PICK p \in payloads : p.id = r.payload_id /\ p.request_id = Source(r).request_id
  BY DEF Belongs
<1>3. \E q \in payloads' : q.id = r.payload_id /\ q.request_id = Source(r).request_id
  BY <1>2 DEF Grows, SamePayload
<1>4. \A c \in Columns : names[c] \subseteq names'[c]
  BY DEF Grows
<1>5. r.day \in partitions'
  BY DEF Grows, Belongs
<1> QED
  BY <1>1, <1>3, <1>4, <1>5 DEF Belongs

(* A row that insert_status stores belongs to the current message. *)
LEMMA StoredBelongs ==
    ASSUME TypeOK, PayloadIdInv, NameIdsInv, NEW t \in Tasks, pc[t] = "insert", Accepted(t),
           NEW acked \in BOOLEAN
    PROVE  Belongs(Row(t, acked))
<1> DEFINE r == Row(t, acked)
<1>1. /\ r.task = t /\ r.pos = idx[t] /\ r.payload_id = sps[t].payload_id
      /\ r.ids = sps[t].ids /\ r.day = Msg(t).day
  BY DEF Row
<1>2. Source(r) = Msg(t)
  BY <1>1 DEF Source, Msg
<1>3. r.pos \in DOMAIN batch[r.task]
  BY <1>1, AtMessage, BatchType
<1>4. \E p \in payloads : p.id = r.payload_id /\ p.request_id = Source(r).request_id
  <2>1. PICK p \in payloads : p.id = sps[t].payload_id
    BY DEF Accepted
  <2>2. p.request_id = Msg(t).request_id
    BY <2>1 DEF PayloadIdInv
  <2> QED
    BY <1>1, <1>2, <2>1, <2>2
<1>5. ASSUME NEW c \in Columns PROVE ColumnResolved(t, c)
  <2>1. col[t] = 4 /\ \A i \in 1..(col[t] - 1) : ColumnResolved(t, ColumnOrder[i])
    BY DEF NameIdsInv, Naming, Storing
  <2>2. PICK i \in 1..3 : ColumnOrder[i] = c
    BY Orders
  <2> QED
    BY <2>1, <2>2
<1>6. \A c \in Columns :
          IF Source(r).name[c] = None THEN r.ids[c] = NoId
          ELSE [id |-> r.ids[c], name |-> Source(r).name[c]] \in names[c]
  BY <1>1, <1>2, <1>5 DEF ColumnResolved, Name
<1>7. r.day = Source(r).day /\ r.day \in partitions
  BY <1>1, <1>2 DEF Accepted
<1> HIDE DEF r
<1> QED
  BY <1>3, <1>4, <1>6, <1>7 DEF Belongs, r

LEMMA AttributionStep ==
    ASSUME TypeOK, PayloadIdInv, NameIdsInv, Attribution, NEW t \in Tasks, Step(t)
    PROVE  Attribution'
<1>1. \A r \in statuses : Belongs(r)
  BY DEF Attribution, Belongs
<1>2. Grows /\ UNCHANGED batch
  BY StepGrows, StepShape
<1>3. \A r \in statuses' : Belongs(r)
  <2>1. CASE InsertStatus(t)
    <3>1. \/ statuses' = statuses
          \/ \E acked \in BOOLEAN : Accepted(t) /\ statuses' = statuses \cup {Row(t, acked)}
      BY <2>1 DEF InsertStatus
    <3> QED
      BY <1>1, <2>1, <3>1, StoredBelongs DEF InsertStatus
  <2>2. CASE ~InsertStatus(t)
    <3>1. UNCHANGED statuses
      BY <2>2 DEF Step, TakeMessage, EndOfBatch, GetPayload, CreatePayload, RegetPayload,
         ResolveColumns, AddName, RecheckName, RefreshName, CheckPartition, CreateTable, dbVars
    <3> QED
      BY <1>1, <3>1
  <2> QED
    BY <2>1, <2>2
<1>4. \A r \in statuses' : Belongs(r)'
  BY <1>2, <1>3, BelongsFrame
<1> QED
  BY <1>4 DEF Attribution, Belongs

-----------------------------------------------------------------------------
(* Together, these parts are inductive. *)
LEMMA AttributionInit == Init => AttributionInv
<1> SUFFICES ASSUME Init PROVE AttributionInv
  OBVIOUS
<1>1. TypeOK
  BY InitType
<1>2. TablesInv
  BY ConstantsAssumption DEF Init, TablesInv, Tables, Columns
<1>3. MemoryInv
  BY DEF Init, MemoryInv
<1>4. PayloadIdInv /\ NameIdsInv
  BY DEF Init, PayloadIdInv, NameIdsInv, Naming, Storing
<1>5. Attribution
  BY DEF Init, Attribution
<1> QED
  BY <1>1, <1>2, <1>3, <1>4, <1>5 DEF AttributionInv

LEMMA AttributionUpdate ==
    ASSUME AttributionInv, NEW u \in updates, RunUpdate(u)
    PROVE  AttributionInv'
<1> USE DEF AttributionInv
<1>1. TypeOK' /\ TablesInv' /\ Grows
  BY TypeUpdate, TablesUpdate, UpdateGrows
<1>2. /\ UNCHANGED <<names, statuses, partitions, nextId, cached, batch, idx, pc, col, sps, snapshot>>
      /\ \A s \in Tasks : Msg(s)' = Msg(s) /\ Column(s)' = Column(s)
  BY DEF RunUpdate, taskVars, Msg, Column
<1>3. MemoryInv'
  BY <1>2 DEF MemoryInv
<1>4. PayloadIdInv'
  <2> SUFFICES ASSUME NEW s \in Tasks, pc'[s] \notin Idle PROVE HoldsPayload(s)'
    BY DEF PayloadIdInv, HoldsPayload
  <2>1. HoldsPayload(s)
    BY <1>2 DEF PayloadIdInv, HoldsPayload
  <2> QED
    BY <1>1, <1>2, <2>1, HoldsFrame
<1>5. NameIdsInv'
  BY <1>2 DEF NameIdsInv, ColumnResolved, Name
<1>6. Attribution'
  <2>1. \A r \in statuses' : Belongs(r)'
    <3>1. \A r \in statuses : Belongs(r)
      BY DEF Attribution, Belongs
    <3> QED
      BY <1>1, <1>2, <3>1, BelongsFrame
  <2> QED
    BY <2>1 DEF Attribution, Belongs
<1> QED
  BY <1>1, <1>3, <1>4, <1>5, <1>6

LEMMA AttributionNext == AttributionInv /\ [Next]_vars => AttributionInv'
<1> SUFFICES ASSUME AttributionInv, [Next]_vars PROVE AttributionInv'
  OBVIOUS
<1>1. ASSUME NEW t \in Tasks, Step(t) PROVE AttributionInv'
  <2>1. TypeOK'
    BY <1>1, TypeNext DEF AttributionInv, Next
  <2> QED
    BY <1>1, <2>1, TablesStep, MemoryStep, PayloadIdStep, NameIdsStep, AttributionStep DEF AttributionInv
<1>2. ASSUME NEW u \in updates, RunUpdate(u) PROVE AttributionInv'
  BY <1>2, AttributionUpdate
<1>3. CASE UNCHANGED vars
  <2>1. TypeOK'
    BY <1>3, TypeNext DEF AttributionInv
  <2>2. /\ UNCHANGED <<payloads, names, statuses, partitions, nextId, cached, batch, idx, pc, col, sps, snapshot>>
        /\ \A s \in Tasks : Msg(s)' = Msg(s) /\ Column(s)' = Column(s)
    BY <1>3 DEF vars, dbVars, memVars, taskVars, Msg, Column
  <2>3. TablesInv' /\ MemoryInv'
    BY <2>2 DEF AttributionInv, TablesInv, MemoryInv
  <2>4. PayloadIdInv'
    BY <2>2 DEF AttributionInv, PayloadIdInv
  <2>5. NameIdsInv'
    BY <2>2 DEF AttributionInv, NameIdsInv, ColumnResolved, Name
  <2>6. Attribution'
    BY <2>2 DEF AttributionInv, Attribution, Source
  <2> QED
    BY <2>1, <2>3, <2>4, <2>5, <2>6 DEF AttributionInv
<1> QED
  BY <1>1, <1>2, <1>3 DEF Next, Terminated

(***************************************************************************)
(* Whatever the other coroutines insert, cache or fail to commit, every    *)
(* stored status has the payload id of its message's request, the ids of   *)
(* its message's names, and the partition of its day.                      *)
(***************************************************************************)
THEOREM AttributionAlways == Spec => []Attribution
<1>1. AttributionInv => Attribution
  BY DEF AttributionInv
<1> QED
  BY <1>1, AttributionInit, AttributionNext, PTL DEF Spec

-----------------------------------------------------------------------------
(* A good message is lost only to a failure of one of its own calls. *)

(* UnfaultedInv for one task. *)
Sound(s) ==
    /\ pc[s] = "reget" => Known(s) # {}
    /\ pc[s] \in Naming => \E p \in payloads : p.id = sps[s].payload_id
    /\ pc[s] = "recheck" => Lists(names[Column(s)], Name(s, Column(s)))
    /\ pc[s] = "refresh" => Lists(snapshot[s], Name(s, Column(s)))
    /\ pc[s] = "insert" /\ try[s] > 1 => Msg(s).day \in partitions

LEMMA SoundParts ==
    /\ UnfaultedInv <=> \A s \in Tasks : Current(s) \notin faulted => Sound(s)
    /\ UnfaultedInv' <=> \A s \in Tasks : Current(s)' \notin faulted' => Sound(s)'
BY DEF UnfaultedInv, Sound

(* A fault is never forgotten. *)
LEMMA FaultsKept ==
    ASSUME NEW t \in Tasks, Step(t) PROVE faulted \subseteq faulted'
BY DEF Step, TakeMessage, EndOfBatch, GetPayload, CreatePayload, RegetPayload, ResolveColumns,
   AddName, RecheckName, RefreshName, InsertStatus, CheckPartition, CreateTable, Fault, NoFault, faultVars

(* What other tasks do never harms task s. *)
LEMMA SoundFrame ==
    ASSUME TypeOK, Grows, NEW s \in Tasks, Sound(s), Same(s), Msg(s)' = Msg(s)
    PROVE  Sound(s)'
<1>1. /\ pc'[s] = pc[s] /\ sps'[s] = sps[s] /\ snapshot'[s] = snapshot[s] /\ try'[s] = try[s]
      /\ Column(s)' = Column(s)
      /\ \A c : Name(s, c)' = Name(s, c)
  BY DEF Same, Column, Name
<1>2. Known(s) # {} => Known(s)' # {}
  <2> SUFFICES ASSUME NEW p \in Known(s) PROVE Known(s)' # {}
    OBVIOUS
  <2>1. p \in payloads /\ p.request_id = Msg(s).request_id
    BY DEF Known
  <2>2. PICK q \in payloads' : SamePayload(p, q)
    BY <2>1 DEF Grows
  <2> QED
    BY <2>1, <2>2 DEF SamePayload, Known
<1>3. \A n : (\E p \in payloads : p.id = n) => \E q \in payloads' : q.id = n
  BY DEF Grows, SamePayload
<1>4. ASSUME pc[s] = "recheck", Lists(names[Column(s)], Name(s, Column(s)))
      PROVE  Lists(names'[Column(s)], Name(s, Column(s)))
  <2>1. names[Column(s)] \subseteq names'[Column(s)]
    BY <1>4, AtColumn DEF Grows
  <2> QED
    BY <1>4, <2>1 DEF Lists
<1>5. partitions \subseteq partitions'
  BY DEF Grows
<1> QED
  BY <1>1, <1>2, <1>3, <1>4, <1>5 DEF Sound, Lists

-----------------------------------------------------------------------------
(* At its second and third attempt, a message without a fault is accepted. *)
LEMMA AcceptedLater ==
    ASSUME AttributionInv, NEW t \in Tasks, Sound(t), pc[t] = "insert", try[t] > 1
    PROVE  Accepted(t)
<1> USE DEF AttributionInv
<1>1. \E p \in payloads : p.id = sps[t].payload_id
  BY DEF Sound, Naming, Storing
<1>2. \A c \in Columns : ColumnResolved(t, c)
  <2>1. col[t] = 4 /\ \A i \in 1..(col[t] - 1) : ColumnResolved(t, ColumnOrder[i])
    BY DEF NameIdsInv, Naming, Storing
  <2> QED
    BY <2>1, Orders
<1>3. \A c \in Columns : sps[t].ids[c] # NoId => \E r \in names[c] : r.id = sps[t].ids[c]
  BY <1>2 DEF ColumnResolved
<1>4. ASSUME NEW c \in {"service", "status"} PROVE sps[t].ids[c] # NoId
  <2>1. Name(t, c) # None /\ c \in Columns
    BY AtMessage DEF Columns
  <2>2. [id |-> sps[t].ids[c], name |-> Name(t, c)] \in NameRow
    BY <1>2, <2>1 DEF ColumnResolved, TypeOK
  <2> QED
    BY <2>2 DEF NameRow
<1>5. Msg(t).day \in partitions
  BY DEF Sound
<1> QED
  BY <1>1, <1>3, <1>4, <1>5 DEF Accepted

(* An error is counted only for a message one of whose calls has failed. *)
LEMMA FailsFaulted ==
    ASSUME AttributionInv, NEW t \in Tasks, Step(t), Fails(t), Current(t) \notin faulted => Sound(t)
    PROVE  Current(t) \in faulted'
<1> SUFFICES ASSUME Current(t) \notin faulted' PROVE FALSE
  OBVIOUS
<1>1. Sound(t) /\ TypeOK
  BY FaultsKept DEF AttributionInv
<1>2. ~Fault(Current(t))
  BY DEF Fault
<1>3. pc[t] \notin Idle /\ pc'[t] = "next" /\ Fail(t)
  BY <1>1 DEF Fails, Fail, Finish, TypeOK
<1>4. \A loc : Goto(t, loc) => loc = "next"
  BY <1>1, <1>3 DEF Goto, TypeOK
<1>5. ~StartColumns(t) /\ ~NextColumn(t) /\ \A n : ~Retry(t, n)
  BY <1>4 DEF StartColumns, NextColumn, Retry
<1>6. ~(GetPayload(t) \/ CreatePayload(t) \/ RegetPayload(t))
  BY <1>2, <1>4, <1>5, Zenon DEF GetPayload, CreatePayload, RegetPayload
<1>7. ~(ResolveColumns(t) \/ AddName(t) \/ RecheckName(t))
  <2>1. ~ResolveColumns(t)
    BY <1>4 DEF ResolveColumns
  <2>2. ~(AddName(t) \/ RecheckName(t))
    BY <1>2, <1>4, <1>5, Zenon DEF AddName, RecheckName
  <2> QED
    BY <2>1, <2>2
<1>8. ~RefreshName(t)
  BY <1>1, <1>5 DEF RefreshName, Sound
<1>9. ~InsertStatus(t)
  <2> SUFFICES ASSUME InsertStatus(t) PROVE FALSE
    OBVIOUS
  <2>1. pc[t] = "insert"
    BY DEF InsertStatus
  <2>2. ~Finish(t, "success")
    <3>1. idx[t] <= Len(batch[t]) /\ idx[t] \in DOMAIN batch[t] /\ "success" \in Verdicts /\ "error" \in Verdicts
      BY <1>1, <1>3, AtMessage, BatchType DEF Verdicts
    <3>2. \A v \in Verdicts : Finish(t, v) => verdict'[t][idx[t]] = v
      BY <1>1, <3>1, FinishEffect
    <3> QED
      BY <1>3, <3>1, <3>2 DEF Fail
  <2>3. Rejected(t) /\ ~Accepted(t)
    BY <1>2, <2>2 DEF InsertStatus
  <2>4. try[t] = 3
    BY <1>4, <1>5, <2>3 DEF Rejected
  <2> QED
    BY <1>1, <2>1, <2>3, <2>4, AcceptedLater
<1>10. ~(CheckPartition(t) \/ CreateTable(t))
  BY <1>4, <1>5 DEF CheckPartition, CreateTable
<1>11. ~(TakeMessage(t) \/ EndOfBatch(t))
  BY <1>3 DEF TakeMessage, EndOfBatch
<1> QED
  BY <1>6, <1>7, <1>8, <1>9, <1>10, <1>11 DEF Step

-----------------------------------------------------------------------------
(* A task keeps a payload that exists. *)
HasPayload(s) == \E p \in payloads : p.id = sps[s].payload_id

LEMMA PayloadKept ==
    ASSUME Grows, NEW s \in Tasks, HasPayload(s), sps'[s].payload_id = sps[s].payload_id
    PROVE  HasPayload(s)'
BY DEF HasPayload, Grows, SamePayload

LEMMA SoundPayload ==
    ASSUME TypeOK, NEW t \in Tasks, Step(t), Sound(t), ~Fault(Current(t)),
           GetPayload(t) \/ CreatePayload(t) \/ RegetPayload(t)
    PROVE  Sound(t)'
<1>1. pc'[t] \in {"column", "create", "reget", "next"}
  BY Targets
<1>2. pc'[t] = "column" => HasPayload(t)'
  <2> SUFFICES ASSUME pc'[t] = "column" PROVE HasPayload(t)'
    OBVIOUS
  <2>1. ASSUME NEW p \in Known(t), UsePayload(t, p), UNCHANGED payloads PROVE HasPayload(t)'
    BY <2>1 DEF Known, UsePayload, HasPayload, TypeOK
  <2>2. \A loc : Goto(t, loc) => loc = "column"
    BY DEF Goto, TypeOK
  <2>3. ~Fail(t)
    BY DEF Fail, Finish, TypeOK
  <2>4. CASE GetPayload(t) \/ RegetPayload(t)
    <3>1. \/ \E p \in Known(t) : UsePayload(t, p)
          \/ Known(t) = {} /\ RegetPayload(t)
      BY <2>2, <2>3, <2>4, Zenon DEF GetPayload, RegetPayload
    <3>2. RegetPayload(t) => Known(t) # {}
      BY DEF Sound, RegetPayload
    <3>3. UNCHANGED payloads
      BY <2>4 DEF GetPayload, RegetPayload, dbVars
    <3> QED
      BY <2>1, <3>1, <3>2, <3>3
  <2>5. CASE CreatePayload(t)
    <3>1. /\ payloads' = payloads \cup {NewPayload(t)}
          /\ sps' = [sps EXCEPT ![t].payload_id = nextId["payloads"] + 1]
      BY <2>2, <2>5, Zenon DEF CreatePayload, NewPayload
    <3>2. NewPayload(t).id = sps'[t].payload_id
      BY <3>1 DEF NewPayload, TypeOK
    <3> QED
      BY <3>1, <3>2 DEF HasPayload
  <2> QED
    BY <2>4, <2>5
<1>3. pc'[t] = "reget" => Known(t)' # {}
  <2> SUFFICES ASSUME pc'[t] = "reget" PROVE Known(t)' # {}
    OBVIOUS
  <2>1. CreatePayload(t) /\ Msg(t)' = Msg(t)
    BY Targets, MessageKept DEF GetPayload, RegetPayload, CreatePayload
  <2>2. ~Goto(t, "column")
    BY DEF Goto, TypeOK
  <2>3. Known(t) # {} /\ UNCHANGED payloads
    BY <2>1, <2>2, Zenon DEF CreatePayload, StartColumns
  <2> QED
    BY <2>1, <2>3 DEF Known
<1> QED
  BY <1>1, <1>2, <1>3 DEF Sound, HasPayload, Naming, Storing

LEMMA SoundNames ==
    ASSUME TypeOK, NEW t \in Tasks, Step(t), Sound(t), ~Fault(Current(t)),
           ResolveColumns(t) \/ AddName(t) \/ RecheckName(t) \/ RefreshName(t)
    PROVE  Sound(t)'
<1>1. /\ pc[t] \in {"column", "add", "recheck", "refresh"}
      /\ pc'[t] \in {"add", "insert", "column", "recheck", "refresh", "next"}
  BY Targets DEF ResolveColumns, AddName, RecheckName, RefreshName
<1>2. HasPayload(t)'
  <2>1. HasPayload(t)
    BY <1>1 DEF Sound, HasPayload, Naming
  <2>2. sps'[t].payload_id = sps[t].payload_id
    BY <1>1, PayloadIdSteps DEF TakeMessage, CreatePayload
  <2> QED
    BY <2>1, <2>2, StepGrows, PayloadKept
<1>3. pc'[t] # "next" => Msg(t)' = Msg(t)
  BY <1>1, MessageKept
<1>4. pc'[t] = "recheck" => Lists(names'[Column(t)'], Name(t, Column(t))')
  <2> SUFFICES ASSUME pc'[t] = "recheck" PROVE Lists(names'[Column(t)'], Name(t, Column(t))')
    OBVIOUS
  <2>1. AddName(t) /\ ~Goto(t, "column")
    BY Targets DEF Goto, TypeOK
  <2>2. Lists(names[Column(t)], Name(t, Column(t))) /\ UNCHANGED <<names, col>>
    BY <2>1, Zenon DEF AddName, NextColumn
  <2> QED
    BY <1>3, <2>2 DEF Column, Name
<1>5. pc'[t] = "refresh" => Lists(snapshot'[t], Name(t, Column(t))')
  <2> SUFFICES ASSUME pc'[t] = "refresh" PROVE Lists(snapshot'[t], Name(t, Column(t))')
    OBVIOUS
  <2>1. RecheckName(t) /\ ~Fail(t)
    BY Targets DEF Fail, Finish, TypeOK
  <2>2. snapshot' = [snapshot EXCEPT ![t] = names[Column(t)]] /\ UNCHANGED col /\ pc[t] = "recheck"
    BY <2>1 DEF RecheckName
  <2>3. Lists(names[Column(t)], Name(t, Column(t)))
    BY <2>2 DEF Sound
  <2>4. snapshot'[t] = names[Column(t)]
    BY <2>2 DEF TypeOK
  <2> QED
    BY <1>3, <2>2, <2>3, <2>4 DEF Column, Name
<1>6. pc'[t] = "insert" => try'[t] = 1
  <2> SUFFICES ASSUME pc'[t] = "insert" PROVE try'[t] = 1
    OBVIOUS
  <2>1. ResolveColumns(t) /\ ~Goto(t, "add")
    BY Targets DEF Goto, TypeOK
  <2>2. try' = [try EXCEPT ![t] = 1]
    BY <2>1 DEF ResolveColumns
  <2> QED
    BY <2>2 DEF TypeOK
<1> QED
  BY <1>1, <1>2, <1>4, <1>5, <1>6 DEF Sound, HasPayload

LEMMA SoundStore ==
    ASSUME AttributionInv, NEW t \in Tasks, Step(t), Sound(t), ~Fault(Current(t)),
           InsertStatus(t) \/ CheckPartition(t) \/ CreateTable(t)
    PROVE  Sound(t)'
<1>0. TypeOK
  BY DEF AttributionInv
<1>1. /\ pc[t] \in Storing /\ UNCHANGED sps
      /\ pc'[t] \in {"next", "insert", "partition", "create_table"}
  BY <1>0, Targets DEF InsertStatus, CheckPartition, CreateTable, Storing
<1>2. HasPayload(t)'
  <2>1. HasPayload(t)
    BY <1>1 DEF Sound, HasPayload, Naming
  <2> QED
    BY <1>0, <1>1, <2>1, StepGrows, PayloadKept
<1>3. pc'[t] = "insert" => Msg(t)'.day \in partitions'
  <2> SUFFICES ASSUME pc'[t] = "insert" PROVE Msg(t)'.day \in partitions'
    OBVIOUS
  <2>1. Msg(t)' = Msg(t)
    BY <1>0, <1>1, MessageKept DEF Storing
  <2>2. \A loc : Goto(t, loc) => loc = "insert"
    BY <1>0 DEF Goto, TypeOK
  <2>3. ~(\E v : Finish(t, v))
    BY <1>0 DEF Finish, TypeOK
  <2>4. CASE InsertStatus(t)
    <3>1. Rejected(t) /\ ~Accepted(t) /\ pc[t] = "insert"
      BY <2>3, <2>4, Zenon DEF InsertStatus
    <3>2. try[t] > 1
      <4>1. try[t] = 2 \/ try[t] = 3
        BY <2>2, <3>1 DEF Rejected
      <4> QED
        BY <4>1
    <3> QED
      BY <3>1, <3>2, AcceptedLater
  <2>5. CASE CheckPartition(t)
    <3>1. Msg(t).day \in partitions /\ UNCHANGED partitions
      BY <2>2, <2>5 DEF CheckPartition, dbVars
    <3> QED
      BY <2>1, <3>1
  <2>6. CASE CreateTable(t)
    BY <2>1, <2>6 DEF CreateTable
  <2> QED
    BY <2>4, <2>5, <2>6
<1> QED
  BY <1>1, <1>2, <1>3 DEF Sound, HasPayload

(* A step of task t leaves every task that has met no fault sound. *)
LEMMA SoundStep ==
    ASSUME AttributionInv, NEW t \in Tasks, Step(t), NEW s \in Tasks,
           Current(s) \notin faulted => Sound(s), Current(s)' \notin faulted'
    PROVE  Sound(s)'
<1>0. TypeOK
  BY DEF AttributionInv
<1>1. CASE s # t
  <2>1. Same(s) /\ Msg(s)' = Msg(s) /\ Grows
    BY <1>0, <1>1, StepFrame, OthersMessage, StepGrows
  <2>2. Current(s)' = Current(s)
    BY <2>1 DEF Same, Current
  <2> QED
    BY <1>0, <2>1, <2>2, FaultsKept, SoundFrame
<1>2. CASE s = t /\ (pc[t] \in Idle \/ pc'[t] \in Idle)
  <2>1. pc'[t] \in Idle \cup {"get"}
    BY <1>0, <1>2, Targets DEF Step, GetPayload, CreatePayload, RegetPayload, ResolveColumns, AddName,
       RecheckName, RefreshName, InsertStatus, CheckPartition, CreateTable
  <2> QED
    BY <1>2, <2>1 DEF Sound, Naming, Storing
<1>3. CASE s = t /\ pc[t] \notin Idle /\ pc'[t] \notin Idle
  <2>1. Current(t)' = Current(t)
    BY <1>0, <1>3, MessageKept DEF Current
  <2>2. Sound(t) /\ ~Fault(Current(t))
    BY <1>0, <1>3, <2>1, FaultsKept DEF Fault
  <2>3. ~(TakeMessage(t) \/ EndOfBatch(t))
    BY <1>3 DEF TakeMessage, EndOfBatch
  <2> QED
    BY <1>0, <1>3, <2>2, <2>3, SoundPayload, SoundNames, SoundStore DEF Step
<1> QED
  BY <1>1, <1>2, <1>3

LEMMA UnfaultedStep ==
    ASSUME AttributionInv, UnfaultedInv, NEW t \in Tasks, Step(t)
    PROVE  UnfaultedInv'
BY SoundParts, SoundStep

(* A step gives one verdict at most, and to a good message only an error of a *)
(* failing step or the success of one that stores a row.                      *)
LEMMA NewVerdict ==
    ASSUME TypeOK, NEW t \in Tasks, Step(t), NEW s \in Tasks, NEW i \in DOMAIN batch[s],
           verdict'[s][i] # verdict[s][i], batch[s][i].kind = "good"
    PROVE  /\ s = t /\ i = idx[t]
           /\ \/ verdict'[s][i] = "error" /\ Fails(t)
              \/ verdict'[s][i] = "success" /\ Stores(t)
<1>1. CASE Fails(t)
  <2>1. idx[t] <= Len(batch[t]) /\ Finish(t, "error") /\ "error" \in Verdicts
    BY <1>1, AtMessage DEF Fails, Fail, Verdicts
  <2>2. verdict'[s][i] = IF s = t /\ i = idx[t] THEN "error" ELSE verdict[s][i]
    BY <2>1, FinishEffect
  <2>3. s = t /\ i = idx[t] /\ verdict'[s][i] = "error"
    BY <2>2
  <2> QED
    BY <1>1, <2>3
<1>2. CASE Stores(t)
  <2>1. idx[t] <= Len(batch[t]) /\ Finish(t, "success") /\ "success" \in Verdicts
    BY <1>2, AtMessage DEF Stores, Verdicts
  <2>2. verdict'[s][i] = IF s = t /\ i = idx[t] THEN "success" ELSE verdict[s][i]
    BY <2>1, FinishEffect
  <2>3. s = t /\ i = idx[t] /\ verdict'[s][i] = "success"
    BY <2>2
  <2> QED
    BY <1>2, <2>3
<1>3. CASE TakeMessage(t)
  <2>1. ASSUME NEW v \in {"ignored", "error"}, Finish(t, v), Msg(t).kind # "good" PROVE FALSE
    <3>1. verdict'[s][i] = IF s = t /\ i = idx[t] THEN v ELSE verdict[s][i]
      BY <1>3, <2>1, FinishEffect DEF Verdicts, TakeMessage
    <3> QED
      BY <2>1, <3>1 DEF Msg
  <2>2. verdict' # verdict
    OBVIOUS
  <2> QED
    BY <1>3, <2>1, <2>2 DEF TakeMessage, Goto, Ignored
<1>4. ~Moves(t)
  BY DEF Moves
<1> QED
  BY <1>1, <1>2, <1>3, <1>4, StepShape

LEMMA IsolationStep ==
    ASSUME AttributionInv, UnfaultedInv, FaultIsolation, NEW t \in Tasks, Step(t)
    PROVE  FaultIsolation'
<1>0. TypeOK /\ UNCHANGED batch /\ faulted \subseteq faulted'
  BY StepShape, FaultsKept DEF AttributionInv
<1> SUFFICES ASSUME NEW s \in Tasks, NEW i \in DOMAIN batch[s],
                    verdict'[s][i] = "error", batch[s][i].kind = "good"
             PROVE  <<s, i>> \in faulted'
  BY <1>0 DEF FaultIsolation
<1>1. CASE verdict'[s][i] = verdict[s][i]
  BY <1>0, <1>1 DEF FaultIsolation
<1>2. CASE verdict'[s][i] # verdict[s][i]
  <2>1. s = t /\ i = idx[t] /\ Fails(t)
    BY <1>0, <1>2, NewVerdict
  <2> QED
    BY <2>1, SoundParts, FailsFaulted DEF Current
<1> QED
  BY <1>1, <1>2

(* A step that is no task's leaves every task as it is. *)
LEMMA OtherFrame ==
    ASSUME TypeOK, [Next]_vars, ~\E t \in Tasks : Step(t)
    PROVE  /\ UNCHANGED <<batch, verdict>> /\ Grows /\ faulted \subseteq faulted'
           /\ \A s \in Tasks : Same(s) /\ Msg(s)' = Msg(s) /\ Current(s)' = Current(s)
<1>0. UNCHANGED <<batch, idx, pc, col, try, sps, snapshot, verdict>>
  BY OtherSteps DEF taskVars, logVars
<1>1. Grows /\ faulted \subseteq faulted'
  <2>1. ASSUME NEW u \in updates, RunUpdate(u) PROVE Grows /\ faulted \subseteq faulted'
    BY <2>1, UpdateGrows DEF RunUpdate, Fault, NoFault, faultVars
  <2>2. CASE UNCHANGED vars
    <3>1. nextId \in [Tables -> Nat] /\ \A p \in payloads : SamePayload(p, p)
      BY DEF TypeOK, SamePayload
    <3> QED
      BY <2>2, <3>1 DEF Grows, vars, dbVars, faultVars
  <2> QED
    BY <2>1, <2>2 DEF Next, Terminated
<1>2. \A s \in Tasks : Same(s) /\ Msg(s)' = Msg(s) /\ Current(s)' = Current(s)
  BY <1>0 DEF Same, Msg, Current
<1> QED
  BY <1>0, <1>1, <1>2

LEMMA IsolationOther ==
    ASSUME AttributionInv, UnfaultedInv, FaultIsolation, [Next]_vars, ~\E t \in Tasks : Step(t)
    PROVE  UnfaultedInv' /\ FaultIsolation'
<1>0. TypeOK
  BY DEF AttributionInv
<1>1. \A s \in Tasks : Current(s)' \notin faulted' => Sound(s)'
  BY <1>0, OtherFrame, SoundParts, SoundFrame
<1>2. FaultIsolation'
  BY <1>0, OtherFrame DEF FaultIsolation
<1> QED
  BY <1>1, <1>2, SoundParts

(***************************************************************************)
(* For any number of processes, coroutines, messages and failures: a good  *)
(* message becomes an error only if a database call made for it failed.    *)
(***************************************************************************)
THEOREM FaultIsolationAlways == Spec => []FaultIsolation
<1> DEFINE Inv == AttributionInv /\ UnfaultedInv /\ FaultIsolation
<1>1. Init => Inv
  <2> SUFFICES ASSUME Init PROVE UnfaultedInv /\ FaultIsolation
    BY AttributionInit
  <2>1. UnfaultedInv
    BY DEF Init, UnfaultedInv, Naming, Storing
  <2>2. FaultIsolation
    BY InitType, BatchType DEF Init, FaultIsolation
  <2> QED
    BY <2>1, <2>2
<1>2. Inv /\ [Next]_vars => Inv'
  <2> SUFFICES ASSUME Inv, [Next]_vars PROVE Inv'
    OBVIOUS
  <2>1. AttributionInv'
    BY AttributionNext
  <2>2. CASE \E t \in Tasks : Step(t)
    BY <2>1, <2>2, UnfaultedStep, IsolationStep
  <2>3. CASE ~\E t \in Tasks : Step(t)
    BY <2>1, <2>3, IsolationOther
  <2> QED
    BY <2>2, <2>3
<1>3. Inv => FaultIsolation
  OBVIOUS
<1> HIDE DEF Inv
<1> QED
  BY <1>1, <1>2, <1>3, PTL DEF Spec

-----------------------------------------------------------------------------
(* The columns of a payload: where they come from, and that they stay. *)

(* A step keeps the payloads and the UPDATEs under way; a new payload is that *)
(* of the task's message, a new UPDATE supplies what a known payload lacks.   *)
LEMMA ColumnEffects ==
    ASSUME TypeOK, NEW t \in Tasks, Step(t)
    PROVE  /\ payloads' = payloads \/ payloads' = payloads \cup {NewPayload(t)}
           /\ pc[t] \in {"get", "reget", "create"} \/ UNCHANGED <<payloads, updates>>
           /\ \/ updates' = updates
              \/ UNCHANGED payloads /\ \E p \in Known(t) : UsePayload(t, p)
<1>1. payloads' = payloads \/ payloads' = payloads \cup {NewPayload(t)}
  BY TableEffects DEF Creates, Adds
<1>2. CASE GetPayload(t) \/ RegetPayload(t)
  <2>1. updates' = updates \/ \E p \in Known(t) : UsePayload(t, p)
    BY <1>2, Zenon DEF GetPayload, RegetPayload
  <2>2. pc[t] \in {"get", "reget"} /\ UNCHANGED payloads
    BY <1>2 DEF GetPayload, RegetPayload, dbVars
  <2> QED
    BY <2>1, <2>2
<1>3. CASE CreatePayload(t)
  BY <1>1, <1>3 DEF CreatePayload, memVars
<1>4. CASE ~(GetPayload(t) \/ RegetPayload(t) \/ CreatePayload(t))
  BY <1>4 DEF Step, TakeMessage, EndOfBatch, ResolveColumns, AddName, RecheckName, RefreshName,
              InsertStatus, CheckPartition, CreateTable, dbVars, memVars
<1> QED
  BY <1>1, <1>2, <1>3, <1>4

(* The UPDATE that a task spawns for its message when it knows payload p. *)
NewUpdate(t, p) ==
    [task |-> t, pos |-> idx[t], request_id |-> Msg(t).request_id, attrs |-> Supplied(t, p)]

LEMMA UpdateSpawned ==
    ASSUME NEW t \in Tasks, NEW p \in Known(t), UsePayload(t, p)
    PROVE  /\ updates \subseteq updates'
           /\ \A u \in updates' : u \in updates \/ u = NewUpdate(t, p)
           /\ (\E a \in Attrs : Supplied(t, p)[a] # None) => NewUpdate(t, p) \in updates'
<1>1. CASE \A a \in Attrs : Supplied(t, p)[a] = None
  BY <1>1 DEF UsePayload
<1>2. CASE ~\A a \in Attrs : Supplied(t, p)[a] = None
  <2>1. updates' = updates \cup {NewUpdate(t, p)}
    BY <1>2 DEF UsePayload, NewUpdate
  <2> QED
    BY <2>1
<1> QED
  BY <1>1, <1>2

(* The part of UpdatesInv about one UPDATE. *)
OwnUpdate(u) ==
    /\ u.pos \in DOMAIN batch[u.task]
    /\ u.request_id = batch[u.task][u.pos].request_id
    /\ \A a \in Attrs : u.attrs[a] \in {None, batch[u.task][u.pos].attrs[a]}
    /\ \E p \in payloads : p.request_id = u.request_id

LEMMA OwnParts ==
    /\ UpdatesInv <=> \A u \in updates : OwnUpdate(u)
    /\ UpdatesInv' <=> \A u \in updates' : OwnUpdate(u)'
BY DEF UpdatesInv, OwnUpdate

LEMMA OwnFrame ==
    ASSUME Grows, UNCHANGED batch, NEW u, OwnUpdate(u)
    PROVE  OwnUpdate(u)'
BY DEF OwnUpdate, Grows, SamePayload

LEMMA NewUpdateOwn ==
    ASSUME TypeOK, NEW t \in Tasks, pc[t] \notin Idle, NEW p \in Known(t)
    PROVE  OwnUpdate(NewUpdate(t, p))
<1>1. idx[t] \in DOMAIN batch[t]
  BY AtMessage, BatchType
<1>2. p \in payloads /\ p.request_id = Msg(t).request_id
  BY DEF Known
<1>3. \A a \in Attrs : Supplied(t, p)[a] \in {None, Msg(t).attrs[a]}
  BY DEF Supplied
<1> QED
  BY <1>1, <1>2, <1>3 DEF NewUpdate, OwnUpdate, Msg

LEMMA UpdatesStep ==
    ASSUME TypeOK, UpdatesInv, NEW t \in Tasks, Step(t)
    PROVE  UpdatesInv'
<1> SUFFICES ASSUME NEW u \in updates' PROVE OwnUpdate(u)'
  BY OwnParts
<1>1. Grows /\ UNCHANGED batch
  BY StepGrows, StepShape
<1>2. CASE u \in updates
  BY <1>1, <1>2, OwnParts, OwnFrame
<1>3. CASE u \notin updates
  <2>1. PICK p \in Known(t) : UsePayload(t, p)
    BY <1>3, ColumnEffects
  <2>2. u = NewUpdate(t, p)
    BY <1>3, <2>1, UpdateSpawned
  <2>3. pc[t] \notin Idle
    BY <1>3, ColumnEffects
  <2> QED
    BY <1>1, <2>2, <2>3, NewUpdateOwn, OwnFrame
<1> QED
  BY <1>2, <1>3

(* A value in column a of a payload of request r comes from a message of r. *)
FromMessage(r, a, v) ==
    \E t \in Tasks : \E i \in DOMAIN batch[t] :
        batch[t][i].request_id = r /\ batch[t][i].attrs[a] = v

FromMessages(p) == \A a \in Attrs : p.attrs[a] # None => FromMessage(p.request_id, a, p.attrs[a])

LEMMA PayloadsParts ==
    /\ TablesInv => (PayloadsAttributed <=> \A p \in payloads : FromMessages(p))
    /\ TablesInv' => (PayloadsAttributed' <=> \A p \in payloads' : FromMessages(p)')
BY DEF TablesInv, PayloadsAttributed, FromMessages, FromMessage

LEMMA FromFrame == ASSUME UNCHANGED batch, NEW p, FromMessages(p) PROVE FromMessages(p)'
BY DEF FromMessages, FromMessage

LEMMA PayloadsStep ==
    ASSUME TypeOK, TablesInv, TablesInv', PayloadsAttributed, NEW t \in Tasks, Step(t)
    PROVE  PayloadsAttributed'
<1> SUFFICES ASSUME NEW p \in payloads' PROVE FromMessages(p)'
  BY PayloadsParts
<1>1. UNCHANGED batch
  BY StepShape
<1>2. CASE p \in payloads
  BY <1>1, <1>2, PayloadsParts, FromFrame
<1>3. CASE p \notin payloads
  <2>1. p = NewPayload(t) /\ pc[t] \notin Idle
    BY <1>3, ColumnEffects
  <2>2. idx[t] \in DOMAIN batch[t]
    BY <2>1, AtMessage, BatchType
  <2>3. FromMessages(p)
    BY <2>1, <2>2 DEF NewPayload, Msg, FromMessages, FromMessage
  <2> QED
    BY <1>1, <2>3, FromFrame
<1> QED
  BY <1>2, <1>3

LEMMA PayloadsUpdate ==
    ASSUME TypeOK, TablesInv, TablesInv', PayloadsAttributed, UpdatesInv, NEW u \in updates, RunUpdate(u)
    PROVE  PayloadsAttributed'
<1> SUFFICES ASSUME NEW q \in payloads' PROVE FromMessages(q)'
  BY PayloadsParts
<1>1. UNCHANGED batch /\ u \in Update
  BY DEF RunUpdate, taskVars, TypeOK
<1>2. ASSUME NEW p \in payloads PROVE FromMessages(Updated(u, p))
  <2>1. FromMessages(p) /\ OwnUpdate(u)
    BY PayloadsParts, OwnParts
  <2>2. CASE p.request_id # u.request_id
    BY <2>1, <2>2 DEF Updated
  <2>3. CASE p.request_id = u.request_id
    <3> SUFFICES ASSUME NEW a \in Attrs, Updated(u, p).attrs[a] # None
                 PROVE  FromMessage(p.request_id, a, Updated(u, p).attrs[a])
      BY <1>1, UpdatedType DEF FromMessages, TypeOK
    <3>1. Updated(u, p).attrs[a] = IF u.attrs[a] = None THEN p.attrs[a] ELSE u.attrs[a]
      BY <1>1, <2>3 DEF Updated, TypeOK, PayloadRow
    <3>2. CASE u.attrs[a] = None
      BY <2>1, <3>1, <3>2 DEF FromMessages
    <3>3. CASE u.attrs[a] # None
      BY <1>1, <2>1, <2>3, <3>1, <3>3 DEF OwnUpdate, FromMessage, Update
    <3> QED
      BY <3>2, <3>3
  <2> QED
    BY <2>2, <2>3
<1>3. \E p \in payloads : q = p \/ q = Updated(u, p)
  BY UpdatePayloads
<1>4. FromMessages(q)
  BY <1>2, <1>3, PayloadsParts
<1> QED
  BY <1>1, <1>4, FromFrame

LEMMA UpdatesUpdate ==
    ASSUME TypeOK, UpdatesInv, NEW u \in updates, RunUpdate(u)
    PROVE  UpdatesInv'
<1>1. updates' \subseteq updates /\ UNCHANGED batch /\ Grows
  BY UpdateGrows DEF RunUpdate, taskVars
<1> QED
  BY <1>1, OwnParts, OwnFrame

-----------------------------------------------------------------------------
(* What a message supplies is stored, or the message's own UPDATE will do it. *)
LEMMA StoredFrame ==
    ASSUME payloads \subseteq payloads', updates \subseteq updates', UNCHANGED batch,
           NEW s, NEW i, NEW a, ColumnStored(s, i, a)
    PROVE  ColumnStored(s, i, a)'
BY DEF ColumnStored

LEMMA StoredStart ==
    ASSUME TypeOK, NEW t \in Tasks, Step(t), Sound(t), ~Fault(Current(t)),
           pc[t] \notin Idle, pc[t] \notin Naming, pc'[t] \in Naming,
           NEW i, i = idx[t], NEW a \in Attrs, batch[t][i].attrs[a] # None
    PROVE  ColumnStored(t, i, a)'
<1>0. UNCHANGED batch
  BY StepShape
<1>1. pc[t] \in {"get", "create", "reget"}
  BY DEF TypeOK, Locations, Naming, Storing
<1>2. GetPayload(t) \/ CreatePayload(t) \/ RegetPayload(t)
  BY <1>1 DEF Step, TakeMessage, EndOfBatch, ResolveColumns, AddName, RecheckName, RefreshName,
              InsertStatus, CheckPartition, CreateTable
<1>3. pc'[t] = "column"
  BY <1>2, Targets DEF Naming, Storing
<1>4. \A loc : Goto(t, loc) => loc = "column"
  BY <1>3 DEF Goto, TypeOK
<1>5. ~Fail(t)
  BY <1>3 DEF Fail, Finish, TypeOK
<1>6. ASSUME NEW p \in Known(t), UsePayload(t, p), UNCHANGED payloads
      PROVE  ColumnStored(t, i, a)'
  <2>1. p \in payloads' /\ p.request_id = batch[t][i].request_id
    BY <1>6 DEF Known, Msg
  <2>2. CASE p.attrs[a] # None
    BY <1>0, <2>1, <2>2 DEF ColumnStored
  <2>3. CASE p.attrs[a] = None
    <3>1. Supplied(t, p)[a] = Msg(t).attrs[a]
      BY <2>3 DEF Supplied
    <3>2. NewUpdate(t, p) \in updates'
      BY <1>6, <3>1, UpdateSpawned DEF Msg
    <3> QED
      BY <3>1, <3>2 DEF NewUpdate, Msg, ColumnStored
  <2> QED
    BY <2>2, <2>3
<1>7. CASE GetPayload(t) \/ RegetPayload(t)
  <2>1. \/ \E p \in Known(t) : UsePayload(t, p)
        \/ Known(t) = {} /\ RegetPayload(t)
    BY <1>4, <1>5, <1>7, Zenon DEF GetPayload, RegetPayload
  <2>2. RegetPayload(t) => Known(t) # {}
    BY DEF Sound, RegetPayload
  <2>3. UNCHANGED payloads
    BY <1>7 DEF GetPayload, RegetPayload, dbVars
  <2> QED
    BY <1>6, <2>1, <2>2, <2>3
<1>8. CASE CreatePayload(t)
  <2>1. payloads' = payloads \cup {NewPayload(t)}
    BY <1>4, <1>8, Zenon DEF CreatePayload, NewPayload
  <2>2. /\ NewPayload(t) \in payloads'
        /\ NewPayload(t).request_id = batch[t][i].request_id
        /\ NewPayload(t).attrs[a] # None
    BY <2>1 DEF NewPayload, Msg
  <2> QED
    BY <1>0, <2>2 DEF ColumnStored
<1> QED
  BY <1>2, <1>7, <1>8

LEMMA ColumnsStep ==
    ASSUME AttributionInv, PositionInv, UnfaultedInv, ColumnsInv, NEW t \in Tasks, Step(t)
    PROVE  ColumnsInv'
<1>0. TypeOK /\ UNCHANGED batch /\ faulted \subseteq faulted'
  BY StepShape, FaultsKept DEF AttributionInv
<1> SUFFICES ASSUME NEW s \in Tasks, NEW i \in DOMAIN batch[s], NEW a \in Attrs,
                    verdict'[s][i] = "success" \/ (i = idx'[s] /\ pc'[s] \in Naming),
                    batch[s][i].attrs[a] # None, <<s, i>> \notin faulted'
             PROVE  ColumnStored(s, i, a)'
  BY <1>0 DEF ColumnsInv
<1>1. payloads \subseteq payloads' /\ updates \subseteq updates'
  BY <1>0, ColumnEffects, UpdateSpawned
<1>2. CASE verdict[s][i] = "success" \/ (i = idx[s] /\ pc[s] \in Naming)
  BY <1>0, <1>1, <1>2, StoredFrame DEF ColumnsInv
<1>3. CASE verdict[s][i] # "success" /\ verdict'[s][i] = "success"
  <2>1. i = idx[s] /\ s = t /\ Stores(t)
    <3>1. CASE Fails(t)
      <4>1. idx[t] <= Len(batch[t]) /\ Finish(t, "error") /\ "error" \in Verdicts
        BY <1>0, <3>1, AtMessage DEF Fails, Fail, Verdicts
      <4> QED
        BY <1>0, <1>3, <4>1, FinishEffect
    <3>2. CASE Stores(t)
      <4>1. idx[t] <= Len(batch[t]) /\ Finish(t, "success") /\ "success" \in Verdicts
        BY <1>0, <3>2, AtMessage DEF Stores, Verdicts
      <4> QED
        BY <1>0, <1>3, <3>2, <4>1, FinishEffect
    <3>3. CASE TakeMessage(t)
      <4>1. ASSUME NEW v \in {"ignored", "error"}, Finish(t, v) PROVE FALSE
        BY <1>0, <1>3, <3>3, <4>1, FinishEffect DEF Verdicts, TakeMessage
      <4> QED
        BY <1>3, <3>3, <4>1 DEF TakeMessage, Goto
    <3>4. ~Moves(t)
      BY <1>3 DEF Moves
    <3> QED
      BY <1>0, <3>1, <3>2, <3>3, <3>4, StepShape
  <2> QED
    BY <1>2, <2>1 DEF Stores, Naming, Storing
<1>4. CASE i = idx'[s] /\ pc'[s] \in Naming /\ ~(i = idx[s] /\ pc[s] \in Naming)
  <2>1. s = t
    BY <1>0, <1>4, StepFrame DEF Same
  <2>2. pc[t] \notin Idle /\ pc'[t] \notin Idle
    <3>1. pc[t] \in Idle => pc'[t] \in Idle \cup {"get"}
      BY <1>0, Targets DEF Step, GetPayload, CreatePayload, RegetPayload, ResolveColumns, AddName,
         RecheckName, RefreshName, InsertStatus, CheckPartition, CreateTable
    <3> QED
      BY <1>4, <2>1, <3>1 DEF Naming, Storing
  <2>3. idx'[t] = idx[t]
    BY <1>0, <2>2, MessageKept
  <2>4. Sound(t) /\ ~Fault(Current(t))
    BY <1>0, <1>4, <2>1, <2>3, SoundParts DEF Current, Fault
  <2> QED
    BY <1>0, <1>4, <2>1, <2>2, <2>3, <2>4, StoredStart DEF Msg
<1> QED
  BY <1>2, <1>3, <1>4

LEMMA ColumnsUpdate ==
    ASSUME TypeOK, UpdatesInv, ColumnsInv, NEW u \in updates, RunUpdate(u)
    PROVE  ColumnsInv'
<1>0. /\ UNCHANGED <<batch, idx, pc, verdict>> /\ faulted \subseteq faulted'
      /\ updates' = updates \ {u} /\ u \in Update
  BY DEF RunUpdate, taskVars, logVars, Fault, NoFault, faultVars, TypeOK
<1> SUFFICES ASSUME NEW s \in Tasks, NEW i \in DOMAIN batch[s], NEW a \in Attrs,
                    ColumnStored(s, i, a), <<s, i>> \notin faulted'
             PROVE  ColumnStored(s, i, a)'
  BY <1>0 DEF ColumnsInv
<1>1. ASSUME NEW p \in payloads
      PROVE  /\ Updated(u, p).request_id = p.request_id
             /\ p.attrs[a] # None => Updated(u, p).attrs[a] # None
             /\ p.request_id = u.request_id /\ u.attrs[a] # None => Updated(u, p).attrs[a] # None
  BY <1>0 DEF TypeOK, PayloadRow, Updated
<1>2. CASE \E p \in payloads : p.request_id = batch[s][i].request_id /\ p.attrs[a] # None
  <2>1. PICK p \in payloads : p.request_id = batch[s][i].request_id /\ p.attrs[a] # None
    BY <1>2
  <2>2. p \in payloads' \/ Updated(u, p) \in payloads'
    BY UpdatePayloads
  <2> QED
    BY <1>0, <1>1, <2>1, <2>2 DEF ColumnStored
<1>3. CASE \E v \in updates : v.task = s /\ v.pos = i /\ v.attrs[a] # None /\ v # u
  BY <1>0, <1>3 DEF ColumnStored
<1>4. CASE u.task = s /\ u.pos = i /\ u.attrs[a] # None
  <2>1. payloads' = {Updated(u, p) : p \in payloads}
    BY <1>4 DEF RunUpdate, Fault
  <2>2. OwnUpdate(u)
    BY OwnParts
  <2>3. PICK p \in payloads : p.request_id = u.request_id
    BY <2>2 DEF OwnUpdate
  <2>4. u.request_id = batch[s][i].request_id
    BY <1>4, <2>2 DEF OwnUpdate
  <2> QED
    BY <1>0, <1>1, <1>4, <2>1, <2>3, <2>4 DEF ColumnStored
<1> QED
  BY <1>2, <1>3, <1>4 DEF ColumnStored

-----------------------------------------------------------------------------
(* The invariant of the whole pipeline. *)
LEMMA IInvInit == Init => IInv
<1> SUFFICES ASSUME Init PROVE IInv
  OBVIOUS
<1>1. AttributionInv /\ UnfaultedInv
  BY AttributionInit DEF Init, UnfaultedInv, Naming, Storing
<1>2. PositionInv
  BY InitType, BatchType DEF Init, PositionInv
<1>3. UpdatesInv /\ PayloadsAttributed
  BY <1>1 DEF Init, AttributionInv, UpdatesInv, PayloadsAttributed
<1>4. ColumnsInv
  BY InitType, BatchType DEF Init, ColumnsInv, Naming, Storing
<1> QED
  BY <1>1, <1>2, <1>3, <1>4 DEF IInv

LEMMA IInvNext == IInv /\ [Next]_vars => IInv'
<1> SUFFICES ASSUME IInv, [Next]_vars PROVE IInv'
  OBVIOUS
<1> USE DEF IInv
<1>1. AttributionInv' /\ TypeOK /\ TablesInv /\ TablesInv'
  BY AttributionNext DEF AttributionInv
<1>2. CASE \E t \in Tasks : Step(t)
  BY <1>1, <1>2, PositionStep, UnfaultedStep, UpdatesStep, ColumnsStep, PayloadsStep
<1>3. ASSUME NEW u \in updates, RunUpdate(u) PROVE IInv'
  <2>1. UpdatesInv' /\ ColumnsInv' /\ PayloadsAttributed'
    BY <1>1, <1>3, UpdatesUpdate, ColumnsUpdate, PayloadsUpdate
  <2>2. PositionInv'
    BY <1>3 DEF RunUpdate, taskVars, logVars, PositionInv
  <2>3. UnfaultedInv'
    <3>1. Grows /\ faulted \subseteq faulted'
      BY <1>1, <1>3, UpdateGrows DEF RunUpdate, Fault, NoFault, faultVars
    <3>2. \A s \in Tasks : Same(s) /\ Msg(s)' = Msg(s) /\ Current(s)' = Current(s)
      BY <1>3 DEF RunUpdate, taskVars, Same, Msg, Current
    <3> QED
      BY <1>1, <3>1, <3>2, SoundParts, SoundFrame
  <2> QED
    BY <1>1, <2>1, <2>2, <2>3
<1>4. CASE UNCHANGED vars
  <2>1. PositionInv' /\ UpdatesInv' /\ PayloadsAttributed'
    BY <1>1, <1>4 DEF vars, dbVars, memVars, taskVars, logVars, PositionInv, UpdatesInv, PayloadsAttributed
  <2>2. ColumnsInv'
    BY <1>4 DEF vars, dbVars, memVars, taskVars, logVars, faultVars, ColumnsInv, ColumnStored
  <2>3. UnfaultedInv'
    BY <1>4 DEF vars, dbVars, memVars, taskVars, faultVars, UnfaultedInv, Current, Known, Msg, Name, Column
  <2> QED
    BY <1>1, <2>1, <2>2, <2>3
<1> QED
  BY <1>2, <1>3, <1>4 DEF Next, Terminated

(***************************************************************************)
(* The invariant that ties the tables, the memory of the processes, the    *)
(* locals of the tasks and the UPDATEs under way together always holds.    *)
(***************************************************************************)
THEOREM IInvAlways == Spec => []IInv
BY IInvInit, IInvNext, PTL DEF Spec

(***************************************************************************)
(* However coroutines race to create and update a payload or a name, the   *)
(* tables keep one row per id and per request or name, no id is ahead of   *)
(* its sequence, and the columns of a payload hold only what messages of   *)
(* its own request supplied.                                               *)
(***************************************************************************)
THEOREM PayloadsAttributedAlways == Spec => []PayloadsAttributed
<1>1. IInv => PayloadsAttributed
  BY DEF IInv
<1> QED
  BY <1>1, IInvAlways, PTL

(***************************************************************************)
(* A column that an undisturbed success supplied is stored, or an UPDATE   *)
(* that will store it is under way: no interleaving of the unawaited       *)
(* UPDATEs with other coroutines loses it.                                 *)
(***************************************************************************)
THEOREM AttrsKeptAlways == Spec => []AttrsKept
<1>1. IInv => AttrsKept
  <2> SUFFICES ASSUME IInv, NEW t \in Tasks, NEW i \in DOMAIN batch[t], NEW a \in Attrs,
                      ColumnStored(t, i, a)
               PROVE  \/ \E p \in payloads : p.request_id = batch[t][i].request_id /\ p.attrs[a] # None
                      \/ \E u \in updates : u.request_id = batch[t][i].request_id /\ u.attrs[a] # None
    BY DEF IInv, ColumnsInv, AttrsKept
  <2> QED
    BY OwnParts DEF IInv, OwnUpdate, ColumnStored
<1> QED
  BY <1>1, IInvAlways, PTL

LEMMA SettledStep ==
    ASSUME AttributionInv, NEW t \in Tasks, Step(t), NEW p \in payloads, NEW a \in Attrs, Settled(p, a)
    PROVE  p \in payloads' /\ Settled(p, a)'
<1>1. TypeOK /\ p \in payloads'
  BY ColumnEffects DEF AttributionInv
<1>2. ASSUME NEW u \in updates', u.request_id = p.request_id PROVE u.attrs[a] = None
  <2>1. CASE u \in updates
    BY <1>2, <2>1 DEF Settled
  <2>2. CASE u \notin updates
    <3>1. PICK q \in Known(t) : UsePayload(t, q)
      BY <1>1, <2>2, ColumnEffects
    <3>2. u = NewUpdate(t, q)
      BY <2>2, <3>1, UpdateSpawned
    <3>3. q = p
      BY <1>2, <3>2 DEF NewUpdate, Known, AttributionInv, TablesInv
    <3> QED
      BY <3>2, <3>3 DEF NewUpdate, Supplied, Settled
  <2> QED
    BY <2>1, <2>2
<1> QED
  BY <1>1, <1>2 DEF Settled

LEMMA SettledUpdate ==
    ASSUME TypeOK, NEW u \in updates, RunUpdate(u), NEW p \in payloads, NEW a \in Attrs, Settled(p, a)
    PROVE  \E q \in payloads' : q.id = p.id /\ q.attrs[a] = p.attrs[a] /\ Settled(q, a)'
<1>1. updates' \subseteq updates /\ u \in Update /\ p \in PayloadRow
  BY DEF RunUpdate, TypeOK
<1>2. PICK q \in {p, Updated(u, p)} : q \in payloads'
  BY UpdatePayloads
<1>3. q.id = p.id /\ q.request_id = p.request_id
  BY <1>1, UpdatedType
<1>4. q.attrs[a] = p.attrs[a]
  BY <1>1 DEF Updated, PayloadRow, Settled
<1> QED
  BY <1>1, <1>2, <1>3, <1>4 DEF Settled

(***************************************************************************)
(* Only missing columns are updated: once a payload has a value in a       *)
(* column and no older UPDATE of it is pending, no step of any coroutine   *)
(* changes or unsettles it.                                                *)
(***************************************************************************)
THEOREM ColumnsSettle == Spec => SettledColumns
<1>1. AttributionInv /\ [Next]_vars =>
        [\A p \in payloads : \A a \in Attrs :
            Settled(p, a) => \E q \in payloads' :
                q.id = p.id /\ q.attrs[a] = p.attrs[a] /\ Settled(q, a)']_vars
  <2> SUFFICES ASSUME AttributionInv, Next, NEW p \in payloads, NEW a \in Attrs, Settled(p, a),
                      vars' # vars
               PROVE  \E q \in payloads' : q.id = p.id /\ q.attrs[a] = p.attrs[a] /\ Settled(q, a)'
    OBVIOUS
  <2>1. CASE \E t \in Tasks : Step(t)
    BY <2>1, SettledStep
  <2>2. CASE \E u \in updates : RunUpdate(u)
    BY <2>2, SettledUpdate DEF AttributionInv
  <2> QED
    BY <2>1, <2>2 DEF Next, Terminated
<1> QED
  BY <1>1, AttributionInit, AttributionNext, PTL DEF Spec, SettledColumns
=============================================================================
