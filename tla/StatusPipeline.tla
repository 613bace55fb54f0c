--------------------------- MODULE StatusPipeline ---------------------------
(***************************************************************************)
(* process_payload_status (app.py) as it runs with USE_REDIS=false, the    *)
(* deployed default: coroutines of several tracker processes that each     *)
(* work through a batch of Kafka messages and write to one PostgreSQL      *)
(* database.  A step is the code between two awaits; a statement or a      *)
(* one-statement transaction takes effect atomically in the database.      *)
(***************************************************************************)
EXTENDS Integers, Sequences

CONSTANTS
    Tasks,       \* the process_payload_status coroutines
    Processes,   \* the tracker processes, each with its own cached_values
    Home,        \* Home[t] is the process in which task t runs
    RequestIds, Names, Values, Days,
    Attrs,       \* the optional columns: inventory_id, system_id, account
    Batches,     \* the batches that consume may hand to a task
    Seeded,      \* Seeded[c]: the rows that name table c holds at start-up
    SeedTop,     \* the value to which the migrations set the id sequences
    OpenDays,    \* the days whose partition exists at start-up
    None,        \* an absent value
    MaxFaults    \* bound on the number of failed database calls

\* The columns in the order in which the loop at app.py:205 resolves them.
ColumnOrder == <<"service", "source", "status">>
Columns == {"service", "source", "status"}
Tables == Columns \cup {"payloads"}

NoId == 0
Ids == Nat \ {NoId}

(* What a Kafka value is to the validation at the top of the loop.  One that   *)
(* is not_an_object is truthy JSON whose items are no keys of it (a number, a  *)
(* string, ["a"]); the list [0] has its own item for a key and goes on to have *)
(* missing_keys.  The names of a message are the lower-case ones, its day that *)
(* of its date in UTC.                                                         *)
Ignored == {"undecodable", "falsy", "missing_keys", "no_request_id", "long_request_id"}
Kinds == Ignored \cup {"not_an_object", "bad_date", "good"}

Message == [kind : Kinds,
            request_id : RequestIds,
            name : [Columns -> Names \cup {None}],
            attrs : [Attrs -> Values \cup {None}],
            day : Days]

PayloadRow == [id : Ids, request_id : RequestIds, attrs : [Attrs -> Values \cup {None}]]
NameRow == [id : Ids, name : Names]

ASSUME ConstantsAssumption ==
    /\ Home \in [Tasks -> Processes]
    /\ None \notin Names \cup Values
    /\ Batches \subseteq Seq(Message)
    /\ \A b \in Batches : \A i \in 1..Len(b) :
          b[i].kind = "good" => \A c \in {"service", "status"} : b[i].name[c] # None
    /\ Seeded \in [Columns -> SUBSET NameRow]
    /\ \A c \in Columns : \A r, s \in Seeded[c] :
          r.id <= SeedTop /\ (r.id = s.id <=> r.name = s.name)
    /\ SeedTop \in Nat
    /\ OpenDays \subseteq Days
    /\ MaxFaults \in Nat

VARIABLES
    \* the database
    payloads, names, statuses, partitions,
    nextId,      \* the last value drawn from each id sequence
    \* memory of the processes
    cached,      \* cached[p][c]: cached_values[table] of process p
    updates,     \* UPDATE payloads coroutines spawned with loop.create_task
    \* each task: its batch, position, program counter and locals
    batch, idx, pc, col, try,
    sps,         \* sanitized_payload_status
    snapshot,    \* the rows that the last re-read of a name table returned
    \* metrics, history and the fault budget
    count,       \* MSG_COUNT_BY_PROCESSING_STATUS, by task that incremented it
    verdict,     \* verdict[t][i]: what became of message i of task t
    faults,      \* how many database calls have failed
    faulted      \* <<t, i>>: a call made for message i of task t failed

dbVars == <<payloads, names, statuses, partitions, nextId>>
memVars == <<cached, updates>>
taskVars == <<batch, idx, pc, col, try, sps, snapshot>>
logVars == <<count, verdict>>
faultVars == <<faults, faulted>>
vars == <<dbVars, memVars, taskVars, logVars, faultVars>>

Locations == {"next", "get", "create", "reget", "column", "add", "recheck",
              "refresh", "insert", "partition", "create_table", "done", "dead"}
Idle == {"next", "done", "dead"}
Verdicts == {"waiting", "ignored", "success", "error"}
MsgCounts == {"consumed", "success", "error"}
EmptySps == [payload_id |-> NoId, ids |-> [c \in Columns |-> NoId]]
StatusRow == [task : Tasks, pos : Ids, try : 1..3,
              payload_id : Ids, ids : [Columns -> Nat], day : Days, acked : BOOLEAN]
Update == [task : Tasks, pos : Ids, request_id : RequestIds, attrs : [Attrs -> Values \cup {None}]]

Msg(t) == batch[t][idx[t]]
Current(t) == <<t, idx[t]>>
Column(t) == ColumnOrder[col[t]]

(***************************************************************************)
(* Start-up: the tables hold what the migrations and earlier messages put  *)
(* there, and update_current_services_and_sources has loaded the names.    *)
(***************************************************************************)
Init ==
    /\ payloads = {} /\ statuses = {} /\ partitions = OpenDays
    /\ names = Seeded
    /\ nextId = [tb \in Tables |-> SeedTop]
    /\ cached = [p \in Processes |-> Seeded]
    /\ updates = {}
    /\ batch \in [Tasks -> Batches]
    /\ idx = [t \in Tasks |-> 1]
    /\ pc = [t \in Tasks |-> "next"]
    /\ col = [t \in Tasks |-> 1]
    /\ try = [t \in Tasks |-> 1]
    /\ sps = [t \in Tasks |-> EmptySps]
    /\ snapshot = [t \in Tasks |-> {}]
    /\ count = [t \in Tasks |-> [k \in MsgCounts |-> 0]]
    /\ verdict = [t \in Tasks |-> [i \in 1..Len(batch[t]) |-> "waiting"]]
    /\ faults = 0 /\ faulted = {}

-----------------------------------------------------------------------------
(* A database call made for message m raises; MaxFaults keeps the model finite. *)
Fault(m) ==
    /\ faults < MaxFaults
    /\ faults' = faults + 1
    /\ faulted' = faulted \cup {m}

NoFault == UNCHANGED faultVars

(* Mutant of Finish: `break` where the code has `continue` after an error. *)
FinishAndBreak(t, v) ==
    /\ verdict' = [verdict EXCEPT ![t][idx[t]] = v]
    /\ idx' = [idx EXCEPT ![t] = IF v = "error" THEN Len(batch[t]) + 1 ELSE @ + 1]
    /\ pc' = [pc EXCEPT ![t] = "next"]

(* The end of the loop body for the current message. *)
Finish(t, v) ==
    /\ verdict' = [verdict EXCEPT ![t][idx[t]] = v]
    /\ idx' = [idx EXCEPT ![t] = @ + 1]
    /\ pc' = [pc EXCEPT ![t] = "next"]

Goto(t, loc) ==
    /\ pc' = [pc EXCEPT ![t] = loc]
    /\ UNCHANGED <<idx, verdict>>

Increment(t, K) ==
    count' = [count EXCEPT ![t] = [k \in MsgCounts |-> IF k \in K THEN @[k] + 1 ELSE @[k]]]

(* app.py:198 and 247: the bare excepts count an error and continue. *)
Fail(t) == Increment(t, {"error"}) /\ Finish(t, "error")

(* Mutant of Reset: sanitized_payload_status is made once, above the loop. *)
KeepSps(t) == UNCHANGED sps

(* sanitized_payload_status starts empty for every message. *)
Reset(t) == sps' = [sps EXCEPT ![t] = EmptySps]

(***************************************************************************)
(* The validation at the top of the loop, up to the first await.  The loop *)
(* over the keys (app.py:104) is outside every try: what raises there ends *)
(* the coroutine.                                                          *)
(***************************************************************************)
TakeMessage(t) ==
    /\ pc[t] = "next"
    /\ idx[t] <= Len(batch[t])
    /\ Reset(t)
    /\ \/ /\ Msg(t).kind \in Ignored
          /\ Finish(t, "ignored")
          /\ UNCHANGED count
       \/ /\ Msg(t).kind = "not_an_object"
          /\ Goto(t, "dead")
          /\ UNCHANGED count
       \/ /\ Msg(t).kind = "bad_date"
          /\ Increment(t, {"consumed", "error"})
          /\ Finish(t, "error")
       \/ /\ Msg(t).kind = "good"
          /\ Increment(t, {"consumed"})
          /\ Goto(t, "get")
    /\ UNCHANGED <<dbVars, memVars, batch, col, try, snapshot, faultVars>>

EndOfBatch(t) ==
    /\ pc[t] = "next"
    /\ idx[t] > Len(batch[t])
    /\ Goto(t, "done")
    /\ UNCHANGED <<dbVars, memVars, batch, col, try, sps, snapshot, count, faultVars>>

-----------------------------------------------------------------------------
(* The payload of the current message, as get_payload() reads it. *)
Known(t) == {p \in payloads : p.request_id = Msg(t).request_id}

(* Mutant of Supplied: the values are not filtered by what the dump holds. *)
SuppliedUnfiltered(t, p) == Msg(t).attrs

(* The columns that the message carries and the stored payload lacks. *)
Supplied(t, p) ==
    [a \in Attrs |-> IF p.attrs[a] = None THEN Msg(t).attrs[a] ELSE None]

(* Mutant of UsePayload: a known payload is not updated. *)
UseIdOnly(t, p) == sps' = [sps EXCEPT ![t].payload_id = p.id] /\ UNCHANGED updates

(* app.py:158: take the stored id and spawn an UPDATE of the missing columns. *)
UsePayload(t, p) ==
    /\ sps' = [sps EXCEPT ![t].payload_id = p.id]
    /\ updates' =
          IF \A a \in Attrs : Supplied(t, p)[a] = None THEN updates
          ELSE updates \cup {[task |-> t, pos |-> idx[t],
                             request_id |-> Msg(t).request_id, attrs |-> Supplied(t, p)]}

StartColumns(t) == col' = [col EXCEPT ![t] = 1] /\ Goto(t, "column")

GetPayload(t) ==
    /\ pc[t] = "get"
    /\ \/ \E p \in Known(t) : UsePayload(t, p) /\ StartColumns(t) /\ NoFault /\ UNCHANGED count
       \/ /\ Known(t) = {}
          /\ Goto(t, "create")
          /\ NoFault /\ UNCHANGED <<updates, sps, col, count>>
       \/ Fault(Current(t)) /\ Fail(t) /\ UNCHANGED <<updates, sps, col>>
    /\ UNCHANGED <<dbVars, cached, batch, try, snapshot>>

(***************************************************************************)
(* app.py:173, one INSERT in a transaction.  The id is assigned to the     *)
(* local when create() returns, before COMMIT, so that a failing COMMIT    *)
(* leaves it set; the client may also lose the answer to a COMMIT that     *)
(* took effect.  Every exception leads to the second get_payload().        *)
(***************************************************************************)
CreatePayload(t) ==
    LET id == nextId["payloads"] + 1
        row == [id |-> id, request_id |-> Msg(t).request_id, attrs |-> Msg(t).attrs]
    IN
    /\ pc[t] = "create"
    /\ nextId' = [nextId EXCEPT !["payloads"] = id]
    /\ \/ /\ Known(t) = {}
          /\ payloads' = payloads \cup {row}
          /\ sps' = [sps EXCEPT ![t].payload_id = id]
          /\ StartColumns(t) /\ NoFault
       \/ /\ Known(t) # {}                          \* UNIQUE (request_id)
          /\ Goto(t, "reget")
          /\ NoFault /\ UNCHANGED <<payloads, sps, col>>
       \/ /\ Fault(Current(t))
          /\ \E returned, committed \in BOOLEAN :
                /\ committed => returned
                /\ returned => Known(t) = {}
                /\ payloads' = IF committed THEN payloads \cup {row} ELSE payloads
                /\ sps' = IF returned THEN [sps EXCEPT ![t].payload_id = id] ELSE sps
          /\ Goto(t, "reget") /\ UNCHANGED col
    /\ UNCHANGED <<names, statuses, partitions, memVars, batch, try, snapshot, count>>

(* Mutant of RegetPayload: a failed INSERT is only logged. *)
SkipReget(t) ==
    /\ pc[t] = "reget" /\ StartColumns(t)
    /\ UNCHANGED <<dbVars, memVars, batch, try, sps, snapshot, count, faultVars>>

(* app.py:183; a request that is still unknown goes on without a new id. *)
RegetPayload(t) ==
    /\ pc[t] = "reget"
    /\ \/ \E p \in Known(t) : UsePayload(t, p) /\ StartColumns(t) /\ NoFault /\ UNCHANGED count
       \/ /\ Known(t) = {}
          /\ StartColumns(t)
          /\ NoFault /\ UNCHANGED <<updates, sps, count>>
       \/ Fault(Current(t)) /\ Fail(t) /\ UNCHANGED <<updates, sps, col>>
    /\ UNCHANGED <<dbVars, cached, batch, try, snapshot>>

(* Mutant of Updated: the UPDATE lacks its WHERE clause. *)
UpdatedAnywhere(u, p) ==
    [p EXCEPT !.attrs = [a \in Attrs |-> IF u.attrs[a] = None THEN p.attrs[a] ELSE u.attrs[a]]]

(* What UPDATE ... WHERE request_id makes of one row. *)
Updated(u, p) ==
    IF p.request_id # u.request_id THEN p
    ELSE [p EXCEPT !.attrs = [a \in Attrs |-> IF u.attrs[a] = None THEN p.attrs[a] ELSE u.attrs[a]]]

(* The spawned UPDATE runs once; when it fails, nothing retries it. *)
RunUpdate(u) ==
    /\ updates' = updates \ {u}
    /\ \/ payloads' = {Updated(u, p) : p \in payloads} /\ NoFault
       \/ Fault(<<u.task, u.pos>>) /\ UNCHANGED payloads
    /\ UNCHANGED <<names, statuses, partitions, nextId, cached, taskVars, logVars>>

-----------------------------------------------------------------------------
Name(t, c) == Msg(t).name[c]

(* A table has a row with the name. *)
Lists(table, name) == \E r \in table : r.name = name

(* Mutant of IdOf: [0] is taken of all rows instead of those with the name. *)
FirstId(table, name) == IF Lists(table, name) THEN (CHOOSE r \in table : TRUE).id ELSE NoId

(* The id under which a table lists a name. *)
IdOf(table, name) == IF Lists(table, name) THEN (CHOOSE r \in table : r.name = name).id ELSE NoId

(* Mutant of Resolved: without `if column_name in data`. *)
ResolvedIfCached(t, i) == Lists(cached[Home[t]][ColumnOrder[i]], Name(t, ColumnOrder[i]))

(***************************************************************************)
(* app.py:205-229 up to the next await: the columns whose names are absent *)
(* or cached are resolved; the first other one must be added to its table. *)
(***************************************************************************)
Resolved(t, i) ==
    LET c == ColumnOrder[i]
    IN Name(t, c) = None \/ Lists(cached[Home[t]][c], Name(t, c))

ResolveColumns(t) ==
    /\ pc[t] = "column"
    /\ \E stop \in col[t]..4 :
          /\ \A i \in col[t]..(stop - 1) : Resolved(t, i)
          /\ stop < 4 => ~Resolved(t, stop)
          /\ col' = [col EXCEPT ![t] = stop]
          /\ sps' = [sps EXCEPT ![t].ids = [c \in Columns |->
                        IF Name(t, c) # None /\ \E i \in col[t]..(stop - 1) : ColumnOrder[i] = c
                        THEN IdOf(cached[Home[t]][c], Name(t, c)) ELSE @[c]]]
          /\ IF stop < 4
             THEN Goto(t, "add") /\ UNCHANGED try
             ELSE Goto(t, "insert") /\ try' = [try EXCEPT ![t] = 1]
    /\ UNCHANGED <<dbVars, memVars, batch, snapshot, count, faultVars>>

NextColumn(t) == col' = [col EXCEPT ![t] = @ + 1] /\ Goto(t, "column")

(***************************************************************************)
(* app.py:216, one INSERT in a transaction; names are UNIQUE in each name  *)
(* table.  cached_values is not told of the new row.                       *)
(***************************************************************************)
AddName(t) ==
    LET c == Column(t)
        id == nextId[c] + 1
        added == [names EXCEPT ![c] = @ \cup {[id |-> id, name |-> Name(t, c)]}]
        free == ~Lists(names[c], Name(t, c))
        assigned == [sps EXCEPT ![t].ids[c] = id]
    IN
    /\ pc[t] = "add"
    /\ nextId' = [nextId EXCEPT ![c] = id]
    /\ \/ free /\ names' = added /\ sps' = assigned /\ NextColumn(t) /\ NoFault
       \/ ~free /\ Goto(t, "recheck") /\ NoFault /\ UNCHANGED <<names, sps, col>>
       \/ /\ Fault(Current(t))
          /\ \E returned, committed \in BOOLEAN :
                /\ committed => returned
                /\ returned => free
                /\ names' = IF committed THEN added ELSE names
                /\ sps' = IF returned THEN assigned ELSE sps
          /\ Goto(t, "recheck") /\ UNCHANGED col
    /\ UNCHANGED <<payloads, statuses, partitions, memVars, batch, try, snapshot, count>>

(* app.py:233-239: after a pause, read the whole name table again. *)
RecheckName(t) ==
    /\ pc[t] = "recheck"
    /\ \/ /\ snapshot' = [snapshot EXCEPT ![t] = names[Column(t)]]
          /\ Goto(t, "refresh")
          /\ NoFault /\ UNCHANGED count
       \/ Fault(Current(t)) /\ Fail(t) /\ UNCHANGED snapshot
    /\ UNCHANGED <<dbVars, memVars, batch, col, try, sps>>

(* app.py:240-244: the answer replaces cached_values and must list the name. *)
RefreshName(t) ==
    LET c == Column(t)
    IN
    /\ pc[t] = "refresh"
    /\ cached' = [cached EXCEPT ![Home[t]][c] = snapshot[t]]
    /\ \/ /\ Lists(snapshot[t], Name(t, c))
          /\ sps' = [sps EXCEPT ![t].ids[c] = IdOf(snapshot[t], Name(t, c))]
          /\ NextColumn(t)
          /\ UNCHANGED count
       \/ /\ ~Lists(snapshot[t], Name(t, c))
          /\ Fail(t)
          /\ UNCHANGED <<sps, col>>
    /\ UNCHANGED <<dbVars, updates, batch, try, snapshot, faultVars>>

-----------------------------------------------------------------------------
(* NOT NULL and foreign key constraints, and a partition for the day. *)
Accepted(t) ==
    /\ \E p \in payloads : p.id = sps[t].payload_id
    /\ sps[t].ids["service"] # NoId /\ sps[t].ids["status"] # NoId
    /\ \A c \in Columns : sps[t].ids[c] # NoId => \E r \in names[c] : r.id = sps[t].ids[c]
    /\ Msg(t).day \in partitions

Row(t, acked) ==
    [task |-> t, pos |-> idx[t], try |-> try[t], payload_id |-> sps[t].payload_id,
     ids |-> sps[t].ids, day |-> Msg(t).day, acked |-> acked]

Retry(t, n) == try' = [try EXCEPT ![t] = n] /\ Goto(t, "insert")

(* Mutant of Rejected: no `continue` after the last error. *)
FallThrough(t) ==
    \/ try[t] = 1 /\ Goto(t, "partition") /\ UNCHANGED <<try, count>>
    \/ try[t] = 2 /\ Retry(t, 3) /\ UNCHANGED count
    \/ try[t] = 3 /\ Increment(t, {"error", "success"}) /\ Finish(t, "success") /\ UNCHANGED try

(* Mutant of Rejected: the last attempt is repeated until it succeeds. *)
RetryForever(t) ==
    \/ try[t] = 1 /\ Goto(t, "partition") /\ UNCHANGED <<try, count>>
    \/ try[t] > 1 /\ Retry(t, 3) /\ UNCHANGED count

(* app.py:277-291: make a partition, then try twice more. *)
Rejected(t) ==
    \/ try[t] = 1 /\ Goto(t, "partition") /\ UNCHANGED <<try, count>>
    \/ try[t] = 2 /\ Retry(t, 3) /\ UNCHANGED count
    \/ try[t] = 3 /\ Fail(t) /\ UNCHANGED try

(* insert_status; a COMMIT whose answer is lost leaves a row nobody knows of. *)
InsertStatus(t) ==
    /\ pc[t] = "insert"
    /\ \/ /\ Accepted(t)
          /\ statuses' = statuses \cup {Row(t, TRUE)}
          /\ Increment(t, {"success"})
          /\ Finish(t, "success")
          /\ NoFault /\ UNCHANGED try
       \/ ~Accepted(t) /\ Rejected(t) /\ NoFault /\ UNCHANGED statuses
       \/ /\ Fault(Current(t))
          /\ \/ UNCHANGED statuses
             \/ Accepted(t) /\ statuses' = statuses \cup {Row(t, FALSE)}
          /\ Rejected(t)
    /\ UNCHANGED <<payloads, names, partitions, nextId, memVars, batch, col, sps, snapshot>>

(* create_partition: IF NOT EXISTS looks for the table ... *)
CheckPartition(t) ==
    /\ pc[t] = "partition"
    /\ \/ Msg(t).day \in partitions /\ Retry(t, 2) /\ NoFault
       \/ Msg(t).day \notin partitions /\ Goto(t, "create_table") /\ NoFault /\ UNCHANGED try
       \/ Fault(Current(t)) /\ Retry(t, 3)
    /\ UNCHANGED <<dbVars, memVars, batch, col, sps, snapshot, count>>

(* ... and CREATE TABLE may fail when another session has created it since. *)
CreateTable(t) ==
    /\ pc[t] = "create_table"
    /\ \/ /\ Msg(t).day \notin partitions
          /\ partitions' = partitions \cup {Msg(t).day}
          /\ Retry(t, 2) /\ NoFault
       \/ /\ Msg(t).day \in partitions
          /\ \E n \in {2, 3} : Retry(t, n)
          /\ NoFault /\ UNCHANGED partitions
       \/ /\ Fault(Current(t))
          /\ partitions' \in {partitions, partitions \cup {Msg(t).day}}
          /\ Retry(t, 3)
    /\ UNCHANGED <<payloads, names, statuses, nextId, memVars, batch, col, sps, snapshot, count>>

-----------------------------------------------------------------------------
Step(t) ==
    \/ TakeMessage(t) \/ EndOfBatch(t)
    \/ GetPayload(t) \/ CreatePayload(t) \/ RegetPayload(t)
    \/ ResolveColumns(t) \/ AddName(t) \/ RecheckName(t) \/ RefreshName(t)
    \/ InsertStatus(t) \/ CheckPartition(t) \/ CreateTable(t)

(* Every coroutine has ended; the process would now wait for more messages. *)
Terminated ==
    /\ \A t \in Tasks : pc[t] \in {"done", "dead"}
    /\ updates = {}
    /\ UNCHANGED vars

Next ==
    \/ \E t \in Tasks : Step(t)
    \/ \E u \in updates : RunUpdate(u)
    \/ Terminated

Spec == Init /\ [][Next]_vars

(* The event loop runs every coroutine that can go on, and every call to the *)
(* database returns or raises.                                               *)
FairSpec ==
    /\ Spec
    /\ \A t \in Tasks : WF_vars(Step(t))
    /\ WF_vars(\E u \in updates : RunUpdate(u))

-----------------------------------------------------------------------------
(* A task stays within its batch; it works on a good message, and adds a name *)
(* only for a column that the message has.                                    *)
Working(t) ==
    /\ idx[t] <= Len(batch[t]) + 1
    /\ pc[t] \notin Idle => idx[t] <= Len(batch[t]) /\ Msg(t).kind = "good"
    /\ pc[t] \in {"add", "recheck", "refresh"} => col[t] <= 3 /\ Name(t, Column(t)) # None

(* Every variable has its type, and every task is where it can be. *)
TypeOK ==
    /\ payloads \subseteq PayloadRow
    /\ names \in [Columns -> SUBSET NameRow]
    /\ statuses \subseteq StatusRow
    /\ partitions \subseteq Days
    /\ nextId \in [Tables -> Nat]
    /\ cached \in [Processes -> [Columns -> SUBSET NameRow]]
    /\ updates \subseteq Update
    /\ batch \in [Tasks -> Batches]
    /\ idx \in [Tasks -> Ids]
    /\ pc \in [Tasks -> Locations]
    /\ col \in [Tasks -> 1..4]
    /\ try \in [Tasks -> 1..3]
    /\ sps \in [Tasks -> [payload_id : Nat, ids : [Columns -> Nat]]]
    /\ snapshot \in [Tasks -> SUBSET NameRow]
    /\ count \in [Tasks -> [MsgCounts -> Nat]]
    /\ verdict = [t \in Tasks |-> verdict[t]]
    /\ \A t \in Tasks : verdict[t] \in [1..Len(batch[t]) -> Verdicts]
    /\ faults \in 0..MaxFaults
    /\ faulted \subseteq Tasks \X Ids
    /\ \A t \in Tasks : Working(t)

(* The message whose processing stored row r. *)
Source(r) == batch[r.task][r.pos]

(***************************************************************************)
(* Every stored status resolves, through the payloads and name tables, to  *)
(* the request, service, source, status and day of the message it was      *)
(* stored for, whatever other coroutines inserted, cached or rolled back.  *)
(***************************************************************************)
Attribution ==
    \A r \in statuses :
        /\ r.pos \in DOMAIN batch[r.task]
        /\ \E p \in payloads : p.id = r.payload_id /\ p.request_id = Source(r).request_id
        /\ \A c \in Columns :
              IF Source(r).name[c] = None THEN r.ids[c] = NoId
              ELSE [id |-> r.ids[c], name |-> Source(r).name[c]] \in names[c]
        /\ r.day = Source(r).day /\ r.day \in partitions

(* Ids and names are unique in every table, and no id is ahead of its sequence. *)
TablesInv ==
    /\ \A p, q \in payloads : p.id = q.id \/ p.request_id = q.request_id => p = q
    /\ \A p \in payloads : p.id <= nextId["payloads"]
    /\ \A c \in Columns : \A r, s \in names[c] :
          r.id <= nextId[c] /\ (r.id = s.id <=> r.name = s.name)

(***************************************************************************)
(* However coroutines race to insert the same payload or name, and roll    *)
(* back ids they have drawn, the tables keep one row per id and per        *)
(* request or name, with no id ahead of its sequence.  The columns of a    *)
(* payload hold only values that messages of its own request supplied.     *)
(***************************************************************************)
PayloadsAttributed ==
    /\ TablesInv
    /\ \A p \in payloads : \A a \in Attrs : p.attrs[a] # None =>
          \E t \in Tasks : \E i \in DOMAIN batch[t] :
              batch[t][i].request_id = p.request_id /\ batch[t][i].attrs[a] = p.attrs[a]

(***************************************************************************)
(* A message counted as a success has exactly one acknowledged row, and    *)
(* any other message has none: the retries of insert_status never store an *)
(* acknowledged row twice, and no error is reported after one.             *)
(***************************************************************************)
OneRowPerSuccess ==
    \A t \in Tasks : \A i \in DOMAIN batch[t] :
        LET rows == {r \in statuses : r.task = t /\ r.pos = i /\ r.acked}
        IN IF verdict[t][i] = "success" THEN \E r \in rows : rows = {r} ELSE rows = {}

(***************************************************************************)
(* MSG_COUNT_BY_PROCESSING_STATUS balances: what was consumed is counted   *)
(* as a success or an error, or is being processed.                        *)
(***************************************************************************)
CountsBalance ==
    \A t \in Tasks :
        count[t]["consumed"] = count[t]["success"] + count[t]["error"]
                               + (IF pc[t] \in Idle THEN 0 ELSE 1)

(***************************************************************************)
(* A well-formed message ends in an error only if one of its own calls     *)
(* failed: losing the races to create a payload, a name or a partition, or *)
(* sharing a process with a coroutine whose calls fail, loses no status.   *)
(***************************************************************************)
FaultIsolation ==
    \A t \in Tasks : \A i \in DOMAIN batch[t] :
        verdict[t][i] = "error" /\ batch[t][i].kind = "good" => <<t, i>> \in faulted

(***************************************************************************)
(* A column that a successful message supplied is stored, or an UPDATE of  *)
(* it is under way, unless one of the message's own calls failed.          *)
(***************************************************************************)
AttrsKept ==
    \A t \in Tasks : \A i \in DOMAIN batch[t] : \A a \in Attrs :
        /\ verdict[t][i] = "success"
        /\ batch[t][i].attrs[a] # None
        /\ <<t, i>> \notin faulted
        => \/ \E p \in payloads : p.request_id = batch[t][i].request_id /\ p.attrs[a] # None
           \/ \E u \in updates : u.request_id = batch[t][i].request_id /\ u.attrs[a] # None

(* A payload has a value in column a and no UPDATE of that column is under way. *)
Settled(p, a) ==
    /\ p.attrs[a] # None
    /\ \A u \in updates : u.request_id = p.request_id => u.attrs[a] = None

(***************************************************************************)
(* Only missing columns are updated (app.py:154): once a column has its    *)
(* value and no UPDATE computed before is pending, it never changes again. *)
(***************************************************************************)
SettledColumns ==
    [][\A p \in payloads : \A a \in Attrs :
           Settled(p, a) => \E q \in payloads' :
               q.id = p.id /\ q.attrs[a] = p.attrs[a] /\ Settled(q, a)']_vars

(* Message i of task t will be reached: no value before it ends the coroutine. *)
Reachable(t, i) == \A j \in 1..i : batch[t][j].kind # "not_an_object"

(***************************************************************************)
(* Every message up to the first value that ends its coroutine is settled, *)
(* whatever races and failures it meets, and every spawned UPDATE ends.    *)
(***************************************************************************)
EverythingSettles ==
    <>[](/\ updates = {}
         /\ \A t \in Tasks : \A i \in DOMAIN batch[t] :
               Reachable(t, i) => verdict[t][i] # "waiting")

(***************************************************************************)
(* The coroutines implement StatusLog: recorded are the messages with an   *)
(* acknowledged row.                                                       *)
(***************************************************************************)
Acked == {r \in statuses : r.acked}

Log == INSTANCE StatusLog WITH
          settled <- [t \in Tasks |-> idx[t] - 1],
          recorded <- {<<r.task, r.pos>> : r \in Acked}

ImplementsLog == Log!Spec
=============================================================================
