--------------------------- MODULE CachedPipeline ---------------------------
(***************************************************************************)
(* process_payload_status with USE_REDIS=true: payloads are looked up in   *)
(* the RequestCache and names in Redis hashes, both are written inside the *)
(* database transaction, before COMMIT, and every message spawns a task    *)
(* that derives metrics from the cache (StatusMetrics).  The rest of the   *)
(* loop body is that of StatusPipeline.                                    *)
(***************************************************************************)
EXTENDS StatusMetrics

CONSTANT NoRow   \* no transaction is open

(* A row that a transaction has inserted, by its unique key. *)
TxRow == [table : Tables, key : RequestIds \cup Names, id : Ids]

ASSUME CachedAssumption == NoRow \notin TxRow

VARIABLES
    dump,   \* payload_dump of each task
    tx      \* the row that the open transaction of each task has inserted

cachedVars == <<vars, cacheVars, metric, dump, tx>>

\* The awaits of both configurations, and those of set and of the transactions.
CachedLocations == Locations \cup {"set", "hset", "commit", "commit_name"}

DumpType == [id : Nat, raw : BOOLEAN, attrs : [Attrs -> Values \cup {None}]]

EmptyDump == [id |-> NoId, raw |-> FALSE, attrs |-> [a \in Attrs |-> None]]

CachedInit ==
    /\ Init /\ CacheInit /\ MetricsInit
    /\ dump = [t \in Tasks |-> EmptyDump]
    /\ tx = [t \in Tasks |-> NoRow]

(* Variables of StatusPipeline that no step below changes. *)
Elsewhere == <<statuses, partitions, cached, batch, snapshot>>

-----------------------------------------------------------------------------
(* get_payload() and the get inside set, at the locations that await them. *)
CallCache(t) ==
    /\ pc[t] \in {"get", "reget", "set"}
    /\ GetStep(Coroutine(t))
    /\ UNCHANGED <<Elsewhere, payloads, names, nextId, updates, idx, pc, col, try, sps,
                   logVars, metric, dump, tx>>

Returned(t, loc) == pc[t] = loc /\ At(Coroutine(t), "done")
EndCall(t) == call' = [call EXCEPT ![Coroutine(t)] = NoCall]

(* app.py:156-159: a request with messages in the cache is known. *)
TakeDump(t) ==
    /\ dump' = [dump EXCEPT ![t] = UniqueValues(Coroutine(t))]
    /\ sps' = [sps EXCEPT ![t].payload_id = UniqueValues(Coroutine(t)).id]
    /\ Goto(t, "set")

CachedGet(t) ==
    /\ Returned(t, "get")
    /\ EndCall(t)
    /\ \/ call[Coroutine(t)].data # <<>> /\ TakeDump(t)
       \/ call[Coroutine(t)].data = <<>> /\ Goto(t, "create") /\ UNCHANGED <<dump, sps>>
    /\ UNCHANGED <<Elsewhere, payloads, names, nextId, updates, col, try, count, faultVars,
                   pointer, lists, redisNames, expiries, metric, tx>>

(* app.py:183; a request whose statuses nobody can see yet goes on without an id. *)
CachedReget(t) ==
    /\ Returned(t, "reget")
    /\ EndCall(t)
    /\ \/ call[Coroutine(t)].data # <<>> /\ TakeDump(t) /\ UNCHANGED col
       \/ call[Coroutine(t)].data = <<>> /\ StartColumns(t) /\ UNCHANGED <<dump, sps>>
    /\ UNCHANGED <<Elsewhere, payloads, names, nextId, updates, try, count, faultVars,
                   pointer, lists, redisNames, expiries, metric, tx>>

(* An INSERT waits while another session has inserted the same key. *)
Blocked(t, table, key) ==
    \E u \in Tasks \ {t} : tx[u] # NoRow /\ tx[u].table = table /\ tx[u].key = key

(* app.py:173-178, up to the call of request_client.set. *)
InsertPayload(t) ==
    LET r == Msg(t).request_id
        id == nextId["payloads"] + 1
    IN
    /\ pc[t] = "create"
    /\ ~Blocked(t, "payloads", r)
    /\ nextId' = [nextId EXCEPT !["payloads"] = id]
    /\ \/ /\ Known(t) = {}
          /\ tx' = [tx EXCEPT ![t] = [table |-> "payloads", key |-> r, id |-> id]]
          /\ sps' = [sps EXCEPT ![t].payload_id = id]
          /\ dump' = [dump EXCEPT ![t] = [EmptyDump EXCEPT !.id = id, !.raw = TRUE]]
          /\ Goto(t, "set") /\ NoFault
       \/ Known(t) # {} /\ Goto(t, "reget") /\ NoFault /\ UNCHANGED <<tx, sps, dump>>
       \/ Fault(Current(t)) /\ Goto(t, "reget") /\ UNCHANGED <<tx, sps, dump>>
    /\ UNCHANGED <<Elsewhere, payloads, names, updates, col, try, count, cacheVars, metric>>

(* Mutant of Rollback: the transaction is left open. *)
LeaveOpen(t) == Goto(t, "reget") /\ UNCHANGED tx

Rollback(t) == tx' = [tx EXCEPT ![t] = NoRow] /\ Goto(t, "reget")

(* Mutant of AfterSet: the UPDATE of a known payload is forgotten. *)
AfterSetNoUpdate(t) ==
    IF tx[t] # NoRow
    THEN Goto(t, "commit") /\ UNCHANGED <<sps, updates, col>>
    ELSE StartColumns(t) /\ UNCHANGED <<sps, updates>>

(* The end of set: COMMIT follows, or the UPDATE of what the dump lacks. *)
AfterSet(t) ==
    IF tx[t] # NoRow
    THEN Goto(t, "commit") /\ UNCHANGED <<sps, updates, col>>
    ELSE UsePayload(t, dump[t]) /\ StartColumns(t)

(***************************************************************************)
(* request_client.set after the get of is_unique.  An exception of that    *)
(* get is passed on, and rolls an open transaction back; one of the calls  *)
(* after it is only logged.                                                *)
(***************************************************************************)
CachedSet(t) ==
    LET c == Coroutine(t)
    IN
    /\ pc[t] = "set"
    /\ \/ /\ At(c, "done") /\ IsUnique(c, Msg(t), dump[t])
          /\ ReadHash(c) /\ Goto(t, "set") /\ NoFault
          /\ UNCHANGED <<sps, updates, col, count, tx>>
       \/ /\ At(c, "done") /\ ~IsUnique(c, Msg(t), dump[t])
          /\ EndCall(t) /\ AfterSet(t) /\ NoFault
          /\ UNCHANGED <<pointer, lists, count, tx>>
       \/ /\ At(c, "push")
          /\ EndCall(t) /\ AfterSet(t)
          /\ \/ Push(c, Msg(t), dump[t].id) /\ NoFault
             \/ CallFails(c) /\ UNCHANGED <<pointer, lists>>
          /\ UNCHANGED <<count, tx>>
       \/ /\ At(c, "failed")
          /\ EndCall(t) /\ NoFault
          /\ IF tx[t] # NoRow
             THEN Rollback(t) /\ UNCHANGED count
             ELSE Fail(t) /\ UNCHANGED tx
          /\ UNCHANGED <<pointer, lists, sps, updates, col>>
    /\ UNCHANGED <<Elsewhere, payloads, names, nextId, try, redisNames, expiries, metric, dump>>

(* get_payload() raised: app.py:199. *)
CachedGetFails(t) ==
    /\ pc[t] \in {"get", "reget"} /\ At(Coroutine(t), "failed")
    /\ EndCall(t) /\ Fail(t)
    /\ UNCHANGED <<Elsewhere, payloads, names, nextId, updates, col, try, sps, faultVars,
                   pointer, lists, redisNames, expiries, metric, dump, tx>>

(* The COMMIT of a new payload, after its id has been given to the cache. *)
CommitPayload(t) ==
    LET row == [id |-> tx[t].id, request_id |-> tx[t].key, attrs |-> Msg(t).attrs]
    IN
    /\ pc[t] = "commit"
    /\ \/ /\ payloads' = payloads \cup {row}
          /\ tx' = [tx EXCEPT ![t] = NoRow]
          /\ StartColumns(t) /\ NoFault
       \/ /\ Fault(Current(t))
          /\ payloads' \in {payloads, payloads \cup {row}}
          /\ Rollback(t) /\ UNCHANGED col
    /\ UNCHANGED <<Elsewhere, names, nextId, updates, try, sps, count, cacheVars, metric, dump>>

-----------------------------------------------------------------------------
(* After the last column the metrics task is spawned and the status inserted. *)
AfterColumn(t) ==
    IF col[t] < 3 THEN NextColumn(t) /\ UNCHANGED <<try, metric>>
    ELSE /\ col' = [col EXCEPT ![t] = 4]
         /\ try' = [try EXCEPT ![t] = 1]
         /\ Goto(t, "insert")
         /\ Spawn(Current(t))

(* Mutant of Assign: the key of the first column is used for all. *)
AssignService(t, id) == sps' = [sps EXCEPT ![t].ids["service"] = id]

Assign(t, id) == sps' = [sps EXCEPT ![t].ids[Column(t)] = id]

(* app.py:209: each column reads its Redis hash, whether it needs it or not. *)
CachedColumn(t) ==
    LET c == Column(t)
    IN
    /\ pc[t] = "column"
    /\ \/ Name(t, c) = None /\ AfterColumn(t) /\ NoFault /\ UNCHANGED <<sps, count>>
       \/ /\ Name(t, c) # None
          /\ \E r \in redisNames[c] : r.name = Name(t, c) /\ Assign(t, r.id)
          /\ AfterColumn(t)
          /\ NoFault /\ UNCHANGED count
       \/ /\ Name(t, c) # None /\ ~Lists(redisNames[c], Name(t, c))
          /\ Goto(t, "add")
          /\ NoFault /\ UNCHANGED <<col, try, metric, sps, count>>
       \/ Fault(Current(t)) /\ Fail(t) /\ UNCHANGED <<col, try, metric, sps>>
    /\ UNCHANGED <<Elsewhere, payloads, names, nextId, updates, cacheVars, dump, tx>>

(* app.py:216-220: the INSERT of the name. *)
InsertName(t) ==
    LET c == Column(t)
        id == nextId[c] + 1
    IN
    /\ pc[t] = "add"
    /\ ~Blocked(t, c, Name(t, c))
    /\ nextId' = [nextId EXCEPT ![c] = id]
    /\ \/ /\ ~Lists(names[c], Name(t, c))
          /\ tx' = [tx EXCEPT ![t] = [table |-> c, key |-> Name(t, c), id |-> id]]
          /\ Goto(t, "hset") /\ NoFault
       \/ Lists(names[c], Name(t, c)) /\ Goto(t, "recheck") /\ NoFault /\ UNCHANGED tx
       \/ Fault(Current(t)) /\ Goto(t, "recheck") /\ UNCHANGED tx
    /\ UNCHANGED <<Elsewhere, payloads, names, updates, col, try, sps, count, cacheVars, metric, dump>>

CloseName(t) == tx' = [tx EXCEPT ![t] = NoRow]
NewName(t) == [id |-> tx[t].id, name |-> tx[t].key]

(* app.py:222: Redis is told of the name before it is committed. *)
HsetName(t) ==
    LET told == [redisNames EXCEPT ![Column(t)] = @ \cup {NewName(t)}]
    IN
    /\ pc[t] = "hset"
    /\ \/ /\ redisNames' = told /\ Assign(t, tx[t].id)
          /\ Goto(t, "commit_name")
          /\ NoFault /\ UNCHANGED tx
       \/ /\ Fault(Current(t)) /\ redisNames' \in {redisNames, told}
          /\ CloseName(t) /\ Goto(t, "recheck") /\ UNCHANGED sps
    /\ UNCHANGED <<Elsewhere, payloads, names, nextId, updates, col, try, count,
                   pointer, lists, call, expiries, metric, dump>>

CommitName(t) ==
    LET added == [names EXCEPT ![Column(t)] = @ \cup {NewName(t)}]
    IN
    /\ pc[t] = "commit_name"
    /\ CloseName(t)
    /\ \/ names' = added /\ AfterColumn(t) /\ NoFault
       \/ /\ Fault(Current(t)) /\ names' \in {names, added}
          /\ Goto(t, "recheck") /\ UNCHANGED <<col, try, metric>>
    /\ UNCHANGED <<Elsewhere, payloads, nextId, updates, sps, count, cacheVars, dump>>

(* app.py:233-245: Redis must list the name by now. *)
CachedRecheck(t) ==
    LET c == Column(t)
    IN
    /\ pc[t] = "recheck"
    /\ \/ /\ \E r \in redisNames[c] : r.name = Name(t, c) /\ Assign(t, r.id)
          /\ AfterColumn(t)
          /\ NoFault /\ UNCHANGED count
       \/ /\ ~Lists(redisNames[c], Name(t, c))
          /\ Fail(t) /\ NoFault /\ UNCHANGED <<col, try, metric, sps>>
       \/ Fault(Current(t)) /\ Fail(t) /\ UNCHANGED <<col, try, metric, sps>>
    /\ UNCHANGED <<Elsewhere, payloads, names, nextId, updates, cacheVars, dump, tx>>

-----------------------------------------------------------------------------
(* What both configurations share. *)
SharedStep(t) ==
    /\ TakeMessage(t) \/ EndOfBatch(t) \/ InsertStatus(t) \/ CheckPartition(t) \/ CreateTable(t)
    /\ UNCHANGED <<cacheVars, metric, dump, tx>>

CachedStep(t) ==
    \/ SharedStep(t) \/ CallCache(t)
    \/ CachedGet(t) \/ CachedReget(t) \/ CachedGetFails(t) \/ CachedSet(t)
    \/ InsertPayload(t) \/ CommitPayload(t)
    \/ CachedColumn(t) \/ InsertName(t) \/ HsetName(t) \/ CommitName(t) \/ CachedRecheck(t)

MetricsStep(m) ==
    /\ \/ metric[m].at = "poll" /\ GetStep(m) /\ UNCHANGED metric
       \/ EvaluateStatusMetrics(m) /\ UNCHANGED <<faultVars, pointer, lists, redisNames, expiries>>
    /\ UNCHANGED <<dbVars, memVars, taskVars, logVars, dump, tx>>

CachedNext ==
    \/ \E t \in Tasks : CachedStep(t)
    \/ \E m \in Messages : MetricsStep(m)
    \/ Expire /\ UNCHANGED <<vars, metric, dump, tx>>
    \/ (\E u \in updates : RunUpdate(u)) /\ UNCHANGED <<cacheVars, metric, dump, tx>>
    \/ /\ Terminated /\ \A m \in Messages : metric[m].at # "poll"
       /\ UNCHANGED <<cacheVars, metric, dump, tx>>

CachedSpec == CachedInit /\ [][CachedNext]_cachedVars

(* The event loop runs every coroutine and metrics task that can go on. *)
CachedFairSpec ==
    /\ CachedSpec
    /\ \A t \in Tasks : WF_cachedVars(CachedStep(t))
    /\ \A m \in Messages : WF_cachedVars(MetricsStep(m))
    /\ WF_cachedVars((\E u \in updates : RunUpdate(u)) /\ UNCHANGED <<cacheVars, metric, dump, tx>>)

-----------------------------------------------------------------------------
(* The types of the database, the tasks and their transactions. *)
BaseType ==
    /\ payloads \subseteq PayloadRow
    /\ names \in [Columns -> SUBSET NameRow]
    /\ statuses \subseteq StatusRow /\ IsFiniteSet(statuses)
    /\ partitions \subseteq Days
    /\ nextId \in [Tables -> Nat]
    /\ updates \subseteq Update
    /\ batch \in [Tasks -> Batches]
    /\ idx \in [Tasks -> Ids]
    /\ pc \in [Tasks -> CachedLocations]
    /\ col \in [Tasks -> 1..4]
    /\ try \in [Tasks -> 1..3]
    /\ sps \in [Tasks -> [payload_id : Nat, ids : [Columns -> Nat]]]
    /\ faults \in 0..MaxFaults
    /\ faulted \subseteq Tasks \X Ids
    /\ dump \in [Tasks -> DumpType]
    /\ tx \in [Tasks -> TxRow \cup {NoRow}]

(* Those of the counters and verdicts, and of the memory of the other *)
(* configuration, which is never used here.                           *)
LogType ==
    /\ count \in [Tasks -> [MsgCounts -> Nat]]
    /\ verdict = [t \in Tasks |-> verdict[t]]
    /\ \A t \in Tasks : verdict[t] \in [1..Len(batch[t]) -> Verdicts]
    /\ cached \in [Processes -> [Columns -> SUBSET NameRow]]
    /\ snapshot \in [Tasks -> SUBSET NameRow]

(* Every variable has its type; a transaction is open only between an INSERT *)
(* and the end of its block, and no two insert the same key.                 *)
CachedTypeOK ==
    /\ BaseType /\ LogType /\ CacheTypeOK /\ MetricsTypeOK
    /\ \A t \in Tasks :
          /\ pc[t] \in {"hset", "commit", "commit_name"} => tx[t] # NoRow
          /\ tx[t] # NoRow => pc[t] \in {"set", "hset", "commit", "commit_name"}
          /\ \A u \in Tasks \ {t} : tx[t] # NoRow /\ tx[u] # NoRow
                => <<tx[t].table, tx[t].key>> # <<tx[u].table, tx[u].key>>

(* The messages that the cache shows for request r. *)
Shown(r) == IF pointer[r] = NoHash THEN {}
            ELSE {lists[pointer[r]][i] : i \in 1..Len(lists[pointer[r]])}

(***************************************************************************)
(* cache.set before COMMIT (app.py:180): a payload id that the cache gives *)
(* out is that of the request's payload, or of one about to be committed;  *)
(* another remains only where a call for a message of the request failed.  *)
(***************************************************************************)
CachedIdsReal ==
    \A r \in RequestIds : \A e \in Shown(r) :
        \/ \E p \in payloads : p.id = e.id /\ p.request_id = r
        \/ \E t \in Tasks : tx[t] # NoRow /\ tx[t].table = "payloads" /\ tx[t].id = e.id /\ tx[t].key = r
        \/ \E x \in faulted : batch[x[1]][x[2]].request_id = r

(* Another coroutine handles a message of the request. *)
SharesRequest(t, i) ==
    \E u \in Tasks \ {t} : \E j \in DOMAIN batch[u] :
        batch[u][j].request_id = batch[t][i].request_id

(* Both messages bring a name that was in no table. *)
BringSameName(m, n) ==
    \E c \in Columns : m.name[c] # None /\ n.name[c] = m.name[c] /\ ~Lists(Seeded[c], m.name[c])

(* Message x is one of request r, or brings a new name that a message of r in *)
(* task t brings.                                                             *)
Concerns(x, t, r) ==
    /\ x[2] \in DOMAIN batch[x[1]]
    /\ \/ MessageOf(x).request_id = r
       \/ \E j \in DOMAIN batch[t] : batch[t][j].request_id = r /\ BringSameName(MessageOf(x), batch[t][j])

(* What concerns the request is handled by task t, and no call failed for it. *)
Undisturbed(t, r) == \A x \in Messages : Concerns(x, t, r) => x[1] = t /\ x \notin faulted

(***************************************************************************)
(* A message is lost only when a call for a message of its request, or for *)
(* one that brings the same new name, failed, or when another coroutine    *)
(* handles such a message: the rollbacks, expiries and lookups of all the  *)
(* others cannot harm it.                                                  *)
(***************************************************************************)
LossNeedsCompany ==
    \A t \in Tasks : \A i \in DOMAIN batch[t] :
        verdict[t][i] = "error" /\ batch[t][i].kind = "good" => ~Undisturbed(t, batch[t][i].request_id)

(***************************************************************************)
(* A column that a successful message supplied is stored, or an UPDATE of  *)
(* it is under way, when one coroutine handles the request and no call for *)
(* one of its messages failed.  Two coroutines may lose it: an UPDATE of a *)
(* payload that the cache shows before its COMMIT changes no row.          *)
(***************************************************************************)
CachedAttrsKept ==
    \A t \in Tasks : \A i \in DOMAIN batch[t] : \A a \in Attrs :
        LET m == batch[t][i]
        IN /\ verdict[t][i] = "success" /\ m.attrs[a] # None /\ ~SharesRequest(t, i)
           /\ \A x \in faulted : batch[x[1]][x[2]].request_id # m.request_id
           => \/ \E p \in payloads : p.request_id = m.request_id /\ p.attrs[a] # None
              \/ \E u \in updates : u.request_id = m.request_id /\ u.attrs[a] # None

(* The messages of the request, service and source of m. *)
Pair(m) ==
    {x \in Messages : /\ x[2] \in DOMAIN batch[x[1]]
                      /\ MessageOf(x).request_id = MessageOf(m).request_id
                      /\ \A c \in {"service", "source"} : MessageOf(x).name[c] = MessageOf(m).name[c]}

(***************************************************************************)
(* An elapsed time is the time between two messages of one request,        *)
(* service and source, and spans a received and a success of them.         *)
(***************************************************************************)
ElapsedOfPair ==
    \A m \in Messages : metric[m].elapsed # None =>
        /\ \E x, y \in Pair(m) : metric[m].elapsed = MessageOf(x).day - MessageOf(y).day
        /\ \E x, y \in Pair(m) :
              /\ MessageOf(x).name["status"] = Received /\ MessageOf(y).name["status"] = Success
              /\ metric[m].elapsed >= MessageOf(y).day - MessageOf(x).day

(* The messages of m's request that its coroutine takes after m. *)
Followers(m) == {j \in (m[2] + 1)..Len(batch[m[1]]) :
                    batch[m[1]][j].request_id = MessageOf(m).request_id}

(***************************************************************************)
(* The metrics task of a message finds it in the cache and counts it, when *)
(* one coroutine handles the request, no two of its messages have the same *)
(* date, nothing has failed or expired, and no more messages of the        *)
(* request follow than there are retries: each of them may slip in between *)
(* the LLEN and the LRANGE of a poll and hide the oldest entry from it.    *)
(***************************************************************************)
MetricsCounted ==
    \A m \in Messages :
        /\ metric[m].at \in {"end", "raised"} /\ faults = 0 /\ expiries = 0
        /\ ~SharesRequest(m[1], m[2])
        /\ \A j \in DOMAIN batch[m[1]] \ {m[2]} :
              batch[m[1]][j].request_id = MessageOf(m).request_id => batch[m[1]][j].day # MessageOf(m).day
        /\ Cardinality(Followers(m)) <= METRIC_FETCH_RETRY_COUNT
        => metric[m].at = "end" /\ metric[m].counted

(***************************************************************************)
(* Every message is settled and every metrics task ends, whether or not    *)
(* the service it polls for ever appears.                                  *)
(***************************************************************************)
CachedSettles == EverythingSettles /\ <>[](\A m \in Messages : metric[m].at # "poll")
=============================================================================
