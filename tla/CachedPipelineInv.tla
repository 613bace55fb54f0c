-------------------------- MODULE CachedPipelineInv --------------------------
(***************************************************************************)
(* The inductive invariants behind the safety properties of CachedPipeline *)
(* (CachedInv, CalmInv, KeptInv, CountedInv): what the cache and the Redis *)
(* hashes say before COMMIT is true of the open transactions, and of the   *)
(* tables once these have ended.                                           *)
(***************************************************************************)
EXTENDS CachedPipeline, StatusPipelineInv

Calling == {"get", "reget", "set"}
AtName == {"add", "hset", "commit_name", "recheck"}
Resolving == {"column"} \cup AtName

(* A client that is in get or set. *)
Active(c) == IF c[2] = 0 THEN pc[c[1]] \in Calling ELSE metric[c].at = "poll"

(* Where a task can be, as Working says of the pipeline without Redis. *)
CachedWorking(t) ==
    /\ idx[t] <= Len(batch[t]) + 1
    /\ pc[t] \notin Idle => idx[t] <= Len(batch[t]) /\ Msg(t).kind = "good"
    /\ pc[t] \in Resolving => col[t] <= 3
    /\ pc[t] \in AtName => Name(t, Column(t)) # None
    /\ pc[t] \in Storing => col[t] = 4

(* The cache and the metrics have their types, and every client is where it can be. *)
CacheType ==
    /\ CacheTypeOK /\ MetricsTypeOK
    /\ \A c \in Clients : ~Active(c) => call[c] = NoCall
    /\ \A c \in Clients : call[c].at \in {"len", "range"} => call[c].hash # NoHash
    /\ \A m \in Messages : metric[m].at = "poll" => m[2] \in DOMAIN batch[m[1]]

TxOf(t, table) == tx[t] # NoRow /\ tx[t].table = table

(* An open transaction is that of its task's current message. *)
TxTrue(t) ==
    /\ TxOf(t, "payloads") => pc[t] \in {"set", "commit"} /\ tx[t].key = Msg(t).request_id
                              /\ dump[t].id = tx[t].id
    /\ \A c \in Columns : TxOf(t, c) => pc[t] \in {"hset", "commit_name"}
                              /\ c = Column(t) /\ tx[t].key = Name(t, c)
    /\ pc[t] = "commit" => tx[t] # NoRow
    /\ pc[t] \in {"hset", "commit_name"} => tx[t] # NoRow
    /\ pc[t] = "commit_name" => NewName(t) \in redisNames[Column(t)] /\ sps[t].ids[Column(t)] = tx[t].id

(* The row it has inserted shares id and key with no other row of the table. *)
TxApart(t) ==
    /\ tx[t] # NoRow => tx[t].id <= nextId[tx[t].table]
    /\ TxOf(t, "payloads") => \A p \in payloads : p.id # tx[t].id /\ p.request_id # tx[t].key
    /\ \A c \in Columns : TxOf(t, c) =>
          /\ \A r \in names[c] : r.id # tx[t].id /\ r.name # tx[t].key
          /\ \A r \in redisNames[c] : r.id = tx[t].id => r.name = tx[t].key
    /\ \A u \in Tasks \ {t} : tx[t] # NoRow /\ tx[u] # NoRow /\ tx[u].table = tx[t].table =>
          tx[u].id # tx[t].id /\ tx[u].key # tx[t].key

(* An id that Redis gives for a name is that of no other name. *)
RedisTrue(c) ==
    \A r \in redisNames[c] : r.id <= nextId[c] /\ \A s \in names[c] : r.id = s.id => r.name = s.name

(* An id is nobody's but request r's; and it is committed, about to be, or left by a failed call. *)
OwnId(r, id) ==
    /\ id <= nextId["payloads"]
    /\ \A p \in payloads : p.id = id => p.request_id = r
    /\ \A t \in Tasks : TxOf(t, "payloads") /\ tx[t].id = id => tx[t].key = r

Real(r, id) ==
    \/ \E p \in payloads : p.id = id /\ p.request_id = r
    \/ \E t \in Tasks : pc[t] = "commit" /\ TxOf(t, "payloads") /\ tx[t].id = id /\ tx[t].key = r
    \/ \E x \in faulted : batch[x[1]][x[2]].request_id = r

(* The locals of a task mean its current message. *)
ResolvedInRedis(t, c) ==
    IF Name(t, c) = None THEN sps[t].ids[c] = NoId
    ELSE [id |-> sps[t].ids[c], name |-> Name(t, c)] \in redisNames[c]

LocalsTrue(t) ==
    pc[t] \notin Idle =>
        /\ OwnId(Msg(t).request_id, sps[t].payload_id)
        /\ pc[t] = "set" => /\ dump[t].id \in Ids
                            /\ OwnId(Msg(t).request_id, dump[t].id)
                            /\ tx[t] = NoRow => Real(Msg(t).request_id, dump[t].id)
        /\ pc[t] \in Resolving \cup Storing => \A i \in 1..(col[t] - 1) : ResolvedInRedis(t, ColumnOrder[i])
        /\ \A c \in Columns : Name(t, c) = None => sps[t].ids[c] = NoId

(* A stored message is one of request r, under an id of r. *)
OfMessage(r, e) ==
    \E t \in Tasks : \E i \in DOMAIN batch[t] :
        batch[t][i].request_id = r /\ batch[t][i].day = e.date /\ batch[t][i].name = e.name

EntryFor(r, e) == OwnId(r, e.id) /\ Real(r, e.id) /\ OfMessage(r, e)

(* Each hash belongs to a request: it holds nothing else, and only clients of it work with it. *)
Owned(owner) ==
    /\ owner \in [1..Len(lists) -> RequestIds]
    /\ \A h \in 1..Len(lists) : \A i \in 1..Len(lists[h]) : EntryFor(owner[h], lists[h][i])
    /\ \A r \in RequestIds : pointer[r] # NoHash => owner[pointer[r]] = r
    /\ \A c \in Clients : call[c].hash # NoHash => owner[call[c].hash] = RequestOf(c)

CallTrue(c) ==
    /\ \A k \in Columns : call[c].names[k] \subseteq redisNames[k]
    /\ \A i \in 1..Len(call[c].data) : EntryFor(RequestOf(c), call[c].data[i])

CachedInv ==
    /\ BaseType /\ CacheType
    /\ \A t \in Tasks : CachedWorking(t)
    /\ TablesInv
    /\ \A t \in Tasks : TxTrue(t) /\ TxApart(t) /\ LocalsTrue(t)
    /\ \A c \in Columns : RedisTrue(c)
    /\ \E owner \in [1..Len(lists) -> RequestIds] : Owned(owner)
    /\ \A c \in Clients : CallTrue(c)
    /\ Attribution
    /\ ElapsedOfPair

-----------------------------------------------------------------------------
(* What Redis lists under a name that a message of request r in task t brings *)
(* is in the table, or is the row of the task's own open transaction.         *)
NamesCommitted(t, r) ==
    \A j \in DOMAIN batch[t] : batch[t][j].request_id = r =>
        \A c \in Columns : \A n \in redisNames[c] : n.name = batch[t][j].name[c] =>
            n \in names[c] \/ (TxOf(t, c) /\ n = NewName(t))

(* The payload of r has a status, or the message that made it is on its way there. *)
PayloadUsed(t, r) ==
    (\E p \in payloads : p.request_id = r) =>
        RowsOf(r) # {} \/ (pc[t] \in Resolving \cup Storing /\ Msg(t).request_id = r)

(* The call that the coroutine is in does not fail, and finds the statuses there are. *)
CallOnCourse(t) ==
    LET now == call[Coroutine(t)]
        rows == RowsOf(Msg(t).request_id)
    IN
    /\ now.at # "failed"
    /\ now.at = "rows" =>
          \A s \in rows : \A k \in Columns : s.ids[k] # NoId => \E n \in now.names[k] : n.id = s.ids[k]
    /\ pc[t] = "get" /\ now.at \in {"swap", "done"} /\ now.data = <<>> => rows = {}

(* The current message meets nothing that could end it in an error. *)
OnCourse(t) ==
    /\ CallOnCourse(t)
    /\ pc[t] # "reget"
    /\ pc[t] = "create" => Known(t) = {}
    /\ pc[t] \in Resolving \cup Storing => \E p \in payloads : p.id = sps[t].payload_id
    /\ pc[t] = "recheck" => Lists(redisNames[Column(t)], Name(t, Column(t)))
    /\ pc[t] = "insert" /\ try[t] > 1 => Msg(t).day \in partitions

(* The places of verdicts, failed calls and UPDATEs are those of messages; Redis *)
(* lists every name of the tables, and these all that they began with.           *)
Places ==
    /\ verdict = [t \in Tasks |-> verdict[t]]
    /\ \A t \in Tasks : verdict[t] = [i \in DOMAIN batch[t] |-> verdict[t][i]]
    /\ \A x \in faulted : x[2] \in DOMAIN batch[x[1]]
    /\ \A u \in updates : u.pos \in DOMAIN batch[u.task]
    /\ \A c \in Columns : Seeded[c] \subseteq names[c] /\ names[c] \subseteq redisNames[c]
    /\ \A t \in Tasks : pc[t] \in {"set", "commit"} => sps[t].payload_id = dump[t].id

(* Why no message of an undisturbed request is lost. *)
CalmInv ==
    /\ Places
    /\ \A t \in Tasks : \A r \in RequestIds : Undisturbed(t, r) => NamesCommitted(t, r) /\ PayloadUsed(t, r)
    /\ \A t \in Tasks : pc[t] \notin Idle /\ Undisturbed(t, Msg(t).request_id) => OnCourse(t)
    /\ LossNeedsCompany
-----------------------------------------------------------------------------
(* No other coroutine handles a message of r; and no call for one of them failed. *)
Lone(t, r) == \A u \in Tasks \ {t} : \A j \in DOMAIN batch[u] : batch[u][j].request_id # r
Unharmed(t, r) == Lone(t, r) /\ \A x \in faulted : batch[x[1]][x[2]].request_id # r

(* Column a of request r is stored, or an UPDATE of it is under way. *)
Kept(r, a) ==
    \/ \E p \in payloads : p.request_id = r /\ p.attrs[a] # None
    \/ \E u \in updates : u.request_id = r /\ u.attrs[a] # None

MessageKept(t) == \A a \in Attrs : Msg(t).attrs[a] # None => Kept(Msg(t).request_id, a)

(* What the cache tells of r is kept, or is what the COMMIT in hand will store. *)
EntryTold(t, r, e) ==
    \A a \in Attrs : e.attrs[a] # None =>
        Kept(r, a) \/ (pc[t] = "commit" /\ Msg(t).request_id = r /\ Msg(t).attrs[a] # None)

(* A hash in which a client of r can read, now or later. *)
LeadsTo(r, h) == pointer[r] = h \/ \E c \in Clients : call[c].hash = h /\ RequestOf(c) = r

CacheTold(t, r) ==
    /\ \A h \in 1..Len(lists) : LeadsTo(r, h) => \A i \in 1..Len(lists[h]) : EntryTold(t, r, lists[h][i])
    /\ \A c \in Clients : \A i \in 1..Len(call[c].data) :
          RequestOf(c) = r => EntryTold(t, r, call[c].data[i])

(* The columns that the coroutine has still to deal with, or has dealt with; *)
(* a message that goes on without a payload id is never a success.           *)
ColumnsTold(t) ==
    LET now == call[Coroutine(t)]
    IN
    /\ now.at # "failed"
    /\ now.at = "rows" => \A s \in RowsOf(Msg(t).request_id) : \A k \in Columns :
                              s.ids[k] # NoId => \E n \in now.names[k] : n.id = s.ids[k]
    /\ pc[t] \in {"get", "create", "reget"} => sps[t].payload_id = NoId
    /\ pc[t] = "set" /\ tx[t] = NoRow =>
          \A a \in Attrs : dump[t].attrs[a] # None => Kept(Msg(t).request_id, a)
    /\ pc[t] \in Resolving \cup Storing => sps[t].payload_id = NoId \/ MessageKept(t)

UpdatesTrue ==
    \A u \in updates :
        /\ u.request_id = batch[u.task][u.pos].request_id
        /\ Unharmed(u.task, u.request_id) => \E p \in payloads : p.request_id = u.request_id

(* Why no column of an unharmed request is lost. *)
KeptInv ==
    /\ UpdatesTrue
    /\ \A t \in Tasks : \A r \in RequestIds : Unharmed(t, r) => CacheTold(t, r)
    /\ \A t \in Tasks : pc[t] \notin Idle /\ Unharmed(t, Msg(t).request_id) => ColumnsTold(t)
    /\ CachedAttrsKept

-----------------------------------------------------------------------------
(* Nothing has failed or expired, and one coroutine handles the request. *)
Quiet(t, r) == faults = 0 /\ expiries = 0 /\ Lone(t, r)

(* Message i has been through set; those of request r that have. *)
SetDone == {"commit"} \cup Resolving \cup Storing

Past(t, i) ==
    /\ i \in DOMAIN batch[t] /\ batch[t][i].kind = "good"
    /\ i < idx[t] \/ (i = idx[t] /\ pc[t] \in SetDone)
Seen(t, r) == {i \in DOMAIN batch[t] : batch[t][i].request_id = r /\ Past(t, i)}

(* The list to which request id r leads. *)
ListOf(r) == IF pointer[r] = NoHash THEN <<>> ELSE lists[pointer[r]]
HasDate(list, d) == \E k \in 1..Len(list) : list[k].date = d

(* It has the dates of the messages that have been through set, and no others. *)
DatesShown(t, r) ==
    /\ \A i \in Seen(t, r) : HasDate(ListOf(r), batch[t][i].day)
    /\ \A k \in 1..Len(ListOf(r)) : \E i \in Seen(t, r) : batch[t][i].day = ListOf(r)[k].date
    /\ Seen(t, r) = {} => \A p \in payloads : p.request_id # r

(* A call reads this list, and goes to the database, in vain, only for the first message. *)
Reads(now, hash, list, first) ==
    /\ now.at # "failed"
    /\ now.at \in {"len", "range", "push"} => now.hash = hash
    /\ now.at \in {"done", "push"} => hash # NoHash
    /\ now.at \in {"names", "rows", "swap"} => first
    /\ first => now.data = <<>>
    /\ ~first => /\ now.at = "range" => now.len \in 1..Len(list)
                 /\ now.at = "done" => now.data # <<>>
    /\ \A k \in 1..Len(now.data) : HasDate(list, now.data[k].date)

AllRead(t, r) ==
    \A c \in Clients : Active(c) /\ RequestOf(c) = r => Reads(call[c], pointer[r], ListOf(r), Seen(t, r) = {})

OnWay(t, r) ==
    pc[t] \notin Idle /\ Msg(t).request_id = r => pc[t] # "reget" /\ (pc[t] = "create" => Seen(t, r) = {})

QuietInv(t, r) == Quiet(t, r) => DatesShown(t, r) /\ AllRead(t, r) /\ OnWay(t, r)

(* A metrics task begins after its message has been through set. *)
Begun(m) ==
    metric[m].at # "off" \/ metric[m].retries # 0 =>
        /\ m[2] \in DOMAIN batch[m[1]] /\ MessageOf(m).kind = "good"
        /\ m[2] < idx[m[1]] \/ (m[2] = idx[m[1]] /\ pc[m[1]] \in Resolving \cup Storing)

Alive ==
    /\ \A h \in 1..Len(lists) : \A k \in 1..Len(lists[h]) : lists[h][k].alive
    /\ \A c \in Clients : \A k \in 1..Len(call[c].data) : call[c].data[k].alive

OnlyDate(m) ==
    \A j \in DOMAIN batch[m[1]] \ {m[2]} :
        batch[m[1]][j].request_id = MessageOf(m).request_id => batch[m[1]][j].day # MessageOf(m).day

(* An entry of date d has at most n before it; and every one has n before it. *)
Near(list, d, n) == \E k \in 1..Len(list) : list[k].date = d /\ k <= n + 1
Behind(list, d, n) == \A k \in 1..Len(list) : list[k].date = d => n < k

(* Each of n polls that missed date d has seen an entry pushed before it. *)
Missed(now, list, d, n) ==
    /\ Behind(list, d, n)
    /\ now.at = "range" => n < now.len
    /\ now.at = "done" /\ ~HasDate(now.data, d) => Behind(list, d, n + 1)

(* How far back the metrics task of m finds it. *)
Within(m) ==
    LET r == MessageOf(m).request_id
        d == MessageOf(m).day
        seen == Seen(m[1], r)
    IN
    m[2] \in seen /\ Quiet(m[1], r) /\ OnlyDate(m) =>
        /\ Near(ListOf(r), d, Cardinality(Followers(m) \cap seen))
        /\ Missed(call[m], ListOf(r), d, metric[m].retries)

(* Why every message of a quiet request is counted. *)
CountedInv ==
    /\ expiries = 0 => Alive
    /\ \A m \in Messages : Begun(m)
    /\ \A t \in Tasks : \A r \in RequestIds : QuietInv(t, r)
    /\ \A m \in Messages : Within(m)
    /\ MetricsCounted
=============================================================================
