---------------------------- MODULE RequestCache ----------------------------
(***************************************************************************)
(* RequestClient (cache.py): the messages of a request kept in Redis.  The *)
(* request id leads to a hash that never expires, the hash to a list of    *)
(* tokens, hash and token to a stored message; list and messages expire.   *)
(* get and set are series of Redis calls without a lock: one step each.    *)
(* What get falls back to is the database of StatusPipeline.               *)
(***************************************************************************)
EXTENDS StatusPipeline, FiniteSets

CONSTANTS
    MaxExpiries,   \* bound on the keys that expire
    LastPosition   \* the length of the longest batch

ASSUME CacheAssumption ==
    /\ MaxExpiries \in Nat
    /\ LastPosition \in Nat /\ \A b \in Batches : Len(b) <= LastPosition

(* Those that use the cache: <<t, 0>> is the coroutine t, <<t, i>> the metrics *)
(* task that was spawned for its message i.                                    *)
Clients == Tasks \X (0..LastPosition)

(* A stored message; the instants at which statuses are dated fall on *)
(* different days here, so that Days serve as dates.                  *)
Entry == [date : Days, name : [Columns -> Names \cup {None}],
          attrs : [Attrs -> Values \cup {None}], id : Ids, alive : BOOLEAN]

NoHash == 0

VARIABLES
    pointer,     \* pointer[r]: the hash to which request id r leads
    lists,       \* lists[h]: the messages behind hash h, newest first
    redisNames,  \* the Redis hashes services, sources and statuses
    call,        \* call[c]: where client c is in get or set, and its locals
    expiries     \* how many keys have expired

cacheVars == <<pointer, lists, redisNames, call, expiries>>

NoCall == [at |-> "idle", hash |-> NoHash, len |-> 0, names |-> [c \in Columns |-> {}],
           data |-> <<>>, raw |-> FALSE]

CacheInit ==
    /\ pointer = [r \in RequestIds |-> NoHash]
    /\ lists = <<>>
    /\ redisNames = Seeded
    /\ call = [c \in Clients |-> NoCall]
    /\ expiries = 0

Coroutine(t) == <<t, 0>>

RequestOf(c) == (IF c[2] = 0 THEN Msg(c[1]) ELSE batch[c[1]][c[2]]).request_id

(* A Redis or database call made for client c raises. *)
CallFails(c) ==
    /\ faults < MaxFaults
    /\ faults' = faults + 1
    /\ faulted' = IF c[2] = 0 THEN faulted \cup {Current(c[1])} ELSE faulted

At(c, loc) == call[c].at = loc
Proceed(c, loc) == call' = [call EXCEPT ![c].at = loc]

-----------------------------------------------------------------------------
(* data[entry['date']] = entry: of several messages of a date the last read stays. *)
Dates(data) == {data[i].date : i \in 1..Len(data)}
Dated(data, d) == data[CHOOSE i \in 1..Len(data) :
                          /\ data[i].date = d
                          /\ \A j \in (i + 1)..Len(data) : data[j].date # d]
Entries(data) == {Dated(data, d) : d \in Dates(data)}

(* get_unique_values: the id comes from the message whose date was met first; *)
(* a column is known when some message has it.                                *)
UniqueValues(c) ==
    LET data == call[c].data
        with(a) == {e \in Entries(data) : e.attrs[a] # None}
    IN [id |-> Dated(data, data[1].date).id, raw |-> call[c].raw,
        attrs |-> [a \in Attrs |-> IF with(a) = {} THEN None
                                   ELSE (CHOOSE e \in with(a) : TRUE).attrs[a]]]

(* get, first part: the request id's hash; without one lget raises. *)
ReadPointer(c) ==
    /\ At(c, "idle")
    /\ LET h == pointer[RequestOf(c)]
       IN \/ /\ call' = [call EXCEPT ![c] = [NoCall EXCEPT !.hash = h,
                            !.at = IF h = NoHash THEN "names" ELSE "len"]]
             /\ NoFault
          \/ CallFails(c) /\ call' = [call EXCEPT ![c] = [NoCall EXCEPT !.at = "names"]]

(* lget: LLEN ... *)
ReadLength(c) ==
    /\ At(c, "len")
    /\ \/ /\ call' = [call EXCEPT ![c].at = "range", ![c].len = Len(lists[call[c].hash])]
          /\ NoFault
       \/ CallFails(c) /\ Proceed(c, "names")

(* ... then LRANGE 0 .. llen - 1, which is the whole list when llen was 0; a   *)
(* message that has expired has no 'date' and ends the attempt like an empty   *)
(* list does.  The EXPIRE calls only put expiry off.                           *)
ReadEntries(c) ==
    LET list == lists[call[c].hash]
        n == IF call[c].len \in 1..Len(list) THEN call[c].len ELSE Len(list)
        read == SubSeq(list, 1, n)
    IN
    /\ At(c, "range")
    /\ \/ /\ n > 0 /\ \A i \in 1..n : read[i].alive
          /\ call' = [call EXCEPT ![c].at = "done", ![c].data = read]
          /\ NoFault
       \/ /\ n = 0 \/ \E i \in 1..n : ~read[i].alive
          /\ Proceed(c, "names")
          /\ NoFault
       \/ CallFails(c) /\ Proceed(c, "names")

(* get, second part: the name tables are read from Redis first ... *)
LoadNames(c) ==
    /\ At(c, "names")
    /\ \/ call' = [call EXCEPT ![c].at = "rows", ![c].names = redisNames] /\ NoFault
       \/ CallFails(c) /\ Proceed(c, "failed")

(* Mutant of RowsOf: the join lacks its condition on the payload's id. *)
RowsOfAny(r) == {s \in statuses : \E p \in payloads : p.request_id = r}

(* The committed statuses of request r (BY_DATE). *)
RowsOf(r) == {s \in statuses : \E p \in payloads : p.id = s.payload_id /\ p.request_id = r}

(* Mutant of LabelledId: another column is labelled 'id'. *)
LabelledStatus(row) == row.ids["status"]

(* bakery.py:12: the column that is labelled 'id'. *)
LabelledId(row) == row.payload_id

EntryOf(row, table) ==
    [date |-> row.day, id |-> LabelledId(row), alive |-> TRUE,
     attrs |-> (CHOOSE p \in payloads : p.id = row.payload_id).attrs,
     name |-> [c \in Columns |-> IF row.ids[c] = NoId THEN None
                                 ELSE (CHOOSE n \in table[c] : n.id = row.ids[c]).name]]

(* One row for each date, in whatever order the query returns them. *)
Loads(rows) ==
    LET n == Cardinality({s.day : s \in rows})
    IN {f \in [1..n -> rows] : \A i, j \in 1..n : f[i].day = f[j].day => i = j}

(* ... then the rows: an id that was not in the tables raises KeyError. *)
LoadRows(c) ==
    LET rows == RowsOf(RequestOf(c))
        named == \A s \in rows : \A k \in Columns :
                    s.ids[k] # NoId => \E n \in call[c].names[k] : n.id = s.ids[k]
    IN
    /\ At(c, "rows")
    /\ \/ /\ named
          /\ \E f \in Loads(rows) :
                call' = [call EXCEPT ![c].at = "swap", ![c].raw = TRUE,
                            ![c].data = [i \in DOMAIN f |-> EntryOf(f[i], call[c].names)]]
          /\ NoFault
       \/ ~named /\ Proceed(c, "failed") /\ NoFault
       \/ CallFails(c) /\ Proceed(c, "failed")

(* The lazy load fills a list under a new hash, which nobody sees until the *)
(* request id is made to lead there; LPUSH turns the order round.           *)
SwapHash(c) ==
    LET data == call[c].data
    IN
    /\ At(c, "swap")
    /\ \/ /\ lists' = Append(lists, [i \in DOMAIN data |-> data[Len(data) + 1 - i]])
          /\ pointer' = [pointer EXCEPT ![RequestOf(c)] = Len(lists) + 1]
          /\ Proceed(c, "done")
          /\ NoFault
       \/ CallFails(c) /\ Proceed(c, "failed") /\ UNCHANGED <<pointer, lists>>

GetStep(c) ==
    /\ \/ /\ \/ ReadPointer(c) \/ ReadLength(c) \/ ReadEntries(c)
             \/ LoadNames(c) \/ LoadRows(c)
          /\ UNCHANGED <<pointer, lists>>
       \/ SwapHash(c)
    /\ UNCHANGED <<redisNames, expiries>>

-----------------------------------------------------------------------------
(* is_unique compares the keys that both have.  An id is a string when it was *)
(* read from Redis and a number when it was read from the database.           *)
SameMessage(e, m, d, raw) ==
    /\ e.date = m.day
    /\ e.id = d.id /\ raw = d.raw
    /\ \A c \in Columns : None \in {e.name[c], m.name[c]} \/ e.name[c] = m.name[c]
    /\ \A a \in Attrs : None \in {e.attrs[a], m.attrs[a]} \/ e.attrs[a] = m.attrs[a]

IsUnique(c, m, d) == \A e \in Entries(call[c].data) : ~SameMessage(e, m, d, call[c].raw)

(* Mutant of ReadHash: the hash that the get of is_unique began with is used. *)
KeepHash(c) ==
    /\ call' = [call EXCEPT ![c] = [NoCall EXCEPT !.at = "push", !.hash = call[c].hash]]
    /\ UNCHANGED <<pointer, lists>>

(* set, after the get of is_unique: read the hash again ... *)
ReadHash(c) ==
    /\ call' = [call EXCEPT ![c] = [NoCall EXCEPT !.at = "push", !.hash = pointer[RequestOf(c)]]]
    /\ UNCHANGED <<pointer, lists>>

(* ... and push message m under it, with the payload's id. *)
Push(c, m, id) ==
    LET h == call[c].hash
        entry == [date |-> m.day, name |-> m.name, attrs |-> m.attrs, id |-> id, alive |-> TRUE]
    IN
    /\ lists' = [lists EXCEPT ![h] = <<entry>> \o @]
    /\ UNCHANGED pointer

-----------------------------------------------------------------------------
(* Redis removes a list or a message; nothing bounds how long a client that *)
(* works with them has been waiting.                                        *)
Expire ==
    /\ expiries < MaxExpiries
    /\ expiries' = expiries + 1
    /\ \E r \in RequestIds : pointer[r] # NoHash /\
          LET h == pointer[r]
          IN /\ lists[h] # <<>>
             /\ \/ lists' = [lists EXCEPT ![h] = <<>>]
                \/ \E i \in 1..Len(lists[h]) :
                      lists[h][i].alive /\ lists' = [lists EXCEPT ![h][i].alive = FALSE]
    /\ UNCHANGED <<pointer, redisNames, call>>

CacheTypeOK ==
    /\ pointer \in [RequestIds -> 0..Len(lists)]
    /\ lists \in Seq(Seq(Entry))
    /\ redisNames \in [Columns -> SUBSET NameRow]
    /\ expiries \in 0..MaxExpiries
    /\ call \in [Clients ->
          [at : {"idle", "len", "range", "names", "rows", "swap", "done", "failed", "push"},
           hash : 0..Len(lists), len : Nat, names : [Columns -> SUBSET NameRow],
           data : Seq(Entry), raw : BOOLEAN]]
=============================================================================
