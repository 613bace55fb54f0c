-------------------------- MODULE CachedDataProofs --------------------------
(***************************************************************************)
(* What the entries in Redis tell of a request is kept in the database:    *)
(* the columns that a dump carries to the next message are stored, or an   *)
(* UPDATE of them is under way, although they are cached before COMMIT.    *)
(* And the metrics task of a message finds it there, and counts it: each   *)
(* poll that misses it has met a message pushed between LLEN and LRANGE.   *)
(***************************************************************************)
EXTENDS CachedProofs

USE DEF Ids, NoId, Idle

-----------------------------------------------------------------------------
(* The columns of an unharmed request: whose messages one coroutine handles, *)
(* without a call for one of them failing.                                   *)
LEMMA UnharmedBefore ==
    ASSUME batch' = batch, faulted \subseteq faulted', NEW t, NEW r, Unharmed(t, r)'
    PROVE  Unharmed(t, r) /\ Lone(t, r)
BY DEF Unharmed, Lone

LEMMA OneTask ==
    ASSUME World, NEW t \in Tasks, NEW r, Lone(t, r), NEW u \in Tasks, pc[u] \notin Idle, Msg(u).request_id = r
    PROVE  u = t
<1>1. idx[u] \in DOMAIN batch[u]
  BY CurrentIs
<1> QED
  BY <1>1 DEF Lone, Msg

LEMMA Blameless ==
    ASSUME World, batch' = batch, NEW t \in Tasks, NEW r, Unharmed(t, r)',
           NEW u \in Tasks, pc[u] \notin Idle, Msg(u).request_id = r
    PROVE  u = t /\ Current(u) \notin faulted'
<1>1. Lone(t, r)
  BY DEF Unharmed, Lone
<1>2. u = t
  BY <1>1, OneTask
<1>3. \A x \in faulted' : batch[x[1]][x[2]].request_id # r
  BY DEF Unharmed
<1>4. PICK x : x = Current(u)
  OBVIOUS
<1>5. x[1] = u /\ x[2] = idx[u]
  BY <1>4 DEF Current
<1>6. batch[x[1]][x[2]].request_id = r
  BY <1>5 DEF Msg
<1> QED
  BY <1>2, <1>3, <1>4, <1>6

LEMMA UnharmedCommitted ==
    ASSUME World, NEW t \in Tasks, NEW r, Unharmed(t, r), pc[t] # "commit", NEW id, Real(r, id)
    PROVE  \E p \in payloads : p.id = id /\ p.request_id = r
<1>1. ASSUME NEW u \in Tasks, pc[u] = "commit", TxOf(u, "payloads"), tx[u].key = r PROVE FALSE
  <2>1. Msg(u).request_id = r
    BY <1>1 DEF World, TxTrue
  <2>2. u = t
    BY <1>1, <2>1, OneTask DEF Unharmed
  <2> QED
    BY <1>1, <2>2
<1> QED
  BY <1>1 DEF Real, Unharmed

-----------------------------------------------------------------------------
(* What is kept stays kept. *)
Retains(r) == \A a \in Attrs : Kept(r, a) => Kept(r, a)'

UpdateSpawned(t) == pc[t] = "set" /\ CachedSet(t) /\ AfterSet(t) /\ tx[t] = NoRow /\ UsePayload(t, dump[t])

LEMMA StepUpdates ==
    ASSUME NEW t \in Tasks, CachedStep(t)
    PROVE  updates' = updates \/ UpdateSpawned(t)
<1>1. updates' = updates \/ CachedSet(t)
  BY StepFrames DEF Frames
<1>2. CASE CachedSet(t)
  BY <1>2 DEF CachedSet, AfterSet, UpdateSpawned
<1> QED
  BY <1>1, <1>2

LEMMA SpawnedIs ==
    ASSUME NEW t, NEW p, NEW r, r = Msg(t).request_id, UsePayload(t, p)
    PROVE  /\ updates \subseteq updates'
           /\ \A u \in updates' : u \in updates \/ (u.task = t /\ u.pos = idx[t] /\ u.request_id = r)
           /\ \A a \in Attrs : p.attrs[a] = None /\ Msg(t).attrs[a] # None => Kept(r, a)'
<1> DEFINE u0 == [task |-> t, pos |-> idx[t], request_id |-> Msg(t).request_id, attrs |-> Supplied(t, p)]
<1>1. updates' = IF \A a \in Attrs : Supplied(t, p)[a] = None THEN updates ELSE updates \cup {u0}
  BY DEF UsePayload
<1>2. u0.task = t /\ u0.pos = idx[t] /\ u0.request_id = r /\ u0.attrs = Supplied(t, p)
  OBVIOUS
<1>3. \A a \in Attrs : Supplied(t, p)[a] = IF p.attrs[a] = None THEN Msg(t).attrs[a] ELSE None
  BY DEF Supplied
<1> HIDE DEF u0
<1>4. ASSUME NEW a \in Attrs, p.attrs[a] = None, Msg(t).attrs[a] # None PROVE  Kept(r, a)'
  <2>1. u0 \in updates' /\ u0.attrs[a] # None /\ u0.request_id = r
    BY <1>1, <1>2, <1>3, <1>4
  <2> QED
    BY <2>1 DEF Kept
<1> QED
  BY <1>1, <1>2, <1>4

LEMMA StepRetains ==
    ASSUME World, NEW t \in Tasks, CachedStep(t), NEW r
    PROVE  Retains(r)
<1>1. payloads \subseteq payloads'
  BY StepGrows DEF Grows, World
<1>2. updates \subseteq updates'
  <2>1. CASE UpdateSpawned(t)
    BY <2>1, SpawnedIs DEF UpdateSpawned
  <2> QED
    BY <2>1, StepUpdates
<1> QED
  BY <1>1, <1>2 DEF Retains, Kept

LEMMA UpdateRetains ==
    ASSUME World, Places, UpdatesTrue, NEW u \in updates, RunUpdate(u), NEW t \in Tasks, NEW r, Unharmed(t, r)'
    PROVE  Retains(r)
<1>1. batch' = batch /\ faulted \subseteq faulted' /\ updates' = updates \ {u}
  BY DEF RunUpdate, taskVars, NoFault, Fault, faultVars
<1>2. Unharmed(t, r)
  BY <1>1, UnharmedBefore
<1>3. payloads \subseteq PayloadRow /\ updates \subseteq Update
  BY DEF World, BaseType
<1>4. ASSUME payloads' = {Updated(u, p) : p \in payloads}, NEW p \in payloads, p.request_id = r, NEW a \in Attrs,
             p.attrs[a] # None \/ (u.request_id = r /\ u.attrs[a] # None)
      PROVE  Kept(r, a)'
  <2>1. PICK q : q = Updated(u, p)
    OBVIOUS
  <2>2. q \in payloads' /\ p \in PayloadRow /\ u \in Update
    BY <1>3, <1>4, <2>1
  <2>3. q.request_id = r /\ q.attrs[a] # None
    BY <1>4, <2>1, <2>2 DEF Updated, PayloadRow, Update
  <2> QED
    BY <2>2, <2>3 DEF Kept
<1>5. u.request_id = r => u.task = t /\ payloads' = {Updated(u, p) : p \in payloads} /\ \E p \in payloads : p.request_id = r
  <2> SUFFICES ASSUME u.request_id = r
               PROVE  u.task = t /\ payloads' = {Updated(u, p) : p \in payloads} /\ \E p \in payloads : p.request_id = r
    OBVIOUS
  <2>1. batch[u.task][u.pos].request_id = r /\ u.pos \in DOMAIN batch[u.task] /\ u.task \in Tasks
    BY <1>3 DEF UpdatesTrue, Places, Update
  <2>2. u.task = t
    BY <1>2, <2>1 DEF Unharmed, Lone
  <2>3. ~Fault(<<u.task, u.pos>>)
    <3>1. PICK x : x = <<u.task, u.pos>>
      OBVIOUS
    <3>2. x[1] = u.task /\ x[2] = u.pos
      BY <3>1
    <3>3. x \notin faulted'
      BY <1>1, <2>1, <3>2 DEF Unharmed
    <3> QED
      BY <3>1, <3>3 DEF Fault
  <2> QED
    BY <1>2, <2>2, <2>3 DEF RunUpdate, UpdatesTrue
<1>6. ASSUME NEW a \in Attrs, NEW p \in payloads, p.request_id = r, p.attrs[a] # None PROVE Kept(r, a)'
  <2>1. CASE payloads' = payloads
    BY <1>6, <2>1 DEF Kept
  <2> QED
    BY <1>4, <1>6, <2>1 DEF RunUpdate
<1>7. ASSUME NEW a \in Attrs, NEW v \in updates, v.request_id = r, v.attrs[a] # None PROVE Kept(r, a)'
  <2>1. CASE v = u
    BY <1>4, <1>5, <1>7, <2>1
  <2>2. CASE v # u
    BY <1>1, <1>7, <2>2 DEF Kept
  <2> QED
    BY <2>1, <2>2
<1> QED
  BY <1>6, <1>7 DEF Retains, Kept

-----------------------------------------------------------------------------
(* What the cache tells of the request stays true. *)
ToldStays(t, r) == \A e : EntryTold(t, r, e) => EntryTold(t, r, e)'

LEMMA ToldFrom ==
    ASSUME NEW t, NEW r, Retains(r),
           pc[t] = "commit" /\ Msg(t).request_id = r =>
               \/ pc'[t] = "commit" /\ Msg(t)' = Msg(t)
               \/ \A a \in Attrs : Msg(t).attrs[a] # None => Kept(r, a)'
    PROVE  ToldStays(t, r)
<1> SUFFICES ASSUME NEW e, EntryTold(t, r, e), NEW a \in Attrs, e.attrs[a] # None
             PROVE  Kept(r, a)' \/ (pc'[t] = "commit" /\ Msg(t)'.request_id = r /\ Msg(t)'.attrs[a] # None)
  BY DEF ToldStays, EntryTold
<1> QED
  BY DEF EntryTold, Retains

LEMMA CommitKeeps ==
    ASSUME World, NEW t \in Tasks, CommitPayload(t), NEW r, r = Msg(t).request_id, Unharmed(t, r)'
    PROVE  pc'[t] = "column" /\ \A a \in Attrs : Msg(t).attrs[a] # None => Kept(r, a)'
<1>1. pc[t] = "commit" /\ CachedStep(t)
  BY DEF CommitPayload, CachedStep
<1>2. batch' = batch /\ CommittedRow(t) \in PayloadRow /\ TxOf(t, "payloads") /\ tx[t].key = r
  BY <1>1, StepFrames, CommitIs, OpenPayloadIs DEF Frames, World, TxTrue, OpenPayload
<1>3. ~Fault(Current(t))
  BY <1>1, <1>2, Blameless DEF Fault
<1>4. payloads' = payloads \cup {CommittedRow(t)} /\ StartColumns(t)
  BY <1>3 DEF CommitPayload, CommittedRow
<1>5. pc'[t] = "column"
  BY <1>4, StartMoves DEF World, Moves
<1>6. PICK q : q = CommittedRow(t)
  OBVIOUS
<1>7. q \in payloads' /\ q.request_id = r /\ q.attrs = Msg(t).attrs
  BY <1>2, <1>4, <1>6 DEF CommittedRow
<1> QED
  BY <1>5, <1>7 DEF Kept

LEMMA StepTold ==
    ASSUME World, NEW s \in Tasks, CachedStep(s), NEW t \in Tasks, NEW r, Unharmed(t, r)'
    PROVE  ToldStays(t, r)
<1>1. Retains(r) /\ Shape(s)
  BY StepRetains, StepShape DEF World
<1>2. CASE s # t
  <2>1. pc'[t] = pc[t] /\ idx'[t] = idx[t] /\ batch' = batch
    BY <1>1, <1>2 DEF Shape, Changes
  <2>2. Msg(t)' = Msg(t)
    BY <2>1 DEF Msg
  <2> QED
    BY <1>1, <2>1, <2>2, ToldFrom
<1>3. CASE s = t
  <2>1. pc[t] = "commit" => CommitPayload(t)
    BY <1>3, AtCommit
  <2> QED
    BY <1>1, <2>1, CommitKeeps, ToldFrom
<1> QED
  BY <1>2, <1>3

(* A loaded row shows the columns of the payload of the request. *)
LEMMA RowTold ==
    ASSUME TablesInv, NEW t, NEW r, NEW row \in RowsOf(r), NEW table
    PROVE  EntryTold(t, r, EntryOf(row, table))
<1>1. PICK p \in payloads : p.id = row.payload_id /\ p.request_id = r
  BY DEF RowsOf
<1>2. (CHOOSE q \in payloads : q.id = row.payload_id) = p
  BY <1>1 DEF TablesInv
<1>3. EntryOf(row, table).attrs = p.attrs
  BY <1>2 DEF EntryOf
<1> QED
  BY <1>1, <1>3 DEF EntryTold, Kept

LEMMA GetsTold ==
    ASSUME World, CacheType', NEW c \in Clients, RequestOf(c) \in RequestIds, Gets(c),
           NEW t, NEW r \in RequestIds, ToldStays(t, r), CacheTold(t, r),
           \A d \in Clients : RequestOf(d)' = RequestOf(d)
    PROVE  CacheTold(t, r)'
<1>1. /\ CacheLists /\ CacheLists' /\ Len(lists) \in Nat
      /\ \A d \in Clients \ {c} : call'[d] = call[d]
  <2>1. CacheLists
    BY CacheListsAre DEF World
  <2> QED
    BY <2>1 DEF Gets, ClientStep, CacheLists
<1>2. \A d \in Clients : call[d].hash \in 0..Len(lists)
  BY CallIs DEF World
<1>3. pointer[RequestOf(c)] \in 0..Len(lists) /\ pointer[r] \in 0..Len(lists) /\ pointer \in [RequestIds -> 0..Len(lists)]
  BY <1>1 DEF CacheLists
<1>4. ASSUME NEW d \in Clients, RequestOf(d) = r
      PROVE  /\ call'[d].hash \in 0..Len(lists)
             /\ call'[d].hash # NoHash => LeadsTo(r, call'[d].hash)
  <2>1. CASE d # c
    BY <1>1, <1>2, <1>4, <2>1 DEF LeadsTo
  <2>2. CASE d = c
    <3>1. call'[c].hash \in {NoHash, pointer[r], call[c].hash}
      BY <1>4, <2>2 DEF Gets
    <3> QED
      BY <1>2, <1>3, <1>4, <2>2, <3>1 DEF LeadsTo, NoHash
  <2> QED
    BY <2>1, <2>2
<1>5. ASSUME NEW e, NEW h \in 1..Len(lists), LeadsTo(r, h), \E j \in 1..Len(lists[h]) : e = lists[h][j]
      PROVE  EntryTold(t, r, e)'
  BY <1>5 DEF CacheTold, ToldStays
<1>6. ASSUME NEW e, NEW d \in Clients, RequestOf(d) = r, \E j \in 1..Len(call[d].data) : e = call[d].data[j]
      PROVE  EntryTold(t, r, e)'
  BY <1>6 DEF CacheTold, ToldStays
<1>7. ASSUME NEW d \in Clients, RequestOf(d) = r, NEW i \in 1..Len(call'[d].data), NEW e, e = call'[d].data[i]
      PROVE  EntryTold(t, r, e)'
  <2>1. CASE call'[d].data = call[d].data
    BY <1>6, <1>7, <2>1
  <2>2. CASE d = c /\ call'[c].data = <<>>
    BY <1>7, <2>2
  <2>3. CASE d = c /\ FromRows(c)
    <3>1. PICK row \in RowsOf(r) : e = EntryOf(row, call[c].names)
      BY <1>7, <2>3 DEF FromRows
    <3>2. EntryTold(t, r, e)
      BY <3>1, RowTold DEF World
    <3> QED
      BY <3>2 DEF ToldStays
  <2>4. CASE d = c /\ FromList(c)
    <3>1. call[c].hash \in 1..Len(lists) /\ LeadsTo(r, call[c].hash)
      BY <1>2, <1>7, <2>4 DEF FromList, NoHash, LeadsTo
    <3> QED
      BY <1>5, <1>7, <2>4, <3>1 DEF FromList
  <2> QED
    BY <1>1, <2>1, <2>2, <2>3, <2>4 DEF Gets
<1>8. ASSUME NEW h \in 1..Len(lists'), NEW i \in 1..Len(lists'[h]), NEW e, e = lists'[h][i],
             pointer'[r] = h \/ \E d \in Clients : call'[d].hash = h /\ RequestOf(d) = r
      PROVE  EntryTold(t, r, e)'
  <2>1. CASE UNCHANGED <<pointer, lists>>
    <3>1. LeadsTo(r, h)
      BY <1>4, <1>8, <2>1 DEF LeadsTo, NoHash
    <3> QED
      BY <1>5, <1>8, <2>1, <3>1
  <2>2. CASE Swapped(c)
    <3>1. PICK list \in Seq(Entry) :
             /\ lists' = Append(lists, list)
             /\ \A k \in 1..Len(list) : \E j \in 1..Len(call[c].data) : list[k] = call[c].data[j]
      BY <2>2 DEF Swapped
    <3>2. /\ Len(lists') = Len(lists) + 1 /\ \A k \in 1..Len(lists) : lists'[k] = lists[k]
          /\ lists'[Len(lists) + 1] = list
      BY <1>1, <3>1, Longer
    <3>3. pointer' = [pointer EXCEPT ![RequestOf(c)] = Len(lists) + 1]
      BY <2>2 DEF Swapped
    <3>4. CASE h = Len(lists) + 1
      <4>1. pointer'[r] = h
        BY <1>1, <1>4, <1>8, <3>4
      <4>2. RequestOf(c) = r
        BY <1>1, <1>3, <3>3, <3>4, <4>1
      <4> QED
        BY <1>6, <1>8, <3>1, <3>2, <3>4, <4>2
    <3>5. CASE h # Len(lists) + 1
      <4>1. h \in 1..Len(lists)
        BY <1>1, <1>8, <3>2, <3>5
      <4>2. LeadsTo(r, h)
        BY <1>3, <1>4, <1>8, <3>3, <3>5, <4>1 DEF LeadsTo, NoHash
      <4> QED
        BY <1>5, <1>8, <3>2, <4>1, <4>2
    <3> QED
      BY <3>4, <3>5
  <2> QED
    BY <2>1, <2>2 DEF Gets
<1>9. ASSUME NEW h \in 1..Len(lists'), LeadsTo(r, h)', NEW i \in 1..Len(lists'[h])
      PROVE  EntryTold(t, r, lists[h][i])'
  <2>1. PICK e : e = lists'[h][i]
    OBVIOUS
  <2>2. EntryTold(t, r, e)'
    BY <1>8, <1>9, <2>1 DEF LeadsTo
  <2> QED
    BY <2>1, <2>2 DEF EntryTold
<1>10. ASSUME NEW d \in Clients, NEW i \in 1..Len(call'[d].data), RequestOf(d)' = r
       PROVE  EntryTold(t, r, call[d].data[i])'
  <2>1. PICK e : e = call'[d].data[i]
    OBVIOUS
  <2>2. EntryTold(t, r, e)'
    BY <1>7, <1>10, <2>1
  <2> QED
    BY <2>1, <2>2 DEF EntryTold
<1> QED
  BY <1>9, <1>10 DEF CacheTold

-----------------------------------------------------------------------------
(* How a step of a coroutine moves the calls of the clients. *)
SetMoves(t) ==
    LET c == Coroutine(t)
    IN  /\ CachedSet(t) /\ Sets(t)
        /\ \/ call'[c] = NoCall
           \/ call'[c].hash = pointer[RequestOf(c)] /\ call'[c].data = <<>> /\ RequestOf(c)' = RequestOf(c)

GetMoves(t) ==
    LET c == Coroutine(t)
    IN  CallCache(t) /\ Gets(c) /\ \A d \in Clients : RequestOf(d)' = RequestOf(d)

LEMMA TaskCalls ==
    ASSUME CachedInv, NEW t \in Tasks, CachedStep(t)
    PROVE  /\ \A d \in Clients \ {Coroutine(t)} : RequestOf(d)' = RequestOf(d) /\ call'[d] = call[d]
           /\ pc[t] \in Calling => RequestOf(Coroutine(t)) = Msg(t).request_id /\ RequestOf(Coroutine(t)) \in RequestIds
           /\ \/ GetMoves(t)
              \/ SetMoves(t)
              \/ ~CallCache(t) /\ ~CachedSet(t) /\ UNCHANGED <<pointer, lists>> /\ Follows(Coroutine(t))
<1> DEFINE c == Coroutine(t)
<1>1. World /\ LocalsTrue(t) /\ (pc[t] = "set" => dump[t].id \in Ids)
  BY InvParts DEF LocalsTrue
<1>2. /\ Frames(t) /\ Shape(t) /\ Position(t) /\ c \in Clients /\ TaskClient(t)
  BY <1>1, StepFrames, StepShape, StepPosition, ClientsAre, StepClient DEF World
<1>3. batch' = batch /\ \A s \in Tasks \ {t} : idx'[s] = idx[s]
  BY <1>2 DEF Shape, Changes
<1>4. \A d \in Clients \ {c} : RequestOf(d)' = RequestOf(d) /\ call'[d] = call[d]
  <2> SUFFICES ASSUME NEW d \in Clients \ {c} PROVE RequestOf(d)' = RequestOf(d)
    BY <1>2 DEF TaskClient
  <2>1. idx'[d[1]] = idx[d[1]] \/ d[2] # 0
    BY <1>3, ClientsAre
  <2> QED
    BY <1>3, <2>1, RequestKept
<1>5. pc[t] \in Calling => RequestOf(c) = Msg(t).request_id /\ RequestOf(c) \in RequestIds
  BY <1>1, MessageIs, ClientsAre DEF RequestOf, Message, World, Calling
<1>6. pc'[t] \in Calling => RequestOf(c)' = RequestOf(c)
  <2>1. pc'[t] \in Calling => idx'[t] = idx[t]
    BY <1>2 DEF Position, Calling
  <2> QED
    BY <1>2, <1>3, <2>1, RequestKept, ClientsAre
<1>7. CASE CallCache(t)
  <2>1. GetStep(c) /\ idx' = idx /\ pc[t] \in Calling
    BY <1>7 DEF CallCache, Calling
  <2>2. Gets(c)
    BY <1>1, <1>2, <1>5, <2>1, GetGets DEF World
  <2>3. \A d \in Clients : RequestOf(d)' = RequestOf(d)
    BY <1>3, <2>1, RequestKept
  <2> QED
    BY <1>4, <1>5, <1>7, <2>2, <2>3 DEF GetMoves
<1>8. CASE CachedSet(t)
  <2>1. pc[t] = "set"
    BY <1>8 DEF CachedSet
  <2>2. Sets(t)
    BY <1>1, <1>8, <2>1, SetSets DEF World
  <2>3. \/ call'[c] = NoCall
        \/ call'[c].hash = pointer[RequestOf(c)] /\ call'[c].data = <<>> /\ RequestOf(c)' = RequestOf(c)
    BY <1>6, <2>2 DEF Sets
  <2> QED
    BY <1>4, <1>5, <1>8, <2>2, <2>3 DEF SetMoves
<1>9. CASE ~CallCache(t) /\ ~CachedSet(t)
  <2>1. UNCHANGED <<pointer, lists>>
    BY <1>2, <1>9 DEF Frames
  <2>2. call'[c] = call[c] \/ call'[c] = NoCall
    <3>1. CASE CachedGet(t) \/ CachedReget(t) \/ CachedGetFails(t)
      <4>1. EndCall(t)
        BY <3>1 DEF CachedGet, CachedReget, CachedGetFails
      <4> QED
        BY <1>1, <1>2, <4>1, EndsIs DEF EndCall, World
    <3> QED
      BY <1>2, <1>9, <3>1 DEF Frames
  <2>3. pc'[t] \notin Calling => call'[c] = NoCall
    BY <1>2 DEF TaskClient
  <2>4. Follows(c)
    BY <1>6, <2>2, <2>3 DEF Follows
  <2> QED
    BY <1>4, <1>5, <1>9, <2>1, <2>4
<1> QED
  BY <1>7, <1>8, <1>9

-----------------------------------------------------------------------------
LEMMA ListsTold ==
    ASSUME World, NEW t, NEW r, ToldStays(t, r), CacheTold(t, r), pointer' = pointer, Len(lists') = Len(lists),
           \A h \in 1..Len(lists) : \A i \in 1..Len(lists'[h]) :
               LeadsTo(r, h) => \A e : e = lists'[h][i] => EntryTold(t, r, e)',
           \A d \in Clients : \/ Follows(d)
                              \/ /\ call'[d].hash = pointer[RequestOf(d)] /\ RequestOf(d)' = RequestOf(d)
                                 /\ call'[d].data = <<>>
    PROVE  CacheTold(t, r)'
<1>1. ASSUME NEW h \in 1..Len(lists'), LeadsTo(r, h)', NEW i \in 1..Len(lists'[h])
      PROVE  EntryTold(t, r, lists[h][i])'
  <2>1. LeadsTo(r, h)
    BY <1>1 DEF LeadsTo, Follows, NoCall, NoHash
  <2>2. PICK e : e = lists'[h][i]
    OBVIOUS
  <2>3. EntryTold(t, r, e)'
    BY <1>1, <2>1, <2>2
  <2> QED
    BY <2>2, <2>3 DEF EntryTold
<1>2. ASSUME NEW d \in Clients, NEW i \in 1..Len(call'[d].data), RequestOf(d)' = r
      PROVE  EntryTold(t, r, call[d].data[i])'
  <2>1. call'[d] = call[d] /\ RequestOf(d) = r
    BY <1>2 DEF Follows, NoCall
  <2>2. PICK e : e = call[d].data[i]
    OBVIOUS
  <2>3. EntryTold(t, r, e)
    BY <1>2, <2>1, <2>2 DEF CacheTold
  <2>4. EntryTold(t, r, e)'
    BY <2>3 DEF ToldStays
  <2> QED
    BY <2>1, <2>2, <2>4 DEF EntryTold
<1> QED
  BY <1>1, <1>2 DEF CacheTold

(* A step that leaves the lists alone, or only lets messages expire. *)
LEMMA RestTold ==
    ASSUME World, NEW t, NEW r, ToldStays(t, r), CacheTold(t, r), pointer' = pointer, lists' = lists \/ Fades,
           \A d \in Clients : Follows(d)
    PROVE  CacheTold(t, r)'
<1>1. Len(lists') = Len(lists)
  BY DEF Fades
<1>2. ASSUME NEW h \in 1..Len(lists), NEW i \in 1..Len(lists'[h]), LeadsTo(r, h), NEW e, e = lists'[h][i]
      PROVE  EntryTold(t, r, e)'
  <2>1. PICK j \in 1..Len(lists[h]) : e.attrs = lists[h][j].attrs
    BY <1>2 DEF Fades
  <2>2. EntryTold(t, r, lists[h][j])
    BY <1>2 DEF CacheTold
  <2>3. EntryTold(t, r, e)
    BY <2>1, <2>2 DEF EntryTold
  <2> QED
    BY <2>3 DEF ToldStays
<1> QED
  BY <1>1, <1>2, ListsTold

(* The columns of the current message, once its payload is known. *)
LEMMA SetKeeps ==
    ASSUME World, NEW t \in Tasks, CachedStep(t), UpdateSpawned(t), NEW r, r = Msg(t).request_id,
           \A a \in Attrs : dump[t].attrs[a] # None => Kept(r, a)
    PROVE  \A a \in Attrs : Msg(t).attrs[a] # None => Kept(r, a)'
<1>1. Retains(r)
  BY StepRetains
<1>2. \A a \in Attrs : dump[t].attrs[a] = None /\ Msg(t).attrs[a] # None => Kept(r, a)'
  <2>1. PICK p : p = dump[t]
    OBVIOUS
  <2>2. UsePayload(t, p)
    BY <2>1 DEF UpdateSpawned
  <2> QED
    BY <2>1, <2>2, SpawnedIs
<1> QED
  BY <1>1, <1>2 DEF Retains

LEMMA PushTold ==
    ASSUME World, NEW t \in Tasks, CachedSet(t), AfterSet(t), NEW r, r = Msg(t).request_id,
           tx[t] = NoRow => \A a \in Attrs : dump[t].attrs[a] # None => Kept(r, a),
           NEW e, e.attrs = Msg(t).attrs
    PROVE  EntryTold(t, r, e)'
<1>1. pc[t] = "set" /\ CachedStep(t)
  BY DEF CachedSet, CachedStep
<1>2. CASE tx[t] = NoRow
  <2>1. UpdateSpawned(t)
    BY <1>1, <1>2 DEF AfterSet, UpdateSpawned
  <2> QED
    BY <1>1, <1>2, <2>1, SetKeeps DEF EntryTold
<1>3. CASE tx[t] # NoRow
  <2>1. pc'[t] = "commit" /\ idx'[t] = idx[t] /\ batch' = batch
    BY <1>1, <1>3, AfterSetShape, StepFrames DEF Moves, World, Frames
  <2>2. Msg(t)' = Msg(t)
    BY <2>1 DEF Msg
  <2> QED
    BY <2>1, <2>2 DEF EntryTold
<1> QED
  BY <1>2, <1>3

LEMMA TaskTold ==
    ASSUME CachedInv, NEW s \in Tasks, CachedStep(s), NEW t \in Tasks, NEW r \in RequestIds, Unharmed(t, r)',
           CacheTold(t, r),
           \A q : q = Msg(s).request_id /\ pc[s] = "set" /\ tx[s] = NoRow /\ Unharmed(s, q) =>
               \A a \in Attrs : dump[s].attrs[a] # None => Kept(q, a)
    PROVE  CacheTold(t, r)'
<1> DEFINE c == Coroutine(s)
<1>1. World /\ CacheType' /\ c \in Clients
  BY TaskInv, InvParts, ClientsAre DEF CachedInv
<1>2. ToldStays(t, r) /\ batch' = batch /\ faulted \subseteq faulted'
  BY <1>1, StepTold, StepFrames, StepBlames DEF Frames, Blames
<1>3. Unharmed(t, r) /\ Lone(t, r)
  BY <1>2, UnharmedBefore
<1>4. \A d \in Clients \ {c} : Follows(d)
  BY TaskCalls DEF Follows
<1>5. CASE GetMoves(s)
  <2>1. RequestOf(c) \in RequestIds
    BY <1>5, TaskCalls DEF GetMoves, CallCache, Calling
  <2> QED
    BY <1>1, <1>2, <1>5, <2>1, GetsTold DEF GetMoves
<1>6. CASE SetMoves(s)
  <2>1. pc[s] = "set" /\ pc[s] \notin Idle /\ RequestOf(c) = Msg(s).request_id
    BY <1>6, TaskCalls DEF SetMoves, CachedSet, Calling
  <2>2. \A d \in Clients : \/ Follows(d)
                           \/ /\ call'[d].hash = pointer[RequestOf(d)] /\ RequestOf(d)' = RequestOf(d)
                              /\ call'[d].data = <<>>
    BY <1>4, <1>6 DEF SetMoves, Follows
  <2>3. CASE UNCHANGED <<pointer, lists>>
    <3>1. ASSUME NEW h \in 1..Len(lists), NEW i \in 1..Len(lists'[h]), LeadsTo(r, h), NEW e, e = lists'[h][i]
          PROVE  EntryTold(t, r, e)'
      BY <1>2, <2>3, <3>1 DEF CacheTold, ToldStays
    <3> QED
      BY <1>1, <1>2, <2>2, <2>3, <3>1, ListsTold
  <2>4. CASE Push(c, Msg(s), dump[s].id) /\ AfterSet(s)
    <3>1. Msg(s) \in Message /\ CacheLists /\ dump[s].id \in Ids
      BY <1>1, <2>1, MessageIs, CacheListsAre, InvParts DEF World, LocalsTrue
    <3>2. /\ Len(lists') = Len(lists) /\ pointer' = pointer
          /\ \A h \in 1..Len(lists) : h # call[c].hash => lists'[h] = lists[h]
          /\ call[c].hash # NoHash => \A i \in 1..Len(lists'[call[c].hash]) :
                \/ lists'[call[c].hash][i] = Pushed(Msg(s), dump[s].id)
                \/ \E j \in 1..Len(lists[call[c].hash]) : lists'[call[c].hash][i] = lists[call[c].hash][j]
      BY <1>1, <2>4, <3>1, PushIs
    <3>3. ASSUME NEW h \in 1..Len(lists), NEW i \in 1..Len(lists'[h]), LeadsTo(r, h), NEW e, e = lists'[h][i]
          PROVE  EntryTold(t, r, e)'
      <4>1. CASE \E j \in 1..Len(lists[h]) : e = lists[h][j]
        BY <1>2, <3>3, <4>1 DEF CacheTold, ToldStays
      <4>2. CASE h = call[c].hash /\ e = Pushed(Msg(s), dump[s].id)
        <5>1. PICK owner \in [1..Len(lists) -> RequestIds] : Owned(owner)
          BY InvParts
        <5>2. owner[h] = RequestOf(c)
          BY <1>1, <4>2, <5>1 DEF Owned, NoHash
        <5>3. owner[h] = r
          BY <3>3, <5>1 DEF LeadsTo, Owned, NoHash
        <5>4. Msg(s).request_id = r
          BY <2>1, <5>2, <5>3
        <5>5. s = t
          BY <1>1, <1>3, <2>1, <5>4, OneTask
        <5>6. e.attrs = Msg(s).attrs
          BY <4>2 DEF Pushed
        <5> QED
          BY <1>1, <1>3, <1>6, <2>1, <2>4, <5>4, <5>5, <5>6, PushTold DEF SetMoves
      <4> QED
        BY <3>2, <3>3, <4>1, <4>2 DEF NoHash
    <3> QED
      BY <1>1, <1>2, <2>2, <3>2, <3>3, ListsTold
  <2> QED
    BY <1>6, <2>3, <2>4 DEF SetMoves, Sets
<1>7. CASE ~CallCache(s) /\ ~CachedSet(s) /\ UNCHANGED <<pointer, lists>> /\ Follows(c)
  BY <1>1, <1>2, <1>4, <1>7, RestTold
<1> QED
  BY <1>5, <1>6, <1>7, TaskCalls

-----------------------------------------------------------------------------
(* The current message of an unharmed request: its call, and its columns. *)
CallTold(t) ==
    LET now == call[Coroutine(t)]
    IN
    /\ now.at # "failed"
    /\ now.at = "rows" => \A s \in RowsOf(Msg(t).request_id) : \A k \in Columns :
                              s.ids[k] # NoId => \E n \in now.names[k] : n.id = s.ids[k]

DumpTold(t) ==
    /\ pc[t] \in {"get", "create", "reget"} => sps[t].payload_id = NoId
    /\ pc[t] = "set" /\ tx[t] = NoRow =>
          \A a \in Attrs : dump[t].attrs[a] # None => Kept(Msg(t).request_id, a)
    /\ pc[t] \in ColumnsOn => sps[t].payload_id = NoId \/ MessageKept(t)

Told(t, r) ==
    /\ World /\ Places /\ Attribution /\ LocalsTrue(t) /\ pc[t] \notin Idle /\ r = Request(t)
    /\ Unharmed(t, r)' /\ Current(t) \notin faulted'
    /\ CacheTold(t, r) /\ CallTold(t) /\ DumpTold(t)

LEMMA ColumnsAre ==
    ASSUME NEW t
    PROVE  /\ ColumnsTold(t) <=> CallTold(t) /\ DumpTold(t)
           /\ ColumnsTold(t)' <=> CallTold(t)' /\ DumpTold(t)'
BY DEF ColumnsTold, CallTold, DumpTold, ColumnsOn

LEMMA UniqueTold ==
    ASSUME CacheType, NEW c \in Clients, call[c].data # <<>>, NEW a \in Attrs, UniqueValues(c).attrs[a] # None
    PROVE  \E i \in 1..Len(call[c].data) : call[c].data[i].attrs[a] # None
<1> DEFINE data == call[c].data
           with(b) == {e \in Entries(data) : e.attrs[b] # None}
<1>1. data \in Seq(Entry) /\ Len(data) \in Nat
  BY CallIs
<1>2. UniqueValues(c).attrs = [b \in Attrs |-> IF with(b) = {} THEN None ELSE (CHOOSE e \in with(b) : TRUE).attrs[b]]
  BY DEF UniqueValues
<1>3. with(a) # {}
  BY <1>2
<1>4. PICK e \in Entries(data) : e.attrs[a] # None
  BY <1>3
<1>5. PICK i \in 1..Len(data) : e = data[i]
  BY <1>1, <1>4, EntriesAre
<1> QED
  BY <1>4, <1>5

LEMMA ToldIs ==
    ASSUME CachedInv, Places, NEW t \in Tasks, pc[t] \notin Idle, CachedStep(t), NEW r, r = Request(t), Unharmed(t, r)',
           Unharmed(t, r) => CacheTold(t, r) /\ ColumnsTold(t)
    PROVE  Told(t, r)
<1>1. World /\ Attribution /\ LocalsTrue(t)
  BY InvParts
<1>2. batch' = batch /\ faulted \subseteq faulted'
  BY StepFrames, StepBlames DEF Frames, Blames
<1>3. Unharmed(t, r)
  BY <1>2, UnharmedBefore
<1>4. Current(t) \notin faulted'
  BY <1>1, <1>2, Blameless DEF Request
<1> QED
  BY <1>1, <1>3, <1>4, ColumnsAre DEF Told

LEMMA CallToldFrom ==
    ASSUME NEW t, NEW r, Msg(t)'.request_id = r,
           LET now == call'[Coroutine(t)]
           IN /\ now.at # "failed"
              /\ now.at = "rows" => \A s \in RowsOf(r)' : \A k \in Columns :
                                        s.ids[k] # NoId => \E n \in now.names[k] : n.id = s.ids[k]
    PROVE  CallTold(t)'
BY DEF CallTold, Coroutine, RowsOf

LEMMA CallToldStep ==
    ASSUME CachedInv, NEW t \in Tasks, CachedStep(t), NEW r, CallCache(t) => Told(t, r)
    PROVE  CallTold(t)'
<1> DEFINE c == Coroutine(t)
<1>1. World
  BY InvParts
<1>2. CASE ~CallCache(t)
  <2>1. call'[c].at \in {"idle", "push"}
    BY <1>1, <1>2, CallQuiet
  <2> QED
    BY <2>1 DEF CallTold, Coroutine
<1>3. CASE CallCache(t)
  <2>1. /\ pc' = pc /\ UNCHANGED <<batch, idx, statuses, payloads>> /\ GetStep(c)
    BY <1>3 DEF CallCache, Elsewhere
  <2>2. Told(t, r) /\ CallTold(t) /\ Places /\ Attribution /\ r = Request(t)
    BY <1>3 DEF Told
  <2>3. Msg(t)'.request_id = r /\ RowsOf(r)' = RowsOf(r) /\ RowsOf(Request(t)) = RowsOf(r)
    BY <2>1, <2>2 DEF Msg, RowsOf, Request
  <2>4. ~CallFails(c)
    BY <2>2, CallBlames DEF Told
  <2>5. Outcome(t)
    BY <1>1, <2>1, GetOutcome DEF World
  <2>6. ASSUME call[c].at = "rows", NEW s \in RowsOf(Request(t)) PROVE Named(c, s)
    BY <2>2, <2>6 DEF CallTold, Named, Request
  <2>7. ASSUME call'[c].names = redisNames, NEW s \in RowsOf(r), NEW k \in Columns, s.ids[k] # NoId
        PROVE  \E n \in call'[c].names[k] : n.id = s.ids[k]
    <3>1. s \in statuses
      BY DEF RowsOf
    <3>2. [id |-> s.ids[k], name |-> Source(s).name[k]] \in names[k]
      BY <2>2, <2>7, <3>1 DEF Attribution
    <3>3. names[k] \subseteq redisNames[k]
      BY <2>2 DEF Places
    <3> QED
      BY <2>7, <3>2, <3>3
  <2>8. /\ call'[c].at # "failed"
        /\ call'[c].at = "rows" => call'[c].names = redisNames
    BY <2>4, <2>5, <2>6 DEF Outcome
  <2> QED
    BY <2>3, <2>7, <2>8, CallToldFrom
<1> QED
  BY <1>2, <1>3

LEMMA DumpToldFrom ==
    ASSUME NEW t, NEW r, Msg(t)' = Msg(t), r = Request(t),
           pc'[t] \in {"get", "create", "reget"} => sps'[t].payload_id = NoId,
           pc'[t] = "set" /\ tx'[t] = NoRow => \A a \in Attrs : dump'[t].attrs[a] # None => Kept(r, a)',
           pc'[t] \in ColumnsOn =>
               sps'[t].payload_id = NoId \/ \A a \in Attrs : Msg(t).attrs[a] # None => Kept(r, a)'
    PROVE  DumpTold(t)'
BY DEF DumpTold, MessageKept, Kept, Request, ColumnsOn

LEMMA ToldFacts ==
    ASSUME NEW t \in Tasks, NEW r, Told(t, r), CachedStep(t)
    PROVE  /\ World /\ BaseType /\ CacheType /\ CachedWorking(t) /\ TxTrue(t) /\ LocalsTrue(t)
           /\ batch' = batch /\ Shape(t) /\ Locally(t) /\ Position(t) /\ Retains(r)
           /\ ~Fault(Current(t)) /\ call[Coroutine(t)].at # "failed" /\ pc[t] \notin Idle
           /\ r = Request(t) /\ Unharmed(t, r)
           /\ pc'[t] \notin Idle => Msg(t)' = Msg(t)
<1>1. World /\ BaseType /\ CacheType /\ CachedWorking(t) /\ TxTrue(t) /\ LocalsTrue(t) /\ pc[t] \notin Idle /\ r = Request(t)
  BY DEF Told, World
<1>2. Shape(t) /\ Locally(t) /\ Position(t) /\ Retains(r)
  BY <1>1, StepShape, StepLocals, StepPosition, StepRetains
<1>3. batch' = batch /\ faulted \subseteq faulted'
  BY StepFrames, StepBlames DEF Frames, Blames
<1>4. ~Fault(Current(t)) /\ call[Coroutine(t)].at # "failed"
  BY DEF Told, CallTold, Fault
<1>5. Unharmed(t, r)
  BY <1>3, UnharmedBefore DEF Told
<1>6. pc'[t] \notin Idle => Msg(t)' = Msg(t)
  BY <1>2, <1>3 DEF Position, Msg
<1> QED
  BY <1>1, <1>2, <1>3, <1>4, <1>5, <1>6

LEMMA FetchTold ==
    ASSUME NEW t \in Tasks, NEW r, Told(t, r), CachedStep(t), pc[t] # "commit",
           TakeDump(t), call[Coroutine(t)].data # <<>>
    PROVE  DumpTold(t)'
<1> DEFINE c == Coroutine(t)
<1>1. World /\ BaseType /\ CacheType /\ c \in Clients /\ Retains(r) /\ r = Request(t) /\ CacheTold(t, r)
  BY ToldFacts, ClientsAre DEF Told
<1>2. dump'[t] = UniqueValues(c) /\ pc'[t] = "set"
  BY <1>1, TakeDumpShape DEF Moves
<1>3. RequestOf(c) = r
  BY <1>1, ClientsAre DEF RequestOf, Request
<1>4. ASSUME NEW a \in Attrs, dump'[t].attrs[a] # None PROVE Kept(r, a)'
  <2>1. PICK i \in 1..Len(call[c].data) : call[c].data[i].attrs[a] # None
    BY <1>1, <1>2, <1>4, UniqueTold
  <2>2. EntryTold(t, r, call[c].data[i])
    BY <1>1, <1>3 DEF CacheTold
  <2> QED
    BY <1>1, <2>1, <2>2 DEF EntryTold, Retains
<1>5. Msg(t)' = Msg(t) /\ "set" \notin ColumnsOn
  BY <1>2, ToldFacts DEF ColumnsOn, Resolving, AtName, Storing
<1> QED
  BY <1>1, <1>2, <1>4, <1>5, DumpToldFrom

LEMMA PayloadTold ==
    ASSUME NEW t \in Tasks, NEW r, Told(t, r), CachedStep(t), pc[t] \notin ColumnsOn
    PROVE  DumpTold(t)'
<1>1. /\ World /\ BaseType /\ CacheType /\ CachedWorking(t) /\ TxTrue(t) /\ LocalsTrue(t)
      /\ batch' = batch /\ Shape(t) /\ Retains(r)
      /\ ~Fault(Current(t)) /\ call[Coroutine(t)].at # "failed" /\ pc[t] \notin Idle
      /\ r = Request(t) /\ Unharmed(t, r)' /\ DumpTold(t)
      /\ pc'[t] \notin Idle => Msg(t)' = Msg(t)
  BY ToldFacts DEF Told
<1>2. {"set", "commit", "get", "create", "reget"} \cap ColumnsOn = {} /\ "column" \in ColumnsOn
  BY DEF ColumnsOn, Resolving, AtName, Storing
<1>3. CASE CallCache(t)
  <2>1. /\ pc'[t] = pc[t] /\ pc[t] \in {"get", "reget", "set"} /\ sps'[t] = sps[t] /\ dump'[t] = dump[t]
        /\ tx'[t] = tx[t]
    BY <1>1, <1>3 DEF CallCache
  <2>2. pc[t] = "set" /\ tx[t] = NoRow => \A a \in Attrs : dump[t].attrs[a] # None => Kept(r, a)
    BY <1>1 DEF DumpTold, Request
  <2> QED
    BY <1>1, <1>2, <2>1, <2>2, DumpToldFrom DEF DumpTold, Retains
<1>4. CASE CachedGet(t)
  <2>1. CASE TakeDump(t) /\ call[Coroutine(t)].data # <<>>
    BY <1>4, <2>1, FetchTold DEF CachedGet, Returned
  <2>2. CASE Goto(t, "create") /\ UNCHANGED sps
    <3>1. pc'[t] = "create" /\ sps[t].payload_id = NoId
      BY <1>1, <1>4, <2>2, GotoNamed DEF CachedGet, Moves, Returned, DumpTold
    <3> QED
      BY <1>1, <1>2, <2>2, <3>1, DumpToldFrom
  <2> QED
    BY <1>4, <2>1, <2>2 DEF CachedGet
<1>5. CASE CachedReget(t)
  <2>1. CASE TakeDump(t) /\ call[Coroutine(t)].data # <<>>
    BY <1>5, <2>1, FetchTold DEF CachedReget, Returned
  <2>2. CASE StartColumns(t) /\ UNCHANGED sps
    <3>1. pc'[t] = "column" /\ sps[t].payload_id = NoId
      BY <1>1, <1>5, <2>2, StartMoves DEF CachedReget, Moves, Returned, DumpTold
    <3> QED
      BY <1>1, <1>2, <2>2, <3>1, DumpToldFrom
  <2> QED
    BY <1>5, <2>1, <2>2 DEF CachedReget
<1>6. CASE CachedGetFails(t)
  BY <1>1, <1>6 DEF CachedGetFails, At
<1>7. CASE CachedSet(t)
  <2>1. pc[t] = "set" /\ dump' = dump /\ ((Goto(t, "set") /\ UNCHANGED tx) \/ AfterSet(t))
    BY <1>1, <1>7 DEF CachedSet, At
  <2>2. tx[t] = NoRow => \A a \in Attrs : dump[t].attrs[a] # None => Kept(r, a)
    BY <1>1, <2>1 DEF DumpTold, Request
  <2>3. CASE Goto(t, "set") /\ UNCHANGED tx
    <3>1. pc'[t] = "set"
      BY <1>1, <2>3, GotoNamed DEF Moves
    <3> QED
      BY <1>1, <1>2, <2>1, <2>2, <2>3, <3>1, DumpToldFrom DEF Retains
  <2>4. CASE AfterSet(t) /\ tx[t] # NoRow
    <3>1. pc'[t] = "commit"
      BY <1>1, <2>4, AfterSetShape DEF Moves
    <3> QED
      BY <1>1, <1>2, <3>1, DumpToldFrom
  <2>5. CASE AfterSet(t) /\ tx[t] = NoRow
    <3>1. pc'[t] = "column" /\ UpdateSpawned(t)
      BY <1>1, <1>7, <2>1, <2>5, AfterSetShape DEF Moves, AfterSet, UpdateSpawned
    <3>2. \A a \in Attrs : Msg(t).attrs[a] # None => Kept(r, a)'
      BY <1>1, <2>2, <2>5, <3>1, SetKeeps DEF Request
    <3> QED
      BY <1>1, <1>2, <3>1, <3>2, DumpToldFrom
  <2> QED
    BY <2>1, <2>3, <2>4, <2>5
<1>8. CASE InsertPayload(t)
  <2>1. pc[t] = "create" /\ sps[t].payload_id = NoId
    BY <1>1, <1>8 DEF InsertPayload, DumpTold
  <2>2. CASE Goto(t, "reget") /\ UNCHANGED sps
    <3>1. pc'[t] = "reget"
      BY <1>1, <2>2, GotoNamed DEF Moves
    <3> QED
      BY <1>1, <1>2, <2>1, <2>2, <3>1, DumpToldFrom
  <2>3. CASE Known(t) = {}
    <3>1. PICK x : /\ tx' = [tx EXCEPT ![t] = x] /\ Goto(t, "set")
                   /\ x = [table |-> "payloads", key |-> Msg(t).request_id, id |-> nextId["payloads"] + 1]
      BY <1>1, <1>8, <2>3 DEF InsertPayload
    <3>2. pc'[t] = "set" /\ tx'[t] = x
      BY <1>1, <3>1, GotoNamed DEF Moves, BaseType
    <3>3. x \in TxRow
      <4>1. nextId["payloads"] \in Nat /\ r \in RequestIds /\ "payloads" \in Tables
        BY <1>1, RowsAre, CurrentIs DEF Request
      <4> QED
        BY <1>1, <3>1, <4>1 DEF TxRow, Request
    <3> QED
      BY <1>1, <1>2, <3>2, <3>3, CachedAssumption, DumpToldFrom
  <2> QED
    BY <1>1, <1>8, <2>2, <2>3 DEF InsertPayload
<1>9. CASE CommitPayload(t)
  <2>1. pc'[t] = "column" /\ \A a \in Attrs : Msg(t).attrs[a] # None => Kept(r, a)'
    BY <1>1, <1>9, CommitKeeps DEF Request
  <2> QED
    BY <1>1, <1>2, <2>1, DumpToldFrom
<1> QED
  BY <1>1, <1>3, <1>4, <1>5, <1>6, <1>7, <1>8, <1>9, PayloadActions

LEMMA NameTold ==
    ASSUME NEW t \in Tasks, NEW r, Told(t, r), CachedStep(t), pc[t] \in ColumnsOn, pc'[t] \notin Idle
    PROVE  DumpTold(t)'
<1>1. /\ BaseType /\ CachedWorking(t) /\ Locally(t) /\ Retains(r) /\ r = Request(t) /\ DumpTold(t)
      /\ Msg(t)' = Msg(t)
  BY ToldFacts DEF Told
<1>2. pc'[t] \in ColumnsOn
  BY <1>1, NamesGoOn
<1>3. {"set", "get", "create", "reget", "next", "done", "dead"} \cap ColumnsOn = {}
  BY DEF ColumnsOn, Resolving, AtName, Storing
<1>4. sps'[t].payload_id = sps[t].payload_id
  BY <1>1, <1>2, <1>3 DEF Locally, Fetched, UsesDump, Resolves, Anticipates, Lingers, Opened
<1>5. sps[t].payload_id = NoId \/ \A a \in Attrs : Msg(t).attrs[a] # None => Kept(r, a)
  BY <1>1 DEF DumpTold, MessageKept, Request
<1>6. sps[t].payload_id = NoId \/ \A a \in Attrs : Msg(t).attrs[a] # None => Kept(r, a)'
  BY <1>1, <1>5 DEF Retains
<1> QED
  BY <1>1, <1>2, <1>3, <1>4, <1>6, DumpToldFrom

(* The columns of the message that is current after the step. *)
LEMMA ColumnsStep ==
    ASSUME CachedInv, Places, NEW t \in Tasks, CachedStep(t), pc'[t] \notin Idle,
           NEW r, r = Msg(t)'.request_id, Unharmed(t, r)',
           \A q : pc[t] \notin Idle /\ q = Request(t) /\ Unharmed(t, q) => CacheTold(t, q) /\ ColumnsTold(t)
    PROVE  ColumnsTold(t)'
<1>1. World /\ BaseType /\ CacheType /\ CachedWorking(t) /\ TxTrue(t)
  BY InvParts DEF World
<1>2. Locally(t) /\ Position(t) /\ batch' = batch
  BY <1>1, StepLocals, StepPosition, StepFrames DEF Frames
<1>3. Msg(t)' = Msg(t)
  BY <1>2 DEF Position, Msg
<1>4. CASE pc[t] \notin Idle
  <2>1. Told(t, r)
    BY <1>3, <1>4, ToldIs DEF Request
  <2> QED
    BY <2>1, CallToldStep, PayloadTold, NameTold, ColumnsAre
<1>5. CASE pc[t] \in Idle
  <2>1. pc'[t] = "get" /\ sps'[t] = EmptySps /\ ~CallCache(t)
    BY <1>2, <1>5 DEF Locally, Position, CallCache
  <2>2. "get" \notin ColumnsOn
    BY DEF ColumnsOn, Resolving, AtName, Storing
  <2>3. DumpTold(t)'
    BY <2>1, <2>2 DEF DumpTold, EmptySps, ColumnsOn
  <2> QED
    BY <2>1, <2>3, CallToldStep, ColumnsAre
<1> QED
  BY <1>4, <1>5

(* A step that leaves the current message of t alone. *)
LEMMA ColumnsStay ==
    ASSUME NEW t, NEW r, r = Request(t), Msg(t)' = Msg(t), pc'[t] = pc[t], sps'[t] = sps[t], dump'[t] = dump[t],
           tx'[t] = tx[t], call'[Coroutine(t)] = call[Coroutine(t)], RowsOf(r)' = RowsOf(r), Retains(r), ColumnsTold(t)
    PROVE  ColumnsTold(t)'
<1>1. CallTold(t) /\ DumpTold(t) /\ Msg(t)'.request_id = r /\ RowsOf(Msg(t).request_id) = RowsOf(r)
  BY ColumnsAre DEF Request
<1>2. CallTold(t)'
  BY <1>1, CallToldFrom DEF CallTold
<1>3. /\ pc[t] = "set" /\ tx[t] = NoRow => \A a \in Attrs : dump[t].attrs[a] # None => Kept(r, a)'
      /\ pc[t] \in ColumnsOn => sps[t].payload_id = NoId \/ \A a \in Attrs : Msg(t).attrs[a] # None => Kept(r, a)'
  BY <1>1 DEF DumpTold, MessageKept, Request, Retains
<1>4. pc'[t] \in ColumnsOn <=> pc[t] \in ColumnsOn
  BY DEF ColumnsOn
<1>5. DumpTold(t)'
  BY <1>1, <1>3, <1>4, DumpToldFrom DEF DumpTold
<1> QED
  BY <1>2, <1>5, ColumnsAre

LEMMA OtherColumns ==
    ASSUME CachedInv, CachedInv', NEW s \in Tasks, CachedStep(s), NEW t \in Tasks \ {s},
           NEW r, r = Request(t), Unharmed(t, r)', ColumnsTold(t)
    PROVE  ColumnsTold(t)'
<1>1. World /\ batch' = batch
  BY InvParts, StepFrames DEF Frames
<1>2. Shape(s) /\ Retains(r) /\ call'[Coroutine(t)] = call[Coroutine(t)]
  BY <1>1, StepShape, StepRetains, OtherClient DEF World
<1>3. pc'[t] = pc[t] /\ idx'[t] = idx[t] /\ sps'[t] = sps[t] /\ dump'[t] = dump[t] /\ tx'[t] = tx[t]
  BY <1>2 DEF Shape, Changes
<1>4. Msg(t)' = Msg(t)
  BY <1>1, <1>3 DEF Msg
<1>5. RowsOf(r)' = RowsOf(r)
  <2>1. pc[s] \notin Idle => Msg(s).request_id # r
    BY <1>1, Blameless
  <2> QED
    BY <2>1, RowsStep
<1> QED
  BY <1>2, <1>3, <1>4, <1>5, ColumnsStay

-----------------------------------------------------------------------------
(* The UPDATEs under way, and the columns of the messages that have succeeded. *)
LEMMA UpdatesFrom ==
    ASSUME batch' = batch, faulted \subseteq faulted', UpdatesTrue,
           \A r : (\E p \in payloads : p.request_id = r) => \E p \in payloads' : p.request_id = r,
           \A u \in updates' : u \in updates \/
               /\ u.request_id = batch[u.task][u.pos].request_id
               /\ Unharmed(u.task, u.request_id) => \E p \in payloads : p.request_id = u.request_id
    PROVE  UpdatesTrue'
<1> SUFFICES ASSUME NEW u \in updates'
             PROVE  /\ u.request_id = batch'[u.task][u.pos].request_id
                    /\ Unharmed(u.task, u.request_id)' => \E p \in payloads' : p.request_id = u.request_id
  BY DEF UpdatesTrue, Unharmed, Lone
<1>1. /\ u.request_id = batch[u.task][u.pos].request_id
      /\ Unharmed(u.task, u.request_id) => \E p \in payloads : p.request_id = u.request_id
  BY DEF UpdatesTrue
<1>2. Unharmed(u.task, u.request_id)' => Unharmed(u.task, u.request_id)
  BY UnharmedBefore
<1> QED
  BY <1>1, <1>2

LEMMA UpdatesStep ==
    ASSUME CachedInv, UpdatesTrue, NEW s \in Tasks, CachedStep(s)
    PROVE  UpdatesTrue'
<1>1. World /\ LocalsTrue(s) /\ batch' = batch /\ faulted \subseteq faulted'
  BY InvParts, StepFrames, StepBlames DEF Frames, Blames
<1>2. payloads \subseteq payloads'
  BY <1>1, StepGrows DEF World, Grows
<1>3. CASE updates' = updates
  BY <1>1, <1>2, <1>3, UpdatesFrom
<1>4. CASE UpdateSpawned(s)
  <2>1. pc[s] = "set" /\ tx[s] = NoRow /\ UsePayload(s, dump[s])
    BY <1>4 DEF UpdateSpawned
  <2>2. PICK r : r = Msg(s).request_id
    OBVIOUS
  <2>3. PICK p : p = dump[s]
    OBVIOUS
  <2>4. \A u \in updates' : u \in updates \/ (u.task = s /\ u.pos = idx[s] /\ u.request_id = r)
    BY <2>1, <2>2, <2>3, SpawnedIs
  <2>5. Unharmed(s, r) => \E q \in payloads : q.request_id = r
    BY <1>1, <2>1, <2>2, UnharmedCommitted DEF LocalsTrue
  <2>6. batch[s][idx[s]].request_id = r
    BY <2>2 DEF Msg
  <2> QED
    BY <1>1, <1>2, <2>4, <2>5, <2>6, UpdatesFrom
<1> QED
  BY <1>3, <1>4, StepUpdates

LEMMA AttrsFrom ==
    ASSUME batch' = batch,
           \A t \in Tasks : \A i \in DOMAIN batch[t] : \A r :
               verdict'[t][i] = "success" /\ r = batch[t][i].request_id /\ Unharmed(t, r)' =>
                   \A a \in Attrs : batch[t][i].attrs[a] # None => Kept(r, a)'
    PROVE  CachedAttrsKept'
<1> SUFFICES ASSUME NEW t \in Tasks, NEW i \in DOMAIN batch[t], NEW a \in Attrs, NEW m, m = batch[t][i],
                    verdict'[t][i] = "success", m.attrs[a] # None, ~SharesRequest(t, i)',
                    \A x \in faulted' : batch'[x[1]][x[2]].request_id # m.request_id
             PROVE  \/ \E p \in payloads' : p.request_id = m.request_id /\ p.attrs[a] # None
                    \/ \E u \in updates' : u.request_id = m.request_id /\ u.attrs[a] # None
  BY DEF CachedAttrsKept
<1>1. PICK r : r = m.request_id
  OBVIOUS
<1>2. Unharmed(t, r)'
  BY <1>1 DEF SharesRequest, Unharmed, Lone
<1>3. Kept(r, a)'
  BY <1>1, <1>2
<1> QED
  BY <1>1, <1>3 DEF Kept

LEMMA AttrsBefore ==
    ASSUME CachedAttrsKept, NEW t \in Tasks, NEW i \in DOMAIN batch[t], NEW r, r = batch[t][i].request_id,
           verdict[t][i] = "success", Unharmed(t, r), NEW a \in Attrs, batch[t][i].attrs[a] # None
    PROVE  Kept(r, a)
BY DEF CachedAttrsKept, SharesRequest, Unharmed, Lone, Kept

LEMMA AttrsStep ==
    ASSUME CachedInv, CachedInv', Places, NEW s \in Tasks, CachedStep(s), CachedAttrsKept,
           \A r : r = Request(s) /\ pc[s] \notin Idle /\ Unharmed(s, r)' => Told(s, r)
    PROVE  CachedAttrsKept'
<1>1. World /\ BaseType /\ CacheType
  BY InvParts DEF World
<1>2. batch' = batch /\ faulted \subseteq faulted'
  BY StepFrames, StepBlames DEF Frames, Blames
<1>3. ASSUME NEW t \in Tasks, NEW i \in DOMAIN batch[t], NEW r, verdict[t][i] = "success", r = batch[t][i].request_id,
             Unharmed(t, r)', NEW a \in Attrs, batch[t][i].attrs[a] # None
      PROVE  Kept(r, a)'
  <2>1. Kept(r, a)
    BY <1>2, <1>3, UnharmedBefore, AttrsBefore
  <2> QED
    BY <1>1, <2>1, StepRetains DEF Retains
<1>4. ASSUME NEW v, Ends(s, v), NEW t \in Tasks, NEW i \in DOMAIN batch[t], verdict'[t][i] = "success", verdict[t][i] # "success"
      PROVE  t = s /\ i = idx[s] /\ v = "success"
  <2>1. idx[s] \in DOMAIN batch[s]
    <3>1. Position(s)
      BY <1>1, StepPosition DEF World
    <3>2. idx[s] <= Len(batch[s]) /\ idx[s] \in Ids
      BY <1>1, <1>4, <3>1 DEF Ends, Position, BaseType
    <3> QED
      BY <1>1, <3>2, BatchIs DEF BaseType
  <2>2. /\ verdict'[s] = [j \in DOMAIN batch[s] |-> IF j = idx[s] THEN v ELSE verdict[s][j]]
        /\ \A u \in Tasks \ {s} : verdict'[u] = verdict[u]
    BY <1>4, <2>1, VerdictIs DEF Ends
  <2> QED
    BY <1>4, <2>2
<1>5. ASSUME Ends(s, "success"), NEW r, r = Request(s), Unharmed(s, r)', NEW a \in Attrs, Msg(s).attrs[a] # None
      PROVE  Kept(r, a)'
  <2>1. pc[s] = "insert" /\ Row(s, TRUE) \in statuses'
    BY <1>5 DEF Ends
  <2>2. Told(s, r) /\ DumpTold(s) /\ pc[s] \in ColumnsOn
    BY <1>5, <2>1 DEF Told, ColumnsOn, Storing
  <2>3. sps[s].payload_id # NoId
    <3>1. PICK q \in payloads' : q.id = Row(s, TRUE).payload_id
      BY <2>1 DEF CachedInv, Attribution
    <3>2. q.id \in Ids
      BY <3>1 DEF CachedInv, BaseType, PayloadRow
    <3> QED
      BY <3>1, <3>2 DEF Row
  <2>4. Kept(r, a)
    BY <1>5, <2>2, <2>3 DEF DumpTold, MessageKept, Request
  <2> QED
    BY <1>1, <2>4, StepRetains DEF Retains
<1>6. verdict' = verdict \/ \E v : Ends(s, v)
  <2>1. CallCache(s) => verdict' = verdict
    BY DEF CallCache, logVars
  <2> QED
    BY <1>1, <2>1, StepEnds, BaseParts DEF Settling
<1>7. ASSUME NEW t \in Tasks, NEW i \in DOMAIN batch[t], NEW r, verdict'[t][i] = "success", r = batch[t][i].request_id,
             Unharmed(t, r)', NEW a \in Attrs, batch[t][i].attrs[a] # None
      PROVE  Kept(r, a)'
  <2>1. CASE verdict[t][i] = "success"
    BY <1>3, <1>7, <2>1
  <2>2. CASE verdict[t][i] # "success"
    <3>1. t = s /\ i = idx[s] /\ Ends(s, "success")
      BY <1>4, <1>6, <1>7, <2>2
    <3> QED
      BY <1>5, <1>7, <3>1 DEF Request, Msg
  <2> QED
    BY <2>1, <2>2
<1> QED
  BY <1>2, <1>7, AttrsFrom

-----------------------------------------------------------------------------
(* Every step keeps KeptInv. *)
LEMMA TaskKept ==
    ASSUME CachedInv, Places, KeptInv, NEW s \in Tasks, CachedStep(s)
    PROVE  KeptInv'
<1>1. CachedInv' /\ World
  BY TaskInv, InvParts
<1>2. batch' = batch /\ faulted \subseteq faulted' /\ Shape(s) /\ Position(s)
  BY <1>1, StepFrames, StepBlames, StepShape, StepPosition DEF Frames, Blames, World
<1>3. ASSUME NEW t \in Tasks, pc[t] \notin Idle, NEW r, r = Request(t), Unharmed(t, r)
      PROVE  CacheTold(t, r) /\ ColumnsTold(t)
  <2>1. r \in RequestIds
    BY <1>1, <1>3, CurrentIs DEF Request
  <2> QED
    BY <1>3, <2>1 DEF KeptInv, Request
<1>4. ASSUME NEW q, q = Msg(s).request_id, pc[s] = "set", tx[s] = NoRow, Unharmed(s, q)
      PROVE  \A a \in Attrs : dump[s].attrs[a] # None => Kept(q, a)
  <2>1. pc[s] \notin Idle /\ q = Request(s)
    BY <1>4 DEF Request
  <2>2. ColumnsTold(s)
    BY <1>3, <1>4, <2>1
  <2> QED
    BY <1>4, <2>2 DEF ColumnsTold
<1>5. ASSUME NEW t \in Tasks, NEW r \in RequestIds, Unharmed(t, r)' PROVE CacheTold(t, r)'
  <2>1. CacheTold(t, r)
    BY <1>2, <1>5, UnharmedBefore DEF KeptInv
  <2> QED
    BY <1>4, <1>5, <2>1, TaskTold
<1>6. ASSUME NEW t \in Tasks, pc'[t] \notin Idle, NEW r, r = Msg(t)'.request_id, Unharmed(t, r)'
      PROVE  ColumnsTold(t)'
  <2>1. CASE t # s
    <3>1. pc'[t] = pc[t] /\ idx'[t] = idx[t]
      BY <1>2, <2>1 DEF Shape, Changes
    <3>2. r = Request(t)
      BY <1>2, <1>6, <3>1 DEF Request, Msg
    <3>3. Unharmed(t, r)
      BY <1>2, <1>6, UnharmedBefore
    <3> QED
      BY <1>1, <1>3, <1>6, <2>1, <3>1, <3>2, <3>3, OtherColumns
  <2>2. CASE t = s
    BY <1>3, <1>6, <2>2, ColumnsStep
  <2> QED
    BY <2>1, <2>2
<1>7. \A t \in Tasks : pc'[t] \notin Idle /\ Unharmed(t, Msg(t).request_id)' => ColumnsTold(t)'
  <2> SUFFICES ASSUME NEW t \in Tasks, pc'[t] \notin Idle, Unharmed(t, Msg(t).request_id)'
               PROVE  ColumnsTold(t)'
    OBVIOUS
  <2>1. PICK r : r = Msg(t)'.request_id
    OBVIOUS
  <2>2. Unharmed(t, r)'
    BY <2>1 DEF Unharmed, Lone
  <2> QED
    BY <1>6, <2>1, <2>2
<1>8. UpdatesTrue'
  BY UpdatesStep DEF KeptInv
<1>9. CachedAttrsKept'
  <2>1. ASSUME NEW r, r = Request(s), pc[s] \notin Idle, Unharmed(s, r)' PROVE Told(s, r)
    BY <1>3, <2>1, ToldIs
  <2> QED
    BY <1>1, <2>1, AttrsStep DEF KeptInv
<1> QED
  BY <1>5, <1>7, <1>8, <1>9 DEF KeptInv

LEMMA AsideKept ==
    ASSUME KeptInv, Aside, \A t \in Tasks : \A r : Unharmed(t, r)' => Retains(r),
           \A t \in Tasks : \A r \in RequestIds : Unharmed(t, r)' /\ CacheTold(t, r) => CacheTold(t, r)'
    PROVE  KeptInv'
<1>1. batch' = batch /\ faulted \subseteq faulted' /\ verdict' = verdict /\ updates' \subseteq updates
  BY DEF Aside
<1>2. \A r : (\E p \in payloads : p.request_id = r) => \E p \in payloads' : p.request_id = r
  BY DEF Aside, Rewrites
<1>3. ASSUME NEW r PROVE RowsOf(r)' = RowsOf(r)
  <2>1. /\ \A q \in payloads' : \E p \in payloads : q.id = p.id /\ q.request_id = p.request_id
        /\ \A p \in payloads : \E q \in payloads' : q.id = p.id /\ q.request_id = p.request_id
    BY DEF Aside, Rewrites
  <2>2. ASSUME NEW id
        PROVE  (\E p \in payloads' : p.id = id /\ p.request_id = r) <=> \E p \in payloads : p.id = id /\ p.request_id = r
    BY <2>1
  <2>3. statuses' = statuses
    BY DEF Aside
  <2> QED
    BY <2>2, <2>3 DEF RowsOf
<1>4. ASSUME NEW t \in Tasks, NEW r \in RequestIds, Unharmed(t, r)' PROVE CacheTold(t, r)'
  <2>1. CacheTold(t, r)
    BY <1>1, <1>4, UnharmedBefore DEF KeptInv
  <2> QED
    BY <1>4, <2>1
<1>5. ASSUME NEW t \in Tasks, pc'[t] \notin Idle, Unharmed(t, Msg(t).request_id)' PROVE ColumnsTold(t)'
  <2>1. PICK r : r = Request(t)
    OBVIOUS
  <2>2. /\ Msg(t)' = Msg(t) /\ pc'[t] = pc[t] /\ sps'[t] = sps[t] /\ dump'[t] = dump[t] /\ tx'[t] = tx[t]
        /\ call'[Coroutine(t)] = call[Coroutine(t)]
    BY DEF Msg, Aside
  <2>3. Unharmed(t, r)'
    BY <1>5, <2>1, <2>2 DEF Unharmed, Lone, Request
  <2>4. Unharmed(t, r)
    BY <1>1, <2>3, UnharmedBefore
  <2>5. ColumnsTold(t) /\ Retains(r)
    BY <1>5, <2>1, <2>2, <2>3, <2>4 DEF KeptInv, Request
  <2> QED
    BY <1>3, <2>1, <2>2, <2>5, ColumnsStay
<1>6. UpdatesTrue'
  BY <1>1, <1>2, UpdatesFrom DEF KeptInv
<1>7. CachedAttrsKept'
  <2>1. ASSUME NEW t \in Tasks, NEW i \in DOMAIN batch[t], NEW r, verdict[t][i] = "success", r = batch[t][i].request_id,
               Unharmed(t, r)', NEW a \in Attrs, batch[t][i].attrs[a] # None
        PROVE  Kept(r, a)'
    <3>1. Kept(r, a)
      BY <1>1, <2>1, UnharmedBefore, AttrsBefore DEF KeptInv
    <3> QED
      BY <2>1, <3>1 DEF Retains
  <2> QED
    BY <1>1, <2>1, AttrsFrom
<1> QED
  BY <1>4, <1>5, <1>6, <1>7 DEF KeptInv

LEMMA AsideTold ==
    ASSUME World, Aside, NEW t \in Tasks, NEW r, Retains(r)
    PROVE  ToldStays(t, r) /\ \A c \in Clients : RequestOf(c)' = RequestOf(c)
<1>1. pc' = pc /\ batch' = batch /\ idx' = idx
  BY DEF Aside
<1>2. Msg(t)' = Msg(t)
  BY <1>1 DEF Msg
<1> QED
  BY <1>1, <1>2, ToldFrom, RequestKept

LEMMA RetainsAll == ASSUME UNCHANGED <<payloads, updates>>, NEW r PROVE Retains(r)
BY DEF Retains, Kept

(* Redis, the UPDATEs and the steps that change nothing. *)
LEMMA RestKept ==
    ASSUME CachedInv, KeptInv, Aside, \A t \in Tasks : \A r : Unharmed(t, r)' => Retains(r),
           UNCHANGED <<pointer, call>>, lists' = lists \/ Fades
    PROVE  KeptInv'
<1>1. World
  BY InvParts
<1>2. ASSUME NEW t \in Tasks, NEW r \in RequestIds, Unharmed(t, r)', CacheTold(t, r) PROVE CacheTold(t, r)'
  <2>1. ToldStays(t, r) /\ \A c \in Clients : RequestOf(c)' = RequestOf(c)
    BY <1>1, <1>2, AsideTold
  <2>2. \A d \in Clients : Follows(d)
    BY <2>1 DEF Follows
  <2> QED
    BY <1>1, <1>2, <2>1, <2>2, RestTold
<1> QED
  BY <1>2, AsideKept

LEMMA MetricsKept ==
    ASSUME CachedInv, CachedInv', KeptInv, NEW m \in Messages, MetricsStep(m)
    PROVE  KeptInv'
<1>1. World /\ Aside /\ m \in Clients /\ m[2] # 0 /\ m[1] \in Tasks /\ CacheType'
  BY InvParts, MetricsAside, ClientsAre DEF CachedInv
<1>2. /\ ClientStep(m) /\ UNCHANGED <<payloads, updates>>
      /\ Gets(m) \/ (call'[m] = NoCall /\ UNCHANGED <<pointer, lists>>)
  <2>1. UNCHANGED <<payloads, updates>>
    BY DEF MetricsStep, dbVars, memVars
  <2> QED
    BY <1>1, <2>1, MetricsTypes DEF World
<1>3. \A r : Retains(r)
  BY <1>2, RetainsAll
<1>4. ASSUME NEW t \in Tasks, NEW r \in RequestIds, CacheTold(t, r) PROVE CacheTold(t, r)'
  <2>1. ToldStays(t, r) /\ \A c \in Clients : RequestOf(c)' = RequestOf(c)
    BY <1>1, <1>3, AsideTold
  <2>2. CASE Gets(m)
    <3>1. Active(m)
      BY <1>1 DEF MetricsStep, EvaluateStatusMetrics, Active
    <3>2. RequestOf(m) \in RequestIds
      BY <1>1, <3>1, ActiveRequest DEF World
    <3> QED
      BY <1>1, <1>4, <2>1, <2>2, <3>2, GetsTold
  <2>3. CASE call'[m] = NoCall /\ UNCHANGED <<pointer, lists>>
    <3>1. \A d \in Clients : Follows(d)
      BY <1>2, <2>1, <2>3 DEF Follows, ClientStep
    <3> QED
      BY <1>1, <1>4, <2>1, <2>3, <3>1, RestTold
  <2> QED
    BY <1>2, <2>2, <2>3
<1> QED
  BY <1>1, <1>3, <1>4, AsideKept

LEMMA KeptNext ==
    ASSUME CachedInv, Places, KeptInv, [CachedNext]_cachedVars
    PROVE  KeptInv'
<1>1. CachedInv' /\ World /\ BaseType /\ CacheType
  BY CachedInvNext, InvParts DEF World
<1>2. CASE \E t \in Tasks : CachedStep(t)
  BY <1>2, TaskKept
<1>3. CASE \E m \in Messages : MetricsStep(m)
  BY <1>1, <1>3, MetricsKept
<1>4. CASE Expire /\ UNCHANGED <<vars, metric, dump, tx>>
  <2>1. Fades
    BY <1>1, <1>4, ExpireFades
  <2>2. Aside /\ UNCHANGED <<payloads, updates, pointer, call>>
    BY <1>4, <2>1 DEF Fades, Aside, vars, dbVars, memVars, taskVars, logVars, faultVars
  <2> QED
    BY <2>1, <2>2, RestKept, RetainsAll
<1>5. ASSUME NEW u \in updates, RunUpdate(u), UNCHANGED <<cacheVars, metric, dump, tx>>
      PROVE  KeptInv'
  <2>1. (payloads' = payloads \/ Rewrites) /\ UNCHANGED <<names, statuses, partitions, taskVars>>
    BY <1>1, <1>5, UpdateTypes
  <2>2. faulted' = faulted \/ faulted' = faulted \cup {<<u.task, u.pos>>}
    BY <1>5 DEF RunUpdate, NoFault, Fault, faultVars
  <2>3. u.pos \in DOMAIN batch[u.task]
    BY DEF Places
  <2>4. verdict' = verdict /\ updates' \subseteq updates /\ redisNames' = redisNames /\ call' = call
    BY <1>5 DEF RunUpdate, logVars, cacheVars
  <2>5. faulted \subseteq faulted' /\ \A x \in faulted' : x \in faulted \/ x[2] \in DOMAIN batch[x[1]]
    BY <2>2, <2>3
  <2>6. Aside
    BY <1>5, <2>1, <2>4, <2>5 DEF Aside, taskVars
  <2>7. \A t \in Tasks : \A r : Unharmed(t, r)' => Retains(r)
    BY <1>1, <1>5, UpdateRetains DEF KeptInv
  <2> QED
    BY <1>5, <2>6, <2>7, RestKept DEF cacheVars
<1>6. CASE UNCHANGED cachedVars
  <2>1. Aside /\ UNCHANGED <<payloads, updates, pointer, call, lists>>
    BY <1>6 DEF Aside, cachedVars, cacheVars, vars, dbVars, memVars, taskVars, logVars, faultVars
  <2> QED
    BY <2>1, RestKept, RetainsAll
<1>7. CASE Terminated /\ UNCHANGED <<cacheVars, metric, dump, tx>>
  <2>1. Aside /\ UNCHANGED <<payloads, updates, pointer, call, lists>>
    BY <1>7 DEF Aside, Terminated, cacheVars, vars, dbVars, memVars, taskVars, logVars, faultVars
  <2> QED
    BY <2>1, RestKept, RetainsAll
<1> QED
  BY <1>2, <1>3, <1>4, <1>5, <1>6, <1>7 DEF CachedNext

LEMMA KeptInit == CachedInit => KeptInv
<1> SUFFICES ASSUME CachedInit PROVE KeptInv
  OBVIOUS
<1>1. Init /\ CacheInit /\ World
  BY CachedInvInit, InvParts DEF CachedInit
<1>2. updates = {} /\ lists = <<>> /\ \A t \in Tasks : pc[t] \in Idle
  BY <1>1 DEF Init, CacheInit
<1>3. \A c \in Clients : call[c].data = <<>>
  BY <1>1 DEF CacheInit, NoCall
<1>4. \A t \in Tasks : \A r \in RequestIds : CacheTold(t, r)
  BY <1>2, <1>3 DEF CacheTold
<1>5. CachedAttrsKept
  <2>1. verdict = [t \in Tasks |-> [i \in 1..Len(batch[t]) |-> "waiting"]] /\ \A t \in Tasks : DOMAIN batch[t] = 1..Len(batch[t])
    BY <1>1, BatchIs DEF Init, World, BaseType
  <2> QED
    BY <2>1 DEF CachedAttrsKept
<1> QED
  BY <1>2, <1>4, <1>5 DEF KeptInv, UpdatesTrue

(***************************************************************************)
(* A column that a successful message supplied is stored, or an UPDATE of  *)
(* it is under way, when one coroutine handles the request and no call for *)
(* one of its messages failed: what the cache says of the request before   *)
(* COMMIT is never taken for a column that is stored.                      *)
(***************************************************************************)
THEOREM CachedAttrsKeptAlways == CachedSpec => []CachedAttrsKept
<1>1. CachedInit => CachedInv /\ CalmInv /\ KeptInv
  BY CachedInvInit, CalmInit, KeptInit
<1>2. (CachedInv /\ CalmInv /\ KeptInv) /\ [CachedNext]_cachedVars => (CachedInv /\ CalmInv /\ KeptInv)'
  BY CachedInvNext, CalmNext, KeptNext DEF CalmInv
<1>3. CachedInv /\ CalmInv /\ KeptInv => CachedAttrsKept
  BY DEF KeptInv
<1> QED
  BY <1>1, <1>2, <1>3, PTL DEF CachedSpec

-----------------------------------------------------------------------------
(* The messages of a quiet request in the cache: no call fails. *)
LEMMA NoneFails ==
    ASSUME BaseType, faults' = 0
    PROVE  (\A x : ~Fault(x)) /\ (\A c : ~CallFails(c))
<1>1. faults \in Nat
  BY DEF BaseType
<1> QED
  BY <1>1 DEF Fault, CallFails

LEMMA QuietBefore ==
    ASSUME BaseType, batch' = batch, NoFault \/ faults' = faults + 1, expiries' = expiries \/ expiries' = expiries + 1,
           expiries \in Nat, NEW t, NEW r, Quiet(t, r)'
    PROVE  Quiet(t, r) /\ faults' = 0 /\ expiries' = 0
<1>1. faults \in Nat
  BY DEF BaseType
<1> QED
  BY <1>1 DEF Quiet, Lone, NoFault, faultVars

LEMMA GetFaulty == ASSUME NEW c, GetStep(c) PROVE NoFault \/ faults' = faults + 1
BY DEF GetStep, ReadPointer, ReadLength, ReadEntries, LoadNames, LoadRows, SwapHash, NoFault, CallFails

LEMMA StepFaulty ==
    ASSUME NEW t \in Tasks, CachedStep(t)
    PROVE  NoFault \/ faults' = faults + 1
<1>1. CASE SharedStep(t)
  <2>1. NoFault \/ Fault(Current(t))
    BY <1>1 DEF SharedStep, TakeMessage, EndOfBatch, InsertStatus, CheckPartition, CreateTable, NoFault, faultVars
  <2> QED
    BY <2>1 DEF Fault
<1>2. CASE CallCache(t)
  BY <1>2, GetFaulty DEF CallCache
<1>3. CASE CachedGet(t) \/ CachedReget(t) \/ CachedGetFails(t)
  BY <1>3 DEF CachedGet, CachedReget, CachedGetFails, NoFault, faultVars
<1>4. CASE CachedSet(t)
  BY <1>4 DEF CachedSet, CallFails
<1>5. CASE InsertPayload(t) \/ CommitPayload(t) \/ CachedColumn(t) \/ InsertName(t)
  BY <1>5 DEF InsertPayload, CommitPayload, CachedColumn, InsertName, Fault
<1>6. CASE HsetName(t) \/ CommitName(t) \/ CachedRecheck(t)
  BY <1>6 DEF HsetName, CommitName, CachedRecheck, Fault
<1> QED
  BY <1>1, <1>2, <1>3, <1>4, <1>5, <1>6 DEF CachedStep

LEMMA StepQuiet ==
    ASSUME CachedInv, NEW s \in Tasks, CachedStep(s), NEW t, NEW r, Quiet(t, r)'
    PROVE  Quiet(t, r) /\ faults' = 0 /\ expiries' = 0
<1>1. World /\ expiries \in Nat
  BY InvParts DEF World, CacheType, CacheTypeOK
<1>2. batch' = batch /\ expiries' = expiries
  BY StepFrames DEF Frames
<1> QED
  BY <1>1, <1>2, StepFaulty, QuietBefore DEF World

-----------------------------------------------------------------------------
(* The metrics task of a message starts when its columns are resolved. *)
Spawned(t, m) ==
    /\ m = Current(t) /\ pc[t] \in Resolving /\ pc'[t] = "insert" /\ idx'[t] = idx[t]
    /\ metric'[m].at = "poll" /\ metric'[m].retries = metric[m].retries /\ metric'[m].counted = metric[m].counted

LEMMA StepMetric ==
    ASSUME World, NEW t \in Tasks, CachedStep(t), NEW m \in Messages
    PROVE  metric'[m] = metric[m] \/ Spawned(t, m)
<1>1. metric \in [Messages -> MetricRec]
  BY MetricIs DEF World
<1>2. CASE metric' = metric
  BY <1>2
<1>3. CASE CachedColumn(t) \/ CachedRecheck(t) \/ CommitName(t)
  <2>1. metric' = metric \/ (metric' = [metric EXCEPT ![Current(t)].at = "poll"] /\ Goto(t, "insert"))
    BY <1>3 DEF CachedColumn, CachedRecheck, CommitName, AfterColumn, Spawn
  <2>2. pc[t] \in Resolving /\ pc[t] \notin Idle
    BY <1>3 DEF CachedColumn, CachedRecheck, CommitName, Resolving, AtName
  <2>3. Current(t) \in Messages
    BY <2>2, CurrentIs
  <2>4. CASE metric' = [metric EXCEPT ![Current(t)].at = "poll"] /\ Goto(t, "insert")
    <3> DEFINE n == Current(t)
               v == [metric[n] EXCEPT !.at = "poll"]
    <3>1. v \in MetricRec /\ v.at = "poll" /\ v.retries = metric[n].retries /\ v.counted = metric[n].counted /\ n \in Messages
      BY <1>1, <2>3 DEF MetricRec
    <3>2. metric' = [metric EXCEPT ![n] = v]
      BY <2>4
    <3>3. pc'[t] = "insert" /\ idx'[t] = idx[t]
      BY <2>4, GotoNamed DEF Moves, World
    <3>4. m # n => metric'[m] = metric[m]
      <4> HIDE DEF v, n
      <4> QED
        BY ONLY <1>1, <3>1, <3>2
    <3>5. metric'[n] = v
      <4> HIDE DEF v, n
      <4> QED
        BY ONLY <1>1, <3>1, <3>2
    <3>6. CASE m = n
      <4>1. metric'[m] = v /\ m = Current(t)
        BY <3>5, <3>6
      <4> HIDE DEF v
      <4> QED
        BY <2>2, <3>1, <3>3, <3>6, <4>1 DEF Spawned
    <3> QED
      BY <3>4, <3>6
  <2> QED
    BY <1>2, <2>1, <2>4
<1> QED
  BY <1>2, <1>3, StepFrames DEF Frames

LEMMA BegunStep ==
    ASSUME World, NEW t \in Tasks, CachedStep(t), NEW m \in Messages, Begun(m)
    PROVE  Begun(m)'
<1>1. batch' = batch /\ Shape(t) /\ Position(t) /\ m[1] \in Tasks
  BY StepFrames, StepShape, StepPosition, ClientsAre DEF World, Frames
<1>2. \A u \in Tasks \ {t} : idx'[u] = idx[u] /\ pc'[u] = pc[u]
  BY <1>1 DEF Shape, Changes
<1>3. idx \in [Tasks -> Ids] /\ pc \in [Tasks -> CachedLocations]
  BY DEF World, BaseType
<1>4. MessageOf(m)' = MessageOf(m)
  BY <1>1 DEF MessageOf
<1>5. CASE metric'[m] = metric[m]
  <2> SUFFICES ASSUME metric[m].at # "off" \/ metric[m].retries # 0
               PROVE  m[2] < idx'[m[1]] \/ (m[2] = idx'[m[1]] /\ pc'[m[1]] \in Resolving \cup Storing)
    BY <1>1, <1>4, <1>5 DEF Begun
  <2>1. m[2] < idx[m[1]] \/ (m[2] = idx[m[1]] /\ pc[m[1]] \in Resolving \cup Storing)
    BY DEF Begun
  <2>2. CASE m[1] # t
    BY <1>1, <1>2, <2>1, <2>2
  <2>3. CASE m[1] = t
    <3>1. m[2] \in Int /\ idx[t] \in Nat
      BY <1>3, CacheAssumption DEF Messages
    <3>2. pc[t] \in Resolving \cup Storing => pc'[t] \in Resolving \cup Storing \cup {"next"}
      BY NamesGoOn DEF World, ColumnsOn
    <3>3. idx'[t] = idx[t] \/ idx'[t] = idx[t] + 1
      BY <1>1 DEF Position
    <3>4. pc[t] \in Resolving \cup Storing /\ pc'[t] = "next" => idx'[t] = idx[t] + 1
      BY <1>1 DEF Position, Resolving, Storing, AtName
    <3> QED
      BY <2>1, <2>3, <3>1, <3>2, <3>3, <3>4
  <2> QED
    BY <2>2, <2>3
<1>6. CASE Spawned(t, m)
  <2>1. m[1] = t /\ m[2] = idx[t] /\ m[2] \in DOMAIN batch[t] /\ MessageOf(m).kind = "good"
    BY <1>6, CurrentIs DEF Spawned, Resolving, AtName
  <2>2. pc'[t] \in Resolving \cup Storing /\ idx'[t] = idx[t]
    BY <1>6 DEF Spawned, Storing
  <2> QED
    BY <1>1, <1>4, <2>1, <2>2 DEF Begun
<1> QED
  BY <1>5, <1>6, StepMetric

-----------------------------------------------------------------------------
(* A get of a quiet request, under hash and list: only that of its first *)
(* message goes to the database, and finds nothing there.                *)
Reading(c, r, first) ==
    /\ BaseType /\ CacheType /\ c \in Clients /\ RequestOf(c) = r /\ r \in RequestIds /\ faults' = 0
    /\ Reads(call[c], pointer[r], ListOf(r), first)
    /\ \A k \in 1..Len(ListOf(r)) : ListOf(r)[k].alive
    /\ IF first THEN ListOf(r) = <<>> /\ RowsOf(r) = {} ELSE ListOf(r) # <<>>

Advances(now, new, hash, list, first) ==
    \/ new.at = "len" /\ new.hash = hash /\ new.data = <<>>
    \/ now.at = "len" /\ new.at = "range" /\ new.hash = hash /\ new.data = now.data /\ new.len = Len(list)
    \/ /\ now.at = "range" /\ new.at = "done" /\ hash # NoHash
       /\ \E n \in 1..Len(list) : /\ Len(new.data) = n /\ \A i \in 1..n : new.data[i] = list[i]
                                  /\ now.len \in 1..Len(list) => n = now.len
    \/ first /\ new.at \in {"names", "rows", "swap"} /\ new.data = <<>>

LEMMA ListIs ==
    ASSUME CacheType, NEW r \in RequestIds
    PROVE  /\ ListOf(r) \in Seq(Entry) /\ Len(ListOf(r)) \in Nat
           /\ pointer[r] # NoHash => pointer[r] \in 1..Len(lists) /\ ListOf(r) = lists[pointer[r]]
           /\ ListOf(r) # <<>> => pointer[r] # NoHash /\ Len(ListOf(r)) > 0
<1>1. CacheLists
  BY CacheListsAre
<1>2. pointer[r] \in 0..Len(lists) /\ Len(lists) \in Nat /\ \A h \in 1..Len(lists) : lists[h] \in Seq(Entry)
  BY <1>1 DEF CacheLists
<1>3. pointer[r] # NoHash => pointer[r] \in 1..Len(lists)
  BY <1>2 DEF NoHash
<1> QED
  BY <1>2, <1>3 DEF ListOf

LEMMA PointerReads ==
    ASSUME NEW c, NEW r, NEW first \in BOOLEAN, Reading(c, r, first), ReadPointer(c)
    PROVE  Advances(call[c], call'[c], pointer[r], ListOf(r), first)
<1> DEFINE h == pointer[r]
           v == [NoCall EXCEPT !.hash = h, !.at = IF h = NoHash THEN "names" ELSE "len"]
<1>1. call' = [call EXCEPT ![c] = v]
  BY NoneFails DEF ReadPointer, Reading
<1>2. c \in DOMAIN call
  BY CacheListsAre DEF Reading, CacheLists
<1>3. call'[c] = v
  BY <1>1, <1>2
<1>4. v.hash = h /\ v.data = <<>> /\ v.at = IF h = NoHash THEN "names" ELSE "len"
  BY DEF NoCall
<1>5. ~first => h # NoHash
  BY ListIs DEF Reading
<1> HIDE DEF v
<1> QED
  BY <1>3, <1>4, <1>5 DEF Advances

LEMMA LengthReads ==
    ASSUME NEW c, NEW r, NEW first \in BOOLEAN, Reading(c, r, first), ReadLength(c)
    PROVE  Advances(call[c], call'[c], pointer[r], ListOf(r), first)
<1>1. call' = [call EXCEPT ![c].at = "range", ![c].len = Len(lists[call[c].hash])]
  BY NoneFails DEF ReadLength, Reading
<1>2. CacheLists /\ call[c] \in CallRec(Len(lists)) /\ call \in [Clients -> CallRec(Len(lists))] /\ c \in Clients
  BY CacheListsAre DEF CacheLists, Reading
<1>3. call[c].at = "len" /\ call[c].hash # NoHash /\ call[c].hash = pointer[r]
  BY DEF ReadLength, At, CacheType, Reading, Reads
<1>4. lists[call[c].hash] = ListOf(r)
  BY <1>3 DEF ListOf
<1> DEFINE v == [call[c] EXCEPT !.at = "range", !.len = Len(ListOf(r))]
<1>5. v.at = "range" /\ v.hash = call[c].hash /\ v.data = call[c].data /\ v.len = Len(ListOf(r))
  BY <1>2 DEF CallRec
<1>6. call' = [call EXCEPT ![c] = v]
  BY <1>1, <1>2, <1>4
<1> HIDE DEF v
<1>7. call'[c] = v
  BY ONLY <1>2, <1>6
<1> QED
  BY <1>3, <1>5, <1>7 DEF Advances

LEMMA EntriesReads ==
    ASSUME NEW c, NEW r, NEW first \in BOOLEAN, Reading(c, r, first), ReadEntries(c)
    PROVE  Advances(call[c], call'[c], pointer[r], ListOf(r), first)
<1> DEFINE list == ListOf(r)
           n == IF call[c].len \in 1..Len(list) THEN call[c].len ELSE Len(list)
           read == SubSeq(list, 1, n)
<1>1. CacheLists /\ call[c] \in CallRec(Len(lists)) /\ call \in [Clients -> CallRec(Len(lists))] /\ c \in Clients
  BY CacheListsAre DEF CacheLists, Reading
<1>2. call[c].at = "range" /\ call[c].hash # NoHash /\ call[c].hash = pointer[r]
  BY DEF ReadEntries, At, CacheType, Reading, Reads
<1>3. lists[call[c].hash] = list
  BY <1>2 DEF ListOf
<1>4. list \in Seq(Entry) /\ Len(list) \in Nat
  BY ListIs DEF Reading
<1>5. \/ n > 0 /\ call' = [call EXCEPT ![c].at = "done", ![c].data = read]
      \/ (n = 0 \/ \E i \in 1..n : ~read[i].alive) /\ Proceed(c, "names")
  BY <1>3, NoneFails DEF ReadEntries, Reading
<1>6. n \in 0..Len(list) /\ (call[c].len \in 1..Len(list) => n = call[c].len) /\ (n = 0 => Len(list) = 0)
  BY <1>4
<1> HIDE DEF n
<1>7. Len(read) = n /\ \A i \in 1..n : read[i] = list[i]
  BY ONLY <1>4, <1>6
<1> HIDE DEF read
<1>8. CASE n > 0 /\ call' = [call EXCEPT ![c].at = "done", ![c].data = read]
  <2> DEFINE v == [call[c] EXCEPT !.at = "done", !.data = read]
  <2>1. v.at = "done" /\ v.data = read
    BY <1>1 DEF CallRec
  <2>2. call' = [call EXCEPT ![c] = v]
    BY <1>1, <1>8
  <2> HIDE DEF v
  <2>3. call'[c] = v
    BY ONLY <1>1, <2>2
  <2>4. n \in 1..Len(list)
    BY <1>4, <1>6, <1>8
  <2> HIDE DEF list
  <2>5. /\ call[c].at = "range" /\ call'[c].at = "done" /\ pointer[r] # NoHash
        /\ Len(call'[c].data) = n /\ \A i \in 1..n : call'[c].data[i] = list[i]
        /\ call[c].len \in 1..Len(list) => n = call[c].len
    BY <1>2, <1>6, <1>7, <2>1, <2>3
  <2> QED
    BY <2>4, <2>5 DEF Advances, list
<1>9. CASE (n = 0 \/ \E i \in 1..n : ~read[i].alive) /\ Proceed(c, "names")
  <2>1. n = 0
    BY <1>4, <1>6, <1>7, <1>9 DEF Reading
  <2>2. first
    BY <1>4, <1>6, <2>1 DEF Reading
  <2> DEFINE v == [call[c] EXCEPT !.at = "names"]
  <2>3. v.at = "names" /\ v.data = call[c].data
    BY <1>1 DEF CallRec
  <2>4. call' = [call EXCEPT ![c] = v]
    BY <1>1, <1>9 DEF Proceed
  <2> HIDE DEF v
  <2>5. call'[c] = v
    BY ONLY <1>1, <2>4
  <2>6. call[c].data = <<>>
    BY <2>2 DEF Reading, Reads
  <2> QED
    BY <2>2, <2>3, <2>5, <2>6 DEF Advances
<1> QED
  BY <1>5, <1>8, <1>9

LEMMA NamesReads ==
    ASSUME NEW c, NEW r, NEW first \in BOOLEAN, Reading(c, r, first), LoadNames(c)
    PROVE  Advances(call[c], call'[c], pointer[r], ListOf(r), first)
<1>1. call' = [call EXCEPT ![c].at = "rows", ![c].names = redisNames]
  BY NoneFails DEF LoadNames, Reading
<1>2. call[c] \in CallRec(Len(lists)) /\ call \in [Clients -> CallRec(Len(lists))] /\ c \in Clients
  BY CacheListsAre DEF CacheLists, Reading
<1>3. first /\ call[c].data = <<>>
  BY DEF LoadNames, At, Reading, Reads
<1> DEFINE v == [call[c] EXCEPT !.at = "rows", !.names = redisNames]
<1>4. v.at = "rows" /\ v.data = call[c].data
  BY <1>2 DEF CallRec
<1>5. call' = [call EXCEPT ![c] = v]
  BY <1>1, <1>2
<1> HIDE DEF v
<1>6. call'[c] = v
  BY ONLY <1>2, <1>5
<1> QED
  BY <1>3, <1>4, <1>6 DEF Advances

LEMMA NoDays == ASSUME NEW rows, rows = {} PROVE Cardinality({s.day : s \in rows}) = 0
<1>1. {s.day : s \in rows} = {}
  OBVIOUS
<1> QED
  BY <1>1, FS_EmptySet

LEMMA RowsReads ==
    ASSUME NEW c, NEW r, NEW first \in BOOLEAN, Reading(c, r, first), LoadRows(c)
    PROVE  Advances(call[c], call'[c], pointer[r], ListOf(r), first)
<1> DEFINE rows == RowsOf(RequestOf(c))
           n == Cardinality({s.day : s \in rows})
<1>1. first /\ call[c].data = <<>> /\ rows = {}
  BY DEF LoadRows, At, Reading, Reads
<1>2. call[c] \in CallRec(Len(lists)) /\ call \in [Clients -> CallRec(Len(lists))] /\ c \in Clients
  BY CacheListsAre DEF CacheLists, Reading
<1>3. n = 0
  BY <1>1, NoDays
<1>4. PICK f \in [1..n -> rows] : call' = [call EXCEPT ![c].at = "swap", ![c].raw = TRUE,
                            ![c].data = [i \in DOMAIN f |-> EntryOf(f[i], call[c].names)]]
  BY <1>1, NoneFails DEF LoadRows, Reading, Loads
<1> HIDE DEF n
<1> DEFINE data == [i \in DOMAIN f |-> EntryOf(f[i], call[c].names)]
<1>5. data = <<>>
  <2>1. DOMAIN data = {}
    BY <1>3, <1>4
  <2>2. data \in [{} -> Entry]
    BY <2>1
  <2>3. data \in Seq(Entry) /\ Len(data) = 0
    <3>1. data \in [1..0 -> Entry]
      BY <2>2
    <3> HIDE DEF data
    <3> QED
      BY <3>1, FunctionsAreSeqs
  <2> HIDE DEF data
  <2> QED
    BY <2>3
<1> HIDE DEF data
<1> DEFINE v == [call[c] EXCEPT !.at = "swap", !.raw = TRUE, !.data = data]
<1>6. v.at = "swap" /\ v.data = data
  BY <1>2 DEF CallRec
<1>7. call' = [call EXCEPT ![c] = v]
  BY <1>2, <1>4 DEF data
<1> HIDE DEF v
<1>8. call'[c] = v
  BY ONLY <1>2, <1>7
<1> QED
  BY <1>1, <1>5, <1>6, <1>8 DEF Advances

(* The hash that the first message makes is that of an empty list. *)
MakesList(c, r) ==
    /\ lists' = Append(lists, <<>>) /\ pointer' = [pointer EXCEPT ![r] = Len(lists) + 1]
    /\ call'[c].at = "done" /\ call'[c].data = <<>>

LEMMA SwapReads ==
    ASSUME NEW c, NEW r, NEW first \in BOOLEAN, Reading(c, r, first), SwapHash(c)
    PROVE  first /\ MakesList(c, r)
<1> DEFINE data == call[c].data
<1>1. first /\ data = <<>>
  BY DEF SwapHash, At, Reading, Reads
<1>2. call[c] \in CallRec(Len(lists)) /\ call \in [Clients -> CallRec(Len(lists))] /\ c \in Clients
  BY CacheListsAre DEF CacheLists, Reading
<1>3. /\ lists' = Append(lists, [i \in DOMAIN data |-> data[Len(data) + 1 - i]])
      /\ pointer' = [pointer EXCEPT ![r] = Len(lists) + 1] /\ Proceed(c, "done")
  BY NoneFails DEF SwapHash, Reading
<1>4. [i \in DOMAIN data |-> data[Len(data) + 1 - i]] = <<>>
  <2> HIDE DEF data
  <2> DEFINE copy == [i \in DOMAIN data |-> data[Len(data) + 1 - i]]
  <2>1. copy \in [1..0 -> Entry]
    BY <1>1
  <2> HIDE DEF copy
  <2>2. copy \in Seq(Entry) /\ Len(copy) = 0
    BY <2>1, FunctionsAreSeqs
  <2>3. copy = <<>>
    BY <2>2
  <2> QED
    BY <2>3 DEF copy
<1> DEFINE v == [call[c] EXCEPT !.at = "done"]
<1>5. v.at = "done" /\ v.data = data
  BY <1>2 DEF CallRec
<1>6. call' = [call EXCEPT ![c] = v]
  BY <1>2, <1>3 DEF Proceed
<1> HIDE DEF v
<1>7. call'[c] = v
  BY ONLY <1>2, <1>6
<1> QED
  BY <1>1, <1>3, <1>4, <1>5, <1>7 DEF MakesList

LEMMA GetReads ==
    ASSUME NEW c, NEW r, NEW first \in BOOLEAN, Reading(c, r, first), GetStep(c)
    PROVE  \/ UNCHANGED <<pointer, lists>> /\ Advances(call[c], call'[c], pointer[r], ListOf(r), first)
           \/ first /\ MakesList(c, r)
BY PointerReads, LengthReads, EntriesReads, NamesReads, RowsReads, SwapReads DEF GetStep

LEMMA AdvancedReads ==
    ASSUME NEW list, Len(list) \in Nat, list # <<>> => Len(list) > 0, NEW first \in BOOLEAN, NEW now, NEW new, NEW hash,
           Reads(now, hash, list, first), Advances(now, new, hash, list, first),
           IF first THEN list = <<>> ELSE list # <<>>
    PROVE  Reads(new, hash, list, first)
<1>1. CASE new.at = "len" /\ new.hash = hash /\ new.data = <<>>
  BY <1>1 DEF Reads
<1>2. CASE now.at = "len" /\ new.at = "range" /\ new.hash = hash /\ new.data = now.data /\ new.len = Len(list)
  BY <1>2 DEF Reads
<1>3. ASSUME now.at = "range", new.at = "done", hash # NoHash,
             NEW n \in 1..Len(list), Len(new.data) = n, \A i \in 1..n : new.data[i] = list[i]
      PROVE  Reads(new, hash, list, first)
  <2>1. ~first
    BY <1>3
  <2>2. new.data # <<>>
    BY <1>3
  <2>3. \A k \in 1..Len(new.data) : HasDate(list, new.data[k].date)
    <3> SUFFICES ASSUME NEW k \in 1..Len(new.data) PROVE HasDate(list, new.data[k].date)
      OBVIOUS
    <3>1. k \in 1..Len(list) /\ new.data[k] = list[k]
      BY <1>3
    <3> QED
      BY <3>1 DEF HasDate
  <2> QED
    BY <1>3, <2>1, <2>2, <2>3 DEF Reads
<1>4. CASE first /\ new.at \in {"names", "rows", "swap"} /\ new.data = <<>>
  BY <1>4 DEF Reads
<1> QED
  BY <1>1, <1>2, <1>3, <1>4 DEF Advances

(* A poll that misses the date has seen a list that ended before it. *)
LEMMA AdvancedMisses ==
    ASSUME NEW list, Len(list) \in Nat, NEW now, NEW new, NEW hash, Reads(now, hash, list, FALSE),
           Advances(now, new, hash, list, FALSE), NEW d, NEW n \in Nat, HasDate(list, d), Missed(now, list, d, n)
    PROVE  Missed(new, list, d, n)
<1>1. Behind(list, d, n)
  BY DEF Missed
<1>2. CASE now.at = "len" /\ new.at = "range" /\ new.len = Len(list)
  <2>1. n < Len(list)
    BY <1>1 DEF HasDate, Behind
  <2> QED
    BY <1>1, <1>2, <2>1 DEF Missed
<1>3. ASSUME now.at = "range", new.at = "done", NEW l \in 1..Len(list), Len(new.data) = l,
             \A i \in 1..l : new.data[i] = list[i], l = now.len
      PROVE  Missed(new, list, d, n)
  <2>1. n < l
    BY <1>3 DEF Missed
  <2>2. ASSUME ~HasDate(new.data, d), NEW k \in 1..Len(list), list[k].date = d PROVE n + 1 < k
    <3>1. k \notin 1..l
      BY <1>3, <2>2 DEF HasDate
    <3> QED
      BY <1>3, <2>1, <2>2, <3>1
  <2> QED
    BY <1>1, <1>3, <2>2 DEF Missed, Behind
<1>4. CASE new.at = "len"
  BY <1>1, <1>4 DEF Missed
<1>5. now.at = "range" => now.len \in 1..Len(list)
  BY DEF Reads
<1> QED
  BY <1>2, <1>3, <1>4, <1>5 DEF Advances

-----------------------------------------------------------------------------
LEMMA NothingRead ==
    ASSUME NEW now, now = NoCall, NEW hash, NEW list, NEW first
    PROVE  Reads(now, hash, list, first) /\ \A d : \A n : Missed(now, list, d, n) <=> Behind(list, d, n)
<1>1. now.at = "idle" /\ now.data = <<>>
  BY DEF NoCall
<1> QED
  BY <1>1 DEF Reads, Missed

LEMMA AllReads ==
    ASSUME CacheType, NEW t, NEW r, AllRead(t, r), NEW c \in Clients, RequestOf(c) = r
    PROVE  Reads(call[c], pointer[r], ListOf(r), Seen(t, r) = {})
<1>1. CASE Active(c)
  BY <1>1 DEF AllRead
<1>2. CASE ~Active(c)
  BY <1>2, NothingRead DEF CacheType
<1> QED
  BY <1>1, <1>2

(* Before the first message of the request has been through set, *)
(* nobody but its coroutine looks for the request in the cache.  *)
LEMMA FirstAlone ==
    ASSUME World, NEW t \in Tasks, NEW r, Lone(t, r), Seen(t, r) = {}, \A m \in Messages : Begun(m),
           NEW c \in Clients, RequestOf(c) = r, call[c] # NoCall
    PROVE  c = Coroutine(t) /\ pc[t] \in Calling
<1>1. Active(c)
  BY DEF World, CacheType
<1>2. CASE c \in Messages
  <2>1. c[2] # 0 /\ metric[c].at = "poll" /\ c[1] \in Tasks
    BY <1>1, <1>2, ClientsAre DEF Active
  <2>2. Begun(c)
    BY <1>2
  <2>3. /\ c[2] \in DOMAIN batch[c[1]] /\ MessageOf(c).kind = "good"
        /\ c[2] < idx[c[1]] \/ (c[2] = idx[c[1]] /\ pc[c[1]] \in Resolving \cup Storing)
    BY <2>1, <2>2 DEF Begun
  <2>4. batch[c[1]][c[2]].request_id = r
    BY <2>1 DEF RequestOf
  <2>5. c[1] = t
    BY <2>1, <2>3, <2>4 DEF Lone
  <2>6. c[2] \in Seen(t, r)
    BY <2>3, <2>4, <2>5 DEF Seen, Past, SetDone, MessageOf
  <2> QED
    BY <2>6
<1>3. CASE c = Coroutine(c[1])
  <2>1. c[1] \in Tasks /\ c[2] = 0 /\ pc[c[1]] \in Calling /\ Msg(c[1]).request_id = r
    BY <1>1, <1>3, ClientsAre DEF Active, RequestOf
  <2>2. c[1] = t
    BY <2>1, OneTask DEF Calling
  <2> QED
    BY <1>3, <2>1, <2>2
<1> QED
  BY <1>2, <1>3, ClientsAre

-----------------------------------------------------------------------------
(* The steps of a coroutine on a message of a quiet request. *)
QuietTask(t, r) ==
    /\ CachedInv /\ faults' = 0 /\ Lone(t, r) /\ r \in RequestIds
    /\ DatesShown(t, r) /\ AllRead(t, r) /\ OnWay(t, r)

(* Its message is through set, and is listed or was already. *)
Enters(t) ==
    LET c == Coroutine(t)
    IN
    /\ pc[t] = "set" /\ CachedSet(t) /\ AfterSet(t) /\ call'[c] = NoCall /\ UNCHANGED <<redisNames, expiries, metric>>
    /\ pc'[t] \in SetDone /\ idx'[t] = idx[t]
    /\ \/ At(c, "push") /\ Push(c, Msg(t), dump[t].id)
       \/ At(c, "done") /\ ~IsUnique(c, Msg(t), dump[t]) /\ UNCHANGED <<pointer, lists>>

GoesTo(t, r) ==
    \/ pc[t] \in SetDone /\ pc'[t] \in SetDone \cup {"next"}
    \/ pc[t] \notin SetDone /\ pc'[t] \in {"get", "create", "set"} /\ (pc'[t] = "create" => Seen(t, r) = {})
    \/ Enters(t)

LEMMA SetEnters ==
    ASSUME NEW t \in Tasks, NEW r, QuietTask(t, r), pc[t] \notin Idle, Msg(t).request_id = r, CachedSet(t)
    PROVE  GoesTo(t, r)
<1> DEFINE c == Coroutine(t)
<1>1. World /\ c \in Clients /\ RequestOf(c) = r /\ BaseType /\ CacheType
  BY InvParts, ClientsAre DEF QuietTask, RequestOf, World
<1>2. pc[t] = "set" /\ pc[t] \notin SetDone
  BY DEF CachedSet, SetDone, Resolving, Storing, AtName
<1>3. call[c].at # "failed" /\ ~CallFails(c)
  BY <1>1, AllReads, NoneFails DEF QuietTask, Reads
<1>4. UNCHANGED <<redisNames, expiries, metric>>
  BY DEF CachedSet
<1>5. CASE AfterSet(t) /\ EndCall(t) /\ (\/ At(c, "push") /\ Push(c, Msg(t), dump[t].id)
                                         \/ At(c, "done") /\ ~IsUnique(c, Msg(t), dump[t]) /\ UNCHANGED <<pointer, lists>>)
  <2>1. pc'[t] \in {"commit", "column"} /\ idx'[t] = idx[t]
    BY <1>1, <1>5, AfterSetShape DEF Moves
  <2>2. call'[c] = NoCall
    BY <1>1, <1>5, EndsIs DEF EndCall
  <2>3. pc'[t] \in SetDone
    BY <2>1 DEF SetDone, Resolving
  <2> QED
    BY <1>2, <1>4, <1>5, <2>1, <2>2, <2>3 DEF GoesTo, Enters
<1>6. CASE Goto(t, "set")
  BY <1>1, <1>2, <1>6, GotoNamed DEF Moves, GoesTo
<1> QED
  BY <1>3, <1>5, <1>6 DEF CachedSet, At

LEMMA OwnStep ==
    ASSUME NEW t \in Tasks, NEW r, QuietTask(t, r), pc[t] \notin Idle, Msg(t).request_id = r, CachedStep(t)
    PROVE  GoesTo(t, r)
<1> DEFINE c == Coroutine(t)
<1>1. World /\ c \in Clients /\ RequestOf(c) = r /\ BaseType /\ CacheType /\ CachedWorking(t)
  BY InvParts, ClientsAre DEF QuietTask, RequestOf, World
<1>2. Reads(call[c], pointer[r], ListOf(r), Seen(t, r) = {}) /\ ~CallFails(c) /\ ~Fault(Current(t))
  BY <1>1, AllReads, NoneFails DEF QuietTask
<1>3. pc[t] # "reget" /\ (pc[t] = "create" => Seen(t, r) = {})
  BY DEF QuietTask, OnWay
<1>4. CASE pc[t] \in ColumnsOn
  BY <1>1, <1>4, NamesGoOn DEF GoesTo, SetDone, ColumnsOn
<1>5. CASE CallCache(t)
  <2>1. pc'[t] = pc[t] /\ pc[t] \in {"get", "set"}
    BY <1>3, <1>5 DEF CallCache
  <2> QED
    BY <2>1 DEF GoesTo, SetDone, Resolving, Storing, AtName
<1>6. CASE CachedGet(t)
  <2>1. pc[t] = "get" /\ call[c].at = "done"
    BY <1>6 DEF CachedGet, Returned, At
  <2>2. CASE call[c].data # <<>> /\ TakeDump(t)
    <3>1. pc'[t] = "set"
      BY <1>1, <2>2, TakeDumpShape DEF Moves
    <3> QED
      BY <2>1, <3>1 DEF GoesTo, SetDone, Resolving, Storing, AtName
  <2>3. CASE call[c].data = <<>> /\ Goto(t, "create")
    <3>1. pc'[t] = "create" /\ Seen(t, r) = {}
      BY <1>1, <1>2, <2>1, <2>3, GotoNamed DEF Moves, Reads
    <3> QED
      BY <2>1, <3>1 DEF GoesTo, SetDone, Resolving, Storing, AtName
  <2> QED
    BY <1>6, <2>2, <2>3 DEF CachedGet
<1>7. CASE CachedReget(t) \/ CachedGetFails(t)
  BY <1>2, <1>3, <1>7 DEF CachedReget, CachedGetFails, Returned, At, Reads
<1>8. CASE CachedSet(t)
  BY <1>8, SetEnters
<1>9. CASE InsertPayload(t)
  <2>1. pc[t] = "create" /\ Seen(t, r) = {}
    BY <1>3, <1>9 DEF InsertPayload
  <2>2. Known(t) = {}
    BY <2>1 DEF QuietTask, DatesShown, Known
  <2>3. Goto(t, "set")
    BY <1>2, <1>9, <2>2 DEF InsertPayload
  <2>4. pc'[t] = "set"
    BY <1>1, <2>3, GotoNamed DEF Moves
  <2> QED
    BY <2>1, <2>4 DEF GoesTo, SetDone, Resolving, Storing, AtName
<1>10. CASE CommitPayload(t)
  <2>1. pc[t] = "commit" /\ StartColumns(t)
    BY <1>2, <1>10 DEF CommitPayload
  <2>2. pc'[t] = "column"
    BY <1>1, <2>1, StartMoves DEF Moves
  <2> QED
    BY <2>1, <2>2 DEF GoesTo, SetDone, Resolving
<1> QED
  BY <1>4, <1>5, <1>6, <1>7, <1>8, <1>9, <1>10, PayloadActions

(* Which messages are through set after a step. *)
LEMMA SeenElsewhere ==
    ASSUME batch' = batch, NEW t, idx'[t] = idx[t], pc'[t] = pc[t], NEW r
    PROVE  Seen(t, r)' = Seen(t, r)
BY DEF Seen, Past

LEMMA SeenStep ==
    ASSUME NEW t \in Tasks, NEW r, QuietTask(t, r), NEW s \in Tasks, CachedStep(s)
    PROVE  \/ Seen(t, r)' = Seen(t, r) /\ ~(s = t /\ Msg(t).request_id = r /\ Enters(t))
           \/ /\ s = t /\ Msg(t).request_id = r /\ Enters(t)
              /\ Seen(t, r)' = Seen(t, r) \cup {idx[t]} /\ idx[t] \notin Seen(t, r) /\ idx[t] \in DOMAIN batch[t]
<1>1. World /\ batch' = batch /\ Shape(s) /\ Position(s)
  BY InvParts, StepFrames, StepShape, StepPosition DEF QuietTask, World, Frames
<1>2. CASE s # t
  BY <1>1, <1>2, SeenElsewhere DEF Shape, Changes
<1>3. CASE s = t
  <2>1. idx[t] \in Nat /\ idx'[t] \in Nat
    BY <1>1, <1>3 DEF World, BaseType, Shape, Changes
  <2>2. \A i \in DOMAIN batch[t] : i \in Int
    BY <1>1, BatchIs DEF World, BaseType
  <2>3. idx'[t] = idx[t] \/ (idx'[t] = idx[t] + 1 /\ pc'[t] = "next")
    BY <1>1, <1>3 DEF Position
  <2>4. \A i \in DOMAIN batch[t] : i # idx[t] => (Past(t, i) <=> Past(t, i)')
    <3> SUFFICES ASSUME NEW i \in DOMAIN batch[t], i # idx[t] PROVE Past(t, i) <=> Past(t, i)'
      OBVIOUS
    <3>1. pc'[t] = "next" => pc'[t] \notin SetDone
      BY DEF SetDone, Resolving, Storing, AtName
    <3> QED
      BY <1>1, <2>1, <2>2, <2>3, <3>1 DEF Past
  <2>5. CASE pc[t] \in Idle
    <3>1. pc[t] = "next" /\ (TakeMessage(t) \/ EndOfBatch(t))
      BY <1>3, <2>5, StepStarts
    <3>2. pc[t] \notin SetDone
      BY <3>1 DEF SetDone, Resolving, Storing, AtName
    <3>3. ~Past(t, idx[t])
      BY <2>1, <3>2 DEF Past
    <3>4. CASE Msg(t).kind # "good"
      BY <1>1, <2>4, <3>1, <3>3, <3>4 DEF Seen, Past, Msg, Enters
    <3>5. CASE Goto(t, "get") \/ Goto(t, "done")
      <4>1. idx'[t] = idx[t]
        BY <3>5 DEF Goto
      <4>2. pc'[t] \notin SetDone
        <5>1. pc'[t] \in {"get", "done"}
          BY <1>1, <3>5 DEF Goto, World, BaseType
        <5> QED
          BY <5>1 DEF SetDone, Resolving, Storing, AtName
      <4>3. ~Past(t, idx[t])'
        BY <2>1, <4>1, <4>2 DEF Past
      <4> QED
        BY <1>1, <2>4, <3>1, <3>3, <4>1, <4>3 DEF Seen, Enters
    <3> QED
      BY <3>1, <3>4, <3>5 DEF TakeMessage, EndOfBatch, Ignored
  <2>6. CASE pc[t] \notin Idle
    <3>1. idx[t] \in DOMAIN batch[t] /\ Msg(t).kind = "good"
      BY <1>1, <2>6, CurrentIs
    <3>2. CASE Msg(t).request_id # r
      BY <1>1, <2>4, <3>1, <3>2 DEF Seen, Msg
    <3>3. CASE Msg(t).request_id = r
      <4>1. GoesTo(t, r)
        BY <1>3, <2>6, <3>3, OwnStep
      <4>2. CASE pc[t] \in SetDone /\ pc'[t] \in SetDone \cup {"next"}
        <5>1. Past(t, idx[t])
          BY <3>1, <4>2 DEF Past, Msg
        <5>2. pc'[t] = "next" => idx'[t] = idx[t] + 1
          BY <1>1, <1>3, <2>6 DEF Position
        <5>3. \A i \in DOMAIN batch[t] : i = idx[t] => Past(t, i)'
          BY <1>1, <2>1, <2>3, <3>1, <4>2, <5>2 DEF Past, Msg
        <5> QED
          BY <1>1, <2>4, <4>2, <5>1, <5>3 DEF Seen, Enters, SetDone, Resolving, Storing, AtName
      <4>3. CASE pc[t] \notin SetDone /\ pc'[t] \in {"get", "create", "set"}
        <5>1. pc'[t] \notin SetDone /\ idx'[t] = idx[t]
          BY <2>3, <4>3 DEF SetDone, Resolving, Storing, AtName
        <5>2. ~Past(t, idx[t]) /\ ~Past(t, idx[t])'
          BY <2>1, <4>3, <5>1 DEF Past
        <5> QED
          BY <1>1, <2>4, <5>1, <5>2 DEF Seen, Enters
      <4>4. CASE Enters(t)
        <5>1. pc[t] \notin SetDone /\ pc'[t] \in SetDone /\ idx'[t] = idx[t]
          BY <4>4 DEF Enters, SetDone, Resolving, Storing, AtName
        <5>2. ~Past(t, idx[t])
          BY <2>1, <5>1 DEF Past
        <5>3. \A i \in DOMAIN batch[t] : i = idx[t] => Past(t, i)' /\ batch[t][i].request_id = r
          BY <1>1, <2>1, <3>1, <3>3, <5>1 DEF Past, Msg
        <5>4. Seen(t, r)' = Seen(t, r) \cup {idx[t]} /\ idx[t] \notin Seen(t, r)
          BY <1>1, <2>4, <3>1, <5>2, <5>3 DEF Seen
        <5> QED
          BY <1>3, <3>1, <3>3, <4>4, <5>4
      <4> QED
        BY <4>1, <4>2, <4>3, <4>4 DEF GoesTo
    <3> QED
      BY <3>2, <3>3
  <2> QED
    BY <2>5, <2>6
<1> QED
  BY <1>2, <1>3

-----------------------------------------------------------------------------
(* What a step makes of the list of a quiet request. *)
Prepended(old, new, e) ==
    /\ Len(new) = Len(old) + 1 /\ new[1] = e
    /\ \A k \in 1..Len(old) : new[k + 1] = old[k]

LEMMA PushFront ==
    ASSUME CacheLists, NEW c \in Clients, NEW m \in Message, NEW id \in Ids, Push(c, m, id),
           NEW h, h = call[c].hash, h # NoHash
    PROVE  Prepended(lists[h], lists'[h], Pushed(m, id))
<1> DEFINE e == Pushed(m, id)
<1>1. e \in Entry
  BY DEF Pushed, Message, Entry
<1>2. lists' = [lists EXCEPT ![h] = <<e>> \o @]
  BY DEF Push, Pushed
<1>3. lists \in Seq(Seq(Entry)) /\ h \in 1..Len(lists) /\ lists[h] \in Seq(Entry)
  <2>1. h \in 0..Len(lists) /\ Len(lists) \in Nat /\ lists \in Seq(Seq(Entry))
    BY DEF CacheLists, CallRec
  <2> QED
    BY <2>1 DEF NoHash
<1> HIDE DEF e
<1> DEFINE new == <<e>> \o lists[h]
<1>4. <<e>> \in Seq(Entry) /\ Len(<<e>>) = 1 /\ <<e>>[1] = e
  BY <1>1
<1>5. new \in Seq(Entry) /\ Len(new) = Len(lists[h]) + 1 /\ Len(lists[h]) \in Nat
      /\ \A i \in 1..Len(new) : new[i] = IF i = 1 THEN e ELSE lists[h][i - 1]
  BY <1>3, <1>4, ConcatProperties
<1>6. new[1] = e /\ \A k \in 1..Len(lists[h]) : new[k + 1] = lists[h][k]
  BY <1>5
<1> HIDE DEF new
<1>7. lists'[h] = new
  <2>1. lists' = [lists EXCEPT ![h] = new]
    BY <1>2 DEF new
  <2> QED
    BY ONLY <1>3, <2>1
<1> QED
  BY <1>5, <1>6, <1>7 DEF Prepended, e

Still(t, r) == pointer'[r] = pointer[r] /\ ListOf(r)' = ListOf(r) /\ Seen(t, r)' = Seen(t, r)

Begins(t, r) ==
    /\ pc[t] \in Calling /\ Msg(t).request_id = r /\ Seen(t, r) = {} /\ Seen(t, r)' = {}
    /\ pointer'[r] # NoHash /\ ListOf(r)' = <<>>
    /\ call'[Coroutine(t)].at = "done" /\ call'[Coroutine(t)].data = <<>>

Shows(t, r) ==
    /\ Msg(t).request_id = r /\ pc[t] = "set" /\ call'[Coroutine(t)] = NoCall
    /\ idx[t] \in DOMAIN batch[t] /\ idx[t] \notin Seen(t, r) /\ Seen(t, r)' = Seen(t, r) \cup {idx[t]}
    /\ pointer'[r] = pointer[r]
    /\ \/ Prepended(ListOf(r), ListOf(r)', Pushed(Msg(t), dump[t].id))
       \/ ListOf(r)' = ListOf(r) /\ HasDate(ListOf(r), Msg(t).day)

LEMMA OtherList ==
    ASSUME CacheType, NEW r \in RequestIds, NEW c \in Clients, Gets(c), RequestOf(c) # r
    PROVE  pointer'[r] = pointer[r] /\ ListOf(r)' = ListOf(r)
<1>1. CacheLists
  BY CacheListsAre
<1>2. CASE UNCHANGED <<pointer, lists>>
  BY <1>2 DEF ListOf
<1>3. CASE Swapped(c)
  <2>1. PICK list \in Seq(Entry) : lists' = Append(lists, list)
    BY <1>3 DEF Swapped
  <2>2. pointer'[r] = pointer[r] /\ pointer[r] \in 0..Len(lists)
    BY <1>1, <1>3 DEF Swapped, CacheLists
  <2>3. pointer[r] # NoHash => pointer[r] \in 1..Len(lists)
    BY <1>1, <2>2 DEF NoHash, CacheLists
  <2>4. pointer[r] # NoHash => lists'[pointer[r]] = lists[pointer[r]]
    BY <1>1, <2>1, <2>3, Longer
  <2> QED
    BY <2>2, <2>4 DEF ListOf
<1> QED
  BY <1>2, <1>3 DEF Gets

LEMMA OwnReading ==
    ASSUME NEW t \in Tasks, NEW r, QuietTask(t, r), Alive, NEW c \in Clients, RequestOf(c) = r,
           NEW first \in BOOLEAN, first <=> Seen(t, r) = {}
    PROVE  Reading(c, r, first)
<1>1. World /\ BaseType /\ CacheType
  BY InvParts DEF QuietTask, World
<1>2. Reads(call[c], pointer[r], ListOf(r), first)
  BY <1>1, AllReads DEF QuietTask
<1>3. \A k \in 1..Len(ListOf(r)) : ListOf(r)[k].alive
  <2>1. CASE pointer[r] = NoHash
    BY <2>1 DEF ListOf
  <2>2. CASE pointer[r] # NoHash
    BY <1>1, <2>2, ListIs DEF Alive, QuietTask
  <2> QED
    BY <2>1, <2>2
<1>4. Len(ListOf(r)) \in Nat /\ ListOf(r) \in Seq(Entry)
  BY <1>1, ListIs DEF QuietTask
<1>5. CASE first
  <2>1. Len(ListOf(r)) = 0
    BY <1>4, <1>5 DEF QuietTask, DatesShown
  <2>2. RowsOf(r) = {}
    BY <1>5 DEF QuietTask, DatesShown, RowsOf
  <2> QED
    BY <1>1, <1>2, <1>3, <1>4, <1>5, <2>1, <2>2 DEF Reading, QuietTask
<1>6. CASE ~first
  <2>1. PICK i \in Seen(t, r) : HasDate(ListOf(r), batch[t][i].day)
    BY <1>6 DEF QuietTask, DatesShown
  <2>2. ListOf(r) # <<>>
    BY <2>1 DEF HasDate
  <2> QED
    BY <1>1, <1>2, <1>3, <1>6, <2>2 DEF Reading, QuietTask
<1> QED
  BY <1>5, <1>6

LEMMA GetView ==
    ASSUME NEW t \in Tasks, NEW r, QuietTask(t, r), Alive, NEW s \in Tasks, CachedStep(s), GetMoves(s)
    PROVE  Still(t, r) \/ Begins(t, r)
<1> DEFINE c == Coroutine(s)
<1>1. World /\ CacheType /\ c \in Clients /\ CacheLists
  BY InvParts, ClientsAre, CacheListsAre DEF QuietTask, World
<1>2. pc[s] \in Calling /\ UNCHANGED <<batch, idx, pc>> /\ GetStep(c) /\ Gets(c)
  BY DEF GetMoves, CallCache, Calling, Elsewhere
<1>3. Seen(t, r)' = Seen(t, r)
  BY <1>2, SeenElsewhere
<1>4. RequestOf(c) = Msg(s).request_id
  BY <1>2, TaskCalls DEF QuietTask
<1>5. CASE RequestOf(c) # r
  BY <1>1, <1>2, <1>3, <1>5, OtherList DEF Still, QuietTask
<1>6. CASE RequestOf(c) = r
  <2>1. s = t
    BY <1>1, <1>2, <1>4, <1>6, OneTask DEF QuietTask, Calling
  <2>2. PICK first \in BOOLEAN : first <=> Seen(t, r) = {}
    OBVIOUS
  <2>3. Reading(c, r, first)
    BY <1>1, <1>6, <2>2, OwnReading
  <2>4. CASE UNCHANGED <<pointer, lists>>
    BY <1>3, <2>4 DEF Still, ListOf
  <2>5. CASE first /\ MakesList(c, r)
    <3>1. <<>> \in Seq(Entry) /\ Len(lists) \in Nat /\ pointer \in [RequestIds -> 0..Len(lists)]
      BY <1>1 DEF CacheLists
    <3>2. pointer'[r] = Len(lists) + 1 /\ lists'[Len(lists) + 1] = <<>>
      BY <1>1, <2>5, <3>1, Longer DEF MakesList, QuietTask
    <3>3. pointer'[r] # NoHash /\ ListOf(r)' = <<>>
      BY <3>1, <3>2 DEF ListOf, NoHash
    <3> QED
      BY <1>2, <1>3, <1>4, <1>6, <2>1, <2>2, <2>5, <3>3 DEF Begins, MakesList
  <2> QED
    BY <2>3, <2>4, <2>5, <1>2, GetReads
<1> QED
  BY <1>5, <1>6

LEMMA OtherPush ==
    ASSUME CachedInv, NEW s \in Tasks, NEW r \in RequestIds, CachedSet(s), Push(Coroutine(s), Msg(s), dump[s].id),
           Msg(s).request_id # r
    PROVE  pointer'[r] = pointer[r] /\ ListOf(r)' = ListOf(r)
<1> DEFINE c == Coroutine(s)
<1>1. World /\ CacheType /\ c \in Clients /\ CacheLists /\ LocalsTrue(s)
  BY InvParts, ClientsAre, CacheListsAre DEF World
<1>2. pc[s] = "set" /\ pc[s] \notin Idle
  BY DEF CachedSet
<1>3. Msg(s) \in Message /\ dump[s].id \in Ids
  BY <1>1, <1>2, MessageIs DEF World, LocalsTrue
<1>4. pointer' = pointer /\ \A h \in 1..Len(lists) : h # call[c].hash => lists'[h] = lists[h]
  BY <1>1, <1>3, PushIs
<1>5. PICK owner \in [1..Len(lists) -> RequestIds] : Owned(owner)
  BY InvParts
<1>6. RequestOf(c) = Msg(s).request_id
  BY ClientsAre DEF RequestOf
<1>7. pointer[r] # NoHash => pointer[r] # call[c].hash
  BY <1>1, <1>5, <1>6 DEF Owned
<1>8. pointer[r] # NoHash => pointer[r] \in 1..Len(lists)
  BY <1>1, ListIs
<1> QED
  BY <1>4, <1>7, <1>8 DEF ListOf

LEMMA EntersShows ==
    ASSUME NEW t \in Tasks, NEW r, QuietTask(t, r), Msg(t).request_id = r, Enters(t),
           idx[t] \in DOMAIN batch[t], idx[t] \notin Seen(t, r), Seen(t, r)' = Seen(t, r) \cup {idx[t]}
    PROVE  Shows(t, r)
<1> DEFINE c == Coroutine(t)
<1>1. World /\ CacheType /\ c \in Clients /\ CacheLists /\ LocalsTrue(t) /\ RequestOf(c) = r
  BY InvParts, ClientsAre, CacheListsAre DEF QuietTask, World, RequestOf
<1>2. pc[t] = "set" /\ pc[t] \notin Idle /\ call'[c] = NoCall
  BY DEF Enters
<1>3. Msg(t) \in Message /\ dump[t].id \in Ids
  BY <1>1, <1>2, MessageIs DEF World, LocalsTrue
<1>4. Reads(call[c], pointer[r], ListOf(r), Seen(t, r) = {})
  BY <1>1, AllReads DEF QuietTask
<1>5. CASE At(c, "push") /\ Push(c, Msg(t), dump[t].id)
  <2>1. PICK h : h = call[c].hash
    OBVIOUS
  <2>2. h = pointer[r] /\ h # NoHash /\ pointer' = pointer
    BY <1>4, <1>5, <2>1 DEF Reads, At, Push
  <2>3. Prepended(lists[h], lists'[h], Pushed(Msg(t), dump[t].id))
    BY <1>1, <1>3, <1>5, <2>1, <2>2, PushFront
  <2>4. ListOf(r) = lists[h] /\ ListOf(r)' = lists'[h]
    BY <2>2 DEF ListOf
  <2> QED
    BY <1>2, <2>2, <2>3, <2>4 DEF Shows
<1>6. CASE At(c, "done") /\ ~IsUnique(c, Msg(t), dump[t]) /\ UNCHANGED <<pointer, lists>>
  <2>1. PICK e \in Entries(call[c].data) : e.date = Msg(t).day
    BY <1>6 DEF IsUnique, SameMessage
  <2>2. PICK j \in 1..Len(call[c].data) : e = call[c].data[j]
    BY <1>1, CallIs, EntriesAre
  <2>3. HasDate(ListOf(r), Msg(t).day)
    BY <1>4, <2>1, <2>2 DEF Reads
  <2>4. ListOf(r)' = ListOf(r) /\ pointer'[r] = pointer[r]
    BY <1>6 DEF ListOf
  <2> QED
    BY <1>2, <2>3, <2>4 DEF Shows
<1> QED
  BY <1>5, <1>6 DEF Enters

LEMMA SetView ==
    ASSUME NEW t \in Tasks, NEW r, QuietTask(t, r), NEW s \in Tasks, CachedStep(s), SetMoves(s)
    PROVE  Still(t, r) \/ Shows(t, r)
<1>1. World /\ CacheType /\ pc[s] = "set" /\ BaseType
  BY InvParts DEF QuietTask, World, SetMoves, CachedSet
<1>2. CASE Seen(t, r)' = Seen(t, r) /\ ~(s = t /\ Msg(t).request_id = r /\ Enters(t))
  <2>1. CASE UNCHANGED <<pointer, lists>>
    BY <1>2, <2>1 DEF Still, ListOf
  <2>2. CASE Push(Coroutine(s), Msg(s), dump[s].id) /\ AfterSet(s)
    <3>1. Msg(s).request_id # r
      <4> SUFFICES ASSUME Msg(s).request_id = r PROVE FALSE
        OBVIOUS
      <4>1. s = t
        BY <1>1, OneTask DEF QuietTask
      <4>2. pc'[t] \in {"commit", "column"}
        BY <1>1, <2>2, <4>1, AfterSetShape DEF Moves
      <4>3. GoesTo(t, r)
        BY <1>1, <4>1, SetEnters DEF SetMoves
      <4> QED
        BY <1>1, <1>2, <4>1, <4>2, <4>3 DEF GoesTo, SetDone, Resolving, Storing, AtName
    <3> QED
      BY <1>2, <2>2, <3>1, OtherPush DEF Still, QuietTask, SetMoves
  <2> QED
    BY <2>1, <2>2 DEF SetMoves, Sets
<1> QED
  BY <1>2, SeenStep, EntersShows

LEMMA StepView ==
    ASSUME NEW t \in Tasks, NEW r, QuietTask(t, r), Alive, NEW s \in Tasks, CachedStep(s)
    PROVE  Still(t, r) \/ Begins(t, r) \/ Shows(t, r)
<1>1. CASE ~CallCache(s) /\ ~CachedSet(s) /\ UNCHANGED <<pointer, lists>>
  <2>1. Seen(t, r)' = Seen(t, r)
    BY <1>1, SeenStep DEF Enters
  <2> QED
    BY <1>1, <2>1 DEF Still, ListOf
<1> QED
  BY <1>1, GetView, SetView, TaskCalls DEF QuietTask

-----------------------------------------------------------------------------
(* The dates of the list are those of the messages that have been through set. *)
Covers(list, S, b) ==
    /\ \A i \in S : HasDate(list, b[i].day)
    /\ \A k \in 1..Len(list) : \E i \in S : b[i].day = list[k].date

LEMMA CoversMore ==
    ASSUME NEW list, Len(list) \in Nat, NEW new, NEW S, NEW b, NEW i, Covers(list, S, b),
           \/ \E e : Prepended(list, new, e) /\ e.date = b[i].day
           \/ new = list /\ HasDate(list, b[i].day)
    PROVE  Covers(new, S \cup {i}, b)
<1>1. CASE new = list /\ HasDate(list, b[i].day)
  BY <1>1 DEF Covers
<1>2. ASSUME NEW e, Prepended(list, new, e), e.date = b[i].day PROVE Covers(new, S \cup {i}, b)
  <2>1. HasDate(new, b[i].day)
    BY <1>2 DEF Prepended, HasDate
  <2>2. ASSUME NEW j \in S PROVE HasDate(new, b[j].day)
    <3>1. PICK k \in 1..Len(list) : list[k].date = b[j].day
      BY DEF Covers, HasDate
    <3>2. k + 1 \in 1..Len(new) /\ new[k + 1].date = b[j].day
      BY <1>2, <3>1 DEF Prepended
    <3> QED
      BY <3>2 DEF HasDate
  <2>3. ASSUME NEW k \in 1..Len(new) PROVE \E j \in S \cup {i} : b[j].day = new[k].date
    <3>1. CASE k = 1
      BY <1>2, <3>1 DEF Prepended
    <3>2. CASE k # 1
      <4>1. k - 1 \in 1..Len(list) /\ (k - 1) + 1 = k
        BY <1>2, <3>2 DEF Prepended
      <4>2. new[k] = list[k - 1]
        BY <1>2, <4>1 DEF Prepended
      <4> QED
        BY <4>1, <4>2 DEF Covers
    <3> QED
      BY <3>1, <3>2
  <2> QED
    BY <2>1, <2>2, <2>3 DEF Covers
<1> QED
  BY <1>1, <1>2

LEMMA PayloadsSeen ==
    ASSUME NEW t \in Tasks, NEW r, QuietTask(t, r), NEW s \in Tasks, CachedStep(s), Seen(t, r)' = {}
    PROVE  \A p \in payloads' : p.request_id # r
<1>1. World /\ Grows(s) /\ Frames(s)
  BY InvParts, StepGrows, StepFrames DEF QuietTask, World
<1>2. Seen(t, r) = {}
  BY SeenStep
<1>3. \A p \in payloads : p.request_id # r
  BY <1>2 DEF QuietTask, DatesShown
<1>4. CASE CommitPayload(s)
  <2>1. pc[s] = "commit" /\ pc[s] \notin Idle
    BY <1>4 DEF CommitPayload
  <2>2. TxOf(s, "payloads") => tx[s].key = Msg(s).request_id
    BY <1>1 DEF World, TxTrue
  <2>3. Msg(s).request_id # r
    <3> SUFFICES ASSUME Msg(s).request_id = r PROVE FALSE
      OBVIOUS
    <3>1. s = t
      BY <1>1, <2>1, OneTask DEF QuietTask
    <3>2. idx[t] \in DOMAIN batch[t] /\ Msg(t).kind = "good"
      BY <1>1, <2>1, <3>1, CurrentIs
    <3>3. idx[t] \in Seen(t, r)
      BY <2>1, <3>1, <3>2 DEF Seen, Past, SetDone, Msg
    <3> QED
      BY <1>2, <3>3
  <2> QED
    BY <1>1, <1>3, <2>2, <2>3 DEF Grows
<1> QED
  BY <1>1, <1>3, <1>4 DEF Frames

LEMMA DatesStep ==
    ASSUME NEW t \in Tasks, NEW r, QuietTask(t, r), batch' = batch,
           Still(t, r) \/ Begins(t, r) \/ Shows(t, r), Seen(t, r)' = {} => \A p \in payloads' : p.request_id # r
    PROVE  DatesShown(t, r)'
<1>1. CacheType
  BY InvParts DEF QuietTask, World
<1>2. PICK b : b = batch[t]
  OBVIOUS
<1>3. Len(ListOf(r)) \in Nat /\ Covers(ListOf(r), Seen(t, r), b)
  BY <1>1, <1>2, ListIs DEF QuietTask, DatesShown, Covers
<1>4. Covers(ListOf(r)', Seen(t, r)', b)
  <2>1. CASE Still(t, r)
    BY <1>3, <2>1 DEF Still
  <2>2. CASE Begins(t, r)
    <3>1. Len(<<>>) = 0
      OBVIOUS
    <3> QED
      BY <2>2, <3>1 DEF Begins, Covers
  <2>3. CASE Shows(t, r)
    <3>1. Pushed(Msg(t), dump[t].id).date = b[idx[t]].day /\ Msg(t).day = b[idx[t]].day
      BY <1>2 DEF Pushed, Msg
    <3>2. PICK new : new = ListOf(r)'
      OBVIOUS
    <3>3. \/ \E e : Prepended(ListOf(r), new, e) /\ e.date = b[idx[t]].day
          \/ new = ListOf(r) /\ HasDate(ListOf(r), b[idx[t]].day)
      BY <2>3, <3>1, <3>2 DEF Shows
    <3>4. PICK list, S, i : list = ListOf(r) /\ S = Seen(t, r) /\ i = idx[t]
      OBVIOUS
    <3>5. Covers(new, S \cup {i}, b)
      BY <1>3, <3>3, <3>4, CoversMore
    <3> QED
      BY <2>3, <3>2, <3>4, <3>5 DEF Shows
  <2> QED
    BY <2>1, <2>2, <2>3
<1>5. batch'[t] = b
  BY <1>2
<1> QED
  BY <1>4, <1>5 DEF DatesShown, Covers

-----------------------------------------------------------------------------
(* The clients go on reading the list. *)
LEMMA ReadsGrown ==
    ASSUME NEW list, Len(list) \in Nat, NEW new, NEW now, NEW hash, Reads(now, hash, list, FALSE),
           (\E e : Prepended(list, new, e)) \/ new = list
    PROVE  Reads(now, hash, new, FALSE)
<1>1. CASE new = list
  BY <1>1
<1>2. ASSUME NEW e, Prepended(list, new, e) PROVE Reads(now, hash, new, FALSE)
  <2>1. Len(new) = Len(list) + 1
    BY <1>2 DEF Prepended
  <2>2. \A d : HasDate(list, d) => HasDate(new, d)
    <3> SUFFICES ASSUME NEW k \in 1..Len(list) PROVE HasDate(new, list[k].date)
      BY DEF HasDate
    <3>1. k + 1 \in 1..Len(new) /\ new[k + 1] = list[k]
      BY <1>2 DEF Prepended
    <3> QED
      BY <3>1 DEF HasDate
  <2> QED
    BY <2>1, <2>2 DEF Reads
<1> QED
  BY <1>1, <1>2

LEMMA ReadsBegun ==
    ASSUME NEW now, now.at = "done", now.data = <<>>, NEW hash, hash # NoHash, NEW list
    PROVE  Reads(now, hash, list, TRUE)
<1>1. Len(<<>>) = 0
  OBVIOUS
<1> QED
  BY <1>1 DEF Reads

(* The call of another client in such a step. *)
LEMMA OtherReads ==
    ASSUME NEW t \in Tasks, NEW r, QuietTask(t, r), \A m \in Messages : Begun(m),
           Still(t, r) \/ Begins(t, r) \/ Shows(t, r),
           NEW c \in Clients, RequestOf(c) = r, call'[c] = call[c]
    PROVE  Reads(call'[c], pointer'[r], ListOf(r)', Seen(t, r)' = {})
<1>1. World /\ CacheType
  BY InvParts DEF QuietTask, World
<1>2. CASE call[c] = NoCall
  BY <1>2, NothingRead
<1>3. CASE call[c] # NoCall
  <2>1. Reads(call[c], pointer[r], ListOf(r), Seen(t, r) = {})
    BY <1>1, AllReads DEF QuietTask
  <2>2. Seen(t, r) = {} => c = Coroutine(t)
    BY <1>1, <1>3, FirstAlone DEF QuietTask
  <2>3. CASE Still(t, r)
    BY <2>1, <2>3 DEF Still
  <2>4. CASE Begins(t, r)
    <3>1. c = Coroutine(t) /\ Seen(t, r)' = {} /\ pointer'[r] # NoHash
      BY <2>2, <2>4 DEF Begins
    <3>2. call'[c].at = "done" /\ call'[c].data = <<>>
      BY <2>4, <3>1 DEF Begins
    <3> QED
      BY <3>1, <3>2, ReadsBegun
  <2>5. CASE Shows(t, r)
    <3>1. Seen(t, r) # {}
      BY <1>3, <2>2, <2>5 DEF Shows
    <3>2. Reads(call[c], pointer[r], ListOf(r), FALSE) /\ Len(ListOf(r)) \in Nat
      BY <1>1, <2>1, <3>1, ListIs DEF QuietTask
    <3>3. PICK new : new = ListOf(r)'
      OBVIOUS
    <3>4. Reads(call[c], pointer[r], new, FALSE)
      BY <2>5, <3>2, <3>3, ReadsGrown DEF Shows
    <3>5. (Seen(t, r)' = {}) = FALSE
      BY <2>5 DEF Shows
    <3> QED
      BY <2>5, <3>3, <3>4, <3>5 DEF Shows
  <2> QED
    BY <2>3, <2>4, <2>5
<1> QED
  BY <1>2, <1>3

LEMMA GetReadsOn ==
    ASSUME NEW t \in Tasks, NEW r, QuietTask(t, r), Alive, NEW c \in Clients, RequestOf(c) = r, GetStep(c),
           Seen(t, r)' = Seen(t, r)
    PROVE  Reads(call'[c], pointer'[r], ListOf(r)', Seen(t, r)' = {})
<1>1. World /\ CacheType /\ CacheLists
  BY InvParts, CacheListsAre DEF QuietTask, World
<1>2. PICK first \in BOOLEAN : first = (Seen(t, r) = {})
  OBVIOUS
<1>3. Reading(c, r, first)
  BY <1>2, OwnReading
<1>4. ListOf(r) \in Seq(Entry) /\ Len(ListOf(r)) \in Nat /\ (ListOf(r) # <<>> => Len(ListOf(r)) > 0)
  BY <1>1, ListIs DEF QuietTask
<1>5. CASE UNCHANGED <<pointer, lists>> /\ Advances(call[c], call'[c], pointer[r], ListOf(r), first)
  <2>1. PICK list, new : list = ListOf(r) /\ new = call'[c]
    OBVIOUS
  <2>2. Reads(new, pointer[r], list, first)
    BY <1>3, <1>4, <1>5, <2>1, AdvancedReads DEF Reading
  <2>3. ListOf(r)' = list /\ pointer'[r] = pointer[r]
    BY <1>5, <2>1 DEF ListOf
  <2> QED
    BY <1>2, <2>1, <2>2, <2>3
<1>6. CASE first /\ MakesList(c, r)
  <2>1. pointer'[r] # NoHash
    BY <1>1, <1>6 DEF MakesList, CacheLists, QuietTask, NoHash
  <2>2. Reads(call'[c], pointer'[r], ListOf(r)', TRUE)
    BY <1>6, <2>1, ReadsBegun DEF MakesList
  <2> QED
    BY <1>2, <1>6, <2>2
<1> QED
  BY <1>3, <1>5, <1>6, GetReads

(* set reads the hash again. *)
LEMMA SetReads ==
    ASSUME NEW t \in Tasks, NEW r, QuietTask(t, r), NEW s \in Tasks, CachedSet(s),
           NEW c, c = Coroutine(s), RequestOf(c) = r, call'[c] # NoCall
    PROVE  Reads(call'[c], pointer'[r], ListOf(r)', Seen(t, r)' = {})
<1>1. World /\ CacheType /\ c \in Clients
  BY InvParts, ClientsAre DEF QuietTask, World
<1>2. ~EndCall(s)
  BY <1>1, EndsIs DEF EndCall
<1>3. At(c, "done") /\ ReadHash(c)
  BY <1>2 DEF CachedSet
<1>4. pointer[r] # NoHash /\ pointer' = pointer
  BY <1>1, <1>3, AllReads DEF QuietTask, Reads, At, ReadHash
<1> DEFINE v == [NoCall EXCEPT !.at = "push", !.hash = pointer[RequestOf(c)]]
<1>5. call'[c] = v
  BY <1>1, <1>3, CacheListsAre DEF ReadHash, CacheLists
<1>6. v.at = "push" /\ v.hash = pointer[r] /\ v.data = <<>>
  BY DEF NoCall
<1> HIDE DEF v
<1>7. Len(<<>>) = 0
  OBVIOUS
<1> QED
  BY <1>4, <1>5, <1>6, <1>7 DEF Reads

LEMMA ReadStep ==
    ASSUME NEW t \in Tasks, NEW r, QuietTask(t, r), Alive, \A m \in Messages : Begun(m),
           NEW s \in Tasks, CachedStep(s), NEW c \in Clients, RequestOf(c)' = r
    PROVE  Reads(call'[c], pointer'[r], ListOf(r)', Seen(t, r)' = {})
<1>1. World /\ CacheType
  BY InvParts DEF QuietTask, World
<1>2. Still(t, r) \/ Begins(t, r) \/ Shows(t, r)
  BY StepView
<1>3. CASE call'[c] = NoCall
  BY <1>3, NothingRead
<1>4. CASE call'[c] = call[c] /\ RequestOf(c) = r
  BY <1>2, <1>4, OtherReads
<1>5. CASE GetMoves(s) /\ c = Coroutine(s)
  <2>1. RequestOf(c) = r /\ GetStep(c) /\ UNCHANGED <<batch, idx, pc>>
    BY <1>5 DEF GetMoves, CallCache, Elsewhere
  <2>2. Seen(t, r)' = Seen(t, r)
    BY <2>1, SeenElsewhere
  <2> QED
    BY <2>1, <2>2, GetReadsOn
<1>6. CASE SetMoves(s) /\ c = Coroutine(s) /\ call'[c] # NoCall
  BY <1>6, SetReads DEF SetMoves
<1> QED
  BY <1>3, <1>4, <1>5, <1>6, TaskCalls DEF QuietTask, Follows

LEMMA OnWayStep ==
    ASSUME NEW t \in Tasks, NEW r, QuietTask(t, r), NEW s \in Tasks, CachedStep(s)
    PROVE  OnWay(t, r)'
<1>1. World /\ batch' = batch /\ Shape(s) /\ Position(s)
  BY InvParts, StepFrames, StepShape, StepPosition DEF QuietTask, World, Frames
<1>2. CASE s # t
  <2>1. idx'[t] = idx[t] /\ pc'[t] = pc[t]
    BY <1>1, <1>2 DEF Shape, Changes
  <2> QED
    BY <1>1, <2>1, SeenElsewhere DEF OnWay, Msg, QuietTask
<1>3. CASE s = t
  <2> SUFFICES ASSUME pc'[t] \notin Idle, Msg(t)'.request_id = r
               PROVE  pc'[t] # "reget" /\ (pc'[t] = "create" => Seen(t, r)' = {})
    BY DEF OnWay
  <2>1. idx'[t] = idx[t] /\ Msg(t).request_id = r /\ (pc[t] \notin Idle \/ pc'[t] = "get")
    BY <1>1, <1>3 DEF Position, Msg
  <2>2. CASE pc[t] \notin Idle
    <3>1. GoesTo(t, r)
      BY <1>3, <2>1, <2>2, OwnStep
    <3>2. CASE pc'[t] \in SetDone
      BY <3>2 DEF SetDone, Resolving, Storing, AtName
    <3>3. CASE pc'[t] \notin SetDone
      <4>1. ~Enters(t)
        BY <3>3 DEF Enters
      <4> QED
        BY <2>2, <3>1, <3>3, <4>1, SeenStep DEF GoesTo
    <3> QED
      BY <3>2, <3>3
  <2> QED
    BY <2>1, <2>2
<1> QED
  BY <1>2, <1>3

LEMMA QuietInvStep ==
    ASSUME CachedInv, CountedInv, NEW s \in Tasks, CachedStep(s), NEW t \in Tasks, NEW r \in RequestIds
    PROVE  QuietInv(t, r)'
<1> SUFFICES ASSUME Quiet(t, r)' PROVE DatesShown(t, r)' /\ AllRead(t, r)' /\ OnWay(t, r)'
  BY DEF QuietInv
<1>1. Quiet(t, r) /\ faults' = 0
  BY StepQuiet
<1>2. QuietTask(t, r) /\ Alive /\ \A m \in Messages : Begun(m)
  BY <1>1 DEF CountedInv, QuietInv, QuietTask, Quiet
<1>3. batch' = batch
  BY StepFrames DEF Frames
<1>4. DatesShown(t, r)'
  BY <1>2, <1>3, StepView, PayloadsSeen, DatesStep
<1>5. AllRead(t, r)'
  BY <1>2, ReadStep DEF AllRead
<1>6. OnWay(t, r)'
  BY <1>2, OnWayStep
<1> QED
  BY <1>4, <1>5, <1>6

-----------------------------------------------------------------------------
(* Until something expires, everything in the cache can be read. *)
LEMMA EntryOfAlive == ASSUME NEW row, NEW table PROVE EntryOf(row, table).alive
BY DEF EntryOf

LEMMA GetsAlive ==
    ASSUME CacheType, NEW c \in Clients, Gets(c), Alive
    PROVE  Alive'
<1>1. CacheLists
  BY CacheListsAre
<1>2. \A k \in 1..Len(call'[c].data) : call'[c].data[k].alive
  <2>1. CASE call'[c].data \in {<<>>, call[c].data}
    BY <2>1 DEF Alive
  <2>2. CASE FromRows(c)
    BY <2>2, EntryOfAlive DEF FromRows
  <2>3. CASE FromList(c)
    <3>1. call[c].hash \in 1..Len(lists)
      BY <2>3, CallIs DEF FromList, NoHash
    <3> QED
      BY <2>3, <3>1 DEF FromList, Alive
  <2> QED
    BY <2>1, <2>2, <2>3 DEF Gets
<1>3. \A h \in 1..Len(lists') : \A k \in 1..Len(lists'[h]) : lists'[h][k].alive
  <2>1. CASE UNCHANGED <<pointer, lists>>
    BY <2>1 DEF Alive
  <2>2. CASE Swapped(c)
    <3>1. PICK list \in Seq(Entry) : /\ lists' = Append(lists, list)
              /\ \A i \in 1..Len(list) : \E j \in 1..Len(call[c].data) : list[i] = call[c].data[j]
      BY <2>2 DEF Swapped
    <3>2. Len(lists') = Len(lists) + 1 /\ (\A h \in 1..Len(lists) : lists'[h] = lists[h]) /\ lists'[Len(lists) + 1] = list
      BY <1>1, <3>1, Longer
    <3>3. \A i \in 1..Len(list) : list[i].alive
      BY <3>1 DEF Alive
    <3>4. Len(lists) \in Nat
      BY <1>1 DEF CacheLists
    <3> SUFFICES ASSUME NEW h \in 1..Len(lists') PROVE \A k \in 1..Len(lists'[h]) : lists'[h][k].alive
      OBVIOUS
    <3>5. CASE h \in 1..Len(lists)
      BY <3>2, <3>5 DEF Alive
    <3>6. CASE h = Len(lists) + 1
      BY <3>2, <3>3, <3>6
    <3> QED
      BY <3>2, <3>4, <3>5, <3>6
  <2> QED
    BY <2>1, <2>2 DEF Gets
<1>4. \A d \in Clients \ {c} : call'[d] = call[d]
  BY DEF Gets, ClientStep
<1> QED
  BY <1>2, <1>3, <1>4 DEF Alive

LEMMA FollowsAlive ==
    ASSUME Alive, lists' = lists, \A d \in Clients : call'[d] = NoCall \/ call'[d] = call[d]
    PROVE  Alive'
<1>1. Len(NoCall.data) = 0
  BY DEF NoCall
<1>2. \A d \in Clients : \A k \in 1..Len(call'[d].data) : call'[d].data[k].alive
  BY <1>1 DEF Alive
<1> QED
  BY <1>2 DEF Alive

LEMMA StepAlive ==
    ASSUME CachedInv, NEW t \in Tasks, CachedStep(t), Alive
    PROVE  Alive'
<1> DEFINE c == Coroutine(t)
<1>1. World /\ CacheType /\ c \in Clients /\ CacheLists /\ LocalsTrue(t)
  BY InvParts, ClientsAre, CacheListsAre DEF World
<1>2. \A d \in Clients \ {c} : call'[d] = call[d]
  BY TaskCalls
<1>3. CASE GetMoves(t)
  BY <1>1, <1>3, GetsAlive DEF GetMoves
<1>4. CASE SetMoves(t)
  <2>1. Len(call'[c].data) = 0
    BY <1>4 DEF SetMoves, NoCall
  <2>2. \A d \in Clients : \A k \in 1..Len(call'[d].data) : call'[d].data[k].alive
    BY <1>2, <2>1 DEF Alive
  <2>3. \A h \in 1..Len(lists') : \A k \in 1..Len(lists'[h]) : lists'[h][k].alive
    <3>1. CASE UNCHANGED <<pointer, lists>>
      BY <3>1 DEF Alive
    <3>2. CASE Push(c, Msg(t), dump[t].id)
      <4>1. pc[t] = "set" /\ pc[t] \notin Idle
        BY <1>4 DEF SetMoves, CachedSet
      <4>2. Msg(t) \in Message /\ dump[t].id \in Ids
        BY <1>1, <4>1, MessageIs DEF World, LocalsTrue
      <4>3. Len(lists') = Len(lists) /\ (\A h \in 1..Len(lists) : h # call[c].hash => lists'[h] = lists[h])
            /\ LET h == call[c].hash
               IN  h # NoHash => \A i \in 1..Len(lists'[h]) :
                      \/ lists'[h][i] = Pushed(Msg(t), dump[t].id)
                      \/ \E j \in 1..Len(lists[h]) : lists'[h][i] = lists[h][j]
        BY <1>1, <3>2, <4>2, PushIs
      <4>4. Pushed(Msg(t), dump[t].id).alive
        BY DEF Pushed
      <4> SUFFICES ASSUME NEW h \in 1..Len(lists), NEW k \in 1..Len(lists'[h]) PROVE lists'[h][k].alive
        BY <4>3
      <4>5. h # NoHash
        BY DEF NoHash
      <4> QED
        BY <4>3, <4>4, <4>5 DEF Alive
    <3> QED
      BY <1>4, <3>1, <3>2 DEF SetMoves, Sets
  <2> QED
    BY <2>2, <2>3 DEF Alive
<1>5. CASE UNCHANGED <<pointer, lists>> /\ Follows(c)
  <2>1. \A d \in Clients : call'[d] = NoCall \/ call'[d] = call[d]
    BY <1>2, <1>5 DEF Follows
  <2> QED
    BY <1>5, <2>1, FollowsAlive
<1> QED
  BY <1>3, <1>4, <1>5, TaskCalls

(* A metrics task asks the cache, or ends its call. *)
MetricMoves(m) ==
    \/ Gets(m) /\ GetStep(m) /\ metric' = metric /\ metric[m].at = "poll"
    \/ /\ EvaluateStatusMetrics(m) /\ call'[m] = NoCall /\ NoFault /\ UNCHANGED <<pointer, lists>>
       /\ \A n \in Messages \ {m} : metric'[n] = metric[n]

LEMMA MetricsMove ==
    ASSUME CachedInv, NEW m \in Messages, MetricsStep(m)
    PROVE  /\ MetricMoves(m) /\ Active(m) /\ RequestOf(m) \in RequestIds /\ RequestOf(m) = MessageOf(m).request_id
           /\ \A d \in Clients \ {m} : call'[d] = call[d]
           /\ UNCHANGED <<payloads, batch, idx, pc, expiries>> /\ (NoFault \/ faults' = faults + 1)
<1>1. World /\ m \in Clients /\ m[2] # 0 /\ m[1] \in Tasks
  BY InvParts, ClientsAre
<1>2. Active(m)
  BY <1>1 DEF MetricsStep, EvaluateStatusMetrics, Active
<1>3. RequestOf(m) \in RequestIds /\ RequestOf(m) = MessageOf(m).request_id
  BY <1>1, <1>2, ActiveRequest DEF World, RequestOf, MessageOf
<1>4. /\ UNCHANGED <<payloads, batch, idx, pc>> /\ ClientStep(m)
      /\ (Gets(m) /\ metric' = metric) \/ (Evaluated(m) /\ call'[m] = NoCall /\ UNCHANGED <<pointer, lists>>)
  BY <1>1, MetricsTypes DEF World, dbVars, memVars, taskVars
<1>5. CASE metric[m].at = "poll" /\ GetStep(m) /\ UNCHANGED metric
  <2>1. Gets(m)
    BY <1>1, <1>3, <1>5, GetGets DEF World
  <2> QED
    BY <1>2, <1>3, <1>4, <1>5, <2>1, GetFaulty DEF MetricMoves, ClientStep
<1>6. CASE EvaluateStatusMetrics(m) /\ UNCHANGED <<faultVars, pointer, lists, redisNames, expiries>>
  <2>1. Evaluated(m)
    BY <1>1, <1>6, EvaluateIs DEF World
  <2>2. call'[m] = NoCall
    BY <1>1, <1>6, EndsIs DEF EvaluateStatusMetrics, World
  <2> QED
    BY <1>2, <1>3, <1>4, <1>6, <2>1, <2>2 DEF MetricMoves, ClientStep, Evaluated, NoFault, faultVars
<1> QED
  BY <1>5, <1>6 DEF MetricsStep

LEMMA MetricsAlive ==
    ASSUME CachedInv, NEW m \in Messages, MetricsStep(m), Alive
    PROVE  Alive'
<1>1. World /\ m \in Clients
  BY InvParts, ClientsAre
<1>2. CASE Gets(m)
  BY <1>1, <1>2, GetsAlive DEF World
<1>3. CASE call'[m] = NoCall /\ UNCHANGED <<pointer, lists>>
  <2>1. \A d \in Clients : call'[d] = NoCall \/ call'[d] = call[d]
    BY <1>3, MetricsMove
  <2> QED
    BY <1>3, <2>1, FollowsAlive
<1> QED
  BY <1>2, <1>3, MetricsMove DEF MetricMoves

-----------------------------------------------------------------------------
(* How far back the metrics task of a message finds it. *)
LEMMA NearMore ==
    ASSUME NEW list, Len(list) \in Nat, NEW new, NEW d, NEW n \in Nat, Near(list, d, n),
           (\E e : Prepended(list, new, e)) \/ new = list
    PROVE  Near(new, d, n + 1)
<1>1. PICK k \in 1..Len(list) : list[k].date = d /\ k <= n + 1
  BY DEF Near
<1>2. CASE new = list
  BY <1>1, <1>2 DEF Near
<1>3. ASSUME NEW e, Prepended(list, new, e) PROVE Near(new, d, n + 1)
  <2>1. k + 1 \in 1..Len(new) /\ new[k + 1].date = d /\ k + 1 <= (n + 1) + 1
    BY <1>1, <1>3 DEF Prepended
  <2> QED
    BY <2>1 DEF Near
<1> QED
  BY <1>2, <1>3

LEMMA BehindMore ==
    ASSUME NEW list, Len(list) \in Nat, NEW new, NEW d, NEW n \in Nat, Behind(list, d, n),
           (\E e : Prepended(list, new, e) /\ e.date # d) \/ new = list
    PROVE  Behind(new, d, n)
<1>1. CASE new = list
  BY <1>1
<1>2. ASSUME NEW e, Prepended(list, new, e), e.date # d PROVE Behind(new, d, n)
  <2> SUFFICES ASSUME NEW k \in 1..Len(new), new[k].date = d PROVE n < k
    BY DEF Behind
  <2>1. k # 1
    BY <1>2 DEF Prepended
  <2>2. k - 1 \in 1..Len(list) /\ (k - 1) + 1 = k
    BY <1>2, <2>1 DEF Prepended
  <2>3. list[k - 1].date = d
    BY <1>2, <2>2 DEF Prepended
  <2> QED
    BY <2>2, <2>3 DEF Behind
<1> QED
  BY <1>1, <1>2

LEMMA MissedMore ==
    ASSUME NEW list, Len(list) \in Nat, NEW new, NEW now, NEW d, NEW n \in Nat, Missed(now, list, d, n),
           (\E e : Prepended(list, new, e) /\ e.date # d) \/ new = list
    PROVE  Missed(now, new, d, n)
<1>1. Behind(new, d, n)
  BY BehindMore DEF Missed
<1>2. Behind(list, d, n + 1) => Behind(new, d, n + 1)
  <2>1. PICK k \in Nat : k = n + 1
    OBVIOUS
  <2>2. Behind(list, d, k) => Behind(new, d, k)
    BY BehindMore
  <2> QED
    BY <2>1, <2>2
<1> QED
  BY <1>1, <1>2 DEF Missed

LEMMA BegunSeen ==
    ASSUME World, NEW m \in Messages, Begun(m), metric[m].at # "off" \/ metric[m].retries # 0
    PROVE  /\ m[2] \in Seen(m[1], MessageOf(m).request_id) /\ MessageOf(m).request_id \in RequestIds
           /\ m[2] \in DOMAIN batch[m[1]] /\ m[1] \in Tasks
<1>1. /\ m[2] \in DOMAIN batch[m[1]] /\ MessageOf(m).kind = "good" /\ m[1] \in Tasks
      /\ m[2] < idx[m[1]] \/ (m[2] = idx[m[1]] /\ pc[m[1]] \in Resolving \cup Storing)
  BY ClientsAre DEF Begun
<1>2. m[2] \in Seen(m[1], MessageOf(m).request_id)
  BY <1>1 DEF Seen, Past, SetDone, MessageOf
<1>3. batch[m[1]][m[2]] \in Message
  BY <1>1, BatchIs DEF World, BaseType
<1> QED
  BY <1>1, <1>2, <1>3 DEF Message, MessageOf

LEMMA SeenIs ==
    ASSUME World, NEW t \in Tasks, NEW r
    PROVE  /\ Seen(t, r) \subseteq 1..Len(batch[t]) /\ Len(batch[t]) \in Nat /\ IsFiniteSet(Seen(t, r))
           /\ \A i \in Seen(t, r) : r \in RequestIds /\ batch[t][i].request_id = r /\ i \in DOMAIN batch[t]
                                    /\ (i < idx[t] \/ i = idx[t])
<1>1. batch[t] \in Seq(Message) /\ DOMAIN batch[t] = 1..Len(batch[t]) /\ Len(batch[t]) \in Nat
  BY BatchIs DEF World, BaseType
<1>2. IsFiniteSet(1..Len(batch[t])) /\ Seen(t, r) \subseteq 1..Len(batch[t])
  BY <1>1, FS_Interval DEF Seen
<1>3. IsFiniteSet(Seen(t, r))
  BY <1>2, FS_Subset
<1>4. \A i \in DOMAIN batch[t] : batch[t][i] \in Message
  BY <1>1
<1>5. \A i \in DOMAIN batch[t] : batch[t][i].request_id \in RequestIds
  BY <1>4 DEF Message
<1> QED
  BY <1>1, <1>2, <1>3, <1>5 DEF Seen, Past

(* The followers that have been through set. *)
LEMMA FollowersAre ==
    ASSUME World, NEW m \in Messages, NEW S
    PROVE  /\ IsFiniteSet(Followers(m)) /\ Cardinality(Followers(m)) \in Nat
           /\ Cardinality(Followers(m) \cap S) \in Nat /\ Cardinality(Followers(m) \cap S) <= Cardinality(Followers(m))
           /\ \A j \in Followers(m) \ S : Cardinality(Followers(m) \cap (S \cup {j})) = Cardinality(Followers(m) \cap S) + 1
<1> DEFINE F == Followers(m)
<1>1. m[1] \in Tasks /\ m[2] \in Int
  <2>1. m[2] \in 1..LastPosition /\ LastPosition \in Nat
    BY CacheAssumption DEF Messages
  <2>2. m[1] \in Tasks
    BY ClientsAre
  <2> QED
    BY <2>1, <2>2
<1>2. Len(batch[m[1]]) \in Nat
  BY <1>1, BatchIs DEF World, BaseType
<1>3. IsFiniteSet((m[2] + 1)..Len(batch[m[1]])) /\ F \subseteq (m[2] + 1)..Len(batch[m[1]])
  <2>1. m[2] + 1 \in Int
    BY <1>1
  <2>2. IsFiniteSet((m[2] + 1)..Len(batch[m[1]]))
    BY <1>2, <2>1, FS_Interval
  <2> QED
    BY <2>2 DEF Followers
<1>4. IsFiniteSet(F)
  BY <1>3, FS_Subset
<1> HIDE DEF F
<1>5. F \cap S \subseteq F /\ IsFiniteSet(F \cap S) /\ Cardinality(F \cap S) <= Cardinality(F)
  BY <1>4, FS_Subset
<1>6. ASSUME NEW j \in F \ S PROVE Cardinality(F \cap (S \cup {j})) = Cardinality(F \cap S) + 1
  <2>1. F \cap (S \cup {j}) = (F \cap S) \cup {j} /\ j \notin F \cap S
    BY <1>6
  <2> QED
    BY <1>5, <2>1, FS_AddElement
<1> QED
  BY <1>4, <1>5, <1>6, FS_CardinalityType DEF F

LEMMA WithinFrom ==
    ASSUME batch' = batch, NEW m, NEW t, t = m[1], NEW r, r = MessageOf(m).request_id, NEW d, d = MessageOf(m).day,
           m[2] \in Seen(t, r)' /\ Quiet(t, r)' /\ OnlyDate(m) =>
               /\ Near(ListOf(r)', d, Cardinality(Followers(m) \cap Seen(t, r)'))
               /\ Missed(call'[m], ListOf(r)', d, metric'[m].retries)
    PROVE  Within(m)'
<1>1. MessageOf(m)' = MessageOf(m) /\ Followers(m)' = Followers(m) /\ (OnlyDate(m)' <=> OnlyDate(m))
  BY DEF MessageOf, Followers, OnlyDate
<1>2. Seen(m[1], MessageOf(m).request_id)' = Seen(t, r)' /\ (Quiet(m[1], MessageOf(m).request_id)' <=> Quiet(t, r)')
      /\ ListOf(MessageOf(m).request_id)' = ListOf(r)'
  BY <1>1 DEF Seen, Past, Quiet, Lone, ListOf
<1> QED
  BY <1>1, <1>2 DEF Within

LEMMA WithinIs ==
    ASSUME NEW m, Within(m), NEW t, t = m[1], NEW r, r = MessageOf(m).request_id, NEW d, d = MessageOf(m).day,
           m[2] \in Seen(t, r), Quiet(t, r), OnlyDate(m)
    PROVE  /\ Near(ListOf(r), d, Cardinality(Followers(m) \cap Seen(t, r)))
           /\ Missed(call[m], ListOf(r), d, metric[m].retries)
BY DEF Within

(* The message itself goes through set. *)
LEMMA WithinOwn ==
    ASSUME NEW t \in Tasks, NEW r, QuietTask(t, r), Shows(t, r), NEW m \in Messages, Begun(m), t = m[1], m[2] = idx[t],
           OnlyDate(m), NEW d, d = MessageOf(m).day, call'[m] = call[m], metric'[m].retries = metric[m].retries,
           NEW n \in Nat
    PROVE  /\ Near(ListOf(r)', d, n)
           /\ Missed(call'[m], ListOf(r)', d, metric'[m].retries)
<1>1. World /\ CacheType /\ m \in Clients /\ m[2] # 0
  BY InvParts, ClientsAre DEF QuietTask, World
<1>2. metric[m].at = "off" /\ metric[m].retries = 0
  <2>1. pc[t] = "set"
    BY DEF Shows
  <2>2. pc[t] \notin Resolving \cup Storing /\ idx[t] \in Nat
    BY <1>1, <2>1 DEF Resolving, Storing, AtName, World, BaseType
  <2> QED
    BY <2>2 DEF Begun
<1>3. call'[m] = NoCall
  BY <1>1, <1>2 DEF CacheType, Active
<1>4. Msg(t) = MessageOf(m) /\ Pushed(Msg(t), dump[t].id).date = d
  BY DEF Msg, MessageOf, Pushed
<1>5. ~HasDate(ListOf(r), Msg(t).day)
  <2> SUFFICES ASSUME NEW k \in 1..Len(ListOf(r)), ListOf(r)[k].date = d PROVE FALSE
    BY <1>4 DEF HasDate
  <2>1. PICK i \in Seen(t, r) : batch[t][i].day = d
    BY DEF QuietTask, DatesShown
  <2>2. i # m[2] /\ i \in DOMAIN batch[t] /\ batch[t][i].request_id = r
    BY <2>1 DEF Shows, Seen
  <2>3. MessageOf(m).request_id = r
    BY <1>4 DEF Shows
  <2> QED
    BY <2>1, <2>2, <2>3 DEF OnlyDate
<1>6. PICK old, new, e : old = ListOf(r) /\ new = ListOf(r)' /\ e = Pushed(Msg(t), dump[t].id)
  OBVIOUS
<1>7. Prepended(old, new, e) /\ e.date = d /\ Len(old) \in Nat
  BY <1>1, <1>4, <1>5, <1>6, ListIs DEF Shows, QuietTask
<1>8. 1 \in 1..Len(new) /\ new[1].date = d /\ 1 <= n + 1
  BY <1>7 DEF Prepended
<1>9. Near(new, d, n)
  BY <1>8 DEF Near
<1>10. Behind(new, d, 0)
  BY DEF Behind
<1>11. Missed(NoCall, new, d, 0)
  BY <1>10, NothingRead
<1> QED
  BY <1>2, <1>3, <1>6, <1>9, <1>11

LEMMA WithinStep ==
    ASSUME CachedInv, CountedInv, NEW s \in Tasks, CachedStep(s), NEW m \in Messages
    PROVE  Within(m)'
<1>1. World /\ m \in Clients /\ m[1] \in Tasks /\ \A u \in Tasks : m # Coroutine(u)
  BY InvParts, ClientsAre
<1>0. PICK t \in Tasks : t = m[1]
  BY <1>1
<1>2. PICK r, d : t = m[1] /\ r = MessageOf(m).request_id /\ d = MessageOf(m).day
  BY <1>0
<1>3. batch' = batch /\ call'[m] = call[m]
  BY <1>1, StepFrames, TaskCalls DEF Frames
<1>4. metric'[m].retries = metric[m].retries /\ metric[m].retries \in Nat
  <2>1. metric[m] \in MetricRec
    BY <1>1, MetricIs DEF World
  <2>2. metric[m].retries \in Nat
    BY <2>1, MetricsAssumption DEF MetricRec
  <2> QED
    BY <1>1, <2>2, StepMetric DEF Spawned
<1> SUFFICES ASSUME m[2] \in Seen(t, r)', Quiet(t, r)', OnlyDate(m)
             PROVE  /\ Near(ListOf(r)', d, Cardinality(Followers(m) \cap Seen(t, r)'))
                    /\ Missed(call'[m], ListOf(r)', d, metric'[m].retries)
  BY <1>2, <1>3, WithinFrom
<1>5. Quiet(t, r) /\ faults' = 0
  BY StepQuiet
<1>6. r \in RequestIds
  <2>1. m[2] \in DOMAIN batch[t] /\ batch[t][m[2]].kind = "good"
    BY <1>3 DEF Seen, Past
  <2>2. batch[t][m[2]] \in Message
    BY <1>1, <2>1, BatchIs DEF World, BaseType
  <2> QED
    BY <1>2, <2>2 DEF Message, MessageOf
<1>7. QuietTask(t, r) /\ Alive /\ Begun(m) /\ Within(m)
  BY <1>5, <1>6 DEF CountedInv, QuietInv, QuietTask, Quiet
<1>8. Still(t, r) \/ Begins(t, r) \/ Shows(t, r)
  BY <1>7, StepView
<1>9. CASE Still(t, r)
  <2>1. m[2] \in Seen(t, r)
    BY <1>9 DEF Still
  <2>2. /\ Near(ListOf(r), d, Cardinality(Followers(m) \cap Seen(t, r)))
        /\ Missed(call[m], ListOf(r), d, metric[m].retries)
    BY <1>2, <1>5, <1>7, <2>1, WithinIs
  <2> QED
    BY <1>3, <1>4, <1>9, <2>2 DEF Still
<1>10. CASE Begins(t, r)
  BY <1>10 DEF Begins
<1>11. CASE Shows(t, r) /\ m[2] \notin Seen(t, r)
  <2>1. m[2] = idx[t]
    BY <1>11 DEF Shows
  <2>2. PICK n \in Nat : n = Cardinality(Followers(m) \cap Seen(t, r)')
    BY <1>1, FollowersAre
  <2> QED
    BY <1>2, <1>3, <1>4, <1>7, <1>11, <2>1, <2>2, WithinOwn
<1>12. CASE Shows(t, r) /\ m[2] \in Seen(t, r)
  <2>1. PICK j, S : j = idx[t] /\ S = Seen(t, r)
    OBVIOUS
  <2>2. /\ j \in DOMAIN batch[t] /\ j \notin S /\ Seen(t, r)' = S \cup {j} /\ batch[t][j].request_id = r
        /\ Msg(t) = batch[t][j] /\ m[2] # j
    BY <1>12, <2>1 DEF Shows, Msg
  <2>3. j \in Followers(m)
    <3>1. j \in 1..Len(batch[t]) /\ m[2] \in 1..Len(batch[t]) /\ Len(batch[t]) \in Nat /\ (m[2] < j \/ m[2] = j)
      BY <1>1, <1>12, <2>1, <2>2, SeenIs, BatchIs DEF World, BaseType
    <3> QED
      BY <1>2, <2>2, <3>1 DEF Followers
  <2>4. batch[t][j].day # d
    BY <1>2, <2>2 DEF OnlyDate
  <2>5. PICK n \in Nat : n = Cardinality(Followers(m) \cap S)
    BY <1>1, FollowersAre
  <2>6. Cardinality(Followers(m) \cap Seen(t, r)') = n + 1
    BY <1>1, <2>2, <2>3, <2>5, FollowersAre
  <2>7. PICK old, new, e : old = ListOf(r) /\ new = ListOf(r)' /\ e = Pushed(Msg(t), dump[t].id)
    OBVIOUS
  <2>8. Len(old) \in Nat /\ e.date # d /\ (Prepended(old, new, e) \/ new = old)
    BY <1>1, <1>12, <2>2, <2>4, <2>7, <1>6, ListIs DEF Shows, World, Pushed
  <2>9. Near(old, d, n) /\ Missed(call[m], old, d, metric[m].retries)
    BY <1>2, <1>5, <1>7, <1>12, <2>1, <2>5, <2>7, WithinIs
  <2>10. Near(new, d, n + 1)
    BY <2>8, <2>9, NearMore
  <2>11. PICK k \in Nat : k = metric[m].retries
    BY <1>4
  <2>12. PICK now : now = call[m]
    OBVIOUS
  <2>13. Missed(now, new, d, k)
    BY <2>8, <2>9, <2>11, <2>12, MissedMore
  <2> QED
    BY <1>3, <1>4, <2>6, <2>7, <2>10, <2>11, <2>12, <2>13
<1> QED
  BY <1>8, <1>9, <1>10, <1>11, <1>12

-----------------------------------------------------------------------------
(* The steps of a metrics task. *)
LEMMA MetricsQuiet ==
    ASSUME CachedInv, NEW m \in Messages, MetricsStep(m), NEW t, NEW r, Quiet(t, r)'
    PROVE  Quiet(t, r) /\ faults' = 0 /\ expiries' = 0
<1>1. World /\ expiries \in Nat
  BY InvParts DEF World, CacheType, CacheTypeOK
<1> QED
  BY <1>1, MetricsMove, QuietBefore DEF World

LEMMA MetricsView ==
    ASSUME NEW t \in Tasks, NEW r, QuietTask(t, r), Alive, NEW m \in Messages, MetricsStep(m), Begun(m)
    PROVE  /\ Still(t, r)
           /\ RequestOf(m) = r => t = m[1] /\ m[2] \in Seen(t, r)
           /\ RequestOf(m) = r /\ GetStep(m) => Advances(call[m], call'[m], pointer[r], ListOf(r), FALSE)
<1>1. World /\ CacheType /\ m \in Clients /\ CachedInv /\ r \in RequestIds
  BY InvParts, ClientsAre DEF QuietTask, World
<1>2. /\ MetricMoves(m) /\ RequestOf(m) = MessageOf(m).request_id
      /\ UNCHANGED <<payloads, batch, idx, pc, expiries>>
  BY <1>1, MetricsMove
<1>3. Seen(t, r)' = Seen(t, r)
  BY <1>2, SeenElsewhere
<1>4. metric[m].at # "off"
  BY DEF MetricsStep, EvaluateStatusMetrics
<1>5. /\ m[2] \in Seen(m[1], MessageOf(m).request_id) /\ m[2] \in DOMAIN batch[m[1]] /\ m[1] \in Tasks
  BY <1>1, <1>4, BegunSeen
<1>6. RequestOf(m) = r => t = m[1] /\ m[2] \in Seen(t, r)
  <2> SUFFICES ASSUME RequestOf(m) = r PROVE t = m[1]
    BY <1>2, <1>5
  <2>1. batch[m[1]][m[2]].request_id = r
    BY <1>2 DEF MessageOf
  <2> QED
    BY <1>5, <2>1 DEF QuietTask, Lone
<1>7. CASE UNCHANGED <<pointer, lists>> /\ call'[m] = NoCall /\ EvaluateStatusMetrics(m)
  <2>1. Still(t, r)
    BY <1>3, <1>7 DEF Still, ListOf
  <2>2. ~GetStep(m)
    BY <1>7 DEF EvaluateStatusMetrics, At, GetStep, ReadPointer, ReadLength, ReadEntries, LoadNames, LoadRows, SwapHash
  <2> QED
    BY <1>6, <2>1, <2>2
<1>8. CASE Gets(m) /\ GetStep(m) /\ RequestOf(m) # r
  BY <1>1, <1>3, <1>8, OtherList DEF Still
<1>9. CASE Gets(m) /\ GetStep(m) /\ RequestOf(m) = r
  <2>1. PICK first \in BOOLEAN : first = FALSE
    OBVIOUS
  <2>2. first <=> Seen(t, r) = {}
    BY <1>6, <1>9, <2>1
  <2>3. Reading(m, r, first)
    BY <1>1, <1>9, <2>2, OwnReading
  <2>4. UNCHANGED <<pointer, lists>> /\ Advances(call[m], call'[m], pointer[r], ListOf(r), first)
    BY <1>1, <1>9, <2>1, <2>3, GetReads
  <2>5. Still(t, r)
    BY <1>3, <2>4 DEF Still, ListOf
  <2> QED
    BY <1>6, <2>1, <2>4, <2>5
<1> QED
  BY <1>2, <1>7, <1>8, <1>9 DEF MetricMoves

LEMMA MetricsQuietInv ==
    ASSUME CachedInv, CountedInv, NEW m \in Messages, MetricsStep(m), NEW t \in Tasks, NEW r \in RequestIds
    PROVE  QuietInv(t, r)'
<1> SUFFICES ASSUME Quiet(t, r)' PROVE DatesShown(t, r)' /\ AllRead(t, r)' /\ OnWay(t, r)'
  BY DEF QuietInv
<1>1. Quiet(t, r) /\ faults' = 0
  BY MetricsQuiet
<1>2. QuietTask(t, r) /\ Alive /\ \A n \in Messages : Begun(n)
  BY <1>1 DEF CountedInv, QuietInv, QuietTask, Quiet
<1>3. /\ MetricMoves(m) /\ UNCHANGED <<payloads, batch, idx, pc>> /\ \A d \in Clients \ {m} : call'[d] = call[d]
  BY MetricsMove
<1>4. Still(t, r) /\ m \in Clients
  BY <1>2, MetricsView, ClientsAre
<1>5. Seen(t, r)' = {} => \A p \in payloads' : p.request_id # r
  BY <1>2, <1>3, <1>4 DEF Still, QuietTask, DatesShown
<1>6. DatesShown(t, r)'
  BY <1>2, <1>3, <1>4, <1>5, DatesStep
<1>7. ASSUME NEW c \in Clients, RequestOf(c)' = r
      PROVE  Reads(call'[c], pointer'[r], ListOf(r)', Seen(t, r)' = {})
  <2>1. RequestOf(c) = r
    BY <1>3, <1>7, RequestKept
  <2>2. CASE c # m
    BY <1>2, <1>3, <1>4, <2>1, <2>2, OtherReads
  <2>3. CASE c = m /\ GetStep(m)
    BY <1>2, <1>4, <2>1, <2>3, GetReadsOn DEF Still
  <2>4. CASE c = m /\ call'[m] = NoCall
    BY <2>4, NothingRead
  <2> QED
    BY <1>3, <2>2, <2>3, <2>4 DEF MetricMoves
<1>8. AllRead(t, r)'
  BY <1>7 DEF AllRead
<1>9. OnWay(t, r)'
  BY <1>2, <1>3, <1>4 DEF OnWay, QuietTask, Msg, Still
<1> QED
  BY <1>6, <1>8, <1>9

(* What the cache shows under the date of a message is that message. *)
LEMMA DateFinds ==
    ASSUME CachedInv, NEW m \in Messages, NEW t \in Tasks, t = m[1], NEW r, r = MessageOf(m).request_id, r = RequestOf(m),
           Lone(t, r), OnlyDate(m), NEW d, d = MessageOf(m).day, HasDate(call[m].data, d)
    PROVE  OfService(m) # {}
<1>1. World /\ CacheType /\ m \in Clients /\ CallTrue(m)
  BY InvParts, ClientsAre DEF World
<1>2. PICK data : data = call[m].data
  OBVIOUS
<1>3. Len(data) \in Nat
  BY <1>1, <1>2, CallIs
<1>4. PICK k \in 1..Len(data) : data[k].date = d
  BY <1>2 DEF HasDate
<1>5. PICK j \in 1..Len(data) : Dated(data, d) = data[j] /\ data[j].date = d
  BY <1>3, <1>4, DatedIs
<1>6. PICK e : e = data[j]
  OBVIOUS
<1>7. e \in Entries(data)
  BY <1>4, <1>5, <1>6 DEF Entries, Dates
<1>8. OfMessage(r, e)
  BY <1>1, <1>2, <1>5, <1>6 DEF CallTrue, EntryFor
<1>9. PICK u \in Tasks : \E i \in DOMAIN batch[u] :
          batch[u][i].request_id = r /\ batch[u][i].day = d /\ batch[u][i].name = e.name
  BY <1>5, <1>6, <1>8 DEF OfMessage
<1>10. PICK i \in DOMAIN batch[u] : batch[u][i].request_id = r /\ batch[u][i].day = d /\ batch[u][i].name = e.name
  BY <1>9
<1>11. u = t
  BY <1>10 DEF Lone
<1>12. i = m[2]
  BY <1>10, <1>11 DEF OnlyDate
<1>13. e.name = MessageOf(m).name
  BY <1>10, <1>11, <1>12 DEF MessageOf
<1> QED
  BY <1>2, <1>7, <1>13 DEF OfService

(* One more poll has missed the message. *)
LEMMA PollMisses ==
    ASSUME CachedInv, NEW m \in Messages, EvaluateStatusMetrics(m), At(m, "done"), NEW n \in Nat, n = metric[m].retries
    PROVE  /\ Poll(m) => metric'[m].retries = n + 1 /\ OfService(m) = {}
           /\ ~Poll(m) => /\ metric'[m].retries = n /\ metric'[m].counted = (call[m].data # <<>>)
                          /\ metric'[m].at = IF call[m].data # <<>> /\ OfService(m) = {} THEN "raised" ELSE "end"
                          /\ OfService(m) = {} => n >= METRIC_FETCH_RETRY_COUNT
<1>1. CacheType /\ metric \in [Messages -> MetricRec] /\ METRIC_FETCH_RETRY_COUNT \in Nat
  BY InvParts, MetricIs, MetricsAssumption DEF World
<1>2. metric[m] \in MetricRec
  BY <1>1
<1>3. CASE Poll(m)
  <2> DEFINE v == [metric[m] EXCEPT !.retries = n + 1]
  <2>1. metric' = [metric EXCEPT ![m] = v]
    BY <1>3 DEF EvaluateStatusMetrics, At, CountRetry
  <2>2. v.retries = n + 1
    BY <1>2 DEF MetricRec
  <2> HIDE DEF v
  <2>3. metric'[m] = v
    BY ONLY <1>1, <2>1, m \in Messages
  <2> QED
    BY <1>3, <2>2, <2>3 DEF Poll
<1>4. CASE ~Poll(m)
  <2> DEFINE at == IF call[m].data # <<>> /\ OfService(m) = {} THEN "raised" ELSE "end"
             counted == call[m].data # <<>>
             elapsed == Observed(m)
             v == [metric[m] EXCEPT !.at = at, !.counted = counted, !.elapsed = elapsed]
  <2>1. metric' = [metric EXCEPT ![m].at = at, ![m].counted = counted, ![m].elapsed = elapsed]
    BY <1>4 DEF EvaluateStatusMetrics, At
  <2>2. OfService(m) = {} => n >= METRIC_FETCH_RETRY_COUNT
    BY <1>1, <1>4 DEF Poll
  <2>3. at = (IF call[m].data # <<>> /\ OfService(m) = {} THEN "raised" ELSE "end") /\ counted = (call[m].data # <<>>)
    OBVIOUS
  <2> HIDE DEF at, counted, elapsed
  <2>4. v.retries = n /\ v.counted = counted /\ v.at = at
    BY <1>2 DEF MetricRec
  <2>5. metric' = [metric EXCEPT ![m] = v]
    BY <1>1, <2>1
  <2> HIDE DEF v
  <2>6. metric'[m] = v
    BY ONLY <1>1, <2>5, m \in Messages
  <2> QED
    BY <1>4, <2>2, <2>3, <2>4, <2>6
<1> QED
  BY <1>3, <1>4

-----------------------------------------------------------------------------
(* The task of a message of a quiet request, when it looks at what get returned. *)
Looking(m, t, r, d) ==
    /\ t = m[1] /\ r = MessageOf(m).request_id /\ d = MessageOf(m).day /\ r = RequestOf(m)
    /\ QuietTask(t, r) /\ Alive /\ OnlyDate(m) /\ m[2] \in Seen(t, r) /\ metric[m].at = "poll"
    /\ Near(ListOf(r), d, Cardinality(Followers(m) \cap Seen(t, r)))
    /\ Missed(call[m], ListOf(r), d, metric[m].retries)

LEMMA LookingIs ==
    ASSUME CachedInv, CountedInv, NEW m \in Messages, metric[m].at = "poll", NEW t \in Tasks, t = m[1],
           NEW r, r = MessageOf(m).request_id, NEW d, d = MessageOf(m).day, Quiet(t, r), OnlyDate(m), faults' = 0
    PROVE  Looking(m, t, r, d)
<1>1. World /\ Begun(m) /\ Within(m) /\ Alive /\ m[2] # 0
  BY InvParts, ClientsAre DEF CountedInv, Quiet
<1>2. m[2] \in Seen(t, r) /\ r \in RequestIds
  BY <1>1, BegunSeen
<1>3. r = RequestOf(m)
  BY <1>1 DEF RequestOf, MessageOf
<1>4. DatesShown(t, r) /\ AllRead(t, r) /\ OnWay(t, r)
  BY <1>2 DEF CountedInv, QuietInv
<1>5. /\ Near(ListOf(r), d, Cardinality(Followers(m) \cap Seen(t, r)))
      /\ Missed(call[m], ListOf(r), d, metric[m].retries)
  BY <1>1, <1>2, WithinIs
<1> QED
  BY <1>1, <1>2, <1>3, <1>4, <1>5 DEF Looking, QuietTask, Quiet

LEMMA LookingReads ==
    ASSUME NEW m \in Messages, NEW t \in Tasks, NEW r, NEW d, Looking(m, t, r, d)
    PROVE  /\ Reads(call[m], pointer[r], ListOf(r), FALSE) /\ HasDate(ListOf(r), d)
           /\ CacheType /\ World /\ Len(ListOf(r)) \in Nat /\ metric[m].retries \in 0..METRIC_FETCH_RETRY_COUNT
           /\ metric[m].retries \in Nat /\ METRIC_FETCH_RETRY_COUNT \in Nat
           /\ OfService(m) = {} => ~HasDate(call[m].data, d)
<1>1. World /\ CacheType /\ m \in Clients /\ r \in RequestIds /\ CachedInv
  BY InvParts, ClientsAre DEF Looking, QuietTask, World
<1>2. (Seen(t, r) = {}) = FALSE
  BY DEF Looking
<1>3. Reads(call[m], pointer[r], ListOf(r), FALSE)
  <2>1. Reads(call[m], pointer[r], ListOf(r), Seen(t, r) = {})
    BY <1>1, AllReads DEF Looking, QuietTask
  <2> QED
    BY <1>2, <2>1
<1>4. HasDate(ListOf(r), d)
  BY DEF Looking, Near, HasDate
<1>5. metric[m].retries \in 0..METRIC_FETCH_RETRY_COUNT /\ METRIC_FETCH_RETRY_COUNT \in Nat
  <2>1. metric[m] \in MetricRec
    BY <1>1, MetricIs
  <2> QED
    BY <2>1, MetricsAssumption DEF MetricRec
<1>6. OfService(m) = {} => ~HasDate(call[m].data, d)
  BY <1>1, DateFinds DEF Looking, QuietTask
<1>7. Len(ListOf(r)) \in Nat
  BY <1>1, ListIs
<1>8. metric[m].retries \in Nat
  BY <1>5
<1> QED
  BY <1>1, <1>3, <1>4, <1>5, <1>6, <1>7, <1>8

(* Its step misses the message once more, counts it, or only reads on. *)
LEMMA WithinOwnMetrics ==
    ASSUME NEW m \in Messages, MetricsStep(m), Begun(m), NEW t \in Tasks, NEW r, NEW d, Looking(m, t, r, d)
    PROVE  Missed(call'[m], ListOf(r), d, metric'[m].retries)
<1>1. /\ Reads(call[m], pointer[r], ListOf(r), FALSE) /\ HasDate(ListOf(r), d)
      /\ CacheType /\ World /\ Len(ListOf(r)) \in Nat /\ metric[m].retries \in Nat
      /\ OfService(m) = {} => ~HasDate(call[m].data, d)
  BY LookingReads
<1>2. PICK list, now, hash : list = ListOf(r) /\ now = call[m] /\ hash = pointer[r]
  OBVIOUS
<1>3. PICK n \in Nat : n = metric[m].retries
  BY <1>1
<1>4. Missed(now, list, d, n) /\ CachedInv
  BY <1>2, <1>3 DEF Looking, QuietTask
<1>5. CASE GetStep(m) /\ metric' = metric
  <2>1. Advances(now, call'[m], hash, list, FALSE)
    BY <1>2, <1>5, MetricsView DEF Looking
  <2>2. Missed(call'[m], list, d, n)
    BY <1>1, <1>2, <1>4, <2>1, AdvancedMisses
  <2> QED
    BY <1>2, <1>3, <1>5, <2>2
<1>6. CASE EvaluateStatusMetrics(m) /\ call'[m] = NoCall
  <2>1. At(m, "done")
    BY <1>1, <1>6 DEF EvaluateStatusMetrics, Reads, At
  <2>2. CASE Poll(m)
    <3>1. metric'[m].retries = n + 1 /\ OfService(m) = {}
      BY <1>3, <1>4, <1>6, <2>1, <2>2, PollMisses
    <3>2. Behind(list, d, n + 1)
      BY <1>1, <1>2, <1>4, <2>1, <3>1 DEF Missed, At
    <3>3. Missed(NoCall, list, d, n + 1)
      BY <3>2, NothingRead
    <3> QED
      BY <1>2, <1>6, <3>1, <3>3
  <2>3. CASE ~Poll(m)
    <3>1. metric'[m].retries = n
      BY <1>3, <1>4, <1>6, <2>1, <2>3, PollMisses
    <3>2. Missed(NoCall, list, d, n)
      BY <1>4, NothingRead DEF Missed
    <3> QED
      BY <1>2, <1>6, <3>1, <3>2
  <2> QED
    BY <2>2, <2>3
<1> QED
  BY <1>4, <1>5, <1>6, MetricsMove DEF MetricMoves

LEMMA MetricsWithin ==
    ASSUME CachedInv, CountedInv, NEW n \in Messages, MetricsStep(n), NEW m \in Messages
    PROVE  Within(m)'
<1>1. World /\ m[1] \in Tasks /\ m \in Clients /\ Begun(m) /\ Begun(n)
  BY InvParts, ClientsAre DEF CountedInv
<1>2. PICK t \in Tasks : t = m[1]
  BY <1>1
<1>3. PICK r, d : r = MessageOf(m).request_id /\ d = MessageOf(m).day
  OBVIOUS
<1>4. /\ batch' = batch /\ idx' = idx /\ pc' = pc /\ MetricMoves(n) /\ \A c \in Clients \ {n} : call'[c] = call[c]
  BY MetricsMove
<1> SUFFICES ASSUME m[2] \in Seen(t, r)', Quiet(t, r)', OnlyDate(m)
             PROVE  /\ Near(ListOf(r)', d, Cardinality(Followers(m) \cap Seen(t, r)'))
                    /\ Missed(call'[m], ListOf(r)', d, metric'[m].retries)
  BY <1>2, <1>3, <1>4, WithinFrom
<1>5. Quiet(t, r) /\ faults' = 0 /\ Seen(t, r)' = Seen(t, r)
  BY <1>4, MetricsQuiet, SeenElsewhere
<1>6. r \in RequestIds
  BY <1>1, <1>5, SeenIs
<1>7. QuietTask(t, r) /\ Alive /\ Within(m)
  BY <1>5, <1>6 DEF CountedInv, QuietInv, QuietTask, Quiet
<1>8. Still(t, r)
  BY <1>1, <1>7, MetricsView
<1>9. /\ Near(ListOf(r), d, Cardinality(Followers(m) \cap Seen(t, r)))
      /\ Missed(call[m], ListOf(r), d, metric[m].retries)
  BY <1>2, <1>3, <1>5, <1>7, WithinIs
<1>10. CASE m # n
  <2>1. call'[m] = call[m] /\ metric'[m].retries = metric[m].retries
    BY <1>1, <1>4, <1>10 DEF MetricMoves
  <2> QED
    BY <1>5, <1>8, <1>9, <2>1 DEF Still
<1>11. CASE m = n
  <2>1. metric[m].at = "poll"
    BY <1>4, <1>11 DEF MetricMoves, EvaluateStatusMetrics
  <2>2. Looking(m, t, r, d)
    BY <1>2, <1>3, <1>5, <2>1, LookingIs
  <2>3. Missed(call'[m], ListOf(r), d, metric'[m].retries)
    BY <1>1, <1>11, <2>2, WithinOwnMetrics
  <2> QED
    BY <1>5, <1>8, <1>9, <2>3 DEF Still
<1> QED
  BY <1>10, <1>11

LEMMA MetricsBegun ==
    ASSUME CachedInv, NEW n \in Messages, MetricsStep(n), NEW m \in Messages, Begun(m)
    PROVE  Begun(m)'
<1>1. UNCHANGED <<batch, idx, pc>> /\ MetricMoves(n)
  BY MetricsMove
<1>2. metric'[m] = metric[m] \/ (m = n /\ metric[m].at = "poll")
  BY <1>1 DEF MetricMoves, EvaluateStatusMetrics
<1> QED
  BY <1>1, <1>2 DEF Begun, MessageOf

-----------------------------------------------------------------------------
(* What a step adds to the messages that have been evaluated is counted. *)
LEMMA CountedBy ==
    ASSUME batch' = batch, MetricsCounted, faults' = 0 => faults = 0, expiries' = 0 => expiries = 0,
           NEW S, \A m \in Messages \ S : metric'[m] = metric[m] \/ metric'[m].at = "poll",
           \A m \in Messages \cap S :
               /\ faults' = 0 /\ expiries' = 0 /\ Lone(m[1], MessageOf(m).request_id) /\ OnlyDate(m)
               /\ Cardinality(Followers(m)) <= METRIC_FETCH_RETRY_COUNT
               => metric'[m].at \in {"off", "poll"} \/ (metric'[m].at = "end" /\ metric'[m].counted)
    PROVE  MetricsCounted'
<1>1. ASSUME NEW m \in Messages
      PROVE  /\ MessageOf(m)' = MessageOf(m) /\ Followers(m)' = Followers(m)
             /\ SharesRequest(m[1], m[2])' <=> SharesRequest(m[1], m[2])
             /\ ~SharesRequest(m[1], m[2]) => Lone(m[1], MessageOf(m).request_id)
  BY DEF MessageOf, Followers, SharesRequest, Lone
<1> SUFFICES ASSUME NEW m \in Messages, metric'[m].at \in {"end", "raised"}, faults' = 0, expiries' = 0,
                    ~SharesRequest(m[1], m[2])', OnlyDate(m), Cardinality(Followers(m)) <= METRIC_FETCH_RETRY_COUNT
             PROVE  metric'[m].at = "end" /\ metric'[m].counted
  BY <1>1 DEF MetricsCounted, OnlyDate
<1>2. CASE m \in S
  BY <1>1, <1>2
<1>3. CASE m \notin S
  BY <1>1, <1>3 DEF MetricsCounted, OnlyDate
<1> QED
  BY <1>2, <1>3

LEMMA PollAgain ==
    ASSUME World, NEW m \in Messages, EvaluateStatusMetrics(m), At(m, "done"), Poll(m), metric[m].at = "poll"
    PROVE  metric'[m].at = "poll"
<1>1. metric \in [Messages -> MetricRec] /\ metric[m] \in MetricRec
  BY MetricIs DEF World
<1> DEFINE v == [metric[m] EXCEPT !.retries = metric[m].retries + 1]
<1>2. v.at = "poll"
  BY <1>1 DEF MetricRec
<1>3. metric' = [metric EXCEPT ![m] = v]
  BY DEF EvaluateStatusMetrics, At, CountRetry
<1> HIDE DEF v
<1>4. metric'[m] = v
  BY ONLY <1>1, <1>3, m \in Messages
<1> QED
  BY <1>2, <1>4

LEMMA MetricsCount ==
    ASSUME CachedInv, CountedInv, NEW m \in Messages, MetricsStep(m)
    PROVE  MetricsCounted'
<1>1. World /\ m[1] \in Tasks /\ faults \in Nat
  BY InvParts, ClientsAre DEF World, BaseType
<1>2. /\ batch' = batch /\ expiries' = expiries /\ MetricMoves(m) /\ (NoFault \/ faults' = faults + 1)
  BY MetricsMove
<1>3. faults' = 0 => faults = 0
  BY <1>1, <1>2 DEF NoFault, faultVars
<1>4. metric[m].at = "poll" /\ \A n \in Messages \ {m} : metric'[n] = metric[n]
  BY <1>2 DEF MetricMoves, EvaluateStatusMetrics
<1>5. ASSUME faults' = 0, expiries' = 0, Lone(m[1], MessageOf(m).request_id), OnlyDate(m),
             Cardinality(Followers(m)) <= METRIC_FETCH_RETRY_COUNT
      PROVE  metric'[m].at \in {"off", "poll"} \/ (metric'[m].at = "end" /\ metric'[m].counted)
  <2>1. PICK t \in Tasks : t = m[1]
    BY <1>1
  <2>2. PICK r, d : r = MessageOf(m).request_id /\ d = MessageOf(m).day
    OBVIOUS
  <2>3. Looking(m, t, r, d)
    BY <1>2, <1>3, <1>4, <1>5, <2>1, <2>2, LookingIs DEF Quiet
  <2>4. /\ Reads(call[m], pointer[r], ListOf(r), FALSE) /\ Len(ListOf(r)) \in Nat
        /\ metric[m].retries \in 0..METRIC_FETCH_RETRY_COUNT
        /\ metric[m].retries \in Nat /\ METRIC_FETCH_RETRY_COUNT \in Nat
        /\ OfService(m) = {} => ~HasDate(call[m].data, d)
    BY <2>3, LookingReads
  <2>5. PICK n \in Nat : n = metric[m].retries
    BY <2>4
  <2>6. CASE metric' = metric
    BY <1>4, <2>6
  <2>7. CASE EvaluateStatusMetrics(m)
    <3>1. At(m, "done") /\ call[m].data # <<>>
      BY <2>4, <2>7 DEF EvaluateStatusMetrics, Reads, At
    <3>2. CASE Poll(m)
      BY <1>1, <1>4, <2>7, <3>1, <3>2, PollAgain
    <3>3. CASE ~Poll(m)
      <4>1. /\ metric'[m].counted = TRUE
            /\ metric'[m].at = IF OfService(m) = {} THEN "raised" ELSE "end"
            /\ OfService(m) = {} => n >= METRIC_FETCH_RETRY_COUNT
        BY <2>5, <2>7, <3>1, <3>3, PollMisses
      <4>2. CASE OfService(m) = {}
        <5>1. Behind(ListOf(r), d, n + 1) /\ n = METRIC_FETCH_RETRY_COUNT
          BY <2>3, <2>4, <2>5, <3>1, <4>1, <4>2 DEF Looking, Missed, At
        <5>2. PICK s \in Nat : /\ s = Cardinality(Followers(m) \cap Seen(t, r)) /\ s <= Cardinality(Followers(m))
                               /\ Cardinality(Followers(m)) \in Nat
          BY <1>1, FollowersAre
        <5>3. Near(ListOf(r), d, s)
          BY <2>3, <5>2 DEF Looking
        <5>4. PICK k \in 1..Len(ListOf(r)) : ListOf(r)[k].date = d /\ k <= s + 1
          BY <5>3 DEF Near
        <5>5. n + 1 < k
          BY <5>1, <5>4 DEF Behind
        <5> QED
          BY <1>5, <2>4, <5>1, <5>2, <5>4, <5>5
      <4> QED
        BY <4>1, <4>2
    <3> QED
      BY <3>2, <3>3
  <2> QED
    BY <1>2, <2>6, <2>7 DEF MetricMoves
<1>6. PICK S : S = {m}
  OBVIOUS
<1> QED
  BY <1>2, <1>3, <1>4, <1>5, <1>6, CountedBy DEF CountedInv

LEMMA TaskCounted ==
    ASSUME CachedInv, CountedInv, NEW s \in Tasks, CachedStep(s)
    PROVE  CountedInv'
<1>1. World /\ faults \in Nat
  BY InvParts DEF World, BaseType
<1>2. batch' = batch /\ expiries' = expiries
  BY StepFrames DEF Frames
<1>3. faults' = 0 => faults = 0
  BY <1>1, StepFaulty DEF NoFault, faultVars
<1>4. expiries' = 0 => Alive'
  BY <1>2, StepAlive DEF CountedInv
<1>5. \A m \in Messages : Begun(m)'
  BY <1>1, BegunStep DEF CountedInv
<1>6. \A t \in Tasks : \A r \in RequestIds : QuietInv(t, r)'
  BY QuietInvStep
<1>7. \A m \in Messages : Within(m)'
  BY WithinStep
<1>8. MetricsCounted'
  <2>1. \A m \in Messages \ {} : metric'[m] = metric[m] \/ metric'[m].at = "poll"
    BY <1>1, StepMetric DEF Spawned
  <2>2. PICK S : S = {}
    OBVIOUS
  <2> QED
    BY <1>2, <1>3, <2>1, <2>2, CountedBy DEF CountedInv
<1> QED
  BY <1>4, <1>5, <1>6, <1>7, <1>8 DEF CountedInv

LEMMA MetricsCountedNext ==
    ASSUME CachedInv, CountedInv, NEW m \in Messages, MetricsStep(m)
    PROVE  CountedInv'
<1>1. expiries' = 0 => Alive'
  BY MetricsMove, MetricsAlive DEF CountedInv
<1>2. \A n \in Messages : Begun(n)' /\ Within(n)'
  BY MetricsBegun, MetricsWithin DEF CountedInv
<1>3. \A t \in Tasks : \A r \in RequestIds : QuietInv(t, r)'
  BY MetricsQuietInv
<1>4. MetricsCounted'
  BY MetricsCount
<1> QED
  BY <1>1, <1>2, <1>3, <1>4 DEF CountedInv

-----------------------------------------------------------------------------
(* Neither an UPDATE nor a step that changes nothing touches what is counted. *)
LEMMA RestQuiet ==
    ASSUME CachedInv, CountedInv, Aside, UNCHANGED <<pointer, lists, call, metric>>,
           NEW t \in Tasks, NEW r \in RequestIds, Quiet(t, r)
    PROVE  DatesShown(t, r)' /\ AllRead(t, r)' /\ OnWay(t, r)'
<1>1. UNCHANGED <<batch, idx, pc>> /\ (payloads' = payloads \/ Rewrites)
  BY DEF Aside
<1>2. DatesShown(t, r) /\ AllRead(t, r) /\ OnWay(t, r)
  BY DEF CountedInv, QuietInv
<1>3. Seen(t, r)' = Seen(t, r) /\ ListOf(r)' = ListOf(r)
  BY <1>1, SeenElsewhere DEF ListOf
<1>4. (\A p \in payloads : p.request_id # r) => \A p \in payloads' : p.request_id # r
  BY <1>1 DEF Rewrites
<1>5. DatesShown(t, r)'
  BY <1>1, <1>2, <1>3, <1>4 DEF DatesShown
<1>6. \A c \in Clients : RequestOf(c)' = RequestOf(c) /\ (Active(c)' <=> Active(c))
  BY <1>1, RequestKept DEF Active
<1>7. AllRead(t, r)'
  BY <1>2, <1>3, <1>6 DEF AllRead
<1>8. OnWay(t, r)'
  BY <1>1, <1>2, <1>3 DEF OnWay, Msg
<1> QED
  BY <1>5, <1>7, <1>8

LEMMA RestCounted ==
    ASSUME CachedInv, CountedInv, Aside, UNCHANGED <<pointer, lists, call, metric, expiries>>,
           NoFault \/ faults' = faults + 1
    PROVE  CountedInv'
<1>1. World /\ expiries \in Nat /\ UNCHANGED <<batch, idx, pc>>
  BY InvParts DEF World, CacheType, CacheTypeOK, Aside
<1>2. \A t : \A r : Quiet(t, r)' => Quiet(t, r)
  BY <1>1, QuietBefore DEF World
<1>3. faults' = 0 => faults = 0
  BY <1>1 DEF World, BaseType, NoFault, faultVars
<1>4. expiries' = 0 => Alive'
  BY DEF CountedInv, Alive
<1>5. \A m \in Messages : Begun(m)'
  BY <1>1 DEF CountedInv, Begun, MessageOf
<1>6. \A t \in Tasks : \A r \in RequestIds : QuietInv(t, r)'
  BY <1>2, RestQuiet DEF QuietInv
<1>7. ASSUME NEW m \in Messages PROVE Within(m)'
  <2>1. PICK t, r, d : t = m[1] /\ r = MessageOf(m).request_id /\ d = MessageOf(m).day
    OBVIOUS
  <2>2. Seen(t, r)' = Seen(t, r) /\ ListOf(r)' = ListOf(r) /\ Within(m)
    BY <1>1, SeenElsewhere DEF ListOf, CountedInv
  <2> QED
    BY <1>1, <1>2, <2>1, <2>2, WithinFrom, WithinIs
<1>8. MetricsCounted'
  <2>1. PICK S : S = {}
    OBVIOUS
  <2> QED
    BY <1>1, <1>3, <2>1, CountedBy DEF CountedInv
<1> QED
  BY <1>4, <1>5, <1>6, <1>7, <1>8 DEF CountedInv

(* Once an entry has expired, nothing is said of what is counted. *)
LEMMA ExpireCounted ==
    ASSUME CachedInv, CountedInv, Expire, UNCHANGED <<vars, metric, dump, tx>>
    PROVE  CountedInv'
<1>1. UNCHANGED <<batch, idx, pc>> /\ expiries' # 0
  BY InvParts DEF World, CacheType, CacheTypeOK, Expire, vars, taskVars
<1>2. \A m \in Messages : Begun(m)'
  BY <1>1 DEF CountedInv, Begun, MessageOf
<1>3. \A t \in Tasks : \A r \in RequestIds : QuietInv(t, r)'
  BY <1>1 DEF QuietInv, Quiet
<1>4. \A m \in Messages : Within(m)'
  BY <1>1 DEF Within, Quiet
<1>5. MetricsCounted'
  BY <1>1 DEF MetricsCounted
<1> QED
  BY <1>1, <1>2, <1>3, <1>4, <1>5 DEF CountedInv

LEMMA CountedNext ==
    ASSUME CachedInv, Places, CountedInv, [CachedNext]_cachedVars
    PROVE  CountedInv'
<1>1. World /\ BaseType /\ CacheType
  BY InvParts DEF World
<1>2. CASE \E t \in Tasks : CachedStep(t)
  BY <1>2, TaskCounted
<1>3. CASE \E m \in Messages : MetricsStep(m)
  BY <1>3, MetricsCountedNext
<1>4. CASE Expire /\ UNCHANGED <<vars, metric, dump, tx>>
  BY <1>4, ExpireCounted
<1>5. ASSUME NEW u \in updates, RunUpdate(u), UNCHANGED <<cacheVars, metric, dump, tx>>
      PROVE  CountedInv'
  <2>1. (payloads' = payloads \/ Rewrites) /\ UNCHANGED <<names, statuses, partitions, taskVars>>
    BY <1>1, <1>5, UpdateTypes
  <2>2. faulted' = faulted \/ faulted' = faulted \cup {<<u.task, u.pos>>}
    BY <1>5 DEF RunUpdate, NoFault, Fault, faultVars
  <2>3. u.pos \in DOMAIN batch[u.task]
    BY DEF Places
  <2>4. verdict' = verdict /\ updates' \subseteq updates /\ redisNames' = redisNames /\ call' = call
    BY <1>5 DEF RunUpdate, logVars, cacheVars
  <2>5. faulted \subseteq faulted' /\ \A x \in faulted' : x \in faulted \/ x[2] \in DOMAIN batch[x[1]]
    BY <2>2, <2>3
  <2>6. Aside
    BY <1>5, <2>1, <2>4, <2>5 DEF Aside, taskVars
  <2>7. NoFault \/ faults' = faults + 1
    BY <1>5 DEF RunUpdate, Fault
  <2> QED
    BY <1>5, <2>6, <2>7, RestCounted DEF cacheVars
<1>6. CASE UNCHANGED cachedVars
  <2>1. Aside /\ UNCHANGED <<pointer, lists, call, metric, expiries>> /\ NoFault
    BY <1>6 DEF Aside, NoFault, cachedVars, cacheVars, vars, dbVars, memVars, taskVars, logVars, faultVars
  <2> QED
    BY <2>1, RestCounted
<1>7. CASE Terminated /\ UNCHANGED <<cacheVars, metric, dump, tx>>
  <2>1. Aside /\ UNCHANGED <<pointer, lists, call, metric, expiries>> /\ NoFault
    BY <1>7 DEF Aside, NoFault, Terminated, cacheVars, vars, dbVars, memVars, taskVars, logVars, faultVars
  <2> QED
    BY <2>1, RestCounted
<1> QED
  BY <1>2, <1>3, <1>4, <1>5, <1>6, <1>7 DEF CachedNext

LEMMA CountedInit == CachedInit => CountedInv
<1> SUFFICES ASSUME CachedInit PROVE CountedInv
  OBVIOUS
<1>1. Init /\ CacheInit /\ MetricsInit /\ World
  BY CachedInvInit, InvParts DEF CachedInit
<1>2. lists = <<>> /\ payloads = {} /\ \A t \in Tasks : pc[t] = "next" /\ idx[t] = 1
  BY <1>1 DEF Init, CacheInit
<1>3. \A c \in Clients : call[c] = NoCall
  BY <1>1 DEF CacheInit
<1>4. \A m \in Messages : metric[m].at = "off" /\ metric[m].retries = 0
  BY <1>1 DEF MetricsInit
<1>5. \A r \in RequestIds : ListOf(r) = <<>> /\ pointer[r] = NoHash
  BY <1>1 DEF CacheInit, ListOf
<1>6. ASSUME NEW t \in Tasks, NEW r PROVE Seen(t, r) = {}
  <2>1. DOMAIN batch[t] = 1..Len(batch[t]) /\ Len(batch[t]) \in Nat
    BY <1>1, BatchIs DEF World, BaseType
  <2>2. \A i \in DOMAIN batch[t] : ~(i < idx[t])
    BY <1>2, <2>1
  <2>3. pc[t] \notin SetDone
    BY <1>2 DEF SetDone, Resolving, Storing, AtName
  <2> QED
    BY <2>2, <2>3 DEF Seen, Past
<1>7. Alive
  BY <1>2, <1>3 DEF Alive, NoCall
<1>8. \A m \in Messages : Begun(m)
  BY <1>4 DEF Begun
<1>9. ASSUME NEW t \in Tasks, NEW r \in RequestIds PROVE QuietInv(t, r)
  <2>1. DatesShown(t, r)
    BY <1>2, <1>5, <1>6 DEF DatesShown
  <2>2. AllRead(t, r)
    BY <1>3, NothingRead DEF AllRead
  <2>3. OnWay(t, r)
    BY <1>2 DEF OnWay
  <2> QED
    BY <2>1, <2>2, <2>3 DEF QuietInv
<1>10. ASSUME NEW m \in Messages PROVE Within(m)
  <2>1. m[1] \in Tasks
    BY ClientsAre
  <2>2. m[2] \notin Seen(m[1], MessageOf(m).request_id)
    BY <1>6, <2>1
  <2> QED
    BY <2>2 DEF Within
<1>11. MetricsCounted
  BY <1>4 DEF MetricsCounted
<1> QED
  BY <1>7, <1>8, <1>9, <1>10, <1>11 DEF CountedInv

(***************************************************************************)
(* The metrics task of a message finds it in the cache and counts it, when *)
(* one coroutine handles the request, its dates differ, nothing has failed *)
(* or expired, and no more messages follow it than there are retries: only *)
(* a message that is pushed between LLEN and LRANGE hides it from a poll.  *)
(***************************************************************************)
THEOREM MetricsCountedAlways == CachedSpec => []MetricsCounted
<1>1. CachedInit => CachedInv /\ CalmInv /\ CountedInv
  BY CachedInvInit, CalmInit, CountedInit
<1>2. (CachedInv /\ CalmInv /\ CountedInv) /\ [CachedNext]_cachedVars => (CachedInv /\ CalmInv /\ CountedInv)'
  BY CachedInvNext, CalmNext, CountedNext DEF CalmInv
<1>3. CachedInv /\ CalmInv /\ CountedInv => MetricsCounted
  BY DEF CountedInv
<1> QED
  BY <1>1, <1>2, <1>3, PTL DEF CachedSpec
=============================================================================
