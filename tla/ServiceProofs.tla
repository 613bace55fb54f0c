---------------------------- MODULE ServiceProofs ----------------------------
(***************************************************************************)
(* The cleanup, the read API and the health check beside the pipeline: the *)
(* cleanup takes nothing but what is old, so that neither the coroutines   *)
(* nor the handlers that have read a row meet anything they cannot use.    *)
(***************************************************************************)
EXTENDS HealthCheck, StatusPipelineProofs

USE DEF Ids, NoId, Idle

(* Every row has a day on which it was created. *)
BornInv ==
    /\ today \in Int
    /\ Keys \subseteq DOMAIN born
    /\ \A k \in DOMAIN born : born[k] \in Int

(* What the cleanup may have taken from under message m. *)
Excused(m) == OldPayload(m.request_id) \/ Old(m.day)

(* A task without a fault has what its next attempt needs, or it was old. *)
TaskSound(s) ==
    pc[s] \notin Idle /\ Current(s) \notin faulted => Sound(s) \/ Excused(Msg(s))

RetentionInv ==
    /\ AttributionInv /\ BornInv
    /\ \A s \in Tasks : TaskSound(s)
    /\ CleanupLoss

-----------------------------------------------------------------------------
(* Time goes on and no row is born again: what is old stays old. *)
Ages ==
    /\ today <= today'
    /\ \A k \in DOMAIN born : k \in DOMAIN born' /\ born'[k] = born[k]

LEMMA OldKept ==
    ASSUME BornInv, BornInv', Ages
    PROVE  /\ \A d \in Int : Old(d) => Old(d)'
           /\ \A r : OldPayload(r) => OldPayload(r)'
<1>1. \A d \in Int : Old(d) => Old(d)'
  BY RetentionAssumption DEF Old, BornInv, Ages
<1>2. \A r : OldPayload(r) => OldPayload(r)'
  <2> SUFFICES ASSUME NEW r, NEW k \in DOMAIN born, k[1] = "payload", k[3] = r, Old(born[k])
               PROVE  \E x \in DOMAIN born' : x[1] = "payload" /\ x[3] = r /\ Old(born[x])'
    BY DEF OldPayload
  <2>1. k \in DOMAIN born' /\ born'[k] = born[k] /\ born[k] \in Int
    BY DEF Ages, BornInv
  <2>2. Old(born[k])'
    BY <2>1, RetentionAssumption DEF Old, BornInv, Ages
  <2> QED
    BY <2>1, <2>2
<1> QED
  BY <1>1, <1>2

LEMMA ExcusedKept ==
    ASSUME BornInv, BornInv', Ages
    PROVE  \A m : m.day \in Int /\ Excused(m) => Excused(m)'
BY OldKept DEF Excused

(* The message a task works on has a day. *)
LEMMA DayType ==
    ASSUME TypeOK, NEW s \in Tasks
    PROVE  /\ pc[s] \notin Idle => Msg(s).day \in Int
           /\ \A i \in DOMAIN batch[s] : batch[s][i].day \in Int
BY AtMessage, BatchType, RetentionAssumption DEF Message

LEMMA StampBorn ==
    ASSUME BornInv, Stamp
    PROVE  BornInv' /\ Ages
<1>1. /\ today' = today /\ today \in Int
      /\ DOMAIN born' = DOMAIN born \cup Keys'
      /\ \A k \in DOMAIN born' : born'[k] = IF k \in DOMAIN born THEN born[k] ELSE today
  BY DEF Stamp, BornInv
<1> QED
  BY <1>1 DEF BornInv, Ages

-----------------------------------------------------------------------------
(* What a command of the cleanup takes is old. *)
GoneFor(s) == \E p \in payloads \ payloads' : p.id = s.payload_id

JobEffect ==
    /\ UNCHANGED <<names, nextId, memVars, taskVars, logVars, faultVars, today, born>>
    /\ payloads' \subseteq payloads /\ statuses' \subseteq statuses /\ partitions' \subseteq Days
    /\ \A p \in payloads \ payloads' : Old(born[PayloadKey(p)])
    /\ \A d \in partitions \ partitions' : Old(d)
    /\ \A s \in statuses' : ~GoneFor(s) /\ (s.day \in partitions => s.day \in partitions')
    /\ \A s \in statuses \ statuses' : Old(born[StatusKey(s)]) \/ Old(s.day) \/ GoneFor(s)

LEMMA OutdatedOld ==
    ASSUME BornInv, NEW key, \A x \in DOMAIN key : key[x] \in DOMAIN born, NEW D \in Outdated(key)
    PROVE  D \subseteq DOMAIN key /\ \A x \in D : Old(born[key[x]])
<1>1. PICK S \in SUBSET {x \in DOMAIN key : born[key[x]] = Cutoff} :
          D = {x \in DOMAIN key : born[key[x]] < Cutoff} \cup S
  BY DEF Outdated
<1>2. D \subseteq DOMAIN key
  BY <1>1
<1>3. ASSUME NEW x \in D PROVE Old(born[key[x]])
  <2>1. born[key[x]] \in Int /\ today \in Int
    BY <1>2 DEF BornInv
  <2>2. born[key[x]] < Cutoff \/ born[key[x]] = Cutoff
    BY <1>1
  <2> QED
    BY <2>1, <2>2, RetentionAssumption DEF Cutoff, Old
<1> QED
  BY <1>2, <1>3

LEMMA JobTakesOld ==
    ASSUME TypeOK, BornInv, JobStep
    PROVE  JobEffect
<1>0. /\ partitions \subseteq Days /\ today \in Int
      /\ \A p \in payloads : PayloadKey(p) \in DOMAIN born
      /\ \A s \in statuses : StatusKey(s) \in DOMAIN born
  BY DEF TypeOK, BornInv, Keys
<1>1. CASE DeleteStatuses
  <2> DEFINE key == [s \in statuses |-> StatusKey(s)]
  <2>1. PICK D \in Outdated(key) : Command(payloads, statuses \ D, partitions)
    BY <1>1 DEF DeleteStatuses
  <2>2. \A x \in D : Old(born[key[x]]) /\ x \in DOMAIN key
    BY <1>0, <2>1, OutdatedOld
  <2>3. \A s \in D : Old(born[StatusKey(s)])
    BY <2>2
  <2> QED
    BY <1>0, <2>1, <2>3 DEF Command, JobEffect, JobStep, GoneFor
<1>2. CASE DeletePayloads
  <2> DEFINE key == [p \in payloads |-> PayloadKey(p)]
  <2>1. PICK D \in Outdated(key) :
            Command(payloads \ D, {s \in statuses : \A p \in D : p.id # s.payload_id}, partitions)
    BY <1>2 DEF DeletePayloads
  <2>2. \A x \in D : Old(born[key[x]]) /\ x \in DOMAIN key
    BY <1>0, <2>1, OutdatedOld
  <2>3. \A p \in D : Old(born[PayloadKey(p)]) /\ p \in payloads
    BY <2>2
  <2>4. payloads \ payloads' = D /\ payloads' = payloads \ D
    BY <2>1, <2>3 DEF Command
  <2>5. \A s \in statuses : s \in statuses' <=> ~GoneFor(s)
    BY <2>1, <2>4 DEF Command, GoneFor
  <2> QED
    BY <1>0, <2>1, <2>3, <2>4, <2>5 DEF Command, JobEffect, JobStep
<1>3. CASE CreateTomorrow
  BY <1>0, <1>3 DEF CreateTomorrow, Command, JobEffect, JobStep, GoneFor
<1>4. CASE DropPartition
  <2>1. Old(DropDay)
    BY <1>0, RetentionAssumption DEF DropDay, Old
  <2> QED
    BY <1>0, <1>4, <2>1 DEF DropPartition, Command, JobEffect, JobStep, GoneFor
<1>5. CASE CommandFails
  BY <1>0, <1>5 DEF CommandFails, JobEffect, JobStep, GoneFor, vars, dbVars
<1> QED
  BY <1>1, <1>2, <1>3, <1>4, <1>5 DEF JobStep

-----------------------------------------------------------------------------
(* The cleanup leaves every row that stays with its message. *)
LEMMA JobMessages ==
    ASSUME JobEffect
    PROVE  /\ UNCHANGED <<names, nextId, cached, updates, batch, idx, pc, col, try, sps, snapshot>>
           /\ UNCHANGED <<count, verdict, faults, faulted>>
           /\ \A s \in Tasks : Msg(s)' = Msg(s) /\ Column(s)' = Column(s) /\ Current(s)' = Current(s)
           /\ \A r : Source(r)' = Source(r)
BY DEF JobEffect, memVars, taskVars, logVars, faultVars, Msg, Column, Current, Source

LEMMA JobType == ASSUME TypeOK, JobEffect PROVE TypeOK'
<1>1. payloads' \subseteq PayloadRow /\ statuses' \subseteq StatusRow /\ partitions' \subseteq Days
  BY DEF TypeOK, JobEffect
<1>2. \A s \in Tasks : Working(s)'
  <2>1. \A s \in Tasks : Working(s)
    BY DEF TypeOK
  <2> QED
    BY <2>1, JobMessages DEF Working, Name
<1> QED
  BY <1>1, <1>2, JobMessages DEF TypeOK

LEMMA JobAttribution ==
    ASSUME AttributionInv, JobEffect
    PROVE  AttributionInv'
<1> USE DEF AttributionInv
<1>1. TypeOK'
  BY JobType
<1>2. payloads' \subseteq payloads /\ statuses' \subseteq statuses
  BY DEF JobEffect
<1>3. TablesInv' /\ MemoryInv'
  BY <1>2, JobMessages DEF TablesInv, MemoryInv
<1>4. PayloadIdInv'
  BY <1>2, JobMessages DEF PayloadIdInv
<1>5. NameIdsInv'
  <2>1. /\ UNCHANGED <<names, pc, col, sps>>
        /\ \A s \in Tasks : Msg(s)' = Msg(s)
    BY JobMessages
  <2>2. NameIdsInv
    OBVIOUS
  <2>3. \A s \in Tasks : \A c \in Columns :
          Name(s, c)' = Name(s, c) /\ (ColumnResolved(s, c)' <=> ColumnResolved(s, c))
    BY ONLY <2>1 DEF ColumnResolved, Name
  <2>4. ASSUME NEW s \in Tasks, pc[s] \in Naming, NEW i \in 1..(col[s] - 1)
        PROVE  ColumnResolved(s, ColumnOrder[i])'
    BY ONLY <2>1, <2>2, <2>4 DEF NameIdsInv, ColumnResolved, Name
  <2> QED
    BY ONLY <2>1, <2>2, <2>3, <2>4 DEF NameIdsInv
<1>6. ASSUME NEW r \in statuses' PROVE Belongs(r)'
  <2>1. Belongs(r)
    BY <1>2 DEF Attribution, Belongs
  <2>2. PICK p \in payloads : p.id = r.payload_id /\ p.request_id = Source(r).request_id
    BY <2>1 DEF Belongs
  <2>3. p \in payloads'
    BY <2>2 DEF JobEffect, GoneFor
  <2>4. r.day \in partitions'
    BY <2>1 DEF JobEffect, Belongs
  <2> QED
    BY <2>1, <2>2, <2>3, <2>4, JobMessages DEF Belongs
<1> QED
  BY <1>1, <1>3, <1>4, <1>5, <1>6 DEF Attribution, Belongs

(* A payload that is gone was an old payload of its request. *)
LEMMA GonePayload ==
    ASSUME BornInv, JobEffect, NEW p \in payloads \ payloads'
    PROVE  OldPayload(p.request_id)
<1> DEFINE k == PayloadKey(p)
<1>1. k \in DOMAIN born /\ Old(born[k])
  BY DEF JobEffect, BornInv, Keys
<1>2. k[1] = "payload" /\ k[3] = p.request_id
  BY DEF PayloadKey
<1> HIDE DEF k
<1> QED
  BY <1>1, <1>2 DEF OldPayload

(* A status that is gone was old, as was its date or its payload. *)
LEMMA GoneStatus ==
    ASSUME AttributionInv, BornInv, JobEffect, NEW s \in statuses \ statuses'
    PROVE  Old(born[StatusKey(s)]) \/ Old(s.day) \/ OldPayload(Source(s).request_id)
<1> SUFFICES ASSUME GoneFor(s) PROVE OldPayload(Source(s).request_id)
  BY DEF JobEffect
<1>1. PICK p \in payloads \ payloads' : p.id = s.payload_id
  BY DEF GoneFor
<1>2. PICK q \in payloads : q.id = s.payload_id /\ q.request_id = Source(s).request_id
  BY DEF AttributionInv, Attribution
<1>3. p = q
  BY <1>1, <1>2 DEF AttributionInv, TablesInv
<1> QED
  BY <1>1, <1>2, <1>3, GonePayload

(* What a task loses to the cleanup was old. *)
LEMMA JobSound ==
    ASSUME AttributionInv, BornInv, JobEffect, NEW s \in Tasks, pc[s] \notin Idle, Sound(s), ~Sound(s)'
    PROVE  Excused(Msg(s))
<1>1. CASE pc[s] = "reget" /\ Known(s)' = {}
  <2>1. PICK p \in Known(s) : TRUE
    BY <1>1 DEF Sound
  <2>2. p \in payloads \ payloads' /\ p.request_id = Msg(s).request_id
    BY <1>1, JobMessages DEF Known
  <2> QED
    BY <2>2, GonePayload DEF Excused
<1>2. CASE pc[s] \in Naming /\ ~\E p \in payloads' : p.id = sps[s].payload_id
  <2>1. PICK p \in payloads : p.id = sps[s].payload_id
    BY <1>2 DEF Sound
  <2>2. p \in payloads \ payloads' /\ p.request_id = Msg(s).request_id
    BY <1>2, <2>1 DEF AttributionInv, PayloadIdInv
  <2> QED
    BY <2>2, GonePayload DEF Excused
<1>3. CASE pc[s] = "insert" /\ try[s] > 1 /\ Msg(s).day \notin partitions'
  BY <1>3 DEF Sound, JobEffect, Excused
<1>4. /\ pc[s] = "recheck" => Lists(names[Column(s)], Name(s, Column(s)))'
      /\ pc[s] = "refresh" => Lists(snapshot[s], Name(s, Column(s)))'
  BY JobMessages DEF Sound, Lists, Name
<1> QED
  BY <1>1, <1>2, <1>3, <1>4, JobMessages DEF Sound

LEMMA JobRetention ==
    ASSUME RetentionInv, JobStep
    PROVE  RetentionInv' /\ JobEffect /\ Ages
<1> USE DEF RetentionInv
<1>1. JobEffect
  BY JobTakesOld DEF AttributionInv
<1>2. AttributionInv'
  BY <1>1, JobAttribution
<1>3. BornInv' /\ Ages
  <2>1. UNCHANGED <<today, born>> /\ Keys' \subseteq Keys
    BY <1>1 DEF JobEffect, Keys, PayloadKey, StatusKey
  <2> QED
    BY <2>1 DEF BornInv, Ages
<1>4. ASSUME NEW s \in Tasks PROVE TaskSound(s)'
  <2> SUFFICES ASSUME pc'[s] \notin Idle, Current(s)' \notin faulted', ~Sound(s)' PROVE Excused(Msg(s))'
    BY DEF TaskSound
  <2>1. pc[s] \notin Idle /\ Current(s) \notin faulted /\ Msg(s)' = Msg(s)
    BY <1>1, JobMessages
  <2>2. Excused(Msg(s))
    BY <1>1, <2>1, JobSound DEF TaskSound
  <2>3. UNCHANGED <<today, born>>
    BY <1>1 DEF JobEffect
  <2> QED
    BY <2>1, <2>2, <2>3 DEF Excused, OldPayload, Old
<1>5. CleanupLoss'
  <2>1. UNCHANGED <<today, born, batch, verdict, faulted>>
    BY <1>1, JobMessages DEF JobEffect
  <2> QED
    BY <2>1 DEF CleanupLoss, OldPayload, Old
<1> QED
  BY <1>1, <1>2, <1>3, <1>4, <1>5

-----------------------------------------------------------------------------
(* The pipeline beside the cleanup: rows are added, none is taken. *)
LEMMA StatusesKept ==
    ASSUME [Next]_vars PROVE statuses \subseteq statuses'
<1>1. ASSUME NEW t \in Tasks, Step(t) PROVE statuses \subseteq statuses'
  BY <1>1 DEF Step, TakeMessage, EndOfBatch, GetPayload, CreatePayload, RegetPayload, ResolveColumns,
     AddName, RecheckName, RefreshName, InsertStatus, CheckPartition, CreateTable, dbVars
<1> QED
  BY <1>1 DEF Next, RunUpdate, Terminated, vars, dbVars

(* A step of a task: who fails has met a fault, or lacks what was old. *)
LEMMA StepRetention ==
    ASSUME RetentionInv, BornInv', Ages, NEW t \in Tasks, Step(t)
    PROVE  /\ \A s \in Tasks : TaskSound(s)'
           /\ CleanupLoss'
<1>0. TypeOK /\ AttributionInv /\ BornInv
  BY DEF RetentionInv, AttributionInv
<1>1. ASSUME NEW s \in Tasks PROVE TaskSound(s)'
  <2> SUFFICES ASSUME pc'[s] \notin Idle, Current(s)' \notin faulted', ~Sound(s)'
               PROVE  Excused(Msg(s))'
    BY DEF TaskSound
  <2>1. Current(s) \notin faulted /\ ~Sound(s)
    BY <1>0, SoundStep
  <2>2. pc[s] \notin Idle
    BY <2>1 DEF Sound, Naming, Storing
  <2>3. Excused(Msg(s)) /\ Msg(s).day \in Int
    BY <1>0, <2>1, <2>2, DayType DEF RetentionInv, TaskSound
  <2>4. Msg(s)' = Msg(s)
    BY <1>0, <2>2, MessageKept, OthersMessage
  <2> QED
    BY <1>0, <2>3, <2>4, ExcusedKept DEF Excused
<1>2. CleanupLoss'
  <2>1. UNCHANGED batch /\ faulted \subseteq faulted'
    BY <1>0, StepShape, FaultsKept
  <2> SUFFICES ASSUME NEW s \in Tasks, NEW i \in DOMAIN batch[s], NEW m, m = batch[s][i],
                      verdict'[s][i] = "error", m.kind = "good", <<s, i>> \notin faulted'
               PROVE  Excused(m)'
    BY <2>1 DEF CleanupLoss, Excused
  <2>2. m.day \in Int
    BY <1>0, DayType
  <2>3. CASE verdict'[s][i] = verdict[s][i]
    <3>1. Excused(m)
      BY <2>1, <2>3 DEF RetentionInv, CleanupLoss, Excused
    <3> QED
      BY <1>0, <2>2, <3>1, ExcusedKept
  <2>4. CASE verdict'[s][i] # verdict[s][i]
    <3>1. s = t /\ i = idx[t] /\ Fails(t)
      BY <1>0, <2>4, NewVerdict
    <3>2. Current(t) \notin faulted' /\ m = Msg(t)
      BY <3>1 DEF Current, Msg
    <3>3. Current(t) \notin faulted /\ ~Sound(t)
      BY <1>0, <3>1, <3>2, FailsFaulted, FaultsKept
    <3>4. Excused(m)
      BY <3>1, <3>2, <3>3 DEF RetentionInv, TaskSound, Fails
    <3> QED
      BY <1>0, <2>2, <3>4, ExcusedKept
  <2> QED
    BY <2>3, <2>4
<1> QED
  BY <1>1, <1>2

(* Any other step that takes nothing: time passes, an UPDATE runs. *)
LEMMA RestRetention ==
    ASSUME RetentionInv, BornInv', Ages, [Next]_vars, ~\E t \in Tasks : Step(t)
    PROVE  /\ \A s \in Tasks : TaskSound(s)'
           /\ CleanupLoss'
<1>0. TypeOK /\ BornInv
  BY DEF RetentionInv, AttributionInv
<1>1. /\ UNCHANGED <<batch, verdict>> /\ Grows /\ faulted \subseteq faulted'
      /\ \A s \in Tasks : Same(s) /\ Msg(s)' = Msg(s) /\ Current(s)' = Current(s)
  BY <1>0, OtherFrame
<1>2. ASSUME NEW s \in Tasks PROVE TaskSound(s)'
  <2> SUFFICES ASSUME pc'[s] \notin Idle, Current(s)' \notin faulted', ~Sound(s)'
               PROVE  Excused(Msg(s))'
    BY DEF TaskSound
  <2>1. pc[s] \notin Idle /\ Current(s) \notin faulted /\ ~Sound(s)
    BY <1>0, <1>1, SoundFrame DEF Same
  <2>2. Excused(Msg(s)) /\ Msg(s).day \in Int
    BY <1>0, <2>1, DayType DEF RetentionInv, TaskSound
  <2> QED
    BY <1>0, <1>1, <2>2, ExcusedKept DEF Excused
<1>3. CleanupLoss'
  <2> SUFFICES ASSUME NEW s \in Tasks, NEW i \in DOMAIN batch[s], NEW m, m = batch[s][i],
                      verdict[s][i] = "error", m.kind = "good", <<s, i>> \notin faulted'
               PROVE  Excused(m)'
    BY <1>1 DEF CleanupLoss, Excused
  <2>1. Excused(m) /\ m.day \in Int
    BY <1>0, <1>1, DayType DEF RetentionInv, CleanupLoss, Excused
  <2> QED
    BY <1>0, <2>1, ExcusedKept
<1> QED
  BY <1>2, <1>3

(* What every step of the pipeline and its cleanup is to a reader of the *)
(* tables: the batches stay, the names only grow.                        *)
Reads == UNCHANGED batch /\ \A c \in Columns : names[c] \subseteq names'[c]

LEMMA RetentionNext ==
    ASSUME RetentionInv, [RetentionStep]_retentionVars
    PROVE  RetentionInv' /\ Reads
<1>0. TypeOK /\ AttributionInv /\ BornInv
  BY DEF RetentionInv, AttributionInv
<1>1. ASSUME [Next]_vars, BornInv', Ages PROVE RetentionInv' /\ Reads
  <2>1. AttributionInv'
    BY <1>0, <1>1, AttributionNext
  <2>2. CASE \E t \in Tasks : Step(t)
    BY <1>0, <1>1, <2>1, <2>2, StepRetention, StepGrows, StepShape DEF RetentionInv, Reads, Grows
  <2>3. CASE ~\E t \in Tasks : Step(t)
    BY <1>0, <1>1, <2>1, <2>3, RestRetention, OtherFrame DEF RetentionInv, Reads, Grows
  <2> QED
    BY <2>2, <2>3
<1>2. CASE PipelineStep
  BY <1>0, <1>1, <1>2, StampBorn DEF PipelineStep
<1>3. CASE JobStep
  BY <1>3, JobRetention, JobMessages DEF Reads
<1>4. CASE StartJob \/ Midnight \/ UNCHANGED retentionVars
  <2>1. /\ UNCHANGED vars /\ UNCHANGED born
        /\ today' = today \/ today' = today + 1
    BY <1>4 DEF StartJob, Midnight, retentionVars, jobVars
  <2>2. Keys' = Keys
    BY <2>1 DEF Keys, PayloadKey, StatusKey, vars, dbVars
  <2>3. BornInv' /\ Ages
    BY <1>0, <2>1, <2>2 DEF BornInv, Ages
  <2> QED
    BY <1>1, <2>1, <2>3
<1> QED
  BY <1>2, <1>3, <1>4 DEF RetentionStep

LEMMA RetentionStart == RetentionInit => RetentionInv
<1> SUFFICES ASSUME RetentionInit PROVE RetentionInv
  OBVIOUS
<1>1. Init /\ today = FirstDay /\ born = <<>>
  BY DEF RetentionInit
<1>2. AttributionInv
  BY <1>1, AttributionInit
<1>3. Keys = {}
  BY <1>1 DEF Init, Keys
<1>4. BornInv
  BY <1>1, <1>3, RetentionAssumption DEF BornInv
<1>5. \A s \in Tasks : TaskSound(s)
  BY <1>1 DEF Init, TaskSound
<1>6. CleanupLoss
  BY <1>1, InitType, BatchType DEF Init, CleanupLoss
<1> QED
  BY <1>2, <1>4, <1>5, <1>6 DEF RetentionInv

(* A step takes a status only when it, its date or its payload is old. *)
LEMMA TakesOld ==
    ASSUME RetentionInv, [RetentionStep]_retentionVars, NEW s \in statuses \ statuses'
    PROVE  Old(born[StatusKey(s)]) \/ Old(s.day) \/ OldPayload(Source(s).request_id)
<1>1. CASE JobStep
  BY <1>1, JobRetention, GoneStatus DEF RetentionInv
<1>2. CASE ~JobStep
  <2>1. [Next]_vars
    BY <1>2 DEF RetentionStep, PipelineStep, StartJob, Midnight, retentionVars
  <2> QED
    BY <2>1, StatusesKept
<1> QED
  BY <1>1, <1>2

-----------------------------------------------------------------------------
(* The answers.  What a handler has read stays true: of the message a row  *)
(* was stored for, of the names, and of what was asked.                    *)

(* The ids of a status are those of its message's names. *)
RowTrue(s) ==
    /\ s.task \in Tasks /\ s.pos \in DOMAIN batch[s.task]
    /\ \A k \in Columns :
          IF Source(s).name[k] = None THEN s.ids[k] = NoId
          ELSE [id |-> s.ids[k], name |-> Source(s).name[k]] \in names[k]
    /\ s.day = Source(s).day

(* A status that request a has selected is one that it asked for. *)
Asked(a, s) ==
    /\ a.query.op = "get" => Source(s).request_id = a.query.request_id
    /\ a.query.op = "statuses" =>
          s.day \in a.query.days /\ \A k \in Columns : a.ids[k] \in {NoId, s.ids[k]}

IsRequest(a) ==
    /\ DOMAIN a = {"at", "query", "pending", "ids", "count", "rows", "entries"}
    /\ DOMAIN a.ids = Columns
    /\ a.at \in {"idle", "filter", "count", "rows", "translate", "ok", "failed"}

(* The filters by name that are no longer pending have the ids of their names. *)
FiltersTrue(a) ==
    a.query.op = "statuses" =>
        \A k \in Columns : k \notin a.pending =>
            IF a.query.name[k] = None THEN a.ids[k] = NoId
            ELSE [id |-> a.ids[k], name |-> a.query.name[k]] \in names[k]

RequestTrue(a) ==
    /\ IsRequest(a)
    /\ a.at # "idle" => a.query.op \in {"payloads", "get", "statuses"} /\ Accepts(a.query)
    /\ a.at \in {"idle", "count", "rows", "translate"} => a.pending = {}
    /\ a.at = "filter" => a.query.op = "statuses"
    /\ a.at = "translate" => a.query.op # "payloads"
    /\ a.at \notin {"translate", "ok", "failed"} => a.rows = {} /\ a.entries = {}
    /\ a.rows # {} \/ a.entries # {} => a.pending = {}
    /\ FiltersTrue(a)
    /\ \A s \in a.rows : RowTrue(s) /\ Asked(a, s)
    /\ a.query.op # "payloads" => \A e \in a.entries :
          RowTrue(e.row) /\ Asked(a, e.row) /\ e.name = Source(e.row).name

ApiInv == api = [c \in Clients |-> api[c]] /\ \A c \in Clients : RequestTrue(api[c])

LEMMA RowKept == ASSUME Reads PROVE \A s : RowTrue(s) => RowTrue(s)'
BY DEF Reads, RowTrue, Source

LEMMA RequestKept == ASSUME Reads PROVE \A a : RequestTrue(a) => RequestTrue(a)'
<1> SUFFICES ASSUME NEW a, RequestTrue(a) PROVE RequestTrue(a)'
  OBVIOUS
<1>1. \A s : Source(s)' = Source(s)
  BY DEF Reads, Source
<1>2. \A s : Asked(a, s)' <=> Asked(a, s)
  BY <1>1 DEF Asked
<1>3. FiltersTrue(a)'
  BY DEF RequestTrue, FiltersTrue, Reads
<1>4. /\ \A s \in a.rows : RowTrue(s)' /\ Asked(a, s)'
      /\ a.query.op # "payloads" => \A e \in a.entries :
            RowTrue(e.row)' /\ Asked(a, e.row)' /\ e.name = Source(e.row)'.name
  BY <1>1, <1>2, RowKept DEF RequestTrue
<1> QED
  BY <1>3, <1>4 DEF RequestTrue, IsRequest, Accepts

(* A name has one id, and an id one name. *)
LEMMA NameOfId ==
    ASSUME AttributionInv, NEW k \in Columns, NEW r \in names[k]
    PROVE  /\ r = [id |-> r.id, name |-> r.name] /\ r.id \in Ids
           /\ \A q \in names[k] : (q.id = r.id <=> q.name = r.name) /\ (q.id = r.id => q = r)
<1>1. names[k] \subseteq NameRow
  BY DEF AttributionInv, TypeOK
<1>2. \A q \in names[k] : q.id = r.id <=> q.name = r.name
  BY DEF AttributionInv, TablesInv
<1> QED
  BY <1>1, <1>2 DEF NameRow

(* The rows that a query selects are true, and asked for. *)
LEMMA MatchingTrue ==
    ASSUME AttributionInv, NEW c \in Clients, RequestTrue(api[c]), api[c].at = "rows",
           api[c].query.op # "payloads"
    PROVE  \A s \in Matching(c) : RowTrue(s) /\ Asked(api[c], s)
<1> SUFFICES ASSUME NEW s \in Matching(c) PROVE RowTrue(s) /\ Asked(api[c], s)
  OBVIOUS
<1>1. s \in statuses
  BY DEF RequestTrue, Matching
<1>2. s.task \in Tasks /\ Belongs(s)
  BY <1>1 DEF AttributionInv, TypeOK, StatusRow, Attribution, Belongs
<1>3. RowTrue(s)
  BY <1>2 DEF Belongs, RowTrue
<1>4. CASE api[c].query.op = "get"
  <2>1. PICK p \in payloads : p.id = s.payload_id /\ p.request_id = api[c].query.request_id
    BY <1>4 DEF Matching
  <2>2. PICK q \in payloads : q.id = s.payload_id /\ q.request_id = Source(s).request_id
    BY <1>2 DEF Belongs
  <2>3. p = q
    BY <2>1, <2>2 DEF AttributionInv, TablesInv
  <2> QED
    BY <1>3, <1>4, <2>1, <2>2, <2>3 DEF Asked
<1>5. CASE api[c].query.op = "statuses"
  BY <1>3, <1>5 DEF Matching, Asked
<1> QED
  BY <1>4, <1>5 DEF RequestTrue

(* An answer that is given is true. *)
LEMMA TrueAnswer ==
    ASSUME AttributionInv, NEW a, RequestTrue(a), a.at = "ok", a.query.op # "payloads", NEW e \in a.entries
    PROVE  /\ e.name = Told(e).name
           /\ a.query.request_id \in {None, Told(e).request_id}
           /\ Told(e).day \in a.query.days
           /\ \A k \in Columns : a.query.name[k] \in {None, e.name[k]}
<1> DEFINE s == e.row
<1>1. /\ RowTrue(s) /\ Asked(a, s) /\ e.name = Source(s).name
      /\ a.pending = {} /\ Accepts(a.query) /\ a.query.op \in {"get", "statuses"}
      /\ Told(e) = Source(s)
  BY DEF RequestTrue, Told
<1>2. Source(s) \in Message
  BY <1>1, BatchType DEF RowTrue, Source, AttributionInv
<1> HIDE DEF s
<1>3. CASE a.query.op = "get"
  BY <1>1, <1>2, <1>3 DEF Asked, Accepts, Message
<1>4. CASE a.query.op = "statuses"
  <2>1. ASSUME NEW k \in Columns, a.query.name[k] # None PROVE a.query.name[k] = e.name[k]
    <3>1. [id |-> a.ids[k], name |-> a.query.name[k]] \in names[k]
      BY <1>1, <1>4, <2>1 DEF RequestTrue, FiltersTrue
    <3>2. a.ids[k] # NoId /\ a.ids[k] = s.ids[k]
      BY <1>1, <1>4, <3>1, NameOfId DEF Asked
    <3>3. [id |-> s.ids[k], name |-> Source(s).name[k]] \in names[k]
      BY <1>1, <3>2 DEF RowTrue
    <3> QED
      BY <1>1, <3>1, <3>2, <3>3, NameOfId
  <2> QED
    BY <1>1, <1>4, <2>1 DEF Asked, Accepts, RowTrue
<1> QED
  BY <1>1, <1>3, <1>4

-----------------------------------------------------------------------------
(* A step of a handler gives its request a state that is true again. *)
Tells(c, r) == Becomes(c, r) /\ RequestTrue(r)

LEMMA TellsKept ==
    ASSUME ApiInv, Reads, NEW c \in Clients, NEW r, Tells(c, r)
    PROVE  ApiInv' /\ api'[c] = r /\ \A d \in Clients \ {c} : api'[d] = api[d]
<1>1. /\ api' = [d \in Clients |-> IF d = c THEN r ELSE api[d]]
      /\ \A d \in Clients : RequestTrue(api[d])
  BY DEF Tells, Becomes, ApiInv
<1>2. \A d \in Clients : RequestTrue(api'[d])
  BY <1>1 DEF Tells
<1>3. \A d \in Clients : RequestTrue(api[d])'
  BY <1>2, RequestKept
<1> QED
  BY <1>1, <1>3 DEF ApiInv

LEMMA QuietTrue == RequestTrue(Quiet)
BY DEF RequestTrue, IsRequest, Quiet, NoQuery, FiltersTrue

LEMMA AskTrue ==
    ASSUME NEW c \in Clients, NEW q, q.op \in {"payloads", "get", "statuses"}, Accepts(q), Ask(c, q)
    PROVE  \E r : Tells(c, r) /\ r.at \in {"rows", "count", "filter"}
<1> DEFINE filters == IF q.op = "statuses" THEN {k \in Columns : q.name[k] # None} ELSE {}
           at == IF q.op = "get" THEN "rows" ELSE IF filters = {} THEN "count" ELSE "filter"
           r == [Quiet EXCEPT !.query = q, !.pending = filters, !.at = at]
<1>1. Becomes(c, r)
  BY DEF Ask
<1>2. /\ filters # {} => q.op = "statuses"
      /\ q.op = "statuses" => \A k \in Columns : k \notin filters => q.name[k] = None
      /\ at \in {"rows", "count", "filter"} /\ (at = "filter" <=> q.op # "get" /\ filters # {})
  OBVIOUS
<1> HIDE DEF filters, at
<1>3. /\ r.at = at /\ r.query = q /\ r.pending = filters /\ r.ids = [k \in Columns |-> NoId]
      /\ r.rows = {} /\ r.entries = {}
      /\ DOMAIN r = {"at", "query", "pending", "ids", "count", "rows", "entries"}
  BY DEF Quiet
<1> HIDE DEF r
<1>4. IsRequest(r)
  BY <1>2, <1>3 DEF IsRequest
<1>5. FiltersTrue(r)
  BY <1>2, <1>3 DEF FiltersTrue
<1>6. RequestTrue(r)
  BY <1>2, <1>3, <1>4, <1>5 DEF RequestTrue
<1> QED
  BY <1>1, <1>2, <1>3, <1>6 DEF Tells

LEMMA FilterTrue ==
    ASSUME AttributionInv, NEW c \in Clients, RequestTrue(api[c]), ReadFilter(c)
    PROVE  \E r : Tells(c, r) /\ r.at # "failed"
<1> DEFINE a == api[c]
<1>1. PICK k \in a.pending :
          \/ ~Lists(names[k], a.query.name[k]) /\ Becomes(c, [a EXCEPT !.at = "ok"])
          \/ /\ Lists(names[k], a.query.name[k])
             /\ Becomes(c, [a EXCEPT !.ids[k] = IdOf(names[k], a.query.name[k]),
                               !.pending = @ \ {k}, !.at = IF a.pending = {k} THEN "count" ELSE @])
  BY DEF ReadFilter
<1>2. a.at = "filter" /\ RequestTrue(a) /\ IsRequest(a) /\ a.rows = {} /\ a.entries = {}
  BY DEF ReadFilter, RequestTrue
<1> HIDE DEF a
<1>3. CASE Becomes(c, [a EXCEPT !.at = "ok"])
  <2> DEFINE r == [a EXCEPT !.at = "ok"]
  <2>1. /\ r.at = "ok" /\ r.query = a.query /\ r.pending = a.pending /\ r.ids = a.ids
        /\ r.rows = {} /\ r.entries = {} /\ DOMAIN r = DOMAIN a
    BY <1>2 DEF IsRequest
  <2> HIDE DEF r
  <2>2. IsRequest(r) /\ FiltersTrue(r)
    BY <1>2, <2>1 DEF IsRequest, FiltersTrue, RequestTrue
  <2>3. RequestTrue(r) /\ r.at # "failed"
    BY <1>2, <2>1, <2>2 DEF RequestTrue
  <2> QED
    BY <1>3, <2>3 DEF Tells, r
<1>4. CASE /\ Lists(names[k], a.query.name[k])
           /\ Becomes(c, [a EXCEPT !.ids[k] = IdOf(names[k], a.query.name[k]),
                             !.pending = @ \ {k}, !.at = IF a.pending = {k} THEN "count" ELSE @])
  <2> DEFINE id == IdOf(names[k], a.query.name[k])
             at == IF a.pending = {k} THEN "count" ELSE a.at
             r == [a EXCEPT !.ids[k] = id, !.pending = a.pending \ {k}, !.at = at]
  <2>0. /\ Becomes(c, r)
        /\ at \in {"count", "filter"} /\ (at = "count" => a.pending \ {k} = {})
    BY <1>2, <1>4, Zenon
  <2> HIDE DEF id, at
  <2>1. /\ r.at = at /\ r.query = a.query /\ r.pending = a.pending \ {k}
        /\ r.ids = [a.ids EXCEPT ![k] = id]
        /\ r.rows = {} /\ r.entries = {} /\ DOMAIN r = DOMAIN a
    BY <1>2 DEF IsRequest
  <2>2. k \in Columns => [id |-> id, name |-> a.query.name[k]] \in names[k]
    <3> SUFFICES ASSUME k \in Columns PROVE [id |-> id, name |-> a.query.name[k]] \in names[k]
      OBVIOUS
    <3>1. names[k] \in SUBSET NameRow
      BY DEF AttributionInv, TypeOK
    <3>2. a.query.name[k] \in Names
      BY <1>4, <3>1 DEF Lists, NameRow
    <3> QED
      BY <1>4, <3>1, <3>2, IdOfListed DEF id
  <2>3. DOMAIN a.ids = Columns
    BY <1>2 DEF IsRequest
  <2>4. \A x \in Columns : [a.ids EXCEPT ![k] = id][x] = IF x = k THEN id ELSE a.ids[x]
    BY <2>3
  <2>5. DOMAIN [a.ids EXCEPT ![k] = id] = Columns
    BY <2>3
  <2>6. a.query.op = "statuses" =>
           \A x \in Columns : x \notin a.pending =>
              IF a.query.name[x] = None THEN a.ids[x] = NoId
              ELSE [id |-> a.ids[x], name |-> a.query.name[x]] \in names[x]
    BY <1>2 DEF RequestTrue, FiltersTrue
  <2>7. k \in Columns => a.query.name[k] # None
    <3>1. k \in Columns => names[k] \subseteq NameRow
      BY DEF AttributionInv, TypeOK
    <3> QED
      BY <1>4, <3>1, ConstantsAssumption DEF Lists, NameRow
  <2> HIDE DEF r
  <2>8. IsRequest(r)
    BY <1>2, <2>0, <2>1, <2>5 DEF IsRequest
  <2>9. FiltersTrue(r)
    BY <2>1, <2>2, <2>4, <2>6, <2>7 DEF FiltersTrue
  <2>10. RequestTrue(r) /\ r.at # "failed"
    BY <1>2, <2>0, <2>1, <2>8, <2>9 DEF RequestTrue
  <2> QED
    BY <2>0, <2>10 DEF Tells
<1> QED
  BY <1>1, <1>3, <1>4 DEF a

(* A change of the position and the count only. *)
LEMMA MovesTrue ==
    ASSUME NEW a, RequestTrue(a), NEW r, DOMAIN r = DOMAIN a,
           r.query = a.query, r.pending = a.pending, r.ids = a.ids, r.rows = a.rows, r.entries = a.entries,
           \/ a.at = "count" /\ r.at = "rows"
           \/ a.at # "idle" /\ r.at = "failed"
    PROVE  RequestTrue(r)
<1>1. IsRequest(r) /\ FiltersTrue(r)
  BY DEF RequestTrue, IsRequest, FiltersTrue
<1>2. \A s : Asked(r, s) <=> Asked(a, s)
  BY DEF Asked
<1> QED
  BY <1>1, <1>2 DEF RequestTrue

LEMMA CountTrue ==
    ASSUME NEW c \in Clients, RequestTrue(api[c]), CountRows(c)
    PROVE  \E r : Tells(c, r) /\ r.at # "failed"
<1> DEFINE a == api[c]
           n == Cardinality(Matching(c))
           r == [a EXCEPT !.at = "rows", !.count = n]
<1>1. a.at = "count" /\ Becomes(c, r) /\ RequestTrue(a) /\ IsRequest(a)
  BY DEF CountRows, RequestTrue
<1> HIDE DEF a, n
<1>2. /\ r.at = "rows" /\ DOMAIN r = DOMAIN a /\ r.query = a.query /\ r.pending = a.pending
      /\ r.ids = a.ids /\ r.rows = a.rows /\ r.entries = a.entries
  BY <1>1 DEF IsRequest
<1> HIDE DEF r
<1>3. RequestTrue(r)
  BY <1>1, <1>2, MovesTrue
<1> QED
  BY <1>1, <1>2, <1>3 DEF Tells

LEMMA FailsTrue ==
    ASSUME NEW c \in Clients, RequestTrue(api[c]), QueryFails(c)
    PROVE  \E r : Tells(c, r)
<1> DEFINE a == api[c]
           r == [a EXCEPT !.at = "failed"]
<1>1. a.at # "idle" /\ Becomes(c, r) /\ RequestTrue(a) /\ IsRequest(a)
  BY DEF QueryFails, RequestTrue
<1> HIDE DEF a
<1>2. /\ r.at = "failed" /\ DOMAIN r = DOMAIN a /\ r.query = a.query /\ r.pending = a.pending
      /\ r.ids = a.ids /\ r.rows = a.rows /\ r.entries = a.entries
  BY <1>1 DEF IsRequest
<1> HIDE DEF r
<1>3. RequestTrue(r)
  BY <1>1, <1>2, MovesTrue
<1> QED
  BY <1>1, <1>3 DEF Tells

LEMMA RowsTrue ==
    ASSUME AttributionInv, NEW c \in Clients, RequestTrue(api[c]), ReadRows(c)
    PROVE  \E r : Tells(c, r) /\ r.at # "failed"
<1> DEFINE a == api[c]
<1>1. PICK page \in SUBSET Matching(c) :
          IF page = {} \/ a.query.op = "payloads"
          THEN Becomes(c, [a EXCEPT !.at = "ok", !.entries = page])
          ELSE Becomes(c, [a EXCEPT !.at = "translate", !.rows = page])
  BY DEF ReadRows
<1>2. a.at = "rows" /\ RequestTrue(a) /\ IsRequest(a) /\ a.rows = {} /\ a.entries = {} /\ a.pending = {}
  BY DEF ReadRows, RequestTrue
<1>3. a.query.op # "payloads" => \A s \in page : RowTrue(s) /\ Asked(a, s)
  BY <1>2, MatchingTrue
<1> HIDE DEF a
<1>4. CASE page = {} \/ a.query.op = "payloads"
  <2> DEFINE r == [a EXCEPT !.at = "ok", !.entries = page]
  <2>1. Becomes(c, r)
    BY <1>1, <1>4
  <2>2. /\ r.at = "ok" /\ r.query = a.query /\ r.pending = {} /\ r.ids = a.ids
        /\ r.rows = {} /\ r.entries = page /\ DOMAIN r = DOMAIN a
    BY <1>2 DEF IsRequest
  <2> HIDE DEF r
  <2>3. IsRequest(r) /\ FiltersTrue(r)
    BY <1>2, <2>2 DEF IsRequest, FiltersTrue, RequestTrue
  <2>4. RequestTrue(r)
    BY <1>2, <1>4, <2>2, <2>3 DEF RequestTrue
  <2> QED
    BY <2>1, <2>2, <2>4 DEF Tells
<1>5. CASE page # {} /\ a.query.op # "payloads"
  <2> DEFINE r == [a EXCEPT !.at = "translate", !.rows = page]
  <2>1. Becomes(c, r)
    BY <1>1, <1>5
  <2>2. /\ r.at = "translate" /\ r.query = a.query /\ r.pending = {} /\ r.ids = a.ids
        /\ r.rows = page /\ r.entries = {} /\ DOMAIN r = DOMAIN a
    BY <1>2 DEF IsRequest
  <2> HIDE DEF r
  <2>3. IsRequest(r) /\ FiltersTrue(r) /\ \A s : Asked(r, s) <=> Asked(a, s)
    BY <1>2, <2>2 DEF IsRequest, FiltersTrue, RequestTrue, Asked
  <2>4. RequestTrue(r)
    BY <1>2, <1>3, <1>5, <2>2, <2>3 DEF RequestTrue
  <2> QED
    BY <2>1, <2>2, <2>4 DEF Tells
<1> QED
  BY <1>4, <1>5

(* The names that the tables have for the ids of a status. *)
Named(s) == {k \in Columns : s.ids[k] # NoId}
NameOf(s, k) == (CHOOSE n \in Table(k) : n.id = s.ids[k]).name
Entry(s) == [row |-> s, name |-> [k \in Columns |-> IF k \in Named(s) THEN NameOf(s, k) ELSE None]]

LEMMA EntryTrue ==
    ASSUME AttributionInv, NEW s, RowTrue(s)
    PROVE  /\ \A k \in Named(s) : \E n \in Table(k) : n.id = s.ids[k]
           /\ Entry(s).row = s /\ Entry(s).name = Source(s).name
<1>1. Source(s) \in Message
  BY BatchType DEF RowTrue, Source, AttributionInv
<1>2. ASSUME NEW k \in Columns, s.ids[k] # NoId
      PROVE  /\ \E n \in Table(k) : n.id = s.ids[k]
             /\ NameOf(s, k) = Source(s).name[k]
  <2> DEFINE n == [id |-> s.ids[k], name |-> Source(s).name[k]]
  <2>1. n \in names[k] /\ n.id = s.ids[k] /\ n.name = Source(s).name[k]
    BY <1>2 DEF RowTrue
  <2>2. \A q \in names[k] : q.id = s.ids[k] => q = n
    BY <2>1, NameOfId
  <2> HIDE DEF n
  <2>3. (CHOOSE q \in names[k] : q.id = s.ids[k]) = n
    BY <2>1, <2>2
  <2> QED
    BY <2>1, <2>3 DEF Table, NameOf
<1>3. ASSUME NEW k \in Columns, s.ids[k] = NoId PROVE Source(s).name[k] = None
  <2> SUFFICES ASSUME Source(s).name[k] # None PROVE FALSE
    OBVIOUS
  <2>1. [id |-> s.ids[k], name |-> Source(s).name[k]] \in names[k]
    BY DEF RowTrue
  <2> QED
    BY <1>3, <2>1, NameOfId
<1>4. Source(s).name = [k \in Columns |-> Source(s).name[k]]
  BY <1>1 DEF Message
<1>5. \A k \in Columns : (IF k \in Named(s) THEN NameOf(s, k) ELSE None) = Source(s).name[k]
  BY <1>2, <1>3 DEF Named
<1>6. Entry(s).row = s /\ Entry(s).name = [k \in Columns |-> IF k \in Named(s) THEN NameOf(s, k) ELSE None]
  BY DEF Entry
<1> QED
  BY <1>2, <1>4, <1>5, <1>6 DEF Named

LEMMA TranslateTrue ==
    ASSUME AttributionInv, NEW c \in Clients, RequestTrue(api[c]), Translate(c)
    PROVE  \E r : Tells(c, r) /\ r.at # "failed"
<1> DEFINE a == api[c]
<1>1. PICK s \in a.rows :
          \/ Becomes(c, [a EXCEPT !.rows = @ \ {s}, !.entries = @ \cup {Entry(s)},
                            !.at = IF a.rows = {s} THEN "ok" ELSE @])
          \/ \E k \in Named(s) : \A n \in Table(k) : n.id # s.ids[k]
  BY Zenon DEF Translate, Named, NameOf, Entry
<1>2. /\ a.at = "translate" /\ a.query.op # "payloads" /\ RequestTrue(a) /\ IsRequest(a) /\ a.pending = {}
      /\ RowTrue(s) /\ Asked(a, s)
  BY <1>1 DEF Translate, RequestTrue
<1> HIDE DEF a
<1>3. /\ \A k \in Named(s) : \E n \in Table(k) : n.id = s.ids[k]
      /\ Entry(s).row = s /\ Entry(s).name = Source(s).name
  BY <1>2, EntryTrue
<1> DEFINE at == IF a.rows = {s} THEN "ok" ELSE a.at
           r == [a EXCEPT !.rows = a.rows \ {s}, !.entries = a.entries \cup {Entry(s)}, !.at = at]
<1>4. Becomes(c, r) /\ at \in {"ok", "translate"}
  BY <1>1, <1>2, <1>3
<1> HIDE DEF at
<1>5. /\ r.at = at /\ r.query = a.query /\ r.pending = {} /\ r.ids = a.ids
      /\ r.rows = a.rows \ {s} /\ r.entries = a.entries \cup {Entry(s)} /\ DOMAIN r = DOMAIN a
  BY <1>2 DEF IsRequest
<1> HIDE DEF r
<1>6. IsRequest(r) /\ FiltersTrue(r) /\ \A x : Asked(r, x) <=> Asked(a, x)
  BY <1>2, <1>4, <1>5 DEF IsRequest, FiltersTrue, RequestTrue, Asked
<1>7. RequestTrue(r)
  <2>1. \A x \in r.rows : RowTrue(x) /\ Asked(r, x)
    BY <1>2, <1>5, <1>6 DEF RequestTrue
  <2>2. \A e \in r.entries : RowTrue(e.row) /\ Asked(r, e.row) /\ e.name = Source(e.row).name
    BY <1>2, <1>3, <1>5, <1>6 DEF RequestTrue
  <2> QED
    BY <1>2, <1>4, <1>5, <1>6, <2>1, <2>2 DEF RequestTrue
<1> QED
  BY <1>4, <1>5, <1>7 DEF Tells

(* What a step of a handler does: only a failing query fails its request. *)
LEMMA ApiStepTrue ==
    ASSUME AttributionInv, ApiInv, NEW c \in Clients, ApiStep(c)
    PROVE  /\ api[c].at # "idle"
           /\ \E r : /\ Tells(c, r)
                     /\ \/ outages' = outages /\ r.at # "failed"
                        \/ outages' = outages + 1 /\ api[c].at # "failed"
<1>0. RequestTrue(api[c])
  BY DEF ApiInv
<1>1. CASE QueryFails(c)
  <2>1. api[c].at \notin {"idle", "failed"} /\ outages' = outages + 1
    BY <1>1 DEF QueryFails, Outage, Ended
  <2> QED
    BY <1>0, <1>1, <2>1, FailsTrue
<1>2. CASE (ReadFilter(c) \/ CountRows(c) \/ ReadRows(c) \/ Translate(c)) /\ UNCHANGED outages
  <2>1. api[c].at # "idle"
    BY <1>2 DEF ReadFilter, CountRows, ReadRows, Translate
  <2> QED
    BY <1>0, <1>2, <2>1, FilterTrue, CountTrue, RowsTrue, TranslateTrue
<1> QED
  BY <1>1, <1>2 DEF ApiStep

-----------------------------------------------------------------------------
(* The health check has lost every attempt it counts to an outage; the one *)
(* that its request to the API is about to lose is paid for already.       *)
Paid(a) == IF a.at = "failed" THEN 1 ELSE 0

HealthTrue(h, a, n) ==
    /\ DOMAIN h = {"stage", "tries", "request_id"}
    /\ h.tries \in Nat /\ h.tries < RETRY_MAX
    /\ h.stage \in Endpoints \/ a.at = "idle"
    /\ n >= h.tries + Paid(a)
    /\ h.stage = "failed" => n >= RETRY_MAX

HealthInv == outages \in Nat /\ HealthTrue(health, api[Probe], outages)

LEMMA PassTrue ==
    ASSUME HealthInv, NEW shown, Pass(shown), health.stage \in External \cup Endpoints,
           NEW a, a.at = "idle"
    PROVE  HealthTrue(health', a, outages)
<1>1. NextStage(shown) # "failed"
  BY DEF NextStage, External, Endpoints
<1>2. health'.stage = NextStage(shown) /\ health'.tries = 0 /\ DOMAIN health' = {"stage", "tries", "request_id"}
  BY DEF Pass
<1> QED
  BY <1>1, <1>2, HealthAssumption DEF HealthTrue, HealthInv, Paid

LEMMA MissTrue ==
    ASSUME HealthInv, Miss, NEW n \in Nat, n >= health.tries + 1, NEW a, a.at = "idle",
           health.stage # "failed"
    PROVE  HealthTrue(health', a, n)
<1>0. /\ DOMAIN health = {"stage", "tries", "request_id"}
      /\ health.tries \in Nat /\ health.tries < RETRY_MAX /\ RETRY_MAX \in Nat
      /\ health.stage = "failed" => outages >= RETRY_MAX
  BY HealthAssumption DEF HealthInv, HealthTrue
<1>1. CASE LastTry
  <2>1. health' = [health EXCEPT !.stage = "failed"] /\ n >= RETRY_MAX
    BY <1>0, <1>1 DEF Miss, LastTry
  <2>2. health'.stage = "failed" /\ health'.tries = health.tries /\ DOMAIN health' = DOMAIN health
    BY <1>0, <2>1
  <2> QED
    BY <1>0, <2>1, <2>2 DEF HealthTrue, Paid
<1>2. CASE ~LastTry /\ health.stage # "failed"
  <2>1. health' = [health EXCEPT !.tries = @ + 1] /\ health.tries + 1 < RETRY_MAX
    BY <1>0, <1>2 DEF Miss, LastTry
  <2>2. health'.stage = health.stage /\ health'.tries = health.tries + 1 /\ DOMAIN health' = DOMAIN health
    BY <1>0, <2>1
  <2> QED
    BY <1>0, <1>2, <2>1, <2>2 DEF HealthTrue, Paid
<1> QED
  BY <1>1, <1>2

(* The request of the check is one that its endpoints have options for. *)
LEMMA ProbeAccepted ==
    ASSUME health.stage \in Endpoints
    PROVE  ProbeQuery.op \in {"payloads", "get", "statuses"} /\ Accepts(ProbeQuery)
<1>1. /\ ProbeQuery.op = CASE health.stage = "payloads" -> "payloads" [] health.stage = "payload" -> "get"
                           [] health.stage = "statuses" -> "statuses"
      /\ ProbeQuery.request_id = IF health.stage = "payload" THEN health.request_id ELSE None
      /\ ProbeQuery.name = [k \in Columns |-> None]
      /\ ProbeQuery.days = IF health.stage = "statuses" THEN {today} ELSE Days
  BY DEF ProbeQuery
<1>2. CASE health.stage = "payloads"
  BY <1>1, <1>2 DEF Accepts
<1>3. CASE health.stage = "payload"
  BY <1>1, <1>3 DEF Accepts
<1>4. CASE health.stage = "statuses"
  BY <1>1, <1>4 DEF Accepts
<1> QED
  BY <1>2, <1>3, <1>4 DEF Endpoints

ServiceInv == RetentionInv /\ ApiInv /\ HealthInv

LEMMA HandlerService ==
    ASSUME ServiceInv, Reads, UNCHANGED health, NEW c \in Clients,
           ApiStep(c) \/ (c # Probe /\ UNCHANGED outages /\ \E q \in Queries : Ask(c, q))
    PROVE  ApiInv' /\ HealthInv'
<1>0. AttributionInv /\ ApiInv /\ HealthInv /\ outages \in Nat /\ Probe \in Clients
  BY HealthAssumption DEF ServiceInv, RetentionInv, HealthInv
<1>1. CASE ApiStep(c)
  <2>1. PICK r : /\ Tells(c, r)
                 /\ \/ outages' = outages /\ r.at # "failed"
                    \/ outages' = outages + 1 /\ api[c].at # "failed"
    BY <1>0, <1>1, ApiStepTrue
  <2>2. ApiInv' /\ api'[c] = r /\ \A d \in Clients \ {c} : api'[d] = api[d]
    BY <1>0, <2>1, TellsKept
  <2>3. CASE c = Probe
    <3>1. health.stage \in Endpoints
      BY <1>0, <1>1, <2>3, ApiStepTrue DEF HealthInv, HealthTrue
    <3>2. outages' \in Nat /\ outages' >= health.tries + Paid(r) /\ outages' >= outages
      <4>1. health.tries \in Nat /\ outages >= health.tries + Paid(api[Probe])
        BY <1>0 DEF HealthInv, HealthTrue
      <4>2. CASE outages' = outages /\ r.at # "failed"
        BY <1>0, <4>1, <4>2 DEF Paid
      <4>3. CASE outages' = outages + 1 /\ api[c].at # "failed"
        BY <1>0, <2>3, <4>1, <4>3 DEF Paid
      <4> QED
        BY <2>1, <4>2, <4>3
    <3>3. HealthTrue(health, r, outages')
      BY <1>0, <3>1, <3>2, HealthAssumption DEF HealthInv, HealthTrue
    <3>4. api'[Probe] = r /\ health' = health
      BY <2>2, <2>3
    <3> QED
      BY <2>2, <3>2, <3>3, <3>4 DEF HealthInv
  <2>4. CASE c # Probe
    <3>1. api'[Probe] = api[Probe] /\ outages' \in Nat /\ outages' >= outages
      BY <1>0, <2>1, <2>2, <2>4
    <3> QED
      BY <1>0, <2>2, <3>1, HealthAssumption DEF HealthInv, HealthTrue, Paid
  <2> QED
    BY <2>3, <2>4
<1>2. CASE c # Probe /\ UNCHANGED outages /\ \E q \in Queries : Ask(c, q)
  <2>1. PICK q \in Queries : Ask(c, q)
    BY <1>2
  <2>2. q.op \in {"payloads", "get", "statuses"} /\ Accepts(q)
    BY ApiAssumption DEF Query
  <2>3. PICK r : Tells(c, r)
    BY <2>1, <2>2, AskTrue
  <2>4. ApiInv' /\ api'[Probe] = api[Probe]
    BY <1>0, <1>2, <2>3, TellsKept
  <2> QED
    BY <1>0, <1>2, <2>4 DEF HealthInv
<1> QED
  BY <1>1, <1>2

LEMMA CheckService ==
    ASSUME ServiceInv, Reads, Check
    PROVE  ApiInv' /\ HealthInv'
<1>0. /\ AttributionInv /\ ApiInv /\ HealthInv /\ outages \in Nat /\ Probe \in Clients
      /\ health.tries \in Nat /\ RETRY_MAX \in Nat
      /\ DOMAIN health = {"stage", "tries", "request_id"}
  BY HealthAssumption DEF ServiceInv, RetentionInv, HealthInv, HealthTrue
<1>1. ASSUME UNCHANGED api PROVE ApiInv'
  <2>1. \A c \in Clients : RequestTrue(api[c])'
    BY <1>0, <1>1, RequestKept DEF ApiInv
  <2> QED
    BY <1>0, <1>1, <2>1 DEF ApiInv
<1>2. ASSUME Becomes(Probe, Quiet) PROVE ApiInv' /\ api'[Probe].at = "idle"
  <2>1. Tells(Probe, Quiet)
    BY <1>2, QuietTrue DEF Tells
  <2> QED
    BY <1>0, <2>1, TellsKept DEF Quiet
<1>3. CASE StartCheck
  <2>1. health' = [health EXCEPT !.stage = "db"] /\ UNCHANGED <<api, outages>> /\ health.stage = "idle"
    BY <1>3 DEF StartCheck
  <2>2. health'.stage = "db" /\ health'.tries = health.tries /\ DOMAIN health' = DOMAIN health
    BY <1>0, <2>1
  <2>3. HealthInv'
    BY <1>0, <2>1, <2>2 DEF HealthInv, HealthTrue, Endpoints
  <2> QED
    BY <1>1, <2>1, <2>3
<1>4. CASE Attempt
  <2>1. health.stage \in External /\ UNCHANGED api
    BY <1>4 DEF Attempt
  <2>2. api[Probe].at = "idle"
    BY <1>0, <2>1 DEF HealthInv, HealthTrue, External, Endpoints
  <2>3. CASE Pass(health.request_id) /\ UNCHANGED outages
    <3>1. HealthTrue(health', api[Probe], outages)
      BY <1>0, <2>1, <2>2, <2>3, PassTrue
    <3> QED
      BY <1>0, <1>1, <2>1, <2>3, <3>1 DEF HealthInv
  <2>4. CASE Miss /\ Outage
    <3>1. outages' = outages + 1 /\ outages + 1 \in Nat /\ outages + 1 >= health.tries + 1
      BY <1>0, <2>2, <2>4 DEF Outage, HealthInv, HealthTrue, Paid
    <3>2. HealthTrue(health', api[Probe], outages + 1)
      BY <1>0, <2>1, <2>2, <2>4, <3>1, MissTrue DEF External
    <3> QED
      BY <1>1, <2>1, <3>1, <3>2 DEF HealthInv
  <2> QED
    BY <1>4, <2>3, <2>4 DEF Attempt
<1>5. CASE CheckEndpoint
  <2>1. PICK r : Tells(Probe, r) /\ r.at \in {"rows", "count", "filter"}
    BY <1>0, <1>5, ProbeAccepted, AskTrue DEF CheckEndpoint
  <2>2. ApiInv' /\ api'[Probe] = r
    BY <1>0, <2>1, TellsKept
  <2>3. UNCHANGED <<health, outages>> /\ health.stage \in Endpoints /\ api[Probe].at = "idle"
    BY <1>5 DEF CheckEndpoint, Ask
  <2> QED
    BY <1>0, <2>1, <2>2, <2>3 DEF HealthInv, HealthTrue, Paid
<1>6. CASE EndpointAnswers
  <2>1. /\ ApiInv' /\ api'[Probe].at = "idle"
        /\ UNCHANGED outages /\ health.stage \in Endpoints /\ api[Probe].at \in Ended
    BY <1>2, <1>6 DEF EndpointAnswers
  <2>2. CASE \E shown : Pass(shown)
    <3>0. PICK shown : Pass(shown)
      BY <2>2
    <3>1. HealthTrue(health', api'[Probe], outages)
      BY <1>0, <2>1, <3>0, PassTrue
    <3> QED
      BY <1>0, <2>1, <3>1 DEF HealthInv
  <2>3. CASE api[Probe].at # "ok" /\ Miss
    <3>1. api[Probe].at = "failed"
      BY <1>0, <2>1, <2>3 DEF Ended, ApiInv, RequestTrue, IsRequest
    <3>2. outages >= health.tries + 1
      BY <1>0, <3>1 DEF HealthInv, HealthTrue, Paid
    <3>3. HealthTrue(health', api'[Probe], outages)
      BY <1>0, <2>1, <2>3, <3>2, MissTrue DEF Endpoints
    <3> QED
      BY <1>0, <2>1, <3>3 DEF HealthInv
  <2> QED
    BY <1>6, <2>2, <2>3 DEF EndpointAnswers
<1>7. CASE EndpointTimeout
  <2>1. /\ ApiInv' /\ api'[Probe].at = "idle"
        /\ api[Probe].at \notin {"failed", "idle"} /\ Miss /\ outages' = outages + 1
    BY <1>2, <1>7 DEF EndpointTimeout, Outage, Ended
  <2>2. health.stage \in Endpoints /\ outages + 1 \in Nat /\ outages + 1 >= health.tries + 1
    BY <1>0, <2>1 DEF HealthInv, HealthTrue, Paid
  <2>3. HealthTrue(health', api'[Probe], outages + 1)
    BY <1>0, <2>1, <2>2, MissTrue DEF Endpoints
  <2> QED
    BY <2>1, <2>2, <2>3 DEF HealthInv
<1> QED
  BY <1>3, <1>4, <1>5, <1>6, <1>7 DEF Check

LEMMA ServiceStep == ServiceInv /\ [ServiceNext]_serviceVars => ServiceInv'
<1> SUFFICES ASSUME ServiceInv, [ServiceNext]_serviceVars PROVE ServiceInv'
  OBVIOUS
<1>0. RetentionInv /\ ApiInv /\ HealthInv
  BY DEF ServiceInv
<1>1. [RetentionStep]_retentionVars
  BY DEF ServiceNext, serviceVars
<1>2. RetentionInv' /\ Reads
  BY <1>0, <1>1, RetentionNext
<1>3. CASE UNCHANGED <<api, outages, health>>
  <2>1. \A c \in Clients : RequestTrue(api[c])'
    BY <1>0, <1>2, <1>3, RequestKept DEF ApiInv
  <2>2. ApiInv'
    BY <1>0, <1>3, <2>1 DEF ApiInv
  <2>3. HealthInv'
    BY <1>0, <1>3 DEF HealthInv, HealthTrue, Paid
  <2> QED
    BY <1>2, <2>2, <2>3 DEF ServiceInv
<1>4. CASE /\ UNCHANGED health
           /\ \E c \in Clients :
                 ApiStep(c) \/ (c # Probe /\ UNCHANGED outages /\ \E q \in Queries : Ask(c, q))
  BY <1>2, <1>4, HandlerService DEF ServiceInv
<1>5. CASE Check
  BY <1>2, <1>5, CheckService DEF ServiceInv
<1> QED
  BY <1>3, <1>4, <1>5 DEF ServiceNext, serviceVars

LEMMA ServiceStart == HealthInit => ServiceInv
<1> SUFFICES ASSUME HealthInit PROVE ServiceInv
  OBVIOUS
<1>1. /\ RetentionInit /\ api = [c \in Clients |-> Quiet] /\ outages = 0
      /\ health = [stage |-> "idle", tries |-> 0, request_id |-> None]
  BY DEF HealthInit, ApiInit
<1>2. ApiInv
  BY <1>1, QuietTrue DEF ApiInv
<1>3. HealthInv
  BY <1>1, HealthAssumption DEF HealthInv, HealthTrue, Paid, Quiet
<1> QED
  BY <1>1, <1>2, <1>3, RetentionStart DEF ServiceInv

-----------------------------------------------------------------------------
LEMMA ServiceAlways == ServiceSpec => []ServiceInv
BY ServiceStart, ServiceStep, PTL DEF ServiceSpec

(***************************************************************************)
(* For any days and any retention: DELETE, its cascade and the dropped     *)
(* partitions take a status only when it, its date or a payload of its     *)
(* request is as old as the retention, wherever pipeline and readers are.  *)
(***************************************************************************)
THEOREM OnlyOldAreDeleted == ServiceSpec => OnlyOldDeleted
<1>1. ServiceInv /\ [ServiceNext]_serviceVars =>
          [\A s \in statuses \ statuses' :
              Old(born[StatusKey(s)]) \/ Old(s.day) \/ OldPayload(Source(s).request_id)]_retentionVars
  BY TakesOld DEF ServiceInv, ServiceNext, serviceVars
<1> QED
  BY <1>1, ServiceAlways, PTL DEF ServiceSpec, OnlyOldDeleted

(***************************************************************************)
(* The cleanup costs a good message whose calls do not fail only if its    *)
(* date or a payload of its request is as old as the retention.            *)
(***************************************************************************)
THEOREM CleanupLosesOnlyOld == ServiceSpec => []CleanupLoss
<1>1. ServiceInv => CleanupLoss
  BY DEF ServiceInv, RetentionInv
<1> QED
  BY <1>1, ServiceAlways, PTL

(***************************************************************************)
(* The attribution of the stored statuses survives the cleanup: the        *)
(* cascade and the drop leave no status without its payload or partition.  *)
(***************************************************************************)
THEOREM AttributionSurvives == ServiceSpec => []Attribution
<1>1. ServiceInv => Attribution
  BY DEF ServiceInv, RetentionInv, AttributionInv
<1> QED
  BY <1>1, ServiceAlways, PTL

(***************************************************************************)
(* Every answer shows a status under the names of the message it was       *)
(* stored for, and only what was asked for: the id of a name means the     *)
(* same when the name table is read as it did when the row was.            *)
(***************************************************************************)
THEOREM AnswersAreTrue == ServiceSpec => []AnswersTrue
<1>1. ServiceInv => AnswersTrue
  <2> SUFFICES ASSUME ServiceInv, NEW c \in Clients, NEW a, a = api[c],
                      a.at = "ok", a.query.op # "payloads", NEW e \in a.entries
               PROVE  /\ e.name = Told(e).name
                      /\ a.query.request_id \in {None, Told(e).request_id}
                      /\ Told(e).day \in a.query.days
                      /\ \A k \in Columns : a.query.name[k] \in {None, e.name[k]}
    BY DEF AnswersTrue
  <2>1. AttributionInv /\ RequestTrue(a)
    BY DEF ServiceInv, RetentionInv, ApiInv
  <2> QED
    BY <2>1, TrueAnswer
<1> QED
  BY <1>1, ServiceAlways, PTL

(***************************************************************************)
(* No request ends in a KeyError: no id of a row that was read is missing  *)
(* from the name tables that are read after it.                            *)
(***************************************************************************)
THEOREM NoKeyErrors == ServiceSpec => []NoKeyError
<1>1. ServiceInv => NoKeyError
  BY DEF ServiceInv, ApiInv, RequestTrue, IsRequest, NoKeyError
<1> QED
  BY <1>1, ServiceAlways, PTL

(***************************************************************************)
(* For any number of attempts and any order of the stages' failures: the   *)
(* check reports a failure only when all its attempts were lost to outages.*)
(***************************************************************************)
THEOREM HealthFailsOnlyOnOutage == ServiceSpec => []HealthFailsOnOutage
<1>1. ServiceInv => HealthFailsOnOutage
  BY DEF ServiceInv, HealthInv, HealthTrue, HealthFailsOnOutage
<1> QED
  BY <1>1, ServiceAlways, PTL
=============================================================================
