----------------------------- MODULE ConsumerLoop -----------------------------
(***************************************************************************)
(* One tracker process between Kafka and process_payload_status: start()   *)
(* (app.py), the worker `consume` that turns what getmany() returns into   *)
(* one coroutine for each topic partition, and its limit on running tasks. *)
(* Kafka (external) hands messages out from a position and commits that    *)
(* position in the background, whether or not they have been processed.    *)
(* A killed process starts again at the committed offsets.                 *)
(***************************************************************************)
EXTENDS Integers, FiniteSets

CONSTANTS
    Partitions,             \* topic partitions assigned to the process
    LogLength,              \* how many messages each of them holds
    Poison,                 \* those, as <<p, i>>, whose value raises at app.py:104
    USE_REDIS,
    MAXIMUM_RUNNING_TASKS,
    BaseTasks,              \* tasks that never end: the consumer, the servers
    MaxRequests,            \* bound on API requests, each a task of its own
    MaxCrashes              \* bound on kills and failed starts

ASSUME ConsumerAssumption ==
    /\ LogLength \in Nat
    /\ Poison \subseteq Partitions \X (1..LogLength)
    /\ USE_REDIS \in BOOLEAN
    /\ MAXIMUM_RUNNING_TASKS \in Nat /\ BaseTasks \in Nat
    /\ MaxRequests \in Nat /\ MaxCrashes \in Nat

VARIABLES
    stage,      \* where start() or consume() is
    position,   \* position[p]: the last message that getmany() returned
    committed,  \* committed[p]: the committed offset
    resumed,    \* resumed[p]: the offset at which this process began
    fetched,    \* batches that getmany() returned and that have no task yet
    running,    \* batches whose coroutines run; first is the next message
    finished,   \* finished[p][i]: how often message i has been processed
    others,     \* other tasks: UPDATEs that messages spawned, API requests
    requests,   \* how many API requests have been made
    crashes     \* how often the process has died

kafka == <<position, committed, resumed>>
memory == <<fetched, running, others>>
vars == <<stage, kafka, memory, finished, requests, crashes>>

(* A batch: messages first .. last of a partition. *)
Batch == [partition : Partitions, first : Nat, last : Nat]
Offsets == 1..LogLength
Stages == {"db", "redis", "names", "getmany", "spawn"}
Starting == {"db", "redis", "names"}

Init ==
    /\ stage = "db"
    /\ position = [p \in Partitions |-> 0]
    /\ committed = [p \in Partitions |-> 0]
    /\ resumed = [p \in Partitions |-> 0]
    /\ fetched = {} /\ running = {}
    /\ finished = [p \in Partitions |-> [i \in Offsets |-> 0]]
    /\ others = 0 /\ requests = 0 /\ crashes = 0

-----------------------------------------------------------------------------
(* app.py:345-360: what start() waits for before it creates the consumer's task. *)
Begin ==
    stage' = CASE stage = "db" -> IF USE_REDIS THEN "redis" ELSE "names"
               [] stage = "redis" -> "names"
               [] stage = "names" -> "getmany"

Start ==
    /\ stage \in Starting
    /\ Begin
    /\ UNCHANGED <<kafka, memory, finished, requests, crashes>>

(* Mutant of get_running_tasks: API requests count after they are done, too. *)
AllTasks == BaseTasks + Cardinality(running) + others + requests

(* All tasks of the process that are not done (utils.py). *)
get_running_tasks == BaseTasks + Cardinality(running) + others

(* The batch of partition p up to message n. *)
Upto(p, n) == [partition |-> p, first |-> position[p] + 1, last |-> n]

(* Mutant of Advance: the position stays behind by one message. *)
AdvanceLess(n) == position' = [p \in Partitions |-> IF n[p] > position[p] + 1 THEN n[p] - 1 ELSE n[p]]

(* getmany() moves the position past what it returns. *)
Advance(n) == position' = n

(* app.py:298: what has been prefetched of each partition, possibly nothing. *)
GetMany ==
    /\ stage = "getmany"
    /\ \E n \in [Partitions -> 0..LogLength] :
          /\ \A p \in Partitions : position[p] <= n[p]
          /\ fetched' = {Upto(p, n[p]) : p \in {q \in Partitions : n[q] > position[q]}}
          /\ Advance(n)
    /\ stage' = "spawn"
    /\ UNCHANGED <<committed, resumed, running, others, finished, requests, crashes>>

(* Mutant of Taken: the loop over data.items() ends after one partition. *)
TakenAll(b) == {}

Taken(b) == fetched \ {b}

(* Mutant of HasRoom: > instead of >=. *)
HasRoomForOneMore == get_running_tasks <= MAXIMUM_RUNNING_TASKS

(* app.py:300 *)
HasRoom == get_running_tasks < MAXIMUM_RUNNING_TASKS

(* app.py:299-302: one coroutine for each partition, as soon as there is room. *)
Spawn ==
    /\ stage = "spawn"
    /\ HasRoom
    /\ \E b \in fetched :
          /\ running' = running \cup {b}
          /\ fetched' = Taken(b)
    /\ UNCHANGED <<stage, kafka, others, finished, requests, crashes>>

(* app.py:301: the loop only sleeps while there is no room. *)
Wait == stage = "spawn" /\ fetched # {} /\ ~HasRoom /\ UNCHANGED vars

(* app.py:303, and the worker is called again. *)
EndConsume ==
    /\ stage = "spawn" /\ fetched = {}
    /\ stage' = "getmany"
    /\ UNCHANGED <<kafka, memory, finished, requests, crashes>>

Consume == Start \/ GetMany \/ Spawn \/ EndConsume

(* What is left of batch b after its next message. *)
Rest(b) == IF b.first < b.last THEN {[b EXCEPT !.first = @ + 1]} ELSE {}

(***************************************************************************)
(* The coroutine of batch b is done with its next message, successfully or *)
(* not, and may have spawned an UPDATE; or that message ends the coroutine *)
(* with an exception.  StatusPipeline has the details.                     *)
(***************************************************************************)
Process(b) ==
    /\ b \in running
    /\ \/ /\ <<b.partition, b.first>> \notin Poison
          /\ finished' = [finished EXCEPT ![b.partition][b.first] = @ + 1]
          /\ running' = (running \ {b}) \cup Rest(b)
          /\ others' \in {others, others + 1}
       \/ /\ <<b.partition, b.first>> \in Poison
          /\ running' = running \ {b}
          /\ UNCHANGED <<finished, others>>
    /\ UNCHANGED <<stage, kafka, fetched, requests, crashes>>

(* An API request is a task of the same event loop; the servers start with it. *)
Request ==
    /\ stage \notin Starting
    /\ requests < MaxRequests
    /\ requests' = requests + 1
    /\ others' = others + 1
    /\ UNCHANGED <<stage, kafka, fetched, running, finished, crashes>>

EndOther ==
    /\ others > 0
    /\ others' = others - 1
    /\ UNCHANGED <<stage, kafka, fetched, running, finished, requests, crashes>>

(* enable_auto_commit, the default: the position is committed. *)
AutoCommit(p) ==
    /\ committed[p] # position[p]
    /\ committed' = [committed EXCEPT ![p] = position[p]]
    /\ UNCHANGED <<stage, position, resumed, memory, finished, requests, crashes>>

(* The process is killed, or start() failed and stopped the loop. *)
Crash ==
    /\ crashes < MaxCrashes
    /\ crashes' = crashes + 1
    /\ stage' = "db"
    /\ position' = committed /\ resumed' = committed
    /\ fetched' = {} /\ running' = {} /\ others' = 0
    /\ UNCHANGED <<committed, finished, requests>>

Next ==
    \/ Consume \/ Wait
    \/ \E b \in running : Process(b)
    \/ Request \/ EndOther \/ Crash
    \/ \E p \in Partitions : AutoCommit(p)

Spec == Init /\ [][Next]_vars

(* The event loop runs every task that can go on, the database answers, and *)
(* getmany() does not always come back without what a partition still holds. *)
FairSpec ==
    /\ Spec
    /\ WF_vars(Consume)
    /\ WF_vars(\E b \in running : Process(b))
    /\ WF_vars(EndOther)
    /\ \A p \in Partitions : SF_vars(GetMany /\ position'[p] > position[p])

-----------------------------------------------------------------------------
(* Every variable has its type. *)
TypeOK ==
    /\ stage \in Stages
    /\ {position, committed, resumed} \subseteq [Partitions -> Nat]
    /\ \A p \in Partitions : resumed[p] <= committed[p] /\ committed[p] <= position[p] /\ position[p] <= LogLength
    /\ fetched \subseteq Batch /\ running \subseteq Batch
    /\ \A b \in fetched \cup running : 1 <= b.first /\ b.first <= b.last /\ b.last <= position[b.partition]
    /\ finished \in [Partitions -> [Offsets -> Nat]]
    /\ others \in Nat /\ requests \in 0..MaxRequests /\ crashes \in 0..MaxCrashes

InHand == fetched \cup running
Holds(b, p, i) == b.partition = p /\ b.first <= i /\ i <= b.last
Held(p, i) == \E b \in InHand : Holds(b, p, i)

(* What may keep a message from being processed: a crash after its offset was *)
(* committed, or a value before it that ended its coroutine.                  *)
Excused(p, i) ==
    \/ i <= resumed[p]
    \/ \E j \in 1..i : <<p, j>> \in Poison

(***************************************************************************)
(* A message that Kafka has handed out is processed, or it is in a batch,  *)
(* or the process died after its offset had been committed (app.py:302     *)
(* leaves the batch to a task while the offset is committed beside it), or *)
(* a value of its partition before it ended a coroutine.                   *)
(***************************************************************************)
LossOnlyByCrash ==
    \A p \in Partitions : \A i \in 1..position[p] :
        finished[p][i] > 0 \/ Held(p, i) \/ Excused(p, i)

(***************************************************************************)
(* A message is processed again only after a crash, once for each crash at *)
(* most: no two batches hold it, and no batch holds one that this process  *)
(* has processed.                                                          *)
(***************************************************************************)
DuplicatesOnlyByCrash ==
    /\ \A b, c \in InHand : \A i \in Offsets :
          Holds(b, b.partition, i) /\ Holds(c, b.partition, i) => b = c
    /\ \A p \in Partitions : \A i \in Offsets :
          finished[p][i] + (IF Held(p, i) THEN 1 ELSE 0) <= crashes + 1

(***************************************************************************)
(* No message is taken before the name tables are loaded, and the batches  *)
(* that run never use up the limit together with the base tasks.           *)
(***************************************************************************)
WithinLimits ==
    /\ stage \in Starting => InHand = {}
    /\ running # {} => BaseTasks + Cardinality(running) <= MAXIMUM_RUNNING_TASKS

(***************************************************************************)
(* Every message is processed in the end, unless it is excused; API        *)
(* requests and UPDATEs delay the batches but never stop them.             *)
(***************************************************************************)
EveryMessageEnds ==
    <>(\A p \in Partitions : \A i \in Offsets : finished[p][i] > 0 \/ Excused(p, i))
=============================================================================
