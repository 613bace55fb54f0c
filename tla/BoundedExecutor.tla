--------------------------- MODULE BoundedExecutor ---------------------------
(***************************************************************************)
(* BoundedExecutor (bounded_executor.py), the default executor of the      *)
(* event loop: a semaphore around a ThreadPoolExecutor.  The event loop's  *)
(* thread is the only one that submits; the worker threads run the items   *)
(* and the callbacks of their futures.  Queue, futures and threads are     *)
(* those of concurrent.futures, modelled as far as submit depends on them. *)
(***************************************************************************)
EXTENDS Integers, Sequences, FiniteSets

CONSTANTS
    Items,          \* the work items that the event loop may submit
    Bound,          \* bound: 0 in app.py
    MaxWorkers,     \* max_workers: THREAD_POOL_SIZE
    NoItem,         \* the event loop is not in submit
    MaxSpawnFaults  \* bound on the threads that cannot be started

ASSUME ExecutorAssumption ==
    /\ IsFiniteSet(Items) /\ NoItem \notin Items
    /\ Bound \in Nat /\ MaxWorkers \in Nat \ {0} /\ MaxSpawnFaults \in Nat

VARIABLES
    pc, item,      \* where the event loop is in submit, and with which item
    permits,       \* the value of the semaphore
    future,        \* the state of each item's future
    registered,    \* the items whose future has the callback that releases
    queue,         \* the pool's work queue
    threads,       \* how many worker threads have been started
    busy,          \* the items that occupy a worker thread
    refused,       \* the items whose submit raised
    down,          \* shutdown has been called
    spawnFaults    \* how many threads could not be started

loopVars == <<pc, item>>
poolVars == <<queue, threads, busy>>
vars == <<loopVars, permits, future, registered, poolVars, refused, down, spawnFaults>>

Init ==
    /\ pc = "idle" /\ item = NoItem
    /\ permits = Bound + MaxWorkers
    /\ future = [i \in Items |-> "none"]
    /\ registered = {}
    /\ queue = <<>> /\ threads = 0 /\ busy = {}
    /\ refused = {} /\ down = FALSE /\ spawnFaults = 0

Release == permits' = permits + 1

Return == pc' = "idle" /\ item' = NoItem

-----------------------------------------------------------------------------
(* The event loop enters submit, which first acquires the semaphore. *)
Submit(i) ==
    /\ pc = "idle"
    /\ future[i] = "none" /\ i \notin refused
    /\ pc' = "acquire" /\ item' = i
    /\ UNCHANGED <<permits, future, registered, poolVars, refused, down, spawnFaults>>

(* Mutant of Acquire: the semaphore does not block. *)
AcquireUnguarded ==
    /\ pc = "acquire"
    /\ permits' = permits - 1
    /\ pc' = "put"
    /\ UNCHANGED <<item, future, registered, poolVars, refused, down, spawnFaults>>

(* The event loop's thread blocks until a permit is there. *)
Acquire ==
    /\ pc = "acquire"
    /\ permits > 0
    /\ permits' = permits - 1
    /\ pc' = "put"
    /\ UNCHANGED <<item, future, registered, poolVars, refused, down, spawnFaults>>

(* Mutant of Raise: the except clause does not give the permit back. *)
RaiseOnly ==
    /\ refused' = refused \cup {item}
    /\ Return
    /\ UNCHANGED permits

(* bounded_executor.py:21: the pool's submit raised. *)
Raise ==
    /\ refused' = refused \cup {item}
    /\ Return
    /\ Release

(* The pool's submit queues the item, unless it has been shut down. *)
Put ==
    /\ pc = "put"
    /\ IF down
       THEN Raise /\ UNCHANGED <<future, queue>>
       ELSE /\ future' = [future EXCEPT ![item] = "pending"]
            /\ queue' = Append(queue, item)
            /\ pc' = "spawn"
            /\ UNCHANGED <<item, permits, refused>>
    /\ UNCHANGED <<registered, threads, busy, down, spawnFaults>>

(* It then starts one more thread, which may fail although the item is queued. *)
Spawn ==
    /\ pc = "spawn"
    /\ \/ /\ threads = MaxWorkers
          /\ pc' = "register"
          /\ UNCHANGED <<item, permits, threads, refused, spawnFaults>>
       \/ /\ threads < MaxWorkers
          /\ threads' = threads + 1
          /\ pc' = "register"
          /\ UNCHANGED <<item, permits, refused, spawnFaults>>
       \/ /\ threads < MaxWorkers /\ spawnFaults < MaxSpawnFaults
          /\ spawnFaults' = spawnFaults + 1
          /\ Raise
          /\ UNCHANGED threads
    /\ UNCHANGED <<future, registered, queue, busy, down>>

(* Mutant of Register: a future that has finished meanwhile is overlooked. *)
RegisterLate ==
    /\ pc = "register"
    /\ registered' = registered \cup {item} /\ UNCHANGED permits
    /\ Return
    /\ UNCHANGED <<future, poolVars, refused, down, spawnFaults>>

(* Mutant of Register: the permit is given back in a `finally`, and once more *)
(* by the callback.                                                           *)
RegisterAndRelease ==
    /\ pc = "register"
    /\ registered' = registered \cup {item} /\ Release
    /\ Return
    /\ UNCHANGED <<future, poolVars, refused, down, spawnFaults>>

(* add_done_callback runs the callback at once when the future has finished. *)
Register ==
    /\ pc = "register"
    /\ IF future[item] = "finished"
       THEN Release /\ UNCHANGED registered
       ELSE registered' = registered \cup {item} /\ UNCHANGED permits
    /\ Return
    /\ UNCHANGED <<future, poolVars, refused, down, spawnFaults>>

(* The event loop cancels a future that no worker has begun; it stays queued. *)
Cancel(i) ==
    /\ pc = "idle"
    /\ future[i] = "pending" /\ i \in registered
    /\ future' = [future EXCEPT ![i] = "cancelled"]
    /\ Release
    /\ UNCHANGED <<loopVars, registered, poolVars, refused, down, spawnFaults>>

Shutdown ==
    /\ pc = "idle" /\ ~down
    /\ down' = TRUE
    /\ UNCHANGED <<loopVars, permits, future, registered, poolVars, refused, spawnFaults>>

-----------------------------------------------------------------------------
(* An idle worker takes the next item and runs it unless it was cancelled. *)
Take ==
    LET i == Head(queue)
    IN
    /\ queue # <<>>
    /\ Cardinality(busy) < threads
    /\ queue' = Tail(queue)
    /\ IF future[i] = "pending"
       THEN future' = [future EXCEPT ![i] = "running"] /\ busy' = busy \cup {i}
       ELSE UNCHANGED <<future, busy>>
    /\ UNCHANGED <<loopVars, permits, registered, threads, refused, down, spawnFaults>>

(* The item returns or raises: the future has its result ... *)
Finish(i) ==
    /\ future[i] = "running"
    /\ future' = [future EXCEPT ![i] = "finished"]
    /\ UNCHANGED <<loopVars, permits, registered, poolVars, refused, down, spawnFaults>>

(* ... and the worker runs the callbacks that were registered until then. *)
Notify(i) ==
    /\ i \in busy /\ future[i] = "finished"
    /\ busy' = busy \ {i}
    /\ IF i \in registered THEN Release ELSE UNCHANGED permits
    /\ UNCHANGED <<loopVars, future, registered, queue, threads, refused, down, spawnFaults>>

(* Nothing is left to do. *)
Rest ==
    /\ pc = "idle" /\ busy = {} /\ down
    /\ \A i \in Items : future[i] \in {"finished", "cancelled"} \/ i \in refused
    /\ UNCHANGED vars

LoopStep == Acquire \/ Put \/ Spawn \/ Register
WorkerStep == Take \/ (\E i \in Items : Finish(i) \/ Notify(i))

Next ==
    \/ \E i \in Items : Submit(i) \/ Cancel(i)
    \/ Shutdown
    \/ LoopStep
    \/ WorkerStep
    \/ Rest

Spec == Init /\ [][Next]_vars

(* The loop's thread goes on in submit when it can, every item that runs ends, *)
(* and a started worker does not rest while something is queued.               *)
FairSpec ==
    /\ Spec
    /\ WF_vars(LoopStep)
    /\ WF_vars(Take)
    /\ \A i \in Items : WF_vars(Finish(i)) /\ WF_vars(Notify(i))

-----------------------------------------------------------------------------
(* Every variable has its type. *)
TypeOK ==
    /\ pc \in {"idle", "acquire", "put", "spawn", "register"}
    /\ item \in Items \cup {NoItem}
    /\ pc = "idle" <=> item = NoItem
    /\ permits \in Nat
    /\ future \in [Items -> {"none", "pending", "running", "finished", "cancelled"}]
    /\ registered \subseteq Items
    /\ queue \in Seq(Items)
    /\ threads \in 0..MaxWorkers
    /\ busy \subseteq Items
    /\ refused \subseteq Items
    /\ down \in BOOLEAN
    /\ spawnFaults \in 0..MaxSpawnFaults

(* The items that hold a permit: the one in submit, and those whose callback *)
(* has not run.                                                              *)
Holding ==
    {i \in Items :
        \/ i = item /\ pc \in {"put", "spawn", "register"}
        \/ i \in registered /\ (future[i] \in {"pending", "running"} \/ i \in busy)}

(***************************************************************************)
(* A permit that is not free belongs to exactly one item: however submit,  *)
(* cancellation, the end of an item and the registration of its callback   *)
(* interleave, none is lost, and the BoundedSemaphore is never released    *)
(* above its first value.                                                  *)
(***************************************************************************)
PermitsBalance == permits + Cardinality(Holding) = Bound + MaxWorkers

(***************************************************************************)
(* The items queued or running never exceed bound + max_workers, but for   *)
(* those that were queued although submit raised for want of a thread.     *)
(***************************************************************************)
WorkBounded ==
    Cardinality({i \in Items : future[i] \in {"pending", "running"}})
        <= Bound + MaxWorkers + spawnFaults

(***************************************************************************)
(* The event loop never stays blocked in submit, and what it submits ends  *)
(* or is refused.                                                          *)
(***************************************************************************)
SubmittedEnds ==
    \A i \in Items :
        item = i ~> item # i /\ (future[i] \in {"finished", "cancelled"} \/ i \in refused)
=============================================================================
