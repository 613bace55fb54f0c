--------------------------- MODULE ExecutorProofs ---------------------------
(***************************************************************************)
(* Proofs about BoundedExecutor for any number of items, workers, queued   *)
(* items and failing thread starts.                                        *)
(***************************************************************************)
EXTENDS BoundedExecutor, FiniteSetTheorems, TLAPS

Live == {i \in Items : future[i] \in {"pending", "running"}}

(* Items that were queued although their submit raised. *)
Leftover == {i \in refused : future[i] # "none"}

(* The item in submit has a future from Put on, and neither its callback nor *)
(* a refusal yet.                                                            *)
InSubmit ==
    /\ pc \in {"acquire", "put"} => future[item] = "none"
    /\ pc \in {"spawn", "register"} => future[item] \in {"pending", "running", "finished"}
    /\ item \notin registered /\ item \notin refused

(* The future of an item that occupies a worker, is live, or has a callback. *)
Futures ==
    /\ \A i \in busy : future[i] \in {"running", "finished"}
    /\ \A i \in Items : future[i] = "running" => i \in busy
    /\ \A i \in Live : i \in Holding \cup Leftover
    /\ registered \cap refused = {}
    /\ \A i \in registered : future[i] # "none"

LeftoverBounded == Cardinality(Leftover) <= spawnFaults

IInv == TypeOK /\ InSubmit /\ Futures /\ PermitsBalance /\ LeftoverBounded

-----------------------------------------------------------------------------
LEMMA FiniteHolding ==
    ASSUME TypeOK
    PROVE  /\ IsFiniteSet(Holding) /\ Cardinality(Holding) \in Nat
           /\ IsFiniteSet(Leftover) /\ Cardinality(Leftover) \in Nat
<1>1. IsFiniteSet(Items)
  BY ExecutorAssumption
<1>2. Holding \subseteq Items /\ Leftover \subseteq Items
  BY DEF Holding, Leftover, TypeOK
<1> QED
  BY <1>1, <1>2, FS_Subset, FS_CardinalityType

(* An item that gets a permit and one that gives it back. *)
LEMMA TakePermit ==
    ASSUME TypeOK, PermitsBalance, permits' = permits - 1,
           NEW i \in Items, i \notin Holding, Holding' = Holding \cup {i}
    PROVE  PermitsBalance'
<1>1. Cardinality(Holding') = Cardinality(Holding) + 1
  BY FiniteHolding, FS_AddElement
<1> QED
  BY <1>1, FiniteHolding, ExecutorAssumption DEF PermitsBalance, TypeOK

LEMMA GivePermit ==
    ASSUME TypeOK, PermitsBalance, permits' = permits + 1,
           NEW i \in Holding, Holding' = Holding \ {i}
    PROVE  PermitsBalance'
<1>1. Cardinality(Holding') = Cardinality(Holding) - 1
  BY FiniteHolding, FS_RemoveElement
<1> QED
  BY <1>1, FiniteHolding, ExecutorAssumption DEF PermitsBalance, TypeOK

LEMMA KeepPermits ==
    ASSUME PermitsBalance, permits' = permits, Holding' = Holding
    PROVE  PermitsBalance'
BY DEF PermitsBalance

-----------------------------------------------------------------------------
LEMMA TypeInit == Init => TypeOK
<1> SUFFICES ASSUME Init PROVE TypeOK
  OBVIOUS
<1>1. future \in [Items -> {"none", "pending", "running", "finished", "cancelled"}]
  BY DEF Init
<1>2. /\ pc = "idle" /\ item = NoItem /\ permits \in Nat /\ registered = {} /\ queue = <<>>
      /\ threads \in 0..MaxWorkers /\ busy = {} /\ refused = {} /\ down = FALSE
      /\ spawnFaults \in 0..MaxSpawnFaults
  BY ExecutorAssumption DEF Init
<1>3. queue \in Seq(Items)
  BY <1>2
<1> QED
  BY <1>1, <1>2, <1>3 DEF TypeOK

LEMMA TypeStep == TypeOK /\ InSubmit /\ [Next]_vars => TypeOK'
<1> SUFFICES ASSUME TypeOK, InSubmit, [Next]_vars PROVE TypeOK'
  OBVIOUS
<1> USE ExecutorAssumption DEF TypeOK, loopVars, poolVars
<1>1. ASSUME NEW i \in Items, Submit(i) PROVE TypeOK'
  BY <1>1 DEF Submit
<1>2. ASSUME NEW i \in Items, Cancel(i) PROVE TypeOK'
  BY <1>2 DEF Cancel, Release
<1>3. CASE Shutdown
  BY <1>3 DEF Shutdown
<1>4. CASE Acquire
  BY <1>4 DEF Acquire
<1>5. CASE Put
  <2>1. CASE down
    BY <1>5, <2>1 DEF Put, Raise, Return, Release
  <2>2. CASE ~down
    <3>1. item \in Items
      BY <1>5 DEF Put
    <3>2. queue' \in Seq(Items)
      BY <1>5, <2>2, <3>1 DEF Put
    <3>3. future' \in [Items -> {"none", "pending", "running", "finished", "cancelled"}]
      BY <1>5, <2>2 DEF Put
    <3> QED
      BY <1>5, <2>2, <3>2, <3>3 DEF Put
  <2> QED
    BY <2>1, <2>2
<1>6. CASE Spawn
  BY <1>6 DEF Spawn, Raise, Return, Release
<1>7. CASE Register
  BY <1>7 DEF Register, Return, Release
<1>8. CASE Take
  BY <1>8 DEF Take
<1>9. ASSUME NEW i \in Items, Finish(i) PROVE TypeOK'
  BY <1>9 DEF Finish
<1>10. ASSUME NEW i \in Items, Notify(i) PROVE TypeOK'
  BY <1>10 DEF Notify, Release
<1>11. CASE UNCHANGED vars
  BY <1>11 DEF vars
<1> QED
  BY <1>1, <1>2, <1>3, <1>4, <1>5, <1>6, <1>7, <1>8, <1>9, <1>10, <1>11
     DEF Next, LoopStep, WorkerStep, Rest

-----------------------------------------------------------------------------
(* Each action keeps the rest of the invariant. *)
LEMMA SubmitInv == ASSUME IInv, NEW i \in Items, Submit(i), TypeOK' PROVE IInv'
<1> USE DEF IInv, loopVars, poolVars
<1>1. item = NoItem /\ NoItem \notin Items
  BY ExecutorAssumption DEF Submit, TypeOK
<1>2. i \notin registered
  BY DEF Submit, Futures, Holding, TypeOK
<1>3. Holding' = Holding
  BY <1>1 DEF Submit, Holding
<1>4. Leftover' = Leftover /\ Live' = Live
  BY DEF Submit, Leftover, Live
<1>5. InSubmit'
  BY <1>2 DEF Submit, InSubmit
<1>6. Futures'
  BY <1>3, <1>4 DEF Submit, Futures
<1>7. PermitsBalance'
  BY <1>3, KeepPermits DEF Submit
<1> QED
  BY <1>4, <1>5, <1>6, <1>7 DEF Submit, LeftoverBounded

LEMMA AcquireInv == ASSUME IInv, Acquire, TypeOK' PROVE IInv'
<1> USE DEF IInv, loopVars, poolVars
<1>1. item \in Items /\ item \notin Holding
  BY DEF Acquire, TypeOK, InSubmit, Holding
<1>2. Holding' = Holding \cup {item}
  BY <1>1 DEF Acquire, Holding
<1>3. Leftover' = Leftover /\ Live' = Live
  BY DEF Acquire, Leftover, Live
<1>4. InSubmit'
  BY DEF Acquire, InSubmit
<1>5. Futures'
  BY <1>2, <1>3 DEF Acquire, Futures
<1>6. PermitsBalance'
  BY <1>1, <1>2, TakePermit DEF Acquire
<1> QED
  BY <1>3, <1>4, <1>5, <1>6 DEF Acquire, LeftoverBounded

(* submit raises: the item in submit gives its permit back. *)
LEMMA RaiseHolding ==
    ASSUME TypeOK, InSubmit, Raise, pc \in {"put", "spawn"},
           UNCHANGED <<registered, busy>>, \A i \in registered : future'[i] = future[i]
    PROVE  item \in Holding /\ Holding' = Holding \ {item}
<1>1. item \in Items /\ item \notin registered
  BY DEF TypeOK, InSubmit
<1>2. item' = NoItem /\ NoItem \notin Items /\ pc' = "idle"
  BY ExecutorAssumption DEF Raise, Return
<1>3. item \in Holding
  BY <1>1 DEF Holding
<1>4. ASSUME NEW i \in Items PROVE i \in Holding' <=> i \in Holding \ {item}
  BY <1>1, <1>2 DEF Holding
<1> QED
  BY <1>3, <1>4 DEF Holding

LEMMA PutInv == ASSUME IInv, Put, TypeOK' PROVE IInv'
<1> USE DEF IInv, loopVars, poolVars
<1>1. item \in Items /\ item \notin registered /\ item \notin refused /\ future[item] = "none"
  BY DEF Put, TypeOK, InSubmit
<1>2. CASE down
  <2>1. Raise /\ UNCHANGED <<future, registered, busy, spawnFaults>> /\ pc = "put"
    BY <1>2 DEF Put
  <2>2. item \in Holding /\ Holding' = Holding \ {item}
    BY <2>1, RaiseHolding
  <2>3. PermitsBalance'
    BY <1>1, <2>1, <2>2, GivePermit DEF Raise, Release
  <2>4. Leftover' = Leftover /\ Live' = Live
    BY <1>1, <2>1 DEF Raise, Leftover, Live
  <2>5. InSubmit'
    BY <2>1, ExecutorAssumption DEF Raise, Return, InSubmit, TypeOK
  <2>6. item \notin Live
    BY <1>1 DEF Live
  <2>7. Futures'
    BY <1>1, <2>1, <2>2, <2>4, <2>6 DEF Raise, Futures
  <2> QED
    BY <2>1, <2>3, <2>4, <2>5, <2>7 DEF LeftoverBounded
<1>3. CASE ~down
  <2>1. /\ pc = "put" /\ pc' = "spawn"
        /\ future' = [future EXCEPT ![item] = "pending"]
        /\ UNCHANGED <<item, permits, refused, registered, busy, spawnFaults>>
    BY <1>3 DEF Put
  <2>2. future'[item] = "pending" /\ \A i \in Items : i # item => future'[i] = future[i]
    BY <1>1, <2>1 DEF TypeOK
  <2>3. Holding' = Holding
    BY <1>1, <2>1, <2>2 DEF Holding, TypeOK
  <2>4. Leftover' = Leftover
    BY <1>1, <2>1, <2>2 DEF Leftover, TypeOK
  <2>5. InSubmit'
    BY <1>1, <2>1, <2>2 DEF InSubmit
  <2>6. item \in Holding
    BY <1>1, <2>1 DEF Holding
  <2>7. item \notin busy
    BY <1>1 DEF Futures
  <2>8. Futures'
    <3>1. \A i \in busy' : future'[i] \in {"running", "finished"}
      BY <2>1, <2>2, <2>7 DEF Futures, TypeOK
    <3>2. \A i \in Items : future'[i] = "running" => i \in busy'
      BY <2>1, <2>2 DEF Futures
    <3>3. \A i \in Live' : i \in Holding' \cup Leftover'
      BY <2>2, <2>3, <2>4, <2>6 DEF Futures, Live
    <3>4. \A i \in registered' : future'[i] # "none"
      BY <1>1, <2>1, <2>2 DEF Futures, TypeOK
    <3> QED
      BY <2>1, <3>1, <3>2, <3>3, <3>4 DEF Futures
  <2>9. PermitsBalance'
    BY <2>1, <2>3, KeepPermits
  <2> QED
    BY <2>1, <2>4, <2>5, <2>8, <2>9 DEF LeftoverBounded
<1> QED
  BY <1>2, <1>3

LEMMA SpawnInv == ASSUME IInv, Spawn, TypeOK' PROVE IInv'
<1> USE DEF IInv, loopVars, poolVars
<1>1. /\ item \in Items /\ item \notin registered /\ item \notin refused /\ pc = "spawn"
      /\ future[item] \in {"pending", "running", "finished"}
      /\ UNCHANGED <<future, registered, queue, busy, down>>
  BY DEF Spawn, TypeOK, InSubmit
<1>2. CASE pc' = "register" /\ UNCHANGED <<item, permits, refused, spawnFaults>>
  <2>1. Holding' = Holding /\ Leftover' = Leftover /\ Live' = Live
    BY <1>1, <1>2 DEF Holding, Leftover, Live
  <2>2. InSubmit' /\ Futures'
    BY <1>1, <1>2, <2>1 DEF InSubmit, Futures
  <2>3. PermitsBalance'
    BY <1>2, <2>1, KeepPermits
  <2> QED
    BY <1>2, <2>1, <2>2, <2>3 DEF LeftoverBounded
<1>3. CASE Raise /\ spawnFaults' = spawnFaults + 1
  <2>1. item \in Holding /\ Holding' = Holding \ {item}
    BY <1>1, <1>3, RaiseHolding
  <2>2. PermitsBalance'
    BY <1>1, <1>3, <2>1, GivePermit DEF Raise, Release
  <2>3. Live' = Live /\ Leftover' = Leftover \cup {item} /\ item \notin Leftover
    BY <1>1, <1>3 DEF Raise, Leftover, Live
  <2>4. LeftoverBounded'
    <3>1. Cardinality(Leftover') = Cardinality(Leftover) + 1
      BY <2>3, FiniteHolding, FS_AddElement
    <3> QED
      BY <1>3, <3>1, FiniteHolding DEF LeftoverBounded, TypeOK
  <2>5. InSubmit'
    BY <1>1, <1>3, ExecutorAssumption DEF Raise, Return, InSubmit, TypeOK
  <2>6. Futures'
    BY <1>1, <1>3, <2>1, <2>3 DEF Raise, Futures
  <2> QED
    BY <2>2, <2>4, <2>5, <2>6
<1> QED
  BY <1>2, <1>3 DEF Spawn

LEMMA RegisterInv == ASSUME IInv, Register, TypeOK' PROVE IInv'
<1> USE DEF IInv, loopVars, poolVars
<1>1. /\ item \in Items /\ item \notin registered /\ item \notin refused /\ pc = "register"
      /\ future[item] \in {"pending", "running", "finished"}
      /\ pc' = "idle" /\ item' = NoItem /\ NoItem \notin Items
      /\ UNCHANGED <<future, queue, threads, busy, refused, down, spawnFaults>>
  BY ExecutorAssumption DEF Register, Return, TypeOK, InSubmit
<1>2. Leftover' = Leftover /\ Live' = Live
  BY <1>1 DEF Leftover, Live
<1>3. registered' \subseteq registered \cup {item}
  BY DEF Register
<1>4. InSubmit'
  BY <1>1, <1>3 DEF InSubmit, TypeOK
<1>5. item \in Holding
  BY <1>1 DEF Holding
<1>6. PermitsBalance' /\ \A i \in Live : i \in Holding' \cup Leftover'
  <2>1. CASE future[item] = "finished"
    <3>1. permits' = permits + 1 /\ registered' = registered
      BY <2>1 DEF Register, Release
    <3>2. ASSUME NEW i \in Items PROVE i \in Holding' <=> i \in Holding \ {item}
      BY <1>1, <3>1 DEF Holding
    <3>3. Holding' = Holding \ {item}
      BY <3>2 DEF Holding
    <3>4. item \notin Live
      BY <2>1 DEF Live
    <3> QED
      BY <1>1, <1>2, <1>5, <3>1, <3>3, <3>4, GivePermit DEF Futures
  <2>2. CASE future[item] # "finished"
    <3>1. permits' = permits /\ registered' = registered \cup {item}
      BY <2>2 DEF Register
    <3>2. ASSUME NEW i \in Items PROVE i \in Holding' <=> i \in Holding
      BY <1>1, <2>2, <3>1 DEF Holding
    <3>3. Holding' = Holding
      BY <3>2 DEF Holding
    <3> QED
      BY <1>2, <3>1, <3>3, KeepPermits DEF Futures
  <2> QED
    BY <2>1, <2>2
<1>7. Futures'
  BY <1>1, <1>2, <1>3, <1>6 DEF Futures
<1> QED
  BY <1>1, <1>2, <1>4, <1>6, <1>7 DEF LeftoverBounded

LEMMA CancelInv == ASSUME IInv, NEW i \in Items, Cancel(i), TypeOK' PROVE IInv'
<1> USE DEF IInv, loopVars, poolVars
<1>1. /\ pc = "idle" /\ future[i] = "pending" /\ i \in registered
      /\ permits' = permits + 1
      /\ UNCHANGED <<pc, item, registered, busy, refused, spawnFaults>>
  BY DEF Cancel, Release
<1>2. future'[i] = "cancelled" /\ \A j \in Items : j # i => future'[j] = future[j]
  BY DEF Cancel, TypeOK
<1>3. i \in Holding /\ i \notin busy
  BY <1>1 DEF Holding, Futures
<1>4. ASSUME NEW j \in Items PROVE j \in Holding' <=> j \in Holding \ {i}
  BY <1>1, <1>2, <1>3 DEF Holding
<1>5. Holding' = Holding \ {i}
  BY <1>4 DEF Holding
<1>6. PermitsBalance'
  BY <1>1, <1>3, <1>5, GivePermit
<1>7. Leftover' = Leftover
  BY <1>1, <1>2 DEF Leftover, Futures, TypeOK
<1>8. InSubmit'
  BY <1>1 DEF InSubmit
<1>9. Futures'
  <2>1. \A j \in busy' : future'[j] \in {"running", "finished"}
    BY <1>1, <1>2, <1>3 DEF Futures, TypeOK
  <2>2. \A j \in Items : future'[j] = "running" => j \in busy'
    BY <1>1, <1>2 DEF Futures
  <2>3. \A j \in Live' : j \in Holding' \cup Leftover'
    BY <1>2, <1>5, <1>7 DEF Futures, Live
  <2>4. \A j \in registered' : future'[j] # "none"
    BY <1>1, <1>2 DEF Futures, TypeOK
  <2> QED
    BY <1>1, <2>1, <2>2, <2>3, <2>4 DEF Futures
<1> QED
  BY <1>1, <1>6, <1>7, <1>8, <1>9 DEF LeftoverBounded

LEMMA TakeInv == ASSUME IInv, Take, TypeOK' PROVE IInv'
<1> USE DEF IInv, loopVars, poolVars
<1> DEFINE i == Head(queue)
<1>1. i \in Items /\ UNCHANGED <<pc, item, permits, registered, refused, spawnFaults>>
  BY DEF Take, TypeOK
<1>2. CASE future[i] = "pending"
  <2>1. future' = [future EXCEPT ![i] = "running"] /\ busy' = busy \cup {i}
    BY <1>2 DEF Take
  <2>2. future'[i] = "running" /\ \A j \in Items : j # i => future'[j] = future[j]
    BY <1>1, <2>1 DEF TypeOK
  <2> HIDE DEF i
  <2>3. ASSUME NEW j \in Items PROVE j \in Holding' <=> j \in Holding
    BY <1>1, <1>2, <2>1, <2>2 DEF Holding
  <2>4. Holding' = Holding
    BY <2>3 DEF Holding
  <2>5. PermitsBalance'
    BY <1>1, <2>4, KeepPermits
  <2>6. Leftover' = Leftover
    BY <1>1, <1>2, <2>2 DEF Leftover, TypeOK
  <2>7. InSubmit'
    BY <1>1, <1>2, <2>2 DEF InSubmit, TypeOK
  <2>8. Futures'
    <3>1. \A j \in busy' : future'[j] \in {"running", "finished"}
      BY <2>1, <2>2 DEF Futures, TypeOK
    <3>2. \A j \in Items : future'[j] = "running" => j \in busy'
      BY <2>1, <2>2 DEF Futures
    <3>3. \A j \in Live' : j \in Holding' \cup Leftover'
      BY <1>2, <2>2, <2>4, <2>6 DEF Futures, Live
    <3>4. \A j \in registered' : future'[j] # "none"
      BY <1>1, <2>2 DEF Futures, TypeOK
    <3> QED
      BY <1>1, <3>1, <3>2, <3>3, <3>4 DEF Futures
  <2> QED
    BY <1>1, <2>5, <2>6, <2>7, <2>8 DEF LeftoverBounded
<1>3. CASE future[i] # "pending"
  <2>1. UNCHANGED <<future, busy>>
    BY <1>3 DEF Take
  <2> QED
    BY <1>1, <2>1 DEF InSubmit, Futures, PermitsBalance, LeftoverBounded, Holding, Leftover, Live
<1> QED
  BY <1>2, <1>3

LEMMA FinishInv == ASSUME IInv, NEW i \in Items, Finish(i), TypeOK' PROVE IInv'
<1> USE DEF IInv, loopVars, poolVars
<1>1. future[i] = "running" /\ UNCHANGED <<pc, item, permits, registered, busy, refused, spawnFaults>>
  BY DEF Finish
<1>2. future'[i] = "finished" /\ \A j \in Items : j # i => future'[j] = future[j]
  BY DEF Finish, TypeOK
<1>3. i \in busy
  BY <1>1 DEF Futures
<1>4. ASSUME NEW j \in Items PROVE j \in Holding' <=> j \in Holding
  BY <1>1, <1>2, <1>3 DEF Holding
<1>5. Holding' = Holding
  BY <1>4 DEF Holding
<1>6. PermitsBalance'
  BY <1>1, <1>5, KeepPermits
<1>7. Leftover' = Leftover
  BY <1>1, <1>2 DEF Leftover, TypeOK
<1>8. InSubmit'
  BY <1>1, <1>2 DEF InSubmit, TypeOK
<1>9. Futures'
  <2>1. \A j \in busy' : future'[j] \in {"running", "finished"}
    BY <1>1, <1>2 DEF Futures, TypeOK
  <2>2. \A j \in Items : future'[j] = "running" => j \in busy'
    BY <1>1, <1>2 DEF Futures
  <2>3. \A j \in Live' : j \in Holding' \cup Leftover'
    BY <1>2, <1>5, <1>7 DEF Futures, Live
  <2>4. \A j \in registered' : future'[j] # "none"
    BY <1>1, <1>2 DEF Futures, TypeOK
  <2> QED
    BY <1>1, <2>1, <2>2, <2>3, <2>4 DEF Futures
<1> QED
  BY <1>1, <1>6, <1>7, <1>8, <1>9 DEF LeftoverBounded

LEMMA NotifyInv == ASSUME IInv, NEW i \in Items, Notify(i), TypeOK' PROVE IInv'
<1> USE DEF IInv, loopVars, poolVars
<1>1. /\ i \in busy /\ future[i] = "finished" /\ busy' = busy \ {i}
      /\ UNCHANGED <<pc, item, future, registered, refused, spawnFaults>>
  BY DEF Notify
<1>2. Leftover' = Leftover /\ Live' = Live /\ i \notin Live
  BY <1>1 DEF Leftover, Live
<1>3. InSubmit'
  BY <1>1 DEF InSubmit
<1>4. PermitsBalance' /\ \A j \in Live : j \in Holding' \cup Leftover'
  <2>1. CASE i \in registered
    <3>1. permits' = permits + 1
      BY <2>1 DEF Notify, Release
    <3>2. i # item
      BY <2>1 DEF InSubmit
    <3>3. i \in Holding
      BY <1>1, <2>1 DEF Holding
    <3>4. ASSUME NEW j \in Items PROVE j \in Holding' <=> j \in Holding \ {i}
      BY <1>1, <3>2 DEF Holding
    <3>5. Holding' = Holding \ {i}
      BY <3>4 DEF Holding
    <3> QED
      BY <1>2, <3>1, <3>3, <3>5, GivePermit DEF Futures
  <2>2. CASE i \notin registered
    <3>1. permits' = permits
      BY <2>2 DEF Notify
    <3>2. ASSUME NEW j \in Items PROVE j \in Holding' <=> j \in Holding
      BY <1>1, <2>2 DEF Holding
    <3>3. Holding' = Holding
      BY <3>2 DEF Holding
    <3> QED
      BY <1>2, <3>1, <3>3, KeepPermits DEF Futures
  <2> QED
    BY <2>1, <2>2
<1>5. Futures'
  BY <1>1, <1>2, <1>4 DEF Futures, Live
<1> QED
  BY <1>1, <1>2, <1>3, <1>4, <1>5 DEF LeftoverBounded

LEMMA KeepInv ==
    ASSUME IInv, TypeOK',
           UNCHANGED <<pc, item, permits, future, registered, busy, refused, spawnFaults>>
    PROVE  IInv'
<1>1. Holding' = Holding /\ Leftover' = Leftover /\ Live' = Live
  BY DEF Holding, Leftover, Live
<1>2. InSubmit' /\ Futures'
  BY <1>1 DEF IInv, InSubmit, Futures
<1> QED
  BY <1>1, <1>2 DEF IInv, PermitsBalance, LeftoverBounded

-----------------------------------------------------------------------------
LEMMA InitInv == Init => IInv
<1> SUFFICES ASSUME Init PROVE IInv
  OBVIOUS
<1>1. Holding = {} /\ Leftover = {} /\ Live = {}
  BY DEF Init, Holding, Leftover, Live
<1>2. InSubmit /\ Futures
  BY <1>1 DEF Init, InSubmit, Futures
<1>3. PermitsBalance /\ LeftoverBounded
  BY <1>1, FS_EmptySet, ExecutorAssumption DEF Init, PermitsBalance, LeftoverBounded
<1> QED
  BY <1>2, <1>3, TypeInit DEF IInv

LEMMA StepInv == IInv /\ [Next]_vars => IInv'
<1> SUFFICES ASSUME IInv, [Next]_vars PROVE IInv'
  OBVIOUS
<1>1. TypeOK'
  BY TypeStep DEF IInv
<1>2. CASE LoopStep
  BY <1>1, <1>2, AcquireInv, PutInv, SpawnInv, RegisterInv DEF LoopStep
<1>3. CASE WorkerStep
  BY <1>1, <1>3, TakeInv, FinishInv, NotifyInv DEF WorkerStep
<1>4. CASE Shutdown \/ Rest \/ UNCHANGED vars
  BY <1>1, <1>4, KeepInv DEF Shutdown, Rest, vars, loopVars, poolVars
<1>5. ASSUME NEW i \in Items, Submit(i) \/ Cancel(i) PROVE IInv'
  BY <1>1, <1>5, SubmitInv, CancelInv
<1> QED
  BY <1>2, <1>3, <1>4, <1>5 DEF Next

LEMMA Always == Spec => []IInv
BY InitInv, StepInv, PTL DEF Spec

(* Every variable has its type: a number of threads within max_workers, and  *)
(* futures in the states a Future of the pool can be in.                     *)
THEOREM TypeAlways == Spec => []TypeOK
<1>1. IInv => TypeOK
  BY DEF IInv
<1> QED
  BY <1>1, Always, PTL

(* No interleaving of submit, cancellation, failing thread starts, the end of *)
(* items and their callbacks loses a permit or gives one back twice.          *)
THEOREM PermitsAlwaysBalance == Spec => []PermitsBalance
<1>1. IInv => PermitsBalance
  BY DEF IInv
<1> QED
  BY <1>1, Always, PTL

(* Never more than bound + max_workers items are queued or running, but for  *)
(* one for each thread that could not be started.                            *)
THEOREM WorkAlwaysBounded == Spec => []WorkBounded
<1>1. IInv => WorkBounded
  <2> SUFFICES ASSUME IInv PROVE WorkBounded
    OBVIOUS
  <2>1. /\ IsFiniteSet(Holding) /\ Cardinality(Holding) \in Nat
        /\ IsFiniteSet(Leftover) /\ Cardinality(Leftover) \in Nat
    BY FiniteHolding DEF IInv
  <2>2. Live \subseteq Holding \cup Leftover
    BY DEF IInv, Futures
  <2>3. /\ IsFiniteSet(Holding \cup Leftover)
        /\ Cardinality(Holding \cup Leftover) <= Cardinality(Holding) + Cardinality(Leftover)
        /\ Cardinality(Holding \cup Leftover) \in Nat
    <3>1. /\ Cardinality(Holding \cup Leftover) =
               Cardinality(Holding) + Cardinality(Leftover) - Cardinality(Holding \cap Leftover)
          /\ IsFiniteSet(Holding \cup Leftover)
      BY <2>1, FS_Union
    <3>2. Cardinality(Holding \cap Leftover) \in Nat
      BY <2>1, FS_Intersection, FS_CardinalityType
    <3> QED
      BY <2>1, <3>1, <3>2, FS_CardinalityType
  <2>4. Cardinality(Live) <= Cardinality(Holding \cup Leftover) /\ Cardinality(Live) \in Nat
    BY <2>2, <2>3, FS_Subset, FS_CardinalityType
  <2>5. Cardinality(Holding) <= Bound + MaxWorkers /\ Cardinality(Leftover) <= spawnFaults
    BY <2>1, ExecutorAssumption DEF IInv, PermitsBalance, LeftoverBounded, TypeOK
  <2>6. Bound \in Nat /\ MaxWorkers \in Nat /\ spawnFaults \in Nat
    BY ExecutorAssumption DEF IInv, TypeOK
  <2> QED
    BY <2>1, <2>3, <2>4, <2>5, <2>6 DEF WorkBounded, Live
<1> QED
  BY <1>1, Always, PTL
=============================================================================
